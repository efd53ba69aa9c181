CONSTANTS
  Sizes = {0, 1, 3}
  Lengths = {1, 2}
  Links = {3, 15, 40}
  Failing = {"malloc", "realloc", "readlink", "bfd", "asprintf", "strings"}
  Empty = {"none"}
SPECIFICATION Spec
INVARIANT FailureReturns
