CONSTANTS
  Sizes = {0, 1, 3, 11}
  Lengths = {1, 2}
  Links = {3, 15, 40}
  Failing = {"malloc", "realloc", "readlink", "bfd", "asprintf", "strings"}
  Empty = {"table", "none"}
SPECIFICATION Spec
INVARIANTS TypeOK OnlyTablesLeak NameWhole LinesFit
