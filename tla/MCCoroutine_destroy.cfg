CONSTANTS
  Coroutines = {a, b, c}
  Dummy = Dummy
  NULL = NULL
  NDEBUG = FALSE
  Uses = {"process", "finish"}
SYMMETRY Symmetry
SPECIFICATION Spec
INVARIANT PendingAllocated
CHECK_DEADLOCK FALSE
