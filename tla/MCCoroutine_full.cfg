CONSTANTS
  Coroutines = {a, b, c}
  Dummy = Dummy
  NULL = NULL
  NDEBUG = TRUE
  Uses = {"process", "finish"}
SYMMETRY Symmetry
SPECIFICATION Spec
INVARIANTS CallChain NotReachable ActiveIsAllocated PendingKept
CHECK_DEADLOCK FALSE
PROPERTY ImplementsScheduler
