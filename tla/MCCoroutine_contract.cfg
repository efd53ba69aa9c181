CONSTANTS
  Coroutines = {a, b, c}
  Dummy = Dummy
  NULL = NULL
  NDEBUG = FALSE
  Uses = {"process"}
SPECIFICATION LiveSpec
INVARIANTS MemorySafe FinishedIsFreed
PROPERTY PendingIsRunAtLast
CHECK_DEADLOCK FALSE
