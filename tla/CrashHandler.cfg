CONSTANTS
  Threads = {t1, t2}
  Last = 2
  None = None
  MaxSignals = 2
SPECIFICATION Spec
INVARIANTS NoSecondTrace SameForAll
CHECK_DEADLOCK FALSE
