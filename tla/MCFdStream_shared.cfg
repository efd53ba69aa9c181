CONSTANTS
  Readers = {r, q}
  Total = 3
  Capacity = 2
  Counts = {0, 2, 3}
  Timeouts <- ShortTimeouts
  MaxInterrupts = 1
SYMMETRY Symmetry
SPECIFICATION Spec
INVARIANTS Conserved FdPassedOnce ShortIsEnd
CHECK_DEADLOCK FALSE
