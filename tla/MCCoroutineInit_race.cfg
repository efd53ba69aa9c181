CONSTANTS
  Threads = {s, t}
  Coroutines = {a, b}
  Serial = FALSE
  MaxSignals = 0
SYMMETRY Symmetry
SPECIFICATION Spec
INVARIANTS ActionRestored
CHECK_DEADLOCK FALSE
