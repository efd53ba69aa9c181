CONSTANTS
  Threads = {s, t}
  Coroutines = {a, b}
  Serial = TRUE
  MaxSignals = 2
SPECIFICATION LiveSpec
INVARIANTS ActionRestored ThreadRestored Ready NoLeak
PROPERTY CreateReturns
CHECK_DEADLOCK FALSE
