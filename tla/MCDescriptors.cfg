CONSTANTS
  Threads = {t1, t2}
  Fds = {0, 1, 2}
  Files = {f1, f2}
  None = None
  MaxInterrupts = 1
SPECIFICATION Spec
INVARIANTS OthersKept CloseDone ConnectTold NotInherited
SYMMETRY Symmetry
CONSTRAINT Unharmed
CHECK_DEADLOCK FALSE
