CONSTANTS
  Readers = {r}
  Total = 3
  Capacity = 2
  Counts = {0, 2, 3}
  Timeouts <- LongTimeouts
  MaxInterrupts = 2
SPECIFICATION LiveSpec
INVARIANTS ReadyWhenRead
PROPERTIES TimedReadReturns ClosedReadReturns
CHECK_DEADLOCK FALSE
