SPECIFICATION Spec
CONSTANTS
  Writer = {w1, w2}
  Reader = {r1}
  NoTask = NoTask
  BufSize = 3
  Burst = 2
  ReadLen = 2
  IndexFirst = TRUE
  FifoSize = 2
  MaxWrites = 2
  MaxBytes = 3
INVARIANT TxInOrder
CHECK_DEADLOCK FALSE
