SPECIFICATION FairSpec
CONSTANTS
  Writer = {w1, w2}
  Reader = {r1}
  NoTask = NoTask
  BufSize = 3
  Burst = 2
  ReadLen = 2
  IndexFirst = FALSE
  FifoSize = 2
  MaxWrites = 2
  MaxBytes = 3
INVARIANTS TypeOK TxInOrder RxInOrder
PROPERTIES WritesComplete ReadsReturn
CHECK_DEADLOCK FALSE
