SPECIFICATION PartsSpec
CONSTANTS
  Shapes <- StreamShapes
  Shells = {s1}
  TaskId = TaskId
  Unheld = Unheld
  Samples = 5
  FileChunk = 2
  Packets = {1, 2}
  Packet = 2
  RingSize = 4
  Tasks = {t1, t2}
  MaxFds = 2
  MaxFatFs = 2
  Devices = {card, flash}
  Card = card
  Nothing = Nothing
  Writers = {w1, w2}
  Dumpers = {d1, d2}
  Nobody = Nobody
  MaxLines = 3
  Max = 3
  MaxSeq = 5
  Callers = {c1, c2}
  None = None
  BufSize = 4
  DmaSize = 2
  Lengths = {1, 2, 3}
  Bytes = 5
  Users = {u1, u2}
  Unlocked = Unlocked
  TWI_MAX_DCNT = 4
  MaxLength = 7
  UsbRingSize = 8
  Block = 2
  Nominal = 2
  FillLevel = 4
  Frames = 9
  NumBuffers = 3
  NumDesc = 3
  Threshold = 2
  MaxLost = 1
INVARIANTS TypesOK FilesReached LogAccounted SerialInOrder TransfersExact FramesKept
PROPERTIES StreamsAreFifos Progress
CHECK_DEADLOCK FALSE
