SPECIFICATION PartSpec
CONSTANTS
  QSize = 8
  Heap = 4
  Deadline = TRUE
  MaxBlocks = 4
  MaxRounds = 0
  ShortQSize = 3
  KeepRounds = 1
INVARIANTS TypeOK NoSharedBuffer BlocksReturn NoDangling NothingMissed RoomForReply
PROPERTIES Started AllReturned
