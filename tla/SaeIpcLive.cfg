SPECIFICATION LiveSpec
CONSTANTS
  Core = {arm, sharc0}
  Master = arm
  Level = {0, 1, 2}
  IrqLevel = 1
  Msg = {m1}
  NoMsg = NoMsg
  Kind = {"user"}
  Signal = {TRUE}
  Sends <- SendReply
  QSize = 2
  RefMax = 7
  MaxRefs = 2
  MaxCalls = 5
INVARIANT NoSelfDeadlock
PROPERTIES CallsReturn MessagesDelivered
CHECK_DEADLOCK FALSE
