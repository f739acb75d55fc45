SPECIFICATION Spec
CONSTANTS
  Core = {arm, sharc0}
  Master = arm
  Level = {0, 1}
  IrqLevel = 1
  Msg = {m1}
  NoMsg = NoMsg
  Kind = {"user", "stream", "unknown"}
  Signal = {TRUE}
  Sends <- SendReply
  QSize = 2
  RefMax = 7
  MaxRefs = 2
INVARIANTS RefCount NoUseAfterFree MutualExclusion NoLostWakeup IndInv
PROPERTY ImplementsMsgBus
VIEW LiveView
