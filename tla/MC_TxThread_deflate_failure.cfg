CONSTANTS
  NumMsgs = 2
  MsgKinds <- MCMsgKinds
  Sizes <- MCSizes
  ReadBuffer = 2
  CompressThreshold = 2
  CleanupWatermark = 2
  MaxLen = 6
  PollMayFail = FALSE
SPECIFICATION Spec
INVARIANT ExitOnlyOnStopOrTransportError
