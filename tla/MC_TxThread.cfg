CONSTANTS
  NumMsgs = 3
  MsgKinds <- MCMsgKinds
  Sizes <- MCSizes
  ReadBuffer = 2
  CompressThreshold = 2
  CleanupWatermark = 2
  MaxLen = 6
  PollMayFail = TRUE
SPECIFICATION Spec
INVARIANT TypeOK
INVARIANT CriticalInOrder
INVARIANT NoDuplicatePdu
INVARIANT SourceInfoMonotonic
INVARIANT LatestSourceInfoKept
