\* Stop and refinement: two PDUs, a peer that keeps reading (FairPeerSpec).
\* The cleanup policy is a constant formula, evaluated once, over every
\* queue of up to 6 entries of every kind (MaxLen).
\* compress_threshold 0 disables compression, the configuration in which the
\* delivery path claims to implement DeliveryChannel (with compression on, a
\* deflate failure abandons PDUs: see tx_deflate_failure).
CONSTANTS
  NumMsgs = 2
  MsgKinds <- MCMsgKinds
  Sizes <- MCSizes
  ReadBuffer = 2
  CompressThreshold = 0
  CleanupWatermark = 2
  MaxLen = 6
  PollMayFail = FALSE
SPECIFICATION FairPeerSpec
INVARIANT CleanupMatchesPolicy
PROPERTY StopCompletes ChannelSpec
