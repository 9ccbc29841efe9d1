SPECIFICATION FairSpec
CONSTANTS
  A = A
  B = B
  KeepAlive = FALSE
  KeepAliveTicks = 0
  MaxMessages <- TwoAndNone
  MaxPieces = 2
  MaxDuplicates = 1
INVARIANTS
  Inductive
PROPERTIES
  WindowSlides
  ChannelSpec
  EventuallyAcknowledged
  ChannelFairSpec
CHECK_DEADLOCK FALSE
