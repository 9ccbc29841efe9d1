SPECIFICATION FairSpec
CONSTANTS
  Clients = {c1}
  KeepAliveTicks = 1
  MaxChildren = 2
  MaxMessages = 0
  MaxRaw = 0
  Lossy = TRUE
  Duplicating = FALSE
PROPERTIES
  ConnectSettles
  GoneIsNoticed
CHECK_DEADLOCK FALSE
