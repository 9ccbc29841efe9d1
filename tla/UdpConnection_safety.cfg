SPECIFICATION Spec
CONSTANTS
  Clients = {c1}
  KeepAliveTicks = 1
  MaxChildren = 2
  MaxMessages = 1
  MaxRaw = 1
  Lossy = FALSE
  Duplicating = TRUE
INVARIANTS
  TypeOK
  AcceptedWasConnected
  ClosedIsSilent
  StreamsIntact
CHECK_DEADLOCK FALSE
