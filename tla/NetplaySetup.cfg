SPECIFICATION Spec
CONSTANTS
    Host = host
    Clients = {c1, c2}
    None = none
    NumPings = 2
    PortCleared = FALSE
    RoleChoices <- AnyOther
    MaxAccidents = 2
    MaxPings = 1
    c1 = c1
    c2 = c2
INVARIANTS
    TypeOK
    OneGame
    SameTerms
    NobodyHangs
CHECK_DEADLOCK FALSE
