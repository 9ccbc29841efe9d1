SPECIFICATION Spec
CONSTANTS
    Host = host
    Clients = {c1, c2}
    None = none
    NumPings = 1
    PortCleared = TRUE
    RoleChoices <- AnyOther
    MaxAccidents = 0
    MaxPings = 1
    c1 = c1
    c2 = c2
INVARIANT
    PortIsTold
CHECK_DEADLOCK FALSE
