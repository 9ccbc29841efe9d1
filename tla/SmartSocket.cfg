SPECIFICATION FairSpec
CONSTANTS
    Host = host
    Clients = {c1, c2}
    None = none
    NumRelays = 2
    Breaks <- HostAndOne
    c1 = c1
    c2 = c2
INVARIANTS
    TypeOK
PROPERTIES
    SameMatch
    ClientSettles
CHECK_DEADLOCK FALSE
