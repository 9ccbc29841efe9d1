SPECIFICATION Spec
CONSTANTS
    Host = host
    Clients = {c1, c2}
    None = none
    NumRelays = 2
    Breaks = {}
PROPERTIES
    LossIsReported
CHECK_DEADLOCK FALSE
