SPECIFICATION LiveWaitSpec
CONSTANTS
    PollTimeout = 3
    ResendInputsInterval = 100
    MaxWaitInputsInterval = 10000
    DisconnectTimeoutFrames = 600
INVARIANTS
    ResentInTime
PROPERTIES
    ConnectedIsNotStopped
    WaitEnds
CHECK_DEADLOCK FALSE
