SPECIFICATION Spec
CONSTANTS
    Host = Host
    Client = Client
    NumInputs = 4
    Delays = {1}
    MaxBurst = 1
    MaxInFlight = 2
    MaxFrame = 2
    MaxIndexVersus = 6
    MaxIndexTraining = 8
    MaxIndexLost = 4
INVARIANTS
    TypeOK
    WindowIsCurrent
    SamePath
    SameFrames
    RngSlotIsFilled
    NoMutualWait
    MenuEnds
CHECK_DEADLOCK FALSE
