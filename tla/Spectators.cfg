SPECIFICATION Spec
CONSTANTS
    NumInputs = 4
    Sockets = {s1, s2}
    MaxSpectators = 2
    PreserveBuffer = 1
    Rollbacks = {FALSE}
    FramesOf <- Frames
    JoinFrames <- SomeFrames
    MaxJoinIndex = 6
    MaxIndex = 7
    MaxInFlight = 1
SYMMETRY Symmetry
INVARIANTS
    TypeOK
    SpectatorIsKept
    NothingIsSkipped
    SeesTheGame
CHECK_DEADLOCK FALSE
