SPECIFICATION Spec
CONSTANTS
    Input = {0, 1}
    CarriedInput = 0
    Deciding <- FirstHits
    StartRollback <- Rollback1
    StartDelay <- Delay10
    MaxRollback = 2
    MaxDelay = 1
    NumInputs = 7
    PoolSize = 2
    RoundOverDelay = 1
    MaxFrame = 8
    MaxPresses <- OneNone
    MaxChanges = 1
INVARIANTS
    TypeOK
    KnownIsActual
    RoundEndIsReal
    PastIsRepaired
    ResendEndsWait
CHECK_DEADLOCK FALSE
