SPECIFICATION Spec
CONSTANTS
    Game = {0, 1}
    NumStates = 4
    RenewsLost = FALSE
    MaxFrame = 7
INVARIANTS
    TypeOK
    EverySlotOnce
PROPERTIES
    SavedStatesSpec
