CONSTANTS
    Seats <- Seats2
    HumanSeats <- OneHuman
    Observer = observer
    ActionIDs = {a, b}
    None = none
    TurnTimeout = TRUE
    PassOutOfTurn = TRUE
    EngineMayFail = FALSE
    MarshalMayFail = FALSE
    MaxMoves = 3
    MaxPauses = 1
    cmdChanSize = 2
SPECIFICATION Spec
INVARIANTS
    DeadlineIsHumanTurn
    ShutdownLosesNoCommand
PROPERTIES
    PausedGameFrozen
    FeedSpec
