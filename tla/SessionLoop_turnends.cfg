CONSTANTS
    Seats <- Seats2
    HumanSeats <- OneHuman
    Observer = observer
    ActionIDs = {a}
    None = none
    TurnTimeout = TRUE
    PassOutOfTurn = TRUE
    EngineMayFail = FALSE
    MarshalMayFail = FALSE
    MaxMoves = 2
    MaxPauses = 0
    cmdChanSize = 1
SPECIFICATION FairSpec
PROPERTIES
    TurnEnds
