CONSTANTS
    Seats <- Seats3
    HumanSeats <- TwoHumans
    Observer = observer
    ActionIDs = {a}
    None = none
    TurnTimeout = TRUE
    PassOutOfTurn = TRUE
    EngineMayFail = FALSE
    MarshalMayFail = FALSE
    MaxMoves = 3
    MaxPauses = 1
    cmdChanSize = 2
SPECIFICATION Spec
INVARIANTS
    TurnMeaningful
    EveryCallerIsOwed
