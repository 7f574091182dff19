CONSTANTS
    Seats <- Seats2
    HumanSeats <- OneHuman
    Observer = observer
    ActionIDs = {a}
    None = none
    TurnTimeout = TRUE
    PassOutOfTurn = TRUE
    EngineMayFail = TRUE
    MarshalMayFail = TRUE
    MaxMoves = 2
    MaxPauses = 1
    cmdChanSize = 1
SPECIFICATION FairSpec
INVARIANTS
    EndedHasNoSubscribers
    EndIsNoted
PROPERTIES
    SubmitReturns
    DeleteStopsGoroutine
    EndIsRecorded
