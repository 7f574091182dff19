\* Two AIs and two humans after them, hands of three cards, up to three rounds.
SPECIFICATION FairSpec
CONSTANTS
    NumPlayers = 4
    HandSize = 3
    HumanSeats = {2, 3}
    SeatConfigs <- MCSeatConfigs
    MaxRounds = 3
INVARIANTS
    TurnHasNotPassed
    StaleSeatCanPlay
    ShownIsTrue
PROPERTIES
    PhasesFollowProtocol
    ContractSpec
    GameEnds
CHECK_DEADLOCK FALSE
