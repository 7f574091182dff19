SPECIFICATION FairSpec
CONSTANTS
    None = None
    Conns = {c1, c2}
    cmdChanSize = 2
    subChanSize = 1
    outChSize = 1
    ShutsDown = TRUE
INVARIANTS
    ChannelsHaveOneOwner
    PausedGameIsWatched
PROPERTIES
    ConnectionEnds
CHECK_DEADLOCK FALSE
