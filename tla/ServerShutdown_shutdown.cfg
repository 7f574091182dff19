\* Two observers of one session.
SPECIFICATION FairSpec
CONSTANTS
    Conns = {c1, c2}
    Sessions = {s1}
    None = None
INVARIANTS
    NobodyIsMissed
    ShutdownIsSaid
    ListedSessionsStop
PROPERTIES
    ConnectionEnds
CHECK_DEADLOCK FALSE
