SPECIFICATION Spec
CONSTANTS
    None = None
    Ids = {g1, g2}
    Seats = {north, south}
    Tokens = {t1, t2, t3, t4}
    Handlers = {h1}
    Delays = {slow, minus}
    Negative = {minus}
SYMMETRY Interchangeable
INVARIANTS
    TokenIndexAgrees
    EntryFollowsGoroutine
    HeldTokensKeepTheirSeat
PROPERTIES
    LifecycleForward
    TokenSpec
CHECK_DEADLOCK FALSE
