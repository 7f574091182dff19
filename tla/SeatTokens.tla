----------------------------- MODULE SeatTokens -----------------------------
(***************************************************************************)
(* What the registry of sessions promises about seat tokens (doc/api.md,   *)
(* "Seat Tokens"): a token is issued once, for one seat of one session;    *)
(* the tokens of a session are issued together and replace all the former  *)
(* ones; a session that is closed has none and gets none again.            *)
(***************************************************************************)

CONSTANTS Ids, Seats, Tokens

VARIABLES
    valid,   \* the tokens that resolve, each with its session and seat
    used,    \* every token ever issued
    closed   \* sessions that are over for good

tokenVars == <<valid, used, closed>>

Grant == [token : Tokens, session : Ids, seat : Seats]

of(id) == {r \in valid : r.session = id}

Issue(id) ==
    /\ id \notin closed
    /\ \E new \in SUBSET {r \in Grant : r.session = id /\ r.token \notin used} :
        /\ \A q, r \in new : q # r => q.token # r.token /\ q.seat # r.seat
        /\ valid' = (valid \ of(id)) \cup new
        /\ used' = used \cup {r.token : r \in new}
    /\ UNCHANGED closed

Close(id) ==
    /\ valid' = valid \ of(id)
    /\ closed' = closed \cup {id}
    /\ UNCHANGED used

TokenInit == valid = {} /\ used = {} /\ closed = {}

TokenNext == \E id \in Ids : Issue(id) \/ Close(id)

TokenSpec == TokenInit /\ [][TokenNext]_tokenVars
=============================================================================
