--------------------------- MODULE MCHeartsAdapter ---------------------------
(* Four seats, two of them human, and short hands for HeartsAdapter. *)
EXTENDS HeartsAdapter

seat(t, a) == [type |-> t, aiType |-> a]

(* Two tables that can be played and two that are refused. *)
MCSeatConfigs == {
    <<seat("ai", "random"), seat("ai", "heuristic"), seat("human", ""), seat("human", "pimc")>>,
    <<seat("ai", ""), seat("ai", "random"), seat("human", ""), seat("human", "")>>,
    <<seat("human", ""), seat("human", "")>>,
    <<seat("ai", "pimc"), seat("ai", "random"), seat("human", "heuristic"), seat("human", "")>>}

=============================================================================
