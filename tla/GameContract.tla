---------------------------- MODULE GameContract ----------------------------
(***************************************************************************)
(* What the session goroutine may rely on when it drives a session.Game:   *)
(* the outcome a step may have, which calls are legal after it, and when a *)
(* fresh deal waits to be shown.  Cards, rules and scores are behind it.   *)
(***************************************************************************)
CONSTANT Seats \* seats of the table

VARIABLES
    outcome,     \* StepOutcome of the last step that mutated the game
    turn,        \* Turn()
    dealPending  \* DealPending()

vars == <<outcome, turn, dealPending>>

Outcomes == {"StepContinue", "StepPause", "StepFinished"}

Init ==
    /\ outcome = "StepContinue"
    /\ turn \in Seats
    /\ dealPending \in BOOLEAN

(* A step that ends the game leaves the turn where it was. *)
becomes(o) ==
    /\ outcome' = o
    /\ turn' \in Seats
    /\ o = "StepFinished" => turn' = turn

(* HandleAction or AIPlay: only of a game in progress whose deal was shown. *)
Move ==
    /\ outcome = "StepContinue" /\ ~dealPending
    /\ \E o \in Outcomes : becomes(o)
    /\ dealPending' = FALSE

(* Resume: only of a paused game; only a game that goes on has a new deal. *)
Resume ==
    /\ outcome = "StepPause"
    /\ \E o \in Outcomes : becomes(o)
    /\ dealPending' \in BOOLEAN
    /\ dealPending' => outcome' = "StepContinue"

(* DisplayDelay takes note that the deal is being shown. *)
ShowDeal ==
    /\ dealPending
    /\ dealPending' = FALSE
    /\ UNCHANGED <<outcome, turn>>

Next == Move \/ Resume \/ ShowDeal

Spec == Init /\ [][Next]_vars

=============================================================================
