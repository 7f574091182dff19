---------------------------- MODULE SnapshotFeed ----------------------------
(***************************************************************************)
(* What a session promises its subscribers: a feed of numbered snapshots   *)
(* in which a number stands for one view of the game only, numbers grow by *)
(* one, and everyone connected has been sent the latest.  A subscriber     *)
(* joins at the latest snapshot, whenever it joins.                        *)
(***************************************************************************)
EXTENDS Naturals

CONSTANT Subscribers

VARIABLES
    number,  \* number of the latest snapshot; 0 before the first
    view,    \* what it shows
    seen,    \* per subscriber, number of the last snapshot sent; 0: not connected
    open     \* the session has not been deleted

vars == <<number, view, seen, open>>

Init ==
    /\ number = 0
    /\ seen = [s \in Subscribers |-> 0]
    /\ open = TRUE

(* A new snapshot goes to everyone connected, but for those that just left. *)
Publish ==
    /\ open
    /\ number' = number + 1
    /\ \E gone \in SUBSET Subscribers :
         seen' = [s \in Subscribers |-> IF seen[s] = 0 \/ s \in gone THEN 0 ELSE number']
    /\ UNCHANGED open

Join(s) ==
    /\ open
    /\ number # 0
    /\ seen' = [seen EXCEPT ![s] = number]
    /\ UNCHANGED <<number, view, open>>

Leave(s) ==
    /\ open
    /\ seen' = [seen EXCEPT ![s] = 0]
    /\ UNCHANGED <<number, view, open>>

DropAll ==
    /\ open
    /\ seen' = [s \in Subscribers |-> 0]
    /\ UNCHANGED <<number, view, open>>

Close ==
    /\ open
    /\ open' = FALSE
    /\ UNCHANGED <<number, view, seen>>

(* Nothing is promised of a deleted session, except that it stays deleted. *)
AfterClose == ~open /\ UNCHANGED open

Next ==
    \/ Publish \/ Close \/ DropAll \/ AfterClose
    \/ \E s \in Subscribers : Join(s) \/ Leave(s)

Spec == Init /\ [][Next]_vars

=============================================================================
