---------------------------- MODULE SessionLoop ----------------------------
(***************************************************************************)
(* The session goroutine of internal/server/session: one goroutine owns    *)
(* one game, reads commands from a bounded channel and broadcasts numbered *)
(* snapshots.  Every value of pc is a point where the goroutine may be     *)
(* seen by another one: a select it blocks in, or the gap between two      *)
(* calls.  The game is the contract of the session.Game interface; the     *)
(* Manager is reduced to what it does to this one session.                 *)
(*                                                                         *)
(* A display or pacing delay of zero is a timer that fires at once, so     *)
(* its behaviours are among those of a positive delay and delays are not   *)
(* parameters.  Time is abstract: an armed timer may fire at any moment.   *)
(***************************************************************************)
EXTENDS Integers, Sequences

CONSTANTS
    Seats,          \* seats of the table
    HumanSeats,     \* seats configured "human"; the others are AI seats
    Observer,       \* a read-only subscriber
    ActionIDs,      \* action_id values clients put on gameplay commands
    None,           \* no seat, no action_id
    TurnTimeout,    \* TRUE iff turn_timeout_ms > 0
    PassOutOfTurn,  \* TRUE iff the game takes some actions in any order
    EngineMayFail,  \* TRUE iff AIPlay, Resume or Turn may report an error
    MarshalMayFail, \* TRUE iff marshaling a snapshot may fail
    MaxMoves,       \* length of the longest game, in engine steps
    MaxPauses,      \* bound on the pause commands clients send
    cmdChanSize     \* capacity of the command channel

ASSUME SeatsAssumption ==
    /\ HumanSeats \subseteq Seats
    /\ Observer \notin Seats
    /\ None \notin Seats \cup ActionIDs

ASSUME SwitchAssumption ==
    {TurnTimeout, PassOutOfTurn, EngineMayFail, MarshalMayFail} \subseteq BOOLEAN

ASSUME BoundAssumption ==
    /\ MaxMoves \in Nat \ {0}
    /\ MaxPauses \in Nat
    /\ cmdChanSize \in Nat \ {0}

VARIABLES
    pc,              \* where the goroutine is
    callers,         \* frames that called driveTurns, innermost first
    aiSeat,          \* processTurns' local seat
    game,            \* the game adapter
    seq,             \* snapshot sequence number
    waitingForHuman,
    paused,
    finished,
    actionIDs,       \* ids in the replay cache
    dealSnapshots,   \* {} or the one cached deal view
    cmds,            \* the command channel
    deferred,        \* commands put aside during the deal window
    subs,            \* per subscriber, seq of the last snapshot sent; 0: none
    sent,            \* the last live snapshot sent to anyone
    outstanding,     \* seats blocked in SubmitAction (they hold RLock)
    joining,         \* subscribers whose channel is still in cmds
    state,           \* the Manager's state of this session
    cancel,          \* the cancel channel is closed
    notify,          \* onDone's goroutine is spawned and has not asked for the lock
    writers,         \* callers of Lock on the Manager's RWMutex, waiting or in
    pauses           \* pause commands sent so far

control == <<pc, callers, aiSeat>>
table   == <<game, seq, waitingForHuman, paused, actionIDs>>
feed    == <<subs, sent, finished, notify>>
queues  == <<cmds, deferred>>
callersOf == <<outstanding, joining>>
manager == <<state, cancel, pauses, writers>>
vars == <<control, table, feed, queues, callersOf, manager, dealSnapshots>>

Subscribers == HumanSeats \cup {Observer}
Outcomes    == {"StepContinue", "StepPause", "StepFinished"}
Waits       == {"awaitDealWindow", "aiPacing", "pauseDelay", "resumeDelay",
                "redealDelay", "finishWithGrace", "select"}
Exiting     == {"drainCmds", "closeDone", "exited"}
Locations   == Waits \cup Exiting
               \cup {"run", "replayDeferred", "processTurns", "aiPlay"}

(* The adapter: the outcome of its last step, whose turn it is, whether a
   deal waits to be shown, the steps taken, and whether the turn deadline
   it puts in snapshots is set. *)
Game == [outcome : Outcomes, turn : Seats, dealPending : BOOLEAN,
         moves : Nat, deadline : BOOLEAN]
View == [game : Game, paused : BOOLEAN]
Frame == [pc : {"select", "replayDeferred", "aiPlay"}, seat : Seats \cup {None}]

viewOf(g, p) == [game |-> g, paused |-> p]

(* A playCmd of a human seat, or a subscription command. *)
isPlay(c) == c.kind \in {"action", "pause", "resume"}
Command ==
    {c \in [kind : {"action", "pause", "resume", "subscribe", "unsubscribe"},
            who : Subscribers, seq : Nat, id : ActionIDs \cup {None}] :
        /\ isPlay(c) => c.who \in HumanSeats
        /\ c.kind = "action" => c.id \in ActionIDs}

(* What one mutating engine step may lead to.  The deadline is cleared: every
   caller of a step clears it next. *)
enginePosts(g, deals) ==
    {h \in [outcome : Outcomes, turn : Seats, dealPending : deals,
            moves : {g.moves + 1}, deadline : {FALSE}] :
        /\ h.outcome = "StepFinished" => h.turn = g.turn
        /\ h.outcome # "StepContinue" => ~h.dealPending
        /\ h.moves >= MaxMoves => h.outcome = "StepFinished"}

(* HandleAction accepts the seat whose turn it is; a game may also take an
   action that ends nothing, such as a Hearts pass, from any other seat. *)
HandleAction(seat) ==
    {h \in enginePosts(game, {FALSE}) :
        /\ game.outcome = "StepContinue"
        /\ seat = game.turn \/ (PassOutOfTurn /\ h.outcome = "StepContinue")}

AIPlay == {h \in enginePosts(game, {FALSE}) : game.outcome = "StepContinue"}

Resume == {h \in enginePosts(game, BOOLEAN) : game.outcome = "StepPause"}

scheduleTurnDeadlineForAI(g) == \* mutant: AI turns get a deadline too
    [g EXCEPT !.deadline = TurnTimeout]

scheduleTurnDeadline(g) == [g EXCEPT !.deadline = TurnTimeout /\ g.turn \in HumanSeats]

-----------------------------------------------------------------------------
(* Snapshots. *)

closeSubscribers == subs' = [s \in Subscribers |-> 0]

terminateLeavingSubscribers == \* mutant: subscribers are not closed
    /\ MarshalMayFail
    /\ notify' = TRUE
    /\ finished' = TRUE
    /\ UNCHANGED <<subs, sent>>

terminateOnMarshalFailure ==
    /\ MarshalMayFail
    /\ closeSubscribers
    /\ notify' = TRUE
    /\ finished' = TRUE
    /\ UNCHANGED sent

(* Send view v, numbered n, to everyone registered in r. *)
broadcastSnapshot(v, n, r) ==
    \/ /\ sent' = [seq |-> n, view |-> v]
       /\ subs' = [s \in Subscribers |-> IF r[s] = 0 THEN 0 ELSE n]
       /\ UNCHANGED <<finished, notify>>
    \/ terminateOnMarshalFailure

(* The tail shared by every accepted engine step: stamp the next deadline,
   advance seq, broadcast.  A deal still pending after the broadcast is
   consumed by the DisplayDelay call that follows it. *)
publishStep(h, schedule) ==
    LET g == IF schedule THEN scheduleTurnDeadline(h) ELSE h IN
    /\ game' = [g EXCEPT !.dealPending = FALSE]
    /\ waitingForHuman' = IF schedule THEN g.deadline ELSE waitingForHuman
    /\ seq' = seq + 1
    /\ broadcastSnapshot(viewOf(g, paused), seq + 1, subs)

driveFatal ==
    /\ closeSubscribers
    /\ notify' = TRUE
    /\ finished' = TRUE
    /\ UNCHANGED sent

-----------------------------------------------------------------------------
(* driveTurns and its callers.  driveTurns is entered with a frame saying
   where its caller goes on; its result is ignored by every caller but run,
   which only looks at finished. *)

goTo(p) == pc' = p /\ UNCHANGED <<callers, aiSeat>>

driveAfterAnyStep(outcome) == \* mutant: a pause is driven like a turn
    pc' = IF outcome = "StepFinished" THEN "finishWithGrace" ELSE "processTurns"

driveAfter(outcome) ==
    pc' = [StepContinue |-> "processTurns", StepPause |-> "pauseDelay",
           StepFinished |-> "finishWithGrace"][outcome]

driveTurnsFrom(ret, outcome) ==
    /\ callers' = <<[pc |-> ret, seat |-> aiSeat]>> \o callers
    /\ aiSeat' = None
    /\ driveAfter(outcome)

driveReturn ==
    /\ callers # << >>
    /\ pc' = Head(callers).pc
    /\ aiSeat' = Head(callers).seat
    /\ callers' = Tail(callers)

-----------------------------------------------------------------------------
(* Command handlers.  ret is where the goroutine goes on after handleCommand;
   w is the value waitingForHuman has when the command reaches its handler. *)

answerForgotten(c) == UNCHANGED callersOf \* mutant: resp is never closed

answer(c) == outstanding' = outstanding \ {c.who} /\ UNCHANGED joining

silent == UNCHANGED feed

(* A gameplay command that changes nothing: behind the server, already
   applied, sent while paused, or rejected by the game.  Only the first sends
   a snapshot, through the reply. *)
refusePlay(c, ret, w) ==
    /\ waitingForHuman' = w
    /\ UNCHANGED <<game, seq, paused, actionIDs>>
    /\ goTo(ret)
    /\ \/ /\ c.seq < seq
          /\ \/ /\ sent' = [seq |-> seq, view |-> viewOf(game, paused)]
                /\ UNCHANGED <<subs, finished, notify>>
             \/ terminateOnMarshalFailure
       \/ c.seq >= seq /\ c.id \in actionIDs /\ silent
       \/ c.seq >= seq /\ c.id \notin actionIDs /\ paused /\ silent
       \/ c.seq >= seq /\ c.id \notin actionIDs /\ ~paused /\ silent

handleAcceptedAction(c, h, ret) ==
    /\ publishStep(h, h.outcome # "StepFinished")
    /\ actionIDs' = IF finished' THEN actionIDs ELSE actionIDs \cup {c.id}
    /\ UNCHANGED paused
    /\ driveTurnsFrom(ret, h.outcome)

acceptableWhilePaused(c) == \* mutant: no paused guard
    c.seq >= seq /\ c.id \notin actionIDs

acceptable(c) == c.seq >= seq /\ c.id \notin actionIDs /\ ~paused

handlePlay(c, ret, w) ==
    /\ c.kind = "action"
    /\ answer(c)
    /\ \/ refusePlay(c, ret, w)
       \/ /\ acceptable(c)
          /\ \E h \in HandleAction(c.who) : handleAcceptedAction(c, h, ret)

multiHuman == \E h, k \in HumanSeats : h # k

handlePauseCmd(c, ret) ==
    /\ c.kind = "pause"
    /\ answer(c)
    /\ goTo(ret)
    /\ UNCHANGED <<waitingForHuman, actionIDs>>
    /\ \/ /\ multiHuman \/ ~waitingForHuman \/ paused
          /\ UNCHANGED <<game, seq, paused>>
          /\ silent
       \/ /\ ~multiHuman /\ waitingForHuman /\ ~paused
          /\ paused' = TRUE
          /\ game' = [game EXCEPT !.deadline = FALSE]
          /\ seq' = seq + 1
          /\ broadcastSnapshot(viewOf(game', TRUE), seq + 1, subs)

unpauseAtSameSeq(r) == \* mutant: the resumed game reuses the paused seq
    /\ paused' = FALSE
    /\ game' = [game EXCEPT !.deadline = waitingForHuman /\ TurnTimeout]
    /\ UNCHANGED seq
    /\ broadcastSnapshot(viewOf(game', FALSE), seq, r)

(* What handleResumeCmd and autoUnpause share; r are the subscribers left. *)
unpause(r) ==
    /\ paused' = FALSE
    /\ game' = [game EXCEPT !.deadline = waitingForHuman /\ TurnTimeout]
    /\ seq' = seq + 1
    /\ broadcastSnapshot(viewOf(game', FALSE), seq + 1, r)

handleResumeCmd(c, ret) ==
    /\ c.kind = "resume"
    /\ answer(c)
    /\ goTo(ret)
    /\ UNCHANGED <<waitingForHuman, actionIDs>>
    /\ \/ /\ ~paused \/ multiHuman
          /\ UNCHANGED <<game, seq, paused>>
          /\ silent
       \/ paused /\ ~multiHuman /\ unpause(subs)

(* A new subscriber gets the deal view while it is cached, else a fresh one.
   A seat's previous channel is closed and replaced. *)
handleSubscribe(c, ret) ==
    /\ c.kind = "subscribe"
    /\ joining' = joining \ {c.who}
    /\ goTo(ret)
    /\ UNCHANGED <<table, outstanding>>
    /\ \/ /\ \E v \in IF dealSnapshots = {} THEN {viewOf(game, paused)} ELSE dealSnapshots :
                sent' = [seq |-> seq, view |-> v]
          /\ subs' = [subs EXCEPT ![c.who] = seq]
          /\ UNCHANGED <<finished, notify>>
       \/ dealSnapshots = {} /\ terminateOnMarshalFailure

handleUnsubscribe(c, ret) ==
    /\ c.kind = "unsubscribe"
    /\ goTo(ret)
    /\ UNCHANGED <<callersOf, waitingForHuman, actionIDs>>
    /\ LET left == [subs EXCEPT ![c.who] = 0] IN
       \/ /\ paused /\ c.who \in HumanSeats
          /\ unpause(left)
       \/ /\ ~(paused /\ c.who \in HumanSeats)
          /\ subs' = left
          /\ UNCHANGED <<game, seq, paused, sent, finished, notify>>

handleCommand(c, ret, w) ==
    \/ handlePlay(c, ret, w)
    \/ handlePauseCmd(c, ret)
    \/ handleResumeCmd(c, ret)
    \/ handleSubscribe(c, ret)
    \/ handleUnsubscribe(c, ret)

-----------------------------------------------------------------------------
(* The goroutine.  at(p): it is at p and nothing has ended the session; once
   finished is set every caller on the way out checks it and returns. *)

at(p) == pc = p /\ ~finished

receive == cmds # << >> /\ cmds' = Tail(cmds)

(* run with a fresh deal: broadcast it, keep its view for late subscribers,
   let DisplayDelay consume the pending flag and open the window. *)
RunDealPhase ==
    /\ at("run")
    /\ game.dealPending
    /\ broadcastSnapshot(viewOf(game, paused), seq, subs)
    /\ dealSnapshots' = {viewOf(game, paused)}
    /\ game' = [game EXCEPT !.dealPending = FALSE]
    /\ goTo("awaitDealWindow")
    /\ UNCHANGED <<seq, waitingForHuman, paused, actionIDs, queues, callersOf, manager>>

(* run without a deal: the first snapshot is already actionable. *)
RunNoDeal ==
    /\ at("run")
    /\ ~game.dealPending
    /\ game' = scheduleTurnDeadline(game)
    /\ waitingForHuman' = game'.deadline
    /\ broadcastSnapshot(viewOf(game', paused), seq, subs)
    /\ driveTurnsFrom("select", "StepContinue")
    /\ UNCHANGED <<seq, paused, actionIDs, queues, callersOf, manager, dealSnapshots>>

DealCommand ==
    /\ at("awaitDealWindow")
    /\ receive
    /\ \/ /\ isPlay(Head(cmds))
          /\ deferred' = Append(deferred, Head(cmds))
          /\ UNCHANGED <<control, table, feed, callersOf>>
       \/ /\ ~isPlay(Head(cmds))
          /\ handleCommand(Head(cmds), "awaitDealWindow", waitingForHuman)
          /\ UNCHANGED deferred
    /\ UNCHANGED <<manager, dealSnapshots>>

DealWindowEnds ==
    /\ at("awaitDealWindow")
    /\ dealSnapshots' = {}
    /\ publishStep(game, TRUE)
    /\ goTo("replayDeferred")
    /\ UNCHANGED <<paused, actionIDs, queues, callersOf, manager>>

ReplayDeferred ==
    /\ at("replayDeferred")
    /\ \/ /\ deferred # << >>
          /\ handleCommand(Head(deferred), "replayDeferred", waitingForHuman)
          /\ deferred' = Tail(deferred)
       \/ /\ deferred = << >>
          /\ driveTurnsFrom("select", "StepContinue")
          /\ UNCHANGED <<table, feed, deferred, callersOf>>
    /\ UNCHANGED <<cmds, manager, dealSnapshots>>

(* One round of processTurns: stop at a human seat, else pace the AI turn. *)
ProcessTurns ==
    /\ at("processTurns")
    /\ \/ /\ game.turn \in HumanSeats
          /\ waitingForHuman' = TRUE
          /\ driveReturn
          /\ silent
       \/ /\ game.turn \notin HumanSeats
          /\ waitingForHuman' = FALSE
          /\ aiSeat' = game.turn
          /\ pc' = "aiPacing"
          /\ silent
          /\ UNCHANGED callers
       \/ EngineMayFail /\ driveFatal /\ UNCHANGED <<control, waitingForHuman>>
    /\ UNCHANGED <<game, seq, paused, actionIDs, queues, callersOf, manager, dealSnapshots>>

PacingElapses ==
    /\ at("aiPacing")
    /\ goTo("aiPlay")
    /\ UNCHANGED <<table, feed, queues, callersOf, manager, dealSnapshots>>

(* The pacing select takes at most one command, then the AI plays. *)
PacingCommand ==
    /\ at("aiPacing")
    /\ receive
    /\ handleCommand(Head(cmds), "aiPlay", waitingForHuman)
    /\ UNCHANGED <<deferred, manager, dealSnapshots>>

AIPlays ==
    /\ at("aiPlay")
    /\ \/ \E h \in AIPlay :
             /\ publishStep(h, h.outcome # "StepFinished")
             /\ aiSeat' = None
             /\ driveAfter(h.outcome)
             /\ UNCHANGED <<callers, paused, actionIDs>>
       \/ /\ EngineMayFail \/ aiSeat # game.turn \/ game.outcome # "StepContinue"
          /\ driveFatal
          /\ UNCHANGED <<control, table>>
    /\ UNCHANGED <<queues, callersOf, manager, dealSnapshots>>

(* resumePauses after its display delay: Resume, stamp, broadcast.  A fresh
   deal is broadcast as such, without a deadline, and then shown. *)
ResumePauses ==
    /\ at("pauseDelay")
    /\ \/ \E h \in Resume :
             /\ publishStep(h, h.outcome # "StepFinished" /\ ~h.dealPending)
             /\ UNCHANGED <<callers, aiSeat, paused, actionIDs>>
             /\ IF h.outcome = "StepContinue"
                THEN pc' = IF h.dealPending THEN "redealDelay" ELSE "resumeDelay"
                ELSE driveAfter(h.outcome)
       \/ /\ EngineMayFail \/ game.outcome # "StepPause"
          /\ driveFatal
          /\ UNCHANGED <<control, table>>
    /\ UNCHANGED <<queues, callersOf, manager, dealSnapshots>>

ResumeDelayEnds ==
    /\ at("resumeDelay")
    /\ goTo("processTurns")
    /\ UNCHANGED <<table, feed, queues, callersOf, manager, dealSnapshots>>

RedealDelayEnds ==
    /\ at("redealDelay")
    /\ publishStep(game, TRUE)
    /\ goTo("processTurns")
    /\ UNCHANGED <<paused, actionIDs, queues, callersOf, manager, dealSnapshots>>

(* cancel seen during a pacing or display delay: driveShutdown. *)
DriveShutdown ==
    /\ \E p \in {"aiPacing", "pauseDelay", "resumeDelay", "redealDelay"} : at(p)
    /\ cancel
    /\ driveReturn
    /\ UNCHANGED <<table, feed, queues, callersOf, manager, dealSnapshots>>

FinishWithoutNotice == \* mutant: onDone is not called
    /\ at("finishWithGrace")
    /\ closeSubscribers
    /\ finished' = TRUE
    /\ UNCHANGED <<sent, notify, control, table, queues, callersOf, manager, dealSnapshots>>

(* finishWithGrace: cancel only shortens the grace period. *)
FinishWithGrace ==
    /\ at("finishWithGrace")
    /\ driveFatal
    /\ UNCHANGED <<control, table, queues, callersOf, manager, dealSnapshots>>

(* The select loop.  A gameplay command of the seat whose turn it is takes
   waitingForHuman away before it is handled. *)
SelectCommand ==
    /\ at("select")
    /\ receive
    /\ LET c == Head(cmds)
           ownTurn == /\ c.kind = "action" /\ waitingForHuman
                      /\ c.who = game.turn /\ ~paused
       IN handleCommand(c, "select", waitingForHuman /\ ~ownTurn)
    /\ UNCHANGED <<deferred, manager, dealSnapshots>>

TurnTimesOut ==
    /\ at("select")
    /\ waitingForHuman /\ TurnTimeout /\ ~paused
    /\ \/ /\ game.turn \in HumanSeats
          /\ \E h \in AIPlay :
               /\ publishStep(h, h.outcome # "StepFinished")
               /\ driveTurnsFrom("select", h.outcome)
       \/ /\ game.turn \notin HumanSeats \/ EngineMayFail \/ game.outcome # "StepContinue"
          /\ waitingForHuman' = FALSE
          /\ game' = [game EXCEPT !.deadline = @ /\ game.turn \notin HumanSeats]
          /\ silent
          /\ UNCHANGED <<control, seq>>
    /\ UNCHANGED <<paused, actionIDs, queues, callersOf, manager, dealSnapshots>>

ShutdownOnlyInWindow == \* mutant: the select loop has no cancel case
    /\ at("awaitDealWindow")
    /\ cancel
    /\ closeSubscribers
    /\ pc' = "drainCmds"
    /\ deferred' = << >>
    /\ UNCHANGED <<callers, aiSeat, table, sent, finished, notify, cmds, callersOf, manager,
                   dealSnapshots>>

(* cancel in a select that ends the session; deferred commands are lost. *)
Shutdown ==
    /\ at("select") \/ at("awaitDealWindow")
    /\ cancel
    /\ closeSubscribers
    /\ pc' = "drainCmds"
    /\ deferred' = << >>
    /\ UNCHANGED <<callers, aiSeat, table, sent, finished, notify, cmds, callersOf, manager,
                   dealSnapshots>>

(* Every caller returns as soon as it sees finished; run then drains. *)
Unwind ==
    /\ finished
    /\ pc \notin Exiting
    /\ pc' = "drainCmds"
    /\ callers' = << >>
    /\ aiSeat' = None
    /\ deferred' = << >>
    /\ UNCHANGED <<table, feed, cmds, callersOf, manager, dealSnapshots>>

(* drainCmds answers a buffered player command with game_over and closes the
   channel of a buffered subscription; it stops at the first empty read. *)
DrainCmds ==
    /\ pc = "drainCmds"
    /\ \/ /\ cmds # << >>
          /\ cmds' = Tail(cmds)
          /\ LET c == Head(cmds) IN
             /\ outstanding' = IF isPlay(c) THEN outstanding \ {c.who} ELSE outstanding
             /\ joining' = IF c.kind = "subscribe" THEN joining \ {c.who} ELSE joining
          /\ UNCHANGED control
       \/ /\ cmds = << >>
          /\ goTo("closeDone")
          /\ UNCHANGED <<cmds, callersOf>>
    /\ UNCHANGED <<table, feed, deferred, manager, dealSnapshots>>

CloseDone ==
    /\ pc = "closeDone"
    /\ goTo("exited")
    /\ UNCHANGED <<table, feed, queues, callersOf, manager, dealSnapshots>>

-----------------------------------------------------------------------------
(* The Manager and its callers. *)

send(c) == Len(cmds) < cmdChanSize /\ cmds' = Append(cmds, c)

theLoopRests == UNCHANGED <<control, table, feed, deferred, dealSnapshots>>

(* A waiting writer keeps new readers out of the Manager. *)
rLock == writers = {}

(* SubmitAction: the caller keeps the read lock until the reply.  Clients
   stamp a command with the last seq they saw, or an earlier one. *)
SubmitAction(h, kind, n, id) ==
    /\ rLock
    /\ state = "Active"
    /\ h \notin outstanding
    /\ kind = "pause" => pauses < MaxPauses
    /\ send([kind |-> kind, who |-> h, seq |-> n, id |-> id])
    /\ outstanding' = outstanding \cup {h}
    /\ pauses' = IF kind = "pause" THEN pauses + 1 ELSE pauses
    /\ UNCHANGED <<joining, state, cancel, writers>>
    /\ theLoopRests

SubmitGameplay == \E h \in HumanSeats, n \in {seq - 1, seq}, id \in ActionIDs :
    SubmitAction(h, "action", n, id)

SubmitPause == \E h \in HumanSeats, kind \in {"pause", "resume"} :
    SubmitAction(h, kind, seq, None)

(* The caller's way out when the goroutine exits before replying. *)
SubmitSeesDone(h) ==
    /\ pc = "exited"
    /\ outstanding' = outstanding \ {h}
    /\ h \in outstanding
    /\ UNCHANGED <<joining, cmds, manager>>
    /\ theLoopRests

(* SubscribePlayer and SubscribeObserver.  After done is closed the select
   may still choose the send. *)
Subscribe(w) ==
    /\ rLock
    /\ state = "Active"
    /\ w \notin joining
    /\ send([kind |-> "subscribe", who |-> w, seq |-> 0, id |-> None])
    /\ joining' = joining \cup {w}
    /\ UNCHANGED <<outstanding, manager>>
    /\ theLoopRests

Unsubscribe(w) ==
    /\ rLock
    /\ state = "Active"
    /\ send([kind |-> "unsubscribe", who |-> w, seq |-> 0, id |-> None])
    /\ UNCHANGED <<callersOf, manager>>
    /\ theLoopRests

expire ==
    /\ cancel' = (cancel \/ state = "Active")
    /\ state' = "Expired"

DeleteLocks ==
    /\ state # "Expired"
    /\ writers' = writers \cup {"Delete"}
    /\ UNCHANGED <<state, cancel, pauses, cmds, callersOf>>
    /\ theLoopRests

lockHeldBesideReaders(writer) == \* mutant: the lock does not exclude readers
    writer \in writers /\ writers' = writers \ {writer}

(* A writer gets the lock when the last reader has left. *)
lock(writer) ==
    writer \in writers /\ outstanding = {} /\ writers' = writers \ {writer}

Delete ==
    /\ lock("Delete")
    /\ expire
    /\ UNCHANGED <<pauses, cmds, callersOf>>
    /\ theLoopRests

OnDoneLocks ==
    /\ notify
    /\ notify' = FALSE
    /\ writers' = writers \cup {"OnDone"}
    /\ UNCHANGED <<control, table, subs, sent, finished, queues, callersOf, state, cancel, pauses,
                   dealSnapshots>>

(* onDone records the end, unless Delete came first. *)
OnDone ==
    /\ lock("OnDone")
    /\ state' = IF state = "Active" THEN "Finished" ELSE state
    /\ UNCHANGED <<cancel, pauses, cmds, callersOf>>
    /\ theLoopRests

-----------------------------------------------------------------------------
Init ==
    /\ pc = "run" /\ callers = << >> /\ aiSeat = None
    /\ game \in [outcome : {"StepContinue"}, turn : Seats, dealPending : BOOLEAN,
                 moves : {0}, deadline : {FALSE}]
    /\ seq = 1 /\ waitingForHuman = FALSE /\ paused = FALSE /\ finished = FALSE
    /\ actionIDs = {} /\ dealSnapshots = {} /\ cmds = << >> /\ deferred = << >>
    /\ subs = [s \in Subscribers |-> 0]
    /\ sent = [seq |-> 0, view |-> viewOf(game, FALSE)]
    /\ outstanding = {} /\ joining = {}
    /\ state = "Active" /\ cancel = FALSE /\ notify = FALSE /\ pauses = 0
    /\ writers = {}

(* Steps the goroutine takes by itself. *)
Goroutine ==
    \/ RunDealPhase \/ RunNoDeal \/ DealCommand \/ DealWindowEnds \/ ReplayDeferred
    \/ ProcessTurns \/ PacingElapses \/ PacingCommand \/ AIPlays
    \/ ResumePauses \/ ResumeDelayEnds \/ RedealDelayEnds \/ DriveShutdown
    \/ FinishWithGrace \/ SelectCommand \/ TurnTimesOut \/ Shutdown
    \/ Unwind \/ DrainCmds \/ CloseDone

Callers ==
    \/ SubmitGameplay \/ SubmitPause
    \/ \E h \in HumanSeats : SubmitSeesDone(h)
    \/ \E w \in Subscribers : Subscribe(w) \/ Unsubscribe(w)
    \/ DeleteLocks \/ Delete \/ OnDoneLocks \/ OnDone

(* The session is over and nobody is inside it. *)
Over == pc = "exited" /\ state = "Expired" /\ outstanding = {} /\ ~notify /\ writers = {}
        /\ UNCHANGED vars

Next == Goroutine \/ Callers \/ Over

Spec == Init /\ [][Next]_vars

(* The Go scheduler runs the goroutine, timers fire, a caller sees a closed
   done and a writer gets a free lock.  A select favours none of its ready
   cases for ever.  Clients owe nothing. *)
Fairness ==
    /\ WF_vars(Goroutine)
    /\ WF_vars(TurnTimesOut) /\ WF_vars(DealWindowEnds) /\ WF_vars(Shutdown)
    /\ WF_vars(SelectCommand)
    /\ \A h \in HumanSeats : WF_vars(SubmitSeesDone(h))
    /\ WF_vars(OnDoneLocks) /\ WF_vars(OnDone) /\ WF_vars(Delete)

FairSpec == Spec /\ Fairness

-----------------------------------------------------------------------------
(* Correctness. *)

ControlOK == pc \in Locations /\ callers \in Seq(Frame) /\ aiSeat \in Seats \cup {None}

TableOK ==
    /\ game \in Game /\ seq \in Nat \ {0}
    /\ waitingForHuman \in BOOLEAN /\ paused \in BOOLEAN
    /\ actionIDs \subseteq ActionIDs

FeedOK ==
    /\ subs \in [Subscribers -> Nat] /\ sent \in [seq : Nat, view : View]
    /\ finished \in BOOLEAN /\ notify \in BOOLEAN

QueuesOK ==
    /\ cmds \in Seq(Command) /\ Len(cmds) <= cmdChanSize
    /\ deferred \in Seq(Command)

ManagerOK ==
    /\ outstanding \subseteq HumanSeats /\ joining \subseteq Subscribers
    /\ state \in {"Active", "Finished", "Expired"} /\ cancel \in BOOLEAN
    /\ writers \subseteq {"Delete", "OnDone"} /\ pauses \in Nat

TypeOK ==
    /\ ControlOK /\ TableOK /\ FeedOK /\ QueuesOK /\ ManagerOK
    /\ dealSnapshots \subseteq View

outcomeAt(p) ==
    CASE p = "pauseDelay" -> "StepPause"
      [] p = "finishWithGrace" -> "StepFinished"
      [] OTHER -> "StepContinue"

(* The game is parked in a pausable state only while resumePauses is about to
   resume it, and over only in the grace period: processTurns, AIPlay, the
   turn timer and the command handlers always find a turn to act on, through
   any chain of pauses, fresh deals and commands taken between AI turns. *)
TurnMeaningful ==
    ~finished /\ ~cancel /\ pc \notin Exiting => game.outcome = outcomeAt(pc)

(* A paused game does not move: no AI turn, turn timeout, deferred command or
   command of another connection takes an engine step before it is resumed. *)
PausedGameFrozen == [][paused => game'.moves = game.moves]_vars

(* The deadline clients are shown is one of a human turn of a running game,
   with timeouts on; a pause hides it and a resume or disconnect restores it. *)
DeadlineIsHumanTurn ==
    /\ game.deadline => TurnTimeout /\ game.turn \in HumanSeats /\ ~paused
    /\ at("select") /\ waitingForHuman /\ TurnTimeout /\ ~paused /\ ~cancel => game.deadline

(* A command still queued when cancel is closed belongs to no player: Delete
   waits for the read lock every SubmitAction holds until it is answered, so
   the commands a cancelled deal window forgets are none. *)
ShutdownLosesNoCommand ==
    cancel /\ pc # "exited" =>
        /\ deferred = << >>
        /\ \A i \in 1 .. Len(cmds) : ~isPlay(cmds[i])

(* Whoever waits inside SubmitAction has a command waiting for the goroutine,
   queued or deferred, until the session ends and done releases him: no handler
   takes a command without answering it, and nothing but its turn in the queue
   stands between a player and his answer. *)
owed(h, q) == \E i \in 1 .. Len(q) : isPlay(q[i]) /\ q[i].who = h

EveryCallerIsOwed ==
    ~finished => \A h \in outstanding : owed(h, cmds) \/ owed(h, deferred)

(* The end of a session is not lost on its way to the Manager: the notice is
   spawned, waits for the lock beside Delete and the submitters, or is written,
   whichever of the ways to end the goroutine took. *)
EndIsNoted == finished => notify \/ "OnDone" \in writers \/ state # "Active"

(* Once the session has ended nobody stays registered: a subscription that
   was still queued is not accepted by a goroutine on its way out. *)
EndedHasNoSubscribers ==
    finished \/ pc \in Exiting => \A s \in Subscribers : subs[s] = 0

(* Snapshots as the abstract feed: one view per number, no number skipped,
   every subscriber at the latest number whenever it subscribed, the deal
   window included. *)
Feed == INSTANCE SnapshotFeed
            WITH number <- sent.seq, view <- sent.view, seen <- subs, open <- ~cancel

FeedSpec == Feed!Spec

(* Every SubmitAction returns, whatever the goroutine is doing: in the deal
   window, behind AI turns and display delays, or on its way out. *)
SubmitReturns == \A h \in HumanSeats : h \in outstanding ~> h \notin outstanding

(* A deleted session's goroutine exits, from wherever cancel finds it. *)
DeleteStopsGoroutine == cancel ~> pc = "exited"

(* A session that ended by itself is recorded as ended. *)
EndIsRecorded == finished ~> state # "Active"

(* A human turn never hangs: with a turn timeout, the game moves on, is
   paused, or the session ends. *)
TurnEnds ==
    \A m \in 0 .. MaxMoves :
        (TurnTimeout /\ at("select") /\ ~paused /\ game.moves = m)
            ~> (game.moves # m \/ paused \/ finished \/ pc \in Exiting)

=============================================================================
