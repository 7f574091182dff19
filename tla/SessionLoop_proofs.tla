------------------------- MODULE SessionLoop_proofs -------------------------
(***************************************************************************)
(* The session goroutine, for every table, switch and bound: its types;    *)
(* when a turn may be read; what the end of a session leaves behind; what  *)
(* a deadline and a pause are worth; and that the session implements the   *)
(* abstract feed.                                                          *)
(***************************************************************************)
EXTENDS SessionLoop, TLAPS, SequenceTheorems

(***************************************************************************)
(* Lemmas about the operators the actions are built from.                  *)
(***************************************************************************)

(* Whatever the engine does, the adapter stays a game. *)
LEMMA EnginePostsType ==
    ASSUME NEW g \in Game, NEW deals \in SUBSET BOOLEAN, NEW h \in enginePosts(g, deals)
    PROVE  h \in Game
<1>1. h \in [outcome : Outcomes, turn : Seats, dealPending : deals,
             moves : {g.moves + 1}, deadline : {FALSE}]
  BY DEF enginePosts
<1>2. g.moves + 1 \in Nat
  BY DEF Game
<1>3. /\ h.outcome \in Outcomes /\ h.turn \in Seats /\ h.dealPending \in BOOLEAN
      /\ h.moves \in Nat /\ h.deadline \in BOOLEAN
  BY <1>1, <1>2
<1>4. h = [outcome |-> h.outcome, turn |-> h.turn, dealPending |-> h.dealPending,
           moves |-> h.moves, deadline |-> h.deadline]
  BY <1>1
<1> QED
  BY <1>3, <1>4 DEF Game

LEMMA StepsType ==
    ASSUME game \in Game
    PROVE  /\ \A s : \A h \in HandleAction(s) : h \in Game
           /\ \A h \in AIPlay : h \in Game
           /\ \A h \in Resume : h \in Game
<1>1. \A h \in enginePosts(game, {FALSE}) : h \in Game
  BY EnginePostsType, {FALSE} \in SUBSET BOOLEAN
<1>2. \A h \in enginePosts(game, BOOLEAN) : h \in Game
  BY EnginePostsType
<1> QED
  BY <1>1, <1>2 DEF HandleAction, AIPlay, Resume

LEMMA DeadlineType ==
    ASSUME NEW g \in Game, NEW b \in BOOLEAN
    PROVE  [g EXCEPT !.deadline = b] \in Game
  BY DEF Game

LEMMA ScheduleType ==
    ASSUME NEW g \in Game
    PROVE  scheduleTurnDeadline(g) \in Game
<1>1. (TurnTimeout /\ g.turn \in HumanSeats) \in BOOLEAN
  OBVIOUS
<1> QED
  BY <1>1 DEF scheduleTurnDeadline, Game

LEMMA ViewType ==
    ASSUME NEW g \in Game, NEW p \in BOOLEAN
    PROVE  viewOf(g, p) \in View
  BY DEF viewOf, View

LEMMA FailureType ==
    ASSUME FeedOK, terminateOnMarshalFailure \/ driveFatal
    PROVE  FeedOK'
<1>1. subs' = [s \in Subscribers |-> 0] /\ notify' = TRUE /\ finished' = TRUE /\ sent' = sent
  BY DEF terminateOnMarshalFailure, driveFatal, closeSubscribers
<1>2. subs' \in [Subscribers -> Nat]
  BY <1>1
<1> QED
  BY <1>1, <1>2 DEF FeedOK

LEMMA BroadcastType ==
    ASSUME FeedOK, NEW v \in View, NEW n \in Nat, NEW r \in [Subscribers -> Nat],
           broadcastSnapshot(v, n, r)
    PROVE  FeedOK'
<1>1. CASE terminateOnMarshalFailure
  BY <1>1, FailureType
<1>2. CASE /\ sent' = [seq |-> n, view |-> v]
           /\ subs' = [s \in Subscribers |-> IF r[s] = 0 THEN 0 ELSE n]
           /\ UNCHANGED <<finished, notify>>
  BY <1>2 DEF FeedOK
<1> QED
  BY <1>1, <1>2 DEF broadcastSnapshot

LEMMA PublishType ==
    ASSUME TableOK, FeedOK, NEW h \in Game, NEW schedule \in BOOLEAN, publishStep(h, schedule)
    PROVE  /\ game' \in Game /\ seq' \in Nat \ {0} /\ waitingForHuman' \in BOOLEAN
           /\ FeedOK'
<1> DEFINE g == IF schedule THEN scheduleTurnDeadline(h) ELSE h
<1>1. g \in Game
  BY ScheduleType
<1>2. viewOf(g, paused) \in View
  BY <1>1, ViewType DEF TableOK
<1>3. broadcastSnapshot(viewOf(g, paused), seq + 1, subs)
  BY DEF publishStep
<1>4. FeedOK'
  <2>1. seq + 1 \in Nat /\ subs \in [Subscribers -> Nat]
    BY DEF TableOK, FeedOK
  <2> QED
    BY <1>2, <1>3, <2>1, BroadcastType
<1>5. game' = [g EXCEPT !.dealPending = FALSE] /\ seq' = seq + 1
      /\ waitingForHuman' = IF schedule THEN g.deadline ELSE waitingForHuman
  BY DEF publishStep
<1>6. game' \in Game
  BY <1>1, <1>5 DEF Game
<1>7. waitingForHuman' \in BOOLEAN /\ seq' \in Nat \ {0}
  BY <1>1, <1>5 DEF TableOK, Game
<1> QED
  BY <1>4, <1>6, <1>7

(***************************************************************************)
(* Command handlers.                                                       *)
(***************************************************************************)
InsideOK ==
    /\ ControlOK /\ TableOK /\ FeedOK
    /\ outstanding \subseteq HumanSeats /\ joining \subseteq Subscribers

LEMMA AnswerType ==
    ASSUME outstanding \subseteq HumanSeats, joining \subseteq Subscribers, NEW c, answer(c)
    PROVE  outstanding' \subseteq HumanSeats /\ joining' \subseteq Subscribers
  BY DEF answer

LEMMA GoToType ==
    ASSUME ControlOK, NEW p \in Locations, goTo(p)
    PROVE  ControlOK'
  BY DEF ControlOK, goTo

LEMMA DriveAfterType ==
    ASSUME NEW o \in Outcomes, driveAfter(o)
    PROVE  pc' \in Locations
  BY DEF driveAfter, Outcomes, Locations, Waits

LEMMA DriveTurnsType ==
    ASSUME ControlOK, NEW ret \in {"select", "replayDeferred", "aiPlay"}, NEW o \in Outcomes,
           driveTurnsFrom(ret, o)
    PROVE  ControlOK'
<1> DEFINE f == [pc |-> ret, seat |-> aiSeat]
<1>1. f \in Frame
  BY DEF ControlOK, Frame
<1>2. <<f>> \in Seq(Frame) /\ callers \in Seq(Frame)
  BY <1>1 DEF ControlOK
<1>3. callers' = <<f>> \o callers
  BY DEF driveTurnsFrom
<1> HIDE DEF f
<1>4. callers' \in Seq(Frame)
  BY <1>2, <1>3, ConcatProperties
<1>5. pc' \in Locations /\ aiSeat' \in Seats \cup {None}
  BY DriveAfterType DEF driveTurnsFrom
<1> QED
  BY <1>4, <1>5 DEF ControlOK

LEMMA DriveReturnType ==
    ASSUME ControlOK, driveReturn
    PROVE  ControlOK'
<1>1. callers \in Seq(Frame) /\ callers # << >>
  BY DEF ControlOK, driveReturn
<1>2. Head(callers) \in Frame /\ Tail(callers) \in Seq(Frame)
  BY <1>1, HeadTailProperties
<1> QED
  BY <1>2 DEF ControlOK, driveReturn, Frame, Locations, Waits

LEMMA HandlePlayType ==
    ASSUME InsideOK, NEW c \in Command, NEW ret \in {"select", "replayDeferred", "aiPlay"},
           NEW w \in BOOLEAN, handlePlay(c, ret, w)
    PROVE  InsideOK'
<1>1. outstanding' \subseteq HumanSeats /\ joining' \subseteq Subscribers
  BY AnswerType DEF InsideOK, handlePlay
<1>2. CASE refusePlay(c, ret, w)
  <2>1. ControlOK'
    BY <1>2, GoToType DEF InsideOK, refusePlay, Locations, Waits
  <2>2. TableOK'
    <3>1. /\ waitingForHuman' = w /\ game' = game /\ seq' = seq /\ paused' = paused
          /\ actionIDs' = actionIDs
      BY <1>2 DEF refusePlay
    <3> QED
      BY <3>1 DEF InsideOK, TableOK
  <2>3. FeedOK'
    <3>1. FeedOK
      BY DEF InsideOK
    <3>2. CASE silent
      BY <3>1, <3>2 DEF silent, feed, FeedOK
    <3>3. CASE /\ sent' = [seq |-> seq, view |-> viewOf(game, paused)]
               /\ UNCHANGED <<subs, finished, notify>>
      <4>1. viewOf(game, paused) \in View /\ seq \in Nat
        BY ViewType DEF InsideOK, TableOK
      <4>2. sent' \in [seq : Nat, view : View]
        BY <3>3, <4>1
      <4> QED
        BY <3>1, <3>3, <4>2 DEF FeedOK
    <3>4. CASE terminateOnMarshalFailure
      BY <3>1, <3>4, FailureType
    <3> QED
      BY <1>2, <3>2, <3>3, <3>4 DEF refusePlay
  <2> QED
    BY <1>1, <2>1, <2>2, <2>3 DEF InsideOK
<1>3. c.id \in ActionIDs
  BY DEF handlePlay, Command
<1>4. ASSUME NEW h \in HandleAction(c.who), handleAcceptedAction(c, h, ret)
      PROVE  InsideOK'
  <2>1. h \in Game /\ h.outcome \in Outcomes
    BY <1>4, StepsType DEF InsideOK, TableOK, Game
  <2>2. publishStep(h, h.outcome # "StepFinished")
    BY <1>4 DEF handleAcceptedAction
  <2>3. game' \in Game /\ seq' \in Nat \ {0} /\ waitingForHuman' \in BOOLEAN /\ FeedOK'
    BY <2>1, <2>2, PublishType DEF InsideOK
  <2>4. ControlOK'
    BY <1>4, <2>1, DriveTurnsType DEF handleAcceptedAction, InsideOK
  <2>5. actionIDs' \subseteq ActionIDs /\ paused' \in BOOLEAN
    BY <1>3, <1>4 DEF InsideOK, TableOK, handleAcceptedAction
  <2> QED
    BY <1>1, <2>3, <2>4, <2>5 DEF InsideOK, TableOK
<1> QED
  BY <1>2, <1>4 DEF handlePlay

LEMMA PauseType ==
    ASSUME InsideOK, NEW c \in Command, NEW ret \in Locations, handlePauseCmd(c, ret)
    PROVE  InsideOK'
<1>1. outstanding' \subseteq HumanSeats /\ joining' \subseteq Subscribers
  BY AnswerType DEF InsideOK, handlePauseCmd
<1>2. ControlOK'
  BY GoToType DEF InsideOK, handlePauseCmd
<1>3. waitingForHuman' = waitingForHuman /\ actionIDs' = actionIDs
  BY DEF handlePauseCmd
<1>4. CASE UNCHANGED <<game, seq, paused>> /\ silent
  <2>1. TableOK'
    BY <1>3, <1>4 DEF InsideOK, TableOK
  <2>2. FeedOK'
    BY <1>4 DEF InsideOK, FeedOK, silent, feed
  <2> QED
    BY <1>1, <1>2, <2>1, <2>2 DEF InsideOK
<1>5. CASE /\ paused' = TRUE
           /\ game' = [game EXCEPT !.deadline = FALSE]
           /\ seq' = seq + 1
           /\ broadcastSnapshot(viewOf(game', TRUE), seq + 1, subs)
  <2>0. game \in Game /\ seq \in Nat
    BY DEF InsideOK, TableOK
  <2>1. game' \in Game /\ seq + 1 \in Nat
    <3> DEFINE b == FALSE
    <3>1. game' = [game EXCEPT !.deadline = b] /\ b \in BOOLEAN
      BY <1>5
    <3> HIDE DEF b
    <3> QED
      BY <2>0, <3>1, DeadlineType
  <2>2. viewOf(game', TRUE) \in View
    BY <2>1, ViewType
  <2>3. FeedOK'
    BY <1>5, <2>1, <2>2, BroadcastType DEF InsideOK, FeedOK
  <2>4. TableOK'
    BY <1>3, <1>5, <2>1 DEF InsideOK, TableOK
  <2> QED
    BY <1>1, <1>2, <2>3, <2>4 DEF InsideOK
<1> QED
  BY <1>4, <1>5 DEF handlePauseCmd

LEMMA UnpauseType ==
    ASSUME TableOK, FeedOK, NEW r \in [Subscribers -> Nat], unpause(r)
    PROVE  game' \in Game /\ seq' \in Nat \ {0} /\ paused' \in BOOLEAN /\ FeedOK'
<1> DEFINE b == waitingForHuman /\ TurnTimeout
<1>1. b \in BOOLEAN
  OBVIOUS
<1>2. game' = [game EXCEPT !.deadline = b] /\ seq' = seq + 1 /\ paused' = FALSE
      /\ broadcastSnapshot(viewOf(game', FALSE), seq + 1, r)
  BY DEF unpause
<1> HIDE DEF b
<1>3. game' \in Game /\ seq + 1 \in Nat
  BY <1>1, <1>2 DEF TableOK, Game
<1>4. viewOf(game', FALSE) \in View
  BY <1>3, ViewType
<1>5. FeedOK'
  BY <1>2, <1>3, <1>4, BroadcastType
<1>6. seq' \in Nat \ {0}
  BY <1>2 DEF TableOK
<1>7. paused' \in BOOLEAN
  BY <1>2
<1> QED
  BY <1>3, <1>5, <1>6, <1>7

LEMMA ResumeType ==
    ASSUME InsideOK, NEW c \in Command, NEW ret \in Locations, handleResumeCmd(c, ret)
    PROVE  InsideOK'
<1>1. outstanding' \subseteq HumanSeats /\ joining' \subseteq Subscribers
  BY AnswerType DEF InsideOK, handleResumeCmd
<1>2. ControlOK'
  BY GoToType DEF InsideOK, handleResumeCmd
<1>3. waitingForHuman' = waitingForHuman /\ actionIDs' = actionIDs
  BY DEF handleResumeCmd
<1>4. CASE UNCHANGED <<game, seq, paused>> /\ silent
  <2>1. TableOK'
    BY <1>3, <1>4 DEF InsideOK, TableOK
  <2>2. FeedOK'
    BY <1>4 DEF InsideOK, FeedOK, silent, feed
  <2> QED
    BY <1>1, <1>2, <2>1, <2>2 DEF InsideOK
<1>5. CASE unpause(subs)
  <2>1. game' \in Game /\ seq' \in Nat \ {0} /\ paused' \in BOOLEAN /\ FeedOK'
    BY <1>5, UnpauseType DEF InsideOK, FeedOK
  <2> QED
    BY <1>1, <1>2, <1>3, <2>1 DEF InsideOK, TableOK
<1> QED
  BY <1>4, <1>5 DEF handleResumeCmd

LEMMA SubscribeType ==
    ASSUME InsideOK, dealSnapshots \subseteq View, NEW c \in Command, NEW ret \in Locations,
           handleSubscribe(c, ret)
    PROVE  InsideOK'
<1>1. outstanding' \subseteq HumanSeats /\ joining' \subseteq Subscribers /\ TableOK'
  BY DEF InsideOK, handleSubscribe, TableOK, table
<1>2. ControlOK'
  BY GoToType DEF InsideOK, handleSubscribe
<1>3. FeedOK'
  <2>1. CASE terminateOnMarshalFailure
    BY <2>1, FailureType DEF InsideOK
  <2>2. ASSUME NEW v \in IF dealSnapshots = {} THEN {viewOf(game, paused)} ELSE dealSnapshots,
               sent' = [seq |-> seq, view |-> v],
               subs' = [subs EXCEPT ![c.who] = seq], UNCHANGED <<finished, notify>>
        PROVE  FeedOK'
    <3>1. v \in View
      BY <2>2, ViewType DEF InsideOK, TableOK
    <3>2. seq \in Nat /\ c.who \in Subscribers
      BY DEF InsideOK, TableOK, Command
    <3> QED
      BY <2>2, <3>1, <3>2 DEF InsideOK, FeedOK
  <2> QED
    BY <2>1, <2>2 DEF handleSubscribe
<1> QED
  BY <1>1, <1>2, <1>3 DEF InsideOK

LEMMA UnsubscribeType ==
    ASSUME InsideOK, NEW c \in Command, NEW ret \in Locations, handleUnsubscribe(c, ret)
    PROVE  InsideOK'
<1> DEFINE left == [subs EXCEPT ![c.who] = 0]
<1>1. outstanding' \subseteq HumanSeats /\ joining' \subseteq Subscribers
  BY DEF InsideOK, handleUnsubscribe, callersOf
<1>2. ControlOK'
  BY GoToType DEF InsideOK, handleUnsubscribe
<1>3. left \in [Subscribers -> Nat]
  BY DEF InsideOK, FeedOK
<1>4. waitingForHuman' = waitingForHuman /\ actionIDs' = actionIDs
  BY DEF handleUnsubscribe
<1>5. CASE unpause(left)
  <2>1. game' \in Game /\ seq' \in Nat \ {0} /\ paused' \in BOOLEAN /\ FeedOK'
    BY <1>3, <1>5, UnpauseType DEF InsideOK
  <2> QED
    BY <1>1, <1>2, <1>4, <2>1 DEF InsideOK, TableOK
<1>6. CASE subs' = left /\ UNCHANGED <<game, seq, paused, sent, finished, notify>>
  <2>1. TableOK' /\ FeedOK'
    BY <1>3, <1>4, <1>6 DEF InsideOK, TableOK, FeedOK
  <2> QED
    BY <1>1, <1>2, <2>1 DEF InsideOK
<1> QED
  BY <1>5, <1>6 DEF handleUnsubscribe

(* Whichever command it is, its handler keeps every variable it touches in
   its type. *)
LEMMA HandleCommandType ==
    ASSUME InsideOK, dealSnapshots \subseteq View, NEW c \in Command,
           NEW ret \in {"select", "replayDeferred", "aiPlay"} , NEW w \in BOOLEAN,
           handleCommand(c, ret, w)
    PROVE  InsideOK'
<1>1. ret \in Locations
  BY DEF Locations, Waits
<1> QED
  BY <1>1, HandlePlayType, PauseType, ResumeType, SubscribeType, UnsubscribeType
  DEF handleCommand

LEMMA ReceiveType ==
    ASSUME QueuesOK, receive
    PROVE  /\ Head(cmds) \in Command
           /\ cmds' \in Seq(Command) /\ Len(cmds') <= cmdChanSize
<1>1. cmds \in Seq(Command) /\ cmds # << >> /\ cmds' = Tail(cmds) /\ Len(cmds) <= cmdChanSize
  BY DEF QueuesOK, receive
<1>2. /\ Head(cmds) \in Command /\ Tail(cmds) \in Seq(Command)
      /\ Len(Tail(cmds)) = Len(cmds) - 1
  BY <1>1, HeadTailProperties
<1>3. Len(cmds) \in Nat
  BY <1>1, LenProperties
<1> QED
  BY <1>1, <1>2, <1>3, BoundAssumption

(***************************************************************************)
(* Type correctness, one lemma per action of the goroutine.                *)
(***************************************************************************)
LEMMA DealPhaseType ==
    ASSUME TypeOK, RunDealPhase \/ RunNoDeal
    PROVE  TypeOK'
<1> USE DEF TypeOK
<1>1. QueuesOK' /\ ManagerOK'
  BY DEF RunDealPhase, RunNoDeal, queues, callersOf, manager, QueuesOK, ManagerOK
<1>2. game \in Game /\ seq \in Nat /\ paused \in BOOLEAN /\ subs \in [Subscribers -> Nat]
  BY DEF TableOK, FeedOK
<1>3. CASE RunDealPhase
  <2>1. ControlOK'
    BY <1>3, GoToType DEF RunDealPhase, Locations, Waits
  <2>2. viewOf(game, paused) \in View
    BY <1>2, ViewType
  <2>3. FeedOK'
    BY <1>2, <1>3, <2>2, BroadcastType DEF RunDealPhase
  <2>4. game' = [game EXCEPT !.dealPending = FALSE]
        /\ UNCHANGED <<seq, waitingForHuman, paused, actionIDs>>
        /\ dealSnapshots' = {viewOf(game, paused)}
    BY <1>3 DEF RunDealPhase
  <2>5. game' \in Game
    <3> DEFINE b == FALSE
    <3>1. game' = [game EXCEPT !.dealPending = b] /\ b \in BOOLEAN
      BY <2>4
    <3> HIDE DEF b
    <3> QED
      BY <1>2, <3>1 DEF Game
  <2>6. TableOK'
    BY <2>4, <2>5 DEF TableOK
  <2> QED
    BY <1>1, <2>1, <2>2, <2>3, <2>4, <2>6
<1>4. CASE RunNoDeal
  <2>1. ControlOK'
    BY <1>4, DriveTurnsType DEF RunNoDeal, Outcomes
  <2>2. game' \in Game
    BY <1>2, <1>4, ScheduleType DEF RunNoDeal
  <2>3. viewOf(game', paused) \in View
    BY <1>2, <2>2, ViewType
  <2>4. FeedOK'
    BY <1>2, <1>4, <2>3, BroadcastType DEF RunNoDeal
  <2>5. waitingForHuman' \in BOOLEAN
    BY <1>4, <2>2 DEF RunNoDeal, Game
  <2>6. UNCHANGED <<seq, paused, actionIDs, dealSnapshots>>
    BY <1>4 DEF RunNoDeal
  <2> QED
    BY <1>1, <2>1, <2>2, <2>4, <2>5, <2>6 DEF TableOK
<1> QED
  BY <1>3, <1>4

LEMMA DealCommandType ==
    ASSUME TypeOK, DealCommand
    PROVE  TypeOK'
<1> USE DEF TypeOK
<1>1. UNCHANGED <<manager, dealSnapshots>>
  BY DEF DealCommand
<1>2. Head(cmds) \in Command /\ cmds' \in Seq(Command) /\ Len(cmds') <= cmdChanSize
  BY ReceiveType DEF DealCommand
<1>3. CASE isPlay(Head(cmds)) /\ deferred' = Append(deferred, Head(cmds))
           /\ UNCHANGED <<control, table, feed, callersOf>>
  <2>1. ControlOK' /\ TableOK' /\ FeedOK'
    BY <1>3 DEF control, table, feed, ControlOK, TableOK, FeedOK
  <2>2. ManagerOK'
    BY <1>1, <1>3 DEF callersOf, manager, ManagerOK
  <2>3. deferred' \in Seq(Command)
    BY <1>2, <1>3, AppendProperties DEF QueuesOK
  <2> QED
    BY <1>1, <1>2, <2>1, <2>2, <2>3 DEF QueuesOK
<1>4. CASE ~isPlay(Head(cmds)) /\ UNCHANGED deferred
           /\ handleCommand(Head(cmds), "awaitDealWindow", waitingForHuman)
  <2>1. Head(cmds).kind \in {"subscribe", "unsubscribe"}
    BY <1>2, <1>4 DEF isPlay, Command
  <2>2. \/ handleSubscribe(Head(cmds), "awaitDealWindow")
        \/ handleUnsubscribe(Head(cmds), "awaitDealWindow")
    BY <1>4, <2>1 DEF handleCommand, handlePlay, handlePauseCmd, handleResumeCmd
  <2>3. "awaitDealWindow" \in Locations /\ InsideOK
    BY DEF Locations, Waits, InsideOK, ManagerOK
  <2>4. InsideOK'
    BY <1>2, <2>2, <2>3, SubscribeType, UnsubscribeType
  <2> QED
    BY <1>1, <1>2, <1>4, <2>4 DEF InsideOK, ManagerOK, manager, QueuesOK
<1> QED
  BY <1>3, <1>4 DEF DealCommand

LEMMA DealWindowEndsType ==
    ASSUME TypeOK, DealWindowEnds
    PROVE  TypeOK'
<1> USE DEF TypeOK
<1>1. game \in Game
  BY DEF TableOK
<1>2. game' \in Game /\ seq' \in Nat \ {0} /\ waitingForHuman' \in BOOLEAN /\ FeedOK'
  BY <1>1, PublishType DEF DealWindowEnds
<1>3. TableOK' /\ dealSnapshots' \subseteq View
  BY <1>2 DEF DealWindowEnds, TableOK
<1>4. ControlOK'
  BY GoToType DEF DealWindowEnds, Locations
<1>5. QueuesOK' /\ ManagerOK'
  BY DEF DealWindowEnds, queues, callersOf, manager, QueuesOK, ManagerOK
<1> QED
  BY <1>2, <1>3, <1>4, <1>5

LEMMA ReplayDeferredType ==
    ASSUME TypeOK, ReplayDeferred
    PROVE  TypeOK'
<1> USE DEF TypeOK
<1>1. UNCHANGED <<cmds, manager, dealSnapshots>>
  BY DEF ReplayDeferred
<1>2. CASE /\ deferred # << >> /\ deferred' = Tail(deferred)
           /\ handleCommand(Head(deferred), "replayDeferred", waitingForHuman)
  <2>1. Head(deferred) \in Command /\ deferred' \in Seq(Command)
    BY <1>2, HeadTailProperties DEF QueuesOK
  <2>2. InsideOK /\ waitingForHuman \in BOOLEAN
    BY DEF InsideOK, ManagerOK, TableOK
  <2>3. InsideOK'
    BY <1>2, <2>1, <2>2, HandleCommandType
  <2> QED
    BY <1>1, <2>1, <2>3 DEF InsideOK, ManagerOK, manager, QueuesOK
<1>3. CASE /\ driveTurnsFrom("select", "StepContinue")
           /\ UNCHANGED <<table, feed, deferred, callersOf>>
  <2>1. ControlOK'
    BY <1>3, DriveTurnsType DEF Outcomes
  <2>2. TableOK' /\ FeedOK'
    BY <1>3 DEF table, feed, TableOK, FeedOK
  <2> QED
    BY <1>1, <1>3, <2>1, <2>2 DEF callersOf, manager, QueuesOK, ManagerOK
<1> QED
  BY <1>2, <1>3 DEF ReplayDeferred

LEMMA ProcessTurnsType ==
    ASSUME TypeOK, ProcessTurns
    PROVE  TypeOK'
<1> USE DEF TypeOK
<1>1. UNCHANGED <<game, seq, paused, actionIDs, queues, callersOf, manager, dealSnapshots>>
  BY DEF ProcessTurns
<1>2. QueuesOK' /\ ManagerOK'
  BY <1>1 DEF queues, callersOf, manager, QueuesOK, ManagerOK
<1>3. CASE waitingForHuman' = TRUE /\ driveReturn /\ silent
  <2>1. ControlOK'
    BY <1>3, DriveReturnType
  <2>2. TableOK' /\ FeedOK'
    BY <1>1, <1>3 DEF TableOK, FeedOK, silent, feed
  <2> QED
    BY <1>1, <1>2, <2>1, <2>2
<1>4. CASE /\ waitingForHuman' = FALSE /\ aiSeat' = game.turn
           /\ pc' = "aiPacing" /\ silent /\ UNCHANGED callers
  <2>1. game.turn \in Seats
    BY DEF TableOK, Game
  <2>2. ControlOK'
    BY <1>4, <2>1 DEF ControlOK, Locations, Waits
  <2>3. TableOK' /\ FeedOK'
    BY <1>1, <1>4 DEF TableOK, FeedOK, silent, feed
  <2> QED
    BY <1>1, <1>2, <2>2, <2>3
<1>5. CASE driveFatal /\ UNCHANGED <<control, waitingForHuman>>
  <2>1. ControlOK' /\ TableOK'
    BY <1>1, <1>5 DEF control, ControlOK, TableOK
  <2> QED
    BY <1>1, <1>2, <1>5, <2>1, FailureType
<1> QED
  BY <1>3, <1>4, <1>5 DEF ProcessTurns

LEMMA PacingType ==
    ASSUME TypeOK, PacingElapses \/ PacingCommand
    PROVE  TypeOK'
<1> USE DEF TypeOK
<1>1. CASE PacingElapses
  <2>1. ControlOK'
    BY <1>1, GoToType DEF PacingElapses, Locations
  <2> QED
    BY <1>1, <2>1 DEF PacingElapses, table, feed, queues, callersOf, manager,
                      TableOK, FeedOK, QueuesOK, ManagerOK
<1>2. CASE PacingCommand
  <2>1. Head(cmds) \in Command /\ cmds' \in Seq(Command) /\ Len(cmds') <= cmdChanSize
    BY <1>2, ReceiveType DEF PacingCommand
  <2>2. InsideOK /\ waitingForHuman \in BOOLEAN
    BY DEF InsideOK, ManagerOK, TableOK
  <2>3. InsideOK'
    BY <1>2, <2>1, <2>2, HandleCommandType DEF PacingCommand
  <2> QED
    BY <1>2, <2>1, <2>3 DEF PacingCommand, InsideOK, ManagerOK, manager, QueuesOK
<1> QED
  BY <1>1, <1>2

LEMMA AIPlaysType ==
    ASSUME TypeOK, AIPlays
    PROVE  TypeOK'
<1> USE DEF TypeOK
<1>1. UNCHANGED <<queues, callersOf, manager, dealSnapshots>>
  BY DEF AIPlays
<1>2. QueuesOK' /\ ManagerOK'
  BY <1>1 DEF queues, callersOf, manager, QueuesOK, ManagerOK
<1>3. ASSUME NEW h \in AIPlay, publishStep(h, h.outcome # "StepFinished"), aiSeat' = None,
             driveAfter(h.outcome), UNCHANGED <<callers, paused, actionIDs>>
      PROVE  TypeOK'
  <2>1. h \in Game /\ h.outcome \in Outcomes
    BY StepsType DEF TableOK, Game
  <2>2. game' \in Game /\ seq' \in Nat \ {0} /\ waitingForHuman' \in BOOLEAN /\ FeedOK'
    BY <1>3, <2>1, PublishType
  <2>3. ControlOK'
    BY <1>3, <2>1, DriveAfterType DEF ControlOK
  <2> QED
    BY <1>1, <1>2, <1>3, <2>2, <2>3 DEF TableOK
<1>4. CASE driveFatal /\ UNCHANGED <<control, table>>
  <2>1. ControlOK' /\ TableOK'
    BY <1>4 DEF control, table, ControlOK, TableOK
  <2> QED
    BY <1>1, <1>2, <1>4, <2>1, FailureType
<1> QED
  BY <1>3, <1>4 DEF AIPlays

LEMMA ResumePausesType ==
    ASSUME TypeOK, ResumePauses
    PROVE  TypeOK'
<1> USE DEF TypeOK
<1>1. UNCHANGED <<queues, callersOf, manager, dealSnapshots>>
  BY DEF ResumePauses
<1>2. QueuesOK' /\ ManagerOK'
  BY <1>1 DEF queues, callersOf, manager, QueuesOK, ManagerOK
<1>3. ASSUME NEW h \in Resume,
             publishStep(h, h.outcome # "StepFinished" /\ ~h.dealPending),
             UNCHANGED <<callers, aiSeat, paused, actionIDs>>,
             IF h.outcome = "StepContinue"
             THEN pc' = IF h.dealPending THEN "redealDelay" ELSE "resumeDelay"
             ELSE driveAfter(h.outcome)
      PROVE  TypeOK'
  <2> DEFINE schedule == h.outcome # "StepFinished" /\ ~h.dealPending
  <2>1. h \in Game /\ h.outcome \in Outcomes
    BY StepsType DEF TableOK, Game
  <2>2. schedule \in BOOLEAN /\ publishStep(h, schedule)
    BY <1>3
  <2> HIDE DEF schedule
  <2>3. game' \in Game /\ seq' \in Nat \ {0} /\ waitingForHuman' \in BOOLEAN /\ FeedOK'
    BY <2>1, <2>2, PublishType
  <2>4. pc' \in Locations
    BY <1>3, <2>1, DriveAfterType DEF Locations, Waits
  <2> QED
    BY <1>1, <1>2, <1>3, <2>3, <2>4 DEF TableOK, ControlOK
<1>4. CASE driveFatal /\ UNCHANGED <<control, table>>
  <2>1. ControlOK' /\ TableOK'
    BY <1>4 DEF control, table, ControlOK, TableOK
  <2> QED
    BY <1>1, <1>2, <1>4, <2>1, FailureType
<1> QED
  BY <1>3, <1>4 DEF ResumePauses

LEMMA DelayType ==
    ASSUME TypeOK, ResumeDelayEnds \/ RedealDelayEnds \/ DriveShutdown
    PROVE  TypeOK'
<1> USE DEF TypeOK
<1>1. QueuesOK' /\ ManagerOK' /\ dealSnapshots' \subseteq View
  BY DEF ResumeDelayEnds, RedealDelayEnds, DriveShutdown, queues, callersOf, manager,
         QueuesOK, ManagerOK
<1>2. CASE ResumeDelayEnds \/ DriveShutdown
  <2>1. ControlOK'
    BY <1>2, GoToType, DriveReturnType DEF ResumeDelayEnds, DriveShutdown, Locations
  <2>2. TableOK' /\ FeedOK'
    BY <1>2 DEF ResumeDelayEnds, DriveShutdown, table, feed, TableOK, FeedOK
  <2> QED
    BY <1>1, <2>1, <2>2
<1>3. CASE RedealDelayEnds
  <2>1. game \in Game
    BY DEF TableOK
  <2>2. game' \in Game /\ seq' \in Nat \ {0} /\ waitingForHuman' \in BOOLEAN /\ FeedOK'
    BY <1>3, <2>1, PublishType DEF RedealDelayEnds
  <2>3. ControlOK'
    BY <1>3, GoToType DEF RedealDelayEnds, Locations
  <2> QED
    BY <1>1, <1>3, <2>2, <2>3 DEF RedealDelayEnds, TableOK
<1> QED
  BY <1>2, <1>3

LEMMA SelectType ==
    ASSUME TypeOK, SelectCommand
    PROVE  TypeOK'
<1> USE DEF TypeOK
<1> DEFINE c == Head(cmds)
           ownTurn == /\ c.kind = "action" /\ waitingForHuman
                      /\ c.who = game.turn /\ ~paused
           w == waitingForHuman /\ ~ownTurn
<1>1. c \in Command /\ cmds' \in Seq(Command) /\ Len(cmds') <= cmdChanSize
  BY ReceiveType DEF SelectCommand
<1>2. InsideOK /\ w \in BOOLEAN
  BY DEF InsideOK, ManagerOK
<1>3. handleCommand(c, "select", w)
  BY DEF SelectCommand
<1>4. UNCHANGED <<deferred, manager, dealSnapshots>>
  BY DEF SelectCommand
<1> HIDE DEF w, c
<1>5. InsideOK'
  BY <1>1, <1>2, <1>3, HandleCommandType
<1> QED
  BY <1>1, <1>4, <1>5 DEF InsideOK, ManagerOK, manager, QueuesOK

LEMMA TurnTimesOutType ==
    ASSUME TypeOK, TurnTimesOut
    PROVE  TypeOK'
<1> USE DEF TypeOK
<1>1. UNCHANGED <<paused, actionIDs, queues, callersOf, manager, dealSnapshots>>
  BY DEF TurnTimesOut
<1>2. QueuesOK' /\ ManagerOK'
  BY <1>1 DEF queues, callersOf, manager, QueuesOK, ManagerOK
<1>3. ASSUME NEW h \in AIPlay, publishStep(h, h.outcome # "StepFinished"),
             driveTurnsFrom("select", h.outcome)
      PROVE  TypeOK'
  <2>1. h \in Game /\ h.outcome \in Outcomes
    BY StepsType DEF TableOK, Game
  <2>2. game' \in Game /\ seq' \in Nat \ {0} /\ waitingForHuman' \in BOOLEAN /\ FeedOK'
    BY <1>3, <2>1, PublishType
  <2>3. ControlOK'
    BY <1>3, <2>1, DriveTurnsType
  <2> QED
    BY <1>1, <1>2, <2>2, <2>3 DEF TableOK
<1>4. CASE /\ waitingForHuman' = FALSE
           /\ game' = [game EXCEPT !.deadline = @ /\ game.turn \notin HumanSeats]
           /\ silent /\ UNCHANGED <<control, seq>>
  <2> DEFINE b == game.deadline /\ game.turn \notin HumanSeats
  <2>1. b \in BOOLEAN /\ game \in Game
    BY DEF TableOK
  <2>2. game' = [game EXCEPT !.deadline = b]
    BY <1>4 DEF TableOK, Game
  <2> HIDE DEF b
  <2>3. game' \in Game
    BY <2>1, <2>2, DeadlineType
  <2> QED
    BY <1>1, <1>2, <1>4, <2>3
    DEF control, silent, feed, ControlOK, TableOK, FeedOK
<1> QED
  BY <1>3, <1>4 DEF TurnTimesOut

LEMMA EndType ==
    ASSUME TypeOK, FinishWithGrace \/ Shutdown \/ Unwind \/ CloseDone
    PROVE  TypeOK'
<1> USE DEF TypeOK
<1>1. CASE FinishWithGrace
  BY <1>1, FailureType
  DEF FinishWithGrace, control, table, queues, callersOf, manager,
      ControlOK, TableOK, QueuesOK, ManagerOK
<1>2. CASE Shutdown
  <2>1. subs' \in [Subscribers -> Nat] /\ UNCHANGED <<sent, finished, notify>>
    BY <1>2 DEF Shutdown, closeSubscribers
  <2>2. FeedOK'
    BY <2>1 DEF FeedOK
  <2>3. QueuesOK'
    BY <1>2 DEF Shutdown, QueuesOK
  <2> QED
    BY <1>2, <2>2, <2>3 DEF Shutdown, table, callersOf, manager, ControlOK, TableOK, ManagerOK,
                            Locations, Exiting
<1>3. CASE Unwind
  <2>1. pc' \in Locations /\ callers' \in Seq(Frame) /\ aiSeat' \in Seats \cup {None}
    BY <1>3 DEF Unwind, Locations, Exiting
  <2>2. QueuesOK'
    BY <1>3 DEF Unwind, QueuesOK
  <2> QED
    BY <1>3, <2>1, <2>2 DEF Unwind, table, feed, callersOf, manager, ControlOK, TableOK,
                            FeedOK, ManagerOK
<1>4. CASE CloseDone
  BY <1>4, GoToType
  DEF CloseDone, table, feed, queues, callersOf, manager, TableOK, FeedOK, QueuesOK,
      ManagerOK, Locations, Exiting
<1> QED
  BY <1>1, <1>2, <1>3, <1>4

LEMMA DrainType ==
    ASSUME TypeOK, DrainCmds
    PROVE  TypeOK'
<1> USE DEF TypeOK
<1>1. TableOK' /\ FeedOK' /\ dealSnapshots' \subseteq View
  BY DEF DrainCmds, table, feed, TableOK, FeedOK
<1>2. CASE /\ cmds # << >> /\ cmds' = Tail(cmds)
           /\ LET c == Head(cmds) IN
              /\ outstanding' = IF isPlay(c) THEN outstanding \ {c.who} ELSE outstanding
              /\ joining' = IF c.kind = "subscribe" THEN joining \ {c.who} ELSE joining
           /\ UNCHANGED control
  <2>1. cmds' \in Seq(Command) /\ Len(cmds') <= cmdChanSize
    BY <1>2, ReceiveType DEF receive
  <2>2. ControlOK' /\ ManagerOK'
    BY <1>2 DEF DrainCmds, control, manager, ControlOK, ManagerOK
  <2> QED
    BY <1>1, <2>1, <2>2 DEF DrainCmds, QueuesOK
<1>3. CASE goTo("closeDone") /\ UNCHANGED <<cmds, callersOf>>
  <2>1. ControlOK'
    BY <1>3, GoToType DEF Locations, Exiting
  <2> QED
    BY <1>1, <1>3, <2>1 DEF DrainCmds, callersOf, manager, ManagerOK, QueuesOK
<1> QED
  BY <1>2, <1>3 DEF DrainCmds

(* The goroutine only ever takes well-typed steps. *)
LEMMA GoroutineType ==
    ASSUME TypeOK, Goroutine
    PROVE  TypeOK'
  BY DealPhaseType, DealCommandType, DealWindowEndsType, ReplayDeferredType,
     ProcessTurnsType, PacingType, AIPlaysType, ResumePausesType, DelayType, SelectType,
     TurnTimesOutType, EndType, DrainType
  DEF Goroutine

(***************************************************************************)
(* Type correctness of the Manager's steps.                                *)
(***************************************************************************)
LEMMA SendType ==
    ASSUME QueuesOK, NEW c \in Command, send(c), deferred' = deferred
    PROVE  QueuesOK'
<1>1. cmds \in Seq(Command) /\ Len(cmds) < cmdChanSize /\ cmds' = Append(cmds, c)
  BY DEF QueuesOK, send
<1>2. cmds' \in Seq(Command) /\ Len(cmds') = Len(cmds) + 1 /\ Len(cmds) \in Nat
  BY <1>1, AppendProperties, LenProperties
<1> QED
  BY <1>1, <1>2, BoundAssumption DEF QueuesOK

LEMMA RestsType ==
    ASSUME TypeOK, theLoopRests
    PROVE  /\ ControlOK' /\ TableOK' /\ FeedOK' /\ deferred' = deferred
           /\ dealSnapshots' \subseteq View
  BY DEF TypeOK, theLoopRests, control, table, feed, ControlOK, TableOK, FeedOK

LEMMA SubmitType ==
    ASSUME TypeOK, SubmitGameplay \/ SubmitPause
    PROVE  TypeOK'
<1> USE DEF TypeOK
<1>1. PICK h \in HumanSeats, kind \in {"action", "pause", "resume"}, n \in {seq - 1, seq},
           id \in ActionIDs \cup {None} :
        /\ SubmitAction(h, kind, n, id)
        /\ kind = "action" => id \in ActionIDs
  <2>1. CASE SubmitGameplay
    BY <2>1 DEF SubmitGameplay
  <2>2. CASE SubmitPause
    BY <2>2 DEF SubmitPause
  <2> QED
    BY <2>1, <2>2
<1>2. CASE n \in Nat
  <2> DEFINE c == [kind |-> kind, who |-> h, seq |-> n, id |-> id]
  <2>1. c \in Command
    BY <1>1, <1>2 DEF Command, Subscribers, isPlay
  <2>2. send(c) /\ theLoopRests
    BY <1>1 DEF SubmitAction
  <2>3. QueuesOK'
    BY <2>1, <2>2, SendType, RestsType
  <2>4. ManagerOK'
    BY <1>1 DEF SubmitAction, ManagerOK
  <2> QED
    BY <2>2, <2>3, <2>4, RestsType
<1>3. n \in Nat
  BY DEF TableOK
<1> QED
  BY <1>2, <1>3

LEMMA CallersType ==
    ASSUME TypeOK,
           \/ \E h \in HumanSeats : SubmitSeesDone(h)
           \/ \E w \in Subscribers : Subscribe(w) \/ Unsubscribe(w)
    PROVE  TypeOK'
<1> USE DEF TypeOK
<1>1. CASE \E h \in HumanSeats : SubmitSeesDone(h)
  BY <1>1, RestsType DEF SubmitSeesDone, manager, QueuesOK, ManagerOK
<1>2. ASSUME NEW w \in Subscribers, Subscribe(w)
      PROVE  TypeOK'
  <2> DEFINE c == [kind |-> "subscribe", who |-> w, seq |-> 0, id |-> None]
  <2>1. c \in Command
    BY DEF Command, isPlay
  <2>2. send(c) /\ theLoopRests
    BY <1>2 DEF Subscribe
  <2>3. QueuesOK'
    BY <2>1, <2>2, SendType, RestsType
  <2>4. ManagerOK'
    BY <1>2 DEF Subscribe, manager, ManagerOK
  <2> QED
    BY <2>2, <2>3, <2>4, RestsType
<1>3. ASSUME NEW w \in Subscribers, Unsubscribe(w)
      PROVE  TypeOK'
  <2> DEFINE c == [kind |-> "unsubscribe", who |-> w, seq |-> 0, id |-> None]
  <2>1. c \in Command
    BY DEF Command, isPlay
  <2>2. send(c) /\ theLoopRests
    BY <1>3 DEF Unsubscribe
  <2>3. QueuesOK'
    BY <2>1, <2>2, SendType, RestsType
  <2>4. ManagerOK'
    BY <1>3 DEF Unsubscribe, callersOf, manager, ManagerOK
  <2> QED
    BY <2>2, <2>3, <2>4, RestsType
<1> QED
  BY <1>1, <1>2, <1>3

LEMMA WritersType ==
    ASSUME TypeOK, DeleteLocks \/ Delete \/ OnDoneLocks \/ OnDone
    PROVE  TypeOK'
<1> USE DEF TypeOK
<1>1. CASE DeleteLocks \/ Delete \/ OnDone
  <2>1. ManagerOK'
    BY <1>1 DEF DeleteLocks, Delete, OnDone, lock, expire, callersOf, ManagerOK
  <2>2. QueuesOK'
    BY <1>1, RestsType DEF DeleteLocks, Delete, OnDone, QueuesOK
  <2> QED
    BY <1>1, <2>1, <2>2, RestsType DEF DeleteLocks, Delete, OnDone
<1>2. CASE OnDoneLocks
  <2>1. ControlOK' /\ TableOK' /\ QueuesOK'
    BY <1>2 DEF OnDoneLocks, control, table, queues, ControlOK, TableOK, QueuesOK
  <2>2. FeedOK' /\ ManagerOK'
    BY <1>2 DEF OnDoneLocks, callersOf, FeedOK, ManagerOK
  <2> QED
    BY <1>2, <2>1, <2>2 DEF OnDoneLocks
<1> QED
  BY <1>1, <1>2

LEMMA InitType ==
    ASSUME Init
    PROVE  TypeOK
<1>1. ControlOK
  BY DEF Init, ControlOK, Locations
<1>2. game \in Game
  <2>1. game \in [outcome : {"StepContinue"}, turn : Seats, dealPending : BOOLEAN,
                  moves : {0}, deadline : {FALSE}]
    BY DEF Init
  <2>2. /\ game.outcome = "StepContinue" /\ game.turn \in Seats
        /\ game.dealPending \in BOOLEAN /\ game.moves = 0 /\ game.deadline = FALSE
    BY <2>1
  <2>4. game.deadline \in BOOLEAN
    BY <2>2
  <2>3. game = [outcome |-> game.outcome, turn |-> game.turn,
                dealPending |-> game.dealPending, moves |-> game.moves,
                deadline |-> game.deadline]
    BY <2>1
  <2> QED
    BY <2>2, <2>3, <2>4 DEF Game, Outcomes
<1>3. TableOK
  <2>1. seq = 1 /\ waitingForHuman = FALSE /\ paused = FALSE /\ actionIDs = {}
    BY DEF Init
  <2>2. waitingForHuman \in BOOLEAN /\ paused \in BOOLEAN
    BY <2>1
  <2> QED
    BY <1>2, <2>1, <2>2 DEF TableOK
<1>4. viewOf(game, FALSE) \in View
  BY <1>2, ViewType
<1>5. FeedOK
  <2>1. /\ finished = FALSE /\ notify = FALSE /\ subs = [s \in Subscribers |-> 0]
        /\ sent = [seq |-> 0, view |-> viewOf(game, FALSE)]
    BY DEF Init
  <2>2. sent \in [seq : Nat, view : View]
    BY <1>4, <2>1
  <2>3. subs \in [Subscribers -> Nat]
    BY <2>1
  <2>4. finished \in BOOLEAN /\ notify \in BOOLEAN
    BY <2>1
  <2> QED
    BY <2>2, <2>3, <2>4 DEF FeedOK
<1>6. QueuesOK /\ dealSnapshots \subseteq View
  BY BoundAssumption DEF Init, QueuesOK
<1>7. ManagerOK
  <2>1. cancel \in BOOLEAN
    BY DEF Init
  <2> QED
    BY <2>1 DEF Init, ManagerOK
<1> QED
  BY <1>1, <1>3, <1>5, <1>6, <1>7 DEF TypeOK

LEMMA NextType ==
    ASSUME TypeOK, [Next]_vars
    PROVE  TypeOK'
<1>1. CASE Goroutine
  BY <1>1, GoroutineType
<1>2. CASE Callers
  BY <1>2, SubmitType, CallersType, WritersType DEF Callers
<1>3. CASE UNCHANGED vars
  BY <1>3 DEF vars, control, table, feed, queues, callersOf, manager,
              TypeOK, ControlOK, TableOK, FeedOK, QueuesOK, ManagerOK
<1> QED
  BY <1>1, <1>2, <1>3 DEF Next, Over

(* Whatever commands, subscriptions, timeouts, failures and deletions
   interleave, every variable keeps its type; in particular the command queue
   never outgrows the channel (session.go's cmds). *)
THEOREM TypeCorrect == Spec => []TypeOK
<1>1. Init => TypeOK
  BY InitType
<1>2. TypeOK /\ [Next]_vars => TypeOK'
  BY NextType
<1> QED
  BY <1>1, <1>2, PTL DEF Spec

(***************************************************************************)
(* The turn is meaningful wherever it is read.  The invariant is inductive *)
(* by itself: an engine step is taken from a location whose outcome is     *)
(* known, and driveAfter goes to the location of the outcome it led to.    *)
(***************************************************************************)
LEMMA ScheduleKeeps ==
    ASSUME NEW g \in Game
    PROVE  /\ scheduleTurnDeadline(g).outcome = g.outcome
           /\ scheduleTurnDeadline(g).turn = g.turn
           /\ scheduleTurnDeadline(g).moves = g.moves
           /\ scheduleTurnDeadline(g).dealPending = g.dealPending
  BY DEF scheduleTurnDeadline, Game

(* Publishing a step changes no more of it than its deadline and deal flag. *)
LEMMA PublishKeeps ==
    ASSUME NEW h \in Game, NEW schedule \in BOOLEAN, publishStep(h, schedule)
    PROVE  /\ game'.outcome = h.outcome /\ game'.turn = h.turn /\ game'.moves = h.moves
           /\ ~game'.dealPending
<1> DEFINE g == IF schedule THEN scheduleTurnDeadline(h) ELSE h
<1>1. /\ g \in Game /\ g.outcome = h.outcome /\ g.turn = h.turn /\ g.moves = h.moves
  BY ScheduleType, ScheduleKeeps
<1>2. game' = [g EXCEPT !.dealPending = FALSE]
  BY DEF publishStep
<1> QED
  BY <1>1, <1>2 DEF Game

LEMMA DriveAfterOutcome ==
    ASSUME NEW o \in Outcomes, driveAfter(o)
    PROVE  outcomeAt(pc') = o
  BY DEF driveAfter, outcomeAt, Outcomes

(* A command either leaves the outcome alone and returns, or is an engine
   step followed by driveTurns. *)
LEMMA CommandOutcome ==
    ASSUME InsideOK, NEW c \in Command, NEW ret \in Locations, NEW w,
           handleCommand(c, ret, w)
    PROVE  \/ game'.outcome = game.outcome /\ game'.moves = game.moves /\ pc' = ret
           \/ /\ game.outcome = "StepContinue"
              /\ game'.outcome = outcomeAt(pc')
<1>1. game \in Game
  BY DEF InsideOK, TableOK
<1>2. CASE handlePlay(c, ret, w)
  <2>1. CASE refusePlay(c, ret, w)
    BY <2>1 DEF refusePlay, goTo
  <2>2. ASSUME NEW h \in HandleAction(c.who), handleAcceptedAction(c, h, ret)
        PROVE  game.outcome = "StepContinue" /\ game'.outcome = outcomeAt(pc')
    <3>1. h \in Game /\ h.outcome \in Outcomes /\ game.outcome = "StepContinue"
      BY <1>1, StepsType DEF Game, HandleAction
    <3>2. game'.outcome = h.outcome
      BY <2>2, <3>1, PublishKeeps DEF handleAcceptedAction
    <3>3. outcomeAt(pc') = h.outcome
      BY <2>2, <3>1, DriveAfterOutcome DEF handleAcceptedAction, driveTurnsFrom
    <3> QED
      BY <3>1, <3>2, <3>3
  <2> QED
    BY <1>2, <2>1, <2>2 DEF handlePlay
<1>3. CASE handlePauseCmd(c, ret)
  BY <1>1, <1>3 DEF handlePauseCmd, goTo, Game
<1>4. CASE handleResumeCmd(c, ret)
  BY <1>1, <1>4 DEF handleResumeCmd, unpause, goTo, Game
<1>5. CASE handleSubscribe(c, ret)
  BY <1>5 DEF handleSubscribe, goTo, table
<1>6. CASE handleUnsubscribe(c, ret)
  BY <1>1, <1>6 DEF handleUnsubscribe, unpause, goTo, Game
<1> QED
  BY <1>2, <1>3, <1>4, <1>5, <1>6 DEF handleCommand

LEMMA CancelStays ==
    ASSUME TypeOK, [Next]_vars, cancel
    PROVE  cancel'
<1>1. CASE Goroutine
  BY <1>1 DEF Goroutine, RunDealPhase, RunNoDeal, DealCommand, DealWindowEnds, ReplayDeferred,
              ProcessTurns, PacingElapses, PacingCommand, AIPlays, ResumePauses,
              ResumeDelayEnds, RedealDelayEnds, DriveShutdown, FinishWithGrace,
              SelectCommand, TurnTimesOut, Shutdown, Unwind, DrainCmds, CloseDone, manager
<1>2. CASE Callers
  BY <1>2 DEF Callers, SubmitGameplay, SubmitPause, SubmitAction, SubmitSeesDone, Subscribe,
              Unsubscribe, DeleteLocks, Delete, expire, OnDoneLocks, OnDone, manager
<1>3. CASE UNCHANGED vars
  BY <1>3 DEF vars, manager
<1> QED
  BY <1>1, <1>2, <1>3 DEF Next, Over

LEMMA TurnMeaningfulStep ==
    ASSUME TypeOK, TurnMeaningful, Goroutine, ~finished', ~cancel', pc' \notin Exiting
    PROVE  game'.outcome = outcomeAt(pc')
<1>1. ~cancel
  BY CancelStays DEF Next
<1>2. game \in Game /\ InsideOK
  BY DEF TypeOK, InsideOK, TableOK, ManagerOK
<1>3. \A p : at(p) /\ p \notin Exiting => game.outcome = outcomeAt(p)
  BY <1>1 DEF TurnMeaningful, at
<1>4. \A p \in {"run", "awaitDealWindow", "replayDeferred", "processTurns", "aiPacing",
                "aiPlay", "resumeDelay", "redealDelay", "select"} :
        outcomeAt(p) = "StepContinue" /\ p \notin Exiting
  BY DEF outcomeAt, Exiting
<1>5. outcomeAt("pauseDelay") = "StepPause" /\ "pauseDelay" \notin Exiting
      /\ outcomeAt("finishWithGrace") = "StepFinished" /\ "finishWithGrace" \notin Exiting
  BY DEF outcomeAt, Exiting
<1>6. ASSUME NEW c \in Command, NEW ret \in {"select", "replayDeferred", "aiPlay", "awaitDealWindow"},
             NEW w, handleCommand(c, ret, w), game.outcome = "StepContinue"
      PROVE  game'.outcome = outcomeAt(pc')
  BY <1>2, <1>4, <1>6, CommandOutcome DEF Locations, Waits
<1>7. CASE RunDealPhase
  BY <1>2, <1>3, <1>4, <1>7 DEF RunDealPhase, goTo, Game
<1>8. CASE RunNoDeal
  <2>1. game'.outcome = "StepContinue"
    BY <1>2, <1>3, <1>4, <1>8, ScheduleKeeps DEF RunNoDeal
  <2> QED
    BY <1>4, <1>8, <2>1, DriveAfterOutcome DEF RunNoDeal, driveTurnsFrom, Outcomes
<1>9. CASE DealCommand
  <2>1. Head(cmds) \in Command /\ game.outcome = "StepContinue" /\ pc = "awaitDealWindow"
    BY <1>3, <1>4, <1>9, ReceiveType DEF DealCommand, TypeOK, at
  <2>2. CASE UNCHANGED <<control, table>>
    BY <1>4, <2>1, <2>2 DEF control, table
  <2>3. CASE handleCommand(Head(cmds), "awaitDealWindow", waitingForHuman)
    BY <1>6, <2>1, <2>3
  <2> QED
    BY <1>9, <2>2, <2>3 DEF DealCommand
<1>10. CASE DealWindowEnds \/ RedealDelayEnds
  BY <1>2, <1>3, <1>4, <1>10, PublishKeeps DEF DealWindowEnds, RedealDelayEnds, goTo
<1>11. CASE ReplayDeferred
  <2>1. game.outcome = "StepContinue"
    BY <1>3, <1>4, <1>11 DEF ReplayDeferred
  <2>2. CASE deferred # << >> /\ handleCommand(Head(deferred), "replayDeferred", waitingForHuman)
    <3>1. Head(deferred) \in Command
      BY <2>2, HeadTailProperties DEF TypeOK, QueuesOK
    <3> QED
      BY <1>6, <2>1, <2>2, <3>1
  <2>3. CASE driveTurnsFrom("select", "StepContinue") /\ UNCHANGED table
    BY <2>1, <2>3, DriveAfterOutcome DEF driveTurnsFrom, Outcomes, table
  <2> QED
    BY <1>11, <2>2, <2>3 DEF ReplayDeferred
<1>12. ASSUME driveReturn, UNCHANGED game, game.outcome = "StepContinue"
       PROVE  game'.outcome = outcomeAt(pc')
  <2>1. Head(callers) \in Frame
    BY <1>12, HeadTailProperties DEF TypeOK, ControlOK, driveReturn
  <2>2. pc' \in {"select", "replayDeferred", "aiPlay"}
    BY <1>12, <2>1 DEF driveReturn, Frame
  <2> QED
    BY <1>4, <1>12, <2>2
<1>13. CASE ProcessTurns
  <2>1. game.outcome = "StepContinue" /\ UNCHANGED game
    BY <1>3, <1>4, <1>13 DEF ProcessTurns
  <2>2. CASE driveReturn
    BY <1>12, <2>1, <2>2
  <2>3. CASE pc' = "aiPacing"
    BY <1>4, <2>1, <2>3
  <2> QED
    BY <1>13, <2>2, <2>3 DEF ProcessTurns, driveFatal
<1>14. CASE PacingElapses \/ ResumeDelayEnds
  BY <1>3, <1>4, <1>14 DEF PacingElapses, ResumeDelayEnds, goTo, table
<1>15. CASE PacingCommand
  <2>1. Head(cmds) \in Command /\ game.outcome = "StepContinue"
    BY <1>3, <1>4, <1>15, ReceiveType DEF PacingCommand, TypeOK
  <2> QED
    BY <1>6, <1>15, <2>1 DEF PacingCommand
<1>16. CASE AIPlays
  <2>1. PICK h \in AIPlay : /\ publishStep(h, h.outcome # "StepFinished")
                            /\ driveAfter(h.outcome)
    BY <1>16 DEF AIPlays, driveFatal
  <2>2. h \in Game /\ h.outcome \in Outcomes
    BY <1>2, StepsType DEF Game
  <2> QED
    BY <2>1, <2>2, PublishKeeps, DriveAfterOutcome
<1>17. CASE ResumePauses
  <2>1. PICK h \in Resume :
          /\ publishStep(h, h.outcome # "StepFinished" /\ ~h.dealPending)
          /\ IF h.outcome = "StepContinue"
             THEN pc' = IF h.dealPending THEN "redealDelay" ELSE "resumeDelay"
             ELSE driveAfter(h.outcome)
    BY <1>17 DEF ResumePauses, driveFatal
  <2>2. h \in Game /\ h.outcome \in Outcomes
    BY <1>2, StepsType DEF Game
  <2>3. game'.outcome = h.outcome
    <3> DEFINE schedule == h.outcome # "StepFinished" /\ ~h.dealPending
    <3>1. schedule \in BOOLEAN /\ publishStep(h, schedule)
      BY <2>1
    <3> HIDE DEF schedule
    <3> QED
      BY <2>2, <3>1, PublishKeeps
  <2> QED
    BY <1>4, <2>1, <2>2, <2>3, DriveAfterOutcome
<1>18. CASE SelectCommand
  <2>1. Head(cmds) \in Command /\ game.outcome = "StepContinue"
    BY <1>3, <1>4, <1>18, ReceiveType DEF SelectCommand, TypeOK
  <2> QED
    BY <1>6, <1>18, <2>1 DEF SelectCommand
<1>19. CASE TurnTimesOut
  <2>1. game.outcome = "StepContinue" /\ pc = "select"
    BY <1>3, <1>4, <1>19 DEF TurnTimesOut, at
  <2>2. CASE \E h \in AIPlay : /\ publishStep(h, h.outcome # "StepFinished")
                               /\ driveTurnsFrom("select", h.outcome)
    <3>1. PICK h \in AIPlay : /\ publishStep(h, h.outcome # "StepFinished")
                              /\ driveTurnsFrom("select", h.outcome)
      BY <2>2
    <3>2. h \in Game /\ h.outcome \in Outcomes
      BY <1>2, StepsType DEF Game
    <3> QED
      BY <3>1, <3>2, PublishKeeps, DriveAfterOutcome DEF driveTurnsFrom
  <2>3. CASE /\ game' = [game EXCEPT !.deadline = @ /\ game.turn \notin HumanSeats]
             /\ UNCHANGED control
    BY <1>2, <1>4, <2>1, <2>3 DEF control, Game
  <2> QED
    BY <1>19, <2>2, <2>3 DEF TurnTimesOut
<1>20. ~(DriveShutdown \/ FinishWithGrace \/ Shutdown \/ Unwind \/ DrainCmds \/ CloseDone)
  BY <1>1 DEF DriveShutdown, FinishWithGrace, driveFatal, Shutdown, Unwind, DrainCmds, CloseDone,
              Exiting, goTo, control
<1> QED
  BY <1>7, <1>8, <1>9, <1>10, <1>11, <1>13, <1>14, <1>15, <1>16, <1>17, <1>18, <1>19, <1>20
  DEF Goroutine

(* Until the session is cancelled or over, the goroutine never reads a turn,
   plays an AI move or takes a command in a game that is parked between
   rounds or finished (driveTurns' fromPause contract). *)
THEOREM TurnIsMeaningful == Spec => []TurnMeaningful
<1>1. Init => TurnMeaningful
  BY DEF Init, TurnMeaningful, outcomeAt
<1>2. TypeOK /\ TurnMeaningful /\ [Next]_vars => TurnMeaningful'
  <2> SUFFICES ASSUME TypeOK, TurnMeaningful, [Next]_vars
               PROVE  TurnMeaningful'
    OBVIOUS
  <2>1. CASE Goroutine
    BY <2>1, TurnMeaningfulStep DEF TurnMeaningful, Exiting
  <2>2. CASE ~Goroutine
    <3>1. UNCHANGED <<pc, game, finished>>
      BY <2>2 DEF Next, Callers, SubmitGameplay, SubmitPause, SubmitAction, SubmitSeesDone,
                  Subscribe, Unsubscribe, DeleteLocks, Delete, OnDoneLocks, OnDone, Over,
                  theLoopRests, vars, control, table, feed
    <3> QED
      BY <3>1, CancelStays DEF TurnMeaningful
  <2> QED
    BY <2>1, <2>2
<1> QED
  BY <1>1, <1>2, TypeCorrect, PTL DEF Spec

-----------------------------------------------------------------------------
(***************************************************************************)
(* What the end of a session leaves behind: nobody subscribed, no command  *)
(* forgotten.                                                              *)
(***************************************************************************)

(***************************************************************************)
(* An ended session has no subscribers: every step that ends it closes     *)
(* them, and nothing registers anyone afterwards.                          *)
(***************************************************************************)
EndsClean == finished' => closeSubscribers

LEMMA BroadcastEnds ==
    ASSUME ~finished, NEW v, NEW n, NEW r, broadcastSnapshot(v, n, r)
    PROVE  EndsClean
  BY DEF broadcastSnapshot, terminateOnMarshalFailure, EndsClean

LEMMA PublishEnds ==
    ASSUME ~finished, NEW h, NEW schedule, publishStep(h, schedule)
    PROVE  EndsClean
  BY BroadcastEnds DEF publishStep

LEMMA CommandEnds ==
    ASSUME ~finished, NEW c, NEW ret, NEW w, handleCommand(c, ret, w)
    PROVE  EndsClean
<1>1. CASE handlePlay(c, ret, w)
  <2>1. CASE refusePlay(c, ret, w)
    BY <2>1 DEF refusePlay, silent, feed, terminateOnMarshalFailure, EndsClean
  <2>2. ASSUME NEW h, handleAcceptedAction(c, h, ret)
        PROVE  EndsClean
    BY <2>2, PublishEnds DEF handleAcceptedAction
  <2> QED
    BY <1>1, <2>1, <2>2 DEF handlePlay
<1>2. CASE handlePauseCmd(c, ret)
  BY <1>2, BroadcastEnds DEF handlePauseCmd, silent, feed, EndsClean
<1>3. CASE handleResumeCmd(c, ret)
  BY <1>3, BroadcastEnds DEF handleResumeCmd, unpause, silent, feed, EndsClean
<1>4. CASE handleSubscribe(c, ret)
  BY <1>4 DEF handleSubscribe, terminateOnMarshalFailure, EndsClean
<1>5. CASE handleUnsubscribe(c, ret)
  BY <1>5, BroadcastEnds DEF handleUnsubscribe, unpause, EndsClean
<1> QED
  BY <1>1, <1>2, <1>3, <1>4, <1>5 DEF handleCommand

LEMMA StepEnds ==
    ASSUME ~finished, Goroutine
    PROVE  EndsClean
<1>1. CASE DealCommand \/ PacingCommand \/ SelectCommand \/ ReplayDeferred
  BY <1>1, CommandEnds DEF DealCommand, PacingCommand, SelectCommand, ReplayDeferred, feed,
                           EndsClean
<1>2. CASE RunDealPhase \/ RunNoDeal
  BY <1>2, BroadcastEnds DEF RunDealPhase, RunNoDeal
<1>3. CASE AIPlays \/ ResumePauses \/ DealWindowEnds \/ RedealDelayEnds
  BY <1>3, PublishEnds DEF AIPlays, ResumePauses, DealWindowEnds, RedealDelayEnds, driveFatal,
                           EndsClean
<1>4. CASE TurnTimesOut
  BY <1>4, PublishEnds DEF TurnTimesOut, silent, feed, EndsClean
<1>5. CASE ProcessTurns \/ FinishWithGrace
  BY <1>5 DEF ProcessTurns, FinishWithGrace, driveFatal, silent, feed, EndsClean
<1>6. CASE PacingElapses \/ ResumeDelayEnds \/ DriveShutdown \/ Shutdown \/ Unwind
           \/ DrainCmds \/ CloseDone
  BY <1>6 DEF PacingElapses, ResumeDelayEnds, DriveShutdown, Shutdown, Unwind, DrainCmds,
              CloseDone, feed, EndsClean
<1> QED
  BY <1>1, <1>2, <1>3, <1>4, <1>5, <1>6 DEF Goroutine

LEMMA DriveGoesOn ==
    ASSUME NEW o \in Outcomes, driveAfter(o)
    PROVE  pc' \notin Exiting
  BY DEF driveAfter, Outcomes, Exiting

LEMMA CommandGoesOn ==
    ASSUME game \in Game, NEW c, NEW ret, ret \notin Exiting, NEW w, handleCommand(c, ret, w)
    PROVE  pc' \notin Exiting
<1>1. CASE handlePlay(c, ret, w)
  <2>1. ASSUME NEW h \in HandleAction(c.who), handleAcceptedAction(c, h, ret)
        PROVE  pc' \notin Exiting
    <3>1. h \in Game
      BY <2>1, StepsType
    <3>2. driveAfter(h.outcome) /\ h.outcome \in Outcomes
      BY <2>1, <3>1 DEF handleAcceptedAction, driveTurnsFrom, Game
    <3> QED
      BY <3>2, DriveGoesOn
  <2> QED
    BY <1>1, <2>1 DEF handlePlay, refusePlay, goTo
<1> QED
  BY <1>1 DEF handleCommand, handlePauseCmd, handleResumeCmd, handleSubscribe,
              handleUnsubscribe, goTo

(* The goroutine only enters its way out through Shutdown and Unwind. *)
LEMMA StepGoesOn ==
    ASSUME TypeOK, Goroutine, ~finished, pc \notin Exiting, ~Shutdown
    PROVE  pc' \notin Exiting
<1>1. game \in Game
  BY DEF TypeOK, TableOK
<1>2. "select" \notin Exiting /\ "replayDeferred" \notin Exiting /\ "aiPlay" \notin Exiting
      /\ "awaitDealWindow" \notin Exiting /\ "StepContinue" \in Outcomes
  BY DEF Exiting, Outcomes
<1>3. CASE DealCommand
  BY <1>1, <1>2, <1>3, CommandGoesOn DEF DealCommand, control
<1>4. CASE PacingCommand \/ SelectCommand
  BY <1>1, <1>2, <1>4, CommandGoesOn DEF PacingCommand, SelectCommand
<1>5. CASE ReplayDeferred \/ RunNoDeal
  BY <1>1, <1>2, <1>5, CommandGoesOn, DriveGoesOn DEF ReplayDeferred, RunNoDeal, driveTurnsFrom
<1>6. CASE AIPlays \/ ResumePauses \/ TurnTimesOut
  <2>1. \A h \in AIPlay \cup Resume : h.outcome \in Outcomes
    BY <1>1, StepsType DEF Game
  <2>2. CASE AIPlays
    BY <2>1, <2>2, DriveGoesOn DEF AIPlays, control
  <2>3. CASE ResumePauses
    BY <2>1, <2>3, DriveGoesOn DEF ResumePauses, control, Exiting
  <2>4. CASE TurnTimesOut
    BY <2>1, <2>4, DriveGoesOn DEF TurnTimesOut, driveTurnsFrom, control
  <2> QED
    BY <1>6, <2>2, <2>3, <2>4
<1>7. CASE ProcessTurns \/ DriveShutdown
  <2>1. CASE driveReturn
    <3>1. Head(callers) \in Frame
      BY <2>1, HeadTailProperties DEF TypeOK, ControlOK, driveReturn
    <3> QED
      BY <2>1, <3>1 DEF driveReturn, Frame, Exiting
  <2> QED
    BY <1>7, <2>1 DEF ProcessTurns, DriveShutdown, driveFatal, control, Exiting
<1>8. CASE \/ RunDealPhase \/ DealWindowEnds \/ RedealDelayEnds \/ PacingElapses
           \/ ResumeDelayEnds \/ FinishWithGrace
  BY <1>8 DEF RunDealPhase, DealWindowEnds, RedealDelayEnds, PacingElapses, ResumeDelayEnds,
              FinishWithGrace, goTo, control, Exiting
<1> QED
  BY <1>3, <1>4, <1>5, <1>6, <1>7, <1>8
  DEF Goroutine, Unwind, DrainCmds, CloseDone, Exiting

(* Steps of the manager and of its callers do not touch the goroutine's own
   state. *)
LEMMA CallersRest ==
    ASSUME [Next]_vars, ~Goroutine
    PROVE  UNCHANGED <<control, table, subs, sent, finished, deferred, dealSnapshots>>
<1>1. CASE UNCHANGED vars
  BY <1>1 DEF vars, feed, queues
<1>2. CASE OnDoneLocks
  BY <1>2 DEF OnDoneLocks, queues
<1>3. CASE theLoopRests
  BY <1>3 DEF theLoopRests, feed
<1> QED
  BY <1>1, <1>2, <1>3
  DEF Next, Callers, Over, SubmitGameplay, SubmitPause, SubmitAction, SubmitSeesDone, Subscribe,
      Unsubscribe, DeleteLocks, Delete, OnDone

(* However a session ends (game over, engine error, marshal failure, delete),
   its subscribers are closed when it does and no subscription taken from the
   queue afterwards is registered (closeSubscribers, drainCmds). *)
THEOREM NobodyStaysSubscribed == Spec => []EndedHasNoSubscribers
<1>1. Init => EndedHasNoSubscribers
  BY DEF Init, EndedHasNoSubscribers, Exiting
<1>2. TypeOK /\ EndedHasNoSubscribers /\ [Next]_vars => EndedHasNoSubscribers'
  <2> SUFFICES ASSUME TypeOK, EndedHasNoSubscribers, [Next]_vars
               PROVE  EndedHasNoSubscribers'
    OBVIOUS
  <2>1. CASE ~Goroutine
    <3>1. UNCHANGED <<pc, finished, subs>>
      BY <2>1, CallersRest DEF control
    <3> QED
      BY <3>1 DEF EndedHasNoSubscribers
  <2>2. CASE Goroutine /\ (finished \/ pc \in Exiting)
    <3>1. subs' = subs
      BY <2>2 DEF Goroutine, RunDealPhase, RunNoDeal, DealCommand, DealWindowEnds,
                  ReplayDeferred, ProcessTurns, PacingElapses, PacingCommand, AIPlays,
                  ResumePauses, ResumeDelayEnds, RedealDelayEnds, DriveShutdown,
                  FinishWithGrace, SelectCommand, TurnTimesOut, Shutdown, Unwind, DrainCmds,
                  CloseDone, at, feed, Exiting
    <3> QED
      BY <2>2, <3>1 DEF EndedHasNoSubscribers
  <2>3. CASE Goroutine /\ ~finished /\ pc \notin Exiting
    <3>1. CASE finished' \/ Shutdown
      BY <2>3, <3>1, StepEnds DEF EndsClean, Shutdown, closeSubscribers, EndedHasNoSubscribers
    <3>2. CASE ~finished' /\ ~Shutdown
      BY <2>3, <3>2, StepGoesOn DEF EndedHasNoSubscribers
    <3> QED
      BY <3>1, <3>2
  <2> QED
    BY <2>1, <2>2, <2>3
<1> QED
  BY <1>1, <1>2, TypeCorrect, PTL DEF Spec

(* A goroutine that has ended its session only leaves. *)
LEMMA EndedRests ==
    ASSUME finished, Goroutine
    PROVE  UNCHANGED feed
  BY DEF Goroutine, RunDealPhase, RunNoDeal, DealCommand, DealWindowEnds, ReplayDeferred,
         ProcessTurns, PacingElapses, PacingCommand, AIPlays, ResumePauses, ResumeDelayEnds,
         RedealDelayEnds, DriveShutdown, FinishWithGrace, SelectCommand, TurnTimesOut, Shutdown,
         Unwind, DrainCmds, CloseDone, at

LEMMA FinishedStays ==
    ASSUME finished, [Next]_vars
    PROVE  finished'
  BY EndedRests, CallersRest DEF feed

(* The step that ends a session spawns the notice. *)
LEMMA BroadcastNotes ==
    ASSUME ~finished, NEW v, NEW n, NEW r, broadcastSnapshot(v, n, r)
    PROVE  finished' => notify'
  BY DEF broadcastSnapshot, terminateOnMarshalFailure

LEMMA PublishNotes ==
    ASSUME ~finished, NEW h, NEW schedule, publishStep(h, schedule)
    PROVE  finished' => notify'
  BY BroadcastNotes DEF publishStep

LEMMA CommandNotes ==
    ASSUME ~finished, NEW c, NEW ret, NEW w, handleCommand(c, ret, w)
    PROVE  finished' => notify'
<1>1. CASE handlePlay(c, ret, w)
  <2>1. CASE refusePlay(c, ret, w)
    BY <2>1 DEF refusePlay, silent, feed, terminateOnMarshalFailure
  <2>2. ASSUME NEW h, handleAcceptedAction(c, h, ret)
        PROVE  finished' => notify'
    BY <2>2, PublishNotes DEF handleAcceptedAction
  <2> QED
    BY <1>1, <2>1, <2>2 DEF handlePlay
<1>2. CASE handlePauseCmd(c, ret)
  BY <1>2, BroadcastNotes DEF handlePauseCmd, silent, feed
<1>3. CASE handleResumeCmd(c, ret)
  BY <1>3, BroadcastNotes DEF handleResumeCmd, unpause, silent, feed
<1>4. CASE handleSubscribe(c, ret)
  BY <1>4 DEF handleSubscribe, terminateOnMarshalFailure
<1>5. CASE handleUnsubscribe(c, ret)
  BY <1>5, BroadcastNotes DEF handleUnsubscribe, unpause
<1> QED
  BY <1>1, <1>2, <1>3, <1>4, <1>5 DEF handleCommand

LEMMA StepNotes ==
    ASSUME ~finished, Goroutine
    PROVE  finished' => notify'
<1>1. CASE DealCommand \/ PacingCommand \/ SelectCommand \/ ReplayDeferred
  BY <1>1, CommandNotes DEF DealCommand, PacingCommand, SelectCommand, ReplayDeferred, feed
<1>2. CASE RunDealPhase \/ RunNoDeal
  BY <1>2, BroadcastNotes DEF RunDealPhase, RunNoDeal
<1>3. CASE AIPlays \/ ResumePauses \/ DealWindowEnds \/ RedealDelayEnds
  BY <1>3, PublishNotes DEF AIPlays, ResumePauses, DealWindowEnds, RedealDelayEnds, driveFatal
<1>4. CASE TurnTimesOut
  BY <1>4, PublishNotes DEF TurnTimesOut, silent, feed
<1>5. CASE ProcessTurns \/ FinishWithGrace
  BY <1>5 DEF ProcessTurns, FinishWithGrace, driveFatal, silent, feed
<1>6. CASE PacingElapses \/ ResumeDelayEnds \/ DriveShutdown \/ Shutdown \/ Unwind
           \/ DrainCmds \/ CloseDone
  BY <1>6 DEF PacingElapses, ResumeDelayEnds, DriveShutdown, Shutdown, Unwind, DrainCmds,
              CloseDone, feed
<1> QED
  BY <1>1, <1>2, <1>3, <1>4, <1>5, <1>6 DEF Goroutine

(* The Manager hears of the end of a session: from the step that ends it to the
   record, the notice is somewhere on its way. *)
THEOREM EndReachesManager == Spec => []EndIsNoted
<1>1. Init => EndIsNoted
  BY DEF Init, EndIsNoted
<1>2. TypeOK /\ EndIsNoted /\ [Next]_vars => EndIsNoted'
  <2> SUFFICES ASSUME TypeOK, EndIsNoted, [Next]_vars
               PROVE  EndIsNoted'
    OBVIOUS
  <2>1. CASE Goroutine
    <3>1. UNCHANGED <<state, writers>>
      BY <2>1 DEF Goroutine, RunDealPhase, RunNoDeal, DealCommand, DealWindowEnds,
                  ReplayDeferred, ProcessTurns, PacingElapses, PacingCommand, AIPlays,
                  ResumePauses, ResumeDelayEnds, RedealDelayEnds, DriveShutdown,
                  FinishWithGrace, SelectCommand, TurnTimesOut, Shutdown, Unwind, DrainCmds,
                  CloseDone, manager
    <3>2. CASE finished
      BY <2>1, <3>1, <3>2, EndedRests DEF feed, EndIsNoted
    <3>3. CASE ~finished
      BY <2>1, <3>1, <3>3, StepNotes DEF EndIsNoted
    <3> QED
      BY <3>2, <3>3
  <2>2. CASE Callers
    <3>1. CASE OnDoneLocks
      BY <3>1 DEF OnDoneLocks, EndIsNoted
    <3>2. CASE DeleteLocks \/ Delete \/ OnDone
      BY <3>2 DEF DeleteLocks, Delete, OnDone, lock, expire, theLoopRests, feed, EndIsNoted
    <3>3. CASE \/ SubmitGameplay \/ SubmitPause
               \/ \E h \in HumanSeats : SubmitSeesDone(h)
               \/ \E w \in Subscribers : Subscribe(w) \/ Unsubscribe(w)
      BY <3>3 DEF SubmitGameplay, SubmitPause, SubmitAction, SubmitSeesDone, Subscribe,
                  Unsubscribe, theLoopRests, feed, manager, EndIsNoted
    <3> QED
      BY <2>2, <3>1, <3>2, <3>3 DEF Callers
  <2>3. CASE UNCHANGED vars
    BY <2>3 DEF vars, feed, manager, EndIsNoted
  <2> QED
    BY <2>1, <2>2, <2>3 DEF Next, Over
<1> QED
  BY <1>1, <1>2, TypeCorrect, PTL DEF Spec

(***************************************************************************)
(* No gameplay command is forgotten when a session is deleted.  Every      *)
(* queued gameplay command belongs to a caller that is still inside        *)
(* SubmitAction, and to no other queued command; Delete gets the lock when *)
(* nobody is inside.                                                       *)
(***************************************************************************)
OnePerOwner(s) ==
    \A i, j \in 1 .. Len(s) :
        i # j /\ isPlay(s[i]) /\ isPlay(s[j]) => s[i].who # s[j].who

owners(s) == {s[i].who : i \in {k \in 1 .. Len(s) : isPlay(s[k])}}

CommandsOwed ==
    /\ OnePerOwner(cmds) /\ OnePerOwner(deferred)
    /\ owners(cmds) \cap owners(deferred) = {}
    /\ owners(cmds) \cup owners(deferred) \subseteq outstanding
    /\ \A i \in 1 .. Len(deferred) : isPlay(deferred[i])

DeleteExcludes == cancel => state = "Expired" /\ outstanding = {}

LEMMA TailOwners ==
    ASSUME NEW s \in Seq(Command), s # << >>, OnePerOwner(s)
    PROVE  /\ OnePerOwner(Tail(s))
           /\ owners(Tail(s)) \subseteq owners(s)
           /\ isPlay(Head(s)) => /\ Head(s).who \in owners(s)
                                 /\ Head(s).who \notin owners(Tail(s))
<1>1. /\ Len(s) \in Nat /\ Len(s) >= 1 /\ Len(Tail(s)) = Len(s) - 1 /\ Head(s) = s[1]
      /\ \A i \in 1 .. Len(Tail(s)) : Tail(s)[i] = s[i + 1]
  BY HeadTailProperties, LenProperties
<1>2. \A i \in 1 .. Len(Tail(s)) : i + 1 \in 1 .. Len(s) /\ i + 1 # 1
  BY <1>1
<1>3. OnePerOwner(Tail(s))
  BY <1>1, <1>2 DEF OnePerOwner
<1>4. owners(Tail(s)) \subseteq owners(s)
  BY <1>1, <1>2 DEF owners
<1>5. ASSUME isPlay(Head(s))
      PROVE  Head(s).who \in owners(s) /\ Head(s).who \notin owners(Tail(s))
  <2>1. 1 \in 1 .. Len(s) /\ isPlay(s[1])
    BY <1>1, <1>5
  <2>2. \A i \in 1 .. Len(Tail(s)) : isPlay(Tail(s)[i]) => Tail(s)[i].who # s[1].who
    BY <1>1, <1>2, <2>1 DEF OnePerOwner
  <2> QED
    BY <1>1, <2>1, <2>2 DEF owners
<1> QED
  BY <1>3, <1>4, <1>5

LEMMA AppendOwners ==
    ASSUME NEW s \in Seq(Command), NEW c \in Command, OnePerOwner(s),
           isPlay(c) => c.who \notin owners(s)
    PROVE  /\ OnePerOwner(Append(s, c))
           /\ owners(Append(s, c)) \subseteq owners(s) \cup IF isPlay(c) THEN {c.who} ELSE {}
<1> DEFINE t == Append(s, c)
<1>1. /\ Len(s) \in Nat /\ Len(t) = Len(s) + 1 /\ t[Len(s) + 1] = c
      /\ \A i \in 1 .. Len(s) : t[i] = s[i]
  BY AppendProperties, LenProperties
<1> HIDE DEF t
<1>2. \A i \in 1 .. Len(t) : i \in 1 .. Len(s) \/ i = Len(s) + 1
  BY <1>1
<1>3. \A i \in 1 .. Len(s) : isPlay(s[i]) => s[i].who \in owners(s)
  BY DEF owners
<1>4. OnePerOwner(t)
  BY <1>1, <1>2, <1>3 DEF OnePerOwner
<1>5. owners(t) \subseteq owners(s) \cup IF isPlay(c) THEN {c.who} ELSE {}
  BY <1>1, <1>2 DEF owners
<1> QED
  BY <1>4, <1>5 DEF t

LEMMA CommandAnswers ==
    ASSUME NEW c \in Command, NEW ret, NEW w, handleCommand(c, ret, w)
    PROVE  outstanding' = IF isPlay(c) THEN outstanding \ {c.who} ELSE outstanding
<1>1. CASE handlePlay(c, ret, w) \/ handlePauseCmd(c, ret) \/ handleResumeCmd(c, ret)
  BY <1>1 DEF handlePlay, handlePauseCmd, handleResumeCmd, answer, isPlay
<1>2. CASE handleSubscribe(c, ret) \/ handleUnsubscribe(c, ret)
  BY <1>2 DEF handleSubscribe, handleUnsubscribe, callersOf, isPlay
<1> QED
  BY <1>1, <1>2 DEF handleCommand

LEMMA OwedNext ==
    ASSUME /\ OnePerOwner(cmds') /\ OnePerOwner(deferred')
           /\ owners(cmds') \cap owners(deferred') = {}
           /\ owners(cmds') \cup owners(deferred') \subseteq outstanding'
           /\ \A i \in 1 .. Len(deferred') : isPlay(deferred'[i])
    PROVE  CommandsOwed'
<1>1. OnePerOwner(cmds)' /\ OnePerOwner(deferred)'
  BY DEF OnePerOwner
<1>2. owners(cmds)' = owners(cmds') /\ owners(deferred)' = owners(deferred')
  BY DEF owners
<1> QED
  BY <1>1, <1>2 DEF CommandsOwed

LEMMA OwedStays ==
    ASSUME CommandsOwed, UNCHANGED <<queues, outstanding>>
    PROVE  CommandsOwed'
  BY OwedNext DEF queues, CommandsOwed

LEMMA GoroutineOwes ==
    ASSUME TypeOK, CommandsOwed, Goroutine, pc' # "exited"
    PROVE  CommandsOwed'
<1>1. cmds \in Seq(Command) /\ deferred \in Seq(Command) /\ QueuesOK
  BY DEF TypeOK, QueuesOK
<1>2. ASSUME UNCHANGED <<queues, callersOf>>
      PROVE  CommandsOwed'
  BY <1>2, OwedStays DEF callersOf
<1>3. ASSUME receive
      PROVE  /\ Head(cmds) \in Command /\ OnePerOwner(cmds')
             /\ owners(cmds') \subseteq owners(cmds)
             /\ isPlay(Head(cmds)) => /\ Head(cmds).who \in owners(cmds)
                                      /\ Head(cmds).who \notin owners(cmds')
  BY <1>1, <1>3, ReceiveType, TailOwners DEF receive, CommandsOwed
<1>4. ASSUME receive, UNCHANGED deferred,
             outstanding' = IF isPlay(Head(cmds)) THEN outstanding \ {Head(cmds).who}
                            ELSE outstanding
      PROVE  CommandsOwed'
  BY <1>3, <1>4, OwedNext DEF CommandsOwed
<1>5. CASE PacingCommand \/ SelectCommand
  BY <1>3, <1>4, <1>5, CommandAnswers DEF PacingCommand, SelectCommand
<1>6. CASE DealCommand
  <2>1. receive /\ Head(cmds) \in Command
    BY <1>3, <1>6 DEF DealCommand
  <2>2. CASE isPlay(Head(cmds)) /\ deferred' = Append(deferred, Head(cmds)) /\ UNCHANGED callersOf
    <3>1. Head(cmds).who \notin owners(deferred)
      BY <1>3, <2>1, <2>2 DEF CommandsOwed
    <3>2. /\ OnePerOwner(deferred')
          /\ owners(deferred') \subseteq owners(deferred) \cup {Head(cmds).who}
      BY <1>1, <2>1, <2>2, <3>1, AppendOwners DEF CommandsOwed
    <3>3. \A i \in 1 .. Len(deferred') : isPlay(deferred'[i])
      <4>1. /\ Len(deferred') = Len(deferred) + 1 /\ deferred'[Len(deferred) + 1] = Head(cmds)
            /\ \A i \in 1 .. Len(deferred) : deferred'[i] = deferred[i]
        BY <1>1, <2>1, <2>2, AppendProperties
      <4>2. Len(deferred) \in Nat /\ \A i \in 1 .. Len(deferred) : isPlay(deferred[i])
        BY <1>1, LenProperties DEF CommandsOwed
      <4> QED
        BY <2>2, <4>1, <4>2
    <3>4. /\ owners(cmds') \cap owners(deferred') = {}
          /\ owners(cmds') \cup owners(deferred') \subseteq outstanding
      BY <1>3, <2>1, <2>2, <3>2 DEF CommandsOwed
    <3> QED
      BY <1>3, <2>1, <2>2, <3>2, <3>3, <3>4, OwedNext DEF callersOf
  <2>3. CASE ~isPlay(Head(cmds)) /\ UNCHANGED deferred
             /\ handleCommand(Head(cmds), "awaitDealWindow", waitingForHuman)
    BY <1>4, <2>1, <2>3, CommandAnswers
  <2> QED
    BY <1>6, <2>2, <2>3 DEF DealCommand
<1>7. CASE ReplayDeferred
  <2>1. CASE /\ deferred # << >> /\ deferred' = Tail(deferred)
             /\ handleCommand(Head(deferred), "replayDeferred", waitingForHuman)
    <3>1. /\ Head(deferred) \in Command /\ OnePerOwner(deferred')
          /\ owners(deferred') \subseteq owners(deferred)
          /\ isPlay(Head(deferred)) => /\ Head(deferred).who \in owners(deferred)
                                       /\ Head(deferred).who \notin owners(deferred')
      BY <1>1, <2>1, TailOwners, HeadTailProperties DEF CommandsOwed
    <3>2. outstanding' = IF isPlay(Head(deferred)) THEN outstanding \ {Head(deferred).who}
                         ELSE outstanding
      BY <2>1, <3>1, CommandAnswers
    <3>3. \A i \in 1 .. Len(deferred') : isPlay(deferred'[i])
      <4>1. /\ Len(deferred') = Len(deferred) - 1 /\ Len(deferred) \in Nat
            /\ \A i \in 1 .. Len(deferred') : deferred'[i] = deferred[i + 1]
        BY <1>1, <2>1, HeadTailProperties, LenProperties
      <4>2. \A i \in 1 .. Len(deferred) : isPlay(deferred[i])
        BY DEF CommandsOwed
      <4> QED
        BY <4>1, <4>2
    <3>4. cmds' = cmds
      BY <1>7 DEF ReplayDeferred
    <3>5. /\ owners(cmds) \cap owners(deferred') = {}
          /\ owners(cmds) \cup owners(deferred') \subseteq outstanding'
      BY <3>1, <3>2 DEF CommandsOwed
    <3> QED
      BY <3>1, <3>3, <3>4, <3>5, OwedNext DEF CommandsOwed
  <2>2. CASE UNCHANGED <<deferred, callersOf>>
    BY <1>2, <1>7, <2>2 DEF ReplayDeferred, queues
  <2> QED
    BY <1>7, <2>1, <2>2 DEF ReplayDeferred
<1>8. CASE Shutdown \/ Unwind
  <2>1. deferred' = << >> /\ cmds' = cmds /\ outstanding' = outstanding
    BY <1>8 DEF Shutdown, Unwind, callersOf
  <2>2. OnePerOwner(<< >>) /\ owners(<< >>) = {}
    BY DEF OnePerOwner, owners
  <2> QED
    BY <2>1, <2>2, OwedNext DEF CommandsOwed
<1>9. CASE DrainCmds
  <2>1. CASE cmds # << >> /\ cmds' = Tail(cmds)
             /\ outstanding' = IF isPlay(Head(cmds)) THEN outstanding \ {Head(cmds).who}
                               ELSE outstanding
    BY <1>4, <1>9, <2>1 DEF DrainCmds, receive
  <2>2. CASE UNCHANGED <<cmds, callersOf>>
    BY <1>2, <1>9, <2>2 DEF DrainCmds, queues
  <2> QED
    BY <1>9, <2>1, <2>2 DEF DrainCmds
<1>10. CASE \/ RunDealPhase \/ RunNoDeal \/ DealWindowEnds \/ ProcessTurns \/ PacingElapses
            \/ AIPlays \/ ResumePauses \/ ResumeDelayEnds \/ RedealDelayEnds \/ DriveShutdown
            \/ FinishWithGrace \/ TurnTimesOut \/ CloseDone
  BY <1>2, <1>10 DEF RunDealPhase, RunNoDeal, DealWindowEnds, ProcessTurns, PacingElapses,
            AIPlays, ResumePauses, ResumeDelayEnds, RedealDelayEnds, DriveShutdown,
            FinishWithGrace, TurnTimesOut, CloseDone
<1> QED
  BY <1>5, <1>6, <1>7, <1>8, <1>9, <1>10 DEF Goroutine

LEMMA CallersOwe ==
    ASSUME TypeOK, CommandsOwed, Callers, pc # "exited"
    PROVE  CommandsOwed'
<1>1. cmds \in Seq(Command)
  BY DEF TypeOK, QueuesOK
<1>2. deferred' = deferred
  BY DEF Callers, SubmitGameplay, SubmitPause, SubmitAction, SubmitSeesDone, Subscribe,
         Unsubscribe, DeleteLocks, Delete, OnDoneLocks, OnDone, theLoopRests, queues
<1>3. ASSUME NEW c \in Command, send(c), isPlay(c) => c.who \notin outstanding,
             outstanding' = IF isPlay(c) THEN outstanding \cup {c.who} ELSE outstanding
      PROVE  CommandsOwed'
  <2>1. /\ OnePerOwner(cmds')
        /\ owners(cmds') \subseteq owners(cmds) \cup IF isPlay(c) THEN {c.who} ELSE {}
    BY <1>1, <1>3, AppendOwners DEF send, CommandsOwed
  <2>2. /\ owners(cmds') \cap owners(deferred) = {}
        /\ owners(cmds') \cup owners(deferred) \subseteq outstanding'
    BY <1>3, <2>1 DEF CommandsOwed
  <2> QED
    BY <1>2, <2>1, <2>2, OwedNext DEF CommandsOwed
<1>4. CASE SubmitGameplay \/ SubmitPause
  <2>1. PICK h \in HumanSeats, kind \in {"action", "pause", "resume"}, n \in {seq - 1, seq},
             id \in ActionIDs \cup {None} :
          /\ SubmitAction(h, kind, n, id)
          /\ kind = "action" => id \in ActionIDs
    BY <1>4 DEF SubmitGameplay, SubmitPause
  <2>2. n \in Nat
    BY DEF TypeOK, TableOK
  <2> DEFINE c == [kind |-> kind, who |-> h, seq |-> n, id |-> id]
  <2>3. c \in Command /\ isPlay(c) /\ c.who = h
    BY <2>1, <2>2 DEF Command, Subscribers, isPlay
  <2>4. send(c) /\ h \notin outstanding /\ outstanding' = outstanding \cup {h}
    BY <2>1 DEF SubmitAction
  <2> HIDE DEF c
  <2> QED
    BY <1>3, <2>3, <2>4
<1>5. CASE \E w \in Subscribers : Subscribe(w) \/ Unsubscribe(w)
  <2>1. PICK w \in Subscribers, kind \in {"subscribe", "unsubscribe"} :
          send([kind |-> kind, who |-> w, seq |-> 0, id |-> None])
    BY <1>5 DEF Subscribe, Unsubscribe
  <2> DEFINE c == [kind |-> kind, who |-> w, seq |-> 0, id |-> None]
  <2>2. c \in Command /\ ~isPlay(c) /\ send(c)
    BY <2>1 DEF Command, isPlay
  <2>3. outstanding' = outstanding
    BY <1>5 DEF Subscribe, Unsubscribe, callersOf
  <2> HIDE DEF c
  <2> QED
    BY <1>3, <2>2, <2>3
<1>6. CASE DeleteLocks \/ Delete \/ OnDoneLocks \/ OnDone
  <2>1. cmds' = cmds /\ outstanding' = outstanding
    BY <1>6 DEF DeleteLocks, Delete, OnDoneLocks, OnDone, queues, callersOf
  <2> QED
    BY <1>2, <2>1, OwedStays DEF queues
<1>7. ~\E h \in HumanSeats : SubmitSeesDone(h)
  BY DEF SubmitSeesDone
<1> QED
  BY <1>4, <1>5, <1>6, <1>7 DEF Callers

LEMMA DeleteExcludesStep ==
    ASSUME TypeOK, DeleteExcludes, [Next]_vars
    PROVE  DeleteExcludes'
<1>1. CASE Goroutine
  <2>1. UNCHANGED manager
    BY <1>1 DEF Goroutine, RunDealPhase, RunNoDeal, DealCommand, DealWindowEnds,
                ReplayDeferred, ProcessTurns, PacingElapses, PacingCommand, AIPlays,
                ResumePauses, ResumeDelayEnds, RedealDelayEnds, DriveShutdown,
                FinishWithGrace, SelectCommand, TurnTimesOut, Shutdown, Unwind, DrainCmds,
                CloseDone
  <2>2. outstanding' \subseteq outstanding
    <3>1. CASE DealCommand \/ PacingCommand \/ SelectCommand \/ ReplayDeferred
      <4>1. receive => Head(cmds) \in Command
        BY ReceiveType DEF TypeOK
      <4>2. deferred # << >> => Head(deferred) \in Command
        BY HeadTailProperties DEF TypeOK, QueuesOK
      <4> QED
        BY <3>1, <4>1, <4>2, CommandAnswers
        DEF DealCommand, PacingCommand, SelectCommand, ReplayDeferred, callersOf
    <3>2. CASE DrainCmds
      BY <3>2 DEF DrainCmds, callersOf
    <3> QED
      BY <1>1, <3>1, <3>2
      DEF Goroutine, RunDealPhase, RunNoDeal, DealWindowEnds, ProcessTurns, PacingElapses,
          AIPlays, ResumePauses, ResumeDelayEnds, RedealDelayEnds, DriveShutdown,
          FinishWithGrace, TurnTimesOut, Shutdown, Unwind, CloseDone, callersOf
  <2> QED
    BY <2>1, <2>2 DEF DeleteExcludes, manager
<1>2. CASE Callers
  <2>1. CASE SubmitGameplay \/ SubmitPause
    BY <2>1 DEF SubmitGameplay, SubmitPause, SubmitAction, DeleteExcludes
  <2>2. CASE \/ \E h \in HumanSeats : SubmitSeesDone(h)
             \/ \E w \in Subscribers : Subscribe(w) \/ Unsubscribe(w)
    BY <2>2 DEF SubmitSeesDone, Subscribe, Unsubscribe, callersOf, manager, DeleteExcludes
  <2>3. CASE DeleteLocks \/ Delete \/ OnDoneLocks \/ OnDone
    BY <2>3 DEF DeleteLocks, Delete, lock, expire, OnDoneLocks, OnDone, callersOf, DeleteExcludes
  <2> QED
    BY <1>2, <2>1, <2>2, <2>3 DEF Callers
<1>3. CASE UNCHANGED vars
  BY <1>3 DEF vars, manager, callersOf, DeleteExcludes
<1> QED
  BY <1>1, <1>2, <1>3 DEF Next, Over

(* When cancel is seen, the queued commands a shutdown may drop are none:
   Delete waited for every caller of SubmitAction (manager.go's RLock held
   across the reply). *)
THEOREM DeleteForgetsNoCommand == Spec => []ShutdownLosesNoCommand
<1> DEFINE Inv == DeleteExcludes /\ (pc # "exited" => CommandsOwed)
<1>1. Init => Inv
  BY DEF Init, DeleteExcludes, CommandsOwed, OnePerOwner, owners
<1>2. TypeOK /\ Inv /\ [Next]_vars => Inv'
  <2> SUFFICES ASSUME TypeOK, Inv, [Next]_vars
               PROVE  Inv'
    OBVIOUS
  <2>1. DeleteExcludes'
    BY DeleteExcludesStep
  <2>2. ASSUME pc' # "exited"
        PROVE  CommandsOwed'
    <3>1. CASE Goroutine
      <4>1. pc # "exited"
        BY <3>1 DEF Goroutine, RunDealPhase, RunNoDeal, DealCommand, DealWindowEnds,
                    ReplayDeferred, ProcessTurns, PacingElapses, PacingCommand, AIPlays,
                    ResumePauses, ResumeDelayEnds, RedealDelayEnds, DriveShutdown,
                    FinishWithGrace, SelectCommand, TurnTimesOut, Shutdown, Unwind, DrainCmds,
                    CloseDone, at, Exiting
      <4> QED
        BY <2>2, <3>1, <4>1, GoroutineOwes
    <3>2. CASE Callers /\ ~Goroutine
      BY <2>2, <3>2, CallersRest, CallersOwe DEF Next, control
    <3>3. CASE UNCHANGED vars
      BY <2>2, <3>3, OwedStays DEF vars, control, callersOf
    <3> QED
      BY <3>1, <3>2, <3>3 DEF Next, Over
  <2> QED
    BY <2>1, <2>2
<1>3. TypeOK /\ Inv => ShutdownLosesNoCommand
  <2> SUFFICES ASSUME TypeOK, Inv, cancel, pc # "exited"
               PROVE  /\ deferred = << >>
                      /\ \A i \in 1 .. Len(cmds) : ~isPlay(cmds[i])
    BY DEF ShutdownLosesNoCommand
  <2>1. owners(cmds) = {} /\ owners(deferred) = {}
    BY DEF DeleteExcludes, CommandsOwed
  <2>2. \A i \in 1 .. Len(cmds) : ~isPlay(cmds[i])
    BY <2>1 DEF owners
  <2>3. \A i \in 1 .. Len(deferred) : FALSE
    BY <2>1 DEF owners, CommandsOwed
  <2>4. deferred \in Seq(Command) /\ Len(deferred) \in Nat
    BY LenProperties DEF TypeOK, QueuesOK
  <2>5. Len(deferred) = 0
    BY <2>3, <2>4
  <2> QED
    BY <2>2, <2>4, <2>5, EmptySeq
<1> QED
  BY <1>1, <1>2, <1>3, TypeCorrect, PTL DEF Spec

(***************************************************************************)
(* No caller is left without his command: the converse of CommandsOwed.    *)
(* Shutdown, the one step that forgets deferred commands before the end,   *)
(* is taken after cancel, when nobody is inside.                           *)
(***************************************************************************)
Waiting == ~finished => outstanding \subseteq owners(cmds) \cup owners(deferred)

LEMMA HeadOwner ==
    ASSUME NEW s \in Seq(Command), s # << >>
    PROVE  owners(s) \subseteq owners(Tail(s)) \cup IF isPlay(Head(s)) THEN {Head(s).who} ELSE {}
<1>1. /\ Len(s) \in Nat /\ Len(s) >= 1 /\ Len(Tail(s)) = Len(s) - 1 /\ Head(s) = s[1]
      /\ \A i \in 1 .. Len(Tail(s)) : Tail(s)[i] = s[i + 1]
  BY HeadTailProperties, LenProperties
<1>2. ASSUME NEW i \in 1 .. Len(s), i # 1
      PROVE  i - 1 \in 1 .. Len(Tail(s)) /\ s[i] = Tail(s)[i - 1]
  BY <1>1, <1>2
<1>3. \A i \in 1 .. Len(s) : isPlay(s[i]) =>
        s[i].who \in owners(Tail(s)) \cup IF isPlay(Head(s)) THEN {Head(s).who} ELSE {}
  <2> SUFFICES ASSUME NEW i \in 1 .. Len(s), isPlay(s[i]), i # 1
               PROVE  s[i].who \in owners(Tail(s))
    BY <1>1
  <2> QED
    BY <1>2 DEF owners
<1> QED
  BY <1>3 DEF owners

LEMMA LastOwner ==
    ASSUME NEW s \in Seq(Command), NEW c \in Command
    PROVE  /\ owners(s) \subseteq owners(Append(s, c))
           /\ isPlay(c) => c.who \in owners(Append(s, c))
<1> DEFINE t == Append(s, c)
<1>1. /\ Len(s) \in Nat /\ Len(t) = Len(s) + 1 /\ t[Len(s) + 1] = c
      /\ \A i \in 1 .. Len(s) : t[i] = s[i]
  BY AppendProperties, LenProperties
<1> HIDE DEF t
<1>2. \A i \in 1 .. Len(s) : i \in 1 .. Len(t)
  BY <1>1
<1>3. owners(s) \subseteq owners(t)
  BY <1>1, <1>2 DEF owners
<1>4. Len(s) + 1 \in 1 .. Len(t)
  BY <1>1
<1>5. isPlay(c) => c.who \in owners(t)
  BY <1>1, <1>4 DEF owners
<1> QED
  BY <1>3, <1>5 DEF t

LEMMA WaitingNext ==
    ASSUME ~finished' => outstanding' \subseteq owners(cmds') \cup owners(deferred')
    PROVE  Waiting'
<1>1. owners(cmds)' = owners(cmds') /\ owners(deferred)' = owners(deferred')
  BY DEF owners
<1> QED
  BY <1>1 DEF Waiting

(* The goroutine takes the next command and answers it, if it is a player's. *)
LEMMA AnsweredWait ==
    ASSUME TypeOK, Waiting, ~finished, receive, UNCHANGED deferred,
           outstanding' = IF isPlay(Head(cmds)) THEN outstanding \ {Head(cmds).who}
                          ELSE outstanding
    PROVE  Waiting'
<1>1. cmds \in Seq(Command)
  BY DEF TypeOK, QueuesOK
<1>2. owners(cmds) \subseteq
        owners(cmds') \cup IF isPlay(Head(cmds)) THEN {Head(cmds).who} ELSE {}
  BY <1>1, HeadOwner DEF receive
<1> QED
  BY <1>2, WaitingNext DEF Waiting

LEMMA GoroutineWaits ==
    ASSUME TypeOK, DeleteExcludes, Waiting, ~finished, Goroutine
    PROVE  Waiting'
<1>1. cmds \in Seq(Command) /\ deferred \in Seq(Command) /\ QueuesOK
  BY DEF TypeOK, QueuesOK
<1>2. receive => Head(cmds) \in Command
  BY <1>1, ReceiveType
<1>3. ASSUME UNCHANGED <<queues, callersOf>>
      PROVE  Waiting'
  BY <1>3, WaitingNext DEF Waiting, queues, callersOf
<1>4. CASE PacingCommand \/ SelectCommand
  BY <1>2, <1>4, AnsweredWait, CommandAnswers DEF PacingCommand, SelectCommand
<1>5. CASE DealCommand
  <2>1. receive /\ Head(cmds) \in Command
    BY <1>2, <1>5 DEF DealCommand
  <2>2. CASE isPlay(Head(cmds)) /\ deferred' = Append(deferred, Head(cmds)) /\ UNCHANGED callersOf
    <3>1. owners(cmds) \subseteq owners(cmds') \cup {Head(cmds).who}
      BY <1>1, <2>1, <2>2, HeadOwner DEF receive
    <3>2. owners(deferred) \cup {Head(cmds).who} \subseteq owners(deferred')
      BY <1>1, <2>1, <2>2, LastOwner
    <3> QED
      BY <2>2, <3>1, <3>2, WaitingNext DEF Waiting, callersOf
  <2>3. CASE ~isPlay(Head(cmds)) /\ UNCHANGED deferred
             /\ handleCommand(Head(cmds), "awaitDealWindow", waitingForHuman)
    BY <2>1, <2>3, AnsweredWait, CommandAnswers
  <2> QED
    BY <1>5, <2>2, <2>3 DEF DealCommand
<1>6. CASE ReplayDeferred
  <2>1. CASE /\ deferred # << >> /\ deferred' = Tail(deferred)
             /\ handleCommand(Head(deferred), "replayDeferred", waitingForHuman)
    <3>1. Head(deferred) \in Command
      BY <1>1, <2>1, HeadTailProperties
    <3>2. outstanding' = IF isPlay(Head(deferred)) THEN outstanding \ {Head(deferred).who}
                         ELSE outstanding
      BY <2>1, <3>1, CommandAnswers
    <3>3. owners(deferred) \subseteq
            owners(deferred') \cup IF isPlay(Head(deferred)) THEN {Head(deferred).who} ELSE {}
      BY <1>1, <2>1, HeadOwner
    <3>4. cmds' = cmds
      BY <1>6 DEF ReplayDeferred
    <3> QED
      BY <3>2, <3>3, <3>4, WaitingNext DEF Waiting
  <2>2. CASE UNCHANGED <<deferred, callersOf>>
    BY <1>3, <1>6, <2>2 DEF ReplayDeferred, queues
  <2> QED
    BY <1>6, <2>1, <2>2 DEF ReplayDeferred
<1>7. CASE Shutdown
  <2>1. outstanding' = {}
    BY <1>7 DEF Shutdown, callersOf, DeleteExcludes
  <2> QED
    BY <2>1, WaitingNext
<1>8. CASE DrainCmds
  <2>1. CASE cmds # << >> /\ cmds' = Tail(cmds)
             /\ outstanding' = IF isPlay(Head(cmds)) THEN outstanding \ {Head(cmds).who}
                               ELSE outstanding
    BY <1>8, <2>1, AnsweredWait DEF DrainCmds, receive
  <2>2. CASE UNCHANGED <<cmds, callersOf>>
    BY <1>3, <1>8, <2>2 DEF DrainCmds, queues
  <2> QED
    BY <1>8, <2>1, <2>2 DEF DrainCmds
<1>9. CASE \/ RunDealPhase \/ RunNoDeal \/ DealWindowEnds \/ ProcessTurns \/ PacingElapses
           \/ AIPlays \/ ResumePauses \/ ResumeDelayEnds \/ RedealDelayEnds \/ DriveShutdown
           \/ FinishWithGrace \/ TurnTimesOut \/ CloseDone
  BY <1>3, <1>9 DEF RunDealPhase, RunNoDeal, DealWindowEnds, ProcessTurns, PacingElapses,
            AIPlays, ResumePauses, ResumeDelayEnds, RedealDelayEnds, DriveShutdown,
            FinishWithGrace, TurnTimesOut, CloseDone
<1> QED
  BY <1>4, <1>5, <1>6, <1>7, <1>8, <1>9 DEF Goroutine, Unwind

LEMMA CallersWait ==
    ASSUME TypeOK, Waiting, ~finished, Callers
    PROVE  Waiting'
<1>1. cmds \in Seq(Command)
  BY DEF TypeOK, QueuesOK
<1>2. deferred' = deferred
  BY DEF Callers, SubmitGameplay, SubmitPause, SubmitAction, SubmitSeesDone, Subscribe,
         Unsubscribe, DeleteLocks, Delete, OnDoneLocks, OnDone, theLoopRests, queues
<1>3. ASSUME NEW c \in Command, send(c),
             outstanding' = IF isPlay(c) THEN outstanding \cup {c.who} ELSE outstanding
      PROVE  Waiting'
  <2>1. owners(cmds) \subseteq owners(cmds') /\ (isPlay(c) => c.who \in owners(cmds'))
    BY <1>1, <1>3, LastOwner DEF send
  <2> QED
    BY <1>2, <1>3, <2>1, WaitingNext DEF Waiting
<1>4. CASE SubmitGameplay \/ SubmitPause
  <2>1. PICK h \in HumanSeats, kind \in {"action", "pause", "resume"}, n \in {seq - 1, seq},
             id \in ActionIDs \cup {None} :
          /\ SubmitAction(h, kind, n, id)
          /\ kind = "action" => id \in ActionIDs
    BY <1>4 DEF SubmitGameplay, SubmitPause
  <2>2. n \in Nat
    BY DEF TypeOK, TableOK
  <2> DEFINE c == [kind |-> kind, who |-> h, seq |-> n, id |-> id]
  <2>3. c \in Command /\ isPlay(c) /\ c.who = h
    BY <2>1, <2>2 DEF Command, Subscribers, isPlay
  <2>4. send(c) /\ outstanding' = outstanding \cup {h}
    BY <2>1 DEF SubmitAction
  <2> HIDE DEF c
  <2> QED
    BY <1>3, <2>3, <2>4
<1>5. CASE \E w \in Subscribers : Subscribe(w) \/ Unsubscribe(w)
  <2>1. PICK w \in Subscribers, kind \in {"subscribe", "unsubscribe"} :
          send([kind |-> kind, who |-> w, seq |-> 0, id |-> None])
    BY <1>5 DEF Subscribe, Unsubscribe
  <2> DEFINE c == [kind |-> kind, who |-> w, seq |-> 0, id |-> None]
  <2>2. c \in Command /\ ~isPlay(c) /\ send(c)
    BY <2>1 DEF Command, isPlay
  <2>3. outstanding' = outstanding
    BY <1>5 DEF Subscribe, Unsubscribe, callersOf
  <2> HIDE DEF c
  <2> QED
    BY <1>3, <2>2, <2>3
<1>6. CASE \/ \E h \in HumanSeats : SubmitSeesDone(h)
           \/ DeleteLocks \/ Delete \/ OnDoneLocks \/ OnDone
  <2>1. cmds' = cmds /\ outstanding' \subseteq outstanding
    BY <1>6 DEF SubmitSeesDone, DeleteLocks, Delete, OnDoneLocks, OnDone, queues, callersOf
  <2> QED
    BY <1>2, <2>1, WaitingNext DEF Waiting
<1> QED
  BY <1>4, <1>5, <1>6 DEF Callers

(* Whoever waits inside SubmitAction has a command in the queue or among the
   deferred ones, until the session ends: what is left of "every SubmitAction
   returns" is that the goroutine gets to it. *)
THEOREM NobodyWaitsInVain == Spec => []EveryCallerIsOwed
<1> DEFINE Inv == DeleteExcludes /\ Waiting
<1>1. Init => Inv
  BY DEF Init, DeleteExcludes, Waiting
<1>2. TypeOK /\ Inv /\ [Next]_vars => Inv'
  <2> SUFFICES ASSUME TypeOK, Inv, [Next]_vars
               PROVE  Inv'
    OBVIOUS
  <2>1. DeleteExcludes'
    BY DeleteExcludesStep
  <2>2. CASE ~finished
    <3>1. CASE Goroutine
      BY <2>1, <2>2, <3>1, GoroutineWaits
    <3>2. CASE Callers
      BY <2>1, <2>2, <3>2, CallersWait
    <3>3. CASE UNCHANGED vars
      BY <2>1, <2>2, <3>3, WaitingNext DEF Waiting, vars, feed, queues, callersOf
    <3> QED
      BY <3>1, <3>2, <3>3 DEF Next, Over
  <2>3. CASE finished
    <3>1. finished'
      BY <2>3, FinishedStays
    <3> QED
      BY <2>1, <3>1 DEF Waiting
  <2> QED
    BY <2>2, <2>3
<1>3. TypeOK /\ Inv => EveryCallerIsOwed
  BY DEF Waiting, owners, EveryCallerIsOwed, owed
<1> QED
  BY <1>1, <1>2, <1>3, TypeCorrect, PTL DEF Spec

-----------------------------------------------------------------------------
(***************************************************************************)
(* What a deadline and a pause are worth.                                  *)
(*                                                                         *)
(* A command changes the turn, the clock and the pause in one of four ways *)
(* (CommandDoes); the invariant below is kept by each of them.             *)
(***************************************************************************)

(* What publishing an engine step makes of the turn and its deadline. *)
Published(h, schedule) ==
    /\ game'.turn = h.turn
    /\ game'.deadline = IF schedule THEN TurnTimeout /\ h.turn \in HumanSeats ELSE h.deadline
    /\ waitingForHuman' = IF schedule THEN game'.deadline ELSE waitingForHuman

LEMMA PublishSchedules ==
    ASSUME NEW h \in Game, NEW schedule \in BOOLEAN, publishStep(h, schedule)
    PROVE  Published(h, schedule)
<1> DEFINE g == IF schedule THEN scheduleTurnDeadline(h) ELSE h
           b == TurnTimeout /\ h.turn \in HumanSeats
<1>1. g \in Game /\ g.turn = h.turn
  BY ScheduleType, ScheduleKeeps
<1>2. g.deadline = IF schedule THEN b ELSE h.deadline
  BY DEF scheduleTurnDeadline, Game
<1>3. /\ game' = [g EXCEPT !.dealPending = FALSE]
      /\ waitingForHuman' = IF schedule THEN g.deadline ELSE waitingForHuman
  BY DEF publishStep
<1> HIDE DEF g
<1>4. game'.turn = h.turn /\ game'.deadline = g.deadline
  BY <1>1, <1>3 DEF Game
<1> QED
  BY <1>2, <1>3, <1>4 DEF Published

LEMMA StepsHideDeadline ==
    ASSUME NEW s, NEW h \in HandleAction(s) \cup AIPlay \cup Resume
    PROVE  ~h.deadline
  BY DEF HandleAction, AIPlay, Resume, enginePosts

(* The four things a command may do. *)
Nothing(c, ret, w) ==
    /\ game' = game /\ paused' = paused
    /\ waitingForHuman' = IF c.kind = "action" THEN w ELSE waitingForHuman
    /\ goTo(ret)

Acts(c, ret) ==
    /\ c.kind = "action" /\ ~paused /\ ~paused'
    /\ \E h \in HandleAction(c.who) :
        /\ publishStep(h, h.outcome # "StepFinished")
        /\ driveTurnsFrom(ret, h.outcome)

Pauses(c, ret) ==
    /\ c.kind = "pause" /\ ~paused /\ waitingForHuman
    /\ paused' = TRUE
    /\ game' = [game EXCEPT !.deadline = FALSE]
    /\ waitingForHuman' = waitingForHuman
    /\ goTo(ret)

Unpauses(c, ret) ==
    /\ paused
    /\ paused' = FALSE
    /\ game' = [game EXCEPT !.deadline = waitingForHuman /\ TurnTimeout]
    /\ waitingForHuman' = waitingForHuman
    /\ goTo(ret)

LEMMA CommandDoes ==
    ASSUME NEW c, NEW ret, NEW w, handleCommand(c, ret, w), paused \in BOOLEAN
    PROVE  Nothing(c, ret, w) \/ Acts(c, ret) \/ Pauses(c, ret) \/ Unpauses(c, ret)
<1>1. CASE handlePlay(c, ret, w)
  <2>1. CASE refusePlay(c, ret, w)
    BY <1>1, <2>1 DEF handlePlay, refusePlay, Nothing
  <2>2. ASSUME acceptable(c), NEW h \in HandleAction(c.who), handleAcceptedAction(c, h, ret)
        PROVE  Acts(c, ret)
    BY <1>1, <2>2 DEF handlePlay, handleAcceptedAction, acceptable, Acts
  <2> QED
    BY <1>1, <2>1, <2>2 DEF handlePlay
<1>2. CASE handlePauseCmd(c, ret)
  BY <1>2 DEF handlePauseCmd, Nothing, Pauses
<1>3. CASE handleResumeCmd(c, ret)
  BY <1>3 DEF handleResumeCmd, unpause, Nothing, Unpauses
<1>4. CASE handleSubscribe(c, ret)
  BY <1>4 DEF handleSubscribe, table, Nothing
<1>5. CASE handleUnsubscribe(c, ret)
  BY <1>5 DEF handleUnsubscribe, unpause, Nothing, Unpauses
<1> QED
  BY <1>1, <1>2, <1>3, <1>4, <1>5 DEF handleCommand

(***************************************************************************)
(* Deadlines and pauses.  A session is only paused while it waits for its  *)
(* human, so that neither the pacing of an AI nor a display delay ever     *)
(* runs under a pause; the deadline is stamped by the step that leads to a *)
(* human turn and put back by the step that ends a pause.                  *)
(***************************************************************************)
Live == ~finished /\ pc \notin Exiting

DeadlineHonest == game.deadline => TurnTimeout /\ game.turn \in HumanSeats /\ ~paused

PauseRests ==
    Live /\ paused =>
        /\ pc \in {"replayDeferred", "processTurns", "select"}
        /\ game.turn \in HumanSeats /\ waitingForHuman
        /\ pc = "processTurns" => callers # << >> /\ Head(callers).pc = "select"

PacingAwaitsNobody == pc = "aiPacing" => ~waitingForHuman

AwaitsHuman ==
    Live /\ ~cancel /\ pc \in {"select", "replayDeferred"} /\ waitingForHuman =>
        game.turn \in HumanSeats

DeadlineShown ==
    /\ Live /\ ~cancel /\ ~paused /\ TurnTimeout /\ game.turn \in HumanSeats
    /\ \/ pc \in {"replayDeferred", "processTurns", "resumeDelay"}
       \/ pc = "select" /\ waitingForHuman
    => game.deadline

ClockInv == DeadlineHonest /\ PauseRests /\ PacingAwaitsNobody /\ AwaitsHuman /\ DeadlineShown

LEMMA CommandClock ==
    ASSUME TypeOK, ClockInv, ~finished, NEW c, NEW w \in BOOLEAN,
           pc \in {"select", "replayDeferred", "aiPacing", "awaitDealWindow"},
           pc = "awaitDealWindow" => ~isPlay(c),
           w # waitingForHuman => ~w /\ ~paused /\ pc = "select",
           isPlay(c) => ~cancel, cancel' = cancel,
           handleCommand(c, IF pc = "aiPacing" THEN "aiPlay" ELSE pc, w)
    PROVE  ClockInv'
<1> DEFINE ret == IF pc = "aiPacing" THEN "aiPlay" ELSE pc
<1>0. /\ game \in Game /\ paused \in BOOLEAN /\ waitingForHuman \in BOOLEAN /\ cancel \in BOOLEAN
      /\ TurnTimeout \in BOOLEAN
  BY SwitchAssumption DEF TypeOK, TableOK, ManagerOK
<1>1. Live /\ ret \in {"select", "replayDeferred", "aiPlay", "awaitDealWindow"}
  BY DEF Live, Exiting
<1>2. CASE Acts(c, ret)
  <2>1. PICK h \in HandleAction(c.who) :
          publishStep(h, h.outcome # "StepFinished") /\ driveTurnsFrom(ret, h.outcome)
    BY <1>2 DEF Acts
  <2>2. h \in Game /\ h.outcome \in Outcomes /\ ~h.deadline
    BY <1>0, StepsType, StepsHideDeadline DEF Game
  <2>3. Published(h, h.outcome # "StepFinished")
    BY <2>1, <2>2, PublishSchedules
  <2>4. pc' = [StepContinue |-> "processTurns", StepPause |-> "pauseDelay",
               StepFinished |-> "finishWithGrace"][h.outcome]
    BY <2>1 DEF driveTurnsFrom, driveAfter
  <2>5. pc' \in {"processTurns", "pauseDelay", "finishWithGrace"}
        /\ (pc' = "processTurns" => h.outcome # "StepFinished")
    BY <2>2, <2>4 DEF Outcomes
  <2>6. ~paused'
    BY <1>2 DEF Acts
  <2> QED
    BY <1>0, <2>2, <2>3, <2>5, <2>6
    DEF Published, ClockInv, DeadlineHonest, PauseRests, PacingAwaitsNobody, AwaitsHuman,
        DeadlineShown, Live
<1>3. CASE Nothing(c, ret, w)
  <2>1. /\ pc' = ret /\ game' = game /\ paused' = paused /\ callers' = callers
        /\ waitingForHuman' = IF c.kind = "action" THEN w ELSE waitingForHuman
    BY <1>3 DEF Nothing, goTo
  <2> QED
    BY <1>0, <1>1, <2>1
    DEF ClockInv, DeadlineHonest, PauseRests, PacingAwaitsNobody, AwaitsHuman, DeadlineShown, Live
<1>4. CASE Pauses(c, ret)
  <2>1. /\ pc' = ret /\ game' = [game EXCEPT !.deadline = FALSE] /\ paused' = TRUE
        /\ waitingForHuman' = waitingForHuman /\ waitingForHuman /\ isPlay(c)
    BY <1>4 DEF Pauses, goTo, isPlay
  <2>2. game'.turn = game.turn /\ ~game'.deadline
    BY <1>0, <2>1 DEF Game
  <2>3. pc \in {"select", "replayDeferred"}
    BY <2>1 DEF ClockInv, PacingAwaitsNobody
  <2> QED
    BY <1>0, <1>1, <2>1, <2>2, <2>3
    DEF ClockInv, DeadlineHonest, PauseRests, PacingAwaitsNobody, AwaitsHuman, DeadlineShown, Live
<1>5. CASE Unpauses(c, ret)
  <2>1. /\ pc' = ret /\ game' = [game EXCEPT !.deadline = waitingForHuman /\ TurnTimeout]
        /\ paused /\ paused' = FALSE /\ waitingForHuman' = waitingForHuman
    BY <1>5 DEF Unpauses, goTo
  <2>2. game'.turn = game.turn /\ (game'.deadline <=> waitingForHuman /\ TurnTimeout)
    BY <1>0, <2>1 DEF Game
  <2>3. game.turn \in HumanSeats /\ waitingForHuman /\ pc \in {"select", "replayDeferred"}
    BY <1>1, <2>1 DEF ClockInv, PauseRests
  <2> QED
    BY <1>0, <1>1, <2>1, <2>2, <2>3
    DEF ClockInv, DeadlineHonest, PauseRests, PacingAwaitsNobody, AwaitsHuman, DeadlineShown, Live
<1> QED
  BY <1>0, <1>2, <1>3, <1>4, <1>5, CommandDoes


LEMMA ReceivedIsOwed ==
    ASSUME TypeOK, ShutdownLosesNoCommand, pc # "exited", receive, isPlay(Head(cmds))
    PROVE  ~cancel
<1>1. cmds \in Seq(Command) /\ cmds # << >>
  BY DEF TypeOK, QueuesOK, receive
<1>2. 1 \in 1 .. Len(cmds) /\ Head(cmds) = cmds[1]
  BY <1>1, HeadTailProperties, LenProperties
<1> QED
  BY <1>2 DEF ShutdownLosesNoCommand

LEMMA HandlingClock ==
    ASSUME TypeOK, ClockInv, ShutdownLosesNoCommand,
           DealCommand \/ PacingCommand \/ SelectCommand \/ ReplayDeferred
    PROVE  ClockInv'
<1>0. /\ game \in Game /\ paused \in BOOLEAN /\ waitingForHuman \in BOOLEAN /\ ~finished
      /\ cancel' = cancel /\ pc # "exited"
  BY DEF TypeOK, TableOK, DealCommand, PacingCommand, SelectCommand, ReplayDeferred, at, manager
<1>1. ASSUME DealCommand
      PROVE  ClockInv'
  <2>1. CASE ~isPlay(Head(cmds)) /\ handleCommand(Head(cmds), "awaitDealWindow", waitingForHuman)
    BY <1>0, <1>1, <2>1, CommandClock DEF DealCommand, at
  <2>2. CASE UNCHANGED <<control, table, feed>>
    BY <1>0, <2>2
    DEF ClockInv, DeadlineHonest, PauseRests, PacingAwaitsNobody, AwaitsHuman, DeadlineShown, Live,
        control, table, feed
  <2> QED
    BY <1>1, <2>1, <2>2 DEF DealCommand
<1>2. CASE PacingCommand
  BY <1>0, <1>2, CommandClock, ReceivedIsOwed DEF PacingCommand, at
<1>3. CASE SelectCommand
  <2> DEFINE c == Head(cmds)
             ownTurn == /\ c.kind = "action" /\ waitingForHuman
                        /\ c.who = game.turn /\ ~paused
             w == waitingForHuman /\ ~ownTurn
  <2>1. w \in BOOLEAN /\ (w # waitingForHuman => ~w /\ ~paused)
    BY <1>0
  <2>2. handleCommand(c, "select", w) /\ at("select") /\ receive
    BY <1>3 DEF SelectCommand
  <2> HIDE DEF w, c
  <2>3. isPlay(c) => ~cancel
    BY <1>0, <2>2, ReceivedIsOwed DEF c
  <2> QED
    BY <1>0, <2>1, <2>2, <2>3, CommandClock DEF at
<1>4. CASE ReplayDeferred
  <2>1. CASE deferred # << >> /\ handleCommand(Head(deferred), "replayDeferred", waitingForHuman)
    <3>1. ~cancel
      BY <1>0, <2>1 DEF ShutdownLosesNoCommand
    <3> QED
      BY <1>0, <1>4, <2>1, <3>1, CommandClock DEF ReplayDeferred, at
  <2>2. CASE driveTurnsFrom("select", "StepContinue") /\ UNCHANGED <<table, feed>>
    <3>1. /\ pc = "replayDeferred" /\ pc' = "processTurns"
          /\ callers' = <<[pc |-> "select", seat |-> aiSeat]>> \o callers
      BY <1>4, <2>2 DEF ReplayDeferred, at, driveTurnsFrom, driveAfter
    <3>2. callers' # << >> /\ Head(callers').pc = "select"
      <4> DEFINE f == [pc |-> "select", seat |-> aiSeat]
      <4>1. f \in Frame /\ callers \in Seq(Frame) /\ <<f>> \in Seq(Frame) /\ Len(<<f>>) = 1
            /\ <<f>>[1] = f
        BY DEF TypeOK, ControlOK, Frame
      <4>2. /\ callers' \in Seq(Frame) /\ Len(callers') = 1 + Len(callers) /\ callers'[1] = f
            /\ Len(callers) \in Nat
        <5>1. callers' = <<f>> \o callers
          BY <3>1
        <5> HIDE DEF f
        <5> QED
          BY <4>1, <5>1, ConcatProperties, LenProperties
      <4> QED
        BY <4>2, HeadTailProperties, EmptySeq
    <3> QED
      BY <1>0, <2>2, <3>1, <3>2
      DEF ClockInv, DeadlineHonest, PauseRests, PacingAwaitsNobody, AwaitsHuman, DeadlineShown,
          Live, Exiting, table, feed
  <2> QED
    BY <1>4, <2>1, <2>2 DEF ReplayDeferred
<1> QED
  BY <1>1, <1>2, <1>3, <1>4


(* An engine step followed by a place where its outcome says to go on. *)
LEMMA StepClock ==
    ASSUME TypeOK, ~paused, paused' = paused, NEW h \in Game, NEW schedule \in BOOLEAN,
           publishStep(h, schedule), ~schedule => ~h.deadline,
           pc' \in {"processTurns", "pauseDelay", "finishWithGrace", "resumeDelay",
                   "redealDelay", "replayDeferred"},
           pc' \in {"processTurns", "resumeDelay", "replayDeferred"} => schedule
    PROVE  ClockInv'
<1>1. Published(h, schedule)
  BY PublishSchedules
<1>2. h.deadline \in BOOLEAN /\ TurnTimeout \in BOOLEAN
  BY SwitchAssumption DEF Game
<1>3. (game'.deadline => TurnTimeout /\ game'.turn \in HumanSeats)
      /\ (schedule => (game'.deadline <=> TurnTimeout /\ game'.turn \in HumanSeats)
                     /\ (waitingForHuman' <=> game'.deadline))
  BY <1>1, <1>2 DEF Published
<1> QED
  BY <1>3
  DEF ClockInv, DeadlineHonest, PauseRests, PacingAwaitsNobody, AwaitsHuman, DeadlineShown

LEMMA DriveAfterPlace ==
    ASSUME NEW o \in Outcomes, driveAfter(o)
    PROVE  /\ pc' \in {"processTurns", "pauseDelay", "finishWithGrace"}
           /\ pc' = "processTurns" <=> o = "StepContinue"
  BY DEF driveAfter, Outcomes

(* Steps that end the session or change nothing the clock depends on. *)
LEMMA DeadClock ==
    ASSUME ClockInv, UNCHANGED <<game, paused, waitingForHuman>>, ~Live',
           pc' # "aiPacing" \/ pc' = pc
    PROVE  ClockInv'
  BY DEF ClockInv, DeadlineHonest, PauseRests, PacingAwaitsNobody, AwaitsHuman, DeadlineShown

LEMMA GoroutineClock ==
    ASSUME TypeOK, ClockInv, ShutdownLosesNoCommand, Goroutine
    PROVE  ClockInv'
<1>0. /\ game \in Game /\ paused \in BOOLEAN /\ waitingForHuman \in BOOLEAN
      /\ ControlOK /\ TurnTimeout \in BOOLEAN /\ game.deadline \in BOOLEAN
  BY SwitchAssumption DEF TypeOK, TableOK, Game
<1>1. \A p : at(p) /\ p \notin Exiting \cup {"replayDeferred", "processTurns", "select"} => ~paused
  BY DEF ClockInv, PauseRests, Live, at
<1>2. CASE RunDealPhase
  <2>1. /\ game' = [game EXCEPT !.dealPending = FALSE] /\ UNCHANGED <<paused, waitingForHuman>>
        /\ pc' = "awaitDealWindow" /\ ~paused
    BY <1>1, <1>2 DEF RunDealPhase, goTo, Exiting
  <2>2. game'.turn = game.turn /\ game'.deadline = game.deadline
    BY <1>0, <2>1 DEF Game
  <2> QED
    BY <2>1, <2>2
    DEF ClockInv, DeadlineHonest, PauseRests, PacingAwaitsNobody, AwaitsHuman, DeadlineShown
<1>3. CASE RunNoDeal
  <2>1. /\ game' = scheduleTurnDeadline(game) /\ waitingForHuman' = game'.deadline
        /\ paused' = paused /\ ~paused /\ pc' = "processTurns"
    BY <1>1, <1>3 DEF RunNoDeal, Exiting, driveTurnsFrom, driveAfter
  <2>2. /\ game'.turn = game.turn
        /\ game'.deadline <=> TurnTimeout /\ game.turn \in HumanSeats
    BY <1>0, <2>1 DEF scheduleTurnDeadline, Game
  <2> QED
    BY <2>1, <2>2
    DEF ClockInv, DeadlineHonest, PauseRests, PacingAwaitsNobody, AwaitsHuman, DeadlineShown
<1>4. CASE DealCommand \/ PacingCommand \/ SelectCommand \/ ReplayDeferred
  BY <1>4, HandlingClock
<1>5. CASE DealWindowEnds \/ RedealDelayEnds
  <2>1. ~paused /\ paused' = paused /\ publishStep(game, TRUE)
        /\ pc' \in {"replayDeferred", "processTurns"}
    BY <1>1, <1>5 DEF DealWindowEnds, RedealDelayEnds, goTo, Exiting
  <2> QED
    BY <1>0, <2>1, StepClock
<1>6. CASE ProcessTurns
  <2>1. /\ at("processTurns") /\ UNCHANGED <<game, paused, cancel>>
    BY <1>6 DEF ProcessTurns, manager
  <2>2. CASE game.turn \in HumanSeats /\ waitingForHuman' = TRUE /\ driveReturn
    <3>1. Head(callers) \in Frame
      BY <1>0, <2>2, HeadTailProperties DEF ControlOK, driveReturn
    <3>2. pc' = Head(callers).pc /\ pc' \in {"select", "replayDeferred", "aiPlay"}
      BY <2>2, <3>1 DEF driveReturn, Frame
    <3>3. /\ paused => pc' = "select"
          /\ ~paused /\ ~cancel /\ TurnTimeout => game.deadline
      BY <2>1, <2>2, <3>2
      DEF ClockInv, PauseRests, DeadlineShown, Live, at, Exiting
    <3> QED
      BY <1>0, <2>1, <2>2, <3>2, <3>3
      DEF ClockInv, DeadlineHonest, PauseRests, PacingAwaitsNobody, AwaitsHuman, DeadlineShown
  <2>3. CASE game.turn \notin HumanSeats /\ waitingForHuman' = FALSE /\ pc' = "aiPacing"
    <3>1. ~paused
      BY <2>1, <2>3 DEF ClockInv, PauseRests, Live, at, Exiting
    <3> QED
      BY <2>1, <2>3, <3>1
      DEF ClockInv, DeadlineHonest, PauseRests, PacingAwaitsNobody, AwaitsHuman, DeadlineShown
  <2>4. CASE driveFatal /\ UNCHANGED <<control, waitingForHuman>>
    BY <2>1, <2>4, DeadClock DEF driveFatal, control, Live
  <2> QED
    BY <1>6, <2>2, <2>3, <2>4 DEF ProcessTurns
<1>7. CASE PacingElapses \/ ResumeDelayEnds
  <2>1. /\ UNCHANGED <<game, paused, waitingForHuman, cancel, finished>> /\ ~paused
        /\ \/ pc' = "aiPlay"
           \/ pc = "resumeDelay" /\ pc' = "processTurns"
    BY <1>1, <1>7 DEF PacingElapses, ResumeDelayEnds, goTo, at, table, feed, manager, Exiting
  <2> QED
    BY <2>1
    DEF ClockInv, DeadlineHonest, PauseRests, PacingAwaitsNobody, AwaitsHuman, DeadlineShown,
        Live, Exiting
<1>8. CASE AIPlays
  <2>1. ~paused
    BY <1>1, <1>8 DEF AIPlays, Exiting
  <2>2. ASSUME NEW h \in AIPlay, publishStep(h, h.outcome # "StepFinished"),
               driveAfter(h.outcome), paused' = paused
        PROVE  ClockInv'
    <3>1. h \in Game /\ h.outcome \in Outcomes /\ ~h.deadline
      BY <1>0, StepsType, StepsHideDeadline DEF Game
    <3> QED
      BY <2>1, <2>2, <3>1, DriveAfterPlace, StepClock
  <2>3. CASE driveFatal /\ UNCHANGED <<control, table>>
    BY <2>3, DeadClock DEF driveFatal, control, table, Live
  <2> QED
    BY <1>8, <2>2, <2>3 DEF AIPlays
<1>9. CASE ResumePauses
  <2>1. ~paused
    BY <1>1, <1>9 DEF ResumePauses, Exiting
  <2>2. ASSUME NEW h \in Resume, paused' = paused,
               publishStep(h, h.outcome # "StepFinished" /\ ~h.dealPending),
               IF h.outcome = "StepContinue"
               THEN pc' = IF h.dealPending THEN "redealDelay" ELSE "resumeDelay"
               ELSE driveAfter(h.outcome)
        PROVE  ClockInv'
    <3> DEFINE schedule == h.outcome # "StepFinished" /\ ~h.dealPending
    <3>1. h \in Game /\ h.outcome \in Outcomes /\ ~h.deadline /\ h.dealPending \in BOOLEAN
      BY <1>0, StepsType, StepsHideDeadline DEF Game
    <3>2. /\ pc' \in {"pauseDelay", "finishWithGrace", "resumeDelay", "redealDelay"}
          /\ pc' = "resumeDelay" => schedule
      BY <2>2, <3>1, DriveAfterPlace
    <3>3. schedule \in BOOLEAN /\ publishStep(h, schedule)
      BY <2>2
    <3> HIDE DEF schedule
    <3> QED
      BY <2>1, <2>2, <3>1, <3>2, <3>3, StepClock
  <2>3. CASE driveFatal /\ UNCHANGED <<control, table>>
    BY <2>3, DeadClock DEF driveFatal, control, table, Live
  <2> QED
    BY <1>9, <2>2, <2>3 DEF ResumePauses
<1>10. CASE TurnTimesOut
  <2>1. ~paused /\ at("select") /\ paused' = paused
    BY <1>10 DEF TurnTimesOut
  <2>2. ASSUME NEW h \in AIPlay, publishStep(h, h.outcome # "StepFinished"),
               driveTurnsFrom("select", h.outcome)
        PROVE  ClockInv'
    <3>1. h \in Game /\ h.outcome \in Outcomes /\ ~h.deadline
      BY <1>0, StepsType, StepsHideDeadline DEF Game
    <3> QED
      BY <2>1, <2>2, <3>1, DriveAfterPlace, StepClock DEF driveTurnsFrom
  <2>3. CASE /\ waitingForHuman' = FALSE
             /\ game' = [game EXCEPT !.deadline = @ /\ game.turn \notin HumanSeats]
             /\ UNCHANGED control
    <3>1. ~game'.deadline
      BY <1>0, <2>3 DEF Game, ClockInv, DeadlineHonest
    <3>2. pc' = "select"
      BY <2>1, <2>3 DEF at, control
    <3> QED
      BY <2>1, <2>3, <3>1, <3>2
      DEF ClockInv, DeadlineHonest, PauseRests, PacingAwaitsNobody, AwaitsHuman, DeadlineShown
  <2> QED
    BY <1>10, <2>2, <2>3 DEF TurnTimesOut
<1>11. CASE DriveShutdown
  <2>1. /\ UNCHANGED <<game, paused, waitingForHuman>> /\ cancel' /\ ~paused /\ driveReturn
    BY <1>1, <1>11 DEF DriveShutdown, table, manager, Exiting
  <2>2. Head(callers) \in Frame
    BY <1>0, <2>1, HeadTailProperties DEF ControlOK, driveReturn
  <2>3. pc' # "aiPacing"
    BY <2>1, <2>2 DEF driveReturn, Frame
  <2> QED
    BY <2>1, <2>3
    DEF ClockInv, DeadlineHonest, PauseRests, PacingAwaitsNobody, AwaitsHuman, DeadlineShown
<1>12. CASE FinishWithGrace
  BY <1>12, DeadClock DEF FinishWithGrace, driveFatal, control, table, Live
<1>13. CASE Shutdown \/ Unwind \/ DrainCmds \/ CloseDone
  BY <1>13, DeadClock DEF Shutdown, Unwind, DrainCmds, CloseDone, control, table, goTo, Live,
                          Exiting
<1> QED
  BY <1>2, <1>3, <1>4, <1>5, <1>6, <1>7, <1>8, <1>9, <1>10, <1>11, <1>12, <1>13 DEF Goroutine

LEMMA NextClock ==
    ASSUME TypeOK, ClockInv, ShutdownLosesNoCommand, [Next]_vars
    PROVE  ClockInv'
<1>1. CASE Goroutine
  BY <1>1, GoroutineClock
<1>2. CASE ~Goroutine
  <2>1. UNCHANGED <<control, table, finished>> /\ (cancel => cancel')
    BY <1>2, CallersRest, CancelStays
  <2>2. cancel \in BOOLEAN /\ cancel' \in BOOLEAN
    BY NextType DEF TypeOK, ManagerOK
  <2> QED
    BY <2>1, <2>2
    DEF ClockInv, DeadlineHonest, PauseRests, PacingAwaitsNobody, AwaitsHuman, DeadlineShown,
        Live, control, table
<1> QED
  BY <1>1, <1>2

LEMMA InitClock ==
    ASSUME Init
    PROVE  ClockInv
<1>1. pc = "run" /\ ~paused /\ ~game.deadline
  BY DEF Init
<1> QED
  BY <1>1
  DEF ClockInv, DeadlineHonest, PauseRests, PacingAwaitsNobody, AwaitsHuman, DeadlineShown

(* The deadline in a snapshot is that of a human turn of a running game, and
   a human turn that can time out has one: whatever handlers, pauses, timers
   and nested driveTurns calls came in between (publish and resume paths). *)
THEOREM DeadlineIsTheHumans == Spec => []DeadlineIsHumanTurn
<1>1. TypeOK /\ ClockInv => DeadlineIsHumanTurn
  BY DEF ClockInv, DeadlineHonest, AwaitsHuman, DeadlineShown, DeadlineIsHumanTurn, Live, at,
         Exiting
<1> QED
  BY <1>1, InitClock, NextClock, TypeCorrect, DeleteForgetsNoCommand, PTL DEF Spec

(* No engine step is taken under a pause. *)
THEOREM PausedStandsStill == Spec => PausedGameFrozen
<1>1. TypeOK /\ ClockInv /\ [Next]_vars => [paused => game'.moves = game.moves]_vars
  <2> SUFFICES ASSUME TypeOK, ClockInv, Next, paused PROVE game'.moves = game.moves
    OBVIOUS
  <2>0. game \in Game /\ paused \in BOOLEAN
    BY DEF TypeOK, TableOK
  <2>1. \A p : at(p) /\ p \notin Exiting => p \in {"replayDeferred", "processTurns", "select"}
    BY DEF ClockInv, PauseRests, Live, at
  <2>2. ASSUME NEW c, NEW ret, NEW w, handleCommand(c, ret, w)
        PROVE  game'.moves = game.moves
    <3>1. Nothing(c, ret, w) \/ Pauses(c, ret) \/ Unpauses(c, ret)
      BY <2>0, <2>2, CommandDoes DEF Acts
    <3> QED
      BY <2>0, <3>1 DEF Nothing, Pauses, Unpauses, Game
  <2>3. CASE DealCommand \/ PacingCommand \/ SelectCommand \/ ReplayDeferred
    BY <2>2, <2>3 DEF DealCommand, PacingCommand, SelectCommand, ReplayDeferred, table
  <2>4. ~(\/ RunDealPhase \/ RunNoDeal \/ DealWindowEnds \/ RedealDelayEnds \/ AIPlays
          \/ ResumePauses \/ TurnTimesOut)
    <3>1. ~(\/ at("run") \/ at("awaitDealWindow") \/ at("redealDelay") \/ at("aiPlay")
            \/ at("pauseDelay"))
      BY <2>1 DEF Exiting
    <3>2. ~TurnTimesOut
      BY DEF TurnTimesOut
    <3> QED
      BY <3>1, <3>2 DEF RunDealPhase, RunNoDeal, DealWindowEnds, RedealDelayEnds, AIPlays,
                        ResumePauses
  <2>5. CASE Goroutine
    BY <2>3, <2>4, <2>5
    DEF Goroutine, ProcessTurns, PacingElapses, ResumeDelayEnds, DriveShutdown, FinishWithGrace,
        Shutdown, Unwind, DrainCmds, CloseDone, table
  <2>6. CASE ~Goroutine
    BY <2>6, CallersRest DEF table
  <2> QED
    BY <2>5, <2>6
<1> QED
  BY <1>1, InitClock, NextClock, TypeCorrect, DeleteForgetsNoCommand, PTL DEF Spec, PausedGameFrozen

-----------------------------------------------------------------------------
(***************************************************************************)
(* A session whose engine does not fail implements the abstract feed: one  *)
(* view per number, no number skipped, everyone connected at the latest.   *)
(*                                                                         *)
(* The engine must not fail because a turn timeout clears the deadline     *)
(* without a broadcast when AIPlay reports an error.                       *)
(***************************************************************************)

FeedStep == [Feed!Next]_(Feed!vars)

live == ~finished /\ ~cancel /\ pc \notin Exiting

(* What the latest snapshot shows is what a new subscriber would be shown. *)
Shown == sent.seq = seq /\ ~game.dealPending /\ sent.view = viewOf(game, paused)

(* Between a deal and its window's end the cached view stands in for it. *)
DealShown ==
    /\ sent.seq = seq /\ ~game.dealPending /\ ~paused
    /\ dealSnapshots = {sent.view}

NothingShown ==
    /\ seq = 1 /\ sent.seq = 0 /\ ~paused
    /\ subs = [s \in Subscribers |-> 0]

FeedInv ==
    live =>
        /\ pc = "run" => NothingShown
        /\ pc = "awaitDealWindow" => DealShown
        /\ pc # "awaitDealWindow" => dealSnapshots = {}
        /\ pc = "redealDelay" => sent.seq = seq /\ ~game.dealPending
        /\ pc \notin {"run", "awaitDealWindow", "redealDelay"} => Shown

(***************************************************************************)
(* Each way the goroutine changes what was sent is a step of the feed.     *)
(***************************************************************************)
LEMMA DropFeed ==
    ASSUME ~cancel, UNCHANGED <<sent, cancel>>, closeSubscribers
    PROVE  FeedStep
<1>1. Feed!DropAll
  BY DEF Feed!DropAll, closeSubscribers
<1> QED
  BY <1>1 DEF FeedStep, Feed!Next

LEMMA SameFeed ==
    ASSUME UNCHANGED <<sent, subs, cancel>>
    PROVE  FeedStep
  BY DEF FeedStep, Feed!vars

LEMMA LeaveFeed ==
    ASSUME ~cancel, UNCHANGED <<sent, cancel>>, NEW w \in Subscribers,
           subs' = [subs EXCEPT ![w] = 0]
    PROVE  FeedStep
<1>1. Feed!Leave(w)
  BY DEF Feed!Leave
<1> QED
  BY <1>1 DEF FeedStep, Feed!Next

LEMMA JoinFeed ==
    ASSUME ~cancel, UNCHANGED <<sent, cancel>>, NEW w \in Subscribers, sent.seq # 0,
           subs' = [subs EXCEPT ![w] = sent.seq]
    PROVE  FeedStep
<1>1. Feed!Join(w)
  BY DEF Feed!Join
<1> QED
  BY <1>1 DEF FeedStep, Feed!Next

(* A broadcast is a new snapshot, to everyone but those who just left. *)
LEMMA BroadcastFeed ==
    ASSUME FeedOK, ~cancel, cancel' = cancel, ~finished, NEW v, NEW gone \in SUBSET Subscribers,
           NEW r, r = [s \in Subscribers |-> IF s \in gone THEN 0 ELSE subs[s]],
           broadcastSnapshot(v, sent.seq + 1, r)
    PROVE  /\ FeedStep
           /\ finished' \/ sent' = [seq |-> sent.seq + 1, view |-> v]
<1>1. CASE terminateOnMarshalFailure
  BY <1>1, DropFeed DEF terminateOnMarshalFailure
<1>2. CASE /\ sent' = [seq |-> sent.seq + 1, view |-> v]
           /\ subs' = [s \in Subscribers |-> IF r[s] = 0 THEN 0 ELSE sent.seq + 1]
  <2>1. sent'.seq = sent.seq + 1
    BY <1>2
  <2>2. subs' = [s \in Subscribers |-> IF subs[s] = 0 \/ s \in gone THEN 0 ELSE sent'.seq]
    BY <1>2, <2>1
  <2>3. Feed!Publish
    BY <2>1, <2>2 DEF Feed!Publish
  <2> QED
    BY <1>2, <2>3 DEF FeedStep, Feed!Next
<1> QED
  BY <1>1, <1>2 DEF broadcastSnapshot

LEMMA BroadcastAllFeed ==
    ASSUME FeedOK, ~cancel, cancel' = cancel, ~finished, NEW v,
           broadcastSnapshot(v, sent.seq + 1, subs)
    PROVE  /\ FeedStep
           /\ finished' \/ sent' = [seq |-> sent.seq + 1, view |-> v]
<1>1. subs = [s \in Subscribers |-> IF s \in {} THEN 0 ELSE subs[s]]
  BY DEF FeedOK
<1>2. {} \in SUBSET Subscribers
  OBVIOUS
<1> QED
  BY <1>1, <1>2, BroadcastFeed

LEMMA ShownView ==
    ASSUME FeedOK, Shown
    PROVE  sent = [seq |-> seq, view |-> viewOf(game, paused)]
<1>1. sent = [seq |-> sent.seq, view |-> sent.view]
  BY DEF FeedOK
<1> QED
  BY <1>1 DEF Shown

(* An engine step is shown as it was published, but for a deal that waits to
   be shown, whose pending flag DisplayDelay consumes. *)
LEMMA PublishFeed ==
    ASSUME FeedOK, ~cancel, cancel' = cancel, ~finished, paused' = paused, sent.seq = seq,
           NEW h \in Game, NEW schedule \in BOOLEAN, publishStep(h, schedule)
    PROVE  /\ FeedStep
           /\ (finished' \/ sent'.seq = seq') /\ ~game'.dealPending
           /\ finished' \/ h.dealPending \/ Shown'
<1> DEFINE g == IF schedule THEN scheduleTurnDeadline(h) ELSE h
<1>1. g \in Game /\ g.dealPending = h.dealPending
  BY ScheduleType, ScheduleKeeps
<1>2. /\ game' = [g EXCEPT !.dealPending = FALSE]
      /\ seq' = seq + 1
      /\ broadcastSnapshot(viewOf(g, paused), seq + 1, subs)
  BY DEF publishStep
<1> HIDE DEF g
<1>3. FeedStep /\ (finished' \/ sent' = [seq |-> seq + 1, view |-> viewOf(g, paused)])
  BY <1>2, BroadcastAllFeed
<1>4. ~game'.dealPending
  BY <1>1, <1>2 DEF Game
<1>5. ~h.dealPending => game' = g
  <2> DEFINE b == FALSE
  <2>1. b = FALSE /\ game' = [g EXCEPT !.dealPending = b]
    BY <1>2
  <2>2. ~h.dealPending => h.dealPending = b
    BY DEF Game
  <2> HIDE DEF b
  <2>3. ~h.dealPending => g.dealPending = b
    BY <1>1, <2>2
  <2> QED
    BY <1>1, <2>1, <2>3 DEF Game
<1>6. ASSUME ~finished', ~h.dealPending
      PROVE  Shown'
  <2>1. sent'.seq = seq' /\ sent'.view = viewOf(g, paused)
    BY <1>2, <1>3, <1>6
  <2>2. viewOf(g, paused) = viewOf(game', paused')
    BY <1>5, <1>6
  <2> QED
    BY <1>4, <2>1, <2>2 DEF Shown, viewOf
<1> QED
  BY <1>2, <1>3, <1>4, <1>6

(* What unpause and handlePauseCmd share. *)
LEMMA RepublishFeed ==
    ASSUME FeedOK, ~cancel, cancel' = cancel, ~finished, game \in Game, Shown,
           NEW gone \in SUBSET Subscribers, NEW b,
           NEW r, r = [s \in Subscribers |-> IF s \in gone THEN 0 ELSE subs[s]],
           game' = [game EXCEPT !.deadline = b], seq' = seq + 1, NEW p, paused' = p,
           broadcastSnapshot(viewOf(game', p), seq + 1, r)
    PROVE  FeedStep /\ (finished' \/ Shown')
<1>1. FeedStep /\ (finished' \/ sent' = [seq |-> seq + 1, view |-> viewOf(game', p)])
  BY BroadcastFeed DEF Shown
<1>2. ~game'.dealPending
  BY DEF Shown, Game
<1> QED
  BY <1>1, <1>2 DEF Shown, viewOf

LEMMA CommandFeed ==
    ASSUME InsideOK, ~cancel, cancel' = cancel, ~finished, Shown, dealSnapshots = {},
           NEW c \in Command, NEW ret, NEW w, handleCommand(c, ret, w)
    PROVE  FeedStep /\ (finished' \/ Shown')
<1>1. /\ game \in Game /\ FeedOK /\ seq \in Nat \ {0} /\ sent.seq = seq
      /\ sent = [seq |-> seq, view |-> viewOf(game, paused)]
  BY ShownView DEF InsideOK, TableOK, Shown
<1>2. ASSUME UNCHANGED <<game, seq, paused, sent>>
      PROVE  Shown'
  BY <1>2 DEF Shown, viewOf
<1>3. ASSUME UNCHANGED <<game, seq, paused>>, silent
      PROVE  FeedStep /\ Shown'
  BY <1>2, <1>3, SameFeed DEF silent, feed
<1>4. ASSUME terminateOnMarshalFailure
      PROVE  FeedStep /\ finished'
  BY <1>4, DropFeed DEF terminateOnMarshalFailure
<1>5. CASE handlePlay(c, ret, w)
  <2>1. CASE refusePlay(c, ret, w)
    <3>1. UNCHANGED <<game, seq, paused>>
      BY <2>1 DEF refusePlay
    <3>2. CASE sent' = [seq |-> seq, view |-> viewOf(game, paused)]
               /\ UNCHANGED <<subs, finished, notify>>
      BY <1>1, <1>2, <3>1, <3>2, SameFeed
    <3> QED
      BY <1>3, <1>4, <2>1, <3>1, <3>2 DEF refusePlay
  <2>2. ASSUME NEW h \in HandleAction(c.who), handleAcceptedAction(c, h, ret)
        PROVE  FeedStep /\ (finished' \/ Shown')
    <3>1. h \in Game /\ ~h.dealPending
      <4>1. h \in Game
        BY <1>1, <2>2, StepsType
      <4> QED
        BY <4>1 DEF HandleAction, enginePosts
    <3> DEFINE schedule == h.outcome # "StepFinished"
    <3>2. schedule \in BOOLEAN /\ publishStep(h, schedule) /\ paused' = paused
      BY <2>2 DEF handleAcceptedAction
    <3> HIDE DEF schedule
    <3> QED
      BY <1>1, <3>1, <3>2, PublishFeed
  <2> QED
    BY <1>5, <2>1, <2>2 DEF handlePlay
<1>6. subs = [s \in Subscribers |-> IF s \in {} THEN 0 ELSE subs[s]] /\ {} \in SUBSET Subscribers
  BY <1>1 DEF FeedOK
<1>7. CASE handlePauseCmd(c, ret)
  <2>1. CASE UNCHANGED <<game, seq, paused>> /\ silent
    BY <1>3, <2>1
  <2>2. CASE /\ paused' = TRUE /\ game' = [game EXCEPT !.deadline = FALSE]
             /\ seq' = seq + 1
             /\ broadcastSnapshot(viewOf(game', TRUE), seq + 1, subs)
    <3> DEFINE b == FALSE
    <3>1. game' = [game EXCEPT !.deadline = b]
      BY <2>2
    <3> HIDE DEF b
    <3> QED
      BY <1>1, <1>6, <2>2, <3>1, RepublishFeed
  <2> QED
    BY <1>7, <2>1, <2>2 DEF handlePauseCmd
<1>8. ASSUME NEW gone \in SUBSET Subscribers, NEW r,
             r = [s \in Subscribers |-> IF s \in gone THEN 0 ELSE subs[s]], unpause(r)
      PROVE  FeedStep /\ (finished' \/ Shown')
  <2> DEFINE b == waitingForHuman /\ TurnTimeout
  <2>1. /\ game' = [game EXCEPT !.deadline = b] /\ paused' = FALSE /\ seq' = seq + 1
        /\ broadcastSnapshot(viewOf(game', FALSE), seq + 1, r)
    BY <1>8 DEF unpause
  <2> HIDE DEF b
  <2> QED
    BY <1>1, <1>8, <2>1, RepublishFeed
<1>9. CASE handleResumeCmd(c, ret)
  BY <1>3, <1>6, <1>8, <1>9 DEF handleResumeCmd
<1>10. CASE handleSubscribe(c, ret)
  <2>1. c.who \in Subscribers /\ UNCHANGED <<game, seq, paused>>
    BY <1>10 DEF Command, handleSubscribe, table
  <2>2. CASE terminateOnMarshalFailure
    BY <1>4, <2>2
  <2>3. CASE /\ sent' = [seq |-> seq, view |-> viewOf(game, paused)]
             /\ subs' = [subs EXCEPT ![c.who] = seq]
    BY <1>1, <1>2, <2>1, <2>3, JoinFeed
  <2> QED
    BY <1>10, <2>2, <2>3 DEF handleSubscribe
<1>11. CASE handleUnsubscribe(c, ret)
  <2>1. c.who \in Subscribers
    BY DEF Command
  <2> DEFINE left == [subs EXCEPT ![c.who] = 0]
  <2>2. /\ left = [s \in Subscribers |-> IF s \in {c.who} THEN 0 ELSE subs[s]]
        /\ {c.who} \in SUBSET Subscribers
    BY <1>1, <2>1 DEF FeedOK
  <2>3. CASE unpause(left)
    BY <1>8, <2>2, <2>3
  <2>4. CASE subs' = left /\ UNCHANGED <<game, seq, paused, sent>>
    BY <1>2, <2>1, <2>4, LeaveFeed
  <2> QED
    BY <1>11, <2>3, <2>4 DEF handleUnsubscribe
<1> QED
  BY <1>5, <1>7, <1>9, <1>10, <1>11 DEF handleCommand

(***************************************************************************)
(* One step of the goroutine of a live session.                            *)
(***************************************************************************)
Settled == {"replayDeferred", "processTurns", "aiPacing", "aiPlay", "pauseDelay", "resumeDelay",
            "finishWithGrace", "select"}

LEMMA DriveSettles ==
    ASSUME NEW o \in Outcomes, driveAfter(o)
    PROVE  pc' \in Settled
  BY DEF driveAfter, Outcomes, Settled

LEMMA CommandSettles ==
    ASSUME game \in Game, NEW c, NEW ret \in Settled, NEW w, handleCommand(c, ret, w)
    PROVE  pc' \in Settled
<1>1. CASE handlePlay(c, ret, w)
  <2>1. ASSUME NEW h \in HandleAction(c.who), handleAcceptedAction(c, h, ret)
        PROVE  pc' \in Settled
    <3>1. h \in Game
      BY <2>1, StepsType
    <3>2. driveAfter(h.outcome) /\ h.outcome \in Outcomes
      BY <2>1, <3>1 DEF handleAcceptedAction, driveTurnsFrom, Game
    <3> QED
      BY <3>2, DriveSettles
  <2> QED
    BY <1>1, <2>1 DEF handlePlay, refusePlay, goTo
<1> QED
  BY <1>1 DEF handleCommand, handlePauseCmd, handleResumeCmd, handleSubscribe,
              handleUnsubscribe, goTo

LEMMA SettledFeed ==
    ASSUME pc' \in Settled, finished' \/ Shown', dealSnapshots' = {}
    PROVE  FeedInv'
<1>1. pc' \notin {"run", "awaitDealWindow", "redealDelay"}
  BY DEF Settled
<1> QED
  BY <1>1 DEF FeedInv, live

LEMMA FatalFeed ==
    ASSUME ~cancel, cancel' = cancel, driveFatal
    PROVE  FeedStep /\ FeedInv'
  BY DropFeed DEF driveFatal, FeedInv, live

LEMMA StartFeed ==
    ASSUME TypeOK, FeedInv, live, cancel' = cancel, RunDealPhase \/ RunNoDeal
    PROVE  FeedStep /\ FeedInv'
<1>1. pc = "run" /\ NothingShown /\ dealSnapshots = {} /\ ~cancel /\ ~finished
  BY DEF FeedInv, live, RunDealPhase, RunNoDeal, at
<1>2. FeedOK /\ game \in Game /\ sent.seq + 1 = seq
  BY <1>1 DEF TypeOK, TableOK, NothingShown
<1>3. CASE RunDealPhase
  <2>1. /\ broadcastSnapshot(viewOf(game, paused), seq, subs)
        /\ dealSnapshots' = {viewOf(game, paused)}
        /\ game' = [game EXCEPT !.dealPending = FALSE]
        /\ pc' = "awaitDealWindow" /\ seq' = seq /\ paused' = paused
    BY <1>3 DEF RunDealPhase, goTo
  <2>2. FeedStep /\ (finished' \/ sent' = [seq |-> seq, view |-> viewOf(game, paused)])
    BY <1>1, <1>2, <2>1, BroadcastAllFeed
  <2>3. ~game'.dealPending
    BY <1>2, <2>1 DEF Game
  <2>4. finished' \/ DealShown'
    BY <1>1, <2>1, <2>2, <2>3 DEF DealShown, NothingShown
  <2> QED
    BY <2>1, <2>2, <2>4 DEF FeedInv, live
<1>4. CASE RunNoDeal
  <2>1. /\ broadcastSnapshot(viewOf(game', paused), seq, subs)
        /\ game' = scheduleTurnDeadline(game) /\ seq' = seq /\ paused' = paused
        /\ dealSnapshots' = dealSnapshots /\ ~game.dealPending
        /\ driveAfter("StepContinue")
    BY <1>4 DEF RunNoDeal, driveTurnsFrom
  <2>2. FeedStep /\ (finished' \/ sent' = [seq |-> seq, view |-> viewOf(game', paused)])
    BY <1>1, <1>2, <2>1, BroadcastAllFeed
  <2>3. ~game'.dealPending
    BY <1>2, <2>1, ScheduleKeeps
  <2>4. finished' \/ Shown'
    BY <2>1, <2>2, <2>3 DEF Shown, viewOf
  <2>5. pc' \in Settled
    BY <2>1, DriveSettles DEF Outcomes
  <2> QED
    BY <1>1, <2>1, <2>2, <2>4, <2>5, SettledFeed
<1> QED
  BY <1>3, <1>4

LEMMA WindowFeed ==
    ASSUME TypeOK, FeedInv, live, cancel' = cancel, DealCommand \/ DealWindowEnds
    PROVE  FeedStep /\ FeedInv'
<1>1. pc = "awaitDealWindow" /\ DealShown /\ ~cancel /\ ~finished
  BY DEF FeedInv, live, DealCommand, DealWindowEnds, at
<1>2. /\ FeedOK /\ game \in Game /\ seq \in Nat \ {0} /\ sent.seq = seq
      /\ sent = [seq |-> seq, view |-> sent.view]
  BY <1>1 DEF TypeOK, TableOK, FeedOK, DealShown
<1>3. ASSUME pc' = pc, UNCHANGED <<game, seq, paused, sent, dealSnapshots>>
      PROVE  FeedInv'
  BY <1>1, <1>3 DEF FeedInv, DealShown
<1>4. CASE DealCommand
  <2>1. CASE UNCHANGED <<control, table, feed>>
    BY <1>3, <1>4, <2>1, SameFeed DEF DealCommand, control, table, feed
  <2>2. CASE /\ handleCommand(Head(cmds), "awaitDealWindow", waitingForHuman)
             /\ ~isPlay(Head(cmds))
    <3> DEFINE c == Head(cmds)
    <3>1. c \in Command /\ dealSnapshots' = dealSnapshots
      BY <1>4, ReceiveType DEF DealCommand, TypeOK
    <3>2. c.who \in Subscribers /\ c.kind \notin {"action", "pause", "resume"}
      BY <2>2, <3>1 DEF Command, isPlay
    <3> HIDE DEF c
    <3>3. CASE handleSubscribe(c, "awaitDealWindow")
      <4>1. pc' = pc /\ UNCHANGED <<game, seq, paused>>
        BY <1>1, <3>3 DEF handleSubscribe, goTo, table
      <4>2. sent' = [seq |-> seq, view |-> sent.view] /\ subs' = [subs EXCEPT ![c.who] = seq]
        BY <1>1, <3>3 DEF handleSubscribe, DealShown
      <4>3. sent' = sent
        BY <1>2, <4>2
      <4> QED
        BY <1>1, <1>2, <1>3, <3>1, <3>2, <4>1, <4>2, <4>3, JoinFeed
    <3>4. CASE handleUnsubscribe(c, "awaitDealWindow")
      <4>1. /\ pc' = pc /\ UNCHANGED <<game, seq, paused, sent>>
            /\ subs' = [subs EXCEPT ![c.who] = 0]
        BY <1>1, <3>4 DEF handleUnsubscribe, goTo, DealShown
      <4> QED
        BY <1>1, <1>3, <3>1, <3>2, <4>1, LeaveFeed
    <3> QED
      BY <2>2, <3>2, <3>3, <3>4 DEF handleCommand, handlePlay, handlePauseCmd, handleResumeCmd, c
  <2> QED
    BY <1>4, <2>1, <2>2 DEF DealCommand
<1>5. CASE DealWindowEnds
  <2>1. /\ publishStep(game, TRUE) /\ paused' = paused /\ dealSnapshots' = {}
        /\ pc' = "replayDeferred" /\ ~game.dealPending
    BY <1>1, <1>5 DEF DealWindowEnds, goTo, DealShown
  <2>2. FeedStep /\ (finished' \/ Shown')
    BY <1>1, <1>2, <2>1, PublishFeed
  <2> QED
    BY <2>1, <2>2, SettledFeed DEF Settled
<1> QED
  BY <1>4, <1>5

LEMMA HandlerFeed ==
    ASSUME TypeOK, FeedInv, live, cancel' = cancel,
           ReplayDeferred \/ PacingCommand \/ SelectCommand
    PROVE  FeedStep /\ FeedInv'
<1>1. Shown /\ dealSnapshots = {} /\ dealSnapshots' = {} /\ ~cancel /\ ~finished
  BY DEF FeedInv, live, ReplayDeferred, PacingCommand, SelectCommand, at
<1>2. InsideOK /\ game \in Game
  BY DEF TypeOK, InsideOK, ManagerOK, TableOK
<1>3. ASSUME NEW c \in Command, NEW ret \in Settled, NEW w, handleCommand(c, ret, w)
      PROVE  FeedStep /\ FeedInv'
  BY <1>1, <1>2, <1>3, CommandFeed, CommandSettles, SettledFeed
<1>4. "select" \in Settled /\ "replayDeferred" \in Settled /\ "aiPlay" \in Settled
  BY DEF Settled
<1>5. receive => Head(cmds) \in Command
  BY ReceiveType DEF TypeOK
<1>6. CASE PacingCommand \/ SelectCommand
  BY <1>3, <1>4, <1>5, <1>6 DEF PacingCommand, SelectCommand
<1>7. CASE ReplayDeferred
  <2>1. CASE deferred # << >> /\ handleCommand(Head(deferred), "replayDeferred", waitingForHuman)
    <3>1. Head(deferred) \in Command
      BY <2>1, HeadTailProperties DEF TypeOK, QueuesOK
    <3> QED
      BY <1>3, <1>4, <2>1, <3>1
  <2>2. CASE driveTurnsFrom("select", "StepContinue") /\ UNCHANGED <<table, feed>>
    <3>1. pc' \in Settled
      BY <2>2, DriveSettles DEF driveTurnsFrom, Outcomes
    <3>2. FeedStep /\ Shown'
      BY <1>1, <2>2, SameFeed DEF table, feed, Shown, viewOf
    <3> QED
      BY <1>1, <3>1, <3>2, SettledFeed
  <2> QED
    BY <1>7, <2>1, <2>2 DEF ReplayDeferred
<1> QED
  BY <1>6, <1>7

LEMMA WaitFeed ==
    ASSUME TypeOK, FeedInv, live, cancel' = cancel, ~EngineMayFail,
           ProcessTurns \/ PacingElapses \/ ResumeDelayEnds
    PROVE  FeedStep /\ FeedInv'
<1>1. Shown /\ dealSnapshots' = {}
  BY DEF FeedInv, live, ProcessTurns, PacingElapses, ResumeDelayEnds, at
<1>2. UNCHANGED <<game, seq, paused, sent, subs>>
  BY DEF ProcessTurns, PacingElapses, ResumeDelayEnds, silent, feed, table
<1>3. pc' \in Settled
  <2>1. CASE driveReturn
    <3>1. Head(callers) \in Frame
      BY <2>1, HeadTailProperties DEF TypeOK, ControlOK, driveReturn
    <3> QED
      BY <2>1, <3>1 DEF driveReturn, Frame, Settled
  <2> QED
    BY <2>1 DEF ProcessTurns, PacingElapses, ResumeDelayEnds, goTo, Settled
<1>4. Shown'
  BY <1>1, <1>2 DEF Shown, viewOf
<1> QED
  BY <1>1, <1>2, <1>3, <1>4, SameFeed, SettledFeed

LEMMA EngineFeed ==
    ASSUME TypeOK, TurnMeaningful, FeedInv, live, cancel' = cancel, ~EngineMayFail,
           AIPlays \/ ResumePauses \/ RedealDelayEnds \/ TurnTimesOut
    PROVE  FeedStep /\ FeedInv'
<1>1. /\ dealSnapshots' = {} /\ ~cancel /\ ~finished /\ sent.seq = seq
      /\ pc = "redealDelay" \/ Shown
  BY DEF FeedInv, live, AIPlays, ResumePauses, RedealDelayEnds, TurnTimesOut, at, Shown
<1>2. FeedOK /\ game \in Game
  BY DEF TypeOK, TableOK
<1>3. ASSUME NEW h \in Game, NEW schedule \in BOOLEAN, publishStep(h, schedule), ~h.dealPending,
             paused' = paused, pc' \in Settled
      PROVE  FeedStep /\ FeedInv'
  BY <1>1, <1>2, <1>3, PublishFeed, SettledFeed
<1>4. \A h \in AIPlay : h \in Game /\ h.outcome \in Outcomes /\ ~h.dealPending
  <2>1. \A h \in AIPlay : h \in Game
    BY <1>2, StepsType
  <2> QED
    BY <2>1 DEF AIPlay, enginePosts, Game
<1>5. CASE AIPlays
  <2>1. ASSUME NEW h \in AIPlay, publishStep(h, h.outcome # "StepFinished"), driveAfter(h.outcome),
               paused' = paused
        PROVE  FeedStep /\ FeedInv'
    <3> DEFINE schedule == h.outcome # "StepFinished"
    <3>1. schedule \in BOOLEAN /\ publishStep(h, schedule) /\ pc' \in Settled
      BY <1>4, <2>1, DriveSettles
    <3> HIDE DEF schedule
    <3> QED
      BY <1>3, <1>4, <2>1, <3>1
  <2> QED
    BY <1>1, <1>5, <2>1, FatalFeed DEF AIPlays
<1>6. CASE ResumePauses
  <2>1. ASSUME NEW h \in Resume,
               publishStep(h, h.outcome # "StepFinished" /\ ~h.dealPending), paused' = paused,
               IF h.outcome = "StepContinue"
               THEN pc' = IF h.dealPending THEN "redealDelay" ELSE "resumeDelay"
               ELSE driveAfter(h.outcome)
        PROVE  FeedStep /\ FeedInv'
    <3>1. h \in Game /\ h.outcome \in Outcomes
      BY <1>2, StepsType DEF Game
    <3>2. h.dealPending => h.outcome = "StepContinue"
      BY DEF Resume, enginePosts
    <3> DEFINE schedule == h.outcome # "StepFinished" /\ ~h.dealPending
    <3>3. schedule \in BOOLEAN /\ publishStep(h, schedule)
      BY <2>1
    <3> HIDE DEF schedule
    <3>4. CASE h.dealPending
      <4>1. FeedStep /\ (finished' \/ sent'.seq = seq') /\ ~game'.dealPending
        BY <1>1, <1>2, <2>1, <3>1, <3>3, PublishFeed
      <4>2. pc' = "redealDelay"
        BY <2>1, <3>2, <3>4
      <4> QED
        BY <1>1, <4>1, <4>2 DEF FeedInv, live
    <3>5. CASE ~h.dealPending
      <4>1. pc' \in Settled
        BY <2>1, <3>1, <3>5, DriveSettles DEF Settled
      <4> QED
        BY <1>3, <2>1, <3>1, <3>3, <3>5, <4>1
    <3> QED
      BY <3>4, <3>5
  <2> QED
    BY <1>1, <1>6, <2>1, FatalFeed DEF ResumePauses
<1>7. CASE RedealDelayEnds
  <2>1. ~game.dealPending
    BY <1>7 DEF FeedInv, live, RedealDelayEnds, at
  <2>2. publishStep(game, TRUE) /\ paused' = paused /\ pc' = "processTurns"
    BY <1>7 DEF RedealDelayEnds, goTo
  <2> QED
    BY <1>2, <1>3, <2>1, <2>2 DEF Settled
<1>8. CASE TurnTimesOut
  <2>1. pc = "select" /\ game.outcome = "StepContinue" /\ Shown
    BY <1>1, <1>8 DEF TurnTimesOut, at, TurnMeaningful, live, outcomeAt
  <2>2. ASSUME NEW h \in AIPlay, publishStep(h, h.outcome # "StepFinished"),
               driveTurnsFrom("select", h.outcome), paused' = paused
        PROVE  FeedStep /\ FeedInv'
    <3> DEFINE schedule == h.outcome # "StepFinished"
    <3>1. schedule \in BOOLEAN /\ publishStep(h, schedule) /\ pc' \in Settled
      BY <1>4, <2>2, DriveSettles DEF driveTurnsFrom
    <3> HIDE DEF schedule
    <3> QED
      BY <1>3, <1>4, <2>2, <3>1
  <2>3. CASE /\ game.turn \notin HumanSeats
             /\ game' = [game EXCEPT !.deadline = @ /\ game.turn \notin HumanSeats]
             /\ silent /\ UNCHANGED <<control, seq>> /\ paused' = paused
    <3>1. (game.deadline /\ game.turn \notin HumanSeats) = game.deadline
      BY <1>2, <2>3 DEF Game
    <3>2. game' = game
      BY <1>2, <2>3, <3>1 DEF Game
    <3>3. Shown' /\ FeedStep
      BY <2>1, <2>3, <3>2, SameFeed DEF Shown, viewOf, silent, feed
    <3>4. pc' \in Settled
      BY <2>1, <2>3 DEF control, Settled
    <3> QED
      BY <1>1, <3>3, <3>4, SettledFeed
  <2> QED
    BY <1>8, <2>1, <2>2, <2>3 DEF TurnTimesOut
<1> QED
  BY <1>5, <1>6, <1>7, <1>8

LEMMA GoroutineFeed ==
    ASSUME TypeOK, TurnMeaningful, FeedInv, live, cancel' = cancel, ~EngineMayFail, Goroutine
    PROVE  FeedStep /\ FeedInv'
<1>1. ~cancel /\ ~finished /\ pc \notin Exiting
  BY DEF live
<1>2. CASE Shutdown
  BY <1>1, <1>2, DropFeed DEF Shutdown, FeedInv, live, Exiting
<1>3. CASE FinishWithGrace
  BY <1>1, <1>3, FatalFeed DEF FinishWithGrace
<1>4. ~(DriveShutdown \/ Unwind \/ DrainCmds \/ CloseDone)
  BY <1>1 DEF DriveShutdown, Unwind, DrainCmds, CloseDone, Exiting
<1> QED
  BY <1>2, <1>3, <1>4, StartFeed, WindowFeed, HandlerFeed, WaitFeed, EngineFeed DEF Goroutine

(***************************************************************************)
(* The theorem.                                                            *)
(***************************************************************************)
LEMMA NextFeed ==
    ASSUME TypeOK, TurnMeaningful, FeedInv, ~EngineMayFail, [Next]_vars
    PROVE  FeedStep /\ FeedInv'
<1>1. CASE cancel
  <2>1. cancel'
    BY <1>1, CancelStays
  <2>2. Feed!AfterClose
    BY <1>1, <2>1 DEF Feed!AfterClose
  <2> QED
    BY <2>1, <2>2 DEF FeedStep, Feed!Next, FeedInv, live
<1>2. CASE ~cancel /\ Goroutine /\ ~(finished \/ pc \in Exiting)
  <2>1. cancel' = cancel
    BY <1>2 DEF Goroutine, RunDealPhase, RunNoDeal, DealCommand, DealWindowEnds,
                ReplayDeferred, ProcessTurns, PacingElapses, PacingCommand, AIPlays,
                ResumePauses, ResumeDelayEnds, RedealDelayEnds, DriveShutdown,
                FinishWithGrace, SelectCommand, TurnTimesOut, Shutdown, Unwind, DrainCmds,
                CloseDone, manager
  <2> QED
    BY <1>2, <2>1, GoroutineFeed DEF live
<1>3. CASE ~cancel /\ Goroutine /\ (finished \/ pc \in Exiting)
  <2>1. Unwind \/ DrainCmds \/ CloseDone
    BY <1>3 DEF Goroutine, RunDealPhase, RunNoDeal, DealCommand, DealWindowEnds,
                ReplayDeferred, ProcessTurns, PacingElapses, PacingCommand, AIPlays,
                ResumePauses, ResumeDelayEnds, RedealDelayEnds, DriveShutdown,
                FinishWithGrace, SelectCommand, TurnTimesOut, Shutdown, at, Exiting
  <2>2. UNCHANGED <<sent, subs, cancel>> /\ pc' \in Exiting
    BY <1>3, <2>1 DEF Unwind, DrainCmds, CloseDone, goTo, control, feed, manager, Exiting
  <2> QED
    BY <2>2, SameFeed DEF FeedInv, live
<1>4. CASE ~cancel /\ ~Goroutine
  <2>1. UNCHANGED <<pc, game, seq, paused, subs, sent, finished, dealSnapshots>>
    BY <1>4, CallersRest DEF control, table
  <2>2. FeedInv'
    <3>1. (live' => live)
      BY <1>4, <2>1 DEF live
    <3>2. UNCHANGED <<NothingShown, DealShown, Shown>>
      BY <2>1 DEF NothingShown, DealShown, Shown, viewOf
    <3> QED
      BY <2>1, <3>1, <3>2 DEF FeedInv
  <2>3. CASE cancel'
    <3>1. Feed!Close
      BY <1>4, <2>1, <2>3 DEF Feed!Close
    <3> QED
      BY <2>2, <3>1 DEF FeedStep, Feed!Next
  <2>4. CASE ~cancel'
    <3>1. UNCHANGED <<sent, subs>> /\ (~cancel)' = ~cancel
      BY <1>4, <2>1, <2>4
    <3> QED
      BY <2>2, <3>1 DEF FeedStep, Feed!vars
  <2> QED
    BY <2>3, <2>4
<1> QED
  BY <1>1, <1>2, <1>3, <1>4

(* The snapshots of a session are the abstract feed: the session's seq, its
   deal window, its out-of-band snapshots (stale_seq, subscribe) and its
   broadcasts never give two views one number or leave a subscriber behind. *)
THEOREM SessionIsFeed == ASSUME ~EngineMayFail PROVE Spec => FeedSpec
<1>1. Init => FeedInv /\ Feed!Init
  BY DEF Init, FeedInv, NothingShown, Feed!Init
<1>2. TypeOK /\ TurnMeaningful /\ FeedInv /\ [Next]_vars => FeedStep /\ FeedInv'
  BY NextFeed
<1> QED
  BY <1>1, <1>2, TypeCorrect, TurnIsMeaningful, PTL DEF Spec, FeedSpec, Feed!Spec, FeedStep

=============================================================================
