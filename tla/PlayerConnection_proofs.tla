----------------------- MODULE PlayerConnection_proofs -----------------------
(***************************************************************************)
(* PlayerConnection keeps its types, hands every subscriber channel from   *)
(* one owner to the next, and never leaves a paused game unwatched, for    *)
(* any number of connections and any sizes of the channels.                *)
(***************************************************************************)
EXTENDS PlayerConnection, TLAPS

(* TypeOK by the part of the state it is about. *)
Contents == {"data", "fail"}

GoroutinesOK ==
    /\ phase \in [Conns -> {"new", "upgrading", "running", "gone"}]
    /\ reader \in [Conns -> {"off", "read", "submit", "reply", "gone"}]
    /\ writer \in [Conns -> {"off", "select", "gone"}]
    /\ done \in [Conns -> BOOLEAN]

WiresOK ==
    /\ ws \in [Conns -> {"none", "open", "client", "normal", "internal", "goingAway"}]
    /\ replies \in [Conns -> 0..2]
    /\ outCh \in [Conns -> 0..outChSize]

ChannelsOK ==
    /\ subCh \in [Conns -> Seq(Contents)]
    /\ \A c \in Conns : Len(subCh[c]) <= subChanSize
    /\ closed \in [Conns -> BOOLEAN]
    /\ player \in Conns \cup {None}

QueueOK == cmds \in Seq(Command) /\ Len(cmds) <= cmdChanSize

FlagsOK ==
    /\ life \in {"live", "leaving", "over"}
    /\ paused \in BOOLEAN /\ dropped \in BOOLEAN /\ closing \in BOOLEAN

(* A reader that waits for outCh has something to put on it. *)
RepliesWait == \A c \in Conns : reader[c] = "reply" => replies[c] > 0

(* TypeOK is the conjunction of its parts, before and after a step. *)
LEMMA Parts ==
    /\ TypeOK <=> GoroutinesOK /\ WiresOK /\ ChannelsOK /\ QueueOK /\ FlagsOK
    /\ TypeOK' <=> (GoroutinesOK /\ WiresOK /\ ChannelsOK /\ QueueOK /\ FlagsOK)'
BY DEF TypeOK, GoroutinesOK, WiresOK, ChannelsOK, QueueOK, FlagsOK, Contents

(* A part that a step leaves alone keeps its type. *)
LEMMA Untouched ==
    /\ GoroutinesOK /\ UNCHANGED goroutinesOf => GoroutinesOK'
    /\ WiresOK /\ UNCHANGED wires => WiresOK'
    /\ ChannelsOK /\ UNCHANGED channels => ChannelsOK'
    /\ QueueOK /\ UNCHANGED cmds => QueueOK'
    /\ FlagsOK /\ UNCHANGED <<paused, life, dropped, closing>> => FlagsOK'
BY DEF GoroutinesOK, WiresOK, ChannelsOK, QueueOK, FlagsOK, goroutinesOf, wires, channels

(* The capacities are positive. *)
LEMMA Sizes ==
    /\ cmdChanSize \in Nat /\ cmdChanSize > 0
    /\ subChanSize \in Nat /\ subChanSize > 0
    /\ outChSize \in Nat /\ outChSize > 0
BY SizeAssumption

-----------------------------------------------------------------------------
(* What the helpers do to the types. *)

(* A Boolean function updated at one point is a Boolean function. *)
LEMMA BooleanUpdate ==
    ASSUME NEW f \in [Conns -> BOOLEAN], NEW c \in Conns, NEW b \in BOOLEAN
    PROVE  [f EXCEPT ![c] = b] \in [Conns -> BOOLEAN]
OBVIOUS

LEMMA CancelType ==
    ASSUME NEW c \in Conns, done \in [Conns -> BOOLEAN], cancel(c)
    PROVE  done' \in [Conns -> BOOLEAN]
<1> DEFINE b == TRUE
<1>1. b \in BOOLEAN
  OBVIOUS
<1>2. done' = [done EXCEPT ![c] = b]
  BY DEF cancel
<1> HIDE DEF b
<1> QED
  BY <1>1, <1>2, BooleanUpdate

LEMMA CloseType ==
    ASSUME WiresOK, NEW c \in Conns, NEW why \in {"client", "normal", "internal", "goingAway"},
           wsClose(c, why)
    PROVE  ws' \in [Conns -> {"none", "open", "client", "normal", "internal", "goingAway"}]
BY DEF WiresOK, wsClose

LEMMA WriterStopsType ==
    ASSUME GoroutinesOK, NEW c \in Conns, writerStops(c), UNCHANGED <<phase, reader>>
    PROVE  GoroutinesOK'
<1>1. done' \in [Conns -> BOOLEAN]
  BY CancelType DEF GoroutinesOK, writerStops
<1> QED
  BY <1>1 DEF GoroutinesOK, writerStops

LEMMA RepliesType ==
    ASSUME NEW c \in Conns, NEW n \in 0..2, readerReplies(c, n),
           GoroutinesOK, WiresOK, UNCHANGED <<phase, writer, done>>
    PROVE  GoroutinesOK' /\ replies' \in [Conns -> 0..2]
BY DEF GoroutinesOK, WiresOK, readerReplies, readerMoves

(* A bounded send keeps a queue within its bound. *)
LEMMA OfferedType ==
    ASSUME NEW q \in Seq(Contents), NEW m \in Contents, Len(q) <= subChanSize
    PROVE  offered(q, m) \in Seq(Contents) /\ Len(offered(q, m)) <= subChanSize
BY Sizes DEF offered, Contents

LEMMA SentType ==
    ASSUME ChannelsOK, NEW c \in Conns, NEW m \in Contents,
           subCh' = [subCh EXCEPT ![c] = offered(@, m)]
    PROVE  /\ subCh' \in [Conns -> Seq(Contents)]
           /\ \A d \in Conns : Len(subCh'[d]) <= subChanSize
<1>1. offered(subCh[c], m) \in Seq(Contents) /\ Len(offered(subCh[c], m)) <= subChanSize
  BY OfferedType DEF ChannelsOK
<1> QED
  BY <1>1 DEF ChannelsOK

LEMMA BroadcastType ==
    ASSUME ChannelsOK, broadcast, UNCHANGED <<closed, player>>
    PROVE  ChannelsOK'
<1>1. CASE player = None
  BY <1>1 DEF ChannelsOK, broadcast
<1>2. CASE player # None
  <2>1. player \in Conns /\ "data" \in Contents
    BY <1>2 DEF ChannelsOK, Contents
  <2>2. subCh' = [subCh EXCEPT ![player] = offered(@, "data")]
    BY <1>2 DEF broadcast
  <2> QED
    BY <2>1, <2>2, SentType DEF ChannelsOK
<1> QED
  BY <1>1, <1>2

(* Sending a command, and taking the first. *)
LEMMA SendType ==
    ASSUME QueueOK, hasRoom, NEW k \in {"subscribe", "unsubscribe", "play"}, NEW c \in Conns,
           cmds' = Append(cmds, command(k, c))
    PROVE  QueueOK'
<1>1. command(k, c) \in Command
  BY DEF command, Command
<1> QED
  BY <1>1, Sizes DEF QueueOK, hasRoom

LEMMA ReceiveType ==
    ASSUME QueueOK, cmds # << >>, cmds' = Tail(cmds)
    PROVE  QueueOK'
BY Sizes DEF QueueOK

LEMMA UnsubscribeType ==
    ASSUME QueueOK, FlagsOK, NEW c \in Conns, unsubscribe(c), UNCHANGED <<paused, life, closing>>
    PROVE  QueueOK' /\ FlagsOK'
<1>1. QueueOK'
  BY SendType, Untouched DEF unsubscribe, sends
<1>2. (dropped \/ (life = "live" /\ ~hasRoom)) \in BOOLEAN
  OBVIOUS
<1>3. dropped' \in BOOLEAN
  BY <1>2 DEF unsubscribe
<1> QED
  BY <1>1, <1>3 DEF FlagsOK

-----------------------------------------------------------------------------
(* Every step keeps the types. *)

(* The initial state has its types. *)
LEMMA InitType == Init => TypeOK
<1> SUFFICES ASSUME Init PROVE TypeOK
  OBVIOUS
<1>1. GoroutinesOK /\ WiresOK /\ ChannelsOK
  BY Sizes DEF Init, GoroutinesOK, WiresOK, ChannelsOK
<1>2. QueueOK
  BY Sizes DEF Init, QueueOK
<1>3. FALSE \in BOOLEAN
  OBVIOUS
<1>4. FlagsOK
  BY <1>3 DEF Init, FlagsOK
<1> QED
  BY <1>1, <1>2, <1>4, Parts

LEMMA HandlerType ==
    ASSUME TypeOK, NEW c \in Conns, Handler(c)
    PROVE  TypeOK'
<1> USE Parts, Untouched
<1>1. CASE Subscribe(c)
  <2>1. QueueOK'
    BY <1>1, SendType DEF Subscribe, sends
  <2>2. GoroutinesOK'
    BY <1>1 DEF Subscribe, GoroutinesOK
  <2> QED
    BY <1>1, <2>1, <2>2 DEF Subscribe
<1>2. CASE Accept(c)
  <2>1. GoroutinesOK'
    BY <1>2 DEF Accept, GoroutinesOK
  <2>2. WiresOK'
    BY <1>2 DEF Accept, WiresOK
  <2> QED
    BY <1>2, <2>1, <2>2 DEF Accept, session
<1>3. CASE AcceptFails(c)
  <2>1. GoroutinesOK'
    BY <1>3 DEF AcceptFails, GoroutinesOK
  <2>2. QueueOK' /\ FlagsOK'
    BY <1>3, UnsubscribeType DEF AcceptFails
  <2> QED
    BY <1>3, <2>1, <2>2 DEF AcceptFails
<1>4. CASE Leave(c)
  <2>1. GoroutinesOK'
    BY <1>4 DEF Leave, GoroutinesOK
  <2>2. QueueOK' /\ FlagsOK'
    BY <1>4, UnsubscribeType DEF Leave
  <2>3. WiresOK'
    <3>1. CASE closing
      BY <1>4, <3>1 DEF Leave, WiresOK
    <3>2. CASE ~closing
      BY <1>4, <3>2, CloseType DEF Leave, WiresOK
    <3> QED
      BY <3>1, <3>2
  <2> QED
    BY <1>4, <2>1, <2>2, <2>3 DEF Leave
<1> QED
  BY <1>1, <1>2, <1>3, <1>4 DEF Handler

LEMMA ReaderType ==
    ASSUME TypeOK, RepliesWait, NEW c \in Conns, Reader(c)
    PROVE  TypeOK'
<1> USE Parts, Untouched
<1>1. CASE ReadMessage(c)
  <2>1. CASE hasRoom /\ cmds' = Append(cmds, command("play", c)) /\ readerMoves(c, "submit")
             /\ UNCHANGED replies
    <3>1. QueueOK'
      BY <2>1, SendType
    <3>2. GoroutinesOK' /\ WiresOK'
      BY <1>1, <2>1 DEF ReadMessage, GoroutinesOK, WiresOK, readerMoves
    <3> QED
      BY <1>1, <3>1, <3>2 DEF ReadMessage
  <2>2. CASE readerReplies(c, 1) /\ UNCHANGED cmds
    <3>1. GoroutinesOK' /\ WiresOK'
      BY <1>1, <2>2, RepliesType DEF ReadMessage, WiresOK
    <3> QED
      BY <1>1, <2>2, <3>1 DEF ReadMessage
  <2>3. CASE readerMoves(c, "submit") /\ UNCHANGED <<cmds, replies>>
    <3>1. GoroutinesOK' /\ WiresOK'
      BY <1>1, <2>3 DEF ReadMessage, GoroutinesOK, WiresOK, readerMoves
    <3> QED
      BY <1>1, <2>3, <3>1 DEF ReadMessage
  <2> QED
    BY <1>1, <2>1, <2>2, <2>3 DEF ReadMessage, sends
<1>2. ASSUME readerMoves(c, "gone"), cancel(c), UNCHANGED <<phase, writer>>
      PROVE  GoroutinesOK'
  <2>1. done' \in [Conns -> BOOLEAN]
    BY <1>2, CancelType DEF GoroutinesOK
  <2> QED
    BY <1>2, <2>1 DEF GoroutinesOK, readerMoves
<1>3. CASE ReadFails(c)
  BY <1>2, <1>3 DEF ReadFails, session
<1>4. CASE PutReply(c)
  <2>1. replies[c] - 1 \in 0..2
    BY <1>4 DEF PutReply, RepliesWait, WiresOK
  <2>2. GoroutinesOK' /\ replies' \in [Conns -> 0..2]
    BY <1>4, <2>1, RepliesType DEF PutReply
  <2>3. WiresOK'
    <3>1. outCh[c] + 1 \in 0..outChSize
      BY <1>4, Sizes DEF PutReply, WiresOK
    <3>2. outCh' = [outCh EXCEPT ![c] = outCh[c] + 1] /\ ws' = ws
      BY <1>4 DEF PutReply
    <3> QED
      BY <2>2, <3>1, <3>2 DEF WiresOK
  <2> QED
    BY <1>4, <2>2, <2>3 DEF PutReply, session
<1>5. CASE ReplyCancelled(c)
  BY <1>2, <1>5 DEF ReplyCancelled, session
<1> QED
  BY <1>1, <1>3, <1>4, <1>5 DEF Reader

LEMMA WriterType ==
    ASSUME TypeOK, NEW c \in Conns, Writer(c)
    PROVE  TypeOK'
<1> USE Parts, Untouched
<1>1. CASE WriteSnapshot(c)
  <2>1. ChannelsOK'
    <3>1. /\ Tail(subCh[c]) \in Seq(Contents)
          /\ Len(Tail(subCh[c])) <= subChanSize
      BY <1>1, Sizes DEF WriteSnapshot, ChannelsOK
    <3>2. /\ subCh' = [subCh EXCEPT ![c] = Tail(subCh[c])]
          /\ UNCHANGED <<closed, player>>
      BY <1>1 DEF WriteSnapshot
    <3> QED
      BY <3>1, <3>2 DEF ChannelsOK
  <2>2. GoroutinesOK'
    <3>1. writerStops(c) \/ UNCHANGED <<writer, done>>
      BY <1>1 DEF WriteSnapshot
    <3>2. UNCHANGED <<phase, reader>>
      BY <1>1 DEF WriteSnapshot
    <3>3. CASE UNCHANGED <<writer, done>>
      BY <3>2, <3>3 DEF GoroutinesOK
    <3> QED
      BY <3>1, <3>2, <3>3, WriterStopsType
  <2>3. WiresOK'
    BY <1>1, CloseType DEF WriteSnapshot, WiresOK
  <2> QED
    BY <1>1, <2>1, <2>2, <2>3 DEF WriteSnapshot, session
<1>2. CASE SubscriptionEnds(c)
  <2>1. GoroutinesOK'
    BY <1>2, WriterStopsType DEF SubscriptionEnds, GoroutinesOK
  <2>2. WiresOK'
    BY <1>2, CloseType DEF SubscriptionEnds, WiresOK
  <2> QED
    BY <1>2, <2>1, <2>2 DEF SubscriptionEnds, session
<1>3. CASE WriteReply(c)
  <2>1. GoroutinesOK'
    BY <1>3, WriterStopsType DEF WriteReply, GoroutinesOK
  <2>2. WiresOK'
    BY <1>3, Sizes DEF WriteReply, WiresOK
  <2> QED
    BY <1>3, <2>1, <2>2 DEF WriteReply, session
<1>4. CASE WriterCancelled(c)
  <2>1. GoroutinesOK'
    BY <1>4, WriterStopsType DEF WriterCancelled
  <2> QED
    BY <1>4, <2>1 DEF WriterCancelled, session
<1> QED
  BY <1>1, <1>2, <1>3, <1>4 DEF Writer

LEMMA CommandType ==
    ASSUME TypeOK, HandleCommand
    PROVE  TypeOK'
<1> USE Parts, Untouched
<1>1. PICK c \in Conns : HandleSubscribe(c) \/ HandleUnsubscribe(c) \/ HandlePlay(c)
  BY DEF HandleCommand
<1>2. QueueOK'
  BY <1>1, ReceiveType DEF HandleSubscribe, HandleUnsubscribe, HandlePlay, receive
<1>3. \A d \in Conns : (closed[d] \/ d = player) \in BOOLEAN
  BY DEF ChannelsOK
<1>4. CASE HandleSubscribe(c)
  <2>1. closed' \in [Conns -> BOOLEAN]
    BY <1>3, <1>4 DEF HandleSubscribe, replace
  <2>2. "data" \in Contents
    BY DEF Contents
  <2>3. ChannelsOK'
    <3>1. /\ subCh' \in [Conns -> Seq(Contents)]
          /\ \A d \in Conns : Len(subCh'[d]) <= subChanSize
      BY <1>4, <2>2, SentType DEF HandleSubscribe
    <3> QED
      BY <1>4, <2>1, <3>1 DEF HandleSubscribe, ChannelsOK
  <2> QED
    BY <1>2, <1>4, <2>3 DEF HandleSubscribe
<1>5. CASE HandleUnsubscribe(c)
  <2>1. closed' \in [Conns -> BOOLEAN]
    BY <1>3, <1>5 DEF HandleUnsubscribe, closeSeat
  <2>2. ChannelsOK'
    BY <1>5, <2>1 DEF HandleUnsubscribe, ChannelsOK
  <2>3. FALSE \in BOOLEAN
    OBVIOUS
  <2>4. FlagsOK'
    BY <1>5, <2>3 DEF HandleUnsubscribe, FlagsOK
  <2> QED
    BY <1>2, <1>5, <2>2, <2>4 DEF HandleUnsubscribe
<1>6. CASE HandlePlay(c)
  <2>1. PICK n \in 0..2 : readerReplies(c, n)
    BY <1>6 DEF HandlePlay
  <2>2. GoroutinesOK' /\ WiresOK'
    BY <1>6, <2>1, RepliesType DEF HandlePlay, WiresOK
  <2>3. ChannelsOK'
    BY <1>6, BroadcastType DEF HandlePlay, ChannelsOK
  <2>4. FlagsOK'
    BY <1>6 DEF HandlePlay, FlagsOK
  <2> QED
    BY <1>2, <2>2, <2>3, <2>4
<1> QED
  BY <1>1, <1>4, <1>5, <1>6

LEMMA AnsweredType ==
    ASSUME GoroutinesOK, WiresOK, answerAll, UNCHANGED <<phase, writer, done, ws, outCh>>
    PROVE  GoroutinesOK' /\ WiresOK'
BY DEF answerAll, GoroutinesOK, WiresOK

LEMMA SessionType ==
    ASSUME TypeOK, NEW failing \in BOOLEAN, SessionEnds(failing)
    PROVE  TypeOK'
<1> USE Parts, Untouched
<1>1. GoroutinesOK' /\ WiresOK'
  BY AnsweredType DEF SessionEnds
<1>2. /\ subCh' \in [Conns -> Seq(Contents)]
      /\ \A d \in Conns : Len(subCh'[d]) <= subChanSize
  <2>1. CASE failing /\ player # None
    <3>1. player \in Conns /\ "fail" \in Contents
      BY <2>1 DEF ChannelsOK, Contents
    <3>2. subCh' = [subCh EXCEPT ![player] = offered(@, "fail")]
      BY <2>1 DEF SessionEnds
    <3> QED
      BY <3>1, <3>2, SentType
  <2>2. CASE ~(failing /\ player # None)
    BY <2>2 DEF SessionEnds, ChannelsOK
  <2> QED
    BY <2>1, <2>2
<1>3. closed' \in [Conns -> BOOLEAN]
  <2>1. \A c \in Conns : (closed[c] \/ c = player \/ inQueue("subscribe", c)) \in BOOLEAN
    BY DEF inQueue
  <2> QED
    BY <2>1 DEF SessionEnds
<1>4. ChannelsOK'
  BY <1>2, <1>3 DEF SessionEnds, ChannelsOK
<1>5. QueueOK'
  BY Sizes DEF SessionEnds, QueueOK
<1>6. FlagsOK'
  BY DEF SessionEnds, FlagsOK
<1> QED
  BY <1>1, <1>4, <1>5, <1>6

LEMMA DoneType ==
    ASSUME TypeOK, DoneCloses
    PROVE  TypeOK'
<1> USE Parts, Untouched
<1>1. GoroutinesOK' /\ WiresOK'
  BY AnsweredType DEF DoneCloses
<1>2. FlagsOK'
  BY DEF DoneCloses, FlagsOK
<1> QED
  BY <1>1, <1>2 DEF DoneCloses

(* Broadcasts, clients and Shutdown. *)
Outside == Broadcast \/ ShutdownBegins \/ \E c \in Conns : ClientCloses(c) \/ GoingAway(c)

LEMMA OutsideType ==
    ASSUME TypeOK, Outside
    PROVE  TypeOK'
<1> USE Parts, Untouched
<1>1. CASE Broadcast
  <2>1. ChannelsOK'
    BY <1>1, BroadcastType DEF Broadcast
  <2> QED
    BY <1>1, <2>1 DEF Broadcast, session
<1>2. ASSUME NEW c \in Conns, ClientCloses(c) PROVE TypeOK'
  <2>1. WiresOK'
    BY <1>2, CloseType DEF ClientCloses, WiresOK
  <2> QED
    BY <1>2, <2>1 DEF ClientCloses, session
<1>3. ASSUME NEW c \in Conns, GoingAway(c) PROVE TypeOK'
  <2>1. WiresOK'
    BY <1>3, CloseType DEF GoingAway, WiresOK
  <2> QED
    BY <1>3, <2>1 DEF GoingAway, session
<1>4. CASE ShutdownBegins
  <2>1. TRUE \in BOOLEAN
    OBVIOUS
  <2>2. FlagsOK'
    BY <1>4, <2>1 DEF ShutdownBegins, FlagsOK, session
  <2> QED
    BY <1>4, <2>2 DEF ShutdownBegins, session
<1> QED
  BY <1>1, <1>2, <1>3, <1>4 DEF Outside

(* The strengthening that makes the types inductive. *)
LEMMA WaitStep ==
    ASSUME TypeOK, RepliesWait, [Next]_vars
    PROVE  RepliesWait'
<1> USE DEF RepliesWait
<1>1. ASSUME NEW c \in Conns, NEW n \in 0..2, readerReplies(c, n)
      PROVE  RepliesWait'
  BY <1>1, Parts DEF readerReplies, readerMoves, GoroutinesOK, WiresOK
<1>2. ASSUME NEW c \in Conns, NEW to \in {"read", "submit", "gone"}, readerMoves(c, to),
             UNCHANGED replies
      PROVE  RepliesWait'
  BY <1>2, Parts DEF readerMoves, GoroutinesOK, WiresOK
<1>3. UNCHANGED <<reader, replies>> => RepliesWait'
  OBVIOUS
<1>4. ASSUME NEW c \in Conns, Handler(c) PROVE RepliesWait'
  <2>1. CASE Accept(c)
    BY <2>1, <1>2 DEF Accept, readerMoves
  <2> QED
    BY <1>4, <1>3, <2>1 DEF Handler, Subscribe, AcceptFails, Leave, wires
<1>5. ASSUME NEW c \in Conns, Reader(c) PROVE RepliesWait'
  <2>1. CASE ReadMessage(c)
    BY <2>1, <1>1, <1>2 DEF ReadMessage
  <2>2. CASE ReadFails(c) \/ ReplyCancelled(c)
    BY <2>2, <1>2 DEF ReadFails, ReplyCancelled, wires
  <2>3. CASE PutReply(c)
    <3>1. replies[c] - 1 \in 0..2
      BY <2>3, Parts DEF PutReply, WiresOK
    <3> QED
      BY <2>3, <3>1, <1>1 DEF PutReply
  <2> QED
    BY <1>5, <2>1, <2>2, <2>3 DEF Reader
<1>6. ASSUME NEW c \in Conns, Writer(c) PROVE RepliesWait'
  BY <1>6, <1>3 DEF Writer, WriteSnapshot, SubscriptionEnds, WriteReply, WriterCancelled, wires
<1>7. ASSUME HandleCommand PROVE RepliesWait'
  <2>1. PICK c \in Conns : HandleSubscribe(c) \/ HandleUnsubscribe(c) \/ HandlePlay(c)
    BY <1>7 DEF HandleCommand
  <2>2. CASE HandlePlay(c)
    BY <2>2, <1>1 DEF HandlePlay
  <2> QED
    BY <2>1, <2>2, <1>3 DEF HandleSubscribe, HandleUnsubscribe, goroutinesOf, wires
<1>8. ASSUME NEW failing \in BOOLEAN, SessionEnds(failing) PROVE RepliesWait'
  BY <1>8 DEF SessionEnds, answerAll
<1>9. DoneCloses => RepliesWait'
  BY DEF DoneCloses, answerAll
<1>10. Outside => RepliesWait'
  BY <1>3 DEF Outside, Broadcast, ClientCloses, GoingAway, ShutdownBegins, goroutinesOf, wires
<1>11. UNCHANGED vars => RepliesWait'
  BY <1>3 DEF vars, goroutinesOf, wires
<1> QED
  BY <1>4, <1>5, <1>6, <1>7, <1>8, <1>9, <1>10, <1>11 DEF Next, Outside

(* Spec keeps every variable in its type and every channel within its
   capacity: the reader's and the writer's queue, the subscriber channel and
   the session's commands. *)
THEOREM TypeCorrect == Spec => []TypeOK
<1> DEFINE Inv == TypeOK /\ RepliesWait
<1>1. Init => Inv
  BY InitType DEF Init, RepliesWait
<1>2. Inv /\ [Next]_vars => Inv'
  <2> SUFFICES ASSUME Inv, [Next]_vars PROVE TypeOK'
    BY WaitStep
  <2>1. UNCHANGED vars => TypeOK'
    BY Parts, Untouched DEF vars, session
  <2> QED
    BY <2>1, HandlerType, ReaderType, WriterType, CommandType, SessionType, DoneType,
       OutsideType
       DEF Next, Outside
<1> QED
  BY <1>1, <1>2, PTL DEF Spec

-----------------------------------------------------------------------------
(* The command queue, seen as who has what in it. *)

Kinds == {"subscribe", "unsubscribe", "play"}

(* c's command k is in the queue at most once. *)
once(k, c) ==
    \A i, j \in DOMAIN cmds : cmds[i] = command(k, c) /\ cmds[j] = command(k, c) => i = j

(* A sent command is in the queue, and no other is new there. *)
LEMMA Sent ==
    ASSUME QueueOK, NEW k \in Kinds, NEW c \in Conns, cmds' = Append(cmds, command(k, c)),
           NEW j \in Kinds, NEW d \in Conns
    PROVE  /\ inQueue(j, d)' <=> inQueue(j, d) \/ (j = k /\ d = c)
           /\ once(j, d) /\ ~(j = k /\ d = c /\ inQueue(k, c)) => once(j, d)'
<1> DEFINE x == command(k, c)
           y == command(j, d)
<1>1. x = y <=> j = k /\ d = c
  BY DEF command
<1>2. x \in Command /\ cmds \in Seq(Command)
  BY DEF QueueOK, Command, command, Kinds
<1> HIDE DEF x, y
<1>3. /\ DOMAIN cmds = 1..Len(cmds) /\ Len(cmds) \in Nat
      /\ DOMAIN cmds' = 1..(Len(cmds) + 1)
      /\ \A i \in DOMAIN cmds : cmds'[i] = cmds[i]
      /\ cmds'[Len(cmds) + 1] = x
  BY <1>2 DEF x
<1>4. (\E i \in DOMAIN cmds' : cmds'[i] = y) <=> (\E i \in DOMAIN cmds : cmds[i] = y) \/ x = y
  BY <1>3
<1>5. inQueue(j, d)' <=> inQueue(j, d) \/ (j = k /\ d = c)
  BY <1>1, <1>4 DEF inQueue, y, command
<1>6. ASSUME once(j, d), ~(x = y /\ \E i \in DOMAIN cmds : cmds[i] = y),
             NEW m \in DOMAIN cmds', NEW n \in DOMAIN cmds', cmds'[m] = y, cmds'[n] = y
      PROVE  m = n
  <2>1. \A p, q \in DOMAIN cmds : cmds[p] = y /\ cmds[q] = y => p = q
    BY <1>6 DEF once, y
  <2> QED
    BY <1>3, <1>6, <2>1
<1>7. once(j, d) /\ ~(x = y /\ \E i \in DOMAIN cmds : cmds[i] = y) => once(j, d)'
  BY <1>6 DEF once, y, command
<1> QED
  BY <1>1, <1>5, <1>7 DEF inQueue, y

(* A received command was in the queue and leaves the others there. *)
LEMMA Received ==
    ASSUME QueueOK, NEW k \in Kinds, NEW c \in Conns, receive(k, c),
           NEW j \in Kinds, NEW d \in Conns
    PROVE  /\ inQueue(k, c)
           /\ inQueue(j, d)' => inQueue(j, d)
           /\ inQueue(j, d) /\ ~(j = k /\ d = c) => inQueue(j, d)'
           /\ once(j, d) => once(j, d)'
           /\ once(k, c) => ~inQueue(k, c)'
<1> DEFINE x == command(k, c)
           y == command(j, d)
<1>1. x = y <=> j = k /\ d = c
  BY DEF command
<1> HIDE DEF x, y
<1>2. cmds \in Seq(Command) /\ cmds # << >> /\ Head(cmds) = x /\ cmds' = Tail(cmds)
  BY DEF QueueOK, receive, x
<1>3. /\ DOMAIN cmds = 1..Len(cmds) /\ Len(cmds) \in Nat \ {0}
      /\ DOMAIN cmds' = 1..(Len(cmds) - 1)
      /\ \A i \in DOMAIN cmds' : cmds'[i] = cmds[i + 1]
      /\ cmds[1] = x
  BY <1>2
<1>4. \E i \in DOMAIN cmds : cmds[i] = x
  BY <1>3
<1>5. (\E i \in DOMAIN cmds' : cmds'[i] = y) => (\E i \in DOMAIN cmds : cmds[i] = y)
  BY <1>3
<1>6. ASSUME NEW i \in DOMAIN cmds, cmds[i] = y, x # y
      PROVE  \E n \in DOMAIN cmds' : cmds'[n] = y
  <2>1. i # 1 /\ i - 1 \in DOMAIN cmds'
    BY <1>3, <1>6
  <2>2. cmds'[i - 1] = cmds[i - 1 + 1] /\ i - 1 + 1 = i
    BY <1>3, <2>1
  <2> QED
    BY <1>6, <2>1, <2>2
<1>7. once(j, d) => once(j, d)'
  <2> SUFFICES ASSUME once(j, d), NEW m \in DOMAIN cmds', NEW n \in DOMAIN cmds',
                      cmds'[m] = y, cmds'[n] = y
               PROVE  m = n
    BY DEF once, y, command
  <2>1. /\ m + 1 \in DOMAIN cmds /\ cmds[m + 1] = y
        /\ n + 1 \in DOMAIN cmds /\ cmds[n + 1] = y
    BY <1>3
  <2>2. m + 1 = n + 1
    BY <2>1 DEF once, y
  <2> QED
    BY <1>3, <2>2
<1>8. once(k, c) => ~\E i \in DOMAIN cmds' : cmds'[i] = x
  <2> SUFFICES ASSUME once(k, c), NEW i \in DOMAIN cmds', cmds'[i] = x PROVE FALSE
    OBVIOUS
  <2>1. 1 \in DOMAIN cmds /\ i + 1 \in DOMAIN cmds /\ cmds[i + 1] = x
    BY <1>3
  <2>2. 1 = i + 1
    BY <1>3, <2>1 DEF once, x
  <2> QED
    BY <1>3, <2>2
<1> QED
  BY <1>1, <1>4, <1>5, <1>6, <1>7, <1>8 DEF inQueue, x, y, command

-----------------------------------------------------------------------------
(* A subscriber channel has one owner. *)

Owner(c) ==
    /\ player = c => ~closed[c] /\ ~inQueue("subscribe", c)
    /\ inQueue("subscribe", c) => ~closed[c]
    /\ once("subscribe", c)
    /\ player = c => life = "live"
    /\ phase[c] # "new" => closed[c] \/ player = c \/ inQueue("subscribe", c)
    /\ phase[c] = "new" => ~closed[c] /\ player # c /\ ~inQueue("subscribe", c)

Owners == \A c \in Conns : Owner(c)

(* A step that touches neither channels nor subscriptions. *)
LEMMA OwnerFrame ==
    ASSUME Owners,
           UNCHANGED <<closed, player, life>>,
           \A c \in Conns : phase'[c] = "new" <=> phase[c] = "new",
           \A c \in Conns : inQueue("subscribe", c)' <=> inQueue("subscribe", c),
           \A c \in Conns : once("subscribe", c) => once("subscribe", c)'
    PROVE  Owners'
BY DEF Owners, Owner

LEMMA OwnerQuiet ==
    ASSUME Owners, UNCHANGED <<closed, player, cmds, life>>,
           \A c \in Conns : phase'[c] = "new" <=> phase[c] = "new"
    PROVE  Owners'
<1>1. \A c \in Conns : /\ inQueue("subscribe", c)' <=> inQueue("subscribe", c)
                       /\ once("subscribe", c)' <=> once("subscribe", c)
  BY DEF inQueue, once, command
<1> QED
  BY <1>1, OwnerFrame

LEMMA OwnerSent ==
    ASSUME TypeOK, Owners, NEW k \in {"unsubscribe", "play"}, NEW c \in Conns,
           cmds' = Append(cmds, command(k, c)) \/ cmds' = cmds,
           UNCHANGED <<closed, player, life>>,
           \A d \in Conns : phase'[d] = "new" <=> phase[d] = "new"
    PROVE  Owners'
<1>1. CASE cmds' = cmds
  BY <1>1, OwnerQuiet
<1>2. CASE cmds' = Append(cmds, command(k, c))
  <2>1. \A d \in Conns : /\ inQueue("subscribe", d)' <=> inQueue("subscribe", d)
                         /\ once("subscribe", d) => once("subscribe", d)'
    BY <1>2, Sent, Parts DEF Kinds
  <2> QED
    BY <2>1, OwnerFrame
<1> QED
  BY <1>1, <1>2

LEMMA OwnerSubscribes ==
    ASSUME TypeOK, Owners, NEW c \in Conns, Subscribe(c)
    PROVE  Owners'
<1>1. ASSUME NEW d \in Conns
      PROVE  /\ inQueue("subscribe", d)' <=> inQueue("subscribe", d) \/ d = c
             /\ once("subscribe", d) /\ ~(d = c /\ inQueue("subscribe", c)) => once("subscribe", d)'
  <2>1. cmds' = Append(cmds, command("subscribe", c))
    BY DEF Subscribe, sends
  <2> QED
    BY <2>1, Sent, Parts DEF Kinds
<1>2. ~inQueue("subscribe", c)
  BY DEF Owners, Owner, Subscribe
<1>3. \A d \in Conns : phase'[d] = IF d = c THEN "upgrading" ELSE phase[d]
  BY Parts DEF Subscribe, GoroutinesOK
<1>4. UNCHANGED <<closed, player, life>> /\ phase[c] = "new"
  BY DEF Subscribe, channels
<1> QED
  BY <1>1, <1>2, <1>3, <1>4 DEF Owners, Owner

LEMMA OwnerCommands ==
    ASSUME TypeOK, Owners, HandleCommand
    PROVE  Owners'
<1>1. PICK c \in Conns : HandleSubscribe(c) \/ HandleUnsubscribe(c) \/ HandlePlay(c)
  BY DEF HandleCommand
<1>2. phase' = phase
  BY <1>1 DEF HandleSubscribe, HandleUnsubscribe, HandlePlay, goroutinesOf
<1>3. CASE HandleSubscribe(c)
  <2>1. ASSUME NEW d \in Conns
        PROVE  /\ inQueue("subscribe", c)
               /\ inQueue("subscribe", d)' => inQueue("subscribe", d)
               /\ inQueue("subscribe", d) /\ d # c => inQueue("subscribe", d)'
               /\ once("subscribe", d) => once("subscribe", d)'
               /\ once("subscribe", c) => ~inQueue("subscribe", c)'
    BY <1>3, Received, Parts DEF Kinds, HandleSubscribe
  <2>2. /\ player' = c /\ life' = "live"
        /\ \A d \in Conns : closed'[d] <=> closed[d] \/ d = player
    BY <1>3 DEF HandleSubscribe, receive, replace
  <2> QED
    BY <1>2, <2>1, <2>2 DEF Owners, Owner
<1>4. CASE HandleUnsubscribe(c)
  <2>1. ASSUME NEW d \in Conns
        PROVE  /\ inQueue("subscribe", d)' <=> inQueue("subscribe", d)
               /\ once("subscribe", d) => once("subscribe", d)'
    BY <1>4, Received, Parts DEF Kinds, HandleUnsubscribe
  <2>2. player' = None /\ \A d \in Conns : closed'[d] <=> closed[d] \/ d = player
    BY <1>4 DEF HandleUnsubscribe, closeSeat
  <2> QED
    BY <1>2, <2>1, <2>2, NoneAssumption DEF Owners, Owner
<1>5. CASE HandlePlay(c)
  <2>1. ASSUME NEW d \in Conns
        PROVE  /\ inQueue("subscribe", d)' <=> inQueue("subscribe", d)
               /\ once("subscribe", d) => once("subscribe", d)'
    BY <1>5, Received, Parts DEF Kinds, HandlePlay
  <2>2. UNCHANGED <<closed, player, life>>
    BY <1>5 DEF HandlePlay
  <2> QED
    BY <1>2, <2>1, <2>2, OwnerFrame
<1> QED
  BY <1>1, <1>3, <1>4, <1>5

LEMMA OwnerEnds ==
    ASSUME TypeOK, Owners, NEW failing \in BOOLEAN, SessionEnds(failing)
    PROVE  Owners'
<1>1. \A c \in Conns : ~inQueue("subscribe", c)' /\ once("subscribe", c)'
  BY DEF SessionEnds, inQueue, once
<1>2. /\ player' = None /\ phase' = phase
      /\ \A c \in Conns : closed'[c] <=> closed[c] \/ c = player \/ inQueue("subscribe", c)
  BY DEF SessionEnds
<1> QED
  BY <1>1, <1>2, NoneAssumption DEF Owners, Owner

LEMMA OwnerLeaves ==
    ASSUME Owners, DoneCloses
    PROVE  Owners'
<1>1. \A c \in Conns : /\ inQueue("subscribe", c)' <=> inQueue("subscribe", c)
                       /\ once("subscribe", c)' <=> once("subscribe", c)
  BY DEF DoneCloses, inQueue, once, command
<1>2. UNCHANGED <<closed, player, phase>> /\ life = "leaving"
  BY DEF DoneCloses, channels
<1> QED
  BY <1>1, <1>2 DEF Owners, Owner

LEMMA OwnerStep ==
    ASSUME TypeOK, Owners, [Next]_vars
    PROVE  Owners'
<1>1. ASSUME NEW c \in Conns, Handler(c) PROVE Owners'
  <2>1. CASE Accept(c)
    <3>1. \A d \in Conns : phase'[d] = "new" <=> phase[d] = "new"
      BY <2>1, Parts DEF Accept, GoroutinesOK
    <3> QED
      BY <2>1, <3>1, OwnerQuiet DEF Accept, channels, session
  <2>2. CASE AcceptFails(c) \/ Leave(c)
    <3>1. \A d \in Conns : phase'[d] = "new" <=> phase[d] = "new"
      BY <2>2, Parts DEF AcceptFails, Leave, GoroutinesOK
    <3>2. /\ UNCHANGED <<closed, player, life>>
          /\ cmds' = Append(cmds, command("unsubscribe", c)) \/ cmds' = cmds
      BY <2>2 DEF AcceptFails, Leave, unsubscribe, sends, channels
    <3> QED
      BY <3>1, <3>2, OwnerSent
  <2> QED
    BY <1>1, <2>1, <2>2, OwnerSubscribes DEF Handler
<1>2. ASSUME NEW c \in Conns, Reader(c) PROVE Owners'
  <2>1. CASE ReadMessage(c)
    <3>1. /\ UNCHANGED <<closed, player, life, phase>>
          /\ cmds' = Append(cmds, command("play", c)) \/ cmds' = cmds
      BY <2>1 DEF ReadMessage, sends, channels
    <3> QED
      BY <3>1, OwnerSent
  <2> QED
    BY <1>2, <2>1, OwnerQuiet DEF Reader, ReadFails, PutReply, ReplyCancelled, channels, session
<1>3. ASSUME NEW c \in Conns, Writer(c) PROVE Owners'
  BY <1>3, OwnerQuiet
     DEF Writer, WriteSnapshot, SubscriptionEnds, WriteReply, WriterCancelled, channels, session
<1>4. Outside => Owners'
  BY OwnerQuiet DEF Outside, Broadcast, ClientCloses, GoingAway, ShutdownBegins, goroutinesOf,
                    channels, session
<1>5. UNCHANGED vars => Owners'
  BY OwnerQuiet DEF vars, goroutinesOf, channels, session
<1> QED
  BY <1>1, <1>2, <1>3, <1>4, <1>5, OwnerCommands, OwnerEnds, OwnerLeaves DEF Next, Outside

(* No interleaving of reconnects, disconnects, failed upgrades and the end of
   the session makes subscribers.go close a channel twice or send on a closed
   one.  A channel that nobody will close is one whose subscription has come
   after drainCmds: the session loses none it has taken. *)
THEOREM OneOwner == Spec => []ChannelsHaveOneOwner
<1>1. Init => Owners
  <2> SUFFICES ASSUME Init, NEW c \in Conns PROVE Owner(c)
    BY DEF Owners
  <2>1. phase[c] = "new" /\ closed[c] = FALSE /\ player # c
    BY NoneAssumption DEF Init
  <2>2. ~inQueue("subscribe", c) /\ once("subscribe", c)
    BY DEF Init, inQueue, once
  <2> QED
    BY <2>1, <2>2 DEF Owner
<1>2. Owners => ChannelsHaveOneOwner
  BY DEF Owners, Owner, ChannelsHaveOneOwner, stranded, once
<1> QED
  BY <1>1, <1>2, TypeCorrect, OwnerStep, PTL DEF Spec

-----------------------------------------------------------------------------
(* A paused game is watched. *)

(* Only a reader of a running connection waits for an answer, and no play
   outlives drainCmds in the queue. *)
Player(c) ==
    /\ inQueue("play", c) => reader[c] = "submit" /\ life = "live"
    /\ once("play", c)
    /\ reader[c] \in {"read", "submit", "reply"} => phase[c] = "running"

Players == \A c \in Conns : Player(c)

LEMMA PlayerStep ==
    ASSUME TypeOK, Players, [Next]_vars
    PROVE  Players'
<1>1. ASSUME UNCHANGED cmds
      PROVE  \A c \in Conns : /\ inQueue("play", c)' <=> inQueue("play", c)
                              /\ once("play", c)' <=> once("play", c)
  BY <1>1 DEF inQueue, once, command
<1>2. ASSUME NEW c \in Conns, NEW k \in {"subscribe", "unsubscribe"},
             cmds' = Append(cmds, command(k, c)) \/ cmds' = cmds
      PROVE  \A d \in Conns : /\ inQueue("play", d)' <=> inQueue("play", d)
                              /\ once("play", d) => once("play", d)'
  <2>1. CASE cmds' = Append(cmds, command(k, c))
    BY <2>1, Sent, Parts DEF Kinds
  <2> QED
    BY <1>1, <1>2, <2>1
<1>3. ASSUME NEW c \in Conns, Handler(c) PROVE Players'
  <2>1. \A d \in Conns : /\ inQueue("play", d)' <=> inQueue("play", d)
                         /\ once("play", d) => once("play", d)'
    BY <1>2, <1>3, <1>1
       DEF Handler, Subscribe, Accept, AcceptFails, Leave, unsubscribe, sends, session
  <2>2. /\ life' = life
        /\ \A d \in Conns : d # c => reader'[d] = reader[d] /\ phase'[d] = phase[d]
    BY <1>3, Parts DEF Handler, Subscribe, Accept, AcceptFails, Leave, GoroutinesOK, session
  <2>3. CASE Accept(c)
    <3>1. reader[c] \notin {"read", "submit", "reply"}
      BY <2>3 DEF Accept, Players, Player
    <3>2. reader'[c] = "read" /\ phase'[c] = "running"
      BY <2>3, Parts DEF Accept, GoroutinesOK
    <3> QED
      BY <2>1, <2>2, <3>1, <3>2 DEF Players, Player
  <2>4. CASE Subscribe(c) \/ AcceptFails(c) \/ Leave(c)
    <3>1. reader[c] \notin {"read", "submit", "reply"} /\ reader'[c] = reader[c]
      BY <2>4 DEF Subscribe, AcceptFails, Leave, Players, Player
    <3> QED
      BY <2>1, <2>2, <3>1 DEF Players, Player
  <2> QED
    BY <1>3, <2>3, <2>4 DEF Handler
<1>4. ASSUME NEW c \in Conns, Reader(c) PROVE Players'
  <2>1. /\ life' = life
        /\ \A d \in Conns : (d # c => reader'[d] = reader[d]) /\ phase'[d] = phase[d]
    BY <1>4, Parts
       DEF Reader, ReadMessage, ReadFails, PutReply, ReplyCancelled, readerMoves, readerReplies,
           GoroutinesOK, session
  <2>2. phase[c] = "running" /\ reader[c] # "submit" /\ ~inQueue("play", c)
    BY <1>4 DEF Reader, ReadMessage, ReadFails, PutReply, ReplyCancelled, Players, Player
  <2>3. CASE /\ cmds' = Append(cmds, command("play", c)) /\ life = "live"
             /\ reader' = [reader EXCEPT ![c] = "submit"]
    <3>1. \A d \in Conns : /\ inQueue("play", d)' <=> inQueue("play", d) \/ d = c
                           /\ once("play", d) => once("play", d)'
      BY <2>2, <2>3, Sent, Parts DEF Kinds
    <3>2. reader'[c] = "submit"
      BY <2>3, Parts DEF GoroutinesOK
    <3> QED
      BY <2>1, <2>2, <2>3, <3>1, <3>2 DEF Players, Player
  <2>4. CASE cmds' = cmds
    BY <1>1, <2>1, <2>2, <2>4 DEF Players, Player
  <2> QED
    BY <1>4, <2>3, <2>4
       DEF Reader, ReadMessage, ReadFails, PutReply, ReplyCancelled, readerMoves, sends, session
<1>5. ASSUME UNCHANGED <<cmds, phase, reader, life>> PROVE Players'
  BY <1>1, <1>5 DEF Players, Player
<1>6. ASSUME NEW c \in Conns, Writer(c) PROVE Players'
  BY <1>5, <1>6
     DEF Writer, WriteSnapshot, SubscriptionEnds, WriteReply, WriterCancelled, session
<1>7. ASSUME NEW c \in Conns, HandleSubscribe(c) \/ HandleUnsubscribe(c) PROVE Players'
  <2>1. PICK k \in {"subscribe", "unsubscribe"} : receive(k, c)
    BY <1>7 DEF HandleSubscribe, HandleUnsubscribe
  <2>2. \A d \in Conns : /\ inQueue("play", d)' => inQueue("play", d)
                         /\ once("play", d) => once("play", d)'
    BY <2>1, Received, Parts DEF Kinds
  <2>3. UNCHANGED <<phase, reader, life>>
    BY <1>7 DEF HandleSubscribe, HandleUnsubscribe, goroutinesOf
  <2> QED
    BY <2>2, <2>3 DEF Players, Player
<1>8. ASSUME NEW c \in Conns, HandlePlay(c) PROVE Players'
  <2>1. \A d \in Conns : /\ inQueue("play", c)
                         /\ inQueue("play", d)' => inQueue("play", d)
                         /\ once("play", d) => once("play", d)'
                         /\ once("play", c) => ~inQueue("play", c)'
    BY <1>8, Received, Parts DEF Kinds, HandlePlay
  <2>2. /\ phase' = phase /\ life' = life
        /\ \A d \in Conns : d # c => reader'[d] = reader[d]
    BY <1>8, Parts DEF HandlePlay, readerReplies, readerMoves, GoroutinesOK
  <2>3. phase[c] = "running"
    BY <2>1 DEF Players, Player
  <2> QED
    BY <2>1, <2>2, <2>3 DEF Players, Player
<1>9. ASSUME NEW failing \in BOOLEAN, SessionEnds(failing) PROVE Players'
  <2>1. \A c \in Conns : ~inQueue("play", c)' /\ once("play", c)'
    BY <1>9 DEF SessionEnds, inQueue, once
  <2> QED
    BY <1>9, <2>1 DEF SessionEnds, answerAll, Players, Player
<1>10. DoneCloses => Players'
  <2> SUFFICES ASSUME DoneCloses PROVE Players'
    OBVIOUS
  <2>1. \A c \in Conns : ~inQueue("play", c)' /\ once("play", c)'
    BY <1>1 DEF DoneCloses, Players, Player
  <2> QED
    BY <2>1 DEF DoneCloses, answerAll, Players, Player
<1>11. Outside => Players'
  BY <1>5 DEF Outside, Broadcast, ClientCloses, GoingAway, ShutdownBegins, goroutinesOf, session
<1>12. UNCHANGED vars => Players'
  BY <1>5 DEF vars, goroutinesOf, session
<1> QED
  BY <1>3, <1>4, <1>6, <1>7, <1>8, <1>9, <1>10, <1>11, <1>12 DEF Next, Outside, HandleCommand

(* Somebody of the seat is there, or about to tell that they are not. *)
Watched == \E c \in Conns : phase[c] = "running" \/ inQueue("unsubscribe", c)

(* An unsubscribe that is not dropped is in the queue. *)
LEMMA UnsubscribeWatches ==
    ASSUME TypeOK, NEW c \in Conns, unsubscribe(c), life = "live", ~dropped'
    PROVE  inQueue("unsubscribe", c)' /\ ~dropped
<1>1. hasRoom /\ ~dropped
  BY DEF unsubscribe
<1>2. cmds' = Append(cmds, command("unsubscribe", c))
  BY <1>1 DEF unsubscribe, sends
<1> QED
  BY <1>1, <1>2, Sent, Parts DEF Kinds

LEMMA WatchedStep ==
    ASSUME TypeOK, Players, PausedGameIsWatched, [Next]_vars
    PROVE  PausedGameIsWatched'
<1> SUFFICES ASSUME paused', life' = "live", ~dropped' PROVE Watched'
  BY DEF PausedGameIsWatched, Watched
<1> USE DEF Watched
<1>1. UNCHANGED <<paused, life, dropped>> => Watched
  <2> SUFFICES ASSUME paused' = paused, life' = life, dropped' = dropped PROVE Watched
    OBVIOUS
  <2>1. paused /\ life = "live" /\ ~dropped
    OBVIOUS
  <2> QED
    BY <2>1 DEF PausedGameIsWatched
<1>2. ASSUME UNCHANGED cmds
      PROVE  \A c \in Conns : inQueue("unsubscribe", c)' <=> inQueue("unsubscribe", c)
  BY <1>2 DEF inQueue, command
<1>3. ASSUME NEW c \in Conns, NEW k \in Kinds,
             cmds' = Append(cmds, command(k, c)) \/ cmds' = cmds
      PROVE  \A d \in Conns : inQueue("unsubscribe", d) => inQueue("unsubscribe", d)'
  BY <1>2, <1>3, Sent, Parts DEF Kinds
<1>4. ASSUME UNCHANGED <<phase, cmds, paused, life, dropped>> PROVE Watched'
  <2>1. Watched /\ phase' = phase
    BY <1>1, <1>4
  <2> QED
    BY <1>2, <1>4, <2>1
<1>5. ASSUME NEW c \in Conns, Handler(c) PROVE Watched'
  <2>1. ASSUME phase[c] # "running", UNCHANGED <<paused, life, dropped>>,
               \A d \in Conns \ {c} : phase'[d] = phase[d],
               \A d \in Conns : inQueue("unsubscribe", d) => inQueue("unsubscribe", d)'
        PROVE  Watched'
    BY <2>1 DEF PausedGameIsWatched
  <2>2. \A d \in Conns \ {c} : phase'[d] = phase[d]
    BY <1>5, Parts DEF Handler, Subscribe, Accept, AcceptFails, Leave, GoroutinesOK
  <2>3. CASE Subscribe(c)
    <3>1. \A d \in Conns : inQueue("unsubscribe", d) => inQueue("unsubscribe", d)'
      BY <2>3, <1>3 DEF Subscribe, sends, Kinds
    <3> QED
      BY <2>1, <2>2, <2>3, <3>1 DEF Subscribe
  <2>4. CASE Accept(c)
    BY <2>4, Parts DEF Accept, GoroutinesOK
  <2>5. CASE AcceptFails(c) \/ Leave(c)
    <3>1. unsubscribe(c) /\ life' = life
      BY <2>5 DEF AcceptFails, Leave
    <3>2. life = "live"
      BY <3>1
    <3> QED
      BY <3>1, <3>2, UnsubscribeWatches
  <2> QED
    BY <1>5, <2>3, <2>4, <2>5 DEF Handler
<1>6. ASSUME NEW c \in Conns, Reader(c) PROVE Watched'
  <2>1. CASE ReadMessage(c)
    <3>1. \A d \in Conns : inQueue("unsubscribe", d) => inQueue("unsubscribe", d)'
      BY <2>1, <1>3 DEF ReadMessage, sends, Kinds
    <3>2. UNCHANGED <<phase, paused, life, dropped>>
      BY <2>1 DEF ReadMessage
    <3> QED
      BY <3>1, <3>2 DEF PausedGameIsWatched
  <2> QED
    BY <1>4, <1>6, <2>1 DEF Reader, ReadFails, PutReply, ReplyCancelled, session
<1>7. ASSUME NEW c \in Conns, Writer(c) PROVE Watched'
  BY <1>4, <1>7
     DEF Writer, WriteSnapshot, SubscriptionEnds, WriteReply, WriterCancelled, session
<1>8. ASSUME NEW c \in Conns, HandleSubscribe(c) PROVE Watched'
  <2>1. \A d \in Conns : inQueue("unsubscribe", d) => inQueue("unsubscribe", d)'
    BY <1>8, Received, Parts DEF Kinds, HandleSubscribe
  <2>2. UNCHANGED <<phase, paused, life, dropped>>
    BY <1>8 DEF HandleSubscribe, goroutinesOf
  <2> QED
    BY <2>1, <2>2 DEF PausedGameIsWatched
<1>9. ASSUME NEW c \in Conns, HandleUnsubscribe(c) PROVE Watched'
  BY <1>9 DEF HandleUnsubscribe
<1>10. ASSUME NEW c \in Conns, HandlePlay(c) PROVE Watched'
  <2>1. inQueue("play", c)
    BY <1>10, Received, Parts DEF Kinds, HandlePlay
  <2>2. phase[c] = "running" /\ phase' = phase
    BY <1>10, <2>1 DEF Players, Player, HandlePlay
  <2> QED
    BY <2>2
<1>11. ASSUME NEW failing \in BOOLEAN, SessionEnds(failing) PROVE Watched'
  BY <1>11 DEF SessionEnds
<1>12. DoneCloses => Watched'
  BY DEF DoneCloses
<1>13. Outside => Watched'
  BY <1>4 DEF Outside, Broadcast, ClientCloses, GoingAway, ShutdownBegins, goroutinesOf, session
<1>14. UNCHANGED vars => Watched'
  BY <1>4 DEF vars, goroutinesOf, session
<1> QED
  BY <1>5, <1>6, <1>7, <1>8, <1>9, <1>10, <1>11, <1>12, <1>13, <1>14
     DEF Next, Outside, HandleCommand

(* A game that a player has paused and then lost, whatever became of the
   connection that paused it, is resumed by an unsubscribe that is queued,
   unless the queue was full. *)
THEOREM SomebodyWatches == Spec => []PausedGameIsWatched
<1>1. Init => Players
  <2> SUFFICES ASSUME Init, NEW c \in Conns PROVE Player(c)
    BY DEF Players
  <2>1. reader[c] = "off"
    BY DEF Init
  <2>2. ~inQueue("play", c) /\ once("play", c)
    BY DEF Init, inQueue, once
  <2> QED
    BY <2>1, <2>2 DEF Player
<1>2. Init => PausedGameIsWatched
  BY DEF Init, PausedGameIsWatched
<1> QED
  BY <1>1, <1>2, TypeCorrect, PlayerStep, WatchedStep, PTL DEF Spec
=============================================================================
