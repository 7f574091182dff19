-------------------------- MODULE PlayerConnection --------------------------
(***************************************************************************)
(* The WebSocket connections of one player's seat: the handler that        *)
(* subscribes and upgrades, the reader and writer goroutines of            *)
(* internal/server/transport/ws_player.go, the tail of run that            *)
(* unsubscribes, and the session goroutine at the other end of the         *)
(* channels, reduced to what it does with subscriber channels, commands    *)
(* and a pause.  SessionLoop has the rest of it.                           *)
(*                                                                         *)
(* Connections of one seat overlap: a client reconnects before the server  *)
(* has seen its old connection end.  Contents of messages are abstracted;  *)
(* "fail" is the close code a marshal failure sends.                       *)
(***************************************************************************)
EXTENDS Naturals, Sequences

CONSTANTS
    Conns,        \* connections of the seat
    None,
    cmdChanSize,  \* capacity of the session's command channel
    subChanSize,  \* capacity of a subscriber channel
    outChSize,    \* capacity of outCh
    ShutsDown     \* TRUE iff the server may be told to stop

ASSUME NoneAssumption == None \notin Conns

ASSUME SizeAssumption == {cmdChanSize, subChanSize, outChSize} \subseteq Nat \ {0}

ASSUME ShutdownAssumption == ShutsDown \in BOOLEAN

VARIABLES
    phase,     \* conn -> where the handler and run are
    reader,    \* conn -> the reader goroutine
    writer,    \* conn -> the writer goroutine
    done,      \* conn -> the context of run is cancelled
    ws,        \* conn -> the WebSocket, or what closed it
    replies,   \* conn -> replies the reader has yet to put on outCh
    outCh,     \* conn -> number of messages on outCh
    subCh,     \* conn -> messages on the subscriber channel
    closed,    \* conn -> the subscriber channel is closed
    cmds,      \* the session's command channel
    player,    \* the connection registered for the seat
    paused,    \* the seat has paused the game
    life,      \* the session's goroutine: reading commands, past drainCmds, gone
    dropped,   \* an unsubscribe found the command channel full
    closing    \* Shutdown has begun

goroutinesOf == <<phase, reader, writer, done>>
wires        == <<ws, replies, outCh>>
channels     == <<subCh, closed, player>>
session      == <<cmds, paused, life>>
vars == <<goroutinesOf, wires, channels, session, dropped, closing>>

Command == [kind : {"subscribe", "unsubscribe", "play"}, conn : Conns]

command(k, c) == [kind |-> k, conn |-> c]

inQueue(k, c) == \E i \in DOMAIN cmds : cmds[i] = command(k, c)

hasRoom == Len(cmds) < cmdChanSize

(* A Manager method gets its command into the channel.  It has looked at the
   entry of the session, which onDone closes at some time after the end began;
   nobody may be left to read the command. *)
sends(k, c) == hasRoom /\ cmds' = Append(cmds, command(k, c))

cancel(c) == done' = [done EXCEPT ![c] = TRUE]

(* The first close of a WebSocket counts. *)
wsClose(c, why) == ws' = [ws EXCEPT ![c] = IF @ = "open" THEN why ELSE @]

-----------------------------------------------------------------------------
(* handlePlayerWS. *)

Subscribe(c) ==
    /\ phase[c] = "new"
    /\ sends("subscribe", c)
    /\ phase' = [phase EXCEPT ![c] = "upgrading"]
    /\ UNCHANGED <<reader, writer, done, wires, channels, paused, life, dropped, closing>>

(* A connection accepted after Shutdown began closes itself. *)
Accept(c) ==
    /\ phase[c] = "upgrading"
    /\ phase' = [phase EXCEPT ![c] = "running"]
    /\ reader' = [reader EXCEPT ![c] = "read"]
    /\ writer' = [writer EXCEPT ![c] = "select"]
    /\ ws' = [ws EXCEPT ![c] = IF closing THEN "goingAway" ELSE "open"]
    /\ UNCHANGED <<done, replies, outCh, channels, session, dropped, closing>>

unsubscribeUnlessPaused(c) == \* mutant: a paused game keeps its subscriber
    /\ \/ life = "live" /\ ~paused /\ sends("unsubscribe", c)
       \/ (life # "live" \/ paused \/ ~hasRoom) /\ UNCHANGED cmds
    /\ dropped' = (dropped \/ (life = "live" /\ ~hasRoom))

(* UnsubscribePlayer; its error is only logged.  When the goroutine has left
   the queue it is the same whether the command is refused or sent. *)
unsubscribe(c) ==
    /\ \/ life = "live" /\ sends("unsubscribe", c)
       \/ (life # "live" \/ ~hasRoom) /\ UNCHANGED cmds
    /\ dropped' = (dropped \/ (life = "live" /\ ~hasRoom))

AcceptFails(c) ==
    /\ phase[c] = "upgrading"
    /\ phase' = [phase EXCEPT ![c] = "gone"]
    /\ unsubscribe(c)
    /\ UNCHANGED <<reader, writer, done, wires, channels, paused, life, closing>>

(* The tail of run, once both goroutines are gone. *)
Leave(c) ==
    /\ phase[c] = "running"
    /\ reader[c] = "gone" /\ writer[c] = "gone"
    /\ phase' = [phase EXCEPT ![c] = "gone"]
    /\ unsubscribe(c)
    /\ IF closing THEN UNCHANGED ws ELSE wsClose(c, "normal")
    /\ UNCHANGED <<reader, writer, done, replies, outCh, channels, paused, life, closing>>

-----------------------------------------------------------------------------
(* The reader. *)

readerMoves(c, to) == reader' = [reader EXCEPT ![c] = to]

(* n replies are waiting for outCh. *)
readerReplies(c, n) ==
    /\ replies' = [replies EXCEPT ![c] = n]
    /\ readerMoves(c, IF n = 0 THEN "read" ELSE "reply")

(* A command goes to the session; a malformed one, or one that SubmitAction
   refuses, is answered with an error, and so is one sent after done. *)
ReadMessage(c) ==
    /\ reader[c] = "read"
    /\ ws[c] = "open" /\ ~done[c]
    /\ \/ life = "live" /\ sends("play", c) /\ readerMoves(c, "submit") /\ UNCHANGED replies
       \/ life = "leaving" /\ readerMoves(c, "submit") /\ UNCHANGED <<cmds, replies>>
       \/ readerReplies(c, 1) /\ UNCHANGED cmds
    /\ UNCHANGED <<phase, writer, done, ws, outCh, channels, paused, life, dropped,
                   closing>>

(* The WebSocket is closed, the context cancelled or the message undecodable. *)
ReadFails(c) ==
    /\ reader[c] = "read"
    /\ readerMoves(c, "gone")
    /\ cancel(c)
    /\ UNCHANGED <<phase, writer, wires, channels, session, dropped, closing>>

PutReply(c) ==
    /\ reader[c] = "reply"
    /\ outCh[c] < outChSize
    /\ outCh' = [outCh EXCEPT ![c] = @ + 1]
    /\ readerReplies(c, replies[c] - 1)
    /\ UNCHANGED <<phase, writer, done, ws, channels, session, dropped, closing>>

neverGivesUp(c) == FALSE \* mutant: the send on outCh does not watch the context

givesUp(c) == done[c]

ReplyCancelled(c) ==
    /\ reader[c] = "reply"
    /\ givesUp(c)
    /\ readerMoves(c, "gone")
    /\ cancel(c)
    /\ UNCHANGED <<phase, writer, wires, channels, session, dropped, closing>>

-----------------------------------------------------------------------------
(* The writer.  A write fails on a closed WebSocket or a cancelled context. *)

canWrite(c) == ws[c] = "open" /\ ~done[c]

writerStops(c) ==
    /\ writer' = [writer EXCEPT ![c] = "gone"]
    /\ cancel(c)

WriteSnapshot(c) ==
    /\ writer[c] = "select"
    /\ subCh[c] # << >>
    /\ subCh' = [subCh EXCEPT ![c] = Tail(@)]
    /\ \/ /\ Head(subCh[c]) = "fail"
          /\ wsClose(c, "internal")
          /\ writerStops(c)
       \/ /\ Head(subCh[c]) = "data" /\ canWrite(c)
          /\ UNCHANGED <<ws, writer, done>>
       \/ /\ Head(subCh[c]) = "data" /\ ~canWrite(c)
          /\ writerStops(c)
          /\ UNCHANGED ws
    /\ UNCHANGED <<phase, reader, replies, outCh, closed, player, session, dropped, closing>>

(* During a shutdown the reader is left to the close frame that is on its way. *)
SubscriptionEnds(c) ==
    /\ writer[c] = "select"
    /\ subCh[c] = << >> /\ closed[c]
    /\ IF closing
       THEN writer' = [writer EXCEPT ![c] = "gone"] /\ UNCHANGED <<done, ws>>
       ELSE writerStops(c) /\ wsClose(c, "normal")
    /\ UNCHANGED <<phase, reader, replies, outCh, channels, session, dropped, closing>>

WriteReply(c) ==
    /\ writer[c] = "select"
    /\ outCh[c] > 0
    /\ outCh' = [outCh EXCEPT ![c] = @ - 1]
    /\ IF canWrite(c) THEN UNCHANGED <<writer, done>> ELSE writerStops(c)
    /\ UNCHANGED <<phase, reader, ws, replies, channels, session, dropped, closing>>

WriterCancelled(c) ==
    /\ writer[c] = "select"
    /\ done[c]
    /\ writerStops(c)
    /\ UNCHANGED <<phase, reader, wires, channels, session, dropped, closing>>

-----------------------------------------------------------------------------
(* The session's goroutine. *)

(* sendNonBlocking. *)
offered(q, m) == IF Len(q) < subChanSize THEN Append(q, m) ELSE q

broadcast ==
    subCh' = IF player = None THEN subCh ELSE [subCh EXCEPT ![player] = offered(@, "data")]

receive(k, c) ==
    /\ life = "live"
    /\ cmds # << >>
    /\ Head(cmds) = command(k, c)
    /\ cmds' = Tail(cmds)

replaceQuietly(c) == UNCHANGED closed \* mutant: the former channel stays open

replace(c) == closed' = [d \in Conns |-> closed[d] \/ d = player]

HandleSubscribe(c) ==
    /\ receive("subscribe", c)
    /\ replace(c)
    /\ player' = c
    /\ subCh' = [subCh EXCEPT ![c] = offered(@, "data")]
    /\ UNCHANGED <<goroutinesOf, wires, paused, life, dropped, closing>>

(* The command names the seat, so whoever is registered for it is closed. *)
closeSeat(c) == closed' = [d \in Conns |-> closed[d] \/ d = player]

HandleUnsubscribe(c) ==
    /\ receive("unsubscribe", c)
    /\ closeSeat(c)
    /\ player' = None
    /\ paused' = FALSE
    /\ UNCHANGED <<goroutinesOf, wires, subCh, life, dropped, closing>>

(* An accepted command broadcasts, a refused one sends its error there; the
   reply carries nothing, an error, or a snapshot and an error. *)
HandlePlay(c) ==
    /\ receive("play", c)
    /\ \/ broadcast /\ readerReplies(c, 0) /\ paused' \in BOOLEAN
       \/ broadcast /\ readerReplies(c, 1) /\ UNCHANGED paused
       \/ \E n \in {1, 2} : readerReplies(c, n) /\ UNCHANGED <<subCh, paused>>
    /\ UNCHANGED <<phase, writer, done, ws, outCh, closed, player, life, dropped, closing>>

(* An AI turn, a timeout, a transition. *)
Broadcast ==
    /\ life = "live" /\ ~paused
    /\ broadcast
    /\ UNCHANGED <<goroutinesOf, wires, closed, player, session, dropped, closing>>

(* The readers waiting in SubmitAction get an answer. *)
answerAll ==
    /\ reader' = [c \in Conns |-> IF reader[c] = "submit" THEN "reply" ELSE reader[c]]
    /\ replies' = [c \in Conns |-> IF reader[c] = "submit" THEN 1 ELSE replies[c]]

(* The goroutine closes the registered channel, after a close code if a
   snapshot could not be marshaled, and drainCmds answers and closes what is
   queued until it finds the command channel empty. *)
SessionEnds(failing) ==
    /\ life = "live"
    /\ life' = "leaving"
    /\ closed' = [c \in Conns |-> closed[c] \/ c = player \/ inQueue("subscribe", c)]
    /\ IF failing /\ player # None
       THEN subCh' = [subCh EXCEPT ![player] = offered(@, "fail")]
       ELSE UNCHANGED subCh
    /\ player' = None
    /\ cmds' = << >>
    /\ answerAll
    /\ UNCHANGED <<phase, writer, done, ws, outCh, paused, dropped, closing>>

(* run's deferred close of done.  Whoever has sent a command since drainCmds
   looked for the last time sees it; a subscription sent since then has
   succeeded, and its channel stays in the queue. *)
DoneCloses ==
    /\ life = "leaving"
    /\ life' = "over"
    /\ answerAll
    /\ UNCHANGED <<phase, writer, done, ws, outCh, channels, cmds, paused, dropped,
                   closing>>

-----------------------------------------------------------------------------
(* The client, the network and Shutdown. *)

(* Or the network fails, or a write times out. *)
ClientCloses(c) ==
    /\ ws[c] = "open"
    /\ wsClose(c, "client")
    /\ UNCHANGED <<goroutinesOf, replies, outCh, channels, session, dropped, closing>>

ShutdownBegins ==
    /\ ShutsDown /\ ~closing
    /\ closing' = TRUE
    /\ UNCHANGED <<goroutinesOf, wires, channels, session, dropped>>

GoingAway(c) ==
    /\ closing /\ phase[c] = "running"
    /\ ws[c] = "open"
    /\ wsClose(c, "goingAway")
    /\ UNCHANGED <<goroutinesOf, replies, outCh, channels, session, dropped, closing>>

-----------------------------------------------------------------------------
Init ==
    /\ phase = [c \in Conns |-> "new"]
    /\ reader = [c \in Conns |-> "off"]
    /\ writer = [c \in Conns |-> "off"]
    /\ done = [c \in Conns |-> FALSE]
    /\ ws = [c \in Conns |-> "none"]
    /\ replies = [c \in Conns |-> 0]
    /\ outCh = [c \in Conns |-> 0]
    /\ subCh = [c \in Conns |-> << >>]
    /\ closed = [c \in Conns |-> FALSE]
    /\ cmds = << >>
    /\ player = None
    /\ paused = FALSE
    /\ life = "live"
    /\ dropped = FALSE
    /\ closing = FALSE

Handler(c) == Subscribe(c) \/ Accept(c) \/ AcceptFails(c) \/ Leave(c)

Reader(c) == ReadMessage(c) \/ ReadFails(c) \/ PutReply(c) \/ ReplyCancelled(c)

Writer(c) == WriteSnapshot(c) \/ SubscriptionEnds(c) \/ WriteReply(c) \/ WriterCancelled(c)

HandleCommand == \E c \in Conns : HandleSubscribe(c) \/ HandleUnsubscribe(c) \/ HandlePlay(c)

Next ==
    \/ \E c \in Conns : Handler(c) \/ Reader(c) \/ Writer(c)
                       \/ ClientCloses(c) \/ GoingAway(c)
    \/ HandleCommand
    \/ Broadcast
    \/ \E failing \in BOOLEAN : SessionEnds(failing)
    \/ DoneCloses
    \/ ShutdownBegins

Spec == Init /\ [][Next]_vars

(* The goroutines run, the upgrade is answered and Shutdown closes what is
   open.  Go's select chooses at random among its ready cases, so each case of
   the writer that stays ready is taken some day.  Nothing makes a client
   send, read or leave, or a session end. *)
Fairness ==
    /\ \A c \in Conns :
        /\ WF_vars(Accept(c) \/ AcceptFails(c))
        /\ WF_vars((ws[c] # "open" \/ done[c]) /\ ReadFails(c))
        /\ WF_vars(PutReply(c) \/ ReplyCancelled(c))
        /\ WF_vars(WriteSnapshot(c))
        /\ WF_vars(SubscriptionEnds(c))
        /\ WF_vars(WriteReply(c))
        /\ WF_vars(WriterCancelled(c))
        /\ WF_vars(Leave(c))
        /\ WF_vars(GoingAway(c))
    /\ WF_vars(HandleCommand) /\ WF_vars(DoneCloses)

FairSpec == Spec /\ Fairness

-----------------------------------------------------------------------------
(* Properties. *)

(* Every variable has its type, and no channel holds more than its capacity. *)
TypeOK ==
    /\ phase \in [Conns -> {"new", "upgrading", "running", "gone"}]
    /\ reader \in [Conns -> {"off", "read", "submit", "reply", "gone"}]
    /\ writer \in [Conns -> {"off", "select", "gone"}]
    /\ done \in [Conns -> BOOLEAN]
    /\ ws \in [Conns -> {"none", "open", "client", "normal", "internal", "goingAway"}]
    /\ replies \in [Conns -> 0..2]
    /\ outCh \in [Conns -> 0..outChSize]
    /\ subCh \in [Conns -> Seq({"data", "fail"})]
    /\ \A c \in Conns : Len(subCh[c]) <= subChanSize
    /\ closed \in [Conns -> BOOLEAN]
    /\ cmds \in Seq(Command)
    /\ Len(cmds) <= cmdChanSize
    /\ player \in Conns \cup {None}
    /\ life \in {"live", "leaving", "over"}
    /\ {paused, dropped, closing} \subseteq BOOLEAN

(* A subscription nobody will take from the queue any more. *)
stranded(c) == life # "live" /\ inQueue("subscribe", c)

(* A subscriber channel is in one pair of hands, from the command that brings
   it to the one close that ends it: the session never sends on or closes a
   channel that is closed already, which would panic, and it forgets no open
   one: it has registered it or has yet to take it from its queue, and closes
   either when it ends.  Left open for good are the channels of subscriptions
   sent between the last look of drainCmds and the end of the Manager's entry:
   they stay in the queue the goroutine leaves behind. *)
ChannelsHaveOneOwner ==
    \A c \in Conns :
        /\ player = c => ~closed[c] /\ ~inQueue("subscribe", c)
        /\ inQueue("subscribe", c) => ~closed[c]
        /\ \A i, j \in DOMAIN cmds :
            cmds[i] = command("subscribe", c) /\ cmds[j] = command("subscribe", c) => i = j
        /\ phase[c] # "new" =>
            \/ closed[c] \/ stranded(c)
            \/ life = "live" /\ (player = c \/ inQueue("subscribe", c))

(* A paused game is never left to itself: a connection of the seat is running
   or its unsubscribe, which resumes the game, is on its way
   (doc/games/hearts/protocol.md, Auto-resume on disconnect).  The exception
   is an unsubscribe that was refused because the command queue was full. *)
PausedGameIsWatched ==
    paused /\ life = "live" /\ ~dropped =>
        \E c \in Conns : phase[c] = "running" \/ inQueue("unsubscribe", c)

(* A connection whose WebSocket or subscription has ended comes to its end:
   reader and writer let go of each other whatever they are blocked on.  A
   shutdown is excepted: while closing is set the writer leaves without
   cancelling, and a reader that waits for room in outCh then waits for ever. *)
ConnectionEnds ==
    \A c \in Conns :
        phase[c] = "running" /\ (closed[c] \/ ws[c] # "open") ~> phase[c] = "gone" \/ closing

(* A registered connection loses its place to a newer one, to its own end or
   to the session's end ("Second connection per seat: the existing connection
   is closed", doc/api.md). *)
NewestConnectionStays ==
    [][player # None /\ player' = None /\ life' = "live" => phase[player] = "gone"]_vars
=============================================================================
