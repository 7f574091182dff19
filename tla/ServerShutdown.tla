--------------------------- MODULE ServerShutdown ---------------------------
(***************************************************************************)
(* The server process from its start to its exit: Server.Shutdown          *)
(* (internal/server/transport/server.go), the observers' WebSocket         *)
(* handlers it races with (ws_observer.go) and the sessions it deletes.    *)
(* Players register with the same calls; what their reader and writer do   *)
(* to each other is PlayerConnection's subject.                            *)
(*                                                                         *)
(* A WebSocket is the first thing that ended it: the close frame that was  *)
(* sent, the client, a lost client, or the abrupt end that follows when    *)
(* the context of a blocked read is cancelled.  Closing a WebSocket again  *)
(* does nothing.  Once it is closed, pending reads and writes fail.        *)
(*                                                                         *)
(* Assumed of time: the 250 ms Shutdown grants its close goroutines are    *)
(* enough for each to put its frame on the wire, which is what the         *)
(* comment in server.go says of them; the close handshake may take longer. *)
(***************************************************************************)
EXTENDS FiniteSets

CONSTANTS
    Conns,     \* observer connections
    Sessions,  \* session ids
    None       \* no session

ASSUME NoneAssumption == None \notin Sessions

VARIABLES
    up,        \* how far the process is on its way down
    closing,   \* Server.closing
    wsConns,   \* Server.wsConns
    must,      \* connections registered when Range began
    swept,     \* connections Range has visited
    closers,   \* goroutines of the sweep that have not sent their frame
    todo,      \* sessions Shutdown listed and has not deleted yet
    handler,   \* where handleObserverWS, or the goroutine it starts, is
    sid,       \* the session a connection observes
    reader,    \* the CloseRead goroutine
    writer,    \* the writer goroutine
    cancelled, \* the connection's context is cancelled
    frame,     \* what ended the WebSocket
    subCh,     \* the subscription
    sess,      \* the sessions, as their goroutines see them
    late,      \* history: sessions created after Shutdown listed them
    during     \* history: open connections whose subscription ended while closing

sweep   == <<must, swept>>
server  == <<up, closing, sweep, closers, todo>>
goroutines == <<handler, reader, writer, cancelled>>
sessions == <<sess, late>>
vars == <<server, wsConns, goroutines, sid, frame, subCh, sessions, during>>

Frames == {"none", "goingAway", "normal", "internal", "client", "lost", "abrupt"}

alive == up # "exited"

(* Requests are taken until http.Server.Shutdown closes the listener. *)
listening == up \in {"serving", "sweeping", "grace", "deleting"}

say(c, f) == frame' = [frame EXCEPT ![c] = IF @ = "none" THEN f ELSE @]

-----------------------------------------------------------------------------
(* handleObserverWS. *)

observes(c, s) == sid' = [sid EXCEPT ![c] = s]

SubscribeObserver(c) ==
    /\ listening
    /\ handler[c] = "new"
    /\ \E s \in Sessions :
        /\ sess[s] = "active"
        /\ observes(c, s)
    /\ subCh' = [subCh EXCEPT ![c] = "queued"]
    /\ handler' = [handler EXCEPT ![c] = "subscribed"]
    /\ UNCHANGED <<server, wsConns, reader, writer, cancelled, frame, sessions, during>>

Accept(c) ==
    /\ alive
    /\ handler[c] = "subscribed"
    /\ handler' = [handler EXCEPT ![c] = "accepted"]
    /\ UNCHANGED <<server, wsConns, reader, writer, cancelled, sid, frame, subCh, sessions, during>>

AcceptFails(c) ==
    /\ alive
    /\ handler[c] = "subscribed"
    /\ handler' = [handler EXCEPT ![c] = "gone"]
    /\ UNCHANGED <<server, wsConns, reader, writer, cancelled, sid, frame, subCh, sessions, during>>

RegisterWSConn(c) ==
    /\ alive
    /\ handler[c] = "accepted"
    /\ wsConns' = wsConns \cup {c}
    /\ handler' = [handler EXCEPT ![c] = "registered"]
    /\ UNCHANGED <<server, reader, writer, cancelled, sid, frame, subCh, sessions, during>>

noSelfCheck == "running" \* mutant: the goroutine trusts the sweep

(* The goroutine looks at closing after it has registered. *)
selfCheck == IF closing THEN "self" ELSE "running"

StartRun(c) ==
    /\ alive
    /\ handler[c] = "registered"
    /\ handler' = [handler EXCEPT ![c] = selfCheck]
    /\ UNCHANGED <<server, wsConns, reader, writer, cancelled, sid, frame, subCh, sessions, during>>

SelfClose(c) ==
    /\ alive
    /\ handler[c] = "self"
    /\ say(c, "goingAway")
    /\ handler' = [handler EXCEPT ![c] = "running"]
    /\ UNCHANGED <<server, wsConns, reader, writer, cancelled, sid, subCh, sessions, during>>

-----------------------------------------------------------------------------
(* The observer's goroutines: run waits for both of them. *)

runs(c) == alive /\ handler[c] = "running"

(* CloseRead returns when the WebSocket is closed; a cancelled context closes
   an open one abruptly. *)
CloseReaderEnds(c) ==
    /\ runs(c)
    /\ reader[c] = "on"
    /\ frame[c] # "none" \/ cancelled[c]
    /\ say(c, "abrupt")
    /\ reader' = [reader EXCEPT ![c] = "off"]
    /\ UNCHANGED <<server, wsConns, handler, writer, cancelled, sid, subCh, sessions, during>>

writerOff(c, cancels) ==
    /\ writer' = [writer EXCEPT ![c] = "off"]
    /\ cancelled' = [cancelled EXCEPT ![c] = @ \/ cancels]
    /\ UNCHANGED <<server, wsConns, handler, reader, sid, subCh, sessions, during>>

(* A snapshot cannot be written: the WebSocket is closed, or the client took
   nothing for the write timeout. *)
WriteFails(c) ==
    /\ runs(c)
    /\ writer[c] = "on" /\ subCh[c] \in {"open", "broken"}
    /\ say(c, "lost")
    /\ writerOff(c, TRUE)

(* The close code of a snapshot that could not be marshaled; the subscription
   is closed behind it. *)
WriteCloseCode(c) ==
    /\ runs(c)
    /\ writer[c] = "on" /\ subCh[c] = "broken"
    /\ say(c, "internal")
    /\ writerOff(c, TRUE)

cancelsAlways(c) == writerOff(c, TRUE) \* mutant: the writer always cancels

cancelsUnlessClosing(c) == writerOff(c, FALSE)

(* The subscription has ended.  While closing, the writer leaves the read to
   Shutdown's frame; else it says so first, and cancels. *)
SubscriptionEnds(c) ==
    /\ runs(c)
    /\ writer[c] = "on" /\ subCh[c] = "closed"
    /\ \/ closing /\ cancelsUnlessClosing(c) /\ UNCHANGED frame
       \/ /\ ~closing
          /\ writer' = [writer EXCEPT ![c] = "normal"]
          /\ UNCHANGED <<server, wsConns, handler, reader, cancelled, sid, frame, subCh, sessions,
                         during>>

WriterCloses(c) ==
    /\ runs(c)
    /\ writer[c] = "normal"
    /\ say(c, "normal")
    /\ writerOff(c, TRUE)

(* Both have ended: unsubscribe. *)
RunEnds(c) ==
    /\ runs(c)
    /\ reader[c] = "off" /\ writer[c] = "off"
    /\ handler' = [handler EXCEPT ![c] = "ended"]
    /\ UNCHANGED <<server, wsConns, reader, writer, cancelled, sid, frame, subCh, sessions, during>>

UnregisterWSConn(c) ==
    /\ alive
    /\ handler[c] = "ended"
    /\ IF closing THEN UNCHANGED frame ELSE say(c, "normal")
    /\ wsConns' = wsConns \ {c}
    /\ handler' = [handler EXCEPT ![c] = "gone"]
    /\ UNCHANGED <<server, reader, writer, cancelled, sid, subCh, sessions, during>>

-----------------------------------------------------------------------------
(* Clients and sessions. *)

ClientCloses(c) ==
    /\ alive
    /\ handler[c] \in {"accepted", "registered", "self", "running"}
    /\ frame[c] = "none"
    /\ say(c, "client")
    /\ UNCHANGED <<server, wsConns, goroutines, sid, subCh, sessions, during>>

(* The session goroutine takes a subscription from its queue. *)
HandleSubscribe(c) ==
    /\ alive
    /\ subCh[c] = "queued" /\ sess[sid[c]] = "active"
    /\ subCh' = [subCh EXCEPT ![c] = "open"]
    /\ UNCHANGED <<server, wsConns, goroutines, sid, frame, sessions, during>>

(* The goroutine ends, by itself or because it was cancelled: it closes every
   subscription, with a close code when a snapshot could not be marshaled.  A
   subscription that is still queued is closed, or lost when it was queued
   after the last look at the queue. *)
SessionStops(s, failing, lost) ==
    /\ alive
    /\ sess[s] \in {"active", "cancelled"}
    /\ failing => sess[s] = "active"
    /\ LET open == {c \in Conns : sid[c] = s /\ subCh[c] = "open"}
           queued == {c \in Conns : sid[c] = s /\ subCh[c] = "queued"} IN
       /\ lost \subseteq queued
       /\ subCh' = [c \in Conns |->
                      CASE c \in open -> IF failing THEN "broken" ELSE "closed"
                        [] c \in queued \ lost -> "closed"
                        [] OTHER -> subCh[c]]
       /\ during' = IF closing
                    THEN during \cup {c \in (open \cup queued) \ lost : frame[c] = "none"}
                    ELSE during
    /\ sess' = [sess EXCEPT ![s] = "over"]
    /\ UNCHANGED <<server, wsConns, goroutines, sid, frame, late>>

Create(s) ==
    /\ listening
    /\ sess[s] = "none"
    /\ sess' = [sess EXCEPT ![s] = "draft"]
    /\ late' = IF up = "deleting" THEN late \cup {s} ELSE late
    /\ UNCHANGED <<server, wsConns, goroutines, sid, frame, subCh, during>>

Start(s) ==
    /\ alive
    /\ sess[s] = "draft"
    /\ sess' = [sess EXCEPT ![s] = "active"]
    /\ UNCHANGED <<server, wsConns, goroutines, sid, frame, subCh, late, during>>

(* Manager.Delete: a started session is cancelled, a draft is just gone. *)
deleted(s) ==
    sess' = [sess EXCEPT ![s] = CASE @ = "active" -> "cancelled"
                                  [] @ = "draft" -> "over"
                                  [] OTHER -> @]

-----------------------------------------------------------------------------
(* The process: cardcore-server's runWithArgsAndSignal and Server.Shutdown. *)

(* Serve failed: the process ends without a shutdown. *)
ServeFails ==
    /\ up = "serving"
    /\ up' = "exited"
    /\ UNCHANGED <<closing, sweep, closers, todo, wsConns, goroutines, sid, frame, subCh, sessions,
                   during>>

(* A signal: closing is set, then Range starts over what is registered. *)
ShutdownBegins ==
    /\ up = "serving"
    /\ closing' = TRUE
    /\ up' = "sweeping"
    /\ must' = wsConns
    /\ UNCHANGED <<swept, closers, todo, wsConns, goroutines, sid, frame, subCh, sessions, during>>

(* Range meets a connection and starts the goroutine that closes it; one that
   registers meanwhile may or may not be met. *)
Sweep(c) ==
    /\ up = "sweeping"
    /\ c \in wsConns \ swept
    /\ swept' = swept \cup {c}
    /\ closers' = closers \cup {c}
    /\ UNCHANGED <<up, closing, must, todo, wsConns, goroutines, sid, frame, subCh, sessions,
                   during>>

SweepEnds ==
    /\ up = "sweeping"
    /\ must \cap wsConns \subseteq swept
    /\ up' = "grace"
    /\ must' = {} /\ swept' = {}
    /\ UNCHANGED <<closing, closers, todo, wsConns, goroutines, sid, frame, subCh, sessions,
                   during>>

GoingAway(c) ==
    /\ alive
    /\ c \in closers
    /\ closers' = closers \ {c}
    /\ say(c, "goingAway")
    /\ UNCHANGED <<up, closing, sweep, todo, wsConns, goroutines, sid, subCh, sessions, during>>

activeOnly == {s \in Sessions : sess[s] = "active"} \* mutant: drafts are left

(* Manager.List. *)
nonExpired == {s \in Sessions : sess[s] \in {"draft", "active"}}

GraceEnds ==
    /\ up = "grace"
    /\ closers = {}
    /\ todo' = nonExpired
    /\ up' = "deleting"
    /\ UNCHANGED <<closing, sweep, closers, wsConns, goroutines, sid, frame, subCh, sessions,
                   during>>

DeleteSession(s) ==
    /\ up = "deleting"
    /\ s \in todo
    /\ todo' = todo \ {s}
    /\ deleted(s)
    /\ UNCHANGED <<up, closing, sweep, closers, wsConns, goroutines, sid, frame, subCh, late,
                   during>>

CloseListener ==
    /\ up = "deleting"
    /\ todo = {}
    /\ up' = "http"
    /\ UNCHANGED <<closing, sweep, closers, todo, wsConns, goroutines, sid, frame, subCh, sessions,
                   during>>

(* The HTTP server has stopped, or its time is over. *)
Exit ==
    /\ up = "http"
    /\ up' = "exited"
    /\ UNCHANGED <<closing, sweep, closers, todo, wsConns, goroutines, sid, frame, subCh, sessions,
                   during>>

-----------------------------------------------------------------------------
Init ==
    /\ up = "serving" /\ closing = FALSE
    /\ wsConns = {} /\ must = {} /\ swept = {} /\ closers = {} /\ todo = {}
    /\ handler = [c \in Conns |-> "new"]
    /\ sid = [c \in Conns |-> None]
    /\ reader = [c \in Conns |-> "on"]
    /\ writer = [c \in Conns |-> "on"]
    /\ cancelled = [c \in Conns |-> FALSE]
    /\ frame = [c \in Conns |-> "none"]
    /\ subCh = [c \in Conns |-> "none"]
    /\ sess = [s \in Sessions |-> "none"]
    /\ late = {} /\ during = {}

Handler(c) ==
    \/ Accept(c) \/ AcceptFails(c) \/ RegisterWSConn(c) \/ StartRun(c) \/ SelfClose(c)
    \/ RunEnds(c) \/ UnregisterWSConn(c)

Writer(c) == WriteFails(c) \/ WriteCloseCode(c) \/ SubscriptionEnds(c) \/ WriterCloses(c)

Shutdown ==
    \/ SweepEnds \/ GraceEnds \/ CloseListener
    \/ \E c \in Conns : Sweep(c)
    \/ \E s \in Sessions : DeleteSession(s)

Next ==
    \/ \E c \in Conns :
        \/ SubscribeObserver(c) \/ Handler(c) \/ CloseReaderEnds(c) \/ Writer(c)
        \/ ClientCloses(c) \/ HandleSubscribe(c) \/ GoingAway(c)
    \/ \E s \in Sessions :
        \/ Create(s) \/ Start(s)
        \/ \E failing \in BOOLEAN, lost \in SUBSET Conns : SessionStops(s, failing, lost)
    \/ ServeFails \/ ShutdownBegins
    \/ Shutdown \/ Exit

Spec == Init /\ [][Next]_vars

(* Goroutines run and Shutdown goes on; nothing below leans on the process to
   exit in the end.  Nobody has to connect, to leave, to send a signal or to
   end a game. *)
Fairness ==
    /\ \A c \in Conns :
        WF_vars(Handler(c)) /\ WF_vars(CloseReaderEnds(c)) /\ WF_vars(GoingAway(c))
        /\ WF_vars(WriteCloseCode(c)) /\ WF_vars(SubscriptionEnds(c)) /\ WF_vars(WriterCloses(c))
    /\ WF_vars(Shutdown)

FairSpec == Spec /\ Fairness

-----------------------------------------------------------------------------
(* Properties. *)

(* Every variable has its type, and a connection knows the session it observes
   from its subscription on. *)
TypeOK ==
    /\ up \in {"serving", "sweeping", "grace", "deleting", "http", "exited"}
    /\ closing \in BOOLEAN
    /\ wsConns \subseteq Conns /\ must \subseteq Conns /\ swept \subseteq Conns
    /\ closers \subseteq Conns
    /\ todo \subseteq Sessions
    /\ handler \in [Conns -> {"new", "subscribed", "accepted", "registered", "self", "running",
                              "ended", "gone"}]
    /\ sid \in [Conns -> Sessions \cup {None}]
    /\ \A c \in Conns : sid[c] = None <=> handler[c] = "new"
    /\ reader \in [Conns -> {"on", "off"}]
    /\ writer \in [Conns -> {"on", "normal", "off"}]
    /\ cancelled \in [Conns -> BOOLEAN]
    /\ frame \in [Conns -> Frames]
    /\ subCh \in [Conns -> {"none", "queued", "open", "broken", "closed"}]
    /\ sess \in [Sessions -> {"none", "draft", "active", "cancelled", "over"}]
    /\ late \subseteq Sessions /\ during \subseteq Conns

(* Between the sweep over the registered connections and the look each new
   connection takes at closing, nobody is missed: once the sweep is over, a
   registered connection that is still open has its GoingAway frame coming
   (server.go, "a connection accepted during shutdown still sees 1001"). *)
NobodyIsMissed ==
    closing /\ up # "sweeping" =>
        \A c \in wsConns :
            frame[c] = "none" => c \in closers \/ handler[c] \in {"registered", "self"}

(* An observer whose subscription ends under the shutdown is never told that
   its game ended normally, nor cut off: no goroutine of its connection gets
   ahead of the GoingAway frame. *)
ShutdownIsSaid == \A c \in during : frame[c] \notin {"normal", "abrupt"}

(* Every session that was there when Shutdown listed them is stopped before
   the process exits; only one created between the list and the end of the
   listener can be left. *)
ListedSessionsStop ==
    closing /\ up \in {"http", "exited"} =>
        \A s \in Sessions : sess[s] \in {"draft", "active"} => s \in late

(* An observer's connection ends after its subscription has, whatever the
   shutdown is doing: a writer that leaves without cancelling the read can
   rely on the frame. *)
ConnectionEnds ==
    \A c \in Conns :
        subCh[c] = "closed" /\ handler[c] = "running" ~> handler[c] = "gone" \/ ~alive

=============================================================================
