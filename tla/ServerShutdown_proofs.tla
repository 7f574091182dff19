----------------------- MODULE ServerShutdown_proofs -----------------------
(***************************************************************************)
(* What Server.Shutdown and the observers' handlers promise each other,    *)
(* for every number of connections and sessions.                           *)
(***************************************************************************)
EXTENDS ServerShutdown, TLAPS

-----------------------------------------------------------------------------
(* The types, in parts that steps disturb one at a time. *)

ProcessType ==
    /\ up \in {"serving", "sweeping", "grace", "deleting", "http", "exited"}
    /\ wsConns \subseteq Conns /\ must \subseteq Conns /\ swept \subseteq Conns /\ closers \subseteq Conns
    /\ todo \subseteq Sessions

HandlerType ==
    /\ handler \in [Conns -> {"new", "subscribed", "accepted", "registered", "self", "running",
                              "ended", "gone"}]
    /\ sid \in [Conns -> Sessions \cup {None}]
    /\ \A c \in Conns : sid[c] = None <=> handler[c] = "new"

StreamType ==
    /\ reader \in [Conns -> {"on", "off"}]
    /\ writer \in [Conns -> {"on", "normal", "off"}]
    /\ frame \in [Conns -> Frames]
    /\ subCh \in [Conns -> {"none", "queued", "open", "broken", "closed"}]

CancelType == cancelled \in [Conns -> BOOLEAN]

SessionType ==
    /\ sess \in [Sessions -> {"none", "draft", "active", "cancelled", "over"}]
    /\ late \subseteq Sessions /\ during \subseteq Conns

ClosingType == closing \in BOOLEAN

Types == ProcessType /\ HandlerType /\ StreamType /\ CancelType /\ SessionType /\ ClosingType

LEMMA TypesAreTypeOK == Types <=> TypeOK
BY DEF Types, TypeOK, ProcessType, HandlerType, StreamType, CancelType, SessionType, ClosingType

-----------------------------------------------------------------------------
(* Every step belongs to a connection, to a session or to the process. *)

OfConn(c) ==
    \/ SubscribeObserver(c) \/ Accept(c) \/ AcceptFails(c) \/ RegisterWSConn(c) \/ StartRun(c)
    \/ SelfClose(c) \/ CloseReaderEnds(c) \/ WriteFails(c) \/ WriteCloseCode(c)
    \/ SubscriptionEnds(c) \/ WriterCloses(c) \/ RunEnds(c) \/ UnregisterWSConn(c)
    \/ ClientCloses(c) \/ HandleSubscribe(c) \/ GoingAway(c) \/ Sweep(c)

OfSession(s) ==
    \/ Create(s) \/ Start(s) \/ DeleteSession(s)
    \/ \E failing \in BOOLEAN, lost \in SUBSET Conns : SessionStops(s, failing, lost)

OfProcess == ServeFails \/ ShutdownBegins \/ SweepEnds \/ GraceEnds \/ CloseListener \/ Exit

LEMMA Steps ==
    ASSUME Next
    PROVE  (\E c \in Conns : OfConn(c)) \/ (\E s \in Sessions : OfSession(s)) \/ OfProcess
BY DEF Next, Handler, Writer, Shutdown, OfConn, OfSession, OfProcess

LEMMA ConnProcess ==
    ASSUME ProcessType, NEW c \in Conns, OfConn(c)
    PROVE  ProcessType'
BY DEF ProcessType, OfConn, SubscribeObserver, Accept, AcceptFails, RegisterWSConn, StartRun,
       SelfClose, CloseReaderEnds, WriteFails, WriteCloseCode, SubscriptionEnds, WriterCloses,
       RunEnds, UnregisterWSConn, ClientCloses, HandleSubscribe, GoingAway, Sweep, writerOff,
       cancelsUnlessClosing, server, sweep

LEMMA ConnHandler ==
    ASSUME HandlerType, NEW c \in Conns, OfConn(c)
    PROVE  HandlerType'
<1>1. CASE SubscribeObserver(c)
  <2>1. PICK s \in Sessions : observes(c, s)
    BY <1>1 DEF SubscribeObserver
  <2>2. sid' = [sid EXCEPT ![c] = s] /\ s # None
    BY <2>1, NoneAssumption DEF observes
  <2>3. handler' = [handler EXCEPT ![c] = "subscribed"]
    BY <1>1 DEF SubscribeObserver
  <2>4. /\ sid' \in [Conns -> Sessions \cup {None}]
        /\ handler' \in [Conns -> {"new", "subscribed", "accepted", "registered", "self", "running",
                                   "ended", "gone"}]
    BY <2>1, <2>2, <2>3 DEF HandlerType
  <2>5. ASSUME NEW d \in Conns PROVE sid'[d] = None <=> handler'[d] = "new"
    <3>1. CASE d = c
      BY <2>2, <2>3, <3>1 DEF HandlerType
    <3>2. CASE d # c
      BY <2>2, <2>3, <3>2 DEF HandlerType
    <3> QED
      BY <3>1, <3>2
  <2> QED
    BY <2>4, <2>5 DEF HandlerType
<1>2. ASSUME \/ Accept(c) \/ AcceptFails(c) \/ RegisterWSConn(c) \/ StartRun(c) \/ SelfClose(c)
             \/ RunEnds(c) \/ UnregisterWSConn(c)
      PROVE  /\ handler[c] # "new" /\ sid' = sid
             /\ \E h \in {"accepted", "registered", "self", "running", "ended", "gone"} :
                    handler' = [handler EXCEPT ![c] = h]
  <2>1. handler[c] # "new" /\ sid' = sid
    BY <1>2 DEF Accept, AcceptFails, RegisterWSConn, StartRun, SelfClose, RunEnds, UnregisterWSConn,
         runs
  <2>2. \/ handler' = [handler EXCEPT ![c] = "accepted"]
        \/ handler' = [handler EXCEPT ![c] = "registered"]
        \/ handler' = [handler EXCEPT ![c] = "self"]
        \/ handler' = [handler EXCEPT ![c] = "running"]
        \/ handler' = [handler EXCEPT ![c] = "ended"]
        \/ handler' = [handler EXCEPT ![c] = "gone"]
    BY <1>2 DEF Accept, AcceptFails, RegisterWSConn, StartRun, SelfClose, RunEnds, UnregisterWSConn,
         selfCheck
  <2> QED
    BY <2>1, <2>2
<1>3. CASE \/ Accept(c) \/ AcceptFails(c) \/ RegisterWSConn(c) \/ StartRun(c) \/ SelfClose(c)
           \/ RunEnds(c) \/ UnregisterWSConn(c)
  BY <1>2, <1>3 DEF HandlerType
<1>4. ASSUME sid' = sid, handler' = handler PROVE HandlerType'
  BY <1>4 DEF HandlerType
<1>5. CASE \/ CloseReaderEnds(c) \/ WriteFails(c) \/ WriteCloseCode(c) \/ SubscriptionEnds(c)
           \/ WriterCloses(c) \/ ClientCloses(c) \/ HandleSubscribe(c) \/ GoingAway(c) \/ Sweep(c)
  BY <1>4, <1>5 DEF CloseReaderEnds, WriteFails, WriteCloseCode, SubscriptionEnds, WriterCloses,
       ClientCloses, HandleSubscribe, GoingAway, Sweep, writerOff, cancelsUnlessClosing, goroutines
<1> QED
  BY <1>1, <1>3, <1>5 DEF OfConn

LEMMA ConnStream ==
    ASSUME StreamType, NEW c \in Conns, OfConn(c)
    PROVE  StreamType'
BY DEF StreamType, OfConn, SubscribeObserver, Accept, AcceptFails, RegisterWSConn, StartRun,
       SelfClose, CloseReaderEnds, WriteFails, WriteCloseCode, SubscriptionEnds, WriterCloses,
       RunEnds, UnregisterWSConn, ClientCloses, HandleSubscribe, GoingAway, Sweep, writerOff,
       cancelsUnlessClosing, goroutines, say, Frames

(* A connection is cancelled only by its writer. *)
LEMMA ConnCancel ==
    ASSUME NEW c \in Conns, OfConn(c)
    PROVE  cancelled' = cancelled \/ (\E b \in BOOLEAN : writerOff(c, b))
<1>1. CASE WriteFails(c) \/ WriteCloseCode(c) \/ WriterCloses(c)
  BY <1>1 DEF WriteFails, WriteCloseCode, WriterCloses
<1>2. CASE SubscriptionEnds(c)
  <2>1. CASE cancelsUnlessClosing(c)
    BY <2>1 DEF cancelsUnlessClosing
  <2>2. CASE ~cancelsUnlessClosing(c)
    BY <1>2, <2>2 DEF SubscriptionEnds
  <2> QED
    BY <2>1, <2>2
<1>3. CASE \/ SubscribeObserver(c) \/ Accept(c) \/ AcceptFails(c) \/ RegisterWSConn(c) \/ StartRun(c)
           \/ SelfClose(c) \/ CloseReaderEnds(c) \/ RunEnds(c) \/ UnregisterWSConn(c)
           \/ ClientCloses(c) \/ HandleSubscribe(c) \/ GoingAway(c) \/ Sweep(c)
  BY <1>3 DEF SubscribeObserver, Accept, AcceptFails, RegisterWSConn, StartRun, SelfClose,
       CloseReaderEnds, RunEnds, UnregisterWSConn, ClientCloses, HandleSubscribe, GoingAway, Sweep,
       goroutines
<1> QED
  BY <1>1, <1>2, <1>3 DEF OfConn

LEMMA ConnCancelType ==
    ASSUME CancelType, NEW c \in Conns, OfConn(c)
    PROVE  CancelType'
<1>1. ASSUME NEW b \in BOOLEAN, writerOff(c, b) PROVE CancelType'
  <2>1. (cancelled[c] \/ b) \in BOOLEAN
    OBVIOUS
  <2> DEFINE v == cancelled[c] \/ b
  <2>2. cancelled' = [cancelled EXCEPT ![c] = v]
    BY <1>1 DEF writerOff
  <2>3. v \in BOOLEAN
    BY <2>1
  <2> HIDE DEF v
  <2> QED
    BY <2>2, <2>3 DEF CancelType
<1>2. CASE cancelled' = cancelled
  BY <1>2 DEF CancelType
<1> QED
  BY <1>1, <1>2, ConnCancel

LEMMA ConnSession ==
    ASSUME NEW c \in Conns, OfConn(c)
    PROVE  UNCHANGED <<sess, late, during, closing>>
BY DEF OfConn, SubscribeObserver, Accept, AcceptFails, RegisterWSConn, StartRun,
       SelfClose, CloseReaderEnds, WriteFails, WriteCloseCode, SubscriptionEnds, WriterCloses,
       RunEnds, UnregisterWSConn, ClientCloses, HandleSubscribe, GoingAway, Sweep, writerOff,
       cancelsUnlessClosing, server, sessions

LEMMA ConnTypes == ASSUME Types, NEW c \in Conns, OfConn(c) PROVE Types'
<1>1. SessionType' /\ ClosingType'
  <2>1. closing' = closing
    BY ConnSession
  <2>2. UNCHANGED <<sess, late, during>>
    BY ConnSession
  <2> QED
    BY <2>1, <2>2 DEF Types, SessionType, ClosingType
<1> QED
  BY <1>1, ConnProcess, ConnHandler, ConnStream, ConnCancelType DEF Types

LEMMA StopTypes ==
    ASSUME Types, NEW s \in Sessions, NEW failing \in BOOLEAN, NEW lost \in SUBSET Conns,
           SessionStops(s, failing, lost)
    PROVE  Types'
<1>1. UNCHANGED <<server, wsConns, goroutines, sid, frame, late>>
  BY DEF SessionStops
<1>2. closing' = closing /\ cancelled' = cancelled
  BY <1>1 DEF server, goroutines
<1>3. ProcessType' /\ HandlerType'
  BY <1>1 DEF Types, ProcessType, HandlerType, server, sweep, goroutines
<1>4. subCh' \in [Conns -> {"none", "queued", "open", "broken", "closed"}]
  BY DEF SessionStops, Types, StreamType
<1>5. StreamType'
  BY <1>1, <1>4 DEF Types, StreamType, goroutines
<1>6. during' \subseteq Conns
  BY DEF SessionStops, Types, SessionType
<1>7. SessionType'
  BY <1>1, <1>6 DEF SessionStops, Types, SessionType
<1>8. CancelType' /\ ClosingType'
  BY <1>2 DEF Types, CancelType, ClosingType
<1> QED
  BY <1>3, <1>5, <1>7, <1>8 DEF Types

LEMMA SessionTypes == ASSUME Types, NEW s \in Sessions, OfSession(s) PROVE Types'
<1>1. ASSUME NEW failing \in BOOLEAN, NEW lost \in SUBSET Conns, SessionStops(s, failing, lost)
      PROVE  Types'
  BY <1>1, StopTypes
<1>2. CASE Create(s) \/ Start(s) \/ DeleteSession(s)
  <2>1. UNCHANGED <<wsConns, goroutines, sid, frame, subCh, during, up, closing, sweep, closers>>
    BY <1>2 DEF Create, Start, DeleteSession, server
  <2>2. ProcessType'
    BY <1>2, <2>1 DEF Create, Start, DeleteSession, server, sweep, Types, ProcessType
  <2>3. HandlerType' /\ StreamType'
    BY <2>1 DEF Types, HandlerType, StreamType, goroutines
  <2>4. closing' = closing /\ cancelled' = cancelled
    BY <2>1 DEF goroutines
  <2>5. CancelType' /\ ClosingType'
    BY <2>4 DEF Types, CancelType, ClosingType
  <2>6. SessionType'
    BY <1>2, <2>1 DEF Create, Start, DeleteSession, deleted, Types, SessionType
  <2> QED
    BY <2>2, <2>3, <2>5, <2>6 DEF Types
<1> QED
  BY <1>1, <1>2 DEF OfSession

LEMMA ProcessTypes == ASSUME Types, OfProcess PROVE Types'
<1>1. UNCHANGED <<wsConns, goroutines, sid, frame, subCh, sessions, during>>
  BY DEF OfProcess, ServeFails, ShutdownBegins, SweepEnds, GraceEnds, CloseListener, Exit
<1>2. ProcessType'
  BY DEF OfProcess, ServeFails, ShutdownBegins, SweepEnds, GraceEnds, CloseListener, Exit, sweep,
         nonExpired, Types, ProcessType
<1>3. HandlerType' /\ StreamType' /\ SessionType'
  BY <1>1 DEF Types, HandlerType, StreamType, SessionType, goroutines, sessions
<1>4. cancelled' = cancelled
  BY <1>1 DEF goroutines
<1>5. CancelType'
  BY <1>4 DEF Types, CancelType
<1>6. closing' = closing \/ closing' = TRUE
  BY DEF OfProcess, ServeFails, ShutdownBegins, SweepEnds, GraceEnds, CloseListener, Exit
<1>7. ClosingType'
  BY <1>6 DEF Types, ClosingType
<1> QED
  BY <1>2, <1>3, <1>5, <1>7 DEF Types

LEMMA InitTypes == ASSUME Init PROVE Types
<1>1. ProcessType /\ HandlerType /\ StreamType
  BY NoneAssumption DEF Init, ProcessType, HandlerType, StreamType, Frames
<1>2. SessionType
  BY DEF Init, SessionType
<1>3. CancelType
  BY DEF Init, CancelType
<1>4. ClosingType
  BY DEF Init, ClosingType
<1> QED
  BY <1>1, <1>2, <1>3, <1>4 DEF Types

(* Every variable has its type, and a connection knows the session it observes
   from its subscription on (handleObserverWS). *)
THEOREM TypeCorrect == Spec => []TypeOK
<1>1. Init => Types
  BY InitTypes
<1>2. Types /\ [Next]_vars => Types'
  <2> SUFFICES ASSUME Types, [Next]_vars PROVE Types'
    OBVIOUS
  <2>1. CASE Next
    BY <2>1, Steps, ConnTypes, SessionTypes, ProcessTypes
  <2>2. CASE UNCHANGED vars
    <3>1. cancelled' = cancelled /\ closing' = closing
      BY <2>2 DEF vars, server, goroutines
    <3>2. CancelType' /\ ClosingType'
      BY <3>1 DEF Types, CancelType, ClosingType
    <3>3. ProcessType' /\ HandlerType' /\ StreamType' /\ SessionType'
      BY <2>2 DEF Types, ProcessType, HandlerType, StreamType, SessionType, vars, server, sweep,
                  goroutines, sessions
    <3> QED
      BY <3>2, <3>3 DEF Types
  <2> QED
    BY <2>1, <2>2
<1>3. Types => TypeOK
  BY TypesAreTypeOK
<1> QED
  BY <1>1, <1>2, <1>3, PTL DEF Spec

-----------------------------------------------------------------------------
(* The sessions.  Shutdown has listed every session that is not late, and what
   it has not deleted is on its list. *)

Stages ==
    /\ closing => up # "serving"
    /\ up \in {"sweeping", "grace", "deleting", "http"} => closing
    /\ up = "serving" => swept = {}

Listed ==
    /\ up = "deleting" =>
        \A s \in Sessions : sess[s] \in {"draft", "active"} => s \in todo \cup late
    /\ ListedSessionsStop

LEMMA NextStages ==
    ASSUME ProcessType, Stages, Next
    PROVE  Stages'
<1>1. ASSUME NEW c \in Conns, OfConn(c) PROVE Stages'
  <2>1. closing' = closing
    BY <1>1, ConnSession
  <2>2. up' = up /\ (up = "serving" => swept' = swept)
    BY <1>1 DEF OfConn, SubscribeObserver, Accept, AcceptFails, RegisterWSConn, StartRun,
       SelfClose, CloseReaderEnds, WriteFails, WriteCloseCode, SubscriptionEnds, WriterCloses,
       RunEnds, UnregisterWSConn, ClientCloses, HandleSubscribe, GoingAway, Sweep, writerOff,
       cancelsUnlessClosing, server, sweep
  <2> QED
    BY <2>1, <2>2 DEF Stages
<1>2. ASSUME NEW s \in Sessions, OfSession(s) PROVE Stages'
  <2>1. closing' = closing
    BY <1>2 DEF OfSession, Create, Start, DeleteSession, SessionStops, server
  <2>2. up' = up /\ swept' = swept
    BY <1>2 DEF OfSession, Create, Start, DeleteSession, SessionStops, server, sweep
  <2> QED
    BY <2>1, <2>2 DEF Stages
<1>3. CASE ServeFails
  <2>1. closing' = closing /\ up' = "exited"
    BY <1>3 DEF ServeFails
  <2> QED
    BY <2>1 DEF Stages
<1>4. CASE ShutdownBegins
  <2>1. closing'
    BY <1>4 DEF ShutdownBegins
  <2>2. up' = "sweeping"
    BY <1>4 DEF ShutdownBegins
  <2> QED
    BY <2>1, <2>2 DEF Stages
<1>5. CASE SweepEnds \/ GraceEnds \/ CloseListener \/ Exit
  <2>1. closing' = closing
    BY <1>5 DEF SweepEnds, GraceEnds, CloseListener, Exit
  <2>2. closing
    BY <1>5 DEF Stages, SweepEnds, GraceEnds, CloseListener, Exit
  <2>3. up' \in {"grace", "deleting", "http", "exited"}
    BY <1>5 DEF SweepEnds, GraceEnds, CloseListener, Exit
  <2> QED
    BY <2>1, <2>2, <2>3 DEF Stages
<1> QED
  BY <1>1, <1>2, <1>3, <1>4, <1>5, Steps DEF OfProcess

LEMMA NextListed ==
    ASSUME SessionType, Stages, Listed, Next
    PROVE  Listed'
<1> USE DEF Listed, ListedSessionsStop
<1>1. ASSUME NEW c \in Conns, OfConn(c) PROVE Listed'
  <2>1. closing' = closing
    BY <1>1, ConnSession
  <2>2. sess' = sess /\ late' = late
    BY <1>1, ConnSession
  <2>3. up' = up /\ todo' = todo
    BY <1>1 DEF OfConn, SubscribeObserver, Accept, AcceptFails, RegisterWSConn, StartRun,
       SelfClose, CloseReaderEnds, WriteFails, WriteCloseCode, SubscriptionEnds, WriterCloses,
       RunEnds, UnregisterWSConn, ClientCloses, HandleSubscribe, GoingAway, Sweep, writerOff,
       cancelsUnlessClosing, server
  <2> QED
    BY <2>1, <2>2, <2>3
<1>2. ASSUME NEW s \in Sessions, OfSession(s) PROVE Listed'
  <2>1. closing' = closing
    BY <1>2 DEF OfSession, Create, Start, DeleteSession, SessionStops, server
  <2>2. up' = up
    BY <1>2 DEF OfSession, Create, Start, DeleteSession, SessionStops, server
  <2>3. CASE Create(s)
    <3>1. up \in {"serving", "sweeping", "grace", "deleting"} /\ late \subseteq late'
          /\ todo' = todo /\ sess' = [sess EXCEPT ![s] = "draft"]
          /\ (up = "deleting" => s \in late')
      BY <2>3 DEF Create, listening, server
    <3> QED
      BY <2>1, <2>2, <3>1 DEF SessionType
  <2>4. CASE Start(s)
    <3>1. late' = late /\ todo' = todo /\ sess[s] = "draft" /\ sess' = [sess EXCEPT ![s] = "active"]
      BY <2>4 DEF Start, server
    <3> QED
      BY <2>1, <2>2, <3>1 DEF SessionType
  <2>5. CASE DeleteSession(s)
    <3>1. up = "deleting" /\ late' = late /\ todo' = todo \ {s}
      BY <2>5 DEF DeleteSession
    <3>2. \A r \in Sessions : /\ r # s => sess'[r] = sess[r]
                              /\ sess'[s] \notin {"draft", "active"}
      BY <2>5 DEF DeleteSession, deleted, SessionType
    <3> QED
      BY <2>2, <3>1, <3>2
  <2>6. CASE \E failing \in BOOLEAN, lost \in SUBSET Conns : SessionStops(s, failing, lost)
    <3>1. late' = late /\ todo' = todo /\ sess' = [sess EXCEPT ![s] = "over"]
      BY <2>6 DEF SessionStops, server
    <3> QED
      BY <2>1, <2>2, <3>1 DEF SessionType
  <2> QED
    BY <1>2, <2>3, <2>4, <2>5, <2>6 DEF OfSession
<1>3. CASE ServeFails
  <2>1. ~closing
    BY <1>3 DEF ServeFails, Stages
  <2>2. closing' = closing /\ up' = "exited"
    BY <1>3 DEF ServeFails
  <2> QED
    BY <2>1, <2>2
<1>4. CASE ShutdownBegins \/ SweepEnds
  BY <1>4 DEF ShutdownBegins, SweepEnds
<1>5. CASE GraceEnds
  BY <1>5 DEF GraceEnds, nonExpired, sessions
<1>6. CASE CloseListener
  BY <1>6 DEF CloseListener, sessions
<1>7. CASE Exit
  <2>1. closing
    BY <1>7 DEF Exit, Stages
  <2>2. up = "http" /\ up' = "exited" /\ sess' = sess /\ late' = late
    BY <1>7 DEF Exit, sessions
  <2> QED
    BY <2>1, <2>2
<1> QED
  BY <1>1, <1>2, <1>3, <1>4, <1>5, <1>6, <1>7, Steps DEF OfProcess

(* Every session that Shutdown could list is stopped before the process exits
   (Server.Shutdown: List, then Delete of each). *)
THEOREM ListedAreStopped == Spec => []ListedSessionsStop
<1> DEFINE LInv == Stages /\ Listed
<1>1. Init => LInv
  <2> SUFFICES ASSUME Init PROVE LInv
    OBVIOUS
  <2>1. ~closing /\ up = "serving" /\ swept = {}
    BY DEF Init
  <2> QED
    BY <2>1 DEF Stages, Listed, ListedSessionsStop
<1>2. TypeOK /\ LInv /\ [Next]_vars => LInv'
  <2> SUFFICES ASSUME TypeOK, LInv, [Next]_vars PROVE LInv'
    OBVIOUS
  <2>1. CASE Next
    BY <2>1, TypesAreTypeOK, NextStages, NextListed DEF Types
  <2>2. CASE UNCHANGED vars
    <3>1. closing' = closing
      BY <2>2 DEF vars, server
    <3>2. up' = up /\ swept' = swept /\ todo' = todo /\ sess' = sess /\ late' = late
      BY <2>2 DEF vars, server, sweep, sessions
    <3> QED
      BY <3>1, <3>2 DEF Stages, Listed, ListedSessionsStop
  <2> QED
    BY <2>1, <2>2
<1>3. LInv => ListedSessionsStop
  BY DEF Listed
<1> QED
  BY <1>1, <1>2, <1>3, TypeCorrect, PTL DEF Spec

-----------------------------------------------------------------------------
(* The sweep.  While it runs, a registered connection that is open may also be
   one that Range has still to meet; a connection that registers meanwhile
   looks at closing itself. *)

Registered == \A c \in wsConns : handler[c] \in {"registered", "self", "running", "ended"}

Covered(c) ==
    \/ frame[c] # "none"
    \/ c \in closers
    \/ handler[c] \in {"registered", "self"}
    \/ up = "sweeping" /\ c \in must /\ c \notin swept

EveryoneCovered == closing => \A c \in wsConns : Covered(c)

(* The first thing that ends a WebSocket is the last. *)
LEMMA FrameStays ==
    ASSUME StreamType, NEW c \in Conns, OfConn(c), NEW d \in Conns, frame[d] # "none"
    PROVE  frame'[d] = frame[d]
BY DEF StreamType, OfConn, SubscribeObserver, Accept, AcceptFails, RegisterWSConn, StartRun,
       SelfClose, CloseReaderEnds, WriteFails, WriteCloseCode, SubscriptionEnds, WriterCloses,
       RunEnds, UnregisterWSConn, ClientCloses, HandleSubscribe, GoingAway, Sweep, writerOff,
       cancelsUnlessClosing, say

LEMMA ConnRegistered ==
    ASSUME Types, Registered, NEW c \in Conns, OfConn(c)
    PROVE  Registered'
<1> SUFFICES ASSUME NEW d \in wsConns'
             PROVE  handler'[d] \in {"registered", "self", "running", "ended"}
  BY DEF Registered
<1>1. d \in Conns /\ wsConns' \subseteq Conns
  BY ConnTypes DEF Types, ProcessType
<1>2. CASE RegisterWSConn(c)
  BY <1>1, <1>2 DEF RegisterWSConn, Registered, Types, HandlerType
<1>3. CASE UnregisterWSConn(c)
  BY <1>1, <1>3 DEF UnregisterWSConn, Registered, Types, HandlerType
<1>4. CASE StartRun(c) \/ SelfClose(c) \/ RunEnds(c)
  BY <1>1, <1>4 DEF StartRun, SelfClose, RunEnds, selfCheck, Registered, Types, HandlerType
<1>5. CASE SubscribeObserver(c) \/ Accept(c) \/ AcceptFails(c)
  BY <1>1, <1>5 DEF SubscribeObserver, Accept, AcceptFails, Registered, Types, HandlerType
<1>6. CASE \/ CloseReaderEnds(c) \/ WriteFails(c) \/ WriteCloseCode(c) \/ SubscriptionEnds(c)
           \/ WriterCloses(c) \/ ClientCloses(c) \/ HandleSubscribe(c) \/ GoingAway(c) \/ Sweep(c)
  <2>1. wsConns' = wsConns /\ handler' = handler
    BY <1>6 DEF CloseReaderEnds, WriteFails, WriteCloseCode, SubscriptionEnds, WriterCloses,
       ClientCloses, HandleSubscribe, GoingAway, Sweep, writerOff, cancelsUnlessClosing, goroutines
  <2> QED
    BY <2>1 DEF Registered
<1> QED
  BY <1>2, <1>3, <1>4, <1>5, <1>6 DEF OfConn

LEMMA ConnCovered ==
    ASSUME Types, Registered, EveryoneCovered, NEW c \in Conns, OfConn(c)
    PROVE  EveryoneCovered'
<1> SUFFICES ASSUME closing', NEW d \in wsConns' PROVE Covered(d)'
  BY DEF EveryoneCovered
<1>1. closing
  <2>1. closing' = closing
    BY ConnSession
  <2> QED
    BY <2>1
<1>2. d \in Conns
  BY ConnTypes DEF Types, ProcessType
<1>3. CASE RegisterWSConn(c) /\ d = c
  BY <1>3 DEF RegisterWSConn, Covered, Types, HandlerType
<1>4. CASE d \in wsConns /\ Covered(d)
  <2>1. CASE frame[d] # "none"
    BY <1>2, <2>1, FrameStays DEF Covered, Types
  <2>2. CASE GoingAway(c) /\ c = d
    BY <2>2 DEF GoingAway, say, Covered, Types, StreamType
  <2>3. CASE SelfClose(c) /\ c = d
    BY <2>3 DEF SelfClose, say, Covered, Types, StreamType
  <2>4. CASE Sweep(c) /\ c = d
    BY <2>4 DEF Sweep, Covered
  <2>5. CASE StartRun(c) /\ c = d
    <3>1. handler'[d] = "self"
      BY <1>1, <2>5 DEF StartRun, selfCheck, Types, HandlerType
    <3> QED
      BY <3>1 DEF Covered
  <2>6. ASSUME frame[d] = "none", ~(GoingAway(c) /\ c = d), ~(SelfClose(c) /\ c = d),
               ~(Sweep(c) /\ c = d), ~(StartRun(c) /\ c = d)
        PROVE  Covered(d)'
    <3>1. ASSUME d \in closers PROVE d \in closers'
      BY <2>6, <3>1 DEF OfConn, SubscribeObserver, Accept, AcceptFails, RegisterWSConn, StartRun,
       SelfClose, CloseReaderEnds, WriteFails, WriteCloseCode, SubscriptionEnds, WriterCloses,
       RunEnds, UnregisterWSConn, ClientCloses, HandleSubscribe, GoingAway, Sweep, writerOff,
       cancelsUnlessClosing, server
    <3>2. ASSUME up = "sweeping", d \in must, d \notin swept
          PROVE  up' = "sweeping" /\ d \in must' /\ d \notin swept'
      BY <2>6, <3>2 DEF OfConn, SubscribeObserver, Accept, AcceptFails, RegisterWSConn, StartRun,
       SelfClose, CloseReaderEnds, WriteFails, WriteCloseCode, SubscriptionEnds, WriterCloses,
       RunEnds, UnregisterWSConn, ClientCloses, HandleSubscribe, GoingAway, Sweep, writerOff,
       cancelsUnlessClosing, server, sweep
    <3>3. ASSUME handler[d] \in {"registered", "self"} PROVE handler'[d] = handler[d]
      BY <1>2, <2>6, <3>3 DEF OfConn, SubscribeObserver, Accept, AcceptFails, RegisterWSConn,
       StartRun, SelfClose, CloseReaderEnds, WriteFails, WriteCloseCode, SubscriptionEnds,
       WriterCloses, RunEnds, runs, UnregisterWSConn, ClientCloses, HandleSubscribe, GoingAway,
       Sweep, writerOff, cancelsUnlessClosing, goroutines, Types, HandlerType
    <3> QED
      BY <1>4, <2>6, <3>1, <3>2, <3>3 DEF Covered
  <2> QED
    BY <2>1, <2>2, <2>3, <2>4, <2>5, <2>6
<1>5. d \in wsConns \/ (RegisterWSConn(c) /\ d = c)
  BY DEF OfConn, SubscribeObserver, Accept, AcceptFails, RegisterWSConn, StartRun,
       SelfClose, CloseReaderEnds, WriteFails, WriteCloseCode, SubscriptionEnds, WriterCloses,
       RunEnds, UnregisterWSConn, ClientCloses, HandleSubscribe, GoingAway, Sweep, writerOff,
       cancelsUnlessClosing
<1> QED
  BY <1>1, <1>3, <1>4, <1>5 DEF EveryoneCovered

LEMMA NextCovered ==
    ASSUME Types, Stages, Registered, EveryoneCovered, Next
    PROVE  Registered' /\ EveryoneCovered'
<1>1. ASSUME NEW c \in Conns, OfConn(c) PROVE Registered' /\ EveryoneCovered'
  BY <1>1, ConnRegistered, ConnCovered
<1>2. ASSUME UNCHANGED <<wsConns, handler, frame, closers, up, must, swept>>, closing' = closing
      PROVE  Registered' /\ EveryoneCovered'
  BY <1>2 DEF Registered, EveryoneCovered, Covered
<1>3. ASSUME NEW s \in Sessions, OfSession(s) PROVE Registered' /\ EveryoneCovered'
  <2>1. closing' = closing
    BY <1>3 DEF OfSession, Create, Start, DeleteSession, SessionStops, server
  <2>2. UNCHANGED <<wsConns, handler, frame, closers, up, must, swept>>
    BY <1>3 DEF OfSession, Create, Start, DeleteSession, SessionStops, server, sweep, goroutines
  <2> QED
    BY <1>2, <2>1, <2>2
<1>4. ASSUME OfProcess PROVE Registered'
  BY <1>4 DEF OfProcess, ServeFails, ShutdownBegins, SweepEnds, GraceEnds, CloseListener, Exit,
              Registered, goroutines
<1>5. CASE ServeFails
  <2>1. ~closing
    BY <1>5 DEF ServeFails, Stages
  <2>2. closing' = closing
    BY <1>5 DEF ServeFails
  <2>3. ~closing'
    BY <2>1, <2>2
  <2> QED
    BY <1>4, <1>5, <2>3 DEF OfProcess, EveryoneCovered
<1>6. CASE ShutdownBegins
  <2>1. \A c \in wsConns' : Covered(c)'
    BY <1>6 DEF ShutdownBegins, Stages, Covered
  <2> QED
    BY <1>4, <1>6, <2>1 DEF OfProcess, EveryoneCovered
<1>7. CASE SweepEnds \/ GraceEnds \/ CloseListener \/ Exit
  <2>1. closing
    BY <1>7 DEF SweepEnds, GraceEnds, CloseListener, Exit, Stages
  <2>2. wsConns' = wsConns /\ handler' = handler /\ frame' = frame /\ closers' = closers
    BY <1>7 DEF SweepEnds, GraceEnds, CloseListener, Exit, goroutines
  <2>3. up = "sweeping" => must \cap wsConns \subseteq swept
    BY <1>7 DEF SweepEnds, GraceEnds, CloseListener, Exit
  <2>4. \A c \in wsConns' : Covered(c)'
    BY <2>1, <2>2, <2>3 DEF EveryoneCovered, Covered
  <2> QED
    BY <1>4, <1>7, <2>4 DEF OfProcess, EveryoneCovered
<1> QED
  BY <1>1, <1>3, <1>5, <1>6, <1>7, Steps DEF OfProcess

(* Between Shutdown's sweep and the look each new connection takes at closing,
   no registered connection is left without its GoingAway frame (Shutdown's
   Range over wsConns, and closing.Load after RegisterWSConn). *)
THEOREM NobodyMissed == Spec => []NobodyIsMissed
<1> DEFINE SInv == Stages /\ Registered /\ EveryoneCovered
<1>1. Init => SInv
  <2> SUFFICES ASSUME Init PROVE SInv
    OBVIOUS
  <2>1. ~closing /\ up = "serving" /\ swept = {} /\ wsConns = {}
    BY DEF Init
  <2> QED
    BY <2>1 DEF Stages, Registered, EveryoneCovered
<1>2. TypeOK /\ SInv /\ [Next]_vars => SInv'
  <2> SUFFICES ASSUME TypeOK, SInv, [Next]_vars PROVE SInv'
    OBVIOUS
  <2>1. CASE Next
    BY <2>1, TypesAreTypeOK, NextStages, NextCovered DEF Types
  <2>2. CASE UNCHANGED vars
    <3>1. closing' = closing
      BY <2>2 DEF vars, server
    <3>2. UNCHANGED <<wsConns, handler, frame, closers, up, must, swept>>
      BY <2>2 DEF vars, server, sweep, goroutines
    <3> QED
      BY <3>1, <3>2 DEF Stages, Registered, EveryoneCovered, Covered
  <2> QED
    BY <2>1, <2>2
<1>3. SInv => NobodyIsMissed
  BY DEF EveryoneCovered, Covered, NobodyIsMissed
<1> QED
  BY <1>1, <1>2, <1>3, TypeCorrect, PTL DEF Spec

-----------------------------------------------------------------------------
(* The frame an observer sees.  A writer says goodbye only after its
   subscription has ended, and whoever cancels has said something first. *)

Quiet ==
    \A c \in Conns :
        /\ handler[c] = "new" => writer[c] = "on"
        /\ writer[c] = "normal" => subCh[c] = "closed"
        /\ cancelled[c] => frame[c] # "none"

Parting ==
    \A c \in during :
        /\ closing
        /\ writer[c] # "normal"
        /\ frame[c] \notin {"normal", "abrupt"}

(* What a step of one connection does to a connection's writer. *)
LEMMA ConnWriter ==
    ASSUME Types, Quiet, NEW c \in Conns, OfConn(c), NEW d \in Conns
    PROVE  /\ handler'[d] = "new" => writer'[d] = "on"
           /\ writer'[d] = "normal" => subCh'[d] = "closed"
           /\ writer'[d] = "normal" /\ writer[d] # "normal" => ~closing
<1>1. CASE SubscribeObserver(c)
  <2>1. writer' = writer
    BY <1>1 DEF SubscribeObserver
  <2>2. handler[c] = "new" /\ handler' = [handler EXCEPT ![c] = "subscribed"]
        /\ subCh' = [subCh EXCEPT ![c] = "queued"]
    BY <1>1 DEF SubscribeObserver
  <2> QED
    BY <2>1, <2>2 DEF Quiet, Types, HandlerType, StreamType
<1>2. CASE HandleSubscribe(c)
  <2>1. writer' = writer /\ handler' = handler
    BY <1>2 DEF HandleSubscribe, goroutines
  <2>2. subCh[c] = "queued" /\ subCh' = [subCh EXCEPT ![c] = "open"]
    BY <1>2 DEF HandleSubscribe
  <2> QED
    BY <2>1, <2>2 DEF Quiet, Types, StreamType
<1>3. CASE \/ Accept(c) \/ AcceptFails(c) \/ RegisterWSConn(c) \/ StartRun(c) \/ SelfClose(c)
           \/ RunEnds(c) \/ UnregisterWSConn(c)
  <2>1. writer' = writer /\ subCh' = subCh
    BY <1>3 DEF Accept, AcceptFails, RegisterWSConn, StartRun, SelfClose, RunEnds, UnregisterWSConn
  <2>2. handler'[d] = "new" => handler[d] = "new"
    BY <1>3 DEF Accept, AcceptFails, RegisterWSConn, StartRun, SelfClose, RunEnds, UnregisterWSConn,
                selfCheck, Types, HandlerType
  <2> QED
    BY <2>1, <2>2 DEF Quiet
<1>4. CASE CloseReaderEnds(c) \/ ClientCloses(c) \/ GoingAway(c) \/ Sweep(c)
  <2>1. writer' = writer /\ subCh' = subCh /\ handler' = handler
    BY <1>4 DEF CloseReaderEnds, ClientCloses, GoingAway, Sweep, goroutines
  <2> QED
    BY <2>1 DEF Quiet
<1>5. ASSUME writer' = [writer EXCEPT ![c] = "off"], handler' = handler, subCh' = subCh,
             handler[c] = "running"
      PROVE  /\ handler'[d] = "new" => writer'[d] = "on"
             /\ writer'[d] = "normal" => subCh'[d] = "closed"
             /\ writer'[d] = "normal" => writer[d] = "normal"
  BY <1>5 DEF Quiet, Types, StreamType
<1>6. CASE WriteFails(c) \/ WriteCloseCode(c) \/ WriterCloses(c)
  <2>1. writer' = [writer EXCEPT ![c] = "off"] /\ handler' = handler /\ subCh' = subCh
        /\ handler[c] = "running"
    BY <1>6 DEF WriteFails, WriteCloseCode, WriterCloses, writerOff, runs
  <2> QED
    BY <1>5, <2>1
<1>7. CASE SubscriptionEnds(c)
  <2>1. handler[c] = "running" /\ subCh[c] = "closed" /\ handler' = handler /\ subCh' = subCh
    BY <1>7 DEF SubscriptionEnds, cancelsUnlessClosing, writerOff, runs
  <2>2. CASE cancelsUnlessClosing(c)
    BY <1>5, <2>1, <2>2 DEF cancelsUnlessClosing, writerOff
  <2>3. CASE ~cancelsUnlessClosing(c)
    <3>1. ~closing
      BY <1>7, <2>3 DEF SubscriptionEnds
    <3>2. writer' = [writer EXCEPT ![c] = "normal"]
      BY <1>7, <2>3 DEF SubscriptionEnds
    <3> QED
      BY <2>1, <3>1, <3>2 DEF Quiet, Types, StreamType
  <2> QED
    BY <2>2, <2>3
<1> QED
  BY <1>1, <1>2, <1>3, <1>4, <1>6, <1>7 DEF OfConn

LEMMA ConnQuiet ==
    ASSUME Types, Quiet, NEW c \in Conns, OfConn(c)
    PROVE  Quiet'
<1>1. ASSUME NEW d \in Conns PROVE cancelled'[d] => frame'[d] # "none"
  <2>1. CASE frame[d] # "none"
    BY <2>1, FrameStays DEF Types
  <2>2. CASE frame[d] = "none"
    <3>1. ~cancelled[d]
      BY <2>2 DEF Quiet
    <3>2. CASE c = d /\ (WriteFails(c) \/ WriteCloseCode(c) \/ WriterCloses(c))
      BY <2>2, <3>2 DEF WriteFails, WriteCloseCode, WriterCloses, say, Types, StreamType
    <3>3. CASE ~(c = d /\ (WriteFails(c) \/ WriteCloseCode(c) \/ WriterCloses(c)))
      <4>1. \/ cancelled' = cancelled
            \/ cancelled' = [cancelled EXCEPT ![c] = @ \/ FALSE]
            \/ c # d /\ \E b \in BOOLEAN : cancelled' = [cancelled EXCEPT ![c] = @ \/ b]
        <5>1. CASE c # d
          BY <5>1, ConnCancel DEF writerOff
        <5>2. CASE c = d
          <6>1. CASE SubscriptionEnds(c)
            BY <6>1 DEF SubscriptionEnds, cancelsUnlessClosing, writerOff
          <6>2. CASE ~SubscriptionEnds(c)
            BY <3>3, <5>2, <6>2 DEF OfConn, SubscribeObserver, Accept, AcceptFails, RegisterWSConn,
               StartRun, SelfClose, CloseReaderEnds, RunEnds, UnregisterWSConn, ClientCloses,
               HandleSubscribe, GoingAway, Sweep, goroutines
          <6> QED
            BY <6>1, <6>2
        <5> QED
          BY <5>1, <5>2
      <4>2. CASE cancelled' = cancelled
        BY <3>1, <4>2
      <4>3. CASE cancelled' = [cancelled EXCEPT ![c] = @ \/ FALSE]
        BY <3>1, <4>3 DEF Types, CancelType
      <4>4. CASE c # d /\ \E b \in BOOLEAN : cancelled' = [cancelled EXCEPT ![c] = @ \/ b]
        BY <3>1, <4>4 DEF Types, CancelType
      <4> QED
        BY <4>1, <4>2, <4>3, <4>4
    <3> QED
      BY <3>2, <3>3
  <2> QED
    BY <2>1, <2>2
<1> QED
  BY <1>1, ConnWriter DEF Quiet

LEMMA ConnParting ==
    ASSUME Types, Quiet, Parting, NEW c \in Conns, OfConn(c)
    PROVE  Parting'
<1>1. during' = during
  BY ConnSession
<1>2. closing' = closing
  BY ConnSession
<1> SUFFICES ASSUME NEW d \in during
             PROVE  closing' /\ writer'[d] # "normal" /\ frame'[d] \notin {"normal", "abrupt"}
  BY <1>1 DEF Parting
<1>3. closing /\ writer[d] # "normal" /\ frame[d] \notin {"normal", "abrupt"} /\ d \in Conns
  BY DEF Parting, Types, SessionType
<1>4. writer'[d] # "normal"
  BY <1>3, ConnWriter
<1>5. frame'[d] \notin {"normal", "abrupt"}
  <2>1. CASE frame[d] # "none"
    BY <1>3, <2>1, FrameStays DEF Types
  <2>2. CASE CloseReaderEnds(c) /\ frame[d] = "none"
    <3>1. c # d
      BY <1>3, <2>2 DEF CloseReaderEnds, Quiet
    <3> QED
      BY <1>3, <2>2, <3>1 DEF CloseReaderEnds, say, Types, StreamType
  <2>3. CASE WriterCloses(c)
    BY <1>3, <2>3 DEF WriterCloses, say, Types, StreamType
  <2>4. CASE UnregisterWSConn(c)
    BY <1>3, <2>4 DEF UnregisterWSConn
  <2>5. CASE ~CloseReaderEnds(c) /\ ~WriterCloses(c) /\ ~UnregisterWSConn(c)
    BY <1>3, <2>5 DEF OfConn, SubscribeObserver, Accept, AcceptFails, RegisterWSConn, StartRun,
       SelfClose, WriteFails, WriteCloseCode, SubscriptionEnds, RunEnds, ClientCloses,
       HandleSubscribe, GoingAway, Sweep, cancelsUnlessClosing, writerOff, say, Types, StreamType
  <2> QED
    BY <2>1, <2>2, <2>3, <2>4, <2>5
<1> QED
  BY <1>2, <1>3, <1>4, <1>5

LEMMA SessionParting ==
    ASSUME Types, Quiet, Parting, NEW s \in Sessions, OfSession(s)
    PROVE  Quiet' /\ Parting'
<1>1. closing' = closing
  BY DEF OfSession, Create, Start, DeleteSession, SessionStops, server
<1>2. cancelled' = cancelled
  BY DEF OfSession, Create, Start, DeleteSession, SessionStops, goroutines
<1>3. writer' = writer /\ handler' = handler /\ frame' = frame
  BY DEF OfSession, Create, Start, DeleteSession, SessionStops, goroutines
<1>4. CASE Create(s) \/ Start(s) \/ DeleteSession(s)
  <2>1. subCh' = subCh /\ during' = during
    BY <1>4 DEF Create, Start, DeleteSession
  <2> QED
    BY <1>1, <1>2, <1>3, <2>1 DEF Quiet, Parting
<1>5. ASSUME NEW failing \in BOOLEAN, NEW lost \in SUBSET Conns, SessionStops(s, failing, lost)
      PROVE  Quiet' /\ Parting'
  <2>1. ASSUME NEW d \in Conns, subCh[d] = "closed" PROVE subCh'[d] = "closed"
    BY <1>5, <2>1 DEF SessionStops
  <2>2. Quiet'
    BY <1>2, <1>3, <2>1 DEF Quiet
  <2>3. ASSUME NEW d \in during', d \notin during
        PROVE  closing /\ frame[d] = "none" /\ subCh[d] \in {"open", "queued"} /\ d \in Conns
    BY <1>5, <2>3 DEF SessionStops
  <2>4. Parting'
    <3>1. ASSUME NEW d \in during'
          PROVE  closing /\ writer[d] # "normal" /\ frame[d] \notin {"normal", "abrupt"}
      <4>1. CASE d \in during
        BY <4>1 DEF Parting
      <4>2. CASE d \notin during
        BY <2>3, <4>2 DEF Quiet
      <4> QED
        BY <4>1, <4>2
    <3> QED
      BY <1>1, <1>3, <3>1 DEF Parting
  <2> QED
    BY <2>2, <2>4
<1> QED
  BY <1>4, <1>5 DEF OfSession

LEMMA ProcessParting ==
    ASSUME Types, Quiet, Parting, OfProcess
    PROVE  Quiet' /\ Parting'
<1>1. closing' = closing \/ closing' = TRUE
  BY DEF OfProcess, ServeFails, ShutdownBegins, SweepEnds, GraceEnds, CloseListener, Exit
<1>2. cancelled' = cancelled
  BY DEF OfProcess, ServeFails, ShutdownBegins, SweepEnds, GraceEnds, CloseListener, Exit, goroutines
<1>3. UNCHANGED <<handler, writer, frame, subCh, during>>
  BY DEF OfProcess, ServeFails, ShutdownBegins, SweepEnds, GraceEnds, CloseListener, Exit, goroutines
<1> QED
  BY <1>1, <1>2, <1>3 DEF Quiet, Parting

(* An observer whose subscription ends under the shutdown is not told that its
   game ended normally and is not cut off (the writer's look at closing, and
   UnregisterWSConn without a close). *)
THEOREM ShutdownSaid == Spec => []ShutdownIsSaid
<1> DEFINE PInv == Quiet /\ Parting
<1>1. Init => PInv
  <2> SUFFICES ASSUME Init PROVE PInv
    OBVIOUS
  <2>1. \A c \in Conns : ~cancelled[c]
    BY DEF Init
  <2>2. during = {} /\ \A c \in Conns : writer[c] = "on"
    BY DEF Init
  <2> QED
    BY <2>1, <2>2 DEF Quiet, Parting
<1>2. TypeOK /\ PInv /\ [Next]_vars => PInv'
  <2> SUFFICES ASSUME TypeOK, PInv, [Next]_vars PROVE PInv'
    OBVIOUS
  <2> USE TypesAreTypeOK
  <2>1. ASSUME NEW c \in Conns, OfConn(c) PROVE PInv'
    BY <2>1, ConnQuiet, ConnParting
  <2>2. ASSUME NEW s \in Sessions, OfSession(s) PROVE PInv'
    BY <2>2, SessionParting
  <2>3. CASE OfProcess
    BY <2>3, ProcessParting
  <2>4. CASE UNCHANGED vars
    <3>1. closing' = closing /\ cancelled' = cancelled
      BY <2>4 DEF vars, server, goroutines
    <3>2. UNCHANGED <<handler, writer, frame, subCh, during>>
      BY <2>4 DEF vars, goroutines
    <3> QED
      BY <3>1, <3>2 DEF Quiet, Parting
  <2> QED
    BY <2>1, <2>2, <2>3, <2>4, Steps
<1>3. PInv => ShutdownIsSaid
  BY DEF Parting, ShutdownIsSaid
<1> QED
  BY <1>1, <1>2, <1>3, TypeCorrect, PTL DEF Spec

=============================================================================
