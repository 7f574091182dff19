----------------------------- MODULE ClientLink -----------------------------
(***************************************************************************)
(* One player's connection seen from the client: client.Conn               *)
(* (internal/client/ws.go), the two server channels its messages come      *)
(* from, and as much of the single-human session behind them as a client   *)
(* can tell apart.  ScriptClient and TerminalClient put their programs on  *)
(* top of it.                                                              *)
(*                                                                         *)
(* The server's writer picks either channel when both have something, so   *)
(* that only the order within a channel is kept.  What is on the wire or   *)
(* in the writer's hands is counted as still in its channel.               *)
(*                                                                         *)
(* The game moves from a table to any table that may follow it: whose turn *)
(* it is and whether the phase is one in which that seat may act.  An      *)
(* interlude is a deal, a trick_complete or a round_complete snapshot.     *)
(*                                                                         *)
(* A client may come back: its old connection has then ended, as           *)
(* PlayerConnection describes, and only a command may still be on its way. *)
(***************************************************************************)
EXTENDS Naturals, Sequences

CONSTANTS
    Moves,   \* bound: steps of the game before it heads for its end
    SubCap   \* capacity of the subscription channel

ASSUME LinkAssumption == Moves \in Nat /\ SubCap \in Nat \ {0}

VARIABLES
    human,      \* the session has a human seat, ours
    life,       \* the session: none, draft, live, grace, over or broken
    seq, phase, paused,
    mine,       \* the turn is our seat's
    armed,      \* waitingForHuman: the turn timeout is running
    left,       \* moves left
    movedAt,    \* the seq of the last move
    cache,      \* actionIDs: the ids of accepted actions
    subscribed, subCh, outCh,
    entry,      \* the subscription: registered, drained or stranded
    up,         \* commands on their way to the session
    maxSeen,    \* Conn.maxSeenSeq
    shown,      \* the newest snapshot ReadSnapshot has returned
    client,     \* which process sits at the seat: 1, 2, ...
    lost,       \* history: a snapshot was dropped
    skipped,    \* history: an error message made the client discard a newer table
    swallowed,  \* history: a command was taken for a replay of another process
    overtaken   \* history: a refused command of a former process stopped the timer

table == <<phase, paused, mine, armed, left, movedAt>>
conn == <<maxSeen, shown>>
session == <<human, life, seq, table, cache>>
channels == <<subscribed, entry, subCh, outCh>>
answers == <<swallowed, overtaken>>
history == <<lost, skipped, answers>>
link == <<session, channels, up, conn, client, history>>

Playable == {"passing", "playing"}
Phases == Playable \cup {"interlude", "game_over"}
Gameplay == {"pass_cards", "play_card"}
Commands == Gameplay \cup {"pause", "resume"}

snapshot == [type |-> "snapshot", seq |-> seq, mine |-> mine,
             phase |-> IF paused THEN "paused" ELSE phase]

error(code, s) == [type |-> "error", code |-> code, seq |-> s]

full == Len(subCh) = SubCap

(* sendNonBlocking. *)
push(m) ==
    /\ subCh' = IF subscribed /\ ~full THEN Append(subCh, m) ELSE subCh
    /\ lost' = (lost \/ (subscribed /\ full))
    /\ UNCHANGED <<subscribed, entry, skipped>>

broadcast == push(snapshot') /\ UNCHANGED answers

reply(c, ms) == outCh' = IF subscribed /\ c.by = client THEN outCh \o ms ELSE outCh

-----------------------------------------------------------------------------
(* The session. *)

follows(ph) ==
    IF left = 0 THEN CASE ph = "passing" -> {"playing"}
                       [] ph = "playing" -> {"interlude"}
                       [] ph = "interlude" -> {"game_over"}
    ELSE CASE ph = "passing" -> Playable
           [] ph = "playing" -> {"playing", "interlude"}
           [] ph = "interlude" -> Phases

(* Within a phase a seat does not act twice in a row. *)
moves ==
    \E ph \in follows(phase), m \in BOOLEAN :
        /\ m => human /\ ph # "game_over"
        /\ ~(m /\ mine /\ ph = phase /\ ph \in Playable)
        /\ phase' = ph
        /\ mine' = m
        /\ armed' = (m /\ ph \in Playable)
        /\ life' = IF ph = "game_over" THEN "grace" ELSE life
        /\ left' = IF left = 0 THEN 0 ELSE left - 1
        /\ seq' = seq + 1
        /\ movedAt' = seq'
        /\ UNCHANGED <<human, paused>>

(* An AI's move, or the end of a display pause. *)
AIMoves ==
    /\ life = "live"
    /\ ~paused
    /\ ~(mine /\ phase \in Playable)
    /\ moves
    /\ UNCHANGED <<cache, outCh, up, conn, client>>
    /\ broadcast

TurnTimeout ==
    /\ life = "live"
    /\ armed
    /\ ~paused
    /\ moves
    /\ UNCHANGED <<cache, outCh, up, conn, client>>
    /\ broadcast

arrived == IF up = <<>> THEN {} ELSE {Head(up)}

(* A command that comes in an interlude waits: the session sleeps, or      *)
(* defers it to the end of the deal.                                       *)
serves(c) ==
    /\ life = "live" /\ phase # "interlude"
    /\ c = Head(up)
    /\ up' = Tail(up)

pausable == armed /\ ~paused

unchangedBut == UNCHANGED <<human, life, phase, mine, left, movedAt, cache, conn, client>>

(* handlePauseCmd, handleResumeCmd: they ask for no seq. *)
SetPaused ==
    \E c \in arrived :
        /\ serves(c)
        /\ \/ c.type = "pause" /\ pausable
           \/ c.type = "resume" /\ paused
        /\ paused' = ~paused
        /\ seq' = seq + 1
        /\ UNCHANGED <<armed, outCh>>
        /\ unchangedBut
        /\ broadcast

RefusePause ==
    \E c \in arrived :
        /\ serves(c)
        /\ \/ c.type = "pause" /\ ~pausable
           \/ c.type = "resume" /\ ~paused
        /\ reply(c, <<error("pause_not_allowed", seq)>>)
        /\ UNCHANGED <<seq, paused, armed, subscribed, entry, subCh, history>>
        /\ unchangedBut

(* A gameplay command of the seat in turn stops the timer before anything  *)
(* is asked of it; only an accepted one starts it again.                   *)
refuse(c) ==
    /\ serves(c)
    /\ c.type \in Gameplay
    /\ armed' = (armed /\ paused)
    /\ overtaken' = (overtaken \/ (armed' # armed /\ c.by # client))
    /\ UNCHANGED <<seq, paused>>
    /\ unchangedBut

trustsSeq(c) == FALSE \* mutant: an action of any age is applied

stale(c) == c.seq < seq

errorFirst == <<error("stale_seq", seq), snapshot>> \* mutant: the order is swapped

resync == <<snapshot, error("stale_seq", seq)>>

RefuseStale ==
    \E c \in arrived :
        /\ refuse(c)
        /\ stale(c)
        /\ reply(c, resync)
        /\ UNCHANGED <<subscribed, entry, subCh, lost, skipped, swallowed>>

replays(c) == {r \in cache : r.id = c.id}

AnswerDuplicate ==
    \E c \in arrived :
        /\ refuse(c)
        /\ ~stale(c)
        /\ \E r \in replays(c) :
            /\ reply(c, <<r.snap>>)
            /\ swallowed' = (swallowed \/ r.by # c.by)
        /\ UNCHANGED <<subscribed, entry, subCh, lost, skipped>>

RefusePaused ==
    \E c \in arrived :
        /\ refuse(c)
        /\ ~stale(c) /\ replays(c) = {}
        /\ paused
        /\ reply(c, <<error("game_paused", seq)>>)
        /\ UNCHANGED <<subscribed, entry, subCh, lost, skipped, swallowed>>

reaches(c) == ~stale(c) /\ replays(c) = {} /\ ~paused

phaseOf == [pass_cards |-> "passing", play_card |-> "playing"]

(* HandleAction takes a pass from any seat while the cards are passed.     *)
accepts(c) == phase = phaseOf[c.type] /\ (c.type = "play_card" => mine)

(* Cards chosen before the last move may or may not be legal after it.     *)
outdated(c) == c.saw < movedAt

(* A pass of the wrong number of cards is not looked at further.           *)
rejections(c) ==
    IF ~c.fit THEN {"malformed_message"}
    ELSE IF phase # phaseOf[c.type] THEN {"wrong_phase"}
    ELSE IF ~accepts(c) THEN {"out_of_turn"}
    ELSE IF outdated(c) THEN {"illegal_move"}
    ELSE {}

(* handleRejectedAction says it twice, and says it to the subscriber of    *)
(* the moment.                                                             *)
RejectAction ==
    \E c \in arrived :
        /\ refuse(c)
        /\ reaches(c)
        /\ \E code \in rejections(c) :
            /\ push(error(code, seq))
            /\ reply(c, <<error(code, seq)>>)
        /\ UNCHANGED swallowed

AcceptAction ==
    \E c \in arrived :
        /\ serves(c)
        /\ c.type \in Gameplay
        /\ reaches(c)
        /\ accepts(c)
        /\ moves
        /\ UNCHANGED <<outCh, conn, client>>
        /\ broadcast
        /\ cache' = cache \cup {[id |-> c.id, by |-> c.by, snap |-> snapshot']}

(* The command queue is full, of whatever the session has not read yet.    *)
QueueFull ==
    \E c \in arrived :
        /\ life \in {"live", "grace"}
        /\ up' = Tail(up)
        /\ reply(c, <<error("internal_error", 0)>>)
        /\ UNCHANGED <<session, subscribed, entry, subCh, conn, client, history>>

GraceEnds ==
    /\ life = "grace"
    /\ life' = "over"
    /\ UNCHANGED <<human, seq, table, cache, channels, up, conn, client, history>>

(* The session is deleted, fails or is shut down, in the grace period too. *)
Break ==
    /\ life \in {"live", "grace"}
    /\ life' = "broken"
    /\ UNCHANGED <<human, seq, table, cache, channels, up, conn, client, history>>

(* drainCmds tells what it finds in the queue that the game is over,       *)
(* however the session has ended; what comes later is told that the        *)
(* session is not active.                                                  *)
LateCommand ==
    \E c \in arrived, code \in {"game_over", "internal_error"} :
        /\ life \in {"over", "broken"}
        /\ up' = Tail(up)
        /\ reply(c, <<error(code, IF code = "game_over" THEN seq ELSE 0)>>)
        /\ UNCHANGED <<session, subscribed, entry, subCh, conn, client, history>>

Handlers ==
    \/ AIMoves
    \/ SetPaused \/ RefusePause
    \/ RefuseStale \/ AnswerDuplicate \/ RefusePaused
    \/ RejectAction \/ AcceptAction
    \/ QueueFull \/ GraceEnds \/ LateCommand

-----------------------------------------------------------------------------
(* client.Conn. *)

(* handlePlayerWS subscribes before it upgrades; the session answers with  *)
(* the snapshot of the moment.  A subscription that comes after the game   *)
(* waits in the queue for drainCmds, which closes its channel, or, sent    *)
(* when drainCmds has seen the queue empty, waits for nothing.             *)
Connect ==
    /\ subscribed' = TRUE
    /\ \/ life = "live" /\ subCh' = <<snapshot>> /\ entry' = "registered"
       \/ life = "grace" /\ subCh' = <<>> /\ entry' = "drained"
       \/ life \in {"over", "broken"} /\ subCh' = <<>> /\ entry' \in {"drained", "stranded"}
    /\ UNCHANGED <<session, outCh, up, conn, client, history>>

closedAtOnce == \* mutant: the writer leaves what is in the channel
    subscribed /\ entry # "stranded" /\ life \in {"over", "broken"}

(* A session that is shut down may leave its last messages unwritten.      *)
closed ==
    /\ subscribed /\ entry # "stranded"
    /\ life = "broken" \/ (life = "over" /\ subCh = <<>>)

(* The server has closed the WebSocket: with 1011 if the session failed,   *)
(* 1001 if the server goes away, 1000 otherwise.                           *)
closeCodes == {"normal", "goingAway"} \cup (IF life = "broken" THEN {"internal"} ELSE {})

(* One message is read.  After the close nothing is.                       *)
reads(m) ==
    /\ subscribed
    /\ \/ subCh # <<>> /\ m = Head(subCh) /\ subCh' = Tail(subCh) /\ UNCHANGED outCh
       \/ outCh # <<>> /\ m = Head(outCh) /\ outCh' = Tail(outCh) /\ UNCHANGED subCh
    /\ UNCHANGED <<subscribed, entry>>

readsClose(code) ==
    /\ closed
    /\ code \in closeCodes
    /\ subscribed' = FALSE
    /\ subCh' = <<>> /\ outCh' = <<>>
    /\ UNCHANGED entry

readable == {Head(q) : q \in {subCh, outCh} \ {<<>>}}

old(m) == m.type = "snapshot" /\ m.seq <= maxSeen

(* ReadSnapshot: the next snapshot that is newer than every message so     *)
(* far, or an error message.                                               *)
DiscardSnapshot ==
    \E m \in readable :
        /\ old(m)
        /\ reads(m)
        /\ skipped' = (skipped \/ m.seq > shown)
        /\ UNCHANGED <<session, up, conn, client, lost, answers>>

ReadSnapshot(m) ==
    /\ ~old(m)
    /\ reads(m)
    /\ maxSeen' = IF m.seq > maxSeen THEN m.seq ELSE maxSeen
    /\ shown' = IF m.type = "snapshot" THEN m.seq ELSE shown

(* A command; saw is the snapshot it was chosen on, and a pass of the      *)
(* wrong number of cards is not fit.                                       *)
newCommand(type, id, saw, fit) ==
    [type |-> type, seq |-> 0, id |-> id, by |-> client, saw |-> saw, fit |-> fit]

(* SendCommand stamps the command with what has been read by then, and     *)
(* writes it.                                                              *)
stamp(c) == [c EXCEPT !.seq = maxSeen']

write(c) == up' = Append(up, c)

(* The process is gone; the session resumes a paused game when it notices. *)
(* A command that is still on its way arrives or is lost with the socket.  *)
Leave ==
    /\ life = "live"
    /\ subscribed' = FALSE
    /\ subCh' = <<>>
    /\ outCh' = <<>>
    /\ up' \in {up, <<>>}
    /\ maxSeen' = 0 /\ shown' = 0
    /\ client' = client + 1
    /\ paused' = FALSE
    /\ seq' = IF paused THEN seq + 1 ELSE seq
    /\ UNCHANGED <<human, life, phase, mine, armed, left, movedAt, cache, entry, history>>

LinkInit ==
    /\ seq = 1 /\ phase = "interlude" /\ paused = FALSE
    /\ mine = FALSE /\ armed = FALSE /\ left = Moves /\ movedAt = 1
    /\ cache = {}
    /\ subscribed = FALSE /\ entry = "registered" /\ subCh = <<>> /\ outCh = <<>>
    /\ up = <<>> /\ maxSeen = 0 /\ shown = 0 /\ client = 1
    /\ lost = FALSE /\ skipped = FALSE /\ swallowed = FALSE /\ overtaken = FALSE

=============================================================================
