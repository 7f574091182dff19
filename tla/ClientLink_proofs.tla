------------------------- MODULE ClientLink_proofs -------------------------
(***************************************************************************)
(* What holds of a client's connection whatever program sits on top of it: *)
(* the invariant LinkInv, kept by every step of the session, of the        *)
(* connection and of the client that reads and writes it.                  *)
(***************************************************************************)
EXTENDS ClientLink, TLAPS, SequenceTheorems

Lives == {"none", "draft", "live", "grace", "over", "broken"}
Codes == {"stale_seq", "game_paused", "out_of_turn", "wrong_phase", "illegal_move",
          "malformed_message", "pause_not_allowed", "game_over", "internal_error"}
Snap == [type : {"snapshot"}, seq : Nat, mine : BOOLEAN, phase : Phases \cup {"paused"}]
Err == [type : {"error"}, seq : Nat, code : Codes]
Message == Snap \cup Err
Cmd == [type : Commands, seq : Nat, id : Nat, by : Nat \ {0}, saw : Nat,
        fit : BOOLEAN]
Replay == [id : Nat, by : Nat \ {0}, snap : Snap]

TableType ==
    /\ human \in BOOLEAN /\ life \in Lives /\ seq \in Nat \ {0}
    /\ phase \in Phases /\ paused \in BOOLEAN
    /\ mine \in BOOLEAN /\ armed \in BOOLEAN /\ left \in Nat /\ movedAt \in Nat
    /\ cache \subseteq Replay

ChannelType ==
    /\ subscribed \in BOOLEAN /\ entry \in {"registered", "drained", "stranded"}
    /\ subCh \in Seq(Message) /\ Len(subCh) <= SubCap
    /\ outCh \in Seq(Message)
    /\ up \in Seq(Cmd)

ConnType ==
    /\ maxSeen \in Nat /\ shown \in Nat /\ client \in Nat \ {0}
    /\ lost \in BOOLEAN /\ skipped \in BOOLEAN
    /\ swallowed \in BOOLEAN /\ overtaken \in BOOLEAN

LinkType == TableType /\ ChannelType /\ ConnType

queued == Range(subCh) \cup Range(outCh)

(* Nobody is ahead of the session. *)
Bounds ==
    /\ movedAt <= seq
    /\ shown <= maxSeen /\ maxSeen <= seq
    /\ \A m \in queued : m.seq <= seq
    /\ \A r \in cache : r.snap.seq <= seq
    /\ \A c \in Range(up) :
        /\ c.saw <= c.seq /\ c.seq <= seq /\ c.by <= client
        /\ c.by = client => c.seq <= maxSeen

(* The snapshot of the present number shows the present table, and a final
   board is final. *)
shows(m) ==
    /\ m.seq = seq => m.mine = mine /\ m.phase = IF paused THEN "paused" ELSE phase
    /\ m.phase = "game_over" => phase = "game_over"

Truth ==
    /\ \A m \in queued : m.type = "snapshot" => shows(m)
    /\ \A r \in cache : shows(r.snap)

(* The game is over when its session is, and a turn that is timed is one. *)
Course ==
    /\ life \in {"none", "draft", "live"} => phase # "game_over"
    /\ life \in {"grace", "over"} => phase = "game_over" /\ ~paused
    /\ armed => mine /\ phase \in Playable

(* The latest snapshot is on its way to a subscriber or has been read. *)
Fresh ==
    subscribed /\ entry = "registered" /\ ~lost /\ ~skipped =>
        shown = seq \/ \E m \in Range(subCh) : m.type = "snapshot" /\ m.seq = seq

(* What refuses an action that has passed the seq check. *)
RefusalCodes ==
    {"game_paused", "out_of_turn", "wrong_phase", "illegal_move", "malformed_message"}

(* An error says nothing newer than what has been read, except one of a
   session that is over, of a pause and of a command of another process, and
   stale_seq, which comes after the snapshot it is about. *)
Errors ==
    /\ \A m \in queued : m.type = "error" =>
        /\ m.code = "game_over" => life \in {"over", "broken"}
        /\ m.code = "internal_error" => m.seq = 0
        /\ client = 1 /\ m.code \in RefusalCodes => m.seq <= maxSeen
    /\ \A m \in Range(subCh) : m.type = "error" => m.code # "stale_seq"
    /\ \A i \in 1 .. Len(outCh) : outCh[i].type = "error" /\ outCh[i].code = "stale_seq" =>
        \/ outCh[i].seq <= maxSeen
        \/ \E j \in 1 .. i - 1 : outCh[j].type = "snapshot" /\ outCh[j].seq = outCh[i].seq

LinkInv == LinkType /\ Bounds /\ Truth /\ Course /\ Fresh /\ Errors

-----------------------------------------------------------------------------
(* Sequences: what is in one that has grown or shrunk. *)

LEMMA RangeEmpty == Range(<<>>) = {}
  BY DEF Range

LEMMA RangeOne ==
    ASSUME NEW e
    PROVE  Range(<<e>>) = {e}
  BY DEF Range

LEMMA RangeAppend ==
    ASSUME NEW S, NEW q \in Seq(S), NEW e \in S
    PROVE  Append(q, e) \in Seq(S) /\ Range(Append(q, e)) = Range(q) \cup {e}
  <1>1. Append(q, e) \in Seq(S) /\ <<e>> \in Seq(S) /\ Append(q, e) = q \o <<e>>
    BY AppendProperties, AppendIsConcat
  <1>2. Range(q \o <<e>>) = Range(q) \cup Range(<<e>>)
    BY <1>1, RangeConcatenation
  <1> QED BY <1>1, <1>2, RangeOne

LEMMA RangeTail ==
    ASSUME NEW S, NEW q \in Seq(S), q # <<>>
    PROVE  /\ Head(q) \in S /\ Tail(q) \in Seq(S) /\ Len(Tail(q)) = Len(q) - 1
           /\ Len(q) \in Nat /\ Len(q) >= 1 /\ Head(q) = q[1]
           /\ Range(q) = {Head(q)} \cup Range(Tail(q))
           /\ \A i \in 1 .. Len(Tail(q)) : Tail(q)[i] = q[i + 1] /\ i + 1 \in 1 .. Len(q)
  <1>1. /\ Head(q) \in S /\ Tail(q) \in Seq(S) /\ Len(Tail(q)) = Len(q) - 1
        /\ \A i \in 1 .. Len(Tail(q)) : Tail(q)[i] = q[i + 1]
    BY HeadTailProperties
  <1>2. Len(q) \in Nat /\ Len(q) >= 1 /\ Head(q) = q[1]
    BY EmptySeq, LenProperties
  <1>3. Range(q) = {q[i] : i \in 1 .. Len(q)}
    BY RangeEquality
  <1>4. Range(Tail(q)) = {Tail(q)[i] : i \in 1 .. Len(Tail(q))}
    BY <1>1, RangeEquality
  <1>5. \A e : e \in Range(q) => e \in {Head(q)} \cup Range(Tail(q))
    <2> SUFFICES ASSUME NEW i \in 1 .. Len(q), i # 1
                 PROVE  q[i] \in Range(Tail(q))
      BY <1>2, <1>3
    <2>1. i - 1 \in 1 .. Len(Tail(q)) /\ Tail(q)[i - 1] = q[i - 1 + 1] /\ i - 1 + 1 = i
      BY <1>1, <1>2
    <2> QED BY <2>1, <1>4
  <1>6. \A e : e \in {Head(q)} \cup Range(Tail(q)) => e \in Range(q)
    BY <1>1, <1>2, <1>3, <1>4
  <1> QED BY <1>1, <1>2, <1>5, <1>6

LEMMA RangeIndex ==
    ASSUME NEW S, NEW q \in Seq(S)
    PROVE  /\ Range(q) \subseteq S
           /\ \A i \in 1 .. Len(q) : q[i] \in Range(q)
           /\ \A e \in Range(q) : \E i \in 1 .. Len(q) : e = q[i]
  BY RangeOfSeq, RangeEquality

-----------------------------------------------------------------------------
(* What a step of the session is to a client. *)

(* The table has changed and everybody is told. *)
Publishes ==
    /\ life = "live" /\ life' \in {"live", "grace"}
    /\ phase' \in Phases /\ paused' \in BOOLEAN /\ mine' \in BOOLEAN /\ left' \in Nat
    /\ life' = "grace" <=> phase' = "game_over"
    /\ life' = "grace" => ~paused'
    /\ \/ paused' = paused
       \/ up # <<>> /\ Head(up).type \in {"pause", "resume"}
    /\ armed' \in BOOLEAN /\ (armed' => mine' /\ phase' \in Playable)
    /\ seq' = seq + 1 /\ movedAt' \in {movedAt, seq'}
    /\ \/ up' = up
       \/ up # <<>> /\ up' = Tail(up)
    /\ \/ cache' = cache
       \/ /\ up # <<>> /\ up' = Tail(up)
          /\ Head(up).type \in Gameplay /\ reaches(Head(up))
          /\ cache' = cache \cup {[id |-> Head(up).id, by |-> Head(up).by, snap |-> snapshot']}
    /\ push(snapshot')
    /\ UNCHANGED <<human, outCh, conn, client, answers>>

(* The error a command may be refused with. *)
refusals(c) ==
    {e \in Err :
        \/ c.type \notin Gameplay /\ e.code = "pause_not_allowed" /\ e.seq = seq
        \/ /\ c.type \in Gameplay /\ ~stale(c) /\ replays(c) = {} /\ paused
           /\ e.code = "game_paused" /\ e.seq = seq
        \/ /\ c.type \in Gameplay /\ reaches(c) /\ phase # "interlude"
           /\ e.code \in rejections(c) /\ e.seq = seq
        \/ life \in {"over", "broken"} /\ e.code = "game_over" /\ e.seq = seq
        \/ e.code = "internal_error" /\ e.seq = 0}

answersTo(c) ==
    {<<e>> : e \in refusals(c)}
    \cup {<<r.snap>> : r \in {r \in replays(c) : c.type \in Gameplay /\ ~stale(c)}}
    \cup {ms \in {resync} : c.type \in Gameplay /\ stale(c)}

(* A command is answered and nothing else happens. *)
Answers(ms) ==
    /\ up # <<>> /\ up' = Tail(up)
    /\ ms \in answersTo(Head(up))
    /\ reply(Head(up), ms)
    /\ \/ UNCHANGED <<subCh, lost>>
       \/ \E e \in Err : /\ ms = <<e>> /\ e.code \in rejections(Head(up)) /\ e.seq = seq
                         /\ Head(up).type \in Gameplay /\ reaches(Head(up)) /\ push(e)
    /\ armed' \in BOOLEAN /\ (armed' => armed)
    /\ overtaken' \in BOOLEAN /\ swallowed' \in BOOLEAN
    /\ UNCHANGED <<human, life, seq, phase, paused, mine, left, movedAt, cache, conn, client,
                   subscribed, entry, skipped>>

(* The session ends. *)
Ends ==
    /\ \/ life \in {"live", "grace"} /\ life' = "broken"
       \/ life = "grace" /\ life' = "over"
    /\ UNCHANGED <<human, seq, table, cache, channels, up, conn, client, history>>

(* Nothing but the session's life goes on, or ends. *)
Passes ==
    /\ life' \in Lives /\ human' \in BOOLEAN
    /\ life' \in {"none", "draft", "live"} => phase # "game_over"
    /\ life' \in {"grace", "over"} => phase = "game_over" /\ ~paused
    /\ life \in {"over", "broken"} => life' = life
    /\ UNCHANGED <<seq, table, cache, channels, up, conn, client, history>>

LEMMA Arrived ==
    ASSUME LinkType, NEW c \in arrived
    PROVE  up # <<>> /\ c = Head(up) /\ c \in Cmd /\ Tail(up) \in Seq(Cmd)
  BY RangeTail DEF LinkType, ChannelType, arrived

LEMMA FollowsPhases ==
    ASSUME NEW ph \in follows(phase), phase \in Phases, phase # "game_over"
    PROVE  ph \in Phases
  <1>1. CASE phase = "passing"
    <2>1. follows(phase) = IF left = 0 THEN {"playing"} ELSE Playable
      BY <1>1, Zenon DEF follows
    <2> QED BY <2>1 DEF Phases, Playable
  <1>2. CASE phase = "playing"
    <2>1. phase # "passing"
      BY <1>2
    <2>2. follows(phase) = IF left = 0 THEN {"interlude"} ELSE {"playing", "interlude"}
      BY <1>2, <2>1, Zenon DEF follows
    <2> QED BY <2>2 DEF Phases, Playable
  <1>3. CASE phase = "interlude"
    <2>1. phase # "passing" /\ phase # "playing"
      BY <1>3
    <2>2. follows(phase) = IF left = 0 THEN {"game_over"} ELSE Phases
      BY <1>3, <2>1, Zenon DEF follows
    <2> QED BY <2>2 DEF Phases, Playable
  <1> QED BY <1>1, <1>2, <1>3 DEF Phases, Playable

LEMMA MovesTable ==
    ASSUME LinkInv, life = "live", moves
    PROVE  /\ life' \in {"live", "grace"}
           /\ phase' \in Phases /\ paused' \in BOOLEAN /\ mine' \in BOOLEAN /\ left' \in Nat
           /\ life' = "grace" <=> phase' = "game_over"
           /\ armed' \in BOOLEAN /\ (armed' => mine' /\ phase' \in Playable)
           /\ seq' = seq + 1 /\ movedAt' \in {movedAt, seq'}
           /\ human' = human /\ paused' = paused
  <1>1. PICK ph \in follows(phase), m \in BOOLEAN :
            /\ phase' = ph
            /\ mine' = m
            /\ armed' = (m /\ ph \in Playable)
            /\ life' = IF ph = "game_over" THEN "grace" ELSE life
            /\ left' = IF left = 0 THEN 0 ELSE left - 1
            /\ seq' = seq + 1
            /\ movedAt' = seq'
            /\ UNCHANGED <<human, paused>>
    BY DEF moves
  <1>2. ph \in Phases
    <2>1. phase \in Phases /\ phase # "game_over"
      BY DEF LinkInv, LinkType, TableType, Course
    <2> QED BY <2>1, FollowsPhases
  <1>3. left \in Nat /\ paused \in BOOLEAN
    BY DEF LinkInv, LinkType, TableType
  <1>4. /\ life' \in {"live", "grace"} /\ phase' \in Phases
        /\ life' = "grace" <=> phase' = "game_over"
        /\ left' \in Nat /\ seq' = seq + 1 /\ movedAt' \in {movedAt, seq'}
        /\ human' = human /\ paused' = paused
    BY <1>1, <1>2, <1>3
  <1>5. /\ paused' \in BOOLEAN /\ mine' \in BOOLEAN /\ armed' \in BOOLEAN
        /\ armed' => mine' /\ phase' \in Playable
    BY <1>1, <1>3, Zenon
  <1> QED BY <1>4, <1>5

LEMMA SessionStep ==
    ASSUME LinkInv, Handlers \/ TurnTimeout \/ Break
    PROVE  Publishes \/ Ends \/ \E ms : Answers(ms)
  <1>t. LinkType
    BY DEF LinkInv
  <1>1. ASSUME AIMoves \/ TurnTimeout PROVE Publishes
    <2>1. life = "live" /\ ~paused /\ moves /\ push(snapshot')
          /\ cache' = cache /\ up' = up /\ UNCHANGED <<outCh, conn, client>> /\ UNCHANGED answers
      BY <1>1 DEF AIMoves, TurnTimeout, broadcast
    <2>2. /\ life' \in {"live", "grace"}
          /\ phase' \in Phases /\ paused' \in BOOLEAN /\ mine' \in BOOLEAN /\ left' \in Nat
          /\ life' = "grace" <=> phase' = "game_over"
          /\ armed' \in BOOLEAN /\ (armed' => mine' /\ phase' \in Playable)
          /\ seq' = seq + 1 /\ movedAt' \in {movedAt, seq'}
          /\ human' = human /\ paused' = paused
      BY <2>1, MovesTable
    <2> QED BY <2>1, <2>2 DEF Publishes
  <1>2. ASSUME SetPaused PROVE Publishes
    <2>1. PICK c \in arrived :
            /\ serves(c)
            /\ c.type \in {"pause", "resume"}
            /\ paused' = ~paused
            /\ seq' = seq + 1
            /\ UNCHANGED <<armed, outCh>>
            /\ unchangedBut
            /\ broadcast
      BY <1>2 DEF SetPaused
    <2>2. up # <<>> /\ c = Head(up)
      BY <1>t, Arrived
    <2>3. /\ life \in {"live"} /\ phase \in Phases /\ mine \in BOOLEAN /\ left \in Nat
          /\ armed \in BOOLEAN /\ paused' \in BOOLEAN /\ phase # "game_over"
          /\ armed => mine /\ phase \in Playable
      BY <2>1 DEF LinkInv, LinkType, TableType, Course, serves
    <2> QED BY <2>1, <2>2, <2>3 DEF Publishes, serves, unchangedBut, broadcast
  <1>3. ASSUME AcceptAction PROVE Publishes
    <2>1. PICK c \in arrived :
            /\ serves(c)
            /\ c.type \in Gameplay
            /\ reaches(c)
            /\ moves
            /\ UNCHANGED <<outCh, conn, client>>
            /\ broadcast
            /\ cache' = cache \cup {[id |-> c.id, by |-> c.by, snap |-> snapshot']}
      BY <1>3 DEF AcceptAction
    <2>2. up # <<>> /\ c = Head(up)
      BY <1>t, Arrived
    <2>3. life = "live" /\ ~paused /\ up' = Tail(up)
      BY <2>1 DEF serves, reaches
    <2> QED BY <2>1, <2>2, <2>3, MovesTable DEF Publishes, broadcast
  <1>4. ASSUME GraceEnds \/ Break PROVE Ends
    BY <1>4 DEF GraceEnds, Break, Ends
  <1>5. ASSUME RefusePause PROVE \E ms : Answers(ms)
    <2>1. PICK c \in arrived :
            /\ serves(c)
            /\ c.type \in {"pause", "resume"}
            /\ reply(c, <<error("pause_not_allowed", seq)>>)
            /\ UNCHANGED <<seq, paused, armed, subscribed, entry, subCh, history>>
            /\ unchangedBut
      BY <1>5 DEF RefusePause
    <2>2. up # <<>> /\ c = Head(up)
      BY <1>t, Arrived
    <2>3. error("pause_not_allowed", seq) \in refusals(c)
      BY <1>t, <2>1 DEF refusals, error, Err, Codes, Gameplay, LinkType, TableType
    <2>4. armed \in BOOLEAN /\ overtaken \in BOOLEAN /\ swallowed \in BOOLEAN
      BY <1>t DEF LinkType, TableType, ConnType
    <2>5. Answers(<<error("pause_not_allowed", seq)>>)
      BY <2>1, <2>2, <2>3, <2>4 DEF Answers, answersTo, serves, unchangedBut, history, answers
    <2> QED BY <2>5
  <1>6. ASSUME RefuseStale PROVE \E ms : Answers(ms)
    <2>1. PICK c \in arrived :
            /\ refuse(c)
            /\ stale(c)
            /\ reply(c, resync)
            /\ UNCHANGED <<subscribed, entry, subCh, lost, skipped, swallowed>>
      BY <1>6 DEF RefuseStale
    <2>2. Answers(resync)
      BY <1>t, <2>1, Arrived DEF Answers, answersTo, refuse, serves, unchangedBut, LinkType,
         TableType, ConnType
    <2> QED BY <2>2
  <1>7. ASSUME AnswerDuplicate PROVE \E ms : Answers(ms)
    <2>1. PICK c \in arrived :
            /\ refuse(c)
            /\ ~stale(c)
            /\ \E r \in replays(c) :
                /\ reply(c, <<r.snap>>)
                /\ swallowed' = (swallowed \/ r.by # c.by)
            /\ UNCHANGED <<subscribed, entry, subCh, lost, skipped>>
      BY <1>7 DEF AnswerDuplicate
    <2>2. PICK r \in replays(c) :
            reply(c, <<r.snap>>) /\ swallowed' = (swallowed \/ r.by # c.by)
      BY <2>1
    <2>3. c.type \in Gameplay
      BY <2>1 DEF refuse
    <2>4. <<r.snap>> \in answersTo(c)
      BY <2>1, <2>2, <2>3 DEF answersTo
    <2>5. armed' \in BOOLEAN /\ (armed' => armed) /\ overtaken' \in BOOLEAN
          /\ swallowed' \in BOOLEAN
      BY <1>t, <2>1, <2>2 DEF refuse, LinkType, TableType, ConnType
    <2>6. Answers(<<r.snap>>)
      BY <1>t, <2>1, <2>2, <2>4, <2>5, Arrived DEF Answers, refuse, serves, unchangedBut
    <2> QED BY <2>6
  <1>8. ASSUME RefusePaused PROVE \E ms : Answers(ms)
    <2>1. PICK c \in arrived :
            /\ refuse(c)
            /\ ~stale(c) /\ replays(c) = {}
            /\ paused
            /\ reply(c, <<error("game_paused", seq)>>)
            /\ UNCHANGED <<subscribed, entry, subCh, lost, skipped, swallowed>>
      BY <1>8 DEF RefusePaused
    <2>2. error("game_paused", seq) \in refusals(c)
      BY <1>t, <2>1 DEF refusals, error, Err, Codes, refuse, LinkType, TableType
    <2>3. armed' \in BOOLEAN /\ (armed' => armed) /\ overtaken' \in BOOLEAN
          /\ swallowed' \in BOOLEAN
      BY <1>t, <2>1 DEF refuse, LinkType, TableType, ConnType
    <2>4. Answers(<<error("game_paused", seq)>>)
      BY <1>t, <2>1, <2>2, <2>3, Arrived DEF Answers, answersTo, refuse, serves, unchangedBut
    <2> QED BY <2>4
  <1>9. ASSUME RejectAction PROVE \E ms : Answers(ms)
    <2>1. PICK c \in arrived :
            /\ refuse(c)
            /\ reaches(c)
            /\ \E code \in rejections(c) :
                /\ push(error(code, seq))
                /\ reply(c, <<error(code, seq)>>)
            /\ UNCHANGED swallowed
      BY <1>9 DEF RejectAction
    <2>2. PICK code \in rejections(c) :
            /\ push(error(code, seq))
            /\ reply(c, <<error(code, seq)>>)
      BY <2>1
    <2> DEFINE e == error(code, seq)
    <2>3. code \in Codes
      BY DEF rejections, Codes
    <2>4. e \in Err /\ e.code = code /\ e.seq = seq
      BY <1>t, <2>3 DEF error, Err, LinkType, TableType
    <2>5. c.type \in Gameplay /\ phase # "interlude"
      BY <2>1 DEF refuse, serves
    <2>6. e \in refusals(c)
      BY <2>1, <2>4, <2>5 DEF refusals
    <2>7. armed' \in BOOLEAN /\ (armed' => armed) /\ overtaken' \in BOOLEAN
          /\ swallowed' \in BOOLEAN
      BY <1>t, <2>1 DEF refuse, LinkType, TableType, ConnType
    <2>8. UNCHANGED <<subscribed, entry, skipped>>
      BY <2>2 DEF push
    <2>9. push(e)
      BY <2>2
    <2>10. <<e>> \in answersTo(c)
      BY <2>6 DEF answersTo
    <2>11. up # <<>> /\ c = Head(up) /\ up' = Tail(up)
      BY <1>t, <2>1, Arrived DEF refuse, serves
    <2>12. UNCHANGED <<human, life, seq, phase, paused, mine, left, movedAt, cache, conn, client>>
      BY <2>1 DEF refuse, unchangedBut
    <2>13. \E e1 \in Err : /\ <<e>> = <<e1>> /\ e1.code \in rejections(c) /\ e1.seq = seq
                           /\ c.type \in Gameplay /\ reaches(c) /\ push(e1)
      BY <2>1, <2>4, <2>5, <2>9
    <2>14. reply(c, <<e>>)
      BY <2>2
    <2> HIDE DEF e
    <2>15. Answers(<<e>>)
      BY <2>7, <2>8, <2>10, <2>11, <2>12, <2>13, <2>14 DEF Answers
    <2> QED BY <2>15
  <1>10. ASSUME LateCommand PROVE \E ms : Answers(ms)
    <2>1. PICK c \in arrived, code \in {"game_over", "internal_error"} :
            /\ life \in {"over", "broken"}
            /\ up' = Tail(up)
            /\ reply(c, <<error(code, IF code = "game_over" THEN seq ELSE 0)>>)
            /\ UNCHANGED <<session, subscribed, entry, subCh, conn, client, history>>
      BY <1>10 DEF LateCommand
    <2> DEFINE e == error(code, IF code = "game_over" THEN seq ELSE 0)
    <2>2. /\ e \in Err /\ e.code = code
          /\ code = "game_over" => e.seq = seq
          /\ code = "internal_error" => e.seq = 0
      BY <1>t DEF error, Err, Codes, LinkType, TableType
    <2>3. e \in refusals(c)
      BY <2>1, <2>2 DEF refusals
    <2>4. <<e>> \in answersTo(c)
      BY <2>3 DEF answersTo
    <2>5. up # <<>> /\ c = Head(up) /\ up' = Tail(up) /\ reply(c, <<e>>)
      BY <1>t, <2>1, Arrived
    <2>6. armed \in BOOLEAN /\ overtaken \in BOOLEAN /\ swallowed \in BOOLEAN
      BY <1>t DEF LinkType, TableType, ConnType
    <2> HIDE DEF e
    <2>7. Answers(<<e>>)
      BY <2>1, <2>4, <2>5, <2>6 DEF Answers, session, table, history, answers
    <2> QED BY <2>7
  <1>11. ASSUME QueueFull PROVE \E ms : Answers(ms)
    <2>1. PICK c \in arrived :
            /\ up' = Tail(up)
            /\ reply(c, <<error("internal_error", 0)>>)
            /\ UNCHANGED <<session, subscribed, entry, subCh, conn, client, history>>
      BY <1>11 DEF QueueFull
    <2> DEFINE e == error("internal_error", 0)
    <2>2. e \in Err /\ e.code = "internal_error" /\ e.seq = 0
      BY DEF error, Err, Codes
    <2>3. <<e>> \in answersTo(c)
      BY <2>2 DEF refusals, answersTo
    <2>4. up # <<>> /\ c = Head(up) /\ up' = Tail(up) /\ reply(c, <<e>>)
      BY <1>t, <2>1, Arrived
    <2>5. armed \in BOOLEAN /\ overtaken \in BOOLEAN /\ swallowed \in BOOLEAN
      BY <1>t DEF LinkType, TableType, ConnType
    <2> HIDE DEF e
    <2>6. Answers(<<e>>)
      BY <2>1, <2>3, <2>4, <2>5 DEF Answers, session, table, history, answers
    <2> QED BY <2>6
  <1> QED BY <1>1, <1>2, <1>3, <1>4, <1>5, <1>6, <1>7, <1>8, <1>9, <1>10, <1>11 DEF Handlers

-----------------------------------------------------------------------------
(* Every step keeps LinkInv. *)

LEMMA LinkTypes ==
    ASSUME LinkType
    PROVE  /\ \A m \in queued : m \in Message /\ m.seq \in Nat
           /\ \A c \in Range(up) : c \in Cmd /\ c.type \in Commands /\ c.seq \in Nat
                                 /\ c.saw \in Nat /\ c.id \in Nat /\ c.by \in Nat \ {0}
           /\ \A r \in cache : r \in Replay /\ r.snap \in Snap /\ r.snap.seq \in Nat
                              /\ r.id \in Nat
  <1>1. Range(subCh) \subseteq Message /\ Range(outCh) \subseteq Message
    BY RangeIndex DEF LinkType, ChannelType
  <1>2. Range(up) \subseteq Cmd
    BY RangeIndex DEF LinkType, ChannelType
  <1>3. \A m \in Message : m.seq \in Nat
    BY DEF Message, Snap, Err
  <1>4. \A m \in queued : m \in Message /\ m.seq \in Nat
    BY <1>1, <1>3 DEF queued
  <1>5. \A c \in Cmd : /\ c.type \in Commands /\ c.seq \in Nat
                       /\ c.saw \in Nat /\ c.id \in Nat /\ c.by \in Nat \ {0}
    BY DEF Cmd
  <1>6. \A r \in cache : r \in Replay
    BY DEF LinkType, TableType
  <1>7. \A r \in Replay : r.snap \in Snap /\ r.snap.seq \in Nat /\ r.id \in Nat
    BY DEF Replay, Snap
  <1> QED BY <1>2, <1>4, <1>5, <1>6, <1>7

LEMMA LinkInitially ==
    ASSUME LinkInit, life \in {"none", "live"}, human \in BOOLEAN
    PROVE  LinkInv
  <1>1. subCh = <<>> /\ outCh = <<>> /\ up = <<>> /\ Len(subCh) = 0 /\ Len(outCh) = 0
    BY DEF LinkInit
  <1>2. queued = {} /\ Range(up) = {}
    BY <1>1, RangeEmpty DEF queued
  <1>3. LinkType
    <2>1. /\ paused \in BOOLEAN /\ mine \in BOOLEAN /\ armed \in BOOLEAN
          /\ subscribed \in BOOLEAN /\ lost \in BOOLEAN /\ skipped \in BOOLEAN
          /\ swallowed \in BOOLEAN /\ overtaken \in BOOLEAN
      BY Zenon DEF LinkInit
    <2>2. TableType
      BY <2>1, LinkAssumption DEF LinkInit, TableType, Lives, Phases
    <2>3. ChannelType
      BY <1>1, <2>1, LinkAssumption, EmptySeq DEF ChannelType, LinkInit
    <2>4. ConnType
      BY <2>1 DEF LinkInit, ConnType
    <2> QED BY <2>2, <2>3, <2>4 DEF LinkType
  <1>4. Bounds
    BY <1>2 DEF LinkInit, Bounds
  <1>5. Truth /\ Course /\ Fresh
    BY <1>2 DEF LinkInit, Truth, Course, Fresh
  <1>6. Errors
    BY <1>1, <1>2, RangeEmpty DEF Errors
  <1> QED BY <1>3, <1>4, <1>5, <1>6 DEF LinkInv

LEMMA PassesKeeps ==
    ASSUME LinkInv, Passes
    PROVE  LinkInv'
  <1> USE DEF Passes, LinkInv, table, channels, conn, history, answers
  <1>1. LinkType'
    BY DEF LinkType, TableType, ChannelType, ConnType
  <1>2. queued' = queued
    BY DEF queued
  <1>3. Bounds'
    BY <1>2 DEF Bounds
  <1>4. Truth'
    BY <1>2 DEF Truth, shows
  <1>5. Course'
    BY DEF Course
  <1>6. Fresh'
    BY DEF Fresh
  <1>7. Errors'
    BY <1>2 DEF Errors
  <1> QED BY <1>1, <1>3, <1>4, <1>5, <1>6, <1>7

(* sendNonBlocking of one message. *)
LEMMA Pushed ==
    ASSUME LinkType, NEW m \in Message, push(m)
    PROVE  /\ subCh' \in Seq(Message) /\ Len(subCh') <= SubCap
           /\ Range(subCh') \subseteq Range(subCh) \cup {m}
           /\ Range(subCh) \subseteq Range(subCh')
           /\ lost' \in BOOLEAN /\ UNCHANGED <<subscribed, entry, skipped>>
           /\ lost => lost'
           /\ subscribed /\ ~lost' => m \in Range(subCh')
  <1>1. CASE subscribed /\ ~full
    <2>1. subCh' = Append(subCh, m) /\ Len(subCh') = Len(subCh) + 1 /\ Len(subCh) \in Nat
          /\ subCh' \in Seq(Message) /\ Range(subCh') = Range(subCh) \cup {m}
      BY <1>1, RangeAppend, AppendProperties, LenProperties DEF push, LinkType, ChannelType
    <2>2. Len(subCh') <= SubCap
      BY <1>1, <2>1, LinkAssumption DEF full, LinkType, ChannelType
    <2> QED BY <1>1, <2>1, <2>2 DEF push, LinkType, ConnType
  <1>2. CASE ~(subscribed /\ ~full)
    BY <1>2 DEF push, LinkType, ChannelType, ConnType
  <1> QED BY <1>1, <1>2

LEMMA TailOfUp ==
    ASSUME LinkType, up # <<>>
    PROVE  /\ Head(up) \in Cmd /\ Tail(up) \in Seq(Cmd)
           /\ Head(up) \in Range(up)
           /\ Range(Tail(up)) \subseteq Range(up)
           /\ Range(up) = {Head(up)} \cup Range(Tail(up))
  BY RangeTail DEF LinkType, ChannelType

LEMMA PublishesKeeps ==
    ASSUME LinkInv, Publishes
    PROVE  LinkInv'
  <1>t. LinkType
    BY DEF LinkInv
  <1>n. seq \in Nat /\ seq' = seq + 1 /\ seq' \in Nat \ {0} /\ movedAt' \in Nat
        /\ movedAt' <= seq' /\ UNCHANGED <<human, outCh, maxSeen, shown, client, swallowed, overtaken>>
    BY <1>t DEF Publishes, LinkType, TableType, conn, answers, LinkInv, Bounds
  <1>s. /\ snapshot' \in Snap /\ snapshot'.type = "snapshot" /\ snapshot'.seq = seq'
        /\ snapshot'.mine = mine' /\ snapshot'.phase = IF paused' THEN "paused" ELSE phase'
    BY <1>n DEF snapshot, Snap, Publishes
  <1>p. /\ subCh' \in Seq(Message) /\ Len(subCh') <= SubCap
        /\ Range(subCh') \subseteq Range(subCh) \cup {snapshot'}
        /\ lost' \in BOOLEAN /\ UNCHANGED <<subscribed, entry, skipped>>
        /\ lost => lost'
        /\ subscribed /\ ~lost' => snapshot' \in Range(subCh')
    BY <1>t, <1>s, Pushed DEF Publishes, Message
  <1>q. queued' \subseteq queued \cup {snapshot'}
    BY <1>n, <1>p DEF queued
  <1>u. up' \in Seq(Cmd) /\ Range(up') \subseteq Range(up)
    BY <1>t, TailOfUp DEF Publishes, LinkType, ChannelType
  <1>c. /\ cache' \subseteq Replay
        /\ \A r \in cache' : r \in cache \/ r.snap = snapshot'
    <2>1. CASE cache' = cache
      BY <1>t, <2>1 DEF LinkType, TableType
    <2>2. CASE cache' # cache
      <3>1. up # <<>>
            /\ cache' = cache \cup {[id |-> Head(up).id, by |-> Head(up).by, snap |-> snapshot']}
        BY <2>2 DEF Publishes
      <3>2. Head(up).id \in Nat /\ Head(up).by \in Nat \ {0}
        BY <1>t, <3>1, TailOfUp DEF Cmd
      <3>3. [id |-> Head(up).id, by |-> Head(up).by, snap |-> snapshot'] \in Replay
        BY <1>s, <3>2 DEF Replay
      <3> QED BY <1>t, <3>1, <3>3 DEF LinkType, TableType
    <2> QED BY <2>1, <2>2
  <1>1. LinkType'
    <2>1. TableType'
      BY <1>n, <1>c, <1>t DEF Publishes, LinkType, TableType, Lives
    <2>2. ChannelType'
      BY <1>n, <1>p, <1>u, <1>t DEF LinkType, ChannelType
    <2>3. ConnType'
      BY <1>n, <1>p, <1>t DEF LinkType, ConnType
    <2> QED BY <2>1, <2>2, <2>3 DEF LinkType
  <1>2. Bounds'
    <2>1. \A m \in queued : m.seq \in Nat /\ m.seq <= seq
      BY <1>t, LinkTypes DEF LinkInv, Bounds
    <2>2. \A m \in queued' : m.seq <= seq'
      BY <1>n, <1>s, <1>q, <2>1
    <2>3. \A r \in cache : r.snap.seq \in Nat /\ r.snap.seq <= seq
      BY <1>t, LinkTypes DEF LinkInv, Bounds
    <2>4. \A r \in cache' : r.snap.seq <= seq'
      BY <1>n, <1>s, <1>c, <2>3
    <2>5. \A c \in Range(up) : c.seq \in Nat
      BY <1>t, LinkTypes
    <2>6. \A c \in Range(up') :
            /\ c.saw <= c.seq /\ c.seq <= seq' /\ c.by <= client'
            /\ c.by = client' => c.seq <= maxSeen'
      BY <1>n, <1>u, <2>5 DEF LinkInv, Bounds
    <2>7. shown' <= maxSeen' /\ maxSeen' <= seq'
      BY <1>n, <1>t DEF LinkInv, Bounds, LinkType, ConnType
    <2> QED BY <1>n, <2>2, <2>4, <2>6, <2>7 DEF Bounds
  <1>3. Truth'
    <2>1. \A m : m.seq \in Nat /\ m.seq <= seq /\ shows(m) => shows(m)'
      BY <1>n, <1>t DEF shows, LinkInv, Course, Publishes
    <2>2. shows(snapshot)'
      BY <1>s DEF shows
    <2>3. \A m \in queued : m.seq \in Nat /\ m.seq <= seq
      BY <1>t, LinkTypes DEF LinkInv, Bounds
    <2>4. \A r \in cache : r.snap.seq \in Nat /\ r.snap.seq <= seq
      BY <1>t, LinkTypes DEF LinkInv, Bounds
    <2>5. \A m \in queued' : m.type = "snapshot" => shows(m)'
      BY <1>q, <2>1, <2>2, <2>3 DEF LinkInv, Truth
    <2>6. \A r \in cache' : shows(r.snap)'
      BY <1>c, <2>1, <2>2, <2>4 DEF LinkInv, Truth
    <2> QED BY <2>5, <2>6 DEF Truth
  <1>4. Course'
    BY DEF Publishes, Course
  <1>5. Fresh'
    BY <1>n, <1>p, <1>s DEF Fresh
  <1>6. Errors'
    <2>1. \A m \in queued' : m.type = "error" => m \in queued
      BY <1>s, <1>q
    <2>2. \A m \in Range(subCh') : m.type = "error" => m \in Range(subCh)
      BY <1>s, <1>p
    <2> QED BY <1>n, <2>1, <2>2 DEF Errors, LinkInv, Publishes
  <1> QED BY <1>1, <1>2, <1>3, <1>4, <1>5, <1>6 DEF LinkInv

(* The messages a command is answered with. *)
LEMMA AnswerFacts ==
    ASSUME LinkInv, up # <<>>, NEW ms \in answersTo(Head(up))
    PROVE  /\ ms \in Seq(Message)
           /\ \A m \in Range(ms) :
                /\ m \in Message /\ m.seq \in Nat /\ m.seq <= seq
                /\ m.type = "snapshot" => shows(m)
                /\ m.type = "error" =>
                     /\ m.code = "game_over" => life \in {"over", "broken"}
                     /\ m.code = "internal_error" => m.seq = 0
                     /\ client = 1 /\ m.code \in RefusalCodes => m.seq <= maxSeen
           /\ \/ ms = resync
              \/ \A m \in Range(ms) : m.type = "error" => m.code # "stale_seq"
           /\ ms # resync => Len(ms) = 1
  <1> DEFINE c == Head(up)
  <1>t. LinkType /\ seq \in Nat /\ maxSeen \in Nat
    BY DEF LinkInv, LinkType, TableType, ConnType
  <1>h. /\ c \in Range(up) /\ c.seq \in Nat /\ c.seq <= seq
        /\ client = 1 => c.seq <= maxSeen
    BY <1>t, TailOfUp, LinkTypes DEF LinkInv, Bounds
  <1>f. ~stale(c) /\ client = 1 => seq <= maxSeen
    BY <1>t, <1>h DEF stale
  <1>1. CASE ms \in {<<e>> : e \in refusals(c)}
    <2>1. PICK e \in refusals(c) : ms = <<e>>
      BY <1>1
    <2>2. e \in Err /\ e.type = "error" /\ e.code \in Codes /\ e.seq \in Nat /\ e \in Message
      BY DEF refusals, Err, Message
    <2>3. e.seq \in {0, seq}
      BY DEF refusals
    <2>4. \/ e.code = "pause_not_allowed"
          \/ e.code = "game_paused" /\ ~stale(c)
          \/ e.code \in RefusalCodes /\ ~stale(c)
          \/ life \in {"over", "broken"} /\ e.code = "game_over"
          \/ e.code = "internal_error" /\ e.seq = 0
      BY DEF refusals, reaches, rejections, RefusalCodes
    <2>5. Range(ms) = {e} /\ ms \in Seq(Message) /\ Len(ms) = 1
      BY <2>1, <2>2, RangeOne
    <2>6. e.seq <= seq
      BY <2>3, <1>t
    <2>7. client = 1 /\ e.code \in RefusalCodes => e.seq <= maxSeen
      BY <2>3, <2>4, <1>f, <1>t DEF RefusalCodes
    <2>8. /\ e.code # "stale_seq"
          /\ e.code = "game_over" => life \in {"over", "broken"}
          /\ e.code = "internal_error" => e.seq = 0
      BY <2>4 DEF RefusalCodes
    <2> HIDE DEF c
    <2> QED BY <2>2, <2>5, <2>6, <2>7, <2>8 DEF c
  <1>2. CASE ms \in {<<r.snap>> : r \in {r \in replays(c) : c.type \in Gameplay /\ ~stale(c)}}
    <2>1. PICK r \in cache : ms = <<r.snap>>
      BY <1>2 DEF replays
    <2>2. r.snap \in Snap /\ r.snap \in Message /\ r.snap.seq \in Nat /\ r.snap.seq <= seq
          /\ shows(r.snap)
      BY <1>t, LinkTypes DEF LinkInv, Bounds, Truth, Message
    <2>3. r.snap.type = "snapshot"
      BY <2>2 DEF Snap
    <2>4. Range(ms) = {r.snap} /\ ms \in Seq(Message) /\ Len(ms) = 1
      BY <2>1, <2>2, RangeOne
    <2> HIDE DEF c
    <2> QED BY <2>2, <2>3, <2>4
  <1>3. CASE ms = resync
    <2>1. snapshot \in Snap /\ snapshot.type = "snapshot" /\ snapshot.seq = seq /\ shows(snapshot)
      BY <1>t DEF snapshot, Snap, shows, LinkType, TableType, Phases
    <2>2. error("stale_seq", seq) \in Err /\ error("stale_seq", seq).type = "error"
          /\ error("stale_seq", seq).seq = seq /\ error("stale_seq", seq).code = "stale_seq"
      BY <1>t DEF error, Err, Codes
    <2>3. Range(ms) = {snapshot, error("stale_seq", seq)}
      BY <1>3 DEF resync, Range
    <2>4. ms \in Seq(Message)
      BY <1>3, <2>1, <2>2 DEF resync, Message
    <2>5. \A m \in Range(ms) : m \in Message /\ m.seq = seq
      BY <2>1, <2>2, <2>3 DEF Message
    <2>6. \A m \in Range(ms) : /\ m.type = "snapshot" => m = snapshot
                               /\ m.type = "error" => m.code = "stale_seq"
      BY <2>1, <2>2, <2>3
    <2> HIDE DEF c
    <2>7. "stale_seq" \notin RefusalCodes
      BY DEF RefusalCodes
    <2> QED BY <1>3, <1>t, <2>1, <2>4, <2>5, <2>6, <2>7
  <1> QED BY <1>1, <1>2, <1>3 DEF answersTo

LEMMA Replied ==
    ASSUME LinkType, NEW ms \in Seq(Message), reply(Head(up), ms)
    PROVE  /\ outCh' \in Seq(Message)
           /\ \/ outCh' = outCh
              \/ /\ Head(up).by = client /\ outCh' = outCh \o ms
                 /\ Range(outCh') = Range(outCh) \cup Range(ms)
                 /\ Len(outCh') = Len(outCh) + Len(ms)
                 /\ \A i \in 1 .. Len(outCh) + Len(ms) :
                        outCh'[i] = IF i <= Len(outCh) THEN outCh[i] ELSE ms[i - Len(outCh)]
  <1>1. outCh \in Seq(Message)
    BY DEF LinkType, ChannelType
  <1>2. CASE outCh' = outCh
    BY <1>1, <1>2
  <1>3. CASE outCh' # outCh
    <2>1. Head(up).by = client /\ outCh' = outCh \o ms
      BY <1>3 DEF reply
    <2> QED BY <1>1, <2>1, ConcatProperties, RangeConcatenation
  <1> QED BY <1>2, <1>3

LEMMA AnswersKeeps ==
    ASSUME LinkInv, NEW ms, Answers(ms)
    PROVE  LinkInv'
  <1> DEFINE c == Head(up)
  <1>t. LinkType /\ seq \in Nat /\ maxSeen \in Nat /\ up # <<>> /\ ms \in answersTo(c)
    BY DEF LinkInv, LinkType, TableType, ConnType, Answers
  <1>n. UNCHANGED <<human, life, seq, phase, paused, mine, left, movedAt, cache, maxSeen, shown,
                    client, subscribed, entry, skipped>>
    BY DEF Answers, conn
  <1>u. up' \in Seq(Cmd) /\ Range(up') \subseteq Range(up)
    BY <1>t, TailOfUp DEF Answers
  <1>r. /\ outCh' \in Seq(Message)
        /\ \/ outCh' = outCh
           \/ /\ c.by = client /\ outCh' = outCh \o ms
              /\ Range(outCh') = Range(outCh) \cup Range(ms)
              /\ Len(outCh') = Len(outCh) + Len(ms)
              /\ \A i \in 1 .. Len(outCh) + Len(ms) :
                     outCh'[i] = IF i <= Len(outCh) THEN outCh[i] ELSE ms[i - Len(outCh)]
    BY <1>t, AnswerFacts, Replied DEF Answers
  <1>s. /\ subCh' \in Seq(Message) /\ Len(subCh') <= SubCap /\ Range(subCh) \subseteq Range(subCh')
        /\ lost' \in BOOLEAN /\ (lost => lost')
        /\ \/ Range(subCh') = Range(subCh)
           \/ /\ Range(subCh') \subseteq Range(subCh) \cup Range(ms)
              /\ \A m \in Range(ms) : m.type = "error" /\ m.code # "stale_seq"
    <2>1. CASE UNCHANGED <<subCh, lost>>
      BY <1>t, <2>1 DEF LinkType, ChannelType, ConnType
    <2>2. CASE \E e \in Err : /\ ms = <<e>> /\ e.code \in rejections(c) /\ e.seq = seq
                              /\ push(e)
      <3>1. PICK e \in Err : ms = <<e>> /\ e.code \in rejections(c) /\ push(e)
        BY <2>2
      <3>2. Range(ms) = {e} /\ e \in Message /\ e.type = "error" /\ e.code # "stale_seq"
        BY <3>1, RangeOne DEF Message, Err, rejections
      <3> QED BY <1>t, <3>1, <3>2, Pushed
    <2> QED BY <2>1, <2>2 DEF Answers
  <1>q. \A m \in queued' : m \in queued \/ m \in Range(ms)
    BY <1>r, <1>s DEF queued
  <1>a. armed' \in BOOLEAN /\ (armed' => armed) /\ overtaken' \in BOOLEAN /\ swallowed' \in BOOLEAN
    BY DEF Answers
  <1> HIDE DEF c
  <1>1. LinkType'
    BY <1>t, <1>n, <1>u, <1>r, <1>s, <1>a DEF LinkType, TableType, ChannelType, ConnType
  <1>2. Bounds'
    <2>1. \A m \in queued' : m.seq <= seq
      BY <1>t, <1>q, AnswerFacts DEF c, LinkInv, Bounds
    <2> QED BY <1>n, <1>u, <2>1 DEF LinkInv, Bounds
  <1>3. Truth'
    <2>1. \A m : shows(m)' = shows(m)
      BY <1>n DEF shows
    <2>2. \A m \in queued' : m.type = "snapshot" => shows(m)
      BY <1>t, <1>q, AnswerFacts DEF c, LinkInv, Truth
    <2>3. \A r \in cache' : shows(r.snap)
      BY <1>n DEF LinkInv, Truth
    <2> QED BY <2>1, <2>2, <2>3 DEF Truth
  <1>4. Course'
    BY <1>n, <1>a DEF LinkInv, Course
  <1>5. Fresh'
    BY <1>n, <1>s DEF LinkInv, Fresh
  <1>6. Errors'
    <2>1. \A m \in queued' : m.type = "error" =>
            /\ m.code = "game_over" => life \in {"over", "broken"}
            /\ m.code = "internal_error" => m.seq = 0
            /\ client = 1 /\ m.code \in RefusalCodes => m.seq <= maxSeen
      BY <1>t, <1>q, AnswerFacts DEF c, LinkInv, Errors
    <2>2. \A m \in Range(subCh') : m.type = "error" => m.code # "stale_seq"
      BY <1>s DEF LinkInv, Errors
    <2>3. ASSUME NEW i \in 1 .. Len(outCh'), outCh'[i].type = "error", outCh'[i].code = "stale_seq"
          PROVE  \/ outCh'[i].seq <= maxSeen
                 \/ \E j \in 1 .. i - 1 : outCh'[j].type = "snapshot" /\ outCh'[j].seq = outCh'[i].seq
      <3>l. Len(outCh) \in Nat /\ Len(ms) \in Nat
        BY <1>t, AnswerFacts, LenProperties DEF c, LinkType, ChannelType
      <3>1. CASE outCh' = outCh
        BY <2>3, <3>1 DEF LinkInv, Errors
      <3>2. CASE outCh' # outCh
        <4>1. /\ Len(outCh') = Len(outCh) + Len(ms)
              /\ \A k \in 1 .. Len(outCh) + Len(ms) :
                     outCh'[k] = IF k <= Len(outCh) THEN outCh[k] ELSE ms[k - Len(outCh)]
          BY <1>r, <3>2
        <4>2. CASE i <= Len(outCh)
          <5>1. i \in 1 .. Len(outCh) /\ outCh'[i] = outCh[i]
            BY <4>1, <4>2
          <5>2. \A j \in 1 .. i - 1 : outCh'[j] = outCh[j]
            BY <3>l, <4>1, <4>2
          <5> QED BY <2>3, <5>1, <5>2 DEF LinkInv, Errors
        <4>3. CASE i > Len(outCh)
          <5>1. i - Len(outCh) \in 1 .. Len(ms) /\ outCh'[i] = ms[i - Len(outCh)]
            BY <3>l, <4>1, <4>3
          <5>2. outCh'[i] \in Range(ms)
            BY <1>t, <5>1, AnswerFacts, RangeIndex DEF c
          <5>3. ms = resync
            BY <1>t, <2>3, <5>2, AnswerFacts DEF c
          <5>4. Len(ms) = 2 /\ ms[1] = snapshot /\ ms[2] = error("stale_seq", seq)
            BY <5>3 DEF resync
          <5>5. ms[1].type = "snapshot" /\ ms[1].seq = seq /\ ms[2].seq = seq
            BY <5>4 DEF snapshot, error
          <5>6. i = Len(outCh) + 2
            BY <2>3, <3>l, <5>1, <5>4, <5>5 DEF snapshot
          <5>7. Len(outCh) + 1 \in 1 .. i - 1 /\ outCh'[Len(outCh) + 1] = ms[1]
            BY <3>l, <4>1, <5>4, <5>6
          <5> QED BY <3>l, <5>1, <5>4, <5>5, <5>6, <5>7
        <4> QED BY <3>l, <4>2, <4>3
      <3> QED BY <3>1, <3>2
    <2> QED BY <1>n, <2>1, <2>2, <2>3 DEF Errors
  <1> QED BY <1>1, <1>2, <1>3, <1>4, <1>5, <1>6 DEF LinkInv

LEMMA ConnectKeeps ==
    ASSUME LinkInv, Connect
    PROVE  LinkInv'
  <1>t. LinkType /\ SubCap \in Nat \ {0}
    BY LinkAssumption DEF LinkInv
  <1>n. /\ UNCHANGED <<human, life, seq, phase, paused, mine, armed, left, movedAt, cache>>
        /\ UNCHANGED <<outCh, up, maxSeen, shown, client, lost, skipped, swallowed, overtaken>>
        /\ subscribed' = TRUE
        /\ \/ subCh' = <<snapshot>> /\ entry' = "registered"
           \/ subCh' = <<>> /\ entry' \in {"drained", "stranded"}
    BY DEF Connect, session, table, conn, history, answers
  <1>s. snapshot \in Snap /\ snapshot.type = "snapshot" /\ snapshot.seq = seq /\ shows(snapshot)
    BY <1>t DEF snapshot, Snap, shows, LinkType, TableType, Phases
  <1>r. /\ subCh' \in Seq(Message) /\ Len(subCh') <= 1 /\ Range(subCh') \subseteq {snapshot}
        /\ entry' = "registered" => Range(subCh') = {snapshot}
        /\ queued' \subseteq queued \cup {snapshot}
    <2>1. CASE subCh' = <<snapshot>>
      BY <1>n, <1>s, <2>1, RangeOne DEF Message, queued
    <2>2. CASE subCh' = <<>> /\ entry' \in {"drained", "stranded"}
      BY <1>n, <2>2, RangeEmpty DEF queued
    <2> QED BY <1>n, <2>1, <2>2
  <1>1. LinkType'
    <2>1. TableType' /\ ConnType'
      BY <1>t, <1>n DEF LinkType, TableType, ConnType
    <2>2. subscribed' \in BOOLEAN
      BY <1>n, Zenon
    <2>3. ChannelType'
      BY <1>t, <1>n, <1>r, <2>2 DEF LinkType, ChannelType
    <2> QED BY <2>1, <2>3 DEF LinkType
  <1>2. Bounds'
    <2>1. \A m \in queued' : m.seq <= seq
      BY <1>t, <1>r, <1>s DEF LinkInv, Bounds, LinkType, TableType
    <2> QED BY <1>n, <2>1 DEF LinkInv, Bounds
  <1>3. Truth'
    BY <1>n, <1>r, <1>s DEF LinkInv, Truth, shows
  <1>4. Course'
    BY <1>n DEF LinkInv, Course
  <1>5. Fresh'
    BY <1>n, <1>r, <1>s DEF Fresh
  <1>6. Errors'
    BY <1>n, <1>r, <1>s DEF LinkInv, Errors
  <1> QED BY <1>1, <1>2, <1>3, <1>4, <1>5, <1>6 DEF LinkInv

(* One message is taken from one of the channels. *)
LEMMA Taken ==
    ASSUME LinkType, NEW m, reads(m)
    PROVE  /\ m \in queued /\ m \in Message /\ m.seq \in Nat /\ queued' \subseteq queued
           /\ subCh' \in Seq(Message) /\ Len(subCh') <= SubCap /\ outCh' \in Seq(Message)
           /\ Range(subCh') \subseteq Range(subCh) /\ Range(outCh') \subseteq Range(outCh)
           /\ Range(subCh) \subseteq Range(subCh') \cup {m}
           /\ Range(outCh) \subseteq Range(outCh') \cup {m}
           /\ \/ outCh' = outCh /\ m \in Range(subCh)
              \/ /\ Len(outCh) \in Nat /\ Len(outCh) >= 1 /\ m = outCh[1]
                 /\ \A i \in 1 .. Len(outCh') : outCh'[i] = outCh[i + 1] /\ i + 1 \in 1 .. Len(outCh)
           /\ subscribed /\ UNCHANGED <<subscribed, entry>>
  <1>t. subCh \in Seq(Message) /\ outCh \in Seq(Message) /\ Len(subCh) <= SubCap
        /\ SubCap \in Nat
    BY LinkAssumption DEF LinkType, ChannelType
  <1>1. CASE subCh # <<>> /\ m = Head(subCh) /\ subCh' = Tail(subCh) /\ UNCHANGED <<subscribed, entry, outCh>>
    <2>1. /\ m \in Range(subCh) /\ Range(subCh) = {m} \cup Range(subCh')
          /\ subCh' \in Seq(Message) /\ Len(subCh') = Len(subCh) - 1 /\ Len(subCh) \in Nat
      BY <1>t, <1>1, RangeTail
    <2>2. m \in queued /\ queued' \subseteq queued
      BY <1>1, <2>1 DEF queued
    <2>3. m \in Message /\ m.seq \in Nat /\ subscribed /\ Len(subCh') <= SubCap
      BY <1>t, <2>1, <2>2, LinkTypes DEF reads
    <2> QED BY <1>t, <1>1, <2>1, <2>2, <2>3
  <1>2. CASE outCh # <<>> /\ m = Head(outCh) /\ outCh' = Tail(outCh) /\ UNCHANGED <<subscribed, entry, subCh>>
    <2>1. /\ m \in Range(outCh) /\ Range(outCh) = {m} \cup Range(outCh')
          /\ outCh' \in Seq(Message) /\ Len(outCh) \in Nat /\ Len(outCh) >= 1 /\ m = outCh[1]
          /\ \A i \in 1 .. Len(outCh') : outCh'[i] = outCh[i + 1] /\ i + 1 \in 1 .. Len(outCh)
      BY <1>t, <1>2, RangeTail
    <2>2. m \in queued /\ queued' \subseteq queued
      BY <1>2, <2>1 DEF queued
    <2>3. m \in Message /\ m.seq \in Nat /\ subscribed
      BY <2>2, LinkTypes DEF reads
    <2> QED BY <1>t, <1>2, <2>1, <2>2, <2>3
  <1> QED BY <1>1, <1>2 DEF reads

(* The client sends a command chosen on something it has read. *)
Sends ==
    \E c \in Cmd : c.by = client /\ c.saw <= c.seq /\ c.seq <= maxSeen' /\ write(c)

LEMMA SentCommand ==
    ASSUME LinkType, NEW c \in Cmd, write(c)
    PROVE  up' \in Seq(Cmd) /\ Range(up') = Range(up) \cup {c} /\ up' = Append(up, c)
  BY RangeAppend DEF write, LinkType, ChannelType

LEMMA SentBounds ==
    ASSUME LinkInv, up' = up \/ Sends, client' = client, seq' = seq,
           maxSeen' \in Nat, maxSeen <= maxSeen', maxSeen' <= seq
    PROVE  /\ up' \in Seq(Cmd)
           /\ \A c \in Range(up') :
                /\ c.saw <= c.seq /\ c.seq <= seq' /\ c.by <= client'
                /\ c.by = client' => c.seq <= maxSeen'
  <1>t. LinkType /\ maxSeen \in Nat /\ seq \in Nat /\ client \in Nat
    BY DEF LinkInv, LinkType, ConnType, TableType
  <1>1. \A c \in Range(up) :
            /\ c.saw <= c.seq /\ c.seq <= seq' /\ c.by <= client'
            /\ c.by = client' => c.seq <= maxSeen'
    BY <1>t, LinkTypes DEF LinkInv, Bounds
  <1>2. CASE up' = up
    BY <1>t, <1>1, <1>2 DEF LinkType, ChannelType
  <1>3. CASE Sends
    <2>1. PICK c \in Cmd :
            c.by = client /\ c.saw <= c.seq /\ c.seq <= maxSeen' /\ write(c)
      BY <1>3 DEF Sends
    <2>2. up' \in Seq(Cmd) /\ Range(up') = Range(up) \cup {c}
      BY <1>t, <2>1, SentCommand
    <2>3. c.saw <= c.seq /\ c.seq <= seq' /\ c.by <= client' /\ c.seq <= maxSeen'
      BY <1>t, <2>1 DEF Cmd
    <2> QED BY <1>1, <2>2, <2>3
  <1> QED BY <1>2, <1>3

(* A message is taken and the client remembers what it has seen. *)
LEMMA TakingKeeps ==
    ASSUME LinkInv, NEW m, reads(m), UNCHANGED <<session, client, lost, answers>>,
           up' = up \/ Sends,
           maxSeen' \in Nat, maxSeen <= maxSeen', maxSeen' <= seq, m.seq <= maxSeen',
           shown' \in Nat, shown <= shown', shown' <= maxSeen',
           skipped' \in BOOLEAN, skipped => skipped',
           m.type = "snapshot" /\ ~skipped' => m.seq <= shown'
    PROVE  LinkInv'
  <1>t. LinkType
    BY DEF LinkInv
  <1>n. /\ UNCHANGED <<human, life, seq, phase, paused, mine, armed, left, movedAt, cache>>
        /\ UNCHANGED <<client, lost, swallowed, overtaken>>
    BY DEF session, table, answers
  <1>m. maxSeen \in Nat /\ seq \in Nat /\ shown \in Nat
    BY <1>t DEF LinkType, TableType, ConnType
  <1>r. /\ m \in queued /\ m \in Message /\ m.seq \in Nat /\ queued' \subseteq queued
        /\ subCh' \in Seq(Message) /\ Len(subCh') <= SubCap /\ outCh' \in Seq(Message)
        /\ Range(subCh') \subseteq Range(subCh) /\ Range(outCh') \subseteq Range(outCh)
        /\ Range(subCh) \subseteq Range(subCh') \cup {m}
        /\ \/ outCh' = outCh
           \/ /\ Len(outCh) \in Nat /\ Len(outCh) >= 1 /\ m = outCh[1]
              /\ \A i \in 1 .. Len(outCh') : outCh'[i] = outCh[i + 1] /\ i + 1 \in 1 .. Len(outCh)
        /\ subscribed /\ UNCHANGED <<subscribed, entry>>
    BY <1>t, Taken
  <1>u. /\ up' \in Seq(Cmd)
        /\ \A c \in Range(up') :
             /\ c.saw <= c.seq /\ c.seq <= seq' /\ c.by <= client'
             /\ c.by = client' => c.seq <= maxSeen'
    BY <1>n, SentBounds
  <1>1. LinkType'
    BY <1>t, <1>n, <1>r, <1>u DEF LinkType, TableType, ChannelType, ConnType
  <1>2. Bounds'
    BY <1>n, <1>r, <1>u DEF LinkInv, Bounds
  <1>3. Truth'
    BY <1>n, <1>r DEF LinkInv, Truth, shows
  <1>4. Course'
    BY <1>n DEF LinkInv, Course
  <1>5. Fresh'
    <2> SUFFICES ASSUME ~lost, ~skipped', entry = "registered"
                 PROVE  shown' = seq \/ \E m1 \in Range(subCh') : m1.type = "snapshot" /\ m1.seq = seq
      BY <1>n, <1>r DEF Fresh
    <2>1. CASE shown = seq
      BY <1>m, <2>1
    <2>2. CASE shown # seq
      <3>1. PICK m1 \in Range(subCh) : m1.type = "snapshot" /\ m1.seq = seq
        BY <1>r, <2>2 DEF LinkInv, Fresh
      <3>2. CASE m1 = m
        BY <1>m, <3>1, <3>2
      <3>3. CASE m1 # m
        BY <1>r, <3>1, <3>3
      <3> QED BY <3>2, <3>3
    <2> QED BY <2>1, <2>2
  <1>6. Errors'
    <2>1. \A m1 \in queued' : m1.type = "error" =>
            /\ m1.code = "game_over" => life' \in {"over", "broken"}
            /\ m1.code = "internal_error" => m1.seq = 0
            /\ client' = 1 /\ m1.code \in RefusalCodes => m1.seq <= maxSeen'
      <3>1. \A m1 \in queued : m1.seq \in Nat
        BY <1>t, LinkTypes
      <3> QED BY <1>n, <1>m, <1>r, <3>1 DEF LinkInv, Errors
    <2>2. \A m1 \in Range(subCh') : m1.type = "error" => m1.code # "stale_seq"
      BY <1>r DEF LinkInv, Errors
    <2>3. ASSUME NEW i \in 1 .. Len(outCh'), outCh'[i].type = "error", outCh'[i].code = "stale_seq"
          PROVE  \/ outCh'[i].seq <= maxSeen'
                 \/ \E j \in 1 .. i - 1 : outCh'[j].type = "snapshot" /\ outCh'[j].seq = outCh'[i].seq
      <3>q. outCh \in Seq(Message) /\ outCh' \in Seq(Message)
        BY <1>t, <1>r DEF LinkType, ChannelType
      <3>s. outCh'[i].seq \in Nat
        <4>1. outCh'[i] \in Range(outCh')
          BY <3>q, RangeIndex
        <4>2. outCh'[i] \in queued'
          BY <4>1 DEF queued
        <4> QED BY <1>t, <1>r, <4>2, LinkTypes
      <3>1. CASE outCh' = outCh
        BY <1>m, <2>3, <3>1, <3>s DEF LinkInv, Errors
      <3>2. CASE outCh' # outCh
        <4>1. /\ m = outCh[1] /\ outCh'[i] = outCh[i + 1] /\ i + 1 \in 1 .. Len(outCh)
              /\ \A j \in 1 .. Len(outCh') : outCh'[j] = outCh[j + 1]
              /\ i \in Nat /\ Len(outCh') \in Nat
          BY <1>r, <3>q, <3>2, LenProperties
        <4>e. outCh[i + 1].type = "error" /\ outCh[i + 1].code = "stale_seq"
          BY <2>3, <4>1
        <4>2. \/ outCh[i + 1].seq <= maxSeen
              \/ \E j \in 1 .. i + 1 - 1 : outCh[j].type = "snapshot" /\ outCh[j].seq = outCh[i + 1].seq
          <5> DEFINE k == i + 1
          <5>1. k \in 1 .. Len(outCh) /\ outCh[k].type = "error" /\ outCh[k].code = "stale_seq"
            BY <4>1, <4>e
          <5> HIDE DEF k
          <5>2. \/ outCh[k].seq <= maxSeen
                \/ \E j \in 1 .. k - 1 : outCh[j].type = "snapshot" /\ outCh[j].seq = outCh[k].seq
            BY <5>1 DEF LinkInv, Errors
          <5> QED BY <5>2 DEF k
        <4>3. CASE outCh[i + 1].seq <= maxSeen
          BY <1>m, <4>1, <4>3, <3>s
        <4>4. CASE \E j \in 1 .. i + 1 - 1 :
                        outCh[j].type = "snapshot" /\ outCh[j].seq = outCh[i + 1].seq
          <5>1. PICK j \in 1 .. i : outCh[j].type = "snapshot" /\ outCh[j].seq = outCh[i + 1].seq
            BY <4>1, <4>4
          <5>2. CASE j = 1
            BY <4>1, <5>1, <5>2
          <5>3. CASE j # 1
            <6>1. j - 1 \in 1 .. i - 1 /\ j - 1 \in 1 .. Len(outCh') /\ j - 1 + 1 = j
              BY <4>1, <5>1, <5>3
            <6>2. outCh'[j - 1] = outCh[j]
              BY <4>1, <6>1
            <6> QED BY <4>1, <5>1, <6>1, <6>2
          <5> QED BY <5>2, <5>3
        <4> QED BY <4>2, <4>3, <4>4
      <3> QED BY <3>1, <3>2
    <2> QED BY <2>1, <2>2, <2>3 DEF Errors
  <1> QED BY <1>1, <1>2, <1>3, <1>4, <1>5, <1>6 DEF LinkInv

(* What ReadSnapshot returns: the present table if the number is the
   present one, or an error that says nothing newer unless it is of a pause,
   of a session that is over or of a command of another process. *)
LEMMA ReadFacts ==
    ASSUME LinkInv, NEW m, ReadSnapshot(m)
    PROVE  /\ m \in queued /\ m \in Message /\ m.seq \in Nat /\ m.seq <= seq /\ subscribed
           /\ UNCHANGED <<subscribed, entry>> /\ queued' \subseteq queued
           /\ Range(outCh) \subseteq Range(outCh') \cup {m}
           /\ maxSeen' \in Nat /\ maxSeen <= maxSeen' /\ maxSeen' <= seq /\ m.seq <= maxSeen'
           /\ shown' \in Nat /\ shown <= shown' /\ shown' <= maxSeen'
           /\ m.type = "snapshot" =>
                maxSeen < m.seq /\ maxSeen' = m.seq /\ shown' = m.seq /\ shows(m) /\ m \in Snap
           /\ m.type # "snapshot" =>
                /\ shown' = shown /\ m \in Err /\ m.type = "error"
                /\ m.code \in {"stale_seq", "internal_error"} => maxSeen' = maxSeen
                /\ client = 1 /\ m.code \in RefusalCodes => maxSeen' = maxSeen
                /\ m.code = "game_over" => life \in {"over", "broken"}
  <1>t. LinkType /\ maxSeen \in Nat /\ shown \in Nat /\ seq \in Nat
    BY DEF LinkInv, LinkType, TableType, ConnType
  <1>b. shown <= maxSeen /\ maxSeen <= seq
    BY DEF LinkInv, Bounds
  <1>1. /\ m \in queued /\ m \in Message /\ m.seq \in Nat /\ subscribed /\ UNCHANGED <<subscribed, entry>>
        /\ queued' \subseteq queued /\ Range(outCh) \subseteq Range(outCh') \cup {m}
    BY <1>t, Taken DEF ReadSnapshot
  <1>2. m.seq <= seq
    BY <1>1 DEF LinkInv, Bounds
  <1>3. ~old(m) /\ maxSeen' = (IF m.seq > maxSeen THEN m.seq ELSE maxSeen)
        /\ shown' = (IF m.type = "snapshot" THEN m.seq ELSE shown)
    BY DEF ReadSnapshot
  <1>4. maxSeen' \in Nat /\ maxSeen <= maxSeen' /\ maxSeen' <= seq /\ m.seq <= maxSeen'
    BY <1>t, <1>b, <1>1, <1>2, <1>3
  <1>5. CASE m.type = "snapshot"
    <2>1. maxSeen < m.seq
      BY <1>t, <1>1, <1>3, <1>5 DEF old
    <2>2. maxSeen' = m.seq /\ shown' = m.seq
      BY <1>t, <1>1, <1>3, <1>5, <2>1
    <2>3. shows(m)
      BY <1>1, <1>5 DEF LinkInv, Truth
    <2>4. m \in Snap
      BY <1>1, <1>5 DEF Message, Err
    <2> QED BY <1>t, <1>b, <1>1, <1>2, <1>4, <1>5, <2>1, <2>2, <2>3, <2>4
  <1>6. CASE m.type # "snapshot"
    <2>1. m \in Err /\ m.type = "error" /\ m.code \in Codes /\ shown' = shown
      BY <1>1, <1>3, <1>6 DEF Message, Snap, Err
    <2>2. ASSUME \/ m.code \in {"stale_seq", "internal_error"}
                 \/ client = 1 /\ m.code \in RefusalCodes
          PROVE  maxSeen' = maxSeen
      <3>1. CASE m.code # "stale_seq"
        <4>1. m.seq <= maxSeen
          BY <1>t, <1>1, <2>1, <2>2, <3>1 DEF LinkInv, Errors
        <4> QED BY <1>t, <1>1, <1>3, <4>1
      <3>2. CASE m.code = "stale_seq"
        <4>1. m \notin Range(subCh)
          BY <2>1, <3>2 DEF LinkInv, Errors
        <4>2. Len(outCh) \in Nat /\ Len(outCh) >= 1 /\ m = outCh[1]
          BY <1>t, <4>1, Taken DEF ReadSnapshot
        <4>3. \/ outCh[1].seq <= maxSeen
              \/ \E j \in 1 .. 1 - 1 : outCh[j].type = "snapshot" /\ outCh[j].seq = outCh[1].seq
          BY <2>1, <3>2, <4>2 DEF LinkInv, Errors
        <4>4. m.seq <= maxSeen
          BY <4>2, <4>3
        <4> QED BY <1>t, <1>1, <1>3, <4>4
      <3> QED BY <3>1, <3>2
    <2>3. m.code = "game_over" => life \in {"over", "broken"}
      BY <1>1, <2>1 DEF LinkInv, Errors
    <2> QED BY <1>t, <1>b, <1>1, <1>2, <1>4, <1>6, <2>1, <2>2, <2>3
  <1> QED BY <1>5, <1>6

LEMMA ReadKeeps ==
    ASSUME LinkInv, NEW m, ReadSnapshot(m), UNCHANGED <<session, client, history>>,
           up' = up \/ Sends
    PROVE  LinkInv'
  <1>1. skipped \in BOOLEAN /\ UNCHANGED <<lost, skipped, answers>>
    BY DEF LinkInv, LinkType, ConnType, history
  <1>2. reads(m)
    BY DEF ReadSnapshot
  <1>3. m.type = "snapshot" => m.seq <= shown'
    <2>1. m.seq \in Nat
      BY ReadFacts
    <2> QED BY <2>1, ReadFacts
  <1>4. UNCHANGED <<session, client, lost, answers>>
    BY <1>1
  <1>5. /\ maxSeen' \in Nat /\ maxSeen <= maxSeen' /\ maxSeen' <= seq /\ m.seq <= maxSeen'
        /\ shown' \in Nat /\ shown <= shown' /\ shown' <= maxSeen'
    BY ReadFacts
  <1> QED BY <1>1, <1>2, <1>3, <1>4, <1>5, TakingKeeps

LEMMA DiscardKeeps ==
    ASSUME LinkInv, DiscardSnapshot
    PROVE  /\ LinkInv' /\ UNCHANGED <<session, up, conn, client, lost, answers>>
           /\ UNCHANGED <<subscribed, entry>> /\ subscribed /\ queued' \subseteq queued /\ (skipped => skipped')
           /\ Range(outCh) \subseteq Range(outCh') \cup Snap
           /\ skipped' # skipped => shown # maxSeen
  <1>t. LinkType /\ maxSeen \in Nat /\ shown \in Nat /\ seq \in Nat /\ skipped \in BOOLEAN
        /\ shown <= maxSeen /\ maxSeen <= seq
    BY DEF LinkInv, LinkType, TableType, ConnType, Bounds
  <1>1. PICK m \in readable :
            /\ old(m)
            /\ reads(m)
            /\ skipped' = (skipped \/ m.seq > shown)
            /\ UNCHANGED <<session, up, conn, client, lost, answers>>
    BY DEF DiscardSnapshot
  <1>2. m.seq \in Nat /\ m.seq <= maxSeen /\ m.type = "snapshot"
    BY <1>t, <1>1, Taken DEF old
  <1>3. skipped' \in BOOLEAN /\ (skipped => skipped') /\ (~skipped' => m.seq <= shown)
    <2>1. skipped' \in BOOLEAN
      BY <1>1, Zenon
    <2>2. skipped => skipped'
      BY <1>1
    <2>3. ~skipped' => ~(m.seq > shown)
      BY <1>1, Zenon
    <2> QED BY <1>t, <1>2, <2>1, <2>2, <2>3
  <1>4. maxSeen' = maxSeen /\ shown' = shown /\ up' = up /\ UNCHANGED <<session, client, lost, answers>>
    BY <1>1 DEF conn
  <1>5. LinkInv'
    BY <1>t, <1>1, <1>2, <1>3, <1>4, TakingKeeps
  <1>6. subscribed /\ UNCHANGED <<subscribed, entry>> /\ queued' \subseteq queued
        /\ Range(outCh) \subseteq Range(outCh') \cup {m} /\ m \in Message
    BY <1>t, <1>1, Taken
  <1>7. m \in Snap
    BY <1>2, <1>6 DEF Message, Err
  <1>8. ASSUME skipped' # skipped PROVE shown # maxSeen
    BY <1>t, <1>1, <1>2, <1>8
  <1> QED BY <1>1, <1>3, <1>4, <1>5, <1>6, <1>7, <1>8

LEMMA CloseKeeps ==
    ASSUME LinkInv, NEW code, readsClose(code), UNCHANGED <<session, up, conn, client, history>>
    PROVE  LinkInv' /\ queued' \subseteq queued
  <1>n. /\ UNCHANGED <<human, life, seq, phase, paused, mine, armed, left, movedAt, cache>>
        /\ UNCHANGED <<entry, up, maxSeen, shown, client, lost, skipped, swallowed, overtaken>>
        /\ subscribed' = FALSE /\ subCh' = <<>> /\ outCh' = <<>>
    BY DEF readsClose, session, table, conn, history, answers
  <1>q. Range(subCh') = {} /\ Len(subCh') = 0 /\ Range(outCh') = {} /\ Len(outCh') = 0
        /\ queued' \subseteq queued
    BY <1>n, RangeEmpty DEF queued
  <1>b. subscribed' \in BOOLEAN
    BY <1>n, Zenon
  <1>1. LinkType'
    <2>1. subCh' \in Seq(Message) /\ outCh' \in Seq(Message)
      BY <1>n, EmptySeq
    <2> QED BY <1>n, <1>q, <1>b, <2>1, LinkAssumption DEF LinkInv, LinkType, TableType, ChannelType, ConnType
  <1>2. Bounds'
    BY <1>n, <1>q DEF LinkInv, Bounds
  <1>3. Truth'
    BY <1>n, <1>q DEF LinkInv, Truth, shows
  <1>4. Course'
    BY <1>n DEF LinkInv, Course
  <1>5. Fresh'
    BY <1>n DEF Fresh
  <1>6. Errors'
    BY <1>n, <1>q DEF LinkInv, Errors
  <1> QED BY <1>q, <1>1, <1>2, <1>3, <1>4, <1>5, <1>6 DEF LinkInv

LEMMA SendKeeps ==
    ASSUME LinkInv, Sends, UNCHANGED <<session, channels, conn, client, history>>
    PROVE  LinkInv'
  <1>n. /\ UNCHANGED <<human, life, seq, phase, paused, mine, armed, left, movedAt, cache>>
        /\ UNCHANGED <<subscribed, entry, subCh, outCh, maxSeen, shown, client>>
        /\ UNCHANGED <<lost, skipped, swallowed, overtaken>>
    BY DEF session, table, channels, conn, history, answers
  <1>m. maxSeen' \in Nat /\ maxSeen <= maxSeen' /\ maxSeen' <= seq
    BY <1>n DEF LinkInv, LinkType, ConnType, Bounds
  <1>q. queued' = queued
    BY <1>n DEF queued
  <1>u. /\ up' \in Seq(Cmd)
        /\ \A c \in Range(up') :
             /\ c.saw <= c.seq /\ c.seq <= seq' /\ c.by <= client'
             /\ c.by = client' => c.seq <= maxSeen'
    BY <1>n, <1>m, SentBounds
  <1>1. LinkType'
    BY <1>n, <1>u DEF LinkInv, LinkType, TableType, ChannelType, ConnType
  <1>2. Bounds'
    BY <1>n, <1>q, <1>u DEF LinkInv, Bounds
  <1>3. Truth'
    BY <1>n, <1>q DEF LinkInv, Truth, shows
  <1>4. Course'
    BY <1>n DEF LinkInv, Course
  <1>5. Fresh'
    BY <1>n DEF LinkInv, Fresh
  <1>6. Errors'
    BY <1>n, <1>q DEF LinkInv, Errors
  <1> QED BY <1>1, <1>2, <1>3, <1>4, <1>5, <1>6 DEF LinkInv

LEMMA LeaveKeeps ==
    ASSUME LinkInv, Leave
    PROVE  LinkInv' /\ queued' = {} /\ Range(up') \subseteq Range(up)
  <1>t. LinkType /\ seq \in Nat /\ client \in Nat \ {0} /\ paused \in BOOLEAN
    BY DEF LinkInv, LinkType, TableType, ConnType
  <1>n. /\ life = "live" /\ subscribed' = FALSE /\ subCh' = <<>> /\ outCh' = <<>>
        /\ up' \in {up, <<>>} /\ maxSeen' = 0 /\ shown' = 0 /\ client' = client + 1
        /\ paused' = FALSE
        /\ seq' = (IF paused THEN seq + 1 ELSE seq)
        /\ UNCHANGED <<human, life, phase, mine, armed, left, movedAt, cache, entry>>
        /\ UNCHANGED <<lost, skipped, swallowed, overtaken>>
    BY DEF Leave, history, answers
  <1>q. queued' = {} /\ Range(subCh') = {} /\ Range(outCh') = {} /\ Len(subCh') = 0 /\ Len(outCh') = 0
    BY <1>n, RangeEmpty DEF queued
  <1>b. subscribed' \in BOOLEAN /\ paused' \in BOOLEAN
    BY <1>n, Zenon
  <1>u. up' \in Seq(Cmd) /\ Range(up') \subseteq Range(up)
    BY <1>t, <1>n, RangeEmpty, EmptySeq DEF LinkType, ChannelType
  <1>s. seq' \in Nat \ {0} /\ seq <= seq'
    BY <1>t, <1>n DEF LinkType, TableType
  <1>1. LinkType'
    <2>1. subCh' \in Seq(Message) /\ outCh' \in Seq(Message)
      BY <1>n, EmptySeq
    <2>2. TableType'
      BY <1>t, <1>n, <1>b, <1>s DEF LinkType, TableType
    <2>3. ChannelType'
      BY <1>t, <1>n, <1>q, <1>b, <1>u, <2>1, LinkAssumption DEF LinkType, ChannelType
    <2>4. ConnType'
      BY <1>t, <1>n DEF LinkType, ConnType
    <2> QED BY <2>2, <2>3, <2>4 DEF LinkType
  <1>2. Bounds'
    <2>1. \A c \in Range(up) : c.by \in Nat /\ c.seq \in Nat /\ c.saw <= c.seq /\ c.seq <= seq
                               /\ c.by <= client
      BY <1>t, LinkTypes DEF LinkInv, Bounds
    <2>2. \A c \in Range(up') : /\ c.saw <= c.seq /\ c.seq <= seq' /\ c.by <= client'
                                /\ c.by # client'
      BY <1>t, <1>n, <1>u, <1>s, <2>1
    <2>3. \A r \in cache' : r.snap.seq <= seq'
      BY <1>t, <1>n, <1>s, LinkTypes DEF LinkInv, Bounds
    <2>4. movedAt' <= seq' /\ shown' <= maxSeen' /\ maxSeen' <= seq'
      BY <1>t, <1>n, <1>s DEF LinkInv, Bounds, LinkType, TableType
    <2> QED BY <1>q, <2>2, <2>3, <2>4 DEF Bounds
  <1>3. Truth'
    <2>1. \A r \in cache : r.snap.seq \in Nat /\ r.snap.seq <= seq /\ shows(r.snap)
      BY <1>t, LinkTypes DEF LinkInv, Bounds, Truth
    <2>2. \A r \in cache' : shows(r.snap)'
      BY <1>t, <1>n, <2>1 DEF shows
    <2> QED BY <1>q, <2>2 DEF Truth
  <1>4. Course'
    BY <1>n DEF LinkInv, Course
  <1>5. Fresh'
    BY <1>n DEF Fresh
  <1>6. Errors'
    BY <1>q DEF Errors
  <1> QED BY <1>q, <1>u, <1>1, <1>2, <1>3, <1>4, <1>5, <1>6 DEF LinkInv

LEMMA SessionKeeps ==
    ASSUME LinkInv, Handlers \/ TurnTimeout \/ Break
    PROVE  LinkInv'
  <1>1. CASE Publishes
    BY <1>1, PublishesKeeps
  <1>2. CASE Ends
    <2>1. Passes
      BY <1>2 DEF Ends, Passes, LinkInv, LinkType, TableType, Course, Lives
    <2> QED BY <2>1, PassesKeeps
  <1>3. CASE \E ms : Answers(ms)
    BY <1>3, AnswersKeeps
  <1> QED BY <1>1, <1>2, <1>3, SessionStep

LEMMA LinkStutters ==
    ASSUME LinkInv, UNCHANGED link
    PROVE  LinkInv' /\ queued' = queued
  <1>1. Passes
    BY DEF link, session, Passes, LinkInv, LinkType, TableType, Course
  <1>2. queued' = queued
    BY DEF link, channels, queued
  <1> QED BY <1>1, <1>2, PassesKeeps

=============================================================================
