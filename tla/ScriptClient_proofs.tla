------------------------ MODULE ScriptClient_proofs ------------------------
(***************************************************************************)
(* cardcore-cli, for every length of the game, every capacity of the       *)
(* subscription, every script and any number of processes at the seat.     *)
(***************************************************************************)
EXTENDS ScriptClient, ClientLink_proofs

ProgramType ==
    /\ cfg \in parseFlags
    /\ script \in Scripts
    /\ stage \in {"create", "start", "connect", "script", "play", "observe",
                  "delete", "done", "exited"}
    /\ actionSeq \in Nat
    /\ exit \in {"none", "ok", "error"}
    /\ stage = "exited" <=> exit # "none"

(* Where the program is, what the session is and what has been read. *)
Stages ==
    /\ stage = "create" => life = "none"
    /\ stage = "start" => life = "draft"
    /\ stage \in {"script", "play"} => ~cfg.observe
    /\ stage \in {"script", "play", "observe"} => subscribed
    /\ stage \in {"create", "start", "connect", "script", "play", "observe"} => shown = maxSeen
    /\ ~skipped

(* A command bears the number of the snapshot it was chosen on, and as long
   as that is the latest, it is what the script has for the table. *)
Chosen ==
    /\ ~paused
    /\ \A c \in Range(up) :
        /\ c.type \in Gameplay
        /\ c.seq = c.saw
        /\ c.by = client => actionSeq > 0
        /\ c.saw = seq =>
            /\ phase \in DOMAIN script /\ mine
            /\ c.type = script[phase].action
            /\ ~c.fit => "miscount" \in script[phase].may

(* An error that ends the program while its session runs. *)
excused(code) ==
    \/ code = "internal_error"
    \/ code = "wrong_phase" /\ misplaced
    \/ code = "malformed_message" /\ miscounts

(* So nothing else is refused but what is late, and nobody is told that the
   game is over but one who has sent something. *)
Refusals ==
    \A m \in queued : m.type = "error" =>
        /\ m.code \in {"stale_seq", "game_over"} \/ excused(m.code)
        /\ m.code = "game_over" => actionSeq > 0

Outcome ==
    /\ stage \in {"delete", "done"} \/ exit = "ok" =>
        phase = "game_over" \/ (life = "broken" /\ actionSeq > 0)
    /\ blame # "none" => stage = "exited"
    /\ blame \in errorCodes => life \in {"over", "broken"} \/ excused(blame)

ScriptInv == ProgramType /\ Stages /\ Chosen /\ Refusals /\ Outcome

Inv == LinkInv /\ ScriptInv

-----------------------------------------------------------------------------
(* The program starts well. *)

LEMMA Initially == Init => Inv
  <1> SUFFICES ASSUME Init PROVE Inv
    OBVIOUS
  <1>1. LinkInit /\ cfg \in parseFlags /\ script \in Scripts /\ subCh = <<>> /\ outCh = <<>>
        /\ up = <<>> /\ shown = 0 /\ maxSeen = 0 /\ paused = FALSE /\ skipped = FALSE
        /\ actionSeq = 0 /\ exit = "none" /\ blame = "none"
        /\ life = (IF cfg.session THEN "live" ELSE "none")
        /\ stage = (IF cfg.session THEN "connect" ELSE "create")
    BY DEF Init, LinkInit
  <1>2. human \in BOOLEAN
    BY Zenon DEF Init
  <1>3. LinkInv
    BY <1>1, <1>2, LinkInitially
  <1>4. queued = {} /\ Range(up) = {}
    BY <1>1, RangeEmpty DEF queued
  <1>5. ProgramType /\ Outcome
    BY <1>1 DEF ProgramType, Outcome, errorCodes
  <1>6. Stages
    BY <1>1 DEF Stages
  <1>7. Chosen /\ Refusals
    BY <1>1, <1>4 DEF Chosen, Refusals
  <1> QED BY <1>3, <1>5, <1>6, <1>7 DEF Inv, ScriptInv

-----------------------------------------------------------------------------
(* What the session does to a script. *)

(* What a script's entries are. *)
LEMMA Entries ==
    ASSUME script \in Scripts
    PROVE  /\ DOMAIN script \subseteq Playable \cup {"interlude"}
           /\ \A ph \in DOMAIN script :
                /\ script[ph].action \in Gameplay
                /\ script[ph].may \subseteq {"choice", "miscount", "failure"}
  <1>1. PICK D \in SUBSET (Playable \cup {"interlude"}) : script \in [D -> Entry]
    BY ScriptAssumption
  <1>2. \A e \in Entry : /\ e.action \in Gameplay
                          /\ e.may \subseteq {"choice", "miscount", "failure"}
    BY DEF Entry
  <1> QED BY <1>1, <1>2

(* A script's command is not refused while it is not late, unless the entry
   is to blame or the queue is full. *)
LEMMA NothingRefused ==
    ASSUME Inv, up # <<>>, NEW ms \in answersTo(Head(up))
    PROVE  \A m \in Range(ms) : m.type = "error" =>
             m.code \in {"stale_seq", "game_over"} \/ excused(m.code)
  <1> DEFINE c == Head(up)
  <1>t. LinkType /\ seq \in Nat /\ movedAt \in Nat /\ movedAt <= seq
    BY DEF Inv, LinkInv, LinkType, TableType, Bounds
  <1>h. /\ c \in Range(up) /\ c.seq \in Nat /\ c.saw \in Nat /\ c.type \in Gameplay
        /\ c.seq <= seq /\ c.seq = c.saw /\ ~paused
        /\ c.saw = seq =>
            /\ phase \in DOMAIN script /\ mine
            /\ c.type = script[phase].action
            /\ ~c.fit => "miscount" \in script[phase].may
    BY <1>t, TailOfUp, LinkTypes DEF Inv, LinkInv, Bounds, ScriptInv, Chosen
  <1>1. ASSUME ~stale(c), phase # "interlude", NEW code \in rejections(c)
        PROVE  excused(code)
    <2>1. c.saw = seq
      BY <1>t, <1>h, <1>1 DEF stale
    <2>2. phase \in Playable \cap DOMAIN script
      BY <1>h, <1>1, <2>1, Entries DEF Inv, ScriptInv, ProgramType
    <2>3. CASE ~c.fit
      <3>1. code = "malformed_message" /\ miscounts
        BY <1>h, <1>1, <2>1, <2>2, <2>3 DEF rejections, miscounts
      <3> QED BY <3>1 DEF excused
    <2>4. CASE c.fit /\ phase # phaseOf[c.type]
      <3>1. code = "wrong_phase" /\ misplaced
        BY <1>h, <1>1, <2>1, <2>2, <2>4 DEF rejections, misplaced
      <3> QED BY <3>1 DEF excused
    <2>5. CASE c.fit /\ phase = phaseOf[c.type]
      <3>1. accepts(c) /\ ~outdated(c)
        BY <1>t, <1>h, <2>1, <2>5 DEF accepts, outdated
      <3> QED BY <1>1, <2>5, <3>1 DEF rejections
    <2> QED BY <2>3, <2>4, <2>5
  <1>2. CASE ms \in {<<e>> : e \in refusals(c)}
    <2>1. PICK e \in refusals(c) : ms = <<e>>
      BY <1>2
    <2>2. e.code = "game_over" \/ excused(e.code)
      BY <1>h, <1>1 DEF refusals, reaches, excused
    <2>3. Range(ms) = {e}
      BY <2>1, RangeOne
    <2> QED BY <2>2, <2>3
  <1>3. CASE ms \in {<<r.snap>> : r \in {r \in replays(c) : c.type \in Gameplay /\ ~stale(c)}}
    <2>1. PICK r \in cache : ms = <<r.snap>>
      BY <1>3 DEF replays
    <2>2. r.snap.type = "snapshot"
      BY <1>t, LinkTypes DEF Snap
    <2>3. Range(ms) = {r.snap}
      BY <2>1, RangeOne
    <2> QED BY <2>2, <2>3
  <1>4. CASE ms = resync
    <2>1. Range(ms) = {snapshot, error("stale_seq", seq)}
      BY <1>4 DEF resync, Range
    <2>2. snapshot.type = "snapshot" /\ error("stale_seq", seq).code = "stale_seq"
      BY DEF snapshot, error
    <2> QED BY <2>1, <2>2
  <1> QED BY <1>2, <1>3, <1>4 DEF answersTo

(* What an entry is to blame for does not change with the session. *)
LEMMA Excuses ==
    ASSUME script' = script
    PROVE  \A code : excused(code)' <=> excused(code)
  <1>1. (misplaced' <=> misplaced) /\ (miscounts' <=> miscounts)
    BY DEF misplaced, miscounts
  <1> QED BY <1>1 DEF excused

LEMMA ServerKeeps ==
    ASSUME Inv, Handlers \/ TurnTimeout \/ Break, UNCHANGED program
    PROVE  Inv'
  <1>i. LinkInv /\ LinkType /\ ScriptInv /\ seq \in Nat
    BY DEF Inv, LinkInv, LinkType, TableType
  <1>k. LinkInv'
    BY <1>i, SessionKeeps
  <1>p. UNCHANGED <<cfg, script, stage, actionSeq, exit, blame>>
    BY DEF program
  <1>e. \A code : excused(code)' <=> excused(code)
    BY <1>p, Excuses
  <1>y. ProgramType'
    BY <1>i, <1>p DEF ScriptInv, ProgramType
  <1>1. CASE Publishes
    <2>1. /\ life = "live" /\ seq' = seq + 1 /\ push(snapshot') /\ outCh' = outCh
          /\ UNCHANGED <<human, maxSeen, shown, client>>
          /\ life' \in {"live", "grace"}
      BY <1>1 DEF Publishes, conn
    <2>2. up' \in Seq(Cmd) /\ Range(up') \subseteq Range(up)
      BY <1>i, <1>1, TailOfUp DEF Publishes, LinkType, ChannelType
    <2>3. paused' = paused
      <3>1. up # <<>> => Head(up).type \in Gameplay
        BY <1>i, TailOfUp DEF ScriptInv, Chosen
      <3> QED BY <1>1, <3>1 DEF Publishes, Gameplay
    <2>4. snapshot' \in Message /\ snapshot'.type = "snapshot"
      BY <1>i, <1>1, <2>1 DEF snapshot, Message, Snap, Publishes
    <2>5. Range(subCh') \subseteq Range(subCh) \cup {snapshot'} /\ UNCHANGED <<subscribed, skipped>>
      BY <1>i, <2>1, <2>4, Pushed
    <2>6. Stages'
      BY <1>i, <1>p, <2>1, <2>5 DEF ScriptInv, Stages
    <2>7. Chosen'
      <3>1. \A c \in Range(up) : c.saw \in Nat /\ c.saw <= seq
        BY <1>i, LinkTypes DEF LinkInv, Bounds
      <3> QED BY <1>i, <1>p, <2>1, <2>2, <2>3, <3>1 DEF ScriptInv, Chosen
    <2>8. Refusals'
      BY <1>i, <1>p, <1>e, <2>1, <2>4, <2>5 DEF ScriptInv, Refusals, queued
    <2>9. Outcome'
      BY <1>i, <1>p, <1>e, <2>1 DEF ScriptInv, Outcome, LinkInv, Course
    <2> QED BY <1>k, <1>y, <2>6, <2>7, <2>8, <2>9 DEF Inv, ScriptInv
  <1>2. CASE Ends
    <2>1. /\ UNCHANGED <<human, seq, phase, paused, mine, subscribed, subCh, outCh, up>>
          /\ UNCHANGED <<maxSeen, shown, client, skipped>>
          /\ \/ life \in {"live", "grace"} /\ life' = "broken"
             \/ life = "grace" /\ life' = "over"
      BY <1>2 DEF Ends, table, channels, conn, history
    <2>2. Stages' /\ Chosen' /\ Refusals' /\ Outcome'
      BY <1>i, <1>p, <1>e, <2>1 DEF ScriptInv, Stages, Chosen, Refusals, Outcome, queued
    <2> QED BY <1>k, <1>y, <2>2 DEF Inv, ScriptInv
  <1>3. CASE \E ms : Answers(ms)
    <2>1. PICK ms : Answers(ms)
      BY <1>3
    <2>2. /\ UNCHANGED <<human, life, seq, phase, paused, mine, maxSeen, shown, client>>
          /\ UNCHANGED <<subscribed, skipped>>
          /\ up # <<>> /\ up' = Tail(up) /\ ms \in answersTo(Head(up)) /\ reply(Head(up), ms)
      BY <2>1 DEF Answers, conn
    <2>3. Range(up') \subseteq Range(up)
      BY <1>i, <2>2, TailOfUp
    <2>4. ms \in Seq(Message)
      BY <1>i, <2>2, AnswerFacts
    <2>5. \A m \in Range(outCh') :
            m \in Range(outCh) \/ (m \in Range(ms) /\ Head(up).by = client)
      BY <1>i, <2>2, <2>4, Replied
    <2>6. \A m \in Range(subCh') :
            m \in Range(subCh) \/ (m \in Range(ms) /\ m.code # "game_over")
      <3>1. CASE UNCHANGED <<subCh, lost>>
        BY <3>1
      <3>2. CASE \E e \in Err : ms = <<e>> /\ e.code \in rejections(Head(up)) /\ push(e)
        <4>1. PICK e \in Err : ms = <<e>> /\ e.code \in rejections(Head(up)) /\ push(e)
          BY <3>2
        <4>2. e \in Message /\ Range(ms) = {e} /\ e.code # "game_over"
          BY <4>1, RangeOne DEF Message, rejections
        <4> QED BY <1>i, <4>1, <4>2, Pushed
      <3> QED BY <2>1, <3>1, <3>2 DEF Answers
    <2>7. Refusals'
      <3>1. \A m \in queued' :
              \/ m \in queued
              \/ m \in Range(ms) /\ (Head(up).by = client \/ m.code # "game_over")
        BY <2>5, <2>6 DEF queued
      <3>2. Head(up).by = client => actionSeq > 0
        BY <1>i, <2>2, TailOfUp DEF ScriptInv, Chosen
      <3> QED BY <1>i, <1>p, <1>e, <2>2, <3>1, <3>2, NothingRefused DEF ScriptInv, Refusals
    <2>8. Stages' /\ Chosen' /\ Outcome'
      BY <1>i, <1>p, <1>e, <2>2, <2>3 DEF ScriptInv, Stages, Chosen, Outcome
    <2> QED BY <1>k, <1>y, <2>7, <2>8 DEF Inv, ScriptInv
  <1> QED BY <1>i, <1>1, <1>2, <1>3, SessionStep

-----------------------------------------------------------------------------
(* What the program does. *)

(* A step that leaves the link alone. *)
LEMMA ProgramKeeps ==
    ASSUME Inv, UNCHANGED link, ProgramType',
           stage' \in {"script", "play", "observe"} => stage = stage' \/ stage = "script",
           stage' \in {"create", "start", "connect"} => stage' = stage,
           UNCHANGED <<cfg, script, actionSeq>>, Outcome'
    PROVE  Inv'
  <1>1. LinkInv' /\ queued' = queued
    BY LinkStutters DEF Inv
  <1>2. UNCHANGED <<life, seq, phase, paused, mine, subscribed, up, maxSeen, shown, client, skipped>>
    BY DEF link, session, table, channels, conn, history
  <1>3. Stages' /\ Chosen' /\ Refusals'
    BY <1>1, <1>2, Excuses DEF Inv, ScriptInv, Stages, Chosen, Refusals
  <1> QED BY <1>1, <1>3 DEF Inv, ScriptInv

(* A step after which only the session's life may have changed. *)
LEMMA LifeKeeps ==
    ASSUME Inv, UNCHANGED <<human, seq, table, cache, channels, up, conn, client, history>>,
           life' \in Lives,
           life' \in {"none", "draft", "live"} => phase # "game_over",
           life' \in {"grace", "over"} => phase = "game_over",
           life \in {"over", "broken"} => life' = life,
           ProgramType', UNCHANGED <<cfg, script, actionSeq>>, Outcome',
           stage' \notin {"create", "script", "play", "observe"},
           stage' = "start" => life' = "draft" /\ stage = "create",
           stage' = "connect" => stage = "start"
    PROVE  Inv'
  <1>1. Passes
    BY DEF Passes, Inv, ScriptInv, Chosen, LinkInv, LinkType, TableType
  <1>2. LinkInv'
    BY <1>1, PassesKeeps DEF Inv
  <1>3. /\ UNCHANGED <<seq, phase, paused, mine, subscribed, subCh, outCh, up>>
        /\ UNCHANGED <<maxSeen, shown, client, skipped>>
    BY DEF table, channels, conn, history
  <1>4. Stages' /\ Chosen' /\ Refusals'
    BY <1>3, Excuses DEF Inv, ScriptInv, Stages, Chosen, Refusals, queued
  <1> QED BY <1>2, <1>4 DEF Inv, ScriptInv

LEMMA SetupKeeps ==
    ASSUME Inv, Setup
    PROVE  Inv'
  <1>i. ProgramType /\ Stages /\ Chosen /\ Outcome /\ Course
    BY DEF Inv, ScriptInv, LinkInv
  <1>1. CASE CreateSession
    <2>1. /\ stage = "create" /\ life = "none" /\ phase # "game_over"
          /\ exit = "none" /\ blame = "none"
      BY <1>i, <1>1 DEF CreateSession, Stages, Course, ProgramType, Outcome, errorCodes
    <2>2. CASE life' = "draft" /\ goes("start")
      <3>1. ProgramType' /\ Outcome'
        BY <1>i, <2>1, <2>2 DEF goes, ProgramType, Outcome, errorCodes
      <3> QED BY <1>1, <2>1, <2>2, <3>1, LifeKeeps DEF CreateSession, goes, Lives
    <2>3. CASE life' = "none" /\ fails("setup")
      <3>1. ProgramType' /\ Outcome'
        BY <1>i, <2>1, <2>3 DEF fails, ProgramType, Outcome, errorCodes
      <3> QED BY <1>1, <2>1, <2>3, <3>1, LifeKeeps DEF CreateSession, fails, Lives
    <2> QED BY <1>1, <2>2, <2>3 DEF CreateSession
  <1>2. CASE StartSession
    <2>1. /\ stage = "start" /\ life = "draft" /\ phase # "game_over"
          /\ exit = "none" /\ blame = "none"
      BY <1>i, <1>2 DEF StartSession, Stages, Course, ProgramType, Outcome, errorCodes
    <2>2. CASE life' = "live" /\ goes("connect")
      <3>1. ProgramType' /\ Outcome'
        BY <1>i, <2>1, <2>2 DEF goes, ProgramType, Outcome, errorCodes
      <3> QED BY <1>2, <2>1, <2>2, <3>1, LifeKeeps DEF StartSession, goes, Lives
    <2>3. CASE life' = "draft" /\ fails("setup")
      <3>1. ProgramType' /\ Outcome'
        BY <1>i, <2>1, <2>3 DEF fails, ProgramType, Outcome, errorCodes
      <3> QED BY <1>2, <2>1, <2>3, <3>1, LifeKeeps DEF StartSession, fails, Lives
    <2> QED BY <1>2, <2>2, <2>3 DEF StartSession
  <1>3. CASE Dial
    <2>1. stage = "connect" /\ exit = "none" /\ blame = "none" /\ shown = maxSeen
      BY <1>i, <1>3 DEF Dial, Stages, ProgramType, Outcome, errorCodes
    <2>2. CASE Connect /\ goes(IF cfg.observe THEN "observe" ELSE "script")
      <3>1. LinkInv'
        BY <2>2, ConnectKeeps DEF Inv
      <3>2. /\ UNCHANGED <<life, seq, phase, paused, mine, outCh, up, maxSeen, shown, skipped>>
            /\ UNCHANGED <<client, cfg, script, actionSeq>>
            /\ subscribed' = TRUE /\ subCh' \in {<<>>, <<snapshot>>}
        BY <2>2 DEF Connect, goes, session, table, conn, history
      <3>3. ProgramType' /\ Outcome'
        BY <1>i, <2>1, <2>2, <3>2 DEF goes, ProgramType, Outcome, errorCodes
      <3>4. Stages'
        BY <1>i, <2>1, <2>2, <3>2 DEF goes, Stages
      <3>5. Refusals'
        <4>1. Range(subCh') \subseteq {snapshot} /\ snapshot.type = "snapshot"
          BY <3>2, RangeOne, RangeEmpty DEF snapshot
        <4> QED BY <3>2, <4>1, Excuses DEF Inv, ScriptInv, Refusals, queued
      <3>6. Chosen'
        BY <1>i, <3>2 DEF Chosen
      <3> QED BY <3>1, <3>3, <3>4, <3>5, <3>6 DEF Inv, ScriptInv
    <2>3. CASE fails("setup") /\ UNCHANGED link
      <3>1. ProgramType' /\ Outcome'
        BY <1>i, <2>1, <2>3 DEF fails, ProgramType, Outcome, errorCodes
      <3> QED BY <2>3, <3>1, ProgramKeeps DEF fails
    <2> QED BY <1>3, <2>2, <2>3 DEF Dial
  <1>4. CASE ReadScript
    <2>1. stage = "script" /\ exit = "none" /\ blame = "none" /\ UNCHANGED link
      BY <1>i, <1>4 DEF ReadScript, ProgramType, Outcome, errorCodes
    <2>2. CASE goes("play")
      <3>1. ProgramType' /\ Outcome'
        BY <1>i, <2>1, <2>2 DEF goes, ProgramType, Outcome, errorCodes
      <3> QED BY <2>1, <2>2, <3>1, ProgramKeeps DEF goes
    <2>3. CASE fails("script")
      <3>1. ProgramType' /\ Outcome'
        BY <1>i, <2>1, <2>3 DEF fails, ProgramType, Outcome, errorCodes
      <3> QED BY <2>1, <2>3, <3>1, ProgramKeeps DEF fails
    <2> QED BY <1>4, <2>2, <2>3 DEF ReadScript
  <1> QED BY <1>1, <1>2, <1>3, <1>4 DEF Setup

(* A message has been read, nothing sent, and the program goes on, leaves
   or fails. *)
LEMMA ReadingKeeps ==
    ASSUME Inv, stage \in {"play", "observe"}, NEW m, ReadSnapshot(m), unsent,
           ProgramType', Outcome', UNCHANGED <<cfg, script, actionSeq>>,
           stage' = stage \/ stage' \in {"delete", "done", "exited"},
           stage' = stage => shown' = maxSeen'
    PROVE  Inv'
  <1>1. UNCHANGED <<session, client, history>> /\ up' = up
    BY DEF unsent
  <1>2. LinkInv'
    BY <1>1, ReadKeeps DEF Inv
  <1>3. UNCHANGED <<life, seq, phase, paused, mine, client, skipped>> /\ up' = up
    BY <1>1 DEF session, table, history
  <1>4. queued' \subseteq queued /\ subscribed' = subscribed
    BY ReadFacts DEF Inv
  <1>5. Stages' /\ Chosen' /\ Refusals'
    BY <1>3, <1>4, Excuses DEF Inv, ScriptInv, Stages, Chosen, Refusals
  <1> QED BY <1>2, <1>5 DEF Inv, ScriptInv

LEMMA StepsKeep ==
    ASSUME Inv, Steps
    PROVE  Inv'
  <1>i. LinkInv /\ LinkType /\ ProgramType /\ Stages /\ Chosen /\ Refusals /\ Outcome /\ Course
    BY DEF Inv, ScriptInv, LinkInv
  <1>l. ASSUME unsent PROVE UNCHANGED <<life, phase>>
    BY <1>l DEF unsent, session, table
  <1>e. script' = script => \A code : excused(code)' <=> excused(code)
    BY Excuses
  <1>1. CASE StepNothing
    <2>1. PICK m \in readable : stage = "play" /\ fresh(m) /\ stays /\ unsent
      BY <1>1 DEF StepNothing
    <2>2. ReadSnapshot(m) /\ shown' = maxSeen'
      BY <1>i, <2>1, ReadFacts DEF fresh
    <2>3. ProgramType' /\ Outcome'
      BY <1>i, <1>l, <2>1 DEF stays, ProgramType, Outcome, errorCodes
    <2> QED BY <2>1, <2>2, <2>3, ReadingKeeps DEF stays
  <1>2. CASE StepLost
    <2>1. PICK m \in readable : stage = "play" /\ fresh(m) /\ fails("script") /\ unsent
      BY <1>2 DEF StepLost
    <2>2. ProgramType' /\ Outcome'
      BY <1>i, <1>l, <2>1 DEF fails, ProgramType, Outcome, errorCodes
    <2> QED BY <2>1, <2>2, ReadingKeeps DEF fails, fresh
  <1>3. CASE StepDone
    <2>1. PICK m \in readable : stage = "play" /\ fresh(m) /\ wins(m) /\ leaves /\ unsent
      BY <1>3 DEF StepDone
    <2>2. phase = "game_over"
      BY <1>i, <2>1, ReadFacts DEF fresh, wins, shows
    <2>3. ProgramType' /\ Outcome' /\ stage' \in {"delete", "done"}
          /\ UNCHANGED <<cfg, script, actionSeq>>
      BY <1>i, <1>l, <2>1, <2>2 DEF leaves, goes, ProgramType, Outcome, errorCodes
    <2> QED BY <2>1, <2>3, ReadingKeeps DEF fresh
  <1>4. CASE Observe
    <2>1. PICK m \in readable :
            /\ stage = "observe" /\ fresh(m) /\ unsent
            /\ \/ wins(m) /\ leaves
               \/ ~wins(m) /\ stays
               \/ fails("stdout")
      BY <1>4 DEF Observe
    <2>2. CASE wins(m) /\ leaves
      <3>1. phase = "game_over"
        BY <1>i, <2>1, <2>2, ReadFacts DEF fresh, wins, shows
      <3>2. ProgramType' /\ Outcome' /\ stage' \in {"delete", "done"}
          /\ UNCHANGED <<cfg, script, actionSeq>>
        BY <1>i, <1>l, <2>1, <2>2, <3>1 DEF leaves, goes, ProgramType, Outcome, errorCodes
      <3> QED BY <2>1, <3>2, ReadingKeeps DEF fresh
    <2>3. CASE stays
      <3>1. ReadSnapshot(m) /\ shown' = maxSeen'
        BY <1>i, <2>1, ReadFacts DEF fresh
      <3>2. ProgramType' /\ Outcome'
        BY <1>i, <1>l, <2>1, <2>3 DEF stays, ProgramType, Outcome, errorCodes
      <3> QED BY <2>1, <2>3, <3>1, <3>2, ReadingKeeps DEF stays
    <2>4. CASE fails("stdout")
      <3>1. ProgramType' /\ Outcome'
        BY <1>i, <1>l, <2>1, <2>4 DEF fails, ProgramType, Outcome, errorCodes
      <3> QED BY <2>1, <2>4, <3>1, ReadingKeeps DEF fails, fresh
    <2> QED BY <2>1, <2>2, <2>3, <2>4
  <1>5. CASE StepSends
    <2>1. PICK m \in readable :
            /\ stage = "play" /\ fresh(m) /\ hasEntry(m) /\ actionSeq' = actionSeq + 1
            /\ UNCHANGED <<session, client, history, cfg, script>>
            /\ \/ /\ \E picked \in script[m.phase].may \ {"failure"} :
                        write(stamp(newCommand(script[m.phase].action, actionSeq', m.seq,
                                               picked = "choice")))
                  /\ UNCHANGED <<stage, exit, blame>>
               \/ /\ life \in {"over", "broken"}
                  /\ stage' = "exited" /\ exit' = "error" /\ blame' = "closed"
                  /\ UNCHANGED up
      BY <1>5 DEF StepSends
    <2>2. /\ ReadSnapshot(m) /\ m.type = "snapshot" /\ m.seq \in Nat /\ m.seq <= seq
          /\ maxSeen' = m.seq /\ shown' = m.seq /\ maxSeen' \in Nat
          /\ queued' \subseteq queued /\ subscribed' = subscribed /\ shows(m)
      BY <1>i, <2>1, ReadFacts DEF fresh
    <2>3. UNCHANGED <<life, seq, phase, paused, mine, client, skipped>>
      BY <2>1 DEF session, table, history
    <2>4. actionSeq \in Nat /\ actionSeq' \in Nat /\ actionSeq' > 0
          /\ (actionSeq > 0 => actionSeq' > 0)
      BY <1>i, <2>1 DEF ProgramType
    <2>5. m.phase \in DOMAIN script /\ m.mine /\ script[m.phase].action \in Gameplay
      BY <1>i, <2>1, Entries DEF hasEntry, scripted, ProgramType
    <2>e. \A code : excused(code)' <=> excused(code)
      BY <1>e, <2>1
    <2>6. ProgramType' /\ Outcome'
      BY <1>i, <2>1, <2>3, <2>4, <2>e DEF ProgramType, Outcome, errorCodes
    <2>7. Stages' /\ Refusals'
      BY <1>i, <2>1, <2>2, <2>3, <2>4, <2>e DEF Stages, Refusals
    <2>8. CASE UNCHANGED up
      <3>1. LinkInv'
        BY <1>i, <2>1, <2>2, <2>8, ReadKeeps
      <3>2. Chosen'
        BY <1>i, <2>1, <2>3, <2>4, <2>8 DEF Chosen
      <3> QED BY <2>6, <2>7, <3>1, <3>2 DEF Inv, ScriptInv
    <2>9. CASE \E picked \in script[m.phase].may \ {"failure"} :
                 write(stamp(newCommand(script[m.phase].action, actionSeq', m.seq,
                                        picked = "choice")))
      <3>1. PICK picked \in script[m.phase].may \ {"failure"} :
              write(stamp(newCommand(script[m.phase].action, actionSeq', m.seq,
                                     picked = "choice")))
        BY <2>9
      <3> DEFINE fit == picked = "choice"
                 c == [type |-> script[m.phase].action, seq |-> maxSeen', id |-> actionSeq',
                       by |-> client, saw |-> m.seq, fit |-> fit]
      <3>2. fit \in BOOLEAN
        BY Zenon
      <3>3. ~fit => "miscount" \in script[m.phase].may
        BY <1>i, <2>5, Entries DEF ProgramType
      <3> HIDE DEF fit
      <3>4. c \in Cmd
        BY <1>i, <2>2, <2>4, <2>5, <3>2 DEF Cmd, Commands, LinkType, ConnType
      <3>5. c = stamp(newCommand(script[m.phase].action, actionSeq', m.seq, fit))
        BY DEF stamp, newCommand
      <3>6. /\ c.by = client /\ c.saw = m.seq /\ c.seq = m.seq /\ c.fit = fit
            /\ c.type = script[m.phase].action
        BY <2>2
      <3>7. write(c)
        BY <3>1, <3>5 DEF fit
      <3> HIDE DEF c
      <3>8. Sends
        BY <2>2, <3>4, <3>6, <3>7 DEF Sends
      <3>9. LinkInv'
        BY <1>i, <2>1, <2>2, <3>8, ReadKeeps
      <3>10. Range(up') = Range(up) \cup {c}
        BY <1>i, <3>4, <3>7, SentCommand
      <3>11. m.seq = seq => phase = m.phase /\ mine
        BY <1>i, <2>2, <2>5 DEF shows, Chosen
      <3>12. Chosen'
        BY <1>i, <2>1, <2>3, <2>4, <2>5, <3>3, <3>6, <3>10, <3>11 DEF Chosen
      <3> QED BY <2>6, <2>7, <3>9, <3>12 DEF Inv, ScriptInv
    <2> QED BY <2>1, <2>8, <2>9
  <1> QED BY <1>1, <1>2, <1>3, <1>4, <1>5 DEF Steps

LEMMA ReadsKeep ==
    ASSUME Inv, ReadsError \/ ReadsClose \/ Discard
    PROVE  Inv'
  <1>i. LinkInv /\ LinkType /\ ProgramType /\ Stages /\ Chosen /\ Refusals /\ Outcome /\ Course
    BY DEF Inv, ScriptInv, LinkInv
  <1>e. script' = script => \A code : excused(code)' <=> excused(code)
    BY Excuses
  <1>1. CASE ReadsError
    <2>1. PICK m \in readable :
            /\ stage \in {"play", "observe"} /\ m.type = "error" /\ ReadSnapshot(m)
            /\ \/ resyncs(m.code) /\ stays
               \/ m.code = "game_over" /\ leaves
               \/ ~resyncs(m.code) /\ m.code # "game_over" /\ fails(m.code)
      BY <1>1 DEF ReadsError
    <2>2. unsent /\ UNCHANGED <<life, phase>>
      BY <1>1 DEF ReadsError, unsent, session, table
    <2>3. /\ m \in queued
          /\ m.code \in {"stale_seq", "game_over"} \/ excused(m.code)
          /\ m.code = "game_over" => actionSeq > 0
      BY <1>i, <2>1, ReadFacts DEF Refusals
    <2>4. CASE resyncs(m.code) /\ stays
      <3>1. ProgramType' /\ Outcome'
        BY <1>i, <2>1, <2>2, <2>4 DEF stays, ProgramType, Outcome, errorCodes
      <3>2. shown' = maxSeen'
        BY <1>i, <2>1, <2>4, ReadFacts DEF resyncs, Stages
      <3> QED BY <2>1, <2>2, <2>4, <3>1, <3>2, ReadingKeeps DEF stays
    <2>5. CASE m.code = "game_over" /\ leaves
      <3>1. phase = "game_over" \/ (life = "broken" /\ actionSeq > 0)
        BY <1>i, <2>1, <2>3, <2>5, ReadFacts DEF Course
      <3>2. ProgramType' /\ Outcome' /\ stage' \in {"delete", "done"}
          /\ UNCHANGED <<cfg, script, actionSeq>>
        BY <1>i, <2>1, <2>2, <2>5, <3>1 DEF leaves, goes, ProgramType, Outcome, errorCodes
      <3> QED BY <2>1, <2>2, <3>2, ReadingKeeps
    <2>6. CASE ~resyncs(m.code) /\ m.code # "game_over" /\ fails(m.code)
      <3>1. excused(m.code)
        BY <2>3, <2>6 DEF resyncs
      <3>2. ProgramType' /\ Outcome'
        BY <1>i, <1>e, <2>1, <2>2, <2>6, <3>1 DEF fails, ProgramType, Outcome, errorCodes
      <3> QED BY <2>1, <2>2, <2>6, <3>2, ReadingKeeps DEF fails
    <2> QED BY <2>1, <2>4, <2>5, <2>6
  <1>2. CASE ReadsClose
    <2>1. PICK code \in closeCodes : readsClose(code)
      BY <1>2 DEF ReadsClose
    <2>2. /\ stage \in {"play", "observe"} /\ fails("closed")
          /\ UNCHANGED <<session, up, conn, client, history>>
      BY <1>2 DEF ReadsClose
    <2>3. LinkInv' /\ queued' \subseteq queued
      BY <1>i, <2>1, <2>2, CloseKeeps
    <2>4. UNCHANGED <<life, seq, phase, paused, mine, maxSeen, shown, client, skipped, up>>
      BY <2>2 DEF session, table, conn, history
    <2>5. ProgramType' /\ Outcome'
      BY <1>i, <2>2, <2>4 DEF fails, ProgramType, Outcome, errorCodes
    <2>6. Stages' /\ Chosen' /\ Refusals'
      BY <1>i, <1>e, <2>2, <2>3, <2>4 DEF fails, Stages, Chosen, Refusals
    <2> QED BY <2>3, <2>5, <2>6 DEF Inv, ScriptInv
  <1>3. CASE Discard
    <2>1. stage \in {"play", "observe"} /\ DiscardSnapshot
          /\ UNCHANGED <<cfg, script, stage, actionSeq, exit, blame>>
      BY <1>3 DEF Discard, program
    <2>2. /\ LinkInv' /\ UNCHANGED <<session, up, conn, client, subscribed, entry>>
          /\ queued' \subseteq queued /\ (skipped' # skipped => shown # maxSeen)
      BY <1>i, <2>1, DiscardKeeps
    <2>3. UNCHANGED <<life, seq, phase, paused, mine, maxSeen, shown, up>>
      BY <2>2 DEF session, table, conn
    <2>4. skipped' = skipped
      BY <1>i, <2>1, <2>2 DEF Stages
    <2>5. ProgramType' /\ Outcome'
      BY <1>i, <2>1, <2>3 DEF ProgramType, Outcome, errorCodes
    <2>6. Stages' /\ Chosen' /\ Refusals'
      BY <1>i, <1>e, <2>1, <2>2, <2>3, <2>4 DEF Stages, Chosen, Refusals
    <2> QED BY <2>2, <2>5, <2>6 DEF Inv, ScriptInv
  <1> QED BY <1>1, <1>2, <1>3

LEMMA EndKeeps ==
    ASSUME Inv, DeleteSession \/ Exit
    PROVE  Inv'
  <1>i. ProgramType /\ Stages /\ Outcome /\ Course /\ life \in Lives
    BY DEF Inv, ScriptInv, LinkInv, LinkType, TableType
  <1>1. CASE DeleteSession
    <2>1. /\ stage = "delete" /\ stage' = "done" /\ UNCHANGED <<cfg, script, actionSeq>>
          /\ life' = life \/ (life = "grace" /\ life' = "over")
          /\ UNCHANGED <<human, seq, table, cache, channels, up, conn, client, history>>
      BY <1>1 DEF DeleteSession, goes
    <2>2. /\ phase = "game_over" \/ (life = "broken" /\ actionSeq > 0)
          /\ phase' = phase /\ exit = "none" /\ blame = "none"
      BY <1>i, <2>1 DEF Outcome, ProgramType, table
    <2>3. ProgramType' /\ Outcome'
      BY <1>1, <1>i, <2>1, <2>2 DEF DeleteSession, goes, ProgramType, Outcome, errorCodes
    <2> QED BY <1>i, <2>1, <2>2, <2>3, LifeKeeps DEF Lives, Course
  <1>2. CASE Exit
    <2>1. /\ stage = "done"
          /\ phase = "game_over" \/ (life = "broken" /\ actionSeq > 0)
          /\ blame = "none" /\ UNCHANGED link
      BY <1>i, <1>2 DEF Exit, Outcome
    <2>2. phase' = phase /\ life' = life
      BY <2>1 DEF link, session, table
    <2>3. ProgramType' /\ Outcome'
      BY <1>2, <1>i, <2>1, <2>2 DEF Exit, ProgramType, Outcome, errorCodes
    <2> QED BY <1>2, <2>1, <2>3, ProgramKeeps DEF Exit
  <1> QED BY <1>1, <1>2

LEMMA RejoinKeeps ==
    ASSUME Inv, Rejoin
    PROVE  Inv'
  <1>i. LinkInv /\ ProgramType /\ Stages /\ Chosen /\ Outcome
    BY DEF Inv, ScriptInv
  <1>1. LinkInv' /\ queued' = {} /\ Range(up') \subseteq Range(up)
    BY <1>i, LeaveKeeps DEF Rejoin
  <1>2. /\ stage = "play" /\ stage' = "connect" /\ life = "live" /\ maxSeen' = 0 /\ shown' = 0
        /\ cfg' = [cfg EXCEPT !.session = TRUE, !.token = TRUE]
        /\ actionSeq' = 0 /\ paused' = FALSE
        /\ seq' = (IF paused THEN seq + 1 ELSE seq)
        /\ UNCHANGED <<life, phase, mine, skipped, script, exit, blame>>
        /\ client' = client + 1
    BY DEF Rejoin, Leave, history
  <1>3. seq' = seq
    BY <1>i, <1>2 DEF Chosen
  <1>4. cfg \in Flags /\ cfg.script /\ ~cfg.observe
    BY <1>i, <1>2 DEF ProgramType, Stages, parseFlags
  <1>5. cfg' \in parseFlags
    BY <1>2, <1>4 DEF parseFlags, Flags
  <1>6. ProgramType' /\ Outcome'
    BY <1>i, <1>2, <1>5 DEF ProgramType, Outcome, errorCodes
  <1>7. \A c \in Range(up') : c \in Range(up) /\ c.by # client'
    <2>1. \A c \in Range(up) : c.by \in Nat /\ c.by <= client
      BY <1>i, LinkTypes DEF LinkInv, Bounds
    <2> QED BY <1>i, <1>1, <1>2, <2>1 DEF LinkInv, LinkType, ConnType
  <1>8. Stages' /\ Refusals'
    BY <1>i, <1>1, <1>2 DEF Stages, Refusals
  <1>9. Chosen'
    BY <1>i, <1>2, <1>3, <1>7 DEF Chosen
  <1> QED BY <1>1, <1>6, <1>8, <1>9 DEF Inv, ScriptInv

-----------------------------------------------------------------------------
(* The theorems. *)

LEMMA StepKeeps ==
    ASSUME Inv, [Next]_vars
    PROVE  Inv'
  <1>1. CASE Server
    BY <1>1, ServerKeeps DEF Server
  <1>2. CASE Break /\ UNCHANGED program
    BY <1>2, ServerKeeps
  <1>3. CASE Setup
    BY <1>3, SetupKeeps
  <1>4. CASE Reads
    BY <1>4, StepsKeep, ReadsKeep DEF Reads
  <1>5. CASE DeleteSession \/ Exit
    BY <1>5, EndKeeps
  <1>6. CASE Rejoin
    BY <1>6, RejoinKeeps
  <1>7. CASE UNCHANGED vars
    <2>1. UNCHANGED link /\ UNCHANGED <<cfg, script, stage, actionSeq, exit, blame, life, phase>>
      BY <1>7 DEF vars, program, link, session, table
    <2>2. ProgramType' /\ Outcome'
      BY <2>1, Excuses DEF Inv, ScriptInv, ProgramType, Outcome
    <2> QED BY <2>1, <2>2, ProgramKeeps
  <1> QED BY <1>1, <1>2, <1>3, <1>4, <1>5, <1>6, <1>7 DEF Next

(* The inductive invariant: what ClientLink promises and where the program
   may be meanwhile (run, ScriptExecutor.Step). *)
THEOREM Invariance == Spec => []Inv
  BY Initially, StepKeeps, PTL DEF Spec

(* Every variable has its type, the subscription keeps to its capacity, and
   a program that has exited has a status (run). *)
THEOREM TypeCorrect == Spec => []TypeOK
  <1>1. ASSUME Inv PROVE TypeOK
    <2>i. LinkType /\ Bounds /\ ProgramType /\ Chosen /\ Refusals
      BY <1>1 DEF Inv, LinkInv, ScriptInv
    <2>1. \A m \in queued : m \in messages
      <3> SUFFICES ASSUME NEW m \in queued PROVE m \in messages
        OBVIOUS
      <3>1. m \in Message
        BY <2>i, LinkTypes
      <3>2. CASE m \in Snap
        BY <3>2 DEF Snap, messages
      <3>3. CASE m \in Err
        <4>1. m.code \in errorCodes
          BY <3>3 DEF Err, Codes, errorCodes
        <4>2. m = [type |-> m.type, seq |-> m.seq, code |-> m.code] /\ m.type = "error"
              /\ m.seq \in Nat
          BY <3>3 DEF Err
        <4> QED BY <4>1, <4>2 DEF messages
      <3> QED BY <3>1, <3>2, <3>3 DEF Message
    <2>2. /\ \A i \in DOMAIN subCh : subCh[i] \in messages
          /\ \A i \in DOMAIN outCh : outCh[i] \in messages
      <3>1. /\ \A i \in DOMAIN subCh : subCh[i] \in Range(subCh)
            /\ \A i \in DOMAIN outCh : outCh[i] \in Range(outCh)
        BY <2>i, RangeIndex, LenProperties DEF LinkType, ChannelType
      <3> QED BY <2>1, <3>1 DEF queued
    <2>3. \A i \in DOMAIN up : up[i].type \in Gameplay /\ up[i].by \in 1 .. client
      <3>1. \A i \in DOMAIN up : up[i] \in Range(up)
        BY <2>i, RangeIndex, LenProperties DEF LinkType, ChannelType
      <3>2. \A c \in Range(up) : c.type \in Gameplay /\ c.by \in 1 .. client
        BY <2>i, LinkTypes DEF Chosen, Bounds, LinkType, ConnType
      <3> QED BY <3>1, <3>2
    <2>4. maxSeen \in 0 .. seq /\ Len(subCh) <= SubCap /\ phase \in Phases
      BY <2>i DEF LinkType, TableType, ChannelType, ConnType, Bounds
    <2> QED BY <2>i, <2>2, <2>3, <2>4
      DEF TypeOK, ProgramType, LinkType, TableType, ChannelType, Lives
  <1> QED BY <1>1, Invariance, PTL

(* Exit status 0 means that the game was played to its end, whichever way
   the program has learned of it, or that the session broke off and answered
   an action it found in its queue (runPlayer, runObserver, drainCmds). *)
THEOREM SuccessIsTheEnd == Spec => []SuccessMeansGameOver
  <1>1. ASSUME Inv PROVE SuccessMeansGameOver
    BY <1>1 DEF Inv, ScriptInv, Outcome, SuccessMeansGameOver
  <1> QED BY <1>1, Invariance, PTL

(* A session that runs answers a script with nothing that ends the program,
   unless its queue is full or the script's entry is to blame: what comes
   late is told to resync (handlePlay, SubmitAction, runPlayer). *)
THEOREM NothingRefusedWhileRunning == Spec => []RunningSessionRefusesNothing
  <1>1. ASSUME Inv PROVE RunningSessionRefusesNothing
    BY <1>1 DEF Inv, ScriptInv, Outcome, excused, RunningSessionRefusesNothing
  <1> QED BY <1>1, Invariance, PTL

(* With nothing on its way the program has looked at the latest table, if
   no snapshot was dropped (sendNonBlocking, Conn.ReadSnapshot). *)
THEOREM QuietIsCurrent == Spec => []QuietProgramIsUpToDate
  <1>1. ASSUME Inv PROVE QuietProgramIsUpToDate
    <2> SUFFICES ASSUME stage \in {"play", "observe"}, entry = "registered", subCh = <<>>, ~lost
                 PROVE  shown = seq
      BY DEF QuietProgramIsUpToDate
    <2>1. Range(subCh) = {}
      BY RangeEmpty
    <2> QED BY <1>1, <2>1 DEF Inv, LinkInv, ScriptInv, Fresh, Stages
  <1> QED BY <1>1, Invariance, PTL

(* The session applies an action to the table it was chosen on, whatever
   was played or timed out meanwhile (handlePlay's seq check). *)
THEOREM ActionsFit == Spec => ActionFitsTable
  <1>1. ASSUME Inv, [Next]_vars PROVE [cache' # cache => Head(up).saw = seq]_vars
    <2> SUFFICES ASSUME cache' # cache PROVE Head(up).saw = seq
      OBVIOUS
    <2>i. LinkInv /\ LinkType /\ seq \in Nat
      BY <1>1 DEF Inv, LinkInv, LinkType, TableType
    <2>1. Handlers \/ TurnTimeout \/ Break
      BY <1>1 DEF Next, Server, vars, link, session, channels, Setup, CreateSession, StartSession, Dial,
         Connect, ReadScript, Reads, Steps, StepNothing, StepLost, StepDone, StepSends, Observe,
         ReadsError, ReadsClose, Discard, DiscardSnapshot, unsent, DeleteSession, Exit, Rejoin, Leave
    <2>2. Publishes
      BY <2>i, <2>1, SessionStep DEF Ends, Answers
    <2>3. up # <<>> /\ reaches(Head(up))
      BY <2>2 DEF Publishes
    <2>4. Head(up) \in Range(up) /\ Head(up).seq \in Nat /\ Head(up).seq <= seq
      BY <2>i, <2>3, TailOfUp, LinkTypes DEF LinkInv, Bounds
    <2>5. Head(up).seq = Head(up).saw
      BY <1>1, <2>4 DEF Inv, ScriptInv, Chosen
    <2> QED BY <2>i, <2>3, <2>4, <2>5 DEF reaches, stale
  <1> QED BY <1>1, Invariance, PTL DEF Spec, ActionFitsTable

=============================================================================
