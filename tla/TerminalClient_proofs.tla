----------------------- MODULE TerminalClient_proofs -----------------------
(***************************************************************************)
(* cardcore-tui, for every length of the game, every capacity of the       *)
(* subscription and any number of key presses.                             *)
(***************************************************************************)
EXTENDS TerminalClient, ClientLink_proofs, FiniteSetTheorems

Close == [type : {"close"}, code : {"normal", "goingAway", "internal"}]

ProgramType ==
    /\ observer \in BOOLEAN
    /\ stage \in {"menu", "create", "start", "connect", "run", "quit", "closed", "failed"}
    /\ held \in Seq(Message \cup Close) /\ Len(held) <= 1
    /\ view \in [seq : Nat, phase : Phases \cup {"paused", "connecting"}, mine : BOOLEAN]
    /\ deadline \in BOOLEAN /\ timeoutDisabled \in BOOLEAN
    /\ inputDisabled \in BOOLEAN /\ submitted \in BOOLEAN
    /\ escConfirm \in BOOLEAN /\ modalContinue \in BOOLEAN /\ restamped \in BOOLEAN
    /\ fatal \in {"none", "close", "pause_not_allowed", "illegal_move", "internal_error"}
    /\ ticks \in Nat /\ flashes \in Nat /\ keys \in 0 .. Keys
    /\ sends \subseteq Cmd
    /\ clock \in {"early", "cutoff", "due"}

(* A key press starts one flash or one command at most, and a command that
   cannot be written becomes a flash. *)
Spent == IsFiniteSet(sends) /\ Cardinality(sends) + flashes + keys <= Keys

(* Where the program is, what the session is and what has been read. *)
Stages ==
    /\ human => ~observer
    /\ client = 1
    /\ life \in {"none", "draft", "live"} => entry = "registered"
    /\ stage \in {"menu", "create"} => life = "none" /\ ~human
    /\ stage = "start" => life = "draft"
    /\ stage \in {"menu", "create", "start", "connect"} => view.seq = 0
    /\ stage = "run" /\ life \in {"live", "grace"} => subscribed

(* The screen shows what the reader has handed over. *)
Screen ==
    /\ held = <<>> \/ Head(held).type # "snapshot" => view.seq = shown
    /\ held # <<>> /\ Head(held).type = "snapshot" =>
        Head(held).seq = shown /\ view.seq < shown /\ shows(Head(held))
    /\ view.seq = 0 => view.phase = "connecting"
    /\ shows(view)

(* The answer to a pause that came too late and the one of a full queue end
   the program. *)
ending == [type : {"error"}, seq : Nat, code : {"pause_not_allowed", "internal_error"}]

(* A snapshot is passed over only for an error that ends the program. *)
Caught ==
    skipped \/ shown # maxSeen =>
        \/ life \in {"grace", "over", "broken"}
        \/ fatal # "none"
        \/ held # <<>> /\ Head(held) \in ending

(* What the close the reader holds says of the session. *)
Closing ==
    /\ held # <<>> /\ Head(held).type = "close" =>
        /\ life \in {"over", "broken"}
        /\ \/ life = "broken" \/ lost \/ skipped \/ entry # "registered"
           \/ view.phase = "game_over"
    /\ stage = "closed" => life = "broken" \/ lost \/ skipped \/ entry # "registered"

underWay == sends \cup Range(up)

(* Every command has an id of its own, so that none is taken for another. *)
Ids ==
    /\ \A s \in sends : s.id < Keys - keys
    /\ \A s, t \in sends : s.id = t.id => s = t
    /\ \A i \in 1 .. Len(up) :
        /\ up[i].id < Keys - keys
        /\ \A s \in sends : s.id # up[i].id
        /\ \A j \in 1 .. Len(up) : up[i].id = up[j].id => i = j
    /\ \A r \in cache :
        /\ r.id < Keys - keys
        /\ \A s \in sends : s.id # r.id
        /\ \A i \in 1 .. Len(up) : up[i].id # r.id

(* What the table must be for a key to send a command. *)
suits(type) ==
    /\ type \in Gameplay => phase = phaseOf[type] /\ ~paused /\ (type = "play_card" => mine)
    /\ type = "pause" => mine /\ phase \in Playable /\ ~paused
    /\ type = "resume" => paused

(* What a command says of the table, if it was chosen on the latest one, and
   of what had been read when it was stamped. *)
Chosen ==
    \A c \in underWay :
        /\ c.by = 1 /\ c.fit
        /\ c.saw <= view.seq
        /\ c.saw = seq => suits(c.type)
        /\ c.seq # 0 => c.saw <= c.seq /\ c.seq <= maxSeen /\ (c.seq > c.saw => restamped)

(* A card or a pass under way from the screen's snapshot keeps the keyboard
   locked, and so there is one at most. *)
Single ==
    /\ life \notin {"over", "broken"} =>
        \A s \in underWay : s.type \in Gameplay /\ s.saw = view.seq => inputDisabled
    /\ life \notin {"over", "broken"} =>
        \A s, t \in underWay :
            {s.type, t.type} \subseteq Gameplay /\ s.saw = t.saw => s.id = t.id

(* A command chosen on the latest snapshot is under way, or what refused it
   is about to end the program. *)
pending ==
    \/ \E s \in underWay : s.saw = view.seq
    \/ \E m \in Range(outCh) : m \in ending
    \/ held # <<>> /\ Head(held) \in ending
    \/ fatal # "none"

(* Why the keyboard is locked. *)
Locks ==
    /\ timeoutDisabled /\ view.seq >= movedAt => clock # "early"
    /\ (inputDisabled \/ submitted) /\ view.seq = seq /\ life = "live" =>
        locks(view) \/ clock # "early" \/ pending

(* What raises a fatal modal. *)
Fatal ==
    /\ \A m \in queued \cup Range(held) :
        m.type = "error" =>
            m.code # "malformed_message" /\ (m.code = "illegal_move" => restamped)
    /\ fatal = "illegal_move" => restamped
    /\ fatal = "close" => life \in {"over", "broken"}

Countdown == deadline => ticks > 0

ScreenInv ==
    /\ ProgramType /\ Spent /\ Stages /\ Screen /\ Caught /\ Closing
    /\ Ids /\ Chosen /\ Single /\ Locks /\ Fatal /\ Countdown

Inv == LinkInv /\ ScreenInv

-----------------------------------------------------------------------------
(* The program starts well. *)

LEMMA Initially == Init => Inv
  <1> SUFFICES ASSUME Init PROVE Inv
    OBVIOUS
  <1>1. /\ LinkInit /\ subCh = <<>> /\ outCh = <<>> /\ up = <<>> /\ shown = 0 /\ maxSeen = 0
        /\ skipped = FALSE /\ cache = {} /\ client = 1 /\ seq = 1 /\ phase = "interlude"
        /\ entry = "registered"
        /\ stage \in {"menu", "create", "connect"} /\ (stage = "connect" => ~observer)
        /\ life = (IF stage = "connect" THEN "live" ELSE "none")
        /\ human = (stage = "connect") /\ held = <<>>
        /\ view = [seq |-> 0, phase |-> "connecting", mine |-> FALSE]
        /\ fatal = "none" /\ ticks = 0 /\ flashes = 0 /\ sends = {} /\ keys = Keys /\ clock = "early"
        /\ ~deadline /\ ~timeoutDisabled /\ ~inputDisabled /\ ~submitted
    BY DEF Init, LinkInit
  <1>2. /\ human \in BOOLEAN /\ observer \in BOOLEAN /\ deadline \in BOOLEAN
        /\ timeoutDisabled \in BOOLEAN /\ inputDisabled \in BOOLEAN /\ submitted \in BOOLEAN
        /\ escConfirm \in BOOLEAN /\ modalContinue \in BOOLEAN /\ restamped \in BOOLEAN
    BY Zenon DEF Init
  <1>3. LinkInv
    BY <1>1, <1>2, LinkInitially
  <1>4. queued = {} /\ Range(up) = {} /\ Range(held) = {} /\ underWay = {} /\ Len(up) = 0
        /\ Len(held) = 0
    BY <1>1, RangeEmpty DEF queued, underWay
  <1>5. ProgramType
    <2>1. view \in [seq : Nat, phase : Phases \cup {"paused", "connecting"}, mine : BOOLEAN]
      BY <1>1
    <2>2. held \in Seq(Message \cup Close)
      BY <1>1, EmptySeq
    <2> QED BY <1>1, <1>2, <1>4, <2>1, <2>2, KeysAssumption DEF ProgramType
  <1>6. Spent
    <2>1. IsFiniteSet(sends) /\ Cardinality(sends) = 0
      BY <1>1, FS_EmptySet
    <2> QED BY <1>1, <2>1, KeysAssumption DEF Spent
  <1>7. Stages /\ Caught /\ Closing /\ Countdown
    BY <1>1 DEF Stages, Caught, Closing, Countdown
  <1>8. Screen
    BY <1>1 DEF Screen, shows
  <1>9. Ids /\ Chosen /\ Single /\ Locks /\ Fatal
    BY <1>1, <1>4 DEF Ids, Chosen, Single, Locks, Fatal
  <1> QED BY <1>3, <1>5, <1>6, <1>7, <1>8, <1>9 DEF Inv, ScreenInv

-----------------------------------------------------------------------------
(* Facts that are needed again and again. *)

LEMMA Parts ==
    ASSUME Inv
    PROVE  /\ LinkInv /\ LinkType /\ ProgramType /\ Spent /\ Stages /\ Screen /\ Caught /\ Closing
           /\ Ids /\ Chosen /\ Single /\ Locks /\ Fatal /\ Countdown
           /\ seq \in Nat \ {0} /\ movedAt \in Nat /\ view.seq \in Nat /\ shown \in Nat
           /\ maxSeen \in Nat /\ shown <= maxSeen /\ maxSeen <= seq /\ view.seq <= shown
           /\ movedAt <= seq /\ keys \in Nat /\ Keys \in Nat /\ keys <= Keys
  <1>1. /\ LinkInv /\ LinkType /\ ProgramType /\ Spent /\ Stages /\ Screen /\ Caught /\ Closing
        /\ Ids /\ Chosen /\ Single /\ Locks /\ Fatal /\ Countdown
    BY DEF Inv, ScreenInv, LinkInv
  <1>2. /\ seq \in Nat \ {0} /\ movedAt \in Nat /\ shown \in Nat /\ maxSeen \in Nat
        /\ shown <= maxSeen /\ maxSeen <= seq /\ movedAt <= seq
    BY <1>1 DEF LinkInv, LinkType, TableType, ConnType, Bounds
  <1>3. view.seq \in Nat /\ keys \in Nat /\ Keys \in Nat /\ keys <= Keys
    BY <1>1, KeysAssumption DEF ProgramType
  <1>4. view.seq <= shown
    <2>1. CASE held # <<>> /\ Head(held).type = "snapshot"
      BY <1>1, <1>2, <1>3, <2>1 DEF Screen
    <2>2. CASE held = <<>> \/ Head(held).type # "snapshot"
      BY <1>1, <1>2, <2>2 DEF Screen
    <2> QED BY <2>1, <2>2
  <1> QED BY <1>1, <1>2, <1>3, <1>4

LEMMA CommandTypes ==
    ASSUME LinkType, ProgramType
    PROVE  /\ underWay \subseteq Cmd
           /\ \A c \in Cmd : /\ c.type \in Commands /\ c.seq \in Nat /\ c.id \in Nat
                            /\ c.saw \in Nat /\ c.fit \in BOOLEAN
  <1>1. Range(up) \subseteq Cmd
    BY LinkTypes
  <1> QED BY <1>1 DEF underWay, ProgramType, Cmd

LEMMA LinkSame ==
    ASSUME Inv, UNCHANGED link
    PROVE  /\ LinkInv' /\ queued' = queued
           /\ UNCHANGED <<human, life, seq, phase, paused, mine, armed, movedAt, cache>>
           /\ UNCHANGED <<subscribed, entry, subCh, outCh, up, maxSeen, shown, client, lost, skipped>>
  <1>1. LinkInv' /\ queued' = queued
    BY LinkStutters DEF Inv
  <1>2. /\ UNCHANGED <<human, life, seq, phase, paused, mine, armed, movedAt, cache>>
        /\ UNCHANGED <<subscribed, entry, subCh, outCh, up, maxSeen, shown, client, lost, skipped>>
    BY DEF link, session, table, channels, conn, history
  <1> QED BY <1>1, <1>2

-----------------------------------------------------------------------------
(* Key presses. *)

(* A key that sends nothing and touches no lock. *)
LEMMA IdleKey ==
    ASSUME Inv, types, UNCHANGED <<input, sends, fatal>>,
           stage' \in {"run", "quit"}, escConfirm' \in BOOLEAN, modalContinue' \in BOOLEAN,
           flashes' \in {flashes, flashes + 1}
    PROVE  Inv'
  <1>i. /\ LinkType /\ ProgramType /\ Spent /\ Stages /\ Screen /\ Caught /\ Closing
        /\ Ids /\ Chosen /\ Single /\ Locks /\ Fatal /\ Countdown /\ keys \in Nat /\ Keys \in Nat
    BY Parts
  <1>n. /\ stage = "run" /\ keys > 0 /\ keys' = keys - 1 /\ keys' \in 0 .. Keys
        /\ UNCHANGED <<link, observer, held, view, ticks, clock, restamped, sends, fatal>>
        /\ UNCHANGED <<deadline, timeoutDisabled, inputDisabled, submitted>>
    BY <1>i DEF types, input, ProgramType
  <1>l. /\ LinkInv' /\ queued' = queued
        /\ UNCHANGED <<human, life, seq, phase, paused, mine, armed, movedAt, cache>>
        /\ UNCHANGED <<subscribed, entry, subCh, outCh, up, maxSeen, shown, client, lost, skipped>>
    BY <1>n, LinkSame
  <1>1. ProgramType' /\ Countdown'
    BY <1>i, <1>n DEF ProgramType, Countdown
  <1>2. Spent'
    <2>1. Cardinality(sends) \in Nat /\ flashes \in Nat
      BY <1>i, FS_CardinalityType DEF Spent, ProgramType
    <2> QED BY <1>i, <1>n, <2>1 DEF Spent
  <1>3. Stages' /\ Screen' /\ Caught' /\ Closing'
    BY <1>i, <1>n, <1>l DEF Stages, Screen, Caught, Closing, shows
  <1>4. underWay' = underWay
    BY <1>n, <1>l DEF underWay
  <1>5. Ids'
    <2>1. Keys - keys' = Keys - keys + 1
      BY <1>i, <1>n
    <2>2. /\ \A s \in sends : s.id \in Nat
          /\ \A k \in 1 .. Len(up) : up[k].id \in Nat
          /\ \A r \in cache : r.id \in Nat
      BY <1>i, LinkTypes, RangeIndex, CommandTypes DEF LinkType, ChannelType, ProgramType
    <2> QED BY <1>i, <1>n, <1>l, <2>1, <2>2 DEF Ids
  <1>6. Chosen' /\ Single'
    BY <1>i, <1>n, <1>l, <1>4 DEF Chosen, suits, Single
  <1>7. Locks'
    BY <1>i, <1>n, <1>l, <1>4 DEF Locks, pending, locks, ownTurn
  <1>8. Fatal'
    BY <1>i, <1>n, <1>l DEF Fatal
  <1> QED BY <1>l, <1>1, <1>2, <1>3, <1>5, <1>6, <1>7, <1>8 DEF Inv, ScreenInv

(* A key that sends a command. *)
LEMMA CommandKey ==
    ASSUME Inv, types, NEW type \in Commands, sendCommandCmd(type),
           stage' = stage, UNCHANGED <<modalContinue, fatal, flashes>>, escConfirm' \in BOOLEAN,
           submitted' \in BOOLEAN, inputDisabled' \in BOOLEAN, deadline' \in BOOLEAN,
           timeoutDisabled' \in BOOLEAN,
           inputDisabled => inputDisabled', deadline' => deadline,
           timeoutDisabled' => timeoutDisabled,
           type \in Gameplay =>
                /\ ~inputDisabled /\ inputDisabled'
                /\ view.phase = phaseOf[type] /\ (type = "play_card" => view.mine),
           type = "pause" => ownTurn(view),
           type = "resume" => view.phase = "paused"
    PROVE  Inv'
  <1>i. /\ LinkType /\ ProgramType /\ Spent /\ Stages /\ Screen /\ Caught /\ Closing
        /\ Ids /\ Chosen /\ Single /\ Locks /\ Fatal /\ Countdown
        /\ keys \in Nat /\ Keys \in Nat /\ keys <= Keys /\ view.seq \in Nat /\ seq \in Nat
    BY Parts
  <1>n. /\ stage = "run" /\ keys > 0 /\ keys' = keys - 1 /\ keys' \in 0 .. Keys
        /\ UNCHANGED <<link, observer, stage, held, view, ticks, clock, restamped, fatal>>
    BY <1>i DEF types
  <1>l. /\ LinkInv' /\ queued' = queued
        /\ UNCHANGED <<human, life, seq, phase, paused, mine, armed, movedAt, cache>>
        /\ UNCHANGED <<subscribed, entry, subCh, outCh, up, maxSeen, shown, client, lost, skipped>>
    BY <1>n, LinkSame
  <1> DEFINE new == newCommand(type, Keys - keys, view.seq, TRUE)
  <1>s. /\ sends' = sends \cup {new} /\ new \in Cmd
        /\ new.type = type /\ new.id = Keys - keys /\ new.saw = view.seq
        /\ new.by = 1 /\ new.fit /\ new.seq = 0
    <2>1. Keys - keys \in Nat /\ client = 1
      BY <1>i DEF Stages
    <2> QED BY <1>i, <2>1 DEF sendCommandCmd, newCommand, Cmd
  <1> HIDE DEF new
  <1>1. ProgramType' /\ Countdown'
    BY <1>i, <1>n, <1>s DEF ProgramType, Countdown
  <1>2. Spent'
    <2>1. Cardinality(sends) \in Nat /\ flashes \in Nat /\ IsFiniteSet(sends)
      BY <1>i, FS_CardinalityType DEF Spent, ProgramType
    <2>2. /\ IsFiniteSet(sends \cup {new})
          /\ Cardinality(sends \cup {new}) \in {Cardinality(sends), Cardinality(sends) + 1}
      BY <2>1, FS_AddElement
    <2> QED BY <1>i, <1>n, <1>s, <2>1, <2>2 DEF Spent
  <1>3. Stages' /\ Screen' /\ Caught' /\ Closing'
    BY <1>i, <1>n, <1>l DEF Stages, Screen, Caught, Closing, shows
  <1>4. underWay' = underWay \cup {new}
    BY <1>s, <1>l DEF underWay
  <1>5. Ids'
    <2>1. Keys - keys' = Keys - keys + 1 /\ Keys - keys \in Nat
      BY <1>i, <1>n
    <2>2. /\ \A s \in sends : s.id \in Nat
          /\ \A k \in 1 .. Len(up) : up[k].id \in Nat
          /\ \A r \in cache : r.id \in Nat
      BY <1>i, LinkTypes, RangeIndex, CommandTypes DEF LinkType, ChannelType, ProgramType
    <2>3. /\ \A s \in sends : s.id < Keys - keys
          /\ \A k \in 1 .. Len(up) : up[k].id < Keys - keys
          /\ \A r \in cache : r.id < Keys - keys
      BY <1>i DEF Ids
    <2>4. /\ \A s \in sends' : s.id < Keys - keys'
          /\ \A k \in 1 .. Len(up) : up[k].id < Keys - keys'
          /\ \A r \in cache : r.id < Keys - keys'
      BY <1>s, <2>1, <2>2, <2>3
    <2>5. /\ \A s \in sends : s.id # new.id
          /\ \A k \in 1 .. Len(up) : up[k].id # new.id
          /\ \A r \in cache : r.id # new.id
      BY <1>s, <2>1, <2>2, <2>3
    <2> QED BY <1>i, <1>l, <1>s, <2>4, <2>5 DEF Ids
  <1>6. Chosen'
    <2>1. ASSUME view.seq = seq PROVE suits(type)
      <3>1. /\ view.mine = mine
            /\ view.phase = IF paused THEN "paused" ELSE phase
        BY <1>i, <2>1 DEF Screen, shows
      <3>2. CASE type = "pause"
        BY <3>1, <3>2 DEF suits, ownTurn, Gameplay, Playable
      <3>3. CASE type = "resume"
        BY <1>i, <3>1, <3>3 DEF suits, Gameplay, ProgramType, LinkType, TableType, Phases, Playable
      <3>4. CASE type \in Gameplay
        BY <3>1, <3>4 DEF suits, Gameplay, phaseOf
      <3> QED BY <3>2, <3>3, <3>4 DEF Commands
    <2>2. ASSUME NEW c \in underWay
          PROVE  /\ c.by = 1 /\ c.fit /\ c.saw <= view.seq /\ (c.saw = seq => suits(c.type))
                 /\ c.seq # 0 =>
                      c.saw <= c.seq /\ c.seq <= maxSeen /\ (c.seq > c.saw => restamped)
      BY <1>i DEF Chosen
    <2>3. new.saw <= view.seq /\ (new.saw = seq => suits(new.type))
      BY <1>i, <1>s, <2>1
    <2> QED BY <1>n, <1>l, <1>s, <1>4, <2>2, <2>3 DEF Chosen, suits
  <1>7. Single'
    <2>1. ASSUME life \notin {"over", "broken"}, NEW s \in underWay', s.type \in Gameplay,
                 s.saw = view.seq
          PROVE  inputDisabled'
      BY <1>i, <1>s, <1>4, <2>1 DEF Single
    <2>2. ASSUME life \notin {"over", "broken"}, NEW s \in underWay', NEW t \in underWay',
                 {s.type, t.type} \subseteq Gameplay, s.saw = t.saw
          PROVE  s.id = t.id
      <3>1. ASSUME NEW o \in underWay, o.type \in Gameplay, type \in Gameplay PROVE o.saw # new.saw
        BY <1>i, <1>s, <2>2, <3>1 DEF Single
      <3> QED BY <1>i, <1>s, <1>4, <2>2, <3>1 DEF Single
    <2> QED BY <1>n, <1>l, <2>1, <2>2 DEF Single
  <1>8. Locks'
    <2>1. pending'
      BY <1>n, <1>s, <1>4 DEF pending
    <2> QED BY <1>i, <1>n, <1>l, <2>1 DEF Locks
  <1>9. Fatal'
    BY <1>i, <1>n, <1>l DEF Fatal
  <1> QED BY <1>l, <1>1, <1>2, <1>3, <1>5, <1>6, <1>7, <1>8, <1>9 DEF Inv, ScreenInv

LEMMA KeysKeep ==
    ASSUME Inv, HandleKeyPress
    PROVE  Inv'
  <1>i. ProgramType
    BY Parts
  <1>b. /\ deadline \in BOOLEAN /\ timeoutDisabled \in BOOLEAN /\ inputDisabled \in BOOLEAN
        /\ submitted \in BOOLEAN /\ escConfirm \in BOOLEAN /\ modalContinue \in BOOLEAN
        /\ flashes \in Nat
    BY <1>i DEF ProgramType
  <1>1. CASE Quit
    BY <1>b, <1>1, IdleKey DEF Quit, modals
  <1>2. CASE DismissModal
    BY <1>b, <1>2, IdleKey DEF DismissModal, types
  <1>3. CASE PressEscape
    <2>1. escConfirm' \in BOOLEAN
      BY <1>b, <1>3 DEF PressEscape
    <2> QED BY <1>b, <1>3, <2>1, IdleKey DEF PressEscape, heard, types
  <1>4. CASE PressOther
    BY <1>b, <1>4, IdleKey DEF PressOther, heard, types
  <1>5. CASE TogglePause
    <2>1. types /\ stage = "run" /\ escConfirm' = FALSE /\ UNCHANGED <<stage, modalContinue, fatal>>
      BY <1>5 DEF TogglePause, heard, types
    <2>2. CASE flashed
      BY <1>b, <2>1, <2>2, IdleKey DEF flashed
    <2>3. CASE /\ view.phase = "paused" \/ ownTurn(view)
               /\ sendCommandCmd(IF view.phase = "paused" THEN "resume" ELSE "pause")
               /\ inputDisabled' = (inputDisabled \/ view.phase # "paused")
               /\ UNCHANGED <<flashes, deadline, timeoutDisabled, submitted>>
      <3> DEFINE type == IF view.phase = "paused" THEN "resume" ELSE "pause"
      <3>1. /\ type \in Commands /\ type \notin Gameplay
            /\ type = "pause" => ownTurn(view)
            /\ type = "resume" => view.phase = "paused"
        BY <2>3 DEF Commands, Gameplay
      <3>2. inputDisabled' \in BOOLEAN /\ (inputDisabled => inputDisabled')
        BY <2>3, Zenon
      <3>3. sendCommandCmd(type)
        BY <2>3
      <3> HIDE DEF type
      <3> QED BY <1>b, <2>1, <2>3, <3>1, <3>2, <3>3, CommandKey
    <2> QED BY <1>5, <2>2, <2>3 DEF TogglePause
  <1>6. CASE Submit
    <2>1. /\ types /\ stage = "run" /\ UNCHANGED <<stage, escConfirm, modalContinue, fatal>>
          /\ view.phase \in Playable /\ ~inputDisabled
      BY <1>6 DEF Submit, heard, types, modals, locked
    <2>2. CASE flashed
      BY <1>b, <2>1, <2>2, IdleKey DEF flashed
    <2>3. CASE /\ view.phase = "playing" => view.mine
               /\ sendCommandCmd(IF view.phase = "passing" THEN "pass_cards" ELSE "play_card")
               /\ submitted' = TRUE
               /\ inputDisabled' = TRUE
               /\ deadline' = FALSE
               /\ timeoutDisabled' = FALSE
               /\ UNCHANGED flashes
      <3> DEFINE type == IF view.phase = "passing" THEN "pass_cards" ELSE "play_card"
      <3>1. /\ type \in Gameplay /\ type \in Commands
            /\ view.phase = phaseOf[type] /\ (type = "play_card" => view.mine)
        BY <2>1, <2>3 DEF Commands, Gameplay, phaseOf, Playable
      <3>4. type # "pause" /\ type # "resume"
        BY <3>1 DEF Gameplay
      <3>2. /\ submitted' \in BOOLEAN /\ inputDisabled' \in BOOLEAN /\ deadline' \in BOOLEAN
            /\ timeoutDisabled' \in BOOLEAN
        BY <2>3, Zenon
      <3>3. sendCommandCmd(type)
        BY <2>3
      <3> HIDE DEF type
      <3> QED BY <1>b, <2>1, <2>3, <3>1, <3>2, <3>3, <3>4, CommandKey
    <2> QED BY <1>6, <2>2, <2>3 DEF Submit
  <1> QED BY <1>1, <1>2, <1>3, <1>4, <1>5, <1>6 DEF HandleKeyPress

-----------------------------------------------------------------------------
(* startWSReader. *)

LEMMA HeldOne ==
    ASSUME NEW S, NEW m \in S, held' = <<m>>
    PROVE  held' \in Seq(S) /\ Len(held') = 1 /\ held' # <<>> /\ Head(held') = m /\ Range(held') = {m}
  BY RangeOne

LEMMA ReadMessageKeeps ==
    ASSUME Inv, ReadMessage
    PROVE  Inv'
  <1>i. /\ LinkInv /\ LinkType /\ ProgramType /\ Spent /\ Stages /\ Screen /\ Caught /\ Closing
        /\ Ids /\ Chosen /\ Single /\ Locks /\ Fatal /\ Countdown
        /\ seq \in Nat /\ shown \in Nat /\ maxSeen \in Nat /\ shown <= maxSeen
        /\ view.seq \in Nat /\ view.seq <= shown
    BY Parts
  <1>n. /\ stage = "run" /\ held = <<>>
        /\ UNCHANGED <<session, up, client, history>>
        /\ UNCHANGED <<observer, stage, view, input, modals, timers, sends, keys, clock, restamped>>
    BY DEF ReadMessage
  <1>p. /\ UNCHANGED <<deadline, timeoutDisabled, inputDisabled, submitted>>
        /\ UNCHANGED <<escConfirm, modalContinue, fatal, ticks, flashes>>
        /\ UNCHANGED <<human, life, seq, phase, paused, mine, movedAt, cache, lost, skipped>>
        /\ client = 1
    BY <1>i, <1>n DEF input, modals, timers, session, table, history, Stages
  <1>m. PICK m \in readable : ReadSnapshot(m) /\ held' = <<m>>
    BY DEF ReadMessage
  <1>l. LinkInv'
    BY <1>i, <1>n, <1>m, ReadKeeps
  <1>f. /\ m \in queued /\ m \in Message /\ m.seq \in Nat /\ subscribed
        /\ UNCHANGED <<subscribed, entry>> /\ maxSeen' \in Nat /\ maxSeen <= maxSeen'
        /\ queued' \subseteq queued /\ Range(outCh) \subseteq Range(outCh') \cup {m}
        /\ shown' \in Nat /\ shown <= shown'
        /\ m.type = "snapshot" => maxSeen < m.seq /\ maxSeen' = m.seq /\ shown' = m.seq /\ shows(m)
        /\ m.type # "snapshot" =>
             /\ shown' = shown /\ m \in Err
             /\ m.code \in RefusalCodes \cup {"stale_seq", "internal_error"} => maxSeen' = maxSeen
             /\ m.code = "game_over" => life \in {"over", "broken"}
    BY <1>i, <1>p, <1>m, ReadFacts
  <1>h. /\ held' \in Seq(Message \cup Close) /\ Len(held') = 1 /\ held' # <<>> /\ Head(held') = m
        /\ Range(held') = {m}
    BY <1>m, <1>f, HeldOne
  <1>w. underWay' = underWay
    BY <1>n DEF underWay
  <1>1. ProgramType' /\ Spent' /\ Countdown'
    BY <1>i, <1>n, <1>p, <1>h DEF ProgramType, Spent, Countdown
  <1>2. Stages'
    BY <1>i, <1>n, <1>p, <1>f DEF Stages
  <1>3. Screen'
    <2>1. \A x : shows(x)' = shows(x)
      BY <1>p DEF shows
    <2> QED BY <1>i, <1>n, <1>f, <1>h, <2>1 DEF Screen
  <1>4. Caught'
    <2>1. CASE skipped \/ shown # maxSeen
      BY <1>i, <1>n, <1>p, <2>1 DEF Caught
    <2>2. CASE ~(skipped \/ shown # maxSeen)
      <3>1. CASE m.type = "snapshot"
        BY <1>f, <1>p, <2>2, <3>1 DEF Caught
      <3>2. CASE m.type # "snapshot"
        <4>1. CASE m.code = "pause_not_allowed"
          <5>1. m \in ending
            BY <1>f, <3>2, <4>1 DEF Err, ending
          <5> QED BY <1>h, <5>1 DEF Caught
        <4>2. CASE m.code = "game_over"
          BY <1>f, <1>p, <3>2, <4>2 DEF Caught
        <4>3. CASE m.code \in RefusalCodes \cup {"stale_seq", "internal_error"}
          BY <1>f, <1>p, <2>2, <3>2, <4>3 DEF Caught
        <4>4. m.code \in Codes
          BY <1>f, <3>2 DEF Err
        <4> QED BY <4>1, <4>2, <4>3, <4>4 DEF Codes, RefusalCodes
      <3> QED BY <3>1, <3>2
    <2> QED BY <2>1, <2>2
  <1>5. Closing'
    <2>1. m.type # "close"
      BY <1>f DEF Message, Snap, Err
    <2> QED BY <1>n, <1>h, <2>1 DEF Closing
  <1>6. Ids' /\ Single'
    BY <1>i, <1>n, <1>p, <1>w DEF Ids, Single
  <1>c. Chosen'
    <2>1. \A c \in underWay : c.seq \in Nat
      BY <1>i, CommandTypes
    <2> QED BY <1>i, <1>n, <1>p, <1>f, <1>w, <2>1 DEF Chosen, suits
  <1>7. Locks'
    <2>1. pending => pending'
      BY <1>n, <1>p, <1>f, <1>h, <1>w DEF pending
    <2> QED BY <1>i, <1>n, <1>p, <2>1 DEF Locks, locks, ownTurn
  <1>8. Fatal'
    BY <1>i, <1>n, <1>p, <1>f, <1>h DEF Fatal
  <1> QED BY <1>l, <1>1, <1>2, <1>3, <1>4, <1>5, <1>6, <1>c, <1>7, <1>8 DEF Inv, ScreenInv

LEMMA ReaderDiscardKeeps ==
    ASSUME Inv, Discard
    PROVE  Inv'
  <1>i. /\ LinkInv /\ LinkType /\ ProgramType /\ Spent /\ Stages /\ Screen /\ Caught /\ Closing
        /\ Ids /\ Chosen /\ Single /\ Locks /\ Fatal /\ Countdown
    BY Parts
  <1>n. /\ stage = "run" /\ held = <<>> /\ held' = <<>>
        /\ UNCHANGED <<observer, stage, view, sends, keys, clock, restamped>>
        /\ UNCHANGED <<deadline, timeoutDisabled, inputDisabled, submitted>>
        /\ UNCHANGED <<escConfirm, modalContinue, fatal, ticks, flashes>>
    BY DEF Discard, program, input, modals, timers
  <1>d. /\ LinkInv' /\ UNCHANGED <<session, up, conn, client, lost, subscribed, entry>>
        /\ queued' \subseteq queued /\ (skipped => skipped')
        /\ Range(outCh) \subseteq Range(outCh') \cup Snap
        /\ skipped' # skipped => shown # maxSeen
    BY <1>i, DiscardKeeps DEF Discard
  <1>p. UNCHANGED <<human, life, seq, phase, paused, mine, movedAt, cache, maxSeen, shown>>
    BY <1>d DEF session, table, conn
  <1>b. skipped \in BOOLEAN /\ skipped' \in BOOLEAN
    BY <1>i, <1>d DEF LinkInv, LinkType, ConnType
  <1>w. underWay' = underWay
    BY <1>n, <1>d DEF underWay
  <1>1. ProgramType' /\ Spent' /\ Countdown' /\ Stages'
    BY <1>i, <1>n, <1>d, <1>p DEF ProgramType, Spent, Countdown, Stages
  <1>2. Screen'
    BY <1>i, <1>n, <1>p DEF Screen, shows
  <1>3. Caught'
    BY <1>i, <1>n, <1>d, <1>p, <1>b DEF Caught
  <1>4. Closing'
    BY <1>i, <1>n, <1>d, <1>p DEF Closing
  <1>5. Ids' /\ Chosen' /\ Single'
    BY <1>i, <1>n, <1>d, <1>p, <1>w DEF Ids, Chosen, suits, Single
  <1>6. Locks'
    <2>1. \A m \in ending : m \notin Snap
      BY DEF ending, Snap
    <2>2. pending => pending'
      BY <1>n, <1>d, <1>w, <2>1 DEF pending
    <2> QED BY <1>i, <1>n, <1>p, <2>2 DEF Locks, locks, ownTurn
  <1>7. Fatal'
    BY <1>i, <1>n, <1>d, <1>p DEF Fatal
  <1> QED BY <1>d, <1>1, <1>2, <1>3, <1>4, <1>5, <1>6, <1>7 DEF Inv, ScreenInv

LEMMA ReadCloseKeeps ==
    ASSUME Inv, ReadClose
    PROVE  Inv'
  <1>i. /\ LinkInv /\ LinkType /\ ProgramType /\ Spent /\ Stages /\ Screen /\ Caught /\ Closing
        /\ Ids /\ Chosen /\ Single /\ Locks /\ Fatal /\ Countdown /\ seq \in Nat \ {0}
    BY Parts
  <1>n. /\ stage = "run" /\ held = <<>>
        /\ UNCHANGED <<session, up, conn, client, history>>
        /\ UNCHANGED <<observer, stage, view, input, modals, timers, sends, keys, clock, restamped>>
    BY DEF ReadClose
  <1>c. PICK code \in closeCodes : readsClose(code) /\ held' = <<[type |-> "close", code |-> code]>>
    BY DEF ReadClose
  <1>p. /\ UNCHANGED <<deadline, timeoutDisabled, inputDisabled, submitted>>
        /\ UNCHANGED <<escConfirm, modalContinue, fatal, ticks, flashes>>
        /\ UNCHANGED <<human, life, seq, phase, paused, mine, movedAt, cache, lost, skipped>>
        /\ UNCHANGED <<maxSeen, shown, entry>>
    BY <1>n, <1>c DEF readsClose, input, modals, timers, session, table, history, conn
  <1>l. LinkInv' /\ queued' \subseteq queued
    BY <1>i, <1>n, <1>c, CloseKeeps
  <1>o. /\ life \in {"over", "broken"} /\ subscribed
        /\ life # "broken" => subCh = <<>> /\ Range(subCh) = {}
    BY <1>c, RangeEmpty DEF readsClose, closed
  <1> DEFINE m == [type |-> "close", code |-> code]
  <1>m. m \in Close /\ m.type = "close" /\ m \notin ending /\ held' = <<m>>
    BY <1>c DEF Close, closeCodes, ending
  <1> HIDE DEF m
  <1>h. /\ held' \in Seq(Message \cup Close) /\ Len(held') = 1 /\ held' # <<>> /\ Head(held') = m
        /\ Range(held') = {m}
    BY <1>m, HeldOne
  <1>w. underWay' = underWay
    BY <1>n DEF underWay
  <1>1. ProgramType' /\ Spent' /\ Countdown'
    BY <1>i, <1>n, <1>p, <1>h DEF ProgramType, Spent, Countdown
  <1>2. Stages'
    BY <1>i, <1>n, <1>p, <1>o DEF Stages
  <1>3. Screen'
    BY <1>i, <1>n, <1>p, <1>h, <1>m DEF Screen, shows
  <1>4. Caught'
    BY <1>o, <1>p DEF Caught
  <1>5. Closing'
    <2>1. ASSUME life # "broken", ~lost, ~skipped, entry = "registered"
          PROVE  view.phase = "game_over"
      <3>1. life = "over" /\ phase = "game_over" /\ ~paused
        BY <1>i, <1>o, <2>1 DEF LinkInv, Course
      <3>2. shown = seq
        BY <1>i, <1>o, <2>1 DEF LinkInv, Fresh
      <3>3. view.seq = seq
        BY <1>i, <1>n, <3>2 DEF Screen
      <3> QED BY <1>i, <3>1, <3>3 DEF Screen, shows
    <2> QED BY <1>n, <1>p, <1>o, <2>1 DEF Closing
  <1>6. Ids' /\ Chosen' /\ Single'
    BY <1>i, <1>n, <1>p, <1>w DEF Ids, Chosen, suits, Single
  <1>7. Locks'
    BY <1>i, <1>n, <1>p, <1>o DEF Locks
  <1>8. Fatal'
    BY <1>i, <1>n, <1>p, <1>l, <1>h, <1>m DEF Fatal
  <1> QED BY <1>l, <1>1, <1>2, <1>3, <1>4, <1>5, <1>6, <1>7, <1>8 DEF Inv, ScreenInv

-----------------------------------------------------------------------------
(* Update. *)

LEMMA HeldFacts ==
    ASSUME ProgramType, held # <<>>
    PROVE  Head(held) \in Message \cup Close /\ Head(held) \in Range(held)
  BY RangeTail DEF ProgramType

LEMMA HandleSnapshotKeeps ==
    ASSUME Inv, HandleSnapshot
    PROVE  Inv'
  <1>i. /\ LinkInv /\ LinkType /\ ProgramType /\ Spent /\ Stages /\ Screen /\ Caught /\ Closing
        /\ Ids /\ Chosen /\ Single /\ Locks /\ Fatal /\ Countdown
        /\ seq \in Nat /\ shown \in Nat /\ view.seq \in Nat
    BY Parts
  <1>m. PICK m \in incoming :
            /\ receives("snapshot", m)
            /\ view' = [seq |-> m.seq, phase |-> m.phase, mine |-> m.mine]
            /\ submitted' = FALSE
            /\ timeoutDisabled' = FALSE
            /\ deadline' = ownTurn(view')
            /\ inputDisabled' = locks(view')
            /\ ticks' = IF deadline' THEN ticks + 1 ELSE ticks
            /\ UNCHANGED <<stage, modals, flashes>>
    BY DEF HandleSnapshot
  <1>n. /\ stage = "run" /\ held # <<>> /\ m = Head(held) /\ m.type = "snapshot" /\ held' = <<>>
        /\ UNCHANGED <<link, observer, stage, keys, clock, restamped, sends, flashes>>
        /\ UNCHANGED <<escConfirm, modalContinue, fatal>>
    BY <1>m DEF receives, modals
  <1>l. /\ LinkInv' /\ queued' = queued
        /\ UNCHANGED <<human, life, seq, phase, paused, mine, armed, movedAt, cache>>
        /\ UNCHANGED <<subscribed, entry, subCh, outCh, up, maxSeen, shown, client, lost, skipped>>
    BY <1>n, LinkSame
  <1>h. Range(held') = {} /\ Len(held') = 0 /\ held' \in Seq(Message \cup Close)
    BY <1>n, RangeEmpty
  <1>s. m \in Snap
    BY <1>i, <1>n, HeldFacts DEF Message, Err, Close
  <1>v. /\ view'.seq = m.seq /\ view'.phase = m.phase /\ view'.mine = m.mine /\ m.seq \in Nat
        /\ view' \in [seq : Nat, phase : Phases \cup {"paused", "connecting"}, mine : BOOLEAN]
        /\ view'.seq = shown /\ view.seq < view'.seq /\ shows(m)
    BY <1>i, <1>m, <1>n, <1>s DEF Snap, Screen
  <1>b. /\ submitted' \in BOOLEAN /\ timeoutDisabled' \in BOOLEAN /\ deadline' \in BOOLEAN
        /\ inputDisabled' \in BOOLEAN
    BY <1>m, Zenon DEF ownTurn, locks
  <1>t. ticks \in Nat /\ ticks' \in Nat /\ (deadline' => ticks' > 0)
    BY <1>i, <1>m DEF ProgramType
  <1>w. underWay' = underWay
    BY <1>n, <1>l DEF underWay
  <1>1. ProgramType' /\ Spent' /\ Countdown'
    BY <1>i, <1>n, <1>h, <1>v, <1>b, <1>t DEF ProgramType, Spent, Countdown
  <1>2. Stages'
    BY <1>i, <1>n, <1>l DEF Stages
  <1>3. Screen'
    <2>1. shows(view)'
      BY <1>v, <1>l DEF shows
    <2> QED BY <1>i, <1>n, <1>l, <1>v, <2>1 DEF Screen
  <1>4. Caught'
    <2>1. m \notin ending
      BY <1>n DEF ending
    <2> QED BY <1>i, <1>n, <1>l, <2>1 DEF Caught
  <1>5. Closing'
    BY <1>n DEF Closing
  <1>6. Ids'
    BY <1>i, <1>n, <1>l DEF Ids
  <1>7. Chosen' /\ Single'
    <2>1. \A s \in underWay : s.saw \in Nat /\ s.saw <= view.seq
      BY <1>i, CommandTypes DEF Chosen
    <2>2. \A s \in underWay : s.saw < view'.seq
      BY <1>i, <1>v, <2>1
    <2>3. \A s \in underWay : s.saw <= view'.seq /\ s.saw # view'.seq
      BY <1>v, <2>1, <2>2
    <2> QED BY <1>i, <1>n, <1>l, <1>w, <2>3 DEF Chosen, suits, Single
  <1>8. Locks'
    BY <1>m, <1>n, <1>l DEF Locks
  <1>9. Fatal'
    BY <1>i, <1>n, <1>l, <1>h DEF Fatal
  <1> QED BY <1>l, <1>1, <1>2, <1>3, <1>4, <1>5, <1>6, <1>7, <1>8, <1>9 DEF Inv, ScreenInv

LEMMA HandleWSErrorKeeps ==
    ASSUME Inv, HandleWSError
    PROVE  Inv'
  <1>i. /\ LinkInv /\ LinkType /\ ProgramType /\ Spent /\ Stages /\ Screen /\ Caught /\ Closing
        /\ Ids /\ Chosen /\ Single /\ Locks /\ Fatal /\ Countdown
    BY Parts
  <1>m. PICK m \in incoming :
            /\ receives("error", m)
            /\ submitted' = (submitted /\ ~(waits(m.code) \/ m.code = "stale_seq"))
            /\ modalContinue' = (modalContinue \/ waits(m.code))
            /\ fatal' = IF waits(m.code) \/ m.code \in {"stale_seq", "game_over"}
                        THEN fatal ELSE m.code
            /\ UNCHANGED <<stage, view, deadline, timeoutDisabled, inputDisabled, escConfirm,
                           timers>>
    BY DEF HandleWSError
  <1>n. /\ stage = "run" /\ held # <<>> /\ m = Head(held) /\ m.type = "error" /\ held' = <<>>
        /\ UNCHANGED <<link, observer, stage, view, keys, clock, restamped, sends, flashes, ticks>>
        /\ UNCHANGED <<deadline, timeoutDisabled, inputDisabled, escConfirm>>
    BY <1>m DEF receives, timers
  <1>l. /\ LinkInv' /\ queued' = queued
        /\ UNCHANGED <<human, life, seq, phase, paused, mine, armed, movedAt, cache>>
        /\ UNCHANGED <<subscribed, entry, subCh, outCh, up, maxSeen, shown, client, lost, skipped>>
    BY <1>n, LinkSame
  <1>h. Range(held') = {} /\ Len(held') = 0 /\ held' \in Seq(Message \cup Close)
    BY <1>n, RangeEmpty
  <1>s. m \in Err /\ m.code \in Codes /\ m \in Range(held)
    BY <1>i, <1>n, HeldFacts DEF Message, Snap, Err, Close
  <1>b. submitted' \in BOOLEAN /\ modalContinue' \in BOOLEAN /\ (submitted' => submitted)
    BY <1>m, Zenon
  <1>f. \/ fatal' = fatal /\ m.code \notin {"pause_not_allowed", "internal_error"}
        \/ fatal' = m.code /\ m.code \in {"pause_not_allowed", "illegal_move", "internal_error"}
    <2>1. m.code # "malformed_message"
      BY <1>i, <1>n, <1>s DEF Fatal
    <2> QED BY <1>m, <1>s, <2>1 DEF waits, Codes
  <1>w. underWay' = underWay
    BY <1>n, <1>l DEF underWay
  <1>e. m \in ending <=> m.code \in {"pause_not_allowed", "internal_error"}
    BY <1>s DEF ending, Err
  <1>1. ProgramType' /\ Spent' /\ Countdown'
    BY <1>i, <1>n, <1>h, <1>b, <1>f DEF ProgramType, Spent, Countdown
  <1>2. Stages'
    BY <1>i, <1>n, <1>l DEF Stages
  <1>3. Screen'
    BY <1>i, <1>n, <1>l DEF Screen, shows
  <1>4. Caught'
    BY <1>i, <1>n, <1>l, <1>f, <1>e DEF Caught
  <1>5. Closing'
    BY <1>i, <1>n, <1>l DEF Closing
  <1>6. Ids' /\ Chosen' /\ Single'
    BY <1>i, <1>n, <1>l, <1>w DEF Ids, Chosen, suits, Single
  <1>7. Locks'
    <2>1. pending => pending'
      BY <1>n, <1>l, <1>f, <1>e, <1>w DEF pending
    <2> QED BY <1>i, <1>n, <1>l, <1>b, <2>1 DEF Locks, locks, ownTurn
  <1>8. Fatal'
    <2>1. m.code = "illegal_move" => restamped
      BY <1>i, <1>n, <1>s DEF Fatal
    <2> QED BY <1>i, <1>n, <1>l, <1>h, <1>f, <2>1 DEF Fatal
  <1> QED BY <1>l, <1>1, <1>2, <1>3, <1>4, <1>5, <1>6, <1>7, <1>8 DEF Inv, ScreenInv

LEMMA HandleWSCloseKeeps ==
    ASSUME Inv, HandleWSClose
    PROVE  Inv'
  <1>i. /\ LinkInv /\ LinkType /\ ProgramType /\ Spent /\ Stages /\ Screen /\ Caught /\ Closing
        /\ Ids /\ Chosen /\ Single /\ Locks /\ Fatal /\ Countdown
    BY Parts
  <1>m. PICK m \in incoming :
            /\ receives("close", m)
            /\ fatal' = IF m.code = "internal" THEN "close" ELSE fatal
            /\ stage' = IF m.code = "internal" \/ view.phase = "game_over" THEN "run" ELSE "closed"
            /\ UNCHANGED <<view, input, escConfirm, modalContinue, timers>>
    BY DEF HandleWSClose
  <1>n. /\ stage = "run" /\ held # <<>> /\ m = Head(held) /\ m.type = "close" /\ held' = <<>>
        /\ UNCHANGED <<link, observer, view, keys, clock, restamped, sends, flashes, ticks>>
        /\ UNCHANGED <<deadline, timeoutDisabled, inputDisabled, submitted, escConfirm, modalContinue>>
        /\ stage' \in {"run", "closed"} /\ fatal' \in {fatal, "close"}
    BY <1>m DEF receives, timers, input
  <1>l. /\ LinkInv' /\ queued' = queued
        /\ UNCHANGED <<human, life, seq, phase, paused, mine, armed, movedAt, cache>>
        /\ UNCHANGED <<subscribed, entry, subCh, outCh, up, maxSeen, shown, client, lost, skipped>>
    BY <1>n, LinkSame
  <1>h. Range(held') = {} /\ Len(held') = 0 /\ held' \in Seq(Message \cup Close)
    BY <1>n, RangeEmpty
  <1>o. /\ life \in {"over", "broken"}
        /\ \/ life = "broken" \/ lost \/ skipped \/ entry # "registered"
           \/ view.phase = "game_over"
    BY <1>i, <1>n DEF Closing
  <1>w. underWay' = underWay
    BY <1>n, <1>l DEF underWay
  <1>1. ProgramType' /\ Spent' /\ Countdown'
    BY <1>i, <1>n, <1>h DEF ProgramType, Spent, Countdown
  <1>2. Stages' /\ Caught'
    BY <1>i, <1>n, <1>l, <1>o DEF Stages, Caught
  <1>3. Screen'
    BY <1>i, <1>n, <1>l DEF Screen, shows
  <1>4. Closing'
    BY <1>m, <1>n, <1>l, <1>o DEF Closing
  <1>5. Ids' /\ Chosen' /\ Single'
    BY <1>i, <1>n, <1>l, <1>w DEF Ids, Chosen, suits, Single
  <1>6. Locks'
    BY <1>i, <1>n, <1>l, <1>o DEF Locks
  <1>7. Fatal'
    BY <1>i, <1>n, <1>l, <1>h, <1>o DEF Fatal
  <1> QED BY <1>l, <1>1, <1>2, <1>3, <1>4, <1>5, <1>6, <1>7 DEF Inv, ScreenInv

LEMMA TimersKeep ==
    ASSUME Inv, HandleTurnTick \/ FlashTimeout \/ TimePasses
    PROVE  Inv'
  <1>i. /\ LinkInv /\ LinkType /\ ProgramType /\ Spent /\ Stages /\ Screen /\ Caught /\ Closing
        /\ Ids /\ Chosen /\ Single /\ Locks /\ Fatal /\ Countdown
        /\ seq \in Nat /\ movedAt \in Nat /\ movedAt <= seq /\ view.seq \in Nat
        /\ keys \in Nat /\ Keys \in Nat
    BY Parts
  <1>n. /\ UNCHANGED <<link, observer, stage, held, view, submitted, sends, keys, restamped>>
        /\ UNCHANGED <<modalContinue, fatal>>
    BY DEF HandleTurnTick, FlashTimeout, TimePasses, modals, input
  <1>l. /\ LinkInv' /\ queued' = queued
        /\ UNCHANGED <<human, life, seq, phase, paused, mine, armed, movedAt, cache>>
        /\ UNCHANGED <<subscribed, entry, subCh, outCh, up, maxSeen, shown, client, lost, skipped>>
    BY <1>n, LinkSame
  <1>w. underWay' = underWay
    BY <1>n, <1>l DEF underWay
  <1>1. Stages' /\ Screen' /\ Caught' /\ Closing'
    BY <1>i, <1>n, <1>l DEF Stages, Screen, Caught, Closing, shows
  <1>2. Ids' /\ Chosen' /\ Fatal'
    BY <1>i, <1>n, <1>l, <1>w DEF Ids, Chosen, suits, Fatal
  <1>3. pending' = pending /\ locks(view)' = locks(view)
    BY <1>n, <1>l, <1>w DEF pending, locks, ownTurn
  <1>4. CASE HandleTurnTick
    <2>1. PICK left1 \in remaining :
            /\ ticks' = IF tickStops(left1) THEN ticks - 1 ELSE ticks
            /\ deadline' = (deadline /\ left1 # "due")
            /\ timeoutDisabled' = (timeoutDisabled \/ (deadline /\ left1 # "early"))
            /\ inputDisabled' =
                 \/ inputDisabled
                 \/ deadline /\ (left1 = "due" \/ (left1 = "cutoff" /\ ~timeoutDisabled))
      BY <1>4 DEF HandleTurnTick
    <2>2. ticks > 0 /\ UNCHANGED <<escConfirm, flashes, clock>>
      BY <1>4 DEF HandleTurnTick, modals
    <2>3. deadline' \in BOOLEAN /\ timeoutDisabled' \in BOOLEAN /\ inputDisabled' \in BOOLEAN
      BY <2>1, Zenon
    <2>4. /\ deadline' => deadline /\ left1 # "due"
          /\ timeoutDisabled' => timeoutDisabled \/ left1 # "early"
          /\ inputDisabled' => inputDisabled \/ left1 # "early"
          /\ inputDisabled => inputDisabled'
      BY <2>1
    <2>5. view.seq >= movedAt => left1 = clock
      BY <2>1 DEF remaining
    <2>6. ticks \in Nat /\ ticks' \in Nat /\ (deadline' => ticks' > 0)
      <3>1. ticks \in Nat
        BY <1>i DEF ProgramType
      <3>2. deadline' => ~tickStops(left1)
        BY <2>4 DEF tickStops
      <3>3. ticks' = ticks - 1 \/ ticks' = ticks
        BY <2>1
      <3>4. deadline' => ticks' = ticks
        BY <2>1, <3>2
      <3> QED BY <2>2, <3>1, <3>3, <3>4
    <2>7. ProgramType' /\ Spent' /\ Countdown'
      BY <1>i, <1>n, <2>2, <2>3, <2>6 DEF ProgramType, Spent, Countdown
    <2>8. Single'
      BY <1>i, <1>n, <1>l, <1>w, <2>4 DEF Single
    <2>9. Locks'
      BY <1>i, <1>n, <1>l, <1>3, <2>2, <2>4, <2>5 DEF Locks
    <2> QED BY <1>l, <1>1, <1>2, <2>7, <2>8, <2>9 DEF Inv, ScreenInv
  <1>5. CASE FlashTimeout
    <2>1. /\ flashes > 0 /\ flashes' = flashes - 1 /\ escConfirm' \in BOOLEAN
          /\ UNCHANGED <<deadline, timeoutDisabled, inputDisabled, ticks, clock>>
      BY <1>5 DEF FlashTimeout, input
    <2>2. Cardinality(sends) \in Nat /\ flashes \in Nat /\ flashes' \in Nat
      BY <1>i, <2>1, FS_CardinalityType DEF Spent, ProgramType
    <2>3. ProgramType' /\ Spent' /\ Countdown'
      BY <1>i, <1>n, <2>1, <2>2 DEF ProgramType, Spent, Countdown
    <2>4. Single' /\ Locks'
      BY <1>i, <1>n, <1>l, <1>w, <1>3, <2>1 DEF Single, Locks
    <2> QED BY <1>l, <1>1, <1>2, <2>3, <2>4 DEF Inv, ScreenInv
  <1>6. CASE TimePasses
    <2>1. /\ clock' \in {"cutoff", "due"}
          /\ UNCHANGED <<deadline, timeoutDisabled, inputDisabled, escConfirm, ticks, flashes>>
      BY <1>6 DEF TimePasses, input, modals, timers
    <2>2. ProgramType' /\ Spent' /\ Countdown'
      BY <1>i, <1>n, <2>1 DEF ProgramType, Spent, Countdown
    <2>3. Single' /\ Locks'
      BY <1>i, <1>n, <1>l, <1>w, <1>3, <2>1 DEF Single, Locks
    <2> QED BY <1>l, <1>1, <1>2, <2>2, <2>3 DEF Inv, ScreenInv
  <1> QED BY <1>4, <1>5, <1>6

-----------------------------------------------------------------------------
(* The goroutine of a command. *)

LEMMA WriteFailsKeeps ==
    ASSUME Inv, WriteFails
    PROVE  Inv'
  <1>i. /\ LinkInv /\ LinkType /\ ProgramType /\ Spent /\ Stages /\ Screen /\ Caught /\ Closing
        /\ Ids /\ Chosen /\ Single /\ Locks /\ Fatal /\ Countdown
        /\ keys \in Nat /\ Keys \in Nat
    BY Parts
  <1>n. /\ stage = "run" /\ life \in {"over", "broken"}
        /\ inputDisabled' = FALSE /\ submitted' = FALSE /\ flashes' = flashes + 1
        /\ UNCHANGED <<link, observer, stage, held, view, deadline, timeoutDisabled, ticks, keys,
                       clock, restamped>>
        /\ UNCHANGED <<escConfirm, modalContinue, fatal>>
    BY DEF WriteFails, modals
  <1>s. PICK s \in sends : sends' = sends \ {s}
    BY DEF WriteFails
  <1>l. /\ LinkInv' /\ queued' = queued
        /\ UNCHANGED <<human, life, seq, phase, paused, mine, armed, movedAt, cache>>
        /\ UNCHANGED <<subscribed, entry, subCh, outCh, up, maxSeen, shown, client, lost, skipped>>
    BY <1>n, LinkSame
  <1>b. inputDisabled' \in BOOLEAN /\ submitted' \in BOOLEAN
    BY <1>n, Zenon
  <1>w. underWay' \subseteq underWay
    BY <1>s, <1>l DEF underWay
  <1>1. ProgramType' /\ Countdown'
    BY <1>i, <1>n, <1>s, <1>b DEF ProgramType, Countdown
  <1>2. Spent'
    <2>1. IsFiniteSet(sends) /\ Cardinality(sends) \in Nat /\ flashes \in Nat
      BY <1>i, FS_CardinalityType DEF Spent, ProgramType
    <2>2. IsFiniteSet(sends') /\ Cardinality(sends') = Cardinality(sends) - 1
      BY <1>s, <2>1, FS_RemoveElement
    <2> QED BY <1>i, <1>n, <2>1, <2>2 DEF Spent
  <1>3. Stages' /\ Screen' /\ Caught' /\ Closing'
    BY <1>i, <1>n, <1>l DEF Stages, Screen, Caught, Closing, shows
  <1>4. Ids'
    BY <1>i, <1>n, <1>s, <1>l DEF Ids
  <1>5. Chosen'
    BY <1>i, <1>n, <1>l, <1>w DEF Chosen, suits
  <1>6. Single' /\ Locks' /\ Fatal'
    BY <1>i, <1>n, <1>l DEF Single, Locks, Fatal
  <1> QED BY <1>l, <1>1, <1>2, <1>3, <1>4, <1>5, <1>6 DEF Inv, ScreenInv

LEMMA StampCommandKeeps ==
    ASSUME Inv, StampCommand
    PROVE  Inv'
  <1>i. /\ LinkInv /\ LinkType /\ ProgramType /\ Spent /\ Stages /\ Screen /\ Caught /\ Closing
        /\ Ids /\ Chosen /\ Single /\ Locks /\ Fatal /\ Countdown
        /\ keys \in Nat /\ Keys \in Nat /\ maxSeen \in Nat /\ shown \in Nat /\ view.seq \in Nat
        /\ view.seq <= shown /\ shown <= maxSeen
    BY Parts
  <1>c. PICK c \in sends :
            /\ c.seq = 0
            /\ UNCHANGED link
            /\ sends' = (sends \ {c}) \cup {stamp(c)}
            /\ restamped' = (restamped \/ maxSeen > c.saw)
    BY DEF StampCommand
  <1>n. /\ UNCHANGED <<observer, stage, held, view, deadline, timeoutDisabled, inputDisabled>>
        /\ UNCHANGED <<submitted, escConfirm, modalContinue, fatal, ticks, flashes, keys, clock>>
    BY DEF StampCommand, input, modals, timers
  <1>l. /\ LinkInv' /\ queued' = queued
        /\ UNCHANGED <<human, life, seq, phase, paused, mine, armed, movedAt, cache>>
        /\ UNCHANGED <<subscribed, entry, subCh, outCh, up, maxSeen, shown, client, lost, skipped>>
    BY <1>c, LinkSame
  <1>t. /\ c \in Cmd /\ c \in underWay /\ c.saw \in Nat /\ c.saw <= view.seq
        /\ c.by = 1 /\ c.fit /\ (c.saw = seq => suits(c.type))
    BY <1>i, CommandTypes DEF ProgramType, underWay, Chosen
  <1> DEFINE d == [c EXCEPT !.seq = maxSeen]
  <1>d. /\ d \in Cmd /\ d.seq = maxSeen /\ d.type = c.type /\ d.id = c.id /\ d.saw = c.saw
        /\ d.by = c.by /\ d.fit = c.fit
    BY <1>i, <1>t DEF Cmd
  <1>s. sends' = (sends \ {c}) \cup {d}
    BY <1>c, <1>l DEF stamp
  <1> HIDE DEF d
  <1>w. /\ \A s \in underWay' : s \in underWay \/ s = d
        /\ \A s \in underWay : s \in underWay' \/ s = c
        /\ d \in underWay'
    BY <1>s, <1>l DEF underWay
  <1>a. \A s \in underWay' : \E o \in underWay : s.type = o.type /\ s.id = o.id /\ s.saw = o.saw
    BY <1>t, <1>d, <1>w
  <1>b. restamped' \in BOOLEAN /\ (restamped => restamped')
    BY <1>c, Zenon
  <1>r. maxSeen > c.saw => restamped'
    BY <1>c, Zenon
  <1>1. ProgramType' /\ Countdown'
    BY <1>i, <1>n, <1>s, <1>d, <1>b DEF ProgramType, Countdown
  <1>2. Spent'
    <2>1. IsFiniteSet(sends) /\ Cardinality(sends) \in Nat /\ flashes \in Nat
      BY <1>i, FS_CardinalityType DEF Spent, ProgramType
    <2>2. IsFiniteSet(sends \ {c}) /\ Cardinality(sends \ {c}) = Cardinality(sends) - 1
      BY <1>c, <2>1, FS_RemoveElement
    <2>3. /\ IsFiniteSet(sends')
          /\ Cardinality(sends') \in {Cardinality(sends \ {c}), Cardinality(sends \ {c}) + 1}
      BY <1>s, <2>2, FS_AddElement
    <2> QED BY <1>i, <1>n, <2>1, <2>2, <2>3 DEF Spent
  <1>3. Stages' /\ Screen' /\ Caught' /\ Closing'
    BY <1>i, <1>n, <1>l DEF Stages, Screen, Caught, Closing, shows
  <1>4. Ids'
    <2>1. \A s \in sends' : \E o \in sends : s.id = o.id
      BY <1>c, <1>s, <1>d
    <2>2. ASSUME NEW s \in sends', NEW t \in sends', s.id = t.id
          PROVE  s = t
      BY <1>i, <1>c, <1>s, <1>d, <2>2 DEF Ids
    <2> QED BY <1>i, <1>n, <1>l, <2>1, <2>2 DEF Ids
  <1>5. Chosen'
    <2>1. ASSUME NEW s \in underWay
          PROVE  /\ s.by = 1 /\ s.fit /\ s.saw <= view.seq /\ (s.saw = seq => suits(s.type))
                 /\ s.seq # 0 =>
                      s.saw <= s.seq /\ s.seq <= maxSeen /\ (s.seq > s.saw => restamped')
      BY <1>i, <1>b DEF Chosen
    <2>2. /\ d.by = 1 /\ d.fit /\ d.saw <= view.seq /\ (d.saw = seq => suits(d.type))
          /\ d.saw <= d.seq /\ d.seq <= maxSeen /\ (d.seq > d.saw => restamped')
      BY <1>i, <1>t, <1>d, <1>r
    <2> QED BY <1>n, <1>l, <1>w, <2>1, <2>2 DEF Chosen, suits
  <1>6. Single'
    <2>1. ASSUME life \notin {"over", "broken"}, NEW s \in underWay', s.type \in Gameplay,
                 s.saw = view.seq
          PROVE  inputDisabled
      BY <1>i, <1>a, <2>1 DEF Single
    <2>2. ASSUME life \notin {"over", "broken"}, NEW s \in underWay', NEW t \in underWay',
                 {s.type, t.type} \subseteq Gameplay, s.saw = t.saw
          PROVE  s.id = t.id
      <3>1. PICK o \in underWay : s.type = o.type /\ s.id = o.id /\ s.saw = o.saw
        BY <1>a
      <3>2. PICK q \in underWay : t.type = q.type /\ t.id = q.id /\ t.saw = q.saw
        BY <1>a
      <3>3. {o.type, q.type} \subseteq Gameplay /\ o.saw = q.saw
        BY <2>2, <3>1, <3>2
      <3> QED BY <1>i, <2>2, <3>1, <3>2, <3>3 DEF Single
    <2> QED BY <1>n, <1>l, <2>1, <2>2 DEF Single
  <1>7. Locks'
    <2>1. pending => pending'
      <3>1. (\E s \in underWay : s.saw = view.seq) => \E s \in underWay' : s.saw = view.seq
        BY <1>d, <1>w
      <3> QED BY <1>n, <1>l, <3>1 DEF pending
    <2> QED BY <1>i, <1>n, <1>l, <2>1 DEF Locks, locks, ownTurn
  <1>8. Fatal'
    BY <1>i, <1>n, <1>l, <1>b DEF Fatal
  <1> QED BY <1>l, <1>1, <1>2, <1>3, <1>4, <1>5, <1>6, <1>7, <1>8 DEF Inv, ScreenInv

LEMMA WriteCommandKeeps ==
    ASSUME Inv, WriteCommand
    PROVE  Inv'
  <1>i. /\ LinkInv /\ LinkType /\ ProgramType /\ Spent /\ Stages /\ Screen /\ Caught /\ Closing
        /\ Ids /\ Chosen /\ Single /\ Locks /\ Fatal /\ Countdown
        /\ keys \in Nat /\ Keys \in Nat /\ maxSeen \in Nat /\ shown \in Nat /\ view.seq \in Nat
        /\ view.seq <= shown /\ shown <= maxSeen
    BY Parts
  <1>n. /\ stage = "run" /\ subscribed
        /\ UNCHANGED <<session, channels, conn, client, history>>
        /\ UNCHANGED <<observer, stage, held, view, keys, clock, restamped>>
        /\ UNCHANGED <<deadline, timeoutDisabled, inputDisabled, submitted>>
        /\ UNCHANGED <<escConfirm, modalContinue, fatal, ticks, flashes>>
    BY DEF WriteCommand, input, modals, timers
  <1>l. /\ UNCHANGED <<human, life, seq, phase, paused, mine, armed, movedAt, cache>>
        /\ UNCHANGED <<subscribed, entry, subCh, outCh, maxSeen, shown, lost, skipped>>
    BY <1>n DEF session, table, channels, conn, history
  <1>s. PICK c \in sends :
            /\ c.seq # 0
            /\ sends' = sends \ {c}
            /\ write(c)
    BY DEF WriteCommand
  <1>t. /\ c \in Cmd /\ c \in underWay /\ c.by = client /\ c.saw <= c.seq /\ c.seq <= maxSeen
    BY <1>i, <1>s, CommandTypes DEF ProgramType, underWay, Chosen, Stages
  <1>e. Sends
    BY <1>l, <1>s, <1>t DEF Sends
  <1>k. LinkInv'
    BY <1>i, <1>n, <1>e, SendKeeps
  <1>c. /\ up' \in Seq(Cmd) /\ Range(up') = Range(up) \cup {c} /\ up' = Append(up, c)
    BY <1>i, <1>s, <1>t, SentCommand
  <1>q. queued' = queued
    BY <1>l DEF queued
  <1>w. underWay' = underWay
    BY <1>s, <1>c DEF underWay
  <1>1. ProgramType' /\ Countdown'
    BY <1>i, <1>n, <1>s DEF ProgramType, Countdown
  <1>2. Spent'
    <2>1. IsFiniteSet(sends) /\ Cardinality(sends) \in Nat /\ flashes \in Nat
      BY <1>i, FS_CardinalityType DEF Spent, ProgramType
    <2>2. IsFiniteSet(sends') /\ Cardinality(sends') = Cardinality(sends) - 1
      BY <1>s, <2>1, FS_RemoveElement
    <2> QED BY <1>i, <1>n, <2>1, <2>2 DEF Spent
  <1>3. Stages' /\ Screen' /\ Caught' /\ Closing'
    BY <1>i, <1>n, <1>l DEF Stages, Screen, Caught, Closing, shows
  <1>4. Ids'
    <2>1. /\ Len(up') = Len(up) + 1 /\ Len(up) \in Nat
          /\ \A k \in 1 .. Len(up) : up'[k] = up[k]
          /\ up'[Len(up) + 1] = c
      BY <1>i, <1>c, AppendProperties, LenProperties DEF LinkType, ChannelType
    <2>2. \A k \in 1 .. Len(up') : \/ k \in 1 .. Len(up) /\ up'[k] = up[k]
                                   \/ k = Len(up) + 1 /\ up'[k].id = c.id
      BY <2>1
    <2>3. /\ c.id < Keys - keys
          /\ \A k \in 1 .. Len(up) : up[k].id < Keys - keys /\ up[k].id # c.id
      BY <1>i DEF Ids
    <2>4. \A k \in 1 .. Len(up') :
            /\ up'[k].id < Keys - keys
            /\ \A o \in sends' : o.id # up'[k].id
            /\ \A j \in 1 .. Len(up') : up'[k].id = up'[j].id => k = j
      BY <1>i, <1>s, <2>2, <2>3 DEF Ids
    <2>5. \A r \in cache : \A k \in 1 .. Len(up') : up'[k].id # r.id
      BY <1>i, <2>2 DEF Ids
    <2> QED BY <1>i, <1>n, <1>l, <1>s, <2>4, <2>5 DEF Ids
  <1>5. Chosen'
    BY <1>i, <1>n, <1>l, <1>w DEF Chosen, suits
  <1>6. Single' /\ Locks' /\ Fatal'
    <2>1. pending' = pending
      BY <1>n, <1>l, <1>w DEF pending
    <2>2. Single' /\ Fatal'
      BY <1>i, <1>n, <1>l, <1>w, <1>q DEF Single, Fatal
    <2> QED BY <1>i, <1>n, <1>l, <2>1, <2>2 DEF Locks, locks, ownTurn
  <1> QED BY <1>k, <1>1, <1>2, <1>3, <1>4, <1>5, <1>6 DEF Inv, ScreenInv

-----------------------------------------------------------------------------
(* The session. *)

LEMMA UpShrinks ==
    ASSUME Inv, up' = up \/ (up # <<>> /\ up' = Tail(up)), sends' = sends, keys' = keys
    PROVE  /\ Range(up') \subseteq Range(up) /\ underWay' \subseteq underWay
           /\ \A i \in 1 .. Len(up') :
                /\ up'[i].id < Keys - keys'
                /\ \A s \in sends' : s.id # up'[i].id
                /\ \A j \in 1 .. Len(up') : up'[i].id = up'[j].id => i = j
           /\ \A r \in cache : \A i \in 1 .. Len(up') : up'[i].id # r.id
           /\ up # <<>> /\ up' = Tail(up) =>
                \A i \in 1 .. Len(up') : up'[i].id # Head(up).id
  <1>i. LinkType /\ Ids /\ up \in Seq(Cmd)
    BY Parts DEF LinkType, ChannelType
  <1>1. CASE up' = up
    <2>1. Range(up') \subseteq Range(up) /\ underWay' \subseteq underWay
      BY <1>1 DEF underWay
    <2>2. \A i \in 1 .. Len(up') :
                /\ up'[i].id < Keys - keys'
                /\ \A s \in sends' : s.id # up'[i].id
                /\ \A j \in 1 .. Len(up') : up'[i].id = up'[j].id => i = j
      BY <1>i, <1>1 DEF Ids
    <2>3. \A r \in cache : \A i \in 1 .. Len(up') : up'[i].id # r.id
      BY <1>i, <1>1 DEF Ids
    <2>4. up # <<>> => up' # Tail(up)
      <3>1. up # <<>> => Len(Tail(up)) = Len(up) - 1 /\ Len(up) \in Nat
        BY <1>i, RangeTail
      <3> QED BY <1>1, <3>1
    <2> QED BY <2>1, <2>2, <2>3, <2>4
  <1>2. CASE up # <<>> /\ up' = Tail(up)
    <2>1. /\ Len(up) \in Nat /\ Len(up) >= 1 /\ Head(up) = up[1]
          /\ \A k \in 1 .. Len(up') : up'[k] = up[k + 1] /\ k + 1 \in 1 .. Len(up)
          /\ Range(up') \subseteq Range(up)
      BY <1>i, <1>2, RangeTail
    <2>2. underWay' \subseteq underWay
      BY <2>1 DEF underWay
    <2>3. ASSUME NEW k \in 1 .. Len(up')
          PROVE  /\ up'[k].id < Keys - keys'
                 /\ \A s \in sends' : s.id # up'[k].id
                 /\ up'[k].id # Head(up).id
                 /\ \A r \in cache : up'[k].id # r.id
      <3>1. PICK p \in 1 .. Len(up) : up'[k] = up[p] /\ p = k + 1
        BY <2>1
      <3>2. 1 \in 1 .. Len(up) /\ p # 1
        BY <2>1, <3>1
      <3> QED BY <1>i, <2>1, <3>1, <3>2 DEF Ids
    <2>4. ASSUME NEW k \in 1 .. Len(up'), NEW j \in 1 .. Len(up'), up'[k].id = up'[j].id
          PROVE  k = j
      <3>1. PICK p \in 1 .. Len(up) : up'[k] = up[p] /\ p = k + 1
        BY <2>1
      <3>2. PICK q \in 1 .. Len(up) : up'[j] = up[q] /\ q = j + 1
        BY <2>1
      <3>3. p = q
        BY <1>i, <2>4, <3>1, <3>2 DEF Ids
      <3> QED BY <3>1, <3>2, <3>3
    <2> QED BY <2>1, <2>2, <2>3, <2>4
  <1> QED BY <1>1, <1>2

(* What the session does while the program runs. *)
watched ==
    /\ running
    /\ clock' = IF movedAt' = movedAt THEN clock ELSE "early"
    /\ UNCHANGED <<observer, stage, held, view, deadline, timeoutDisabled, inputDisabled>>
    /\ UNCHANGED <<submitted, escConfirm, modalContinue, fatal, ticks, flashes, sends, keys>>
    /\ UNCHANGED restamped

LEMMA ServerTypes ==
    ASSUME Inv, watched
    PROVE  ProgramType' /\ Spent' /\ Countdown' /\ stage \notin {"quit", "closed", "failed"}
  <1>i. ProgramType /\ Spent /\ Countdown
    BY Parts
  <1>1. clock' \in {"early", "cutoff", "due"} /\ stage \notin {"quit", "closed", "failed"}
    BY <1>i DEF watched, ProgramType, running
  <1> QED BY <1>i, <1>1 DEF watched, ProgramType, Spent, Countdown

(* A broadcast makes the screen old and every command under way as well. *)
LEMMA ServerPublishes ==
    ASSUME Inv, watched, Publishes, LinkInv'
    PROVE  Inv'
  <1>i. /\ LinkInv /\ LinkType /\ ProgramType /\ Spent /\ Stages /\ Screen /\ Caught /\ Closing
        /\ Ids /\ Chosen /\ Single /\ Locks /\ Fatal /\ Countdown
        /\ seq \in Nat /\ movedAt \in Nat /\ movedAt <= seq /\ view.seq \in Nat /\ shown \in Nat
        /\ maxSeen \in Nat /\ view.seq <= shown /\ shown <= maxSeen /\ maxSeen <= seq
    BY Parts
  <1>n. /\ UNCHANGED <<observer, stage, held, view, deadline, timeoutDisabled, inputDisabled>>
        /\ UNCHANGED <<submitted, escConfirm, modalContinue, fatal, ticks, flashes, sends, keys>>
        /\ UNCHANGED restamped
        /\ clock' = (IF movedAt' = movedAt THEN clock ELSE "early")
    BY DEF watched
  <1>1. ProgramType' /\ Spent' /\ Countdown' /\ stage \notin {"quit", "closed", "failed"}
    BY ServerTypes
  <1>l. /\ life = "live" /\ life' \in {"live", "grace"} /\ phase # "game_over"
        /\ seq' = seq + 1 /\ movedAt' \in {movedAt, seq'} /\ push(snapshot')
        /\ UNCHANGED <<human, outCh, maxSeen, shown, client>>
    BY <1>i DEF Publishes, conn, LinkInv, Course
  <1>p. /\ Range(subCh') \subseteq Range(subCh) \cup {snapshot'}
        /\ UNCHANGED <<subscribed, entry, skipped>> /\ snapshot'.type = "snapshot"
    <2>1. snapshot' \in Message /\ snapshot'.type = "snapshot"
      BY <1>i, <1>l DEF snapshot, Message, Snap, Publishes
    <2> QED BY <1>i, <1>l, <2>1, Pushed
  <1>u. /\ Range(up') \subseteq Range(up) /\ underWay' \subseteq underWay
        /\ \A i \in 1 .. Len(up') :
             /\ up'[i].id < Keys - keys'
             /\ \A s \in sends' : s.id # up'[i].id
             /\ \A j \in 1 .. Len(up') : up'[i].id = up'[j].id => i = j
        /\ \A r \in cache : \A i \in 1 .. Len(up') : up'[i].id # r.id
        /\ up # <<>> /\ up' = Tail(up) => \A i \in 1 .. Len(up') : up'[i].id # Head(up).id
    <2>1. up' = up \/ (up # <<>> /\ up' = Tail(up))
      BY DEF Publishes
    <2> QED BY <1>n, <2>1, UpShrinks
  <1>2. Stages'
    BY <1>i, <1>n, <1>l, <1>p, <1>1 DEF Stages
  <1>3. Screen'
    <2>1. \A m : m.seq \in Nat /\ m.seq <= seq /\ shows(m) => shows(m)'
      BY <1>i, <1>l DEF shows
    <2>2. shows(view)'
      BY <1>i, <1>n, <2>1 DEF Screen, shows
    <2>3. held # <<>> /\ Head(held).type = "snapshot" => shows(Head(held))'
      BY <1>i, <1>n, <2>1 DEF Screen, shows
    <2> QED BY <1>i, <1>n, <1>l, <2>2, <2>3 DEF Screen, shows
  <1>4. Caught'
    BY <1>i, <1>n, <1>l, <1>p DEF Caught
  <1>5. Closing'
    BY <1>i, <1>n, <1>l, <1>1 DEF Closing
  <1>6. Ids'
    <2>1. \A s \in sends' : s.id < Keys - keys' /\ \A t \in sends' : s.id = t.id => s = t
      BY <1>i, <1>n DEF Ids
    <2>2. CASE cache' = cache
      <3>1. \A r \in cache' : r.id < Keys - keys' /\ \A s \in sends' : s.id # r.id
        BY <1>i, <1>n, <2>2 DEF Ids
      <3>2. \A r \in cache' : \A i \in 1 .. Len(up') : up'[i].id # r.id
        BY <1>u, <2>2
      <3> QED BY <1>u, <2>1, <3>1, <3>2 DEF Ids
    <2>3. CASE cache' # cache
      <3>1. /\ up # <<>> /\ up' = Tail(up)
            /\ \A r \in cache' : r \in cache \/ r.id = Head(up).id
        BY <2>3 DEF Publishes
      <3>2. /\ Head(up).id < Keys - keys
            /\ \A s \in sends : s.id # Head(up).id
        <4>1. 1 \in 1 .. Len(up) /\ Head(up) = up[1]
          BY <1>i, <3>1, RangeTail DEF LinkType, ChannelType
        <4> QED BY <1>i, <4>1 DEF Ids
      <3>3. \A r \in cache' :
              /\ r.id < Keys - keys'
              /\ \A s \in sends' : s.id # r.id
              /\ \A i \in 1 .. Len(up') : up'[i].id # r.id
        BY <1>i, <1>n, <1>u, <3>1, <3>2 DEF Ids
      <3> QED BY <1>u, <2>1, <3>3 DEF Ids
    <2> QED BY <2>2, <2>3
  <1>7. Chosen'
    <2>1. \A s \in underWay' : s \in underWay /\ s.saw \in Nat /\ s.saw <= view.seq
      BY <1>i, <1>u, CommandTypes DEF Chosen
    <2>2. \A s \in underWay' : s.saw <= view'.seq /\ s.saw # seq'
      BY <1>i, <1>n, <1>l, <2>1
    <2> QED BY <1>i, <1>n, <1>l, <2>1, <2>2 DEF Chosen
  <1>8. Single'
    BY <1>i, <1>n, <1>l, <1>u DEF Single
  <1>9. Locks'
    <2>1. view'.seq # seq'
      BY <1>i, <1>n, <1>l
    <2>2. timeoutDisabled' /\ view'.seq >= movedAt' => clock' # "early"
      <3>1. CASE movedAt' = movedAt
        BY <1>i, <1>n, <3>1 DEF Locks
      <3>2. CASE movedAt' = seq'
        BY <1>i, <1>n, <1>l, <3>2
      <3> QED BY <1>l, <3>1, <3>2
    <2> QED BY <2>1, <2>2 DEF Locks
  <1>10. Fatal'
    <2>1. \A m \in (queued \cup Range(held))' : m.type = "error" => m \in queued \cup Range(held)
      BY <1>n, <1>l, <1>p DEF queued
    <2> QED BY <1>i, <1>n, <1>l, <2>1 DEF Fatal
  <1> QED BY <1>1, <1>2, <1>3, <1>4, <1>5, <1>6, <1>7, <1>8, <1>9, <1>10 DEF Inv, ScreenInv

LEMMA ServerEnds ==
    ASSUME Inv, watched, Ends, LinkInv'
    PROVE  Inv'
  <1>i. /\ LinkInv /\ ProgramType /\ Spent /\ Stages /\ Screen /\ Caught /\ Closing
        /\ Ids /\ Chosen /\ Single /\ Locks /\ Fatal /\ Countdown
    BY Parts
  <1>n. /\ UNCHANGED <<observer, stage, held, view, deadline, timeoutDisabled, inputDisabled>>
        /\ UNCHANGED <<submitted, escConfirm, modalContinue, fatal, ticks, flashes, sends, keys>>
        /\ UNCHANGED restamped
        /\ clock' = (IF movedAt' = movedAt THEN clock ELSE "early")
    BY DEF watched
  <1>1. ProgramType' /\ Spent' /\ Countdown' /\ stage \notin {"quit", "closed", "failed"}
    BY ServerTypes
  <1>l. /\ \/ life \in {"live", "grace"} /\ life' = "broken"
           \/ life = "grace" /\ life' = "over"
        /\ UNCHANGED <<human, seq, phase, paused, mine, armed, movedAt, cache>>
        /\ UNCHANGED <<subscribed, entry, subCh, outCh, up, maxSeen, shown, client, lost, skipped>>
    BY DEF Ends, table, channels, conn, history
  <1>w. underWay' = underWay /\ queued' = queued /\ clock' = clock
    BY <1>n, <1>l DEF underWay, queued
  <1>2. Stages' /\ Caught'
    BY <1>i, <1>n, <1>l, <1>1 DEF Stages, Caught
  <1>3. Screen'
    BY <1>i, <1>n, <1>l DEF Screen, shows
  <1>4. Closing'
    BY <1>i, <1>n, <1>l, <1>1 DEF Closing
  <1>5. Ids' /\ Chosen'
    BY <1>i, <1>n, <1>l, <1>w DEF Ids, Chosen, suits
  <1>6. Single'
    BY <1>l DEF Single
  <1>7. Locks' /\ Fatal'
    BY <1>i, <1>n, <1>l, <1>w DEF Locks, Fatal
  <1> QED BY <1>1, <1>2, <1>3, <1>4, <1>5, <1>6, <1>7 DEF Inv, ScreenInv

(* A move is only illegal if it was chosen on an older table, and then its
   command bears the number of a later one; no pass has the wrong number of
   cards. *)
LEMMA IllegalMoves ==
    ASSUME Inv, up # <<>>, NEW ms \in answersTo(Head(up)), NEW m \in Range(ms),
           m.type = "error"
    PROVE  m.code # "malformed_message" /\ (m.code = "illegal_move" => restamped)
  <1> DEFINE c == Head(up)
  <1>i. /\ LinkType /\ Chosen /\ seq \in Nat /\ movedAt \in Nat /\ movedAt <= seq
        /\ c \in Range(up) /\ c.seq \in Nat /\ c.saw \in Nat /\ c.saw <= c.seq
        /\ c.fit /\ (c.seq # 0 => (c.seq > c.saw => restamped))
    <2>1. LinkType /\ Chosen /\ seq \in Nat /\ movedAt \in Nat /\ movedAt <= seq /\ Bounds
      BY Parts DEF LinkInv
    <2>2. c \in Range(up) /\ c.seq \in Nat /\ c.saw \in Nat
      BY <2>1, TailOfUp, LinkTypes
    <2> QED BY <2>1, <2>2 DEF Bounds, Chosen, underWay
  <1>1. CASE ms \in {<<e>> : e \in refusals(c)}
    <2>1. PICK e \in refusals(c) : ms = <<e>>
      BY <1>1
    <2>2. m = e
      BY <2>1, RangeOne
    <2>3. ASSUME e.code \in {"illegal_move", "malformed_message"}
          PROVE  reaches(c) /\ e.code \in rejections(c)
      BY <2>3 DEF refusals
    <2>4. e.code # "malformed_message"
      <3>1. "malformed_message" \notin rejections(c)
        BY <1>i DEF rejections
      <3> QED BY <2>3, <3>1
    <2>5. ASSUME e.code = "illegal_move" PROVE restamped
      <3>1. reaches(c) /\ outdated(c)
        BY <2>3, <2>5 DEF rejections
      <3>2. c.seq > c.saw /\ c.seq # 0
        BY <1>i, <3>1 DEF reaches, stale, outdated
      <3> QED BY <1>i, <3>2
    <2> QED BY <2>2, <2>4, <2>5
  <1>2. CASE ms \in {<<r.snap>> : r \in {r \in replays(c) : c.type \in Gameplay /\ ~stale(c)}}
    <2>1. PICK r \in cache : ms = <<r.snap>>
      BY <1>2 DEF replays
    <2>2. m = r.snap /\ r.snap \in Snap
      BY <1>i, <2>1, RangeOne, LinkTypes
    <2> QED BY <2>2 DEF Snap
  <1>3. CASE ms = resync
    <2>1. m = snapshot \/ m = error("stale_seq", seq)
      BY <1>3 DEF resync, Range
    <2> QED BY <2>1 DEF snapshot, error
  <1> QED BY <1>1, <1>2, <1>3 DEF answersTo

(* A command chosen on the latest table is not refused, unless by a full
   queue or because it is a pause that came too late, and both end the
   program. *)
LEMMA LatestIsTaken ==
    ASSUME Inv, watched, NEW ms, Answers(ms), life = "live",
           view.seq = seq, Head(up).saw = seq
    PROVE  \E m \in Range(outCh') : m \in ending
  <1> DEFINE c == Head(up)
  <1>i. /\ LinkType /\ Stages /\ Ids /\ Chosen /\ ProgramType
        /\ seq \in Nat \ {0} /\ movedAt \in Nat /\ movedAt <= seq
    BY Parts
  <1>a. up # <<>> /\ ms \in answersTo(c) /\ reply(c, ms)
    BY DEF Answers
  <1>c. /\ c \in Range(up) /\ c.seq \in Nat /\ c.type \in Commands /\ c.seq <= seq /\ c.saw <= c.seq
    BY <1>i, <1>a, TailOfUp, LinkTypes DEF Inv, LinkInv, Bounds
  <1>1. ~stale(c) /\ ~outdated(c)
    BY <1>i, <1>c DEF stale, outdated
  <1>2. replays(c) = {}
    <2>1. 1 \in 1 .. Len(up) /\ c = up[1]
      BY <1>i, <1>a, RangeTail DEF LinkType, ChannelType
    <2> QED BY <1>i, <2>1 DEF Ids, replays
  <1>3. c \in underWay /\ c.saw = seq
    BY <1>c DEF underWay
  <1>4. /\ c.fit /\ c.by = 1
        /\ c.type \in Gameplay => phase = phaseOf[c.type] /\ ~paused /\ (c.type = "play_card" => mine)
    BY <1>i, <1>3 DEF Chosen, suits
  <1>5. c.type \in Gameplay => rejections(c) = {}
    BY <1>1, <1>4 DEF rejections, accepts
  <1>6. PICK e \in refusals(c) : ms = <<e>>
    BY <1>a, <1>1, <1>2 DEF answersTo
  <1>7. e \in ending
    <2>1. e \in Err /\ e.code \in {"pause_not_allowed", "internal_error"}
      BY <1>4, <1>5 DEF refusals
    <2>2. /\ e = [type |-> e.type, seq |-> e.seq, code |-> e.code]
          /\ e.type = "error" /\ e.seq \in Nat
      BY <2>1 DEF Err
    <2> QED BY <2>1, <2>2 DEF ending
  <1>8. subscribed /\ c.by = client
    <2>1. stage = "run"
      BY <1>i DEF Stages, ProgramType, watched, running
    <2> QED BY <1>i, <1>4, <2>1 DEF Stages
  <1>9. outCh' = outCh \o ms /\ outCh \in Seq(Message) /\ ms \in Seq(Message)
    BY <1>i, <1>a, <1>8, AnswerFacts DEF reply, LinkType, ChannelType, Inv
  <1>10. e \in Range(outCh')
    <2>1. Range(ms) = {e}
      BY <1>6, RangeOne
    <2>2. Range(outCh') = Range(outCh) \cup Range(ms)
      BY <1>9, RangeConcatenation
    <2> QED BY <2>1, <2>2
  <1> QED BY <1>7, <1>10

LEMMA ServerAnswers ==
    ASSUME Inv, watched, NEW ms, Answers(ms), LinkInv'
    PROVE  Inv'
  <1>i. /\ LinkInv /\ LinkType /\ ProgramType /\ Spent /\ Stages /\ Screen /\ Caught /\ Closing
        /\ Ids /\ Chosen /\ Single /\ Locks /\ Fatal /\ Countdown
    BY Parts
  <1>n. /\ UNCHANGED <<observer, stage, held, view, deadline, timeoutDisabled, inputDisabled>>
        /\ UNCHANGED <<submitted, escConfirm, modalContinue, fatal, ticks, flashes, sends, keys>>
        /\ UNCHANGED restamped
        /\ clock' = (IF movedAt' = movedAt THEN clock ELSE "early")
    BY DEF watched
  <1>1. ProgramType' /\ Spent' /\ Countdown' /\ stage \notin {"quit", "closed", "failed"}
    BY ServerTypes
  <1>l. /\ UNCHANGED <<human, life, seq, phase, paused, mine, movedAt, cache, maxSeen, shown>>
        /\ UNCHANGED <<client, subscribed, entry, skipped>>
        /\ up # <<>> /\ up' = Tail(up) /\ ms \in answersTo(Head(up)) /\ reply(Head(up), ms)
        /\ lost => lost'
    <2>1. lost => lost'
      BY DEF Answers, push
    <2> QED BY <2>1 DEF Answers, conn
  <1>k. clock' = clock
    BY <1>n, <1>l
  <1>u. /\ Range(up') \subseteq Range(up) /\ underWay' \subseteq underWay
        /\ \A i \in 1 .. Len(up') :
             /\ up'[i].id < Keys - keys'
             /\ \A s \in sends' : s.id # up'[i].id
             /\ \A j \in 1 .. Len(up') : up'[i].id = up'[j].id => i = j
        /\ \A r \in cache : \A i \in 1 .. Len(up') : up'[i].id # r.id
    BY <1>n, <1>l, UpShrinks
  <1>m. ms \in Seq(Message)
    BY <1>i, <1>l, AnswerFacts
  <1>o. /\ Range(outCh') \subseteq Range(outCh) \cup Range(ms)
        /\ Range(outCh) \subseteq Range(outCh')
    BY <1>i, <1>l, <1>m, Replied
  <1>s. Range(subCh') \subseteq Range(subCh) \cup Range(ms)
    <2>1. CASE UNCHANGED <<subCh, lost>>
      BY <2>1
    <2>2. CASE \E e \in Err : ms = <<e>> /\ e.code \in rejections(Head(up)) /\ e.seq = seq
                               /\ Head(up).type \in Gameplay /\ reaches(Head(up)) /\ push(e)
      <3>1. PICK e \in Err : ms = <<e>> /\ push(e)
        BY <2>2
      <3>2. e \in Message /\ Range(ms) = {e}
        BY <3>1, RangeOne DEF Message
      <3> QED BY <1>i, <3>1, <3>2, Pushed
    <2> QED BY <2>1, <2>2 DEF Answers
  <1>q. queued' \subseteq queued \cup Range(ms)
    BY <1>o, <1>s DEF queued
  <1>2. Stages' /\ Caught'
    BY <1>i, <1>n, <1>l DEF Stages, Caught
  <1>3. Screen'
    BY <1>i, <1>n, <1>l DEF Screen, shows
  <1>4. Closing'
    BY <1>i, <1>n, <1>l DEF Closing
  <1>5. Ids'
    BY <1>i, <1>n, <1>l, <1>u DEF Ids
  <1>6. Chosen'
    BY <1>i, <1>n, <1>l, <1>u DEF Chosen, suits
  <1>7. Single'
    BY <1>i, <1>n, <1>l, <1>u DEF Single
  <1>8. Locks'
    <2>1. timeoutDisabled' /\ view'.seq >= movedAt' => clock' # "early"
      BY <1>i, <1>n, <1>l, <1>k DEF Locks
    <2>2. ASSUME pending, life = "live", view.seq = seq
          PROVE  pending'
      <3>1. ASSUME NEW s \in underWay, s.saw = view.seq
            PROVE  pending'
        <4>1. CASE s \in sends
          BY <1>n, <3>1, <4>1 DEF pending, underWay
        <4>2. ASSUME s \in Range(up)
              PROVE  pending'
          <5>1. CASE s = Head(up)
            <6>1. Head(up).saw = seq
              BY <2>2, <3>1, <5>1
            <6> QED BY <2>2, <6>1, LatestIsTaken DEF pending, ending
          <5>2. CASE s # Head(up)
            <6>1. s \in Range(up')
              BY <1>i, <1>l, <4>2, <5>2, TailOfUp
            <6>2. s \in underWay'
              BY <6>1 DEF underWay
            <6> QED BY <1>n, <3>1, <6>2 DEF pending
          <5> QED BY <5>1, <5>2
        <4> QED BY <4>1, <4>2 DEF underWay
      <3>2. CASE \E m \in Range(outCh) : m \in ending
        BY <1>o, <3>2 DEF pending, ending
      <3>3. CASE (held # <<>> /\ Head(held) \in ending) \/ fatal # "none"
        BY <1>n, <3>3 DEF pending, ending
      <3> QED BY <2>2, <3>1, <3>2, <3>3 DEF pending
    <2> QED BY <1>i, <1>n, <1>l, <1>k, <2>1, <2>2 DEF Locks, locks, ownTurn
  <1>9. Fatal'
    <2>1. \A m \in Range(ms) : m.type = "error" =>
            m.code # "malformed_message" /\ (m.code = "illegal_move" => restamped)
      BY <1>l, IllegalMoves
    <2> QED BY <1>i, <1>n, <1>l, <1>q, <2>1 DEF Fatal
  <1> QED BY <1>1, <1>2, <1>3, <1>4, <1>5, <1>6, <1>7, <1>8, <1>9 DEF Inv, ScreenInv

LEMMA ServerKeeps ==
    ASSUME Inv, Server
    PROVE  Inv'
  <1>1. watched /\ (Handlers \/ TurnTimeout \/ Break)
    BY DEF Server, watched, input, modals, timers
  <1>2. LinkInv'
    BY <1>1, SessionKeeps DEF Inv
  <1>3. Publishes \/ Ends \/ \E ms : Answers(ms)
    BY <1>1, SessionStep DEF Inv
  <1> QED BY <1>1, <1>2, <1>3, ServerPublishes, ServerEnds, ServerAnswers

-----------------------------------------------------------------------------
(* The menu, the session's start and the connection: nothing is shown yet. *)

LEMMA GoesKeeps ==
    ASSUME Inv, NEW to, goes(to), Passes, observer' \in BOOLEAN, view.seq = 0,
           to \in {"menu", "create", "start", "connect", "quit", "failed"},
           human' => ~observer',
           to \in {"menu", "create"} => life' = "none" /\ ~human',
           to = "start" => life' = "draft",
           life' = life \/ life \in {"none", "draft"}
    PROVE  Inv'
  <1>i. /\ LinkInv /\ ProgramType /\ Spent /\ Stages /\ Screen /\ Caught /\ Closing
        /\ Ids /\ Chosen /\ Single /\ Locks /\ Fatal /\ Countdown /\ seq \in Nat \ {0}
    BY Parts
  <1>n. /\ stage' = to
        /\ UNCHANGED <<held, view, deadline, timeoutDisabled, inputDisabled, submitted, sends, keys>>
        /\ UNCHANGED <<escConfirm, modalContinue, fatal, ticks, flashes, clock, restamped>>
    BY DEF goes, input, modals, timers
  <1>l. /\ UNCHANGED <<seq, phase, paused, mine, movedAt, cache>>
        /\ UNCHANGED <<subscribed, entry, subCh, outCh, up, maxSeen, shown, client, lost, skipped>>
    BY DEF Passes, table, channels, conn, history
  <1>w. underWay' = underWay /\ queued' = queued /\ LinkInv'
    BY <1>i, <1>n, <1>l, PassesKeeps DEF underWay, queued
  <1>1. ProgramType' /\ Spent' /\ Countdown'
    BY <1>i, <1>n DEF ProgramType, Spent, Countdown
  <1>2. Stages'
    BY <1>i, <1>n, <1>l DEF Stages
  <1>3. Screen'
    BY <1>i, <1>n, <1>l DEF Screen, shows
  <1>4. Caught' /\ Closing'
    BY <1>i, <1>n, <1>l DEF Caught, Closing
  <1>5. Ids' /\ Chosen' /\ Single'
    BY <1>i, <1>n, <1>l, <1>w DEF Ids, Chosen, suits, Single
  <1>6. Locks' /\ Fatal'
    BY <1>i, <1>n, <1>l, <1>w DEF Locks, Fatal
  <1> QED BY <1>w, <1>1, <1>2, <1>3, <1>4, <1>5, <1>6 DEF Inv, ScreenInv

LEMMA ConnectionKeeps ==
    ASSUME Inv, stage = "connect", Connect, goes("run"), observer' = observer
    PROVE  Inv'
  <1>i. /\ LinkInv /\ ProgramType /\ Spent /\ Stages /\ Screen /\ Caught /\ Closing
        /\ Ids /\ Chosen /\ Single /\ Locks /\ Fatal /\ Countdown /\ seq \in Nat \ {0}
    BY Parts
  <1>n. /\ stage' = "run" /\ observer' = observer
        /\ UNCHANGED <<held, view, deadline, timeoutDisabled, inputDisabled, submitted, sends, keys>>
        /\ UNCHANGED <<escConfirm, modalContinue, fatal, ticks, flashes, clock, restamped>>
    BY DEF goes, input, modals, timers
  <1>l. /\ UNCHANGED <<human, life, seq, phase, paused, mine, movedAt, cache>>
        /\ UNCHANGED <<outCh, up, maxSeen, shown, client, lost, skipped>>
        /\ subscribed' = TRUE /\ subCh' \in {<<snapshot>>, <<>>}
        /\ life = "live" => entry' = "registered"
        /\ life # "live" => entry' # "registered"
        /\ life \in {"live", "grace", "over", "broken"}
    BY DEF Connect, session, table, conn, history
  <1>w. underWay' = underWay /\ queued' \subseteq queued \cup {snapshot} /\ LinkInv'
    BY <1>i, <1>n, <1>l, ConnectKeeps, RangeOne, RangeEmpty DEF underWay, queued
  <1>1. ProgramType' /\ Spent' /\ Countdown'
    BY <1>i, <1>n DEF ProgramType, Spent, Countdown
  <1>2. Stages'
    BY <1>i, <1>n, <1>l DEF Stages
  <1>3. Screen'
    BY <1>i, <1>n, <1>l DEF Screen, shows
  <1>4. Caught' /\ Closing'
    BY <1>i, <1>n, <1>l DEF Caught, Closing
  <1>5. Ids' /\ Chosen' /\ Single'
    BY <1>i, <1>n, <1>l, <1>w DEF Ids, Chosen, suits, Single
  <1>6. Locks'
    BY <1>i, <1>n, <1>l DEF Locks, Stages
  <1>7. Fatal'
    BY <1>i, <1>n, <1>l, <1>w DEF Fatal, snapshot
  <1> QED BY <1>w, <1>1, <1>2, <1>3, <1>4, <1>5, <1>6, <1>7 DEF Inv, ScreenInv

LEMMA SetupKeeps ==
    ASSUME Inv, Setup
    PROVE  Inv'
  <1>i. /\ LinkInv /\ LinkType /\ Course /\ ProgramType /\ Stages /\ observer \in BOOLEAN
        /\ human \in BOOLEAN
    BY Parts DEF LinkInv, LinkType, TableType, ProgramType
  <1>p. ASSUME UNCHANGED link PROVE Passes /\ life' = life /\ human' = human
    BY <1>i, <1>p DEF link, session, Passes, LinkType, TableType, Course
  <1>1. CASE Menu
    <2>1. UNCHANGED link /\ view.seq = 0 /\ life = "none" /\ ~human
      BY <1>i, <1>1 DEF Menu, Stages
    <2>2. observer' \in BOOLEAN
      BY <1>i, <1>1, Zenon DEF Menu
    <2>3. goes("menu") \/ goes("create") \/ goes("quit")
      BY <1>1 DEF Menu
    <2> QED BY <1>p, <2>1, <2>2, <2>3, GoesKeeps
  <1>2. CASE CreateSession
    <2>1. view.seq = 0 /\ life = "none" /\ phase # "game_over" /\ observer' = observer
          /\ UNCHANGED <<seq, table, cache, channels, up, conn, client, history>>
      BY <1>i, <1>2 DEF CreateSession, Stages, Course
    <2>2. human' \in BOOLEAN /\ (human' => ~observer')
      <3>1. human' = ~observer
        BY <1>2 DEF CreateSession
      <3>2. (~observer) \in BOOLEAN
        OBVIOUS
      <3>3. human' \in BOOLEAN
        BY <3>1, <3>2, Zenon
      <3>4. observer' => observer
        BY <2>1
      <3>5. human' => ~observer
        BY <3>1, Zenon
      <3> QED BY <3>3, <3>4, <3>5
    <2>3. \/ life' = "draft" /\ goes("start")
          \/ life' = "none" /\ goes("failed")
      BY <1>2 DEF CreateSession
    <2>4. Passes
      BY <2>1, <2>2, <2>3 DEF Passes, Lives
    <2> QED BY <1>i, <2>1, <2>2, <2>3, <2>4, GoesKeeps
  <1>3. CASE StartSession
    <2>1. view.seq = 0 /\ life = "draft" /\ phase # "game_over" /\ observer' = observer
          /\ UNCHANGED <<human, seq, table, cache, channels, up, conn, client, history>>
      BY <1>i, <1>3 DEF StartSession, Stages, Course
    <2>2. human' \in BOOLEAN /\ (human' => ~observer')
      BY <1>i, <2>1 DEF Stages
    <2>3. \/ life' = "live" /\ goes("connect")
          \/ life' = "draft" /\ goes("failed")
      BY <1>3 DEF StartSession
    <2>4. Passes
      BY <2>1, <2>2, <2>3 DEF Passes, Lives
    <2> QED BY <1>i, <2>1, <2>2, <2>3, <2>4, GoesKeeps
  <1>4. CASE Dial
    <2>1. stage = "connect" /\ view.seq = 0 /\ observer' = observer /\ (human => ~observer)
      BY <1>i, <1>4 DEF Dial, Stages
    <2>2. CASE Connect /\ goes("run")
      BY <2>1, <2>2, ConnectionKeeps
    <2>3. CASE UNCHANGED link /\ goes("failed")
      BY <1>i, <1>p, <2>1, <2>3, GoesKeeps
    <2> QED BY <1>4, <2>2, <2>3 DEF Dial
  <1> QED BY <1>1, <1>2, <1>3, <1>4 DEF Setup

-----------------------------------------------------------------------------
(* What holds of every run of the program. *)

LEMMA Stutters ==
    ASSUME Inv, UNCHANGED vars
    PROVE  Inv'
  <1>i. /\ LinkInv /\ ProgramType /\ Spent /\ Stages /\ Screen /\ Caught /\ Closing
        /\ Ids /\ Chosen /\ Single /\ Locks /\ Fatal /\ Countdown
    BY Parts
  <1>n. /\ UNCHANGED <<observer, stage, held, view, deadline, timeoutDisabled, inputDisabled>>
        /\ UNCHANGED <<submitted, escConfirm, modalContinue, fatal, ticks, flashes, sends, keys>>
        /\ UNCHANGED <<clock, restamped>> /\ UNCHANGED link
    BY DEF vars, program, input, modals, timers
  <1>l. /\ LinkInv' /\ queued' = queued
        /\ UNCHANGED <<human, life, seq, phase, paused, mine, armed, movedAt, cache>>
        /\ UNCHANGED <<subscribed, entry, subCh, outCh, up, maxSeen, shown, client, lost, skipped>>
    BY <1>n, LinkSame
  <1>w. underWay' = underWay
    BY <1>n, <1>l DEF underWay
  <1>1. ProgramType' /\ Spent' /\ Countdown'
    BY <1>i, <1>n DEF ProgramType, Spent, Countdown
  <1>2. Stages' /\ Caught' /\ Closing' /\ Screen'
    BY <1>i, <1>n, <1>l DEF Stages, Caught, Closing, Screen, shows
  <1>3. Ids' /\ Chosen' /\ Single'
    BY <1>i, <1>n, <1>l, <1>w DEF Ids, Chosen, suits, Single
  <1>4. Locks' /\ Fatal'
    BY <1>i, <1>n, <1>l, <1>w DEF Locks, Fatal, pending, locks, ownTurn
  <1> QED BY <1>l, <1>1, <1>2, <1>3, <1>4 DEF Inv, ScreenInv

LEMMA StepKeeps ==
    ASSUME Inv, [Next]_vars
    PROVE  Inv'
  <1>1. CASE Setup
    BY <1>1, SetupKeeps
  <1>2. CASE Reader
    BY <1>2, ReadMessageKeeps, ReaderDiscardKeeps, ReadCloseKeeps DEF Reader
  <1>3. CASE Update
    BY <1>3, HandleSnapshotKeeps, HandleWSErrorKeeps, HandleWSCloseKeeps, TimersKeep DEF Update
  <1>4. CASE HandleKeyPress
    BY <1>4, KeysKeep
  <1>5. CASE StampCommand \/ WriteCommand \/ WriteFails
    BY <1>5, StampCommandKeeps, WriteCommandKeeps, WriteFailsKeeps
  <1>6. CASE Server
    BY <1>6, ServerKeeps
  <1>7. CASE TimePasses
    BY <1>7, TimersKeep
  <1>8. CASE UNCHANGED vars
    BY <1>8, Stutters
  <1> QED BY <1>1, <1>2, <1>3, <1>4, <1>5, <1>6, <1>7, <1>8 DEF Next

(* The inductive invariant: what ClientLink promises and what the program
   shows, has locked and has under way (runGame, model.Update). *)
THEOREM Invariance == Spec => []Inv
  BY Initially, StepKeeps, PTL DEF Spec

(* Every variable has its type: the reader holds one message at most, the
   subscription keeps to its capacity, the screen is not ahead of what has
   been read, and no more flashes run than keys were pressed
   (startWSReader, sendNonBlocking, flashTimeoutMsg). *)
THEOREM TypeCorrect == Spec => []TypeOK
  <1>1. ASSUME Inv PROVE TypeOK
    <2>i. /\ LinkType /\ ProgramType /\ Spent /\ Stages /\ Chosen
          /\ view.seq \in Nat /\ shown \in Nat /\ maxSeen \in Nat /\ seq \in Nat
          /\ view.seq <= shown /\ shown <= maxSeen /\ maxSeen <= seq
      BY <1>1, Parts
    <2>1. flashes \in 0 .. Keys
      <3>1. Cardinality(sends) \in Nat /\ flashes \in Nat /\ keys \in Nat /\ Keys \in Nat
        BY <2>i, FS_CardinalityType, KeysAssumption DEF Spent, ProgramType
      <3> QED BY <2>i, <3>1 DEF Spent
    <2>2. \A s \in sends : s.type \in Commands /\ s.saw <= view.seq
      BY <2>i, CommandTypes DEF ProgramType, Chosen, underWay
    <2>3. life \in Lives /\ Len(subCh) <= SubCap /\ entry \in {"registered", "drained", "stranded"}
      BY <2>i DEF LinkType, TableType, ChannelType
    <2> QED BY <2>i, <2>1, <2>2, <2>3 DEF TypeOK, ProgramType, Stages, Lives
  <1> QED BY <1>1, Invariance, PTL

(* When nothing is on its way the screen shows the table as it is: what is
   discarded for an error is discarded only when the program is about to end
   (ReadSnapshot, handleWSError; ADR-011). *)
THEOREM SettledIsCurrent == Spec => []SettledViewIsCurrent
  <1>1. ASSUME Inv, settled PROVE view.seq = seq
    <2>i. Stages /\ Screen /\ Caught /\ Fresh
      BY <1>1, Parts DEF LinkInv
    <2>1. /\ stage = "run" /\ fatal = "none" /\ subCh = <<>> /\ held = <<>> /\ life = "live" /\ ~lost
      BY <1>1 DEF settled
    <2>2. ~skipped
      BY <2>i, <2>1 DEF Caught
    <2>3. subscribed
      BY <2>i, <2>1 DEF Stages
    <2>4. shown = seq
      BY <2>i, <2>1, <2>2, <2>3, RangeEmpty DEF Fresh, Stages
    <2> QED BY <2>i, <2>1, <2>4 DEF Screen
  <1>2. Inv => SettledViewIsCurrent
    BY <1>1 DEF SettledViewIsCurrent
  <1> QED BY <1>2, Invariance, PTL

(* In the human's own turn, before its last second and with nothing on its
   way, no lock is left on the keyboard (handleSnapshot, handleTurnTick,
   handleWSError). *)
THEOREM NoLockOutlastsItsReason == Spec => []HumanCanAct
  <1>1. ASSUME Inv, settled, armed, ~paused, clock = "early" PROVE ~locked
    <2>i. /\ Stages /\ Screen /\ Caught /\ Fresh /\ Course /\ Locks /\ ProgramType
          /\ seq \in Nat /\ movedAt \in Nat /\ movedAt <= seq
      BY <1>1, Parts DEF LinkInv
    <2>1. /\ stage = "run" /\ fatal = "none" /\ subCh = <<>> /\ outCh = <<>> /\ up = <<>>
          /\ held = <<>> /\ sends = {} /\ life = "live" /\ ~lost
      BY <1>1 DEF settled
    <2>2. view.seq = seq
      <3>1. subscribed /\ ~skipped
        BY <2>i, <2>1 DEF Stages, Caught
      <3>2. shown = seq
        BY <2>i, <2>1, <3>1, RangeEmpty DEF Fresh, Stages
      <3> QED BY <2>i, <2>1, <3>2 DEF Screen
    <2>3. ~pending
      BY <2>1, RangeEmpty DEF pending, underWay
    <2>4. ~locks(view)
      <3>1. view.mine = mine /\ view.phase = phase
        BY <1>1, <2>i, <2>2 DEF Screen, shows
      <3>2. mine /\ phase \in Playable
        BY <1>1, <2>i DEF Course
      <3> QED BY <3>1, <3>2 DEF locks, ownTurn
    <2>5. ~timeoutDisabled
      BY <1>1, <2>i, <2>2 DEF Locks
    <2>6. ~inputDisabled /\ ~submitted
      BY <1>1, <2>i, <2>1, <2>2, <2>3, <2>4 DEF Locks
    <2> QED BY <2>5, <2>6 DEF locked
  <1>2. Inv => HumanCanAct
    BY <1>1 DEF HumanCanAct
  <1> QED BY <1>2, Invariance, PTL

(* No two actions chosen on the same snapshot are ever under way together,
   whatever the order of Enter, pause and resume and of the steps of their
   goroutines (Client.submitted, inputDisabled, SendCommand). *)
THEOREM AnswersOnce == Spec => []OneSubmissionPerView
  <1>1. ASSUME Inv PROVE OneSubmissionPerView
    <2>i. Single
      BY <1>1, Parts
    <2>1. {up[i] : i \in DOMAIN up} = Range(up)
      BY DEF Range
    <2> QED BY <2>i, <2>1 DEF OneSubmissionPerView, Single, underWay
  <1> QED BY <1>1, Invariance, PTL

(* While the session runs nothing is fatal but a full queue, a command that
   was stamped late enough to bear the number of a snapshot it was not
   chosen on, and a pause or resume that comes too late; one that comes in
   time is granted, unless a refused action has stopped the turn's timer
   (ClassifyError, SendCommand, handlePauseCmd; ADR-013). *)
THEOREM CrossingIsNotFatal == Spec => []RunningSessionIsNotFatal
  <1>1. ASSUME Inv PROVE RunningSessionIsNotFatal
    <2>i. LinkType /\ ProgramType /\ Chosen /\ Fatal
      BY <1>1, Parts
    <2>1. ASSUME life = "live"
          PROVE  \/ fatal \in {"none", "internal_error", "pause_not_allowed"}
                 \/ fatal = "illegal_move" /\ restamped
      BY <2>i, <2>1 DEF ProgramType, Fatal
    <2>2. ASSUME NEW c \in arrived, c.saw = seq, mine /\ phase \in Playable => armed
          PROVE  (c.type = "pause" => pausable) /\ (c.type = "resume" => paused)
      <3>1. c \in underWay
        BY <2>i, TailOfUp DEF arrived, underWay
      <3> QED BY <2>i, <2>2, <3>1 DEF Chosen, suits, pausable
    <2> QED BY <2>1, <2>2 DEF RunningSessionIsNotFatal
  <1> QED BY <1>1, Invariance, PTL

(* The program does not quit by itself before the final board has been on
   the screen, unless the session broke, dropped it, was joined too late to
   send it or made the client discard it (handleWSClose). *)
THEOREM QuitsOnFinalBoard == Spec => []FinalBoardIsShown
  <1>1. ASSUME Inv PROVE FinalBoardIsShown
    BY <1>1, Parts DEF FinalBoardIsShown, Closing
  <1> QED BY <1>1, Invariance, PTL

(* A countdown on the screen has a running timer (handleSnapshot,
   handleTurnTick). *)
THEOREM TimerDrivesCountdown == Spec => []CountdownIsDriven
  <1>1. ASSUME Inv PROVE CountdownIsDriven
    BY <1>1, Parts DEF CountdownIsDriven, Countdown
  <1> QED BY <1>1, Invariance, PTL

=============================================================================
