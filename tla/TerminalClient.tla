--------------------------- MODULE TerminalClient ---------------------------
(***************************************************************************)
(* cardcore-tui (cmd/cardcore-tui): one run of the program, over the       *)
(* connection of ClientLink.  Three kinds of goroutine work at once: the   *)
(* event loop, in which every handler of the model and of the Hearts       *)
(* client runs; the reader, which hands it one message at a time; and one  *)
(* goroutine for every command under way.                                  *)
(*                                                                         *)
(* Cards, cursor, selection and every text on the screen are left out: a   *)
(* key press at a hand may or may not be a valid choice.                   *)
(***************************************************************************)
EXTENDS ClientLink

CONSTANTS
    Keys    \* bound: key presses that do something

ASSUME KeysAssumption == Keys \in Nat

VARIABLES
    observer,        \* tuiConfig.observer
    stage,           \* where runGame is; closed: the program quit by itself
    held,            \* what the reader waits to hand over with p.Send
    view,            \* what the model knows of the newest snapshot
    deadline,        \* turnDeadline is set
    timeoutDisabled, inputDisabled, submitted,
    escConfirm, modalContinue,
    fatal,           \* none, or what raised modalFatal
    ticks,           \* turnTickMsg timers that run
    flashes,         \* flashTimeoutMsg timers that run
    sends,           \* commands with a goroutine of their own, not yet written
    keys,            \* key presses left
    clock,           \* the human turn: early, in its last second or due
    restamped        \* history: a command got a seq newer than its snapshot

input == <<deadline, timeoutDisabled, inputDisabled, submitted>>
modals == <<escConfirm, modalContinue, fatal>>
timers == <<ticks, flashes>>
program == <<observer, stage, held, view, input, modals, timers, sends, keys,
             clock, restamped>>
vars == <<link, program>>

-----------------------------------------------------------------------------
(* parseFlags, runMenu and runGame, up to the event loop. *)

(* With -session a token is given and the menu skipped; with -observe the  *)
(* menu is skipped.                                                        *)
Init ==
    /\ LinkInit
    /\ observer \in BOOLEAN
    /\ stage \in {"menu", "create", "connect"}
    /\ stage = "connect" => ~observer
    /\ life = IF stage = "connect" THEN "live" ELSE "none"
    /\ human = (stage = "connect")
    /\ held = <<>>
    /\ view = [seq |-> 0, phase |-> "connecting", mine |-> FALSE]
    /\ deadline = FALSE /\ timeoutDisabled = FALSE
    /\ inputDisabled = FALSE /\ submitted = FALSE
    /\ escConfirm = FALSE /\ modalContinue = FALSE /\ fatal = "none"
    /\ ticks = 0 /\ flashes = 0
    /\ sends = {}
    /\ keys = Keys
    /\ clock = "early"
    /\ restamped = FALSE

goes(to) ==
    /\ stage' = to
    /\ UNCHANGED <<held, view, input, modals, timers, sends, keys, clock, restamped>>

Menu ==
    /\ stage = "menu"
    /\ \/ observer' = ~observer /\ goes("menu")
       \/ UNCHANGED observer /\ goes("create")
       \/ UNCHANGED observer /\ goes("quit")
    /\ UNCHANGED link

CreateSession ==
    /\ stage = "create"
    /\ \/ life' = "draft" /\ goes("start")
       \/ life' = "none" /\ goes("failed")
    /\ human' = ~observer
    /\ UNCHANGED <<seq, table, cache, channels, up, conn, client, history, observer>>

StartSession ==
    /\ stage = "start"
    /\ \/ life' = "live" /\ goes("connect")
       \/ life' = "draft" /\ goes("failed")
    /\ UNCHANGED <<human, seq, table, cache, channels, up, conn, client, history, observer>>

Dial ==
    /\ stage = "connect"
    /\ \/ Connect /\ goes("run")
       \/ UNCHANGED link /\ goes("failed")
    /\ UNCHANGED observer

-----------------------------------------------------------------------------
(* startWSReader. *)

ReadMessage ==
    /\ stage = "run"
    /\ held = <<>>
    /\ \E m \in readable : ReadSnapshot(m) /\ held' = <<m>>
    /\ UNCHANGED <<session, up, client, history>>
    /\ UNCHANGED <<observer, stage, view, input, modals, timers, sends, keys, clock,
                   restamped>>

Discard ==
    /\ stage = "run"
    /\ held = <<>>
    /\ DiscardSnapshot
    /\ UNCHANGED program

ReadClose ==
    /\ stage = "run"
    /\ held = <<>>
    /\ \E code \in closeCodes : readsClose(code) /\ held' = <<[type |-> "close", code |-> code]>>
    /\ UNCHANGED <<session, up, conn, client, history>>
    /\ UNCHANGED <<observer, stage, view, input, modals, timers, sends, keys, clock,
                   restamped>>

-----------------------------------------------------------------------------
(* Update. *)

receives(type, m) ==
    /\ stage = "run"
    /\ held # <<>>
    /\ m = Head(held) /\ m.type = type
    /\ held' = <<>>
    /\ UNCHANGED <<link, observer, keys, clock, restamped, sends>>

incoming == IF held = <<>> THEN {} ELSE {Head(held)}

ownTurn(v) == v.phase \in Playable /\ v.mine

locksUnlessPlaying(v) == ~(v.phase = "playing" /\ v.mine) \* mutant: passing is forgotten

locks(v) == v.phase # "paused" /\ ~ownTurn(v)

HandleSnapshot ==
    \E m \in incoming :
        /\ receives("snapshot", m)
        /\ view' = [seq |-> m.seq, phase |-> m.phase, mine |-> m.mine]
        /\ submitted' = FALSE
        /\ timeoutDisabled' = FALSE
        /\ deadline' = ownTurn(view')
        /\ inputDisabled' = locks(view')
        /\ ticks' = IF deadline' THEN ticks + 1 ELSE ticks
        /\ UNCHANGED <<stage, modals, flashes>>

waits(code) == code \in {"out_of_turn", "wrong_phase", "game_paused"}

(* ClassifyError and handleWSError. *)
HandleWSError ==
    \E m \in incoming :
        /\ receives("error", m)
        /\ submitted' = (submitted /\ ~(waits(m.code) \/ m.code = "stale_seq"))
        /\ modalContinue' = (modalContinue \/ waits(m.code))
        /\ fatal' = IF waits(m.code) \/ m.code \in {"stale_seq", "game_over"}
                    THEN fatal ELSE m.code
        /\ UNCHANGED <<stage, view, deadline, timeoutDisabled, inputDisabled, escConfirm,
                       timers>>

(* handleWSClose. *)
HandleWSClose ==
    \E m \in incoming :
        /\ receives("close", m)
        /\ fatal' = IF m.code = "internal" THEN "close" ELSE fatal
        /\ stage' = IF m.code = "internal" \/ view.phase = "game_over" THEN "run" ELSE "closed"
        /\ UNCHANGED <<view, input, escConfirm, modalContinue, timers>>

(* What is left of the turn the screen shows.  If the server has moved on, *)
(* it may be anything.                                                     *)
remaining == IF view.seq >= movedAt THEN {clock} ELSE {"early", "cutoff", "due"}

tickStopsAtCutoff(left1) == left1 # "early" \* mutant: the last second is not ticked

tickStops(left1) == ~deadline \/ left1 = "due"

HandleTurnTick ==
    /\ stage = "run"
    /\ ticks > 0
    /\ \E left1 \in remaining :
        /\ ticks' = IF tickStops(left1) THEN ticks - 1 ELSE ticks
        /\ deadline' = (deadline /\ left1 # "due")
        /\ timeoutDisabled' = (timeoutDisabled \/ (deadline /\ left1 # "early"))
        /\ inputDisabled' =
             \/ inputDisabled
             \/ deadline /\ (left1 = "due" \/ (left1 = "cutoff" /\ ~timeoutDisabled))
    /\ UNCHANGED <<link, observer, stage, held, view, submitted, modals, flashes, sends,
                   keys, clock, restamped>>

FlashTimeout ==
    /\ stage = "run"
    /\ flashes > 0
    /\ flashes' = flashes - 1
    /\ escConfirm' = FALSE
    /\ UNCHANGED <<link, observer, stage, held, view, input, modalContinue, fatal, ticks,
                   sends, keys, clock, restamped>>

-----------------------------------------------------------------------------
(* handleKeyPress.  A key that a modal swallows is not counted.            *)

types ==
    /\ stage = "run"
    /\ keys > 0
    /\ keys' = keys - 1
    /\ UNCHANGED <<link, observer, held, view, ticks, clock, restamped>>

heard == types /\ fatal = "none" /\ ~modalContinue

(* ctrl+c, or Enter where the program is to be left. *)
Quit ==
    /\ types
    /\ stage' = "quit"
    /\ UNCHANGED <<input, modals, flashes, sends>>

DismissModal ==
    /\ types
    /\ fatal = "none" /\ modalContinue
    /\ modalContinue' = FALSE
    /\ UNCHANGED <<stage, input, escConfirm, fatal, flashes, sends>>

PressEscape ==
    /\ heard
    /\ escConfirm' = ~escConfirm
    /\ flashes' = IF escConfirm THEN flashes ELSE flashes + 1
    /\ UNCHANGED <<stage, input, modalContinue, fatal, sends>>

(* nextActionID counts commands; what matters is that ids differ.          *)
sendCommandCmd(type) ==
    sends' = sends \cup {newCommand(type, Keys - keys, view.seq, TRUE)}

flashed == flashes' = flashes + 1 /\ UNCHANGED <<input, sends>>

TogglePause ==
    /\ heard
    /\ \/ /\ view.phase # "paused" /\ ~ownTurn(view)
          /\ flashed
       \/ /\ view.phase = "paused" \/ ownTurn(view)
          /\ sendCommandCmd(IF view.phase = "paused" THEN "resume" ELSE "pause")
          /\ inputDisabled' = (inputDisabled \/ view.phase # "paused")
          /\ UNCHANGED <<flashes, deadline, timeoutDisabled, submitted>>
    /\ escConfirm' = FALSE
    /\ UNCHANGED <<stage, modalContinue, fatal>>

lockedInLastSecond == timeoutDisabled \* mutant: Enter is taken again before the answer

locked == timeoutDisabled \/ inputDisabled \/ submitted

(* Enter at a hand, handlePassingKey and handlePlayingKey: the wrong       *)
(* number of cards, or a card that may not be played, is flashed.          *)
Submit ==
    /\ heard
    /\ ~observer
    /\ ~escConfirm
    /\ view.phase \in Playable
    /\ ~locked
    /\ \/ flashed
       \/ /\ view.phase = "playing" => view.mine
          /\ sendCommandCmd(IF view.phase = "passing" THEN "pass_cards" ELSE "play_card")
          /\ submitted' = TRUE
          /\ inputDisabled' = TRUE
          /\ deadline' = FALSE
          /\ timeoutDisabled' = FALSE
          /\ UNCHANGED flashes
    /\ UNCHANGED <<stage, modals>>

PressOther ==
    /\ heard
    /\ escConfirm
    /\ escConfirm' = FALSE
    /\ UNCHANGED <<stage, input, modalContinue, fatal, flashes, sends>>

(* The goroutine of a command.  SendCommand stamps it with what the reader *)
(* has read by then, which may be newer than the snapshot it was chosen on,*)
(* and then writes it; the reader is not held up in between.               *)
StampCommand ==
    /\ stage = "run"
    /\ \E c \in sends :
        /\ c.seq = 0
        /\ UNCHANGED link
        /\ sends' = (sends \ {c}) \cup {stamp(c)}
        /\ restamped' = (restamped \/ maxSeen > c.saw)
    /\ UNCHANGED <<observer, stage, held, view, input, modals, timers, keys, clock>>

WriteCommand ==
    /\ stage = "run"
    /\ subscribed
    /\ UNCHANGED <<session, channels, conn, client, history>>
    /\ UNCHANGED <<observer, stage, held, view, input, modals, timers, keys, clock,
                   restamped>>
    /\ \E c \in sends :
        /\ c.seq # 0
        /\ sends' = sends \ {c}
        /\ write(c)

WriteFails ==
    /\ stage = "run"
    /\ life \in {"over", "broken"}
    /\ \E c \in sends : c.seq # 0 /\ sends' = sends \ {c}
    /\ inputDisabled' = FALSE
    /\ submitted' = FALSE
    /\ flashes' = flashes + 1
    /\ UNCHANGED <<link, observer, stage, held, view, deadline, timeoutDisabled, modals,
                   ticks, keys, clock, restamped>>

-----------------------------------------------------------------------------
(* The session and the clock, watched until the program has ended. *)

running == stage \notin {"quit", "closed", "failed"}

TimePasses ==
    /\ running
    /\ life = "live" /\ ~paused
    /\ mine /\ phase \in Playable
    /\ clock # "due"
    /\ clock' = IF clock = "early" THEN "cutoff" ELSE "due"
    /\ UNCHANGED <<link, observer, stage, held, view, input, modals, timers, sends, keys,
                   restamped>>

Server ==
    /\ running
    /\ Handlers \/ (clock = "due" /\ TurnTimeout) \/ Break
    /\ clock' = IF movedAt' = movedAt THEN clock ELSE "early"
    /\ UNCHANGED <<observer, stage, held, view, input, modals, timers, sends, keys,
                   restamped>>

Setup == Menu \/ CreateSession \/ StartSession \/ Dial
Reader == ReadMessage \/ Discard \/ ReadClose
Update ==
    \/ HandleSnapshot \/ HandleWSError \/ HandleWSClose
    \/ HandleTurnTick \/ FlashTimeout
HandleKeyPress ==
    \/ Quit \/ DismissModal \/ PressEscape
    \/ TogglePause \/ Submit \/ PressOther

Next ==
    \/ Setup \/ Reader \/ Update \/ HandleKeyPress
    \/ StampCommand \/ WriteCommand \/ WriteFails
    \/ Server \/ TimePasses

Spec == Init /\ [][Next]_vars

-----------------------------------------------------------------------------
(* Properties. *)

(* Every variable has its type, and the reader holds one message at most.  *)
TypeOK ==
    /\ life \in {"none", "draft", "live", "grace", "over", "broken"}
    /\ entry \in {"registered", "drained", "stranded"}
    /\ human => ~observer
    /\ Len(subCh) <= SubCap
    /\ view.seq <= maxSeen /\ maxSeen <= seq
    /\ Len(held) <= 1
    /\ fatal \in {"none", "close", "pause_not_allowed", "illegal_move", "internal_error"}
    /\ \A s \in sends : s.type \in Commands /\ s.saw <= view.seq
    /\ ticks \in Nat /\ flashes \in 0 .. Keys

settled ==
    /\ stage = "run" /\ fatal = "none"
    /\ subCh = <<>> /\ outCh = <<>> /\ up = <<>>
    /\ held = <<>> /\ sends = {}
    /\ life = "live"
    /\ ~lost

(* When nothing is on its way the screen shows the table as it is: errors, *)
(* replies and broadcasts overtake each other, but what is discarded for   *)
(* an error is discarded only when the program is about to end (ADR-011).  *)
SettledViewIsCurrent == settled => view.seq = seq

(* In the human's own turn, before its last second, the keyboard is live   *)
(* whatever was pressed, refused, paused, resumed or dismissed before:     *)
(* none of the three locks outlasts its reason (model.handleSnapshot).  A  *)
(* turn whose timer a refused command has stopped is left out: no clock    *)
(* says when its last second begins.                                       *)
HumanCanAct ==
    settled /\ armed /\ ~paused /\ clock = "early" => ~locked

(* A snapshot on the screen is answered once: Enter, pause and resume in   *)
(* any order never send two actions chosen on the same snapshot, as long   *)
(* as writes succeed (Client.submitted, "preventing duplicate submissions").*)
OneSubmissionPerView ==
    \A c, d \in sends \cup {up[i] : i \in DOMAIN up} :
        life = "live" /\ {c.type, d.type} \subseteq Gameplay /\ c.saw = d.saw => c.id = d.id

(* While the session runs nothing is fatal but a full command queue, an    *)
(* action written so late that it bears the seq of a later snapshot, and a *)
(* pause or resume that comes too late: asked for on the table the session *)
(* is still at, it is granted, unless a refused action has stopped the     *)
(* turn's timer.  Other commands that cross the timer are told to resync   *)
(* or to wait (ClassifyError, ADR-013).                                    *)
RunningSessionIsNotFatal ==
    life = "live" =>
        /\ \/ fatal \in {"none", "internal_error", "pause_not_allowed"}
           \/ fatal = "illegal_move" /\ restamped
        /\ \A c \in arrived :
            c.saw = seq /\ (mine /\ phase \in Playable => armed) =>
                /\ c.type = "pause" => pausable
                /\ c.type = "resume" => paused

(* A program that quits by itself has shown the final board, or the        *)
(* session did not get to one, or had to drop it, or was joined too late   *)
(* to send it, or a command that came after the end made the client        *)
(* discard it (handleWSClose).                                             *)
FinalBoardIsShown ==
    stage = "closed" => life = "broken" \/ lost \/ skipped \/ entry # "registered"

(* A countdown on the screen has a timer that drives it, so that the       *)
(* input is locked before the server plays (handleTurnTick).               *)
CountdownIsDriven == deadline /\ stage = "run" => ticks > 0

=============================================================================
