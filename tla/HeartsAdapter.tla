--------------------------- MODULE HeartsAdapter ---------------------------
(***************************************************************************)
(* The Hearts game adapter (internal/server/session/games/hearts) and the  *)
(* snapshots the Hearts view (internal/server/view/games/hearts) renders   *)
(* from it.  The adapter turns engine phases into step outcomes, keeps the *)
(* turn during passing, which the engine does not, and marks pauses and    *)
(* fresh deals for display.                                                *)
(*                                                                         *)
(* The engine (module cardcore) is outside the repository: deals, passes,  *)
(* card plays, trick resolution and scoring are modelled from the calls    *)
(* the adapter makes and the state the view reads.  Cards are left out: a  *)
(* trick is its number of cards and the seat whose card is the highest of  *)
(* the led suit so far.  An action that is refused changes nothing and is  *)
(* no step.  The session drives the adapter as SessionLoop does: its calls *)
(* of processTurns are kept from the reading of Turn to AIPlay, since a    *)
(* command may be handled and further calls made in between.  It           *)
(* broadcasts what the view renders after every step.                      *)
(***************************************************************************)
EXTENDS Integers, Sequences, FiniteSets

CONSTANTS
    NumPlayers,   \* hearts.NumPlayers
    HandSize,     \* hearts.HandSize: tricks of a round
    HumanSeats,   \* seats whose moves are commands; timeouts play for them too
    SeatConfigs,  \* seat lists asked for: sequences of [type, aiType]
    MaxRounds     \* bound on the rounds of a game

Seats == 0 .. NumPlayers - 1

AITypes == {"random", "heuristic", "pimc"}

ASSUME TableAssumption ==
    /\ NumPlayers \in Nat \ {0, 1}
    /\ HumanSeats \subseteq Seats

ASSUME BoundAssumption ==
    /\ HandSize \in Nat \ {0}
    /\ MaxRounds \in Nat \ {0}

ASSUME ConfigAssumption ==
    \A c \in SeatConfigs : c \in Seq([type : {"human", "ai"}, aiType : AITypes \cup {"", "other"}])

VARIABLES
    players,      \* per seat, the AI that plays for it
    phase,        \* the engine's phase
    turn,         \* the engine's Turn
    passed,       \* seats whose pass the engine holds
    count,        \* cards of the trick on the table
    best,         \* seat winning that trick so far
    tricks,       \* tricks resolved this round
    round,        \* rounds ended
    scored,       \* rounds whose points are in the scores
    previous,     \* scored when this round was dealt: previousScores
    paused,       \* the adapter's UX pause: paused
    dealPending,
    isPaused,     \* the session's pause of the game
    shown,        \* the last snapshot broadcast
    paced,        \* calls of processTurns that read Turn and have yet to play, innermost first
    jumped,       \* history: some seat passed out of turn
    repassed      \* history: some seat passed a second time

engine   == <<phase, turn, passed, count, best, tricks, round, scored>>
pauses   == <<paused, dealPending>>
history  == <<jumped, repassed>>
vars     == <<players, engine, previous, pauses, isPaused, shown, paced, history>>

Phases     == {"pass", "play", "score", "end"}
WirePhases == {"deal", "passing", "playing", "paused", "trick_complete", "round_complete",
               "game_over"}
Snapshot == [phase : WirePhases, turn : Seats, winner : Seats \cup {-1},
             legal : SUBSET Seats, trickNumber : Nat]

-----------------------------------------------------------------------------
(* Configuration. *)

(* A human seat without an ai_type is played by "random" on timeouts. *)
fallback(sc) == IF sc.type # "ai" /\ sc.aiType = "" THEN "random" ELSE sc.aiType

validateConfig(seats) ==
    /\ Len(seats) = NumPlayers
    /\ \A i \in 1 .. Len(seats) : fallback(seats[i]) \in AITypes

newPlayers(seats) == [s \in Seats |-> fallback(seats[s + 1])]

-----------------------------------------------------------------------------
(* The view.  Each operator reads a ViewState: the engine and the flags. *)

buildPhaseNoTrick(ph, p, deal, ux) == \* mutant: TrickComplete is not looked at
    CASE ux -> "paused"
      [] ~ux /\ p = "roundComplete" -> "round_complete"
      [] ~ux /\ p # "roundComplete" /\ deal -> "deal"
      [] OTHER -> [pass |-> "passing", play |-> "playing", score |-> "round_complete",
                   end |-> "game_over"][ph]

buildPhase(ph, p, deal, ux) ==
    CASE ux -> "paused"
      [] ~ux /\ p = "trickComplete" -> "trick_complete"
      [] ~ux /\ p = "roundComplete" -> "round_complete"
      [] ~ux /\ p = "none" /\ deal -> "deal"
      [] OTHER -> [pass |-> "passing", play |-> "playing", score |-> "round_complete",
                   end |-> "game_over"][ph]

(* Seats whose own snapshot lists actions: everybody's hand while passing,
   the legal moves of the seat on turn while playing. *)
buildLegalActions(ph, t) ==
    CASE ph = "pass" -> Seats
      [] ph = "play" -> {t}
      [] OTHER -> {}

trickNumber(n) == IF n + 1 < HandSize THEN n + 1 ELSE HandSize

playerView(ph, t, p, deal, ux, b, n) ==
    [phase       |-> buildPhase(ph, p, deal, ux),
     turn        |-> IF p = "trickComplete" THEN b ELSE t,
     winner      |-> IF p = "trickComplete" THEN b ELSE -1,
     legal       |-> IF deal THEN {} ELSE buildLegalActions(ph, t),
     trickNumber |-> trickNumber(n)]

(* The session broadcasts the state a step has led to. *)
broadcast ==
    shown' = playerView(phase', turn', paused', dealPending', isPaused', best', tricks')

-----------------------------------------------------------------------------
(* The engine, as the adapter uses it.  Its assignments to Turn are the ones
   the adapter's comments name: the holder of the two of clubs leads the first
   trick, the winner of a trick leads the next. *)

next(s) == (s + 1) % NumPlayers

playStarts ==
    /\ phase' = "play"
    /\ turn' \in Seats

(* SetPass of a seat that has not passed; the last pass starts the play. *)
SetPass(seat) ==
    /\ phase = "pass"
    /\ seat \notin passed
    /\ passed' = passed \cup {seat}
    /\ UNCHANGED <<count, best, tricks, round, scored>>

(* A pass of a seat that has passed is refused, or replaces the first. *)
SetPassAgain(seat) ==
    /\ phase = "pass"
    /\ seat \in passed
    /\ UNCHANGED <<passed, count, best, tricks, round, scored>>

(* PlayCard of the seat on turn.  Nothing says where Turn is while a full
   trick lies on the table. *)
PlayCard(seat) ==
    /\ phase = "play" /\ count < NumPlayers /\ seat = turn
    /\ count' = count + 1
    /\ best' \in IF count = 0 THEN {seat} ELSE {best, seat}
    /\ turn' \in IF count' = NumPlayers THEN Seats ELSE {next(turn)}
    /\ UNCHANGED <<phase, passed, tricks, round, scored>>

ResolveTrick ==
    /\ count' = 0
    /\ turn' = best
    /\ tricks' = tricks + 1
    /\ IF tricks' = HandSize
       THEN phase' = "score" /\ scored' = scored + 1
       ELSE UNCHANGED <<phase, scored>>
    /\ UNCHANGED <<passed, best, round>>

(* EndRound either ends the game or leaves it to be dealt again. *)
gameOver == phase' = "end" /\ UNCHANGED <<turn, passed, count, best, tricks, scored>>

-----------------------------------------------------------------------------
(* The adapter. *)

staysOnTurn == turn' = turn \* mutant: a pass leaves the turn where it is

advanceTurn == turn' = next(turn)

(* handlePassCards and AIPlay's passing branch share this tail. *)
afterPass == IF passed' = Seats THEN playStarts ELSE phase' = "pass" /\ advanceTurn

pass(seat) ==
    /\ SetPass(seat) \/ SetPassAgain(seat)
    /\ afterPass
    /\ UNCHANGED pauses

pauseWhen(complete) == paused' = IF complete THEN "trickComplete" ELSE paused

playCard(seat) ==
    LET willCompleteTrick == count = NumPlayers - 1 IN
    /\ PlayCard(seat)
    /\ pauseWhen(willCompleteTrick)
    /\ UNCHANGED dealPending

inProgressAnyDeal == \* mutant: moves are made before the deal is shown
    phase # "end" /\ paused = "none" /\ ~isPaused

(* The session calls these in a game in progress, not paused, whose deal it
   has shown. *)
inProgress == phase # "end" /\ paused = "none" /\ ~dealPending /\ ~isPaused

notePass(seat) ==
    /\ jumped' = (jumped \/ (phase = "pass" /\ seat # turn))
    /\ repassed' = (repassed \/ (phase = "pass" /\ seat \in passed))

(* A call of processTurns runs, and takes no command, until it meets a human
   seat or the pacing of an AI seat.  A command handled in the pacing calls
   it again before the seat read there plays. *)
free == paced # << >> => Head(paced).taken

(* processTurns reads Turn and paces the AI seat it finds. *)
Pace ==
    /\ inProgress
    /\ free
    /\ turn \notin HumanSeats
    /\ paced' = << [seat |-> turn, taken |-> FALSE] >> \o paced
    /\ UNCHANGED <<players, engine, previous, pauses, isPaused, shown, history>>

(* The select loop of a human turn takes commands, a pacing takes one. *)
takesCommand ==
    IF paced = << >> THEN turn \in HumanSeats /\ paced' = paced
    ELSE ~Head(paced).taken /\ paced' = [paced EXCEPT ![1].taken = TRUE]

(* A pass is accepted from any seat, a card from the seat on turn. *)
HandleAction(seat) ==
    /\ inProgress
    /\ takesCommand
    /\ pass(seat) \/ playCard(seat)
    /\ notePass(seat)
    /\ UNCHANGED <<players, previous, isPaused>>
    /\ broadcast

(* The seat a call of processTurns has read, once the pacing elapsed or the
   call inside it stopped at a human seat; or a human seat that timed out. *)
playsNext(seat) ==
    \/ /\ paced # << >> /\ seat = Head(paced).seat
       /\ Head(paced).taken => turn \in HumanSeats
       /\ paced' = Tail(paced)
    \/ /\ paced = << >> /\ turn \in HumanSeats /\ seat = turn
       /\ UNCHANGED paced

AIPlay(seat) ==
    /\ inProgress
    /\ playsNext(seat)
    /\ pass(seat) \/ playCard(seat)
    /\ notePass(seat)
    /\ UNCHANGED <<players, previous, isPaused>>
    /\ broadcast

(* Resume resolves the trick, and pauses again when that ended the round. *)
ResumeTrick ==
    /\ paused = "trickComplete"
    /\ ResolveTrick
    /\ paused' = IF phase' = "score" THEN "roundComplete" ELSE "none"
    /\ UNCHANGED <<players, previous, dealPending, isPaused, paced, history>>
    /\ broadcast

dealKeepingTurn == \* mutant: Turn is left where the last round ended
    /\ \/ phase' = "pass" /\ turn' = turn
       \/ playStarts
    /\ passed' = {} /\ count' = 0 /\ tricks' = 0
    /\ UNCHANGED <<best, scored>>

(* A round without passing starts with the holder of the two of clubs; before
   passing the adapter sets Turn to 0. *)
deal ==
    /\ \/ phase' = "pass" /\ turn' = 0
       \/ playStarts
    /\ passed' = {} /\ count' = 0 /\ tricks' = 0
    /\ UNCHANGED <<best, scored>>

capturesNothing == UNCHANGED previous \* mutant: previousScores of the first round

captures == previous' = scored

ResumeRound ==
    /\ paused = "roundComplete"
    /\ paused' = "none"
    /\ round' = round + 1
    /\ \/ gameOver /\ UNCHANGED <<previous, dealPending>>
       \/ round + 1 < MaxRounds /\ deal /\ captures /\ dealPending' = TRUE
    /\ UNCHANGED <<players, isPaused, paced, history>>
    /\ broadcast

(* What DisplayDelay returns: the kind of delay. *)
delayKind ==
    IF dealPending THEN "deal"
    ELSE IF paused = "trickComplete" THEN "trick"
    ELSE IF paused = "roundComplete" THEN "round" ELSE "none"

keepsDealPending == UNCHANGED dealPending \* mutant: the deal is not consumed

consumesDeal == dealPending' = FALSE

(* DisplayDelay consumes the deal; when its window closes the session
   broadcasts the snapshot that can be acted on. *)
DisplayDelay ==
    /\ dealPending
    /\ consumesDeal
    /\ UNCHANGED <<players, engine, previous, paused, isPaused, paced, history>>
    /\ broadcast

(* The session's pause: SetPaused before a broadcast, in the select loop of a
   human turn. *)
SetPaused(p) ==
    /\ phase \in {"pass", "play"} /\ paused = "none" /\ ~dealPending /\ turn \in HumanSeats
    /\ paced = << >>
    /\ isPaused = ~p
    /\ isPaused' = p
    /\ UNCHANGED <<players, engine, previous, pauses, paced, history>>
    /\ broadcast

-----------------------------------------------------------------------------
(* NewGameAdapter: validated seats, an AI for each, and a first deal. *)
Init ==
    /\ \E seats \in SeatConfigs : validateConfig(seats) /\ players = newPlayers(seats)
    /\ \/ phase = "pass" /\ turn = 0
       \/ phase = "play" /\ turn \in Seats
    /\ passed = {} /\ count = 0 /\ best = 0 /\ tricks = 0
    /\ round = 0 /\ scored = 0 /\ previous = 0
    /\ paused = "none" /\ dealPending = TRUE /\ isPaused = FALSE
    /\ shown = playerView(phase, turn, paused, dealPending, isPaused, best, tricks)
    /\ paced = << >> /\ jumped = FALSE /\ repassed = FALSE

Resume == ResumeTrick \/ ResumeRound

Next ==
    \/ \E s \in HumanSeats : HandleAction(s)
    \/ Pace
    \/ \E s \in Seats : AIPlay(s)
    \/ Resume
    \/ DisplayDelay
    \/ \E p \in BOOLEAN : SetPaused(p)

Spec == Init /\ [][Next]_vars

(* The session paces every AI seat it meets, calls AIPlay for it and for a
   human seat whose turn times out, resumes every pause and shows every deal. *)
Fairness ==
    /\ WF_vars(Pace) /\ WF_vars(\E s \in Seats : AIPlay(s))
    /\ WF_vars(Resume) /\ WF_vars(DisplayDelay)

FairSpec == Spec /\ Fairness

-----------------------------------------------------------------------------
(* Correctness. *)

EngineOK ==
    /\ phase \in Phases /\ turn \in Seats /\ passed \subseteq Seats
    /\ count \in 0 .. NumPlayers /\ best \in Seats /\ tricks \in 0 .. HandSize
    /\ round \in Nat /\ scored \in Nat

(* Every seat has an AI that can play for it, the human ones included. *)
TypeOK ==
    /\ players \in [Seats -> AITypes]
    /\ EngineOK
    /\ previous \in Nat
    /\ paused \in {"none", "trickComplete", "roundComplete"}
    /\ dealPending \in BOOLEAN /\ isPaused \in BOOLEAN
    /\ jumped \in BOOLEAN /\ repassed \in BOOLEAN
    /\ paced \in Seq([seat : Seats, taken : BOOLEAN])
    /\ shown \in Snapshot

(* The adapter's two flags agree with the engine: it waits for Resume exactly
   while a full trick lies on the table or a round is scored, and a deal is
   pending only over an untouched hand and never under a pause, which the
   order of buildPhase's tests takes for granted. *)
PausesFollowTable ==
    /\ paused = "trickComplete" <=> phase = "play" /\ count = NumPlayers
    /\ paused = "roundComplete" <=> phase = "score"
    /\ dealPending => paused = "none" /\ passed = {} /\ count = 0 /\ tricks = 0
    /\ isPaused => paused = "none" /\ ~dealPending /\ phase \in {"pass", "play"}

(* As long as everybody passes in turn, the adapter's turn is at a seat that
   still has to pass, in every round, so AIPlay is never asked for a second
   pass and the passing ends after one lap. *)
TurnHasNotPassed ==
    phase = "pass" /\ ~jumped => turn \notin passed /\ passed = 0 .. turn - 1

canMove(seat) ==
    \/ phase = "pass" /\ seat \notin passed
    \/ phase = "play" /\ seat = turn

(* processTurns reads a seat, lets a command pass out of turn while it paces,
   and then plays the seat it read, though the turn has moved and, when it is
   an AI's again, another call has paced and played inside the first.  The
   seat still has a move to make: its cards are not passed, and the play, in
   which it would be refused and end the session, has not begun.  Excepted
   is a game in which a seat passed twice, which the adapter leaves to the
   engine to refuse. *)
StaleSeatCanPlay == ~repassed => \A i \in DOMAIN paced : canMove(paced[i].seat)

delayIsOfShownPhase ==
    /\ shown.phase = "deal" <=> delayKind = "deal"
    /\ shown.phase = "trick_complete" <=> delayKind = "trick"
    /\ shown.phase = "round_complete" <=> delayKind = "round"

pointsAreOfOneRound ==
    scored = previous + (IF shown.phase = "round_complete" THEN 1
                         ELSE IF phase = "end" THEN 1 ELSE 0)

actionableIsTrue ==
    /\ shown.phase \in {"passing", "playing"} =>
        shown.turn = turn /\ shown.turn \in shown.legal /\ inProgress
    /\ shown.phase = "deal" => shown.legal = {}
    /\ shown.phase \in {"playing", "trick_complete"} => shown.trickNumber = tricks + 1
    /\ shown.trickNumber <= HandSize

(* What clients are shown is so, although it is put together from flags that
   Resume and advance change one by one: the delay the session waits is that
   of the phase on display, which DisplayDelay and buildPhase find by testing
   the flags in different orders; the scores of round_complete differ from
   previousScores by exactly the round that ended; and an actionable snapshot
   names the seat and the trick the engine waits for, a deal offers nothing. *)
ShownIsTrue == delayIsOfShownPhase /\ pointsAreOfOneRound /\ actionableIsTrue

follows(p, q) ==
    q \in [deal           |-> {"passing", "playing"},
           passing        |-> {"passing", "playing", "paused"},
           playing        |-> {"playing", "trick_complete", "paused"},
           paused         |-> {"passing", "playing"},
           trick_complete |-> {"playing", "round_complete"},
           round_complete |-> {"deal", "game_over"},
           game_over      |-> {}][p]

(* The phases clients see follow the protocol: every round opens with one deal
   and then an actionable phase, every trick is shown complete, its winner
   leads the next one, and nothing follows game_over. *)
PhasesFollowProtocol ==
    [][/\ follows(shown.phase, shown'.phase)
       /\ shown.phase = "trick_complete" /\ shown'.phase = "playing" =>
            shown'.turn = shown.winner]_vars

outcome ==
    IF paused # "none" THEN "StepPause"
    ELSE IF phase = "end" THEN "StepFinished" ELSE "StepContinue"

(* The adapter keeps the contract the session goroutine is written against. *)
Contract == INSTANCE GameContract

ContractSpec == Contract!Spec

(* With turns that time out, a game in which everybody passes in turn ends,
   unless it is paused again and again: the adapter never leaves the session
   with a turn, a pause or a deal it cannot get past. *)
GameEnds == <>(phase = "end" \/ jumped) \/ []<>isPaused

=============================================================================
