------------------------ MODULE HeartsAdapter_proofs ------------------------
(***************************************************************************)
(* The adapter's promises to the session goroutine and to the clients, for *)
(* every number of players, hand size and set of human seats.              *)
(*                                                                         *)
(* The snapshot on display is always the one the view renders from the     *)
(* present state (Shown), so that whatever is said of snapshots is said of *)
(* that state; Table ties the adapter's flags to the engine.  Calls says   *)
(* of the calls of processTurns which of their seats have yet to pass.     *)
(***************************************************************************)
EXTENDS HeartsAdapter, FiniteSetTheorems, TLAPS

(* No trick is open before the play, every trick of it has a number, and only
   hands that are to be played are dealt. *)
Table ==
    /\ PausesFollowTable
    /\ phase = "pass" => count = 0 /\ tricks = 0
    /\ phase = "play" => tricks < HandSize
    /\ dealPending => phase \in {"pass", "play"}

Shown == shown = playerView(phase, turn, paused, dealPending, isPaused, best, tricks)

Points == scored = previous + (IF phase \in {"score", "end"} THEN 1 ELSE 0)

Flags ==
    /\ paused \in {"none", "trickComplete", "roundComplete"}
    /\ dealPending \in BOOLEAN /\ isPaused \in BOOLEAN /\ jumped \in BOOLEAN

-----------------------------------------------------------------------------
(* What the engine's steps do to its own state. *)

LEMMA NextSeat == ASSUME NEW s \in Seats PROVE next(s) \in Seats
BY TableAssumption DEF next, Seats

LEMMA PassEngine ==
    ASSUME EngineOK, NEW seat \in Seats, SetPass(seat) \/ SetPassAgain(seat), afterPass
    PROVE  /\ phase = "pass" /\ phase' \in {"pass", "play"}
           /\ EngineOK'
           /\ count' = count /\ tricks' = tricks /\ scored' = scored /\ best' = best
BY NextSeat DEF EngineOK, SetPass, SetPassAgain, afterPass, playStarts, advanceTurn, Phases

LEMMA CardEngine ==
    ASSUME EngineOK, NEW seat \in Seats, PlayCard(seat)
    PROVE  /\ phase = "play" /\ phase' = "play"
           /\ EngineOK'
           /\ count < NumPlayers /\ count' = count + 1
           /\ tricks' = tricks /\ scored' = scored /\ passed' = passed
<1>1. phase = "play" /\ phase' = "play" /\ count < NumPlayers /\ count' = count + 1 /\ tricks' = tricks
      /\ scored' = scored /\ passed' = passed /\ round' = round
  BY DEF PlayCard
<1>2. best' \in Seats
  <2>1. best' \in {seat} \/ best' \in {best, seat}
    BY DEF PlayCard
  <2> QED
    BY <2>1 DEF EngineOK
<1>3. turn' \in Seats
  <2>1. turn' \in Seats \/ turn' = next(turn)
    BY DEF PlayCard
  <2> QED
    BY <2>1, NextSeat DEF EngineOK
<1>4. count' \in 0 .. NumPlayers
  BY <1>1, TableAssumption DEF EngineOK
<1> QED
  BY <1>1, <1>2, <1>3, <1>4 DEF EngineOK

LEMMA ResolveEngine ==
    ASSUME EngineOK, ResolveTrick, phase = "play", tricks < HandSize
    PROVE  /\ EngineOK'
           /\ count' = 0 /\ tricks' = tricks + 1 /\ turn' = best /\ best' = best /\ passed' = passed
           /\ \/ tricks' = HandSize /\ phase' = "score" /\ scored' = scored + 1
              \/ tricks' < HandSize /\ phase' = "play" /\ scored' = scored
<1>1. tricks' = tricks + 1 /\ tricks' \in 0 .. HandSize
  BY BoundAssumption DEF ResolveTrick, EngineOK
<1>2. \/ tricks' = HandSize /\ phase' = "score" /\ scored' = scored + 1
      \/ tricks' < HandSize /\ phase' = "play" /\ scored' = scored
  BY <1>1, BoundAssumption DEF ResolveTrick
<1>3. 0 \in 0 .. NumPlayers
  BY TableAssumption
<1> QED
  BY <1>1, <1>2, <1>3 DEF ResolveTrick, EngineOK, Phases

LEMMA RoundEngine ==
    ASSUME EngineOK, round' = round + 1, gameOver \/ deal
    PROVE  /\ EngineOK'
           /\ scored' = scored
           /\ \/ phase' = "end" /\ turn' = turn /\ count' = count /\ tricks' = tricks /\ passed' = passed
              \/ phase' \in {"pass", "play"} /\ passed' = {} /\ count' = 0 /\ tricks' = 0
<1>1. 0 \in Seats /\ 0 \in 0 .. NumPlayers /\ 0 \in 0 .. HandSize
  BY TableAssumption, BoundAssumption DEF Seats
<1>2. round' \in Nat
  BY DEF EngineOK
<1> QED
  BY <1>1, <1>2 DEF EngineOK, gameOver, deal, playStarts, Phases

(* A snapshot rendered from a well-typed state is well-typed. *)
LEMMA ViewType ==
    ASSUME NEW ph \in Phases, NEW t \in Seats, NEW p \in {"none", "trickComplete", "roundComplete"},
           NEW d \in BOOLEAN, NEW ux \in BOOLEAN, NEW b \in Seats, NEW n \in Nat
    PROVE  playerView(ph, t, p, d, ux, b, n) \in Snapshot
<1>1. buildPhase(ph, p, d, ux) \in WirePhases
  BY DEF buildPhase, WirePhases, Phases
<1>2. buildLegalActions(ph, t) \in SUBSET Seats
  BY DEF buildLegalActions
<1>3. trickNumber(n) \in Nat
  BY BoundAssumption DEF trickNumber
<1> QED
  BY <1>1, <1>2, <1>3 DEF playerView, Snapshot

-----------------------------------------------------------------------------
(* What the adapter's steps do to the tie between its flags and the engine.  *)

Tie == EngineOK /\ Flags /\ Table /\ previous \in Nat /\ Points

LEMMA PassTie ==
    ASSUME Tie, inProgress, NEW seat \in Seats, pass(seat), UNCHANGED <<previous, isPaused>>,
           jumped' \in BOOLEAN
    PROVE  Tie' /\ ~dealPending' /\ paused' = "none" /\ phase' \in {"pass", "play"}
<1>1. /\ phase = "pass" /\ phase' \in {"pass", "play"} /\ EngineOK'
      /\ count' = count /\ tricks' = tricks /\ scored' = scored
  BY PassEngine DEF pass, Tie
<1>2. ~dealPending' /\ dealPending' \in BOOLEAN
  <2>1. ~dealPending
    BY DEF inProgress
  <2>2. dealPending' = dealPending
    BY DEF pass, pauses
  <2>3. dealPending \in BOOLEAN
    BY DEF Tie, Flags
  <2> QED
    BY <2>1, <2>2, <2>3
<1>3. paused = "none" /\ paused' = paused
  BY DEF inProgress, pass, pauses
<1>4. ~isPaused' /\ isPaused' \in BOOLEAN
  <2>1. ~isPaused
    BY DEF inProgress
  <2>2. isPaused' = isPaused
    OBVIOUS
  <2>3. isPaused \in BOOLEAN
    BY DEF Tie, Flags
  <2> QED
    BY <2>1, <2>2, <2>3
<1>5. Table'
  BY <1>1, <1>2, <1>3, <1>4, TableAssumption, BoundAssumption DEF Table, PausesFollowTable, Tie
<1>6. Flags'
  <2>1. dealPending' \in BOOLEAN
    BY <1>2
  <2>2. isPaused' \in BOOLEAN
    BY <1>4
  <2> QED
    BY <2>1, <2>2, <1>3 DEF Flags
<1>7. Points'
  BY <1>1 DEF Points, Tie
<1> QED
  BY <1>1, <1>2, <1>3, <1>5, <1>6, <1>7 DEF Tie

LEMMA CardTie ==
    ASSUME Tie, inProgress, NEW seat \in Seats, playCard(seat), UNCHANGED <<previous, isPaused>>,
           jumped' \in BOOLEAN
    PROVE  Tie' /\ ~dealPending' /\ phase' = "play"
<1>1. /\ phase = "play" /\ phase' = "play" /\ EngineOK' /\ count < NumPlayers /\ count' = count + 1
      /\ tricks' = tricks /\ scored' = scored
  BY CardEngine DEF playCard, Tie
<1>2. ~dealPending' /\ dealPending' \in BOOLEAN
  <2>1. ~dealPending
    BY DEF inProgress
  <2>2. dealPending' = dealPending
    BY DEF playCard
  <2>3. dealPending \in BOOLEAN
    BY DEF Tie, Flags
  <2> QED
    BY <2>1, <2>2, <2>3
<1>3. paused' = IF count = NumPlayers - 1 THEN "trickComplete" ELSE "none"
  BY DEF inProgress, playCard, pauseWhen
<1>4. ~isPaused' /\ isPaused' \in BOOLEAN
  <2>1. ~isPaused
    BY DEF inProgress
  <2>2. isPaused' = isPaused
    OBVIOUS
  <2>3. isPaused \in BOOLEAN
    BY DEF Tie, Flags
  <2> QED
    BY <2>1, <2>2, <2>3
<1>5. Table'
  <2>1. count \in Int /\ NumPlayers \in Int
    BY TableAssumption DEF Tie, EngineOK
  <2>2. paused' = "trickComplete" <=> count' = NumPlayers
    BY <1>1, <1>3, <2>1
  <2>3. paused' # "roundComplete"
    BY <1>3
  <2> QED
    BY <1>1, <1>2, <1>4, <2>2, <2>3 DEF Table, PausesFollowTable, Tie
<1>6. Flags'
  <2>1. dealPending' \in BOOLEAN
    BY <1>2
  <2>2. isPaused' \in BOOLEAN
    BY <1>4
  <2>3. paused' \in {"none", "trickComplete", "roundComplete"}
    BY <1>3
  <2> QED
    BY <2>1, <2>2, <2>3 DEF Flags
<1>7. Points'
  BY <1>1 DEF Points, Tie
<1> QED
  BY <1>1, <1>2, <1>5, <1>6, <1>7 DEF Tie

LEMMA TrickTie ==
    ASSUME Tie, ResumeTrick
    PROVE  /\ Tie' /\ ~dealPending' /\ phase = "play" /\ turn' = best
           /\ \/ phase' = "score" /\ paused' = "roundComplete"
              \/ phase' = "play" /\ paused' = "none"
<1>1. paused = "trickComplete" /\ phase = "play" /\ count = NumPlayers /\ tricks < HandSize
      /\ ~dealPending /\ ~isPaused
  BY DEF ResumeTrick, Tie, Table, PausesFollowTable, Flags
<1>2. /\ EngineOK' /\ count' = 0 /\ tricks' = tricks + 1 /\ turn' = best
      /\ \/ tricks' = HandSize /\ phase' = "score" /\ scored' = scored + 1
         \/ tricks' < HandSize /\ phase' = "play" /\ scored' = scored
  BY <1>1, ResolveEngine DEF ResumeTrick, Tie
<1>3. paused' = IF phase' = "score" THEN "roundComplete" ELSE "none"
  BY DEF ResumeTrick
<1>4. ~dealPending' /\ dealPending' \in BOOLEAN
  <2>1. ~dealPending
    BY <1>1
  <2>2. dealPending' = dealPending
    BY DEF ResumeTrick
  <2>3. dealPending \in BOOLEAN
    BY DEF Tie, Flags
  <2> QED
    BY <2>1, <2>2, <2>3
<1>5. ~isPaused' /\ isPaused' \in BOOLEAN
  <2>1. ~isPaused
    BY <1>1
  <2>2. isPaused' = isPaused
    BY DEF ResumeTrick
  <2>3. isPaused \in BOOLEAN
    BY DEF Tie, Flags
  <2> QED
    BY <2>1, <2>2, <2>3
<1>6. jumped' = jumped
  BY DEF ResumeTrick, history
<1>7. previous' = previous
  BY DEF ResumeTrick
<1>8. Table'
  BY <1>2, <1>3, <1>4, <1>5, TableAssumption DEF Table, PausesFollowTable
<1>9. Flags'
  <2>1. dealPending' \in BOOLEAN
    BY <1>4
  <2>2. isPaused' \in BOOLEAN
    BY <1>5
  <2>3. jumped' \in BOOLEAN
    BY <1>6 DEF Tie, Flags
  <2> QED
    BY <2>1, <2>2, <2>3, <1>3 DEF Flags
<1>10. Points'
  BY <1>1, <1>2, <1>7 DEF Points, Tie, EngineOK
<1>11. Tie'
  BY <1>2, <1>7, <1>8, <1>9, <1>10 DEF Tie
<1>12. phase = "play" /\ turn' = best
  BY <1>1, <1>2
<1>13. ~dealPending'
  BY <1>4
<1>14. \/ phase' = "score" /\ paused' = "roundComplete"
       \/ phase' = "play" /\ paused' = "none"
  BY <1>2, <1>3
<1> QED
  BY <1>11, <1>12, <1>13, <1>14

LEMMA RoundTie ==
    ASSUME Tie, ResumeRound
    PROVE  /\ Tie' /\ phase = "score" /\ ~dealPending /\ paused' = "none" /\ ~isPaused'
           /\ \/ phase' = "end" /\ turn' = turn /\ ~dealPending'
              \/ phase' \in {"pass", "play"} /\ dealPending'
<1>1. paused = "roundComplete" /\ phase = "score" /\ ~dealPending /\ ~isPaused
  BY DEF ResumeRound, Tie, Table, PausesFollowTable, Flags
<1>2. paused' = "none" /\ jumped' = jumped /\ round' = round + 1
  BY DEF ResumeRound, history
<1>3. ~isPaused' /\ isPaused' \in BOOLEAN
  <2>1. ~isPaused
    BY <1>1
  <2>2. isPaused' = isPaused
    BY DEF ResumeRound
  <2>3. isPaused \in BOOLEAN
    BY DEF Tie, Flags
  <2> QED
    BY <2>1, <2>2, <2>3
<1>4. CASE gameOver /\ UNCHANGED <<previous, dealPending>>
  <2>1. EngineOK' /\ scored' = scored /\ phase' = "end" /\ turn' = turn
    <3>1. phase' = "end"
      BY <1>4 DEF gameOver
    <3> QED
      BY <3>1, <1>2, <1>4, RoundEngine DEF Tie
  <2>2. ~dealPending' /\ dealPending' \in BOOLEAN
    <3>1. dealPending' = dealPending
      BY <1>4
    <3>2. dealPending \in BOOLEAN
      BY DEF Tie, Flags
    <3> QED
      BY <1>1, <3>1, <3>2
  <2>3. previous' = previous
    BY <1>4
  <2>4. Table'
    BY <1>2, <1>3, <2>1, <2>2 DEF Table, PausesFollowTable
  <2>5. Flags'
    <3>1. dealPending' \in BOOLEAN /\ isPaused' \in BOOLEAN
      BY <1>3, <2>2
    <3>2. jumped' \in BOOLEAN
      BY <1>2 DEF Tie, Flags
    <3> QED
      BY <1>2, <3>1, <3>2 DEF Flags
  <2>6. Points'
    BY <1>1, <2>1, <2>3 DEF Points, Tie
  <2> QED
    BY <1>1, <1>2, <1>3, <2>1, <2>2, <2>3, <2>4, <2>5, <2>6 DEF Tie
<1>5. CASE deal /\ captures /\ dealPending' = TRUE
  <2>1. EngineOK' /\ scored' = scored /\ phase' \in {"pass", "play"} /\ passed' = {}
        /\ count' = 0 /\ tricks' = 0
    <3>1. phase' \in {"pass", "play"}
      BY <1>5 DEF deal, playStarts
    <3> QED
      BY <3>1, <1>2, <1>5, RoundEngine DEF Tie
  <2>2. dealPending'
    BY <1>5
  <2>3. previous' = scored
    BY <1>5 DEF captures
  <2>4. Table'
    BY <1>2, <1>3, <2>1, TableAssumption, BoundAssumption DEF Table, PausesFollowTable
  <2>5. Flags'
    <3>1. dealPending' \in BOOLEAN /\ isPaused' \in BOOLEAN
      BY <1>3, <1>5
    <3>2. jumped' \in BOOLEAN
      BY <1>2 DEF Tie, Flags
    <3> QED
      BY <1>2, <3>1, <3>2 DEF Flags
  <2>6. Points'
    BY <2>1, <2>3 DEF Points, Tie, EngineOK
  <2> QED
    BY <1>1, <1>2, <1>3, <2>1, <2>2, <2>3, <2>4, <2>5, <2>6 DEF Tie, EngineOK
<1> QED
  BY <1>4, <1>5 DEF ResumeRound

LEMMA DisplayTie ==
    ASSUME Tie, DisplayDelay
    PROVE  /\ Tie' /\ UNCHANGED engine /\ paused' = paused /\ paused = "none"
           /\ ~dealPending' /\ ~isPaused'
<1>1. dealPending /\ paused = "none" /\ ~isPaused
  BY DEF DisplayDelay, Tie, Table, PausesFollowTable
<1>2. UNCHANGED engine /\ paused' = paused /\ previous' = previous /\ jumped' = jumped
  BY DEF DisplayDelay, history
<1>3. EngineOK'
  BY <1>2 DEF Tie, EngineOK, engine
<1>4. ~dealPending'
  BY DEF DisplayDelay, consumesDeal
<1>5. ~isPaused' /\ isPaused' \in BOOLEAN
  <2>1. ~isPaused
    BY <1>1
  <2>2. isPaused' = isPaused
    BY DEF DisplayDelay
  <2>3. isPaused \in BOOLEAN
    BY DEF Tie, Flags
  <2> QED
    BY <2>1, <2>2, <2>3
<1>6. Table'
  BY <1>1, <1>2, <1>4, <1>5 DEF Tie, Table, PausesFollowTable, engine
<1>7. Flags'
  <2>1. dealPending' \in BOOLEAN
    BY DEF DisplayDelay, consumesDeal
  <2>2. isPaused' \in BOOLEAN
    BY <1>5
  <2> QED
    BY <1>2, <2>1, <2>2 DEF Tie, Flags
<1>8. Points'
  BY <1>2 DEF Tie, Points, engine
<1> QED
  BY <1>1, <1>2, <1>3, <1>4, <1>5, <1>6, <1>7, <1>8 DEF Tie

LEMMA PauseTie ==
    ASSUME Tie, NEW p \in BOOLEAN, SetPaused(p)
    PROVE  /\ Tie' /\ UNCHANGED engine /\ paused' = paused /\ paused = "none"
           /\ ~dealPending' /\ phase \in {"pass", "play"} /\ isPaused = ~p /\ isPaused' = p
<1>1. ~dealPending /\ paused = "none" /\ phase \in {"pass", "play"}
  BY DEF SetPaused
<1>2. UNCHANGED engine /\ paused' = paused /\ previous' = previous /\ jumped' = jumped
  BY DEF SetPaused, pauses, history
<1>3. EngineOK'
  BY <1>2 DEF Tie, EngineOK, engine
<1>4. ~dealPending' /\ dealPending' \in BOOLEAN
  <2>1. ~dealPending
    BY <1>1
  <2>2. dealPending' = dealPending
    BY DEF SetPaused, pauses
  <2>3. dealPending \in BOOLEAN
    BY DEF Tie, Flags
  <2> QED
    BY <2>1, <2>2, <2>3
<1>5. isPaused = ~p /\ isPaused' = p
  BY DEF SetPaused
<1>6. Table'
  BY <1>1, <1>2, <1>4 DEF Tie, Table, PausesFollowTable, engine
<1>7. Flags'
  <2>1. dealPending' \in BOOLEAN
    BY <1>4
  <2>2. isPaused' \in BOOLEAN
    BY <1>5
  <2> QED
    BY <1>2, <2>1, <2>2 DEF Tie, Flags
<1>8. Points'
  BY <1>2 DEF Tie, Points, engine
<1> QED
  BY <1>1, <1>2, <1>3, <1>4, <1>5, <1>6, <1>7, <1>8 DEF Tie

-----------------------------------------------------------------------------
(* The invariant. *)

Call == [seat : Seats, taken : BOOLEAN]

(* Only AI seats are paced; a call of processTurns inside another's pacing
   means that the outer one has taken its command; the innermost call, before
   it takes one, is at the seat on turn of a game in progress. *)
Calls ==
    /\ repassed \in BOOLEAN
    /\ paced \in Seq(Call)
    /\ \A i \in DOMAIN paced : paced[i].seat \notin HumanSeats /\ (i # 1 => paced[i].taken)
    /\ paced # << >> /\ ~paced[1].taken => inProgress /\ turn = paced[1].seat

Inv == Tie /\ Shown /\ TurnHasNotPassed /\ Calls

LEMMA InitTie == ASSUME Init PROVE Tie
<1>1. phase \in {"pass", "play"} /\ turn \in Seats
  BY TableAssumption DEF Init, Seats
<1>2. 0 \in Seats /\ 0 \in 0 .. NumPlayers /\ 0 \in 0 .. HandSize /\ 0 < HandSize /\ NumPlayers # 0
  BY TableAssumption, BoundAssumption DEF Seats
<1>3. EngineOK
  BY <1>1, <1>2 DEF Init, EngineOK, Phases
<1>4. dealPending \in BOOLEAN /\ isPaused \in BOOLEAN /\ jumped \in BOOLEAN
  BY DEF Init
<1>5. Flags
  BY <1>4 DEF Init, Flags
<1>6. ~isPaused
  BY DEF Init
<1>7. Table
  BY <1>1, <1>2, <1>6 DEF Init, Table, PausesFollowTable
<1>8. Points /\ previous \in Nat
  BY <1>1 DEF Init, Points
<1> QED
  BY <1>3, <1>5, <1>7, <1>8 DEF Tie

LEMMA MoveTie ==
    ASSUME Tie, NEW seat \in Seats, HandleAction(seat) \/ AIPlay(seat)
    PROVE  /\ Tie' /\ inProgress /\ ~dealPending'
           /\ \/ phase = "pass" /\ phase' \in {"pass", "play"} /\ paused' = "none"
              \/ phase = "play" /\ phase' = "play"
<1>1. inProgress /\ (pass(seat) \/ playCard(seat)) /\ UNCHANGED <<previous, isPaused>>
  BY DEF HandleAction, AIPlay
<1>2. jumped' \in BOOLEAN
  <2>1. notePass(seat)
    BY DEF HandleAction, AIPlay
  <2> QED
    BY <2>1 DEF notePass
<1>3. CASE pass(seat)
  <2>1. phase = "pass"
    BY <1>3 DEF pass, SetPass, SetPassAgain
  <2>2. Tie' /\ ~dealPending' /\ paused' = "none" /\ phase' \in {"pass", "play"}
    BY <1>1, <1>2, <1>3, PassTie
  <2> QED
    BY <1>1, <2>1, <2>2
<1>4. CASE playCard(seat)
  <2>1. phase = "play"
    BY <1>4 DEF playCard, PlayCard
  <2>2. Tie' /\ ~dealPending' /\ phase' = "play"
    BY <1>1, <1>2, <1>4, CardTie
  <2> QED
    BY <1>1, <2>1, <2>2
<1> QED
  BY <1>1, <1>3, <1>4

(* A call of processTurns that paces changes nothing of the adapter. *)
LEMMA PaceTie ==
    ASSUME Tie, Pace
    PROVE  Tie' /\ UNCHANGED <<engine, pauses, isPaused, shown, jumped>>
<1>1. UNCHANGED <<engine, pauses, isPaused, shown, jumped, previous>>
  BY DEF Pace, history
<1> QED
  BY <1>1 DEF Tie, EngineOK, Flags, Table, PausesFollowTable, Points, engine, pauses

LEMMA NextTie == ASSUME Tie, Next PROVE Tie'
<1>1. ASSUME NEW s \in Seats, HandleAction(s) \/ AIPlay(s) PROVE Tie'
  BY <1>1, MoveTie
<1>2. CASE Resume
  BY <1>2, TrickTie, RoundTie DEF Resume
<1>3. CASE DisplayDelay
  BY <1>3, DisplayTie
<1>4. ASSUME NEW p \in BOOLEAN, SetPaused(p) PROVE Tie'
  BY <1>4, PauseTie
<1> QED
  BY <1>1, <1>2, <1>3, <1>4, PaceTie, TableAssumption DEF Next

LEMMA NextShown == ASSUME Shown, Next PROVE Shown'
<1>1. CASE Pace
  BY <1>1 DEF Pace, Shown, engine, pauses
<1>2. CASE broadcast
  BY <1>2 DEF broadcast, Shown
<1> QED
  BY <1>1, <1>2 DEF Next, HandleAction, AIPlay, Resume, ResumeTrick, ResumeRound, DisplayDelay,
                    SetPaused

(* A pass in turn is the next of the lap. *)
LEMMA LapPass ==
    ASSUME EngineOK, phase = "pass", turn \notin passed, passed = 0 .. turn - 1,
           pass(turn), phase' = "pass"
    PROVE  turn' \notin passed' /\ passed' = 0 .. turn' - 1
<1>1. turn \in Nat /\ turn < NumPlayers /\ NumPlayers \in Nat
  BY TableAssumption DEF EngineOK, Seats
<1>2. passed' = passed \cup {turn}
  BY DEF pass, SetPass, SetPassAgain
<1>3. passed' = 0 .. turn
  BY <1>1, <1>2
<1>4. passed' # Seats /\ turn' = next(turn)
  BY DEF pass, afterPass, playStarts, advanceTurn
<1>5. turn + 1 < NumPlayers
  BY <1>1, <1>3, <1>4 DEF Seats
<1>6. turn' = turn + 1
  BY <1>1, <1>4, <1>5 DEF next
<1> QED
  BY <1>1, <1>3, <1>6

LEMMA NextLap == ASSUME Tie, TurnHasNotPassed, Next PROVE TurnHasNotPassed'
<1> SUFFICES ASSUME phase' = "pass", ~jumped'
             PROVE  turn' \notin passed' /\ passed' = 0 .. turn' - 1
  BY DEF TurnHasNotPassed
<1>1. ASSUME NEW s \in Seats, HandleAction(s) \/ AIPlay(s)
      PROVE  turn' \notin passed' /\ passed' = 0 .. turn' - 1
  <2>1. phase = "pass"
    BY <1>1, MoveTie
  <2>2. ~jumped /\ s = turn
    <3>1. jumped' = (jumped \/ (phase = "pass" /\ s # turn))
      BY <1>1 DEF HandleAction, AIPlay, notePass
    <3> QED
      BY <2>1, <3>1, Zenon
  <2>3. pass(turn)
    BY <1>1, <2>1, <2>2 DEF HandleAction, AIPlay, playCard, PlayCard
  <2>4. turn \notin passed /\ passed = 0 .. turn - 1
    BY <2>1, <2>2 DEF TurnHasNotPassed
  <2> QED
    BY <2>1, <2>3, <2>4, LapPass DEF Tie
<1>2. CASE Resume
  <2>1. ~ResumeTrick
    BY TrickTie
  <2>2. deal
    BY <1>2, <2>1 DEF Resume, ResumeRound, gameOver
  <2> QED
    BY <2>2 DEF deal, playStarts
<1>3. ASSUME UNCHANGED engine, jumped' = jumped
      PROVE  turn' \notin passed' /\ passed' = 0 .. turn' - 1
  BY <1>3 DEF engine, TurnHasNotPassed
<1>4. CASE DisplayDelay
  BY <1>3, <1>4 DEF DisplayDelay, history
<1>5. ASSUME NEW p \in BOOLEAN, SetPaused(p)
      PROVE  turn' \notin passed' /\ passed' = 0 .. turn' - 1
  BY <1>3, <1>5 DEF SetPaused, history
<1>6. CASE Pace
  BY <1>3, <1>6 DEF Pace, history
<1> QED
  BY <1>1, <1>2, <1>4, <1>5, <1>6, TableAssumption DEF Next

-----------------------------------------------------------------------------
(* The calls of processTurns, innermost first. *)

LEMMA Pushed ==
    ASSUME NEW q \in Seq(Call), NEW c \in Call
    PROVE  /\ << c >> \o q \in Seq(Call) /\ Len(<< c >> \o q) = Len(q) + 1
           /\ (<< c >> \o q)[1] = c
           /\ \A i \in 2 .. Len(q) + 1 : (<< c >> \o q)[i] = q[i - 1]
BY DEF Call

LEMMA Popped ==
    ASSUME NEW q \in Seq(Call), q # << >>
    PROVE  /\ Tail(q) \in Seq(Call) /\ Len(Tail(q)) = Len(q) - 1
           /\ Head(q) = q[1] /\ q[1] \in Call /\ Len(q) >= 1
           /\ \A i \in 1 .. Len(q) - 1 : Tail(q)[i] = q[i + 1]
<1>1. Len(q) \in Nat /\ Len(q) >= 1 /\ q[1] \in Call /\ Head(q) = q[1]
  OBVIOUS
<1>2. Tail(q) \in Seq(Call) /\ Len(Tail(q)) = Len(q) - 1
  BY <1>1
<1>3. \A i \in 1 .. Len(q) - 1 : Tail(q)[i] = q[i + 1]
  BY <1>1
<1> QED
  BY <1>1, <1>2, <1>3

take(q) == [q EXCEPT ![1].taken = TRUE]

LEMMA Taken ==
    ASSUME NEW q \in Seq(Call), q # << >>
    PROVE  /\ take(q) \in Seq(Call) /\ Len(take(q)) = Len(q) /\ Len(q) >= 1
           /\ take(q)[1].taken = TRUE
           /\ \A i \in 1 .. Len(q) : take(q)[i].seat = q[i].seat
           /\ \A i \in 2 .. Len(q) : take(q)[i] = q[i]
<1>1. Len(q) \in Nat /\ Len(q) >= 1 /\ q \in [1 .. Len(q) -> Call] /\ q[1] \in Call
  OBVIOUS
<1>2. take(q) = [i \in 1 .. Len(q) |-> IF i = 1 THEN [q[1] EXCEPT !.taken = TRUE] ELSE q[i]]
  BY <1>1 DEF take
<1>3. [q[1] EXCEPT !.taken = TRUE] \in Call /\ [q[1] EXCEPT !.taken = TRUE].seat = q[1].seat
      /\ [q[1] EXCEPT !.taken = TRUE].taken = TRUE
  BY <1>1 DEF Call
<1>4. take(q) \in [1 .. Len(q) -> Call]
  BY <1>1, <1>2, <1>3
<1>5. take(q) \in Seq(Call) /\ Len(take(q)) = Len(q)
  BY <1>1, <1>4
<1>6. take(q)[1] = [q[1] EXCEPT !.taken = TRUE]
  BY <1>1, <1>2
<1>7. \A i \in 2 .. Len(q) : take(q)[i] = q[i]
  BY <1>1, <1>2
<1>8. ASSUME NEW i \in 1 .. Len(q) PROVE take(q)[i].seat = q[i].seat
  <2>1. CASE i = 1
    BY <1>3, <1>6, <2>1
  <2>2. CASE i # 1
    BY <1>1, <1>7, <2>2
  <2> QED
    BY <2>1, <2>2
<1> QED
  BY <1>1, <1>3, <1>5, <1>6, <1>7, <1>8

LEMMA PaceCalls ==
    ASSUME EngineOK, Calls, Pace
    PROVE  Calls'
<1> DEFINE c == [seat |-> turn, taken |-> FALSE]
<1>1. paced' = << c >> \o paced /\ inProgress /\ turn \notin HumanSeats
      /\ (paced # << >> => Head(paced).taken)
      /\ repassed' = repassed /\ UNCHANGED <<engine, pauses, isPaused>>
  BY DEF Pace, free, history
<1>2. c \in Call /\ c.seat = turn /\ ~c.taken
  BY DEF EngineOK, Call
<1> HIDE DEF c
<1>3. paced \in Seq(Call) /\ Len(paced) \in Nat
  BY DEF Calls
<1>4. /\ paced' \in Seq(Call) /\ Len(paced') = Len(paced) + 1 /\ paced'[1] = c
      /\ \A i \in 2 .. Len(paced) + 1 : paced'[i] = paced[i - 1]
  BY <1>1, <1>2, <1>3, Pushed
<1>5. ASSUME NEW i \in 1 .. Len(paced) + 1
      PROVE  paced'[i].seat \notin HumanSeats /\ (i # 1 => paced'[i].taken)
  <2>1. CASE i = 1
    BY <1>1, <1>2, <1>4, <2>1
  <2>2. CASE i # 1
    <3>1. i - 1 \in 1 .. Len(paced) /\ paced'[i] = paced[i - 1] /\ paced # << >>
      BY <1>3, <1>4, <2>2
    <3>2. Head(paced) = paced[1]
      BY <1>3, <3>1
    <3> QED
      BY <1>1, <1>3, <3>1, <3>2 DEF Calls
  <2> QED
    BY <2>1, <2>2
<1>6. DOMAIN paced' = 1 .. Len(paced) + 1
  BY <1>3, <1>4
<1>7. inProgress' /\ turn' = paced'[1].seat
  BY <1>1, <1>2, <1>4 DEF inProgress, engine, pauses
<1> QED
  BY <1>1, <1>4, <1>5, <1>6, <1>7 DEF Calls

LEMMA ActionCalls ==
    ASSUME Calls, NEW s \in HumanSeats, HandleAction(s), repassed' \in BOOLEAN
    PROVE  Calls'
<1>1. paced \in Seq(Call) /\ Len(paced) \in Nat
  BY DEF Calls
<1>2. CASE paced = << >>
  BY <1>2 DEF Calls, HandleAction, takesCommand
<1>3. CASE paced # << >>
  <2>1. paced' = take(paced)
    BY <1>3 DEF HandleAction, takesCommand, take
  <2>2. /\ paced' \in Seq(Call) /\ Len(paced') = Len(paced) /\ paced'[1].taken = TRUE
        /\ \A i \in 1 .. Len(paced) : paced'[i].seat = paced[i].seat
        /\ \A i \in 2 .. Len(paced) : paced'[i] = paced[i]
    BY <1>1, <1>3, <2>1, Taken
  <2>3. DOMAIN paced' = 1 .. Len(paced) /\ DOMAIN paced = 1 .. Len(paced)
    BY <1>1, <2>2
  <2>4. ASSUME NEW i \in 1 .. Len(paced)
        PROVE  paced'[i].seat \notin HumanSeats /\ (i # 1 => paced'[i].taken)
    BY <1>1, <2>2, <2>3 DEF Calls
  <2> QED
    BY <2>2, <2>3, <2>4 DEF Calls
<1> QED
  BY <1>2, <1>3

LEMMA PlayCalls ==
    ASSUME Calls, NEW s \in Seats, AIPlay(s), repassed' \in BOOLEAN
    PROVE  Calls'
<1>1. paced \in Seq(Call) /\ Len(paced) \in Nat
  BY DEF Calls
<1>2. CASE paced = << >>
  <2>1. paced' = << >>
    BY <1>2 DEF AIPlay, playsNext
  <2> QED
    BY <2>1 DEF Calls
<1>3. CASE paced # << >>
  <2>1. paced' = Tail(paced)
    BY <1>3 DEF AIPlay, playsNext
  <2>2. /\ paced' \in Seq(Call) /\ Len(paced') = Len(paced) - 1 /\ Len(paced) >= 1
        /\ \A i \in 1 .. Len(paced) - 1 : paced'[i] = paced[i + 1]
    BY <1>1, <1>3, <2>1, Popped
  <2>3. DOMAIN paced' = 1 .. Len(paced) - 1 /\ DOMAIN paced = 1 .. Len(paced)
    BY <1>1, <2>2
  <2>4. ASSUME NEW i \in 1 .. Len(paced) - 1
        PROVE  paced'[i].seat \notin HumanSeats /\ paced'[i].taken
    <3>1. i + 1 \in 1 .. Len(paced) /\ i + 1 # 1 /\ paced'[i] = paced[i + 1]
      BY <1>1, <2>2
    <3> QED
      BY <2>3, <3>1 DEF Calls
  <2>5. paced' # << >> => 1 \in 1 .. Len(paced) - 1
    BY <1>1, <2>2
  <2> QED
    BY <2>2, <2>3, <2>4, <2>5 DEF Calls
<1> QED
  BY <1>2, <1>3

LEMMA RepassedBoolean == ASSUME Calls, Next PROVE repassed' \in BOOLEAN
<1>1. ASSUME NEW s \in Seats, HandleAction(s) \/ AIPlay(s) PROVE repassed' \in BOOLEAN
  <2>1. notePass(s)
    BY <1>1 DEF HandleAction, AIPlay
  <2> QED
    BY <2>1 DEF notePass
<1>2. ASSUME repassed' = repassed PROVE repassed' \in BOOLEAN
  BY <1>2 DEF Calls
<1> QED
  BY <1>1, <1>2, TableAssumption DEF Next, Pace, Resume, ResumeTrick, ResumeRound, DisplayDelay,
     SetPaused, history

(* Nothing but a command and the AI's move ends a pacing: the adapter is not
   resumed, shown or paused in it. *)
LEMMA NextCalls == ASSUME Tie, Calls, Next PROVE Calls'
<1>1. repassed' \in BOOLEAN
  BY RepassedBoolean
<1>2. ASSUME paced' = paced, ~inProgress \/ paced = << >> PROVE Calls'
  BY <1>1, <1>2 DEF Calls
<1>3. CASE Resume
  BY <1>2, <1>3 DEF Resume, ResumeTrick, ResumeRound, inProgress
<1>4. CASE DisplayDelay
  BY <1>2, <1>4 DEF DisplayDelay, inProgress
<1>5. ASSUME NEW p \in BOOLEAN, SetPaused(p) PROVE Calls'
  BY <1>2, <1>5 DEF SetPaused
<1> QED
  BY <1>1, <1>3, <1>4, <1>5, PaceCalls, ActionCalls, PlayCalls DEF Next, Tie

(* The invariant holds in every state. *)
THEOREM Invariance == Spec => []Inv
<1>1. Init => Inv
  <2> SUFFICES ASSUME Init PROVE Inv
    OBVIOUS
  <2>1. Shown
    BY DEF Init, Shown
  <2>2. passed = {} /\ (phase = "pass" => turn = 0)
    BY DEF Init
  <2>3. TurnHasNotPassed
    BY <2>2 DEF TurnHasNotPassed
  <2>4. Calls
    <3>1. paced = << >> /\ repassed \in BOOLEAN
      BY DEF Init
    <3> QED
      BY <3>1 DEF Calls
  <2> QED
    BY <2>1, <2>3, <2>4, InitTie DEF Inv
<1>2. Inv /\ [Next]_vars => Inv'
  <2> SUFFICES ASSUME Inv, [Next]_vars PROVE Inv'
    OBVIOUS
  <2>1. CASE Next
    BY <2>1, NextTie, NextShown, NextLap, NextCalls DEF Inv
  <2>2. CASE UNCHANGED vars
    BY <2>2 DEF Inv, Tie, EngineOK, Flags, Table, PausesFollowTable, Points, Shown, TurnHasNotPassed,
                Calls, inProgress, vars, engine, pauses, history
  <2> QED
    BY <2>1, <2>2
<1> QED
  BY <1>1, <1>2, PTL DEF Spec

-----------------------------------------------------------------------------
(* What clients see. *)

(* The phase on display determines the flags and the engine's phase. *)
Phased ==
    \/ dealPending /\ ~isPaused /\ paused = "none" /\ phase # "score" /\ shown.phase = "deal"
    \/ isPaused /\ ~dealPending /\ paused = "none" /\ phase # "score" /\ shown.phase = "paused"
    \/ paused = "trickComplete" /\ ~dealPending /\ phase = "play" /\ shown.phase = "trick_complete"
    \/ paused = "roundComplete" /\ ~dealPending /\ phase = "score" /\ shown.phase = "round_complete"
    \/ inProgress /\ phase = "pass" /\ shown.phase = "passing"
    \/ inProgress /\ phase = "play" /\ shown.phase = "playing"
    \/ paused = "none" /\ ~dealPending /\ ~isPaused /\ phase = "end" /\ shown.phase = "game_over"

LEMMA ShownPhase == ASSUME Tie, Shown PROVE Phased
<1>1. shown.phase = buildPhase(phase, paused, dealPending, isPaused)
  BY DEF Shown, playerView
<1>2. CASE isPaused
  <2>1. ~dealPending /\ paused = "none" /\ phase # "score"
    BY <1>2 DEF Tie, Table, PausesFollowTable
  <2>2. shown.phase = "paused"
    BY <1>1, <1>2 DEF buildPhase
  <2> QED
    BY <1>2, <2>1, <2>2 DEF Phased
<1>3. CASE ~isPaused /\ dealPending
  <2>1. paused = "none" /\ phase # "score"
    BY <1>3 DEF Tie, Table, PausesFollowTable
  <2>2. shown.phase = "deal"
    BY <1>1, <1>3, <2>1 DEF buildPhase
  <2> QED
    BY <1>3, <2>1, <2>2 DEF Phased
<1>4. CASE ~isPaused /\ ~dealPending /\ paused = "none"
  <2>1. phase \in {"pass", "play", "end"}
    BY <1>4 DEF Tie, Table, PausesFollowTable, EngineOK, Phases
  <2>2. shown.phase = [pass |-> "passing", play |-> "playing", score |-> "round_complete",
                       end |-> "game_over"][phase]
    BY <1>1, <1>4 DEF buildPhase
  <2>3. CASE phase = "pass"
    BY <1>4, <2>2, <2>3 DEF inProgress, Phased
  <2>4. CASE phase = "play"
    BY <1>4, <2>2, <2>4 DEF inProgress, Phased
  <2>5. CASE phase = "end"
    BY <1>4, <2>2, <2>5 DEF Phased
  <2> QED
    BY <2>1, <2>3, <2>4, <2>5
<1>5. CASE ~isPaused /\ ~dealPending /\ paused = "trickComplete"
  <2>1. phase = "play"
    BY <1>5 DEF Tie, Table, PausesFollowTable
  <2>2. shown.phase = "trick_complete"
    BY <1>1, <1>5 DEF buildPhase
  <2> QED
    BY <1>5, <2>1, <2>2 DEF Phased
<1>6. CASE ~isPaused /\ ~dealPending /\ paused = "roundComplete"
  <2>1. phase = "score"
    BY <1>6 DEF Tie, Table, PausesFollowTable
  <2>2. shown.phase = "round_complete"
    BY <1>1, <1>6 DEF buildPhase
  <2> QED
    BY <1>6, <2>1, <2>2 DEF Phased
<1>7. paused \in {"none", "trickComplete", "roundComplete"}
  BY DEF Tie, Flags
<1> QED
  BY <1>2, <1>3, <1>4, <1>5, <1>6, <1>7 DEF Phased

LEMMA DelayMatches == ASSUME Tie, Shown PROVE delayIsOfShownPhase
BY ShownPhase DEF Phased, delayIsOfShownPhase, delayKind, inProgress

LEMMA PointsMatch == ASSUME Tie, Shown PROVE pointsAreOfOneRound
<1>1. shown.phase = "round_complete" <=> phase = "score"
  BY ShownPhase DEF Phased
<1> QED
  BY <1>1 DEF Tie, Points, pointsAreOfOneRound, EngineOK

LEMMA ActionableIsTrue == ASSUME Tie, Shown PROVE actionableIsTrue
<1>1. ASSUME shown.phase \in {"passing", "playing"}
      PROVE  shown.turn = turn /\ shown.turn \in shown.legal /\ inProgress
  <2>1. inProgress /\ phase \in {"pass", "play"}
    BY <1>1, ShownPhase DEF Phased
  <2>2. paused = "none" /\ ~dealPending /\ turn \in Seats
    BY <2>1 DEF inProgress, Tie, EngineOK
  <2>3. shown.turn = turn /\ shown.legal = buildLegalActions(phase, turn)
    BY <2>2 DEF Shown, playerView
  <2> QED
    BY <2>1, <2>2, <2>3 DEF buildLegalActions
<1>2. ASSUME shown.phase = "deal" PROVE shown.legal = {}
  <2>1. dealPending
    BY <1>2, ShownPhase DEF Phased
  <2> QED
    BY <2>1 DEF Shown, playerView
<1>3. shown.trickNumber = trickNumber(tricks)
  BY DEF Shown, playerView
<1>4. tricks \in Nat /\ HandSize \in Nat
  BY BoundAssumption DEF Tie, EngineOK
<1>5. ASSUME shown.phase \in {"playing", "trick_complete"} PROVE shown.trickNumber = tricks + 1
  <2>1. phase = "play"
    BY <1>5, ShownPhase DEF Phased
  <2>2. tricks < HandSize
    BY <2>1 DEF Tie, Table
  <2> QED
    BY <1>3, <1>4, <2>2 DEF trickNumber
<1>6. shown.trickNumber <= HandSize
  BY <1>3, <1>4 DEF trickNumber
<1> QED
  BY <1>1, <1>2, <1>5, <1>6 DEF actionableIsTrue

(* Every step of the adapter takes clients to a phase the protocol allows. *)
LEMMA PhaseStep ==
    ASSUME Inv, Inv', Phased, Phased', Next
    PROVE  /\ follows(shown.phase, shown'.phase)
           /\ shown.phase = "trick_complete" /\ shown'.phase = "playing" => shown'.turn = shown.winner
<1> USE DEF follows
<1>1. Tie /\ Shown /\ Tie' /\ Shown'
  BY DEF Inv
<1>2. ASSUME NEW s \in Seats, HandleAction(s) \/ AIPlay(s)
      PROVE  \/ shown.phase = "passing" /\ shown'.phase \in {"passing", "playing"}
             \/ shown.phase = "playing" /\ shown'.phase \in {"playing", "trick_complete"}
  <2>1. /\ inProgress /\ ~dealPending'
        /\ \/ phase = "pass" /\ phase' \in {"pass", "play"} /\ paused' = "none"
           \/ phase = "play" /\ phase' = "play"
    BY <1>1, <1>2, MoveTie
  <2>2. ~isPaused'
    <3>1. isPaused' = isPaused
      BY <1>2 DEF HandleAction, AIPlay
    <3>2. ~isPaused
      BY <2>1 DEF inProgress
    <3> QED
      BY <3>1, <3>2
  <2>3. shown.phase = IF phase = "pass" THEN "passing" ELSE "playing"
    BY <1>1, <2>1 DEF Phased, inProgress
  <2>4. \/ shown'.phase = "trick_complete" /\ paused' = "trickComplete" /\ phase' = "play"
        \/ shown'.phase = "passing" /\ phase' = "pass"
        \/ shown'.phase = "playing" /\ phase' = "play"
    BY <2>1, <2>2 DEF Phased
  <2> QED
    BY <2>1, <2>3, <2>4
<1>3. CASE ResumeTrick
  <2>1. /\ paused = "trickComplete" /\ ~dealPending' /\ turn' = best
        /\ \/ phase' = "score" /\ paused' = "roundComplete"
           \/ phase' = "play" /\ paused' = "none"
    BY <1>1, <1>3, TrickTie DEF ResumeTrick
  <2>2. ~isPaused'
    <3>1. isPaused' = isPaused
      BY <1>3 DEF ResumeTrick
    <3>2. ~isPaused
      BY <2>1 DEF Inv, Tie, Table, PausesFollowTable
    <3> QED
      BY <3>1, <3>2
  <2>3. shown.phase = "trick_complete" /\ shown.winner = best
    <3>1. shown.winner = best
      BY <1>1, <2>1 DEF Shown, playerView
    <3> QED
      BY <1>1, <2>1, <3>1 DEF Phased, inProgress
  <2>4. shown'.phase \in {"round_complete", "playing"}
    BY <2>1, <2>2 DEF Phased
  <2>5. shown'.turn = turn'
    BY <1>1, <2>1 DEF Shown, playerView
  <2> QED
    BY <2>1, <2>3, <2>4, <2>5
<1>4. CASE ResumeRound
  <2>1. /\ paused = "roundComplete" /\ paused' = "none" /\ ~isPaused'
        /\ \/ phase' = "end" /\ ~dealPending'
           \/ phase' \in {"pass", "play"} /\ dealPending'
    BY <1>1, <1>4, RoundTie DEF ResumeRound
  <2>2. shown.phase = "round_complete"
    BY <1>1, <2>1 DEF Phased, inProgress
  <2>3. shown'.phase \in {"deal", "game_over"}
    BY <1>1, <2>1 DEF Phased, inProgress
  <2> QED
    BY <2>2, <2>3
<1>5. CASE DisplayDelay
  <2>1. shown.phase = "deal"
    BY <1>1, <1>5 DEF Phased, DisplayDelay, inProgress
  <2>2. paused' = "none" /\ ~dealPending' /\ ~isPaused' /\ phase' \in {"pass", "play"}
    <3>1. UNCHANGED engine /\ paused' = paused /\ paused = "none" /\ ~dealPending' /\ ~isPaused'
      BY <1>1, <1>5, DisplayTie
    <3>2. phase \in {"pass", "play"}
      BY <1>1, <1>5 DEF DisplayDelay, Tie, Table
    <3> QED
      BY <3>1, <3>2 DEF engine
  <2>3. shown'.phase \in {"passing", "playing"}
    BY <1>1, <2>2 DEF Phased
  <2> QED
    BY <2>1, <2>3
<1>6. ASSUME NEW p \in BOOLEAN, SetPaused(p)
      PROVE  \/ shown.phase \in {"passing", "playing"} /\ shown'.phase = "paused"
             \/ shown.phase = "paused" /\ shown'.phase \in {"passing", "playing"}
  <2>1. /\ paused = "none" /\ ~dealPending /\ phase \in {"pass", "play"}
        /\ paused' = "none" /\ ~dealPending' /\ phase' = phase /\ isPaused = ~p /\ isPaused' = p
    <3>1. UNCHANGED engine /\ paused' = paused /\ paused = "none" /\ ~dealPending'
          /\ phase \in {"pass", "play"} /\ isPaused = ~p /\ isPaused' = p
      BY <1>1, <1>6, PauseTie
    <3>2. ~dealPending
      BY <1>6 DEF SetPaused
    <3> QED
      BY <3>1, <3>2 DEF engine
  <2>2. CASE p
    <3>1. ~isPaused /\ isPaused'
      BY <2>1, <2>2
    <3>2. shown.phase \in {"passing", "playing"}
      BY <1>1, <2>1, <3>1 DEF Phased
    <3>3. shown'.phase = "paused"
      BY <1>1, <2>1, <3>1 DEF Phased, inProgress
    <3> QED
      BY <3>2, <3>3
  <2>3. CASE ~p
    <3>1. isPaused /\ ~isPaused'
      BY <2>1, <2>3
    <3>2. shown'.phase \in {"passing", "playing"}
      BY <1>1, <2>1, <3>1 DEF Phased
    <3>3. shown.phase = "paused"
      BY <1>1, <2>1, <3>1 DEF Phased, inProgress
    <3> QED
      BY <3>2, <3>3
  <2> QED
    BY <2>2, <2>3
<1>7. CASE Pace
  <2>1. shown' = shown /\ shown.phase \in {"passing", "playing"}
    <3>1. shown.phase = "passing" \/ shown.phase = "playing"
      BY <1>7 DEF Pace, Phased, inProgress
    <3> QED
      BY <1>1, <1>7, <3>1, PaceTie
  <2> QED
    BY <2>1
<1> QED
  BY <1>2, <1>3, <1>4, <1>5, <1>6, <1>7, TableAssumption DEF Next, Resume

-----------------------------------------------------------------------------
(* The theorems. *)

(* Every seat has an AI to play for it, the adapter's state and every snapshot
   it shows are well-typed (NewGameAdapter, Resume, BuildPlayerView). *)
THEOREM TypeCorrect == Spec => []TypeOK
<1> DEFINE Manned == players \in [Seats -> AITypes]
<1>1. Init => Manned
  <2> SUFFICES ASSUME NEW seats \in SeatConfigs, validateConfig(seats), players = newPlayers(seats)
               PROVE  Manned
    BY DEF Init
  <2>1. ASSUME NEW s \in Seats PROVE fallback(seats[s + 1]) \in AITypes
    <3>1. s + 1 \in 1 .. Len(seats)
      BY TableAssumption DEF Seats, validateConfig
    <3> QED
      BY <3>1 DEF validateConfig
  <2> QED
    BY <2>1 DEF newPlayers
<1>2. Manned /\ [Next]_vars => Manned'
  <2>1. [Next]_vars => players' = players
    BY DEF Next, vars, Pace, HandleAction, AIPlay, Resume, ResumeTrick, ResumeRound, DisplayDelay,
           SetPaused
  <2> QED
    BY <2>1
<1>3. Inv /\ Manned => TypeOK
  <2> SUFFICES ASSUME Inv, Manned PROVE TypeOK
    OBVIOUS
  <2>1. Tie /\ Shown
    BY DEF Inv
  <2>2. shown \in Snapshot
    <3>1. phase \in Phases /\ turn \in Seats /\ best \in Seats /\ tricks \in Nat
      BY <2>1 DEF Tie, EngineOK
    <3>2. /\ paused \in {"none", "trickComplete", "roundComplete"}
          /\ dealPending \in BOOLEAN
          /\ isPaused \in BOOLEAN
      BY <2>1 DEF Tie, Flags
    <3> QED
      BY <2>1, <3>1, <3>2, ViewType DEF Shown
  <2> QED
    BY <2>1, <2>2 DEF TypeOK, Tie, Flags, Inv, Calls, Call
<1> QED
  BY <1>1, <1>2, <1>3, Invariance, PTL DEF Spec

(* The adapter waits for Resume exactly when a full trick or a scored round is
   on the table (Resume, PlayCard and AIPlay with willCompleteTrick). *)
THEOREM PausesAgree == Spec => []PausesFollowTable
<1>1. Inv => PausesFollowTable
  BY DEF Inv, Tie, Table
<1> QED
  BY <1>1, Invariance, PTL

(* The turn the adapter keeps while cards are passed never comes back to a seat
   that has passed, unless somebody passed out of turn (advanceTurn, and Turn
   set to 0 with every deal). *)
THEOREM LapNeverRepeats == Spec => []TurnHasNotPassed
<1>1. Inv => TurnHasNotPassed
  BY DEF Inv
<1> QED
  BY <1>1, Invariance, PTL

(* DisplayDelay's delay is that of the phase buildPhase has shown, the points
   shown are those of one round, and an actionable snapshot names the seat the
   engine waits for. *)
THEOREM ShowsTheTruth == Spec => []ShownIsTrue
<1>1. Inv => ShownIsTrue
  BY DelayMatches, PointsMatch, ActionableIsTrue DEF Inv, ShownIsTrue
<1> QED
  BY <1>1, Invariance, PTL

(* The phases on display follow the protocol, and the winner of a trick leads
   the next. *)
THEOREM ProtocolIsFollowed == Spec => PhasesFollowProtocol
<1>1. Inv => Phased
  BY ShownPhase DEF Inv
<1>2. Inv /\ Inv' /\ Phased /\ Phased' /\ [Next]_vars
      => [/\ follows(shown.phase, shown'.phase)
          /\ shown.phase = "trick_complete" /\ shown'.phase = "playing" =>
               shown'.turn = shown.winner]_vars
  BY PhaseStep
<1> QED
  BY <1>1, <1>2, Invariance, PTL DEF Spec, PhasesFollowProtocol

-----------------------------------------------------------------------------
(* The adapter implements the contract of session.Game. *)

LEMMA ContractMove ==
    ASSUME Tie, Tie', NEW s \in Seats, HandleAction(s) \/ AIPlay(s)
    PROVE  Contract!Move
<1>1. /\ inProgress /\ ~dealPending'
      /\ phase' \in {"pass", "play"}
  BY MoveTie
<1>2. outcome = "StepContinue" /\ ~dealPending
  BY <1>1 DEF inProgress, outcome
<1>3. outcome' \in {"StepContinue", "StepPause"} /\ turn' \in Seats
  BY <1>1 DEF outcome, Tie, EngineOK
<1>4. dealPending' = FALSE
  <2>1. dealPending' \in BOOLEAN
    BY DEF Tie, Flags
  <2> QED
    BY <1>1, <2>1
<1>5. \E o \in Contract!Outcomes : Contract!becomes(o)
  BY <1>3 DEF Contract!Outcomes, Contract!becomes
<1> QED
  BY <1>2, <1>4, <1>5 DEF Contract!Move

LEMMA ContractResume ==
    ASSUME Tie, Tie', Resume
    PROVE  Contract!Resume
<1>1. dealPending' \in BOOLEAN /\ turn' \in Seats
  BY DEF Tie, Flags, EngineOK
<1>2. outcome = "StepPause"
  BY DEF Resume, ResumeTrick, ResumeRound, outcome
<1>3. CASE ResumeTrick
  <2>1. ~dealPending' /\ phase' \in {"score", "play"}
    BY <1>3, TrickTie
  <2>2. outcome' \in {"StepContinue", "StepPause"}
    BY <2>1 DEF outcome
  <2>3. \E o \in Contract!Outcomes : Contract!becomes(o)
    BY <1>1, <2>2 DEF Contract!Outcomes, Contract!becomes
  <2> QED
    BY <1>1, <1>2, <2>1, <2>3 DEF Contract!Resume
<1>4. CASE ResumeRound
  <2>1. /\ paused' = "none"
        /\ \/ phase' = "end" /\ turn' = turn /\ ~dealPending'
           \/ phase' \in {"pass", "play"} /\ dealPending'
    BY <1>4, RoundTie
  <2>2. \/ outcome' = "StepFinished" /\ turn' = turn /\ ~dealPending'
        \/ outcome' = "StepContinue"
    BY <2>1 DEF outcome
  <2>3. \E o \in Contract!Outcomes : Contract!becomes(o)
    BY <1>1, <2>2 DEF Contract!Outcomes, Contract!becomes
  <2>4. dealPending' => outcome' = "StepContinue"
    BY <2>2
  <2> QED
    BY <1>1, <1>2, <2>3, <2>4 DEF Contract!Resume
<1> QED
  BY <1>3, <1>4 DEF Resume

LEMMA ContractShow ==
    ASSUME Tie, DisplayDelay
    PROVE  Contract!ShowDeal
<1>1. UNCHANGED engine /\ paused' = paused
  BY DisplayTie
<1>2. outcome' = outcome /\ turn' = turn
  BY <1>1 DEF engine, outcome
<1> QED
  BY <1>2 DEF DisplayDelay, consumesDeal, Contract!ShowDeal

(* Whatever the adapter does, the session goroutine may rely on: every step is
   a step of GameContract or leaves outcome, turn and deal alone. *)
THEOREM ContractIsKept == Spec => ContractSpec
<1>1. Init => Contract!Init
  <2> SUFFICES ASSUME Init PROVE Contract!Init
    OBVIOUS
  <2>1. outcome = "StepContinue"
    BY DEF Init, outcome
  <2>2. turn \in Seats /\ dealPending \in BOOLEAN
    BY InitTie DEF Tie, EngineOK, Flags
  <2> QED
    BY <2>1, <2>2 DEF Contract!Init
<1>2. Inv /\ Inv' /\ [Next]_vars => [Contract!Next]_Contract!vars
  <2> SUFFICES ASSUME Inv, Inv', [Next]_vars PROVE [Contract!Next]_Contract!vars
    OBVIOUS
  <2>1. Tie /\ Tie'
    BY DEF Inv
  <2>2. ASSUME NEW s \in Seats, HandleAction(s) \/ AIPlay(s) PROVE Contract!Next
    BY <2>1, <2>2, ContractMove DEF Contract!Next
  <2>3. CASE Resume
    BY <2>1, <2>3, ContractResume DEF Contract!Next
  <2>4. CASE DisplayDelay
    BY <2>1, <2>4, ContractShow DEF Contract!Next
  <2>5. ASSUME NEW p \in BOOLEAN, SetPaused(p) PROVE UNCHANGED Contract!vars
    <3>1. dealPending' = dealPending
      BY <2>5 DEF SetPaused, pauses
    <3>2. outcome' = outcome /\ turn' = turn
      BY <2>5 DEF SetPaused, pauses, engine, outcome
    <3> QED
      BY <3>1, <3>2 DEF Contract!vars
  <2>6. CASE UNCHANGED vars
    <3>1. dealPending' = dealPending
      BY <2>6 DEF vars, pauses
    <3>2. outcome' = outcome /\ turn' = turn
      BY <2>6 DEF vars, pauses, engine, outcome
    <3> QED
      BY <3>1, <3>2 DEF Contract!vars
  <2>7. CASE Pace
    <3>1. dealPending' = dealPending
      BY <2>7 DEF Pace, pauses
    <3>2. outcome' = outcome /\ turn' = turn
      BY <2>7 DEF Pace, pauses, engine, outcome
    <3> QED
      BY <3>1, <3>2 DEF Contract!vars
  <2> QED
    BY <2>2, <2>3, <2>4, <2>5, <2>6, <2>7, TableAssumption DEF Next
<1> QED
  BY <1>1, <1>2, Invariance, PTL DEF Spec, ContractSpec, Contract!Spec

-----------------------------------------------------------------------------
(* Seats that are paced. *)

(* As long as no seat passes twice, the turn of a passing phase counts the
   passes, whoever made them, so no AI seat at or after it has passed, and a
   call that paces inside another's pacing paces a later seat.  In the play
   nobody but the seat on turn acts, so there is at most one call. *)
Laps ==
    /\ phase = "pass" =>
        /\ turn = Cardinality(passed)
        /\ \A s \in passed \ HumanSeats : s < turn
        /\ \A i \in DOMAIN paced : paced[i].taken => paced[i].seat < turn
    /\ phase # "pass" => \A i \in DOMAIN paced : ~paced[i].taken
    /\ \A i \in DOMAIN paced : canMove(paced[i].seat)
    /\ \A i, j \in DOMAIN paced : i < j => paced[j].seat < paced[i].seat

LEMMA SeatsFinite == IsFiniteSet(Seats) /\ Cardinality(Seats) = NumPlayers
<1>1. 0 \in Int /\ NumPlayers - 1 \in Int /\ NumPlayers > 0
  BY TableAssumption
<1>2. IsFiniteSet(0 .. NumPlayers - 1)
      /\ Cardinality(0 .. NumPlayers - 1) = IF 0 > NumPlayers - 1 THEN 0 ELSE NumPlayers - 1 - 0 + 1
  BY <1>1, FS_Interval
<1> QED
  BY <1>1, <1>2, TableAssumption DEF Seats

(* A first pass moves the turn by one and never wraps it. *)
LEMMA PassCounts ==
    ASSUME EngineOK, NEW s \in Seats, pass(s), turn = Cardinality(passed), s \notin passed
    PROVE  /\ phase = "pass" /\ passed' = passed \cup {s}
           /\ \/ passed' = Seats /\ phase' = "play"
              \/ phase' = "pass" /\ turn' = turn + 1 /\ turn' = Cardinality(passed')
<1>1. phase = "pass" /\ passed' = passed \cup {s} /\ afterPass
  BY DEF pass, SetPass, SetPassAgain
<1>2. passed' \in SUBSET Seats /\ passed \in SUBSET Seats /\ turn \in Seats
  BY <1>1 DEF EngineOK
<1>3. IsFiniteSet(passed)
  BY <1>2, SeatsFinite, FS_Subset
<1>4. Cardinality(passed') = turn + 1
  BY <1>1, <1>3, FS_AddElement
<1>5. CASE passed' = Seats
  BY <1>1, <1>5 DEF afterPass, playStarts
<1>6. CASE passed' # Seats
  <2>1. Cardinality(passed') <= NumPlayers /\ Cardinality(passed') # NumPlayers
    BY <1>2, <1>6, SeatsFinite, FS_Subset
  <2>2. turn \in Nat /\ turn + 1 < NumPlayers /\ NumPlayers \in Nat
    BY <1>2, <1>4, <2>1, TableAssumption DEF Seats
  <2>3. phase' = "pass" /\ turn' = next(turn)
    BY <1>1, <1>6 DEF afterPass, advanceTurn
  <2>4. turn' = turn + 1
    BY <2>2, <2>3 DEF next
  <2> QED
    BY <1>1, <1>4, <2>3, <2>4
<1> QED
  BY <1>5, <1>6

LEMMA CallSeat ==
    ASSUME Calls, NEW i \in DOMAIN paced
    PROVE  paced[i].seat \in Seats \ HumanSeats
<1>1. paced \in Seq(Call)
  BY DEF Calls
<1>2. paced[i] \in Call
  BY <1>1
<1>3. paced[i].seat \in Seats
  BY <1>2 DEF Call
<1> QED
  BY <1>3 DEF Calls

LEMMA PaceLaps ==
    ASSUME Tie, Calls, Laps, Pace
    PROVE  Laps'
<1> DEFINE c == [seat |-> turn, taken |-> FALSE]
<1>1. /\ paced' = << c >> \o paced /\ turn \notin HumanSeats
      /\ (paced # << >> => Head(paced).taken)
      /\ UNCHANGED <<engine, pauses>> /\ inProgress
  BY DEF Pace, free
<1>2. c \in Call /\ c.seat = turn /\ ~c.taken
  BY DEF Tie, EngineOK, Call
<1> HIDE DEF c
<1>3. paced \in Seq(Call) /\ Len(paced) \in Nat /\ DOMAIN paced = 1 .. Len(paced) /\ turn \in Nat
  BY DEF Calls, Tie, EngineOK, Seats
<1>4. /\ Len(paced') = Len(paced) + 1 /\ paced'[1] = c /\ paced' \in Seq(Call)
      /\ \A i \in 2 .. Len(paced) + 1 : paced'[i] = paced[i - 1]
  BY <1>1, <1>2, <1>3, Pushed
<1>5. DOMAIN paced' = 1 .. Len(paced) + 1
  BY <1>3, <1>4
<1>6. UNCHANGED <<phase, turn, passed>>
  BY <1>1 DEF engine
<1>7. \A i \in 1 .. Len(paced) : paced[i].taken
  <2>1. paced # << >> => paced[1].taken
    BY <1>1, <1>3
  <2> QED
    BY <1>3, <2>1 DEF Calls
<1>8. phase \in {"pass", "play"}
  BY <1>1 DEF Tie, Table, PausesFollowTable, EngineOK, Phases, inProgress
<1>9. CASE phase = "pass"
  <2>1. \A s \in passed \ HumanSeats : s < turn
    BY <1>9 DEF Laps
  <2>2. turn \notin passed
    BY <1>1, <1>3, <2>1
  <2>3. ASSUME NEW i \in 2 .. Len(paced) + 1
        PROVE  /\ paced'[i].seat < turn /\ paced'[i].seat \notin passed
               /\ i - 1 \in 1 .. Len(paced) /\ paced'[i] = paced[i - 1]
    <3>1. i - 1 \in 1 .. Len(paced) /\ paced'[i] = paced[i - 1]
      BY <1>3, <1>4
    <3>2. paced[i - 1].seat < turn
      BY <1>3, <1>7, <1>9, <3>1 DEF Laps
    <3>3. canMove(paced[i - 1].seat)
      BY <1>3, <3>1 DEF Laps
    <3>4. paced[i - 1].seat \notin passed
      BY <1>9, <3>3 DEF canMove
    <3> QED
      BY <3>1, <3>2, <3>4
  <2>4. ASSUME NEW i \in 1 .. Len(paced) + 1 PROVE i = 1 \/ i \in 2 .. Len(paced) + 1
    BY <1>3
  <2>5. ASSUME NEW i \in 1 .. Len(paced) + 1
        PROVE  (paced'[i].taken => paced'[i].seat < turn) /\ paced'[i].seat \notin passed
    <3>1. CASE i = 1
      BY <1>2, <1>4, <2>2, <3>1
    <3> QED
      BY <2>3, <2>4, <3>1
  <2>6. ASSUME NEW i \in 1 .. Len(paced) + 1, NEW j \in 1 .. Len(paced) + 1, i < j
        PROVE  paced'[j].seat < paced'[i].seat
    <3>1. j \in 2 .. Len(paced) + 1
      BY <1>3, <2>6
    <3>2. CASE i = 1
      BY <1>2, <1>4, <2>3, <3>1, <3>2
    <3>3. CASE i \in 2 .. Len(paced) + 1
      <4>1. /\ i - 1 \in DOMAIN paced /\ paced'[i] = paced[i - 1]
            /\ j - 1 \in DOMAIN paced /\ paced'[j] = paced[j - 1]
        BY <1>3, <2>3, <3>1, <3>3
      <4>2. i - 1 < j - 1
        BY <2>6
      <4> QED
        BY <4>1, <4>2 DEF Laps
    <3> QED
      BY <2>4, <3>2, <3>3
  <2>7. phase' = "pass" /\ turn' = turn /\ passed' = passed
    BY <1>6, <1>9
  <2>8. turn = Cardinality(passed)
    BY <1>9 DEF Laps
  <2>9. \A i \in DOMAIN paced' : canMove(paced[i].seat)'
    BY <1>5, <2>5, <2>7 DEF canMove
  <2> QED
    BY <1>5, <2>1, <2>5, <2>6, <2>7, <2>8, <2>9 DEF Laps
<1>10. CASE phase = "play"
  <2>1. Len(paced) = 0
    BY <1>3, <1>7, <1>10 DEF Laps
  <2>2. DOMAIN paced' = {1} /\ paced'[1] = c
    BY <1>4, <1>5, <2>1
  <2>3. phase' = "play" /\ turn' = turn
    BY <1>6, <1>10
  <2>4. canMove(paced[1].seat)'
    BY <1>2, <2>2, <2>3 DEF canMove
  <2> QED
    BY <1>2, <2>2, <2>3, <2>4 DEF Laps
<1> QED
  BY <1>8, <1>9, <1>10

LEMMA ActionLaps ==
    ASSUME Tie, Calls, Laps, ~repassed', NEW h \in HumanSeats, HandleAction(h)
    PROVE  Laps'
<1>1. /\ paced \in Seq(Call) /\ Len(paced) \in Nat /\ DOMAIN paced = 1 .. Len(paced)
      /\ h \in Seats /\ turn \in Nat
  BY TableAssumption DEF Calls, Tie, EngineOK, Seats
<1>2. paced # << >> => paced[1].seat \in Seats \ HumanSeats
  <2>1. paced # << >> => 1 \in DOMAIN paced
    BY <1>1
  <2> QED
    BY <2>1, CallSeat
<1>3. CASE pass(h)
  <2>1. phase = "pass"
    BY <1>3 DEF pass, SetPass, SetPassAgain
  <2>2. h \notin passed
    BY <2>1 DEF HandleAction, notePass
  <2>3. turn = Cardinality(passed)
    BY <2>1 DEF Laps
  <2>4. /\ passed' = passed \cup {h}
        /\ \/ passed' = Seats /\ phase' = "play"
           \/ phase' = "pass" /\ turn' = turn + 1 /\ turn' = Cardinality(passed')
    BY <1>1, <1>3, <2>2, <2>3, PassCounts DEF Tie
  <2>5. \A i \in 1 .. Len(paced) : paced[i].seat \notin passed'
    <3>1. ASSUME NEW i \in 1 .. Len(paced) PROVE paced[i].seat \notin passed'
      <4>1. canMove(paced[i].seat) /\ paced[i].seat \notin HumanSeats
        BY <1>1 DEF Laps, Calls
      <4> QED
        BY <2>1, <2>4, <4>1 DEF canMove
    <3> QED
      BY <3>1
  <2>6. CASE passed' = Seats
    <3>1. paced = << >>
      BY <1>1, <1>2, <2>5, <2>6
    <3>2. paced' = << >> /\ phase' = "play"
      <4>1. phase' # "pass"
        BY <1>3, <2>1, <2>6 DEF pass, afterPass, playStarts
      <4> QED
        BY <2>4, <3>1, <4>1 DEF HandleAction, takesCommand
    <3> QED
      BY <3>2 DEF Laps
  <2>7. CASE passed' # Seats
    <3>1. phase' = "pass" /\ turn' = turn + 1 /\ turn' = Cardinality(passed')
      BY <2>4, <2>7
    <3>2. \A s \in passed' \ HumanSeats : s < turn'
      <4>1. ASSUME NEW s \in passed' \ HumanSeats PROVE s < turn'
        <5>1. s \in passed \ HumanSeats /\ s \in Nat
          BY <2>4 DEF Tie, EngineOK, Seats
        <5>2. s < turn
          BY <2>1, <5>1 DEF Laps
        <5> QED
          BY <1>1, <3>1, <5>1, <5>2
      <4> QED
        BY <4>1
    <3>3. /\ DOMAIN paced' = 1 .. Len(paced)
          /\ \A i \in 1 .. Len(paced) : paced'[i].seat = paced[i].seat
      <4>1. CASE paced = << >>
        BY <1>1, <4>1 DEF HandleAction, takesCommand
      <4>2. CASE paced # << >>
        <5>1. paced' = take(paced)
          BY <4>2 DEF HandleAction, takesCommand, take
        <5>2. take(paced) \in Seq(Call) /\ Len(take(paced)) = Len(paced)
              /\ \A i \in 1 .. Len(paced) : take(paced)[i].seat = paced[i].seat
          BY <1>1, <4>2, Taken
        <5> QED
          BY <5>1, <5>2
      <4> QED
        BY <4>1, <4>2
    <3>4. ASSUME NEW i \in 1 .. Len(paced) PROVE paced[i].seat < turn'
      <4>1. paced[i].seat \in Nat
        BY <1>1, CallSeat DEF Seats
      <4>2. CASE paced[i].taken
        BY <1>1, <2>1, <3>1, <4>1, <4>2 DEF Laps
      <4>3. CASE ~paced[i].taken
        <5>1. i = 1 /\ turn = paced[1].seat
          BY <1>1, <4>3 DEF Calls
        <5> QED
          BY <1>1, <3>1, <5>1
      <4> QED
        BY <4>2, <4>3
    <3>5. \A i \in DOMAIN paced' : canMove(paced[i].seat)'
      BY <2>5, <3>1, <3>3 DEF canMove
    <3>6. \A i, j \in DOMAIN paced' : i < j => paced'[j].seat < paced'[i].seat
      BY <1>1, <3>3 DEF Laps
    <3> QED
      BY <3>1, <3>2, <3>3, <3>4, <3>5, <3>6 DEF Laps
  <2> QED
    BY <2>6, <2>7
<1>4. CASE playCard(h)
  <2>1. phase = "play" /\ phase' = "play" /\ h = turn
    BY <1>4 DEF playCard, PlayCard
  <2>2. paced = << >>
    <3>1. paced # << >> => ~paced[1].taken /\ turn = paced[1].seat
      BY <1>1, <2>1 DEF Laps, Calls
    <3> QED
      BY <1>2, <2>1, <3>1
  <2>3. paced' = << >>
    BY <2>2 DEF HandleAction, takesCommand
  <2> QED
    BY <2>1, <2>3 DEF Laps
<1> QED
  BY <1>3, <1>4 DEF HandleAction

LEMMA PlayLaps ==
    ASSUME Tie, Calls, Laps, ~repassed', NEW s \in Seats, AIPlay(s)
    PROVE  Laps'
<1>1. /\ paced \in Seq(Call) /\ Len(paced) \in Nat /\ DOMAIN paced = 1 .. Len(paced)
      /\ turn \in Nat /\ s \in Nat
  BY DEF Calls, Tie, EngineOK, Seats
<1>2. /\ paced = << >> => s \in HumanSeats /\ paced' = << >>
      /\ paced # << >> => s = paced[1].seat /\ s \notin HumanSeats /\ paced' = Tail(paced)
  BY <1>1 DEF AIPlay, playsNext, Calls
<1>3. paced # << >> =>
        /\ Len(paced) >= 1 /\ DOMAIN paced' = 1 .. Len(paced) - 1
        /\ \A i \in 1 .. Len(paced) - 1 : paced'[i] = paced[i + 1]
  <2>1. SUFFICES ASSUME paced # << >>
                 PROVE  /\ Len(paced) >= 1 /\ DOMAIN paced' = 1 .. Len(paced) - 1
                        /\ \A i \in 1 .. Len(paced) - 1 : paced'[i] = paced[i + 1]
    OBVIOUS
  <2>2. /\ Tail(paced) \in Seq(Call) /\ Len(Tail(paced)) = Len(paced) - 1 /\ Len(paced) >= 1
        /\ \A i \in 1 .. Len(paced) - 1 : Tail(paced)[i] = paced[i + 1]
    BY <1>1, <2>1, Popped
  <2> QED
    BY <1>2, <2>1, <2>2
<1>4. CASE pass(s)
  <2>1. phase = "pass"
    BY <1>4 DEF pass, SetPass, SetPassAgain
  <2>2. s \notin passed
    BY <2>1 DEF AIPlay, notePass
  <2>3. turn = Cardinality(passed)
    BY <2>1 DEF Laps
  <2>4. /\ passed' = passed \cup {s}
        /\ \/ passed' = Seats /\ phase' = "play"
           \/ phase' = "pass" /\ turn' = turn + 1 /\ turn' = Cardinality(passed')
    BY <1>4, <2>2, <2>3, PassCounts DEF Tie
  <2>5. CASE paced = << >>
    <3>1. ASSUME NEW a \in passed' \ HumanSeats, turn' = turn + 1 PROVE a < turn'
      <4>1. a \in passed \ HumanSeats /\ a \in Nat
        BY <1>2, <2>4, <2>5 DEF Tie, EngineOK, Seats
      <4> QED
        BY <1>1, <2>1, <3>1, <4>1 DEF Laps
    <3> QED
      BY <1>2, <2>4, <2>5, <3>1 DEF Laps
  <2>6. CASE paced # << >>
    <3>1. s <= turn
      <4>1. CASE paced[1].taken
        BY <1>1, <1>2, <1>3, <2>1, <2>6, <4>1 DEF Laps
      <4>2. CASE ~paced[1].taken
        BY <1>1, <1>2, <2>6, <4>2 DEF Calls
      <4> QED
        BY <4>1, <4>2
    <3>2. ASSUME NEW i \in 1 .. Len(paced) - 1
          PROVE  /\ i + 1 \in 1 .. Len(paced) /\ paced'[i] = paced[i + 1]
                 /\ paced'[i].seat \in Seats
                 /\ paced'[i].seat < s /\ paced'[i].seat \notin passed'
      <4>1. i + 1 \in 1 .. Len(paced) /\ paced'[i] = paced[i + 1] /\ 1 < i + 1 /\ 1 \in 1 .. Len(paced)
        BY <1>1, <1>3, <2>6
      <4>2. paced[i + 1].seat < s /\ paced[i + 1].seat \in Seats
        BY <1>1, <1>2, <2>6, <4>1, CallSeat DEF Laps
      <4>3. canMove(paced[i + 1].seat)
        BY <1>1, <4>1 DEF Laps
      <4>4. paced[i + 1].seat \notin passed /\ paced[i + 1].seat # s
        BY <1>1, <2>1, <4>2, <4>3 DEF canMove, Seats
      <4> QED
        BY <2>4, <4>1, <4>2, <4>4
    <3>3. CASE passed' = Seats
      <4>1. Len(paced) - 1 = 0
        BY <1>1, <1>3, <2>6, <3>2, <3>3
      <4>2. DOMAIN paced' = {}
        <5>1. DOMAIN paced' = 1 .. 0
          BY <1>3, <2>6, <4>1
        <5> QED
          BY <5>1
      <4>3. phase' # "pass"
        BY <1>4, <2>1, <3>3 DEF pass, afterPass, playStarts
      <4> QED
        BY <4>2, <4>3 DEF Laps
    <3>4. CASE passed' # Seats
      <4>1. phase' = "pass" /\ turn' = turn + 1 /\ turn' = Cardinality(passed')
        BY <2>4, <3>4
      <4>2. ASSUME NEW a \in passed' \ HumanSeats PROVE a < turn'
        <5>1. a \in Nat /\ (a \in passed \ HumanSeats \/ a = s)
          BY <1>1, <2>4 DEF Tie, EngineOK, Seats
        <5>2. a \in passed \ HumanSeats => a < turn
          BY <2>1 DEF Laps
        <5> QED
          BY <1>1, <3>1, <4>1, <5>1, <5>2
      <4>3. ASSUME NEW i \in 1 .. Len(paced) - 1 PROVE paced'[i].seat < turn'
        <5>1. paced'[i].seat < s /\ paced'[i].seat \in Nat
          BY <3>2 DEF Seats
        <5> QED
          BY <1>1, <3>1, <4>1, <5>1
      <4>4. \A i \in DOMAIN paced' : canMove(paced[i].seat)'
        BY <1>3, <2>6, <3>2, <4>1 DEF canMove
      <4>5. ASSUME NEW i \in 1 .. Len(paced) - 1, NEW j \in 1 .. Len(paced) - 1, i < j
            PROVE  paced'[j].seat < paced'[i].seat
        <5>1. /\ i + 1 \in DOMAIN paced /\ j + 1 \in DOMAIN paced /\ i + 1 < j + 1
              /\ paced'[i] = paced[i + 1] /\ paced'[j] = paced[j + 1]
          BY <1>1, <3>2, <4>5
        <5> QED
          BY <5>1 DEF Laps
      <4> QED
        BY <1>3, <2>6, <4>1, <4>2, <4>3, <4>4, <4>5 DEF Laps
    <3> QED
      BY <3>3, <3>4
  <2> QED
    BY <2>5, <2>6
<1>5. CASE playCard(s)
  <2>1. phase = "play" /\ phase' = "play"
    BY <1>5 DEF playCard, PlayCard
  <2>2. Len(paced) <= 1
    <3>1. Len(paced) >= 2 => 2 \in 1 .. Len(paced)
      BY <1>1
    <3> QED
      BY <1>1, <2>1, <3>1 DEF Laps, Calls
  <2>3. DOMAIN paced' = {}
    BY <1>1, <1>2, <1>3, <2>2
  <2> QED
    BY <2>1, <2>3 DEF Laps
<1> QED
  BY <1>4, <1>5 DEF AIPlay

(* Nothing is resumed while a call paces. *)
LEMMA ResumeLaps ==
    ASSUME Tie, Calls, Laps, Resume
    PROVE  Laps'
<1>1. paused # "none" /\ paced' = paced
  BY DEF Resume, ResumeTrick, ResumeRound
<1>2. paced = << >>
  <2> SUFFICES ASSUME paced # << >> PROVE FALSE
    OBVIOUS
  <2>1. 1 \in DOMAIN paced
    BY DEF Calls
  <2>2. canMove(paced[1].seat)
    BY <2>1 DEF Laps
  <2>3. phase # "pass"
    BY <1>1 DEF Tie, Flags, Table, PausesFollowTable
  <2>4. ~paced[1].taken
    BY <2>1, <2>3 DEF Laps
  <2> QED
    BY <1>1, <2>4 DEF Calls, inProgress
<1>3. DOMAIN paced' = {}
  BY <1>1, <1>2
<1>4. phase' = "pass" => turn' = 0 /\ passed' = {}
  <2>1. CASE ResumeTrick
    BY <2>1, TrickTie
  <2>2. CASE ResumeRound
    BY <2>2 DEF ResumeRound, gameOver, deal, playStarts
  <2> QED
    BY <2>1, <2>2 DEF Resume
<1> QED
  BY <1>3, <1>4, FS_EmptySet DEF Laps

LEMMA NextLaps ==
    ASSUME Tie, Calls, ~repassed => Laps, Next, ~repassed'
    PROVE  Laps'
<1>1. ~repassed
  <2>1. ASSUME NEW s \in Seats, HandleAction(s) \/ AIPlay(s) PROVE ~repassed
    BY <2>1 DEF HandleAction, AIPlay, notePass
  <2>2. repassed' = repassed => ~repassed
    OBVIOUS
  <2> QED
    BY <2>1, <2>2, TableAssumption DEF Next, Pace, Resume, ResumeTrick, ResumeRound, DisplayDelay,
       SetPaused, history
<1>2. Laps
  BY <1>1
<1>3. ASSUME UNCHANGED engine, paced' = paced PROVE Laps'
  BY <1>2, <1>3 DEF engine, Laps, canMove
<1>4. CASE DisplayDelay
  BY <1>3, <1>4 DEF DisplayDelay
<1>5. ASSUME NEW p \in BOOLEAN, SetPaused(p) PROVE Laps'
  BY <1>3, <1>5 DEF SetPaused
<1> QED
  BY <1>2, <1>4, <1>5, PaceLaps, ActionLaps, PlayLaps, ResumeLaps DEF Next

(* Whatever passes a command makes while an AI seat is paced, the seat still
   has its move when processTurns plays it (AIPlay with the seat read before
   the pacing select), unless a seat passed twice. *)
THEOREM StaleSeatsCanPlay == Spec => []StaleSeatCanPlay
<1> DEFINE LapsInv == ~repassed => Laps
<1>1. Init => LapsInv
  <2> SUFFICES ASSUME Init PROVE Laps
    OBVIOUS
  <2>1. /\ phase = "pass" => turn = 0
        /\ passed = {} /\ paced = << >>
    BY DEF Init
  <2> QED
    BY <2>1, FS_EmptySet DEF Laps
<1>2. Inv /\ LapsInv /\ [Next]_vars => LapsInv'
  <2> SUFFICES ASSUME Inv, LapsInv, [Next]_vars, ~repassed' PROVE Laps'
    OBVIOUS
  <2>1. CASE Next
    BY <2>1, NextLaps DEF Inv
  <2>2. CASE UNCHANGED vars
    <3>1. Laps /\ UNCHANGED <<engine, paced>>
      BY <2>2 DEF vars, history
    <3> QED
      BY <3>1 DEF Laps, canMove, engine
  <2> QED
    BY <2>1, <2>2
<1>3. LapsInv => StaleSeatCanPlay
  BY DEF Laps, StaleSeatCanPlay
<1> QED
  BY <1>1, <1>2, <1>3, Invariance, PTL DEF Spec

=============================================================================
