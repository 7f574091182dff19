# cardcore-server: a verification development

cardcore-server hosts turn-based card games. Clients create sessions over HTTP,
play and watch them over WebSockets, and every session is driven by one
goroutine. This directory holds TLA+ models of that program, the TLC
configurations that check them on small instances, and TLAPS proofs of what
matters most for every instance. Paths below are relative to the repository.

## 1. Inventory

| component | state it keeps | operations | talks to |
|---|---|---|---|
| session goroutine (`internal/server/session/goroutine.go`, `commands.go`, `subscribers.go`, `snapshot.go`, `command.go`) | game adapter, `seq`, `waitingForHuman`, `paused`, `finished`, subscriber channels, replay cache, cached deal views, deferred commands | `run`, deal window, `driveTurns` / `processTurns` / `resumePauses`, `handlePlay` (action, pause, resume), subscribe, unsubscribe, turn timeout, shutdown, drain | reads `cmds`, answers on `resp`, sends to subscriber channels, closes `done`, calls `onDone` |
| game interface (`session/game.go`) | behind an interface | `HandleAction`, `AIPlay`, `Resume`, `Turn`, `DealPending`, `DisplayDelay`, snapshots, deadlines | called by the goroutine only |
| session manager (`session/manager.go`, `session.go`) | `sessions`, `tokenIndex`, one `RWMutex` | `Create`, `Update`, `Start`, `Delete`, `Get`, `List`, `LookupToken`, `Subscribe*`, `Unsubscribe*`, `SubmitAction`, `onDone` | HTTP and WebSocket handlers call it concurrently; sends to `cmds`, closes `cancel` |
| game registry (`session/registry.go`) | game name to constructor, filled at startup | `NewGame`, `ValidateConfig` | manager |
| hearts adapter (`session/games/hearts`) | engine game, players, pending deal, deadline | implements the game interface over the cardcore engine | goroutine |
| hearts view (`internal/server/view`) | none | seat-filtered rendering | adapter |
| transport (`internal/server/transport`) | connection table, per connection a reader and a writer | REST handlers, player and observer WebSockets, reconnect, `Shutdown` | manager, clients |
| wire types (`internal/api`) | none | message structs and validation | everybody |
| client library (`internal/client`) | connection, snapshot and error channels, `maxSeenSeq` | HTTP calls, `Connect`, reader goroutine, send | terminal and script clients |
| terminal client (`cmd/cardcore-tui`) | Bubble Tea models | menu, play, observe, quit, timeout display | client library |
| script client (`cmd/cardcore-cli`) | script position | plays a scripted session | client library |
| server command (`cmd/cardcore-server`) | flags | serve, stop on a signal | transport |

**What is hard here.**

* The goroutine blocks in seven different selects. In four of them it reads
  commands, so a handler may run in the deal window, between `Turn()` and
  `AIPlay(seat)`, or in the replay of deferred commands, and a handler may call
  `driveTurns` again from inside `processTurns`.
* `Turn()` is only meaningful after `StepContinue`; pauses (a completed trick)
  and fresh deals must be resumed before anyone acts.
* Every change of what clients see must come with a new `seq`, although a
  subscriber may join in the deal window, when the adapter has already consumed
  the deal it is showing.
* The human turn's timer, pause and resume, and the disconnect that resumes a
  paused game all meet in one select.
* `SubmitAction` holds the manager's read lock until the goroutine answers.
  `Delete` and `onDone` need the write lock, and a waiting writer keeps new
  readers out.
* A session can end by game over, engine error, marshal failure or deletion at
  almost any point, and each must answer or close whatever is still queued.
* Over the wire: bounded channels that drop, reconnects that race the old
  connection's cleanup, a snapshot and an error that overtake each other.
* A shutdown sweeps tables that new connections are still entering, and its close
  frames race the writers whose sessions it deletes.
* The adapter shows pauses and deals the engine knows nothing of, from flags set at
  different moments.
* `processTurns` plays the seat it read before the pacing delay, though a command
  handled in the delay may have moved the turn and paced and played other seats.
* A client acts on a snapshot while the server's timer may be acting for it; the
  terminal client also has a reader, an event loop and a goroutine per command.

**What makes each component correct.** Goroutine: turns are acted on only when
meaningful, a paused game stands still, the deadline shown is the deadline
armed, the snapshots form one gap-free numbered feed, every command is answered,
every end closes everybody. Manager: a token resolves to the live seat it was
minted for, a session's life goes draft, active, finished, expired and never
back, locks are never waited on in a circle. Transport: a connection that is
current for its seat stays subscribed, shutdown leaves no connection behind.
Adapter: it keeps the contract of the game interface and what it shows can be
acted on. Client: what it acts on is the newest snapshot, a late command is
resynchronised and not fatal, a program ends, an input lock has a reason.

The list of hazards, each at its line, is in `PROJECT.json`.

## 2. Plan

Written, in the order of importance the parts have for the system:

1. `SessionLoop` with the abstract `SnapshotFeed`, and `SessionLoop_proofs`.
2. `SessionManager` with the abstract `SeatTokens`, and `SessionManager_proofs`.
3. `PlayerConnection` and `PlayerConnection_proofs`.
4. `HeartsAdapter` with the abstract `GameContract`, and `HeartsAdapter_proofs`.
5. `ServerShutdown` and `ServerShutdown_proofs`.
6. `ClientLink`, the connection seen from the client, and on top of it the two
   programs, `ScriptClient` and `TerminalClient`; `ClientLink_proofs` with the invariant
   of the connection, `ScriptClient_proofs` and `TerminalClient_proofs` which use it.

What would come next:

* `ActionCache`: the cache's limit of 1000 ids and the retry of a command, against an
  abstract "applied at most once" (`ScriptClient` has the ids, not the limit).
* The masking of hands in the Hearts view.
* The safety halves of `ConnectionEnds`, of `PlayerConnection` and of `ServerShutdown`:
  that at each place of a connection that has to end, something is still under way
  that ends it.

## 3. Modules

### SessionLoop

One session from the goroutine's first step to its exit, and everything the
manager and its callers do to it. `pc` says where the goroutine can be seen by
somebody else: blocked in a select (`awaitDealWindow`, `aiPacing`, `pauseDelay`,
`resumeDelay`, `redealDelay`, `finishWithGrace`, `select`) or between two calls.
A handler runs in one step because it runs in one goroutine and touches nothing
shared before its sends.

| TLA+ | code |
|---|---|
| `callers` | the frames of `driveTurns` calls: `run`'s own, and those made by handlers in the middle of `processTurns` or of the replay |
| `aiSeat` | the local `seat` of `processTurns`, read before the pacing select |
| `game` | what the goroutine can observe of the adapter: outcome of the last step, turn, pending deal, steps taken, deadline set |
| `actionIDs` | keys of `actionCache` |
| `dealSnapshots` | the views cached during the deal window |
| `subs`, `sent` | who is subscribed and the number last sent to each; the last snapshot sent |
| `cmds`, `deferred` | the command channel and the commands put aside in the deal window |
| `outstanding`, `writers` | the holders of the manager's read lock, and the callers of `Lock` |
| `joining` | subscribers whose channel was handed out and is still in the queue |
| `state`, `cancel`, `notify` | the manager's entry, the closed `cancel`, the `onDone` goroutine |

`RunDealPhase` to `CloseDone` are the goroutine's steps in the order of the
source; `handleCommand` and the operators above it are its handlers, called by
`DealCommand`, `ReplayDeferred`, `PacingCommand` and `SelectCommand` with the place
to go on from. `SubmitAction`, `Subscribe`, `Unsubscribe`, `Delete` and `OnDone` are the
manager's methods; `Delete` and `OnDone` are split where they wait for the lock.

The game is the contract of the `Game` interface: a step may lead to any turn
and any outcome, a command out of turn is refused unless the game takes some in
any order (`PassOutOfTurn`, as Hearts does with passes) and a game ends after
`MaxMoves` steps. Payloads, cards and views are abstracted to that record.

Simplifications: time is abstract (an armed timer may fire at any moment, so a
delay of zero needs no case of its own); a client has one `SubmitAction`
outstanding per seat, as a connection's reader goroutine has; the players' and
the observers' channels differ only in that an observer's disconnect never
resumes a game, so one observer stands for all; the capacity of a subscriber's
channel is `PlayerConnection`'s business; a broadcast that
fails to marshal halfway counts as not sent, since it closes every subscriber;
the cache's limit of 1000 ids is not reached.

### SnapshotFeed

What the session promises its subscribers: numbers grow by one, a number stands
for one view, whoever is connected has been sent the latest, a subscriber joins
at the latest. Nothing is promised once the session has been deleted.
`SessionLoop` implements it with `number <- sent.seq`, `view <- sent.view`,
`seen <- subs`, `open <- ~cancel`.

### SessionManager

The registry of sessions and its two maps. A method of the manager is one
critical section of its lock and one action; calls that return an error change
nothing and have no action, except where the caller goes on differently.

| TLA+ | code |
|---|---|
| `sessions` | `Manager.sessions`, with an entry's state, configuration and seats; "none" is an id not in the map |
| `tokenIndex` | `Manager.tokenIndex`, as a set of records |
| `minted` | every token `generateSeatToken` has returned: a new one was never returned before |
| `goroutines`, `playing` | whether the session's goroutine runs, and the configuration `newSession` got |
| `cancels` | how often `cancel` was closed: a second close panics |
| `notices` | the `onDone` goroutines that wait for the lock |
| `handlers` | a player's WebSocket handler between `LookupToken` and `SubscribePlayer`, and after |

A configuration is reduced to which seats are human and one delay. What the
game registry refuses, and the names of games and AIs, are left out: a refused
call changes nothing. `GameEnds` and `Shutdown` are the two ways `SessionLoop` exits.
A handler holds a seat without holding the lock: `Update` may replace the
seat's token, or give the seat to an AI, in between.

### SeatTokens

What `doc/api.md` promises about tokens: issued once, for one seat of one
session, replaced together, none for a closed session. `SessionManager`
implements it with `valid <- tokenIndex`, `used <- minted` and `closed` the
expired sessions.

### PlayerConnection

Overlapping connections of one seat: the handler that subscribes and upgrades,
reader, writer and the tail of `run`, with the channels between them and the
session. The session's goroutine is reduced to what it does with a subscriber
channel, a queued command and a pause; `SessionLoop` has the rest.

| TLA+ | code |
|---|---|
| `phase` | how far `handlePlayerWS` and `run` are |
| `reader`, `writer`, `done` | the two goroutines and the context they cancel |
| `ws` | the WebSocket, or the first close it saw |
| `replies`, `outCh` | what `SubmitAction` answered and the queue to the writer |
| `subCh`, `closed` | the subscriber channel with its capacity, and whether the session closed it |
| `cmds`, `player`, `paused` | the session: command queue, who is registered for the seat, pause |
| `life` | its goroutine: reading commands, past the last look of `drainCmds`, gone (`done` closed) |
| `dropped` | an unsubscribe was refused because the queue was full |
| `closing` | the flag `Shutdown` stores |

The WebSocket library is external: its first close counts, a write fails on a
closed socket or a cancelled context, a read fails on those or on a message that
cannot be decoded. A failing network and a write timeout are `ClientCloses`. The
session ends in two steps, `SessionEnds` (up to the last look of `drainCmds`) and
`DoneCloses`. In between, and until `onDone` has closed the Manager's entry, a
command may still be sent that nobody will read: a caller of `SubmitAction` is
released by `done`, a subscription stays in the queue (`stranded`). A call the
Manager refuses changes nothing and is no step.
An accepted command leaves the pause as it likes, which allows more than
`handlePlay` does. The loop that deletes sessions in `Shutdown` is not here: a session may
end at any time.

### HeartsAdapter

The adapter over the engine, and the snapshots the view renders from it. The
engine is the external module cardcore: what it does is read off the calls the
adapter makes. Cards are left out. A trick is its number of cards and the seat
that is winning it; which card is legal and which card an AI picks do not matter
to the adapter, which only learns whether the engine took it.

| TLA+ | code |
|---|---|
| `phase`, `turn`, `passed`, `count`, `best`, `tricks`, `round`, `scored` | the engine game, external |
| `players` | the AI of each seat, human seats included: it plays on a timeout |
| `paused` | the adapter's `paused`: what is waiting for `Resume` |
| `dealPending`, `previous` | `dealPending`, `previousScores` |
| `isPaused` | the session's pause, which the view is told of |
| `shown` | the last snapshot broadcast: `buildPhase`, the turn, legal actions, trick number |
| `paced` | the calls of `processTurns` that have read `Turn` and are pacing that seat, innermost first, and whether a command has ended the pacing |
| `jumped`, `repassed` | history: somebody passed out of turn, or a second time |

`HandleAction` and `AIPlay` share `advance`; `Resume` has its two cases; `DisplayDelay`
takes the deal. The session broadcasts after each, so the view is part of every step.
A command is taken in a human's turn or in a pacing delay, one per delay
(`takesCommand`). After it `processTurns` is called again inside the first call, which
may `Pace` and play more AI seats; when that call stops at a human seat the first
one plays the seat it had read (`playsNext`). What the engine says to a second pass of a
seat is not in the repository: it may take or refuse it.

### GameContract

What the session goroutine relies on: which outcome a step may have, that only a
game in progress is moved and only a paused one resumed, and that a deal comes
only with a game that goes on. `HeartsAdapter` implements it; `SessionLoop` drives its
`game` with the same outcomes.

### ServerShutdown

The process from start to exit: `Shutdown` with its sweep over the connections, the
grace period, the list of sessions and the deletion one by one, against observer
connections in every stage. Players register with the same calls.

| TLA+ | code |
|---|---|
| `up`, `closing` | where `Shutdown` and `main` are; the flag |
| `wsConns`, `must`, `swept`, `closers` | the `sync.Map`, what `Range` is bound to visit and has visited, the close goroutines it started |
| `todo`, `sess`, `late` | the list of sessions, the sessions, those created after the list |
| `handler`, `sid`, `cancelled` | `handleObserverWS` and `run`, with the connection's context |
| `reader`, `writer` | the `CloseRead` goroutine and the writer |
| `frame` | what ended the WebSocket first |
| `subCh` | the subscription: queued, open, closed by the session's end or failure |
| `during` | history: the subscription ended under the shutdown |

`Range` visits what was there when it began and may or may not see what is added
meanwhile. One assumption is made about time: the 250 ms `Shutdown` waits are
enough for every close goroutine to write its frame, as the code's comment says.
The close handshake, which may take longer, is not assumed to be over.

### ClientLink

One connection seen from the client: the session as far as a client can tell it
apart, the subscription and reply channels, and `client.Conn`.

| TLA+ | code |
|---|---|
| `life`, `human` | the session from creation to its end, and whether it has a human seat |
| `seq`, `phase`, `paused`, `mine` | what a snapshot shows; `armed` is `waitingForHuman` |
| `left`, `movedAt` | the moves left, and the number of the last move |
| `cache` | the ids of accepted actions |
| `subCh`, `outCh`, `subscribed` | the two channels of the server's writer, which picks either |
| `entry` | what became of the subscription: registered, drained by the session's end, or stranded after it |
| `up` | commands on the way, in order, each with the snapshot it was chosen on |
| `maxSeen`, `shown` | `Conn.maxSeenSeq`, and the last snapshot `ReadSnapshot` returned |
| `client` | which process is at the seat |
| `lost`, `skipped`, `swallowed`, `overtaken` | history: what properties have to except |

A command that arrives may find the session's queue full (`QueueFull`, at any moment,
since others fill it too) and is then answered `internal_error`. What a session finds in
its queue when it ends, by `GraceEnds` or by `Break` in mid-game or in the grace
period, is answered `game_over`; what comes after it is answered `internal_error`
(`LateCommand`). Commands that come in an interlude wait: the session sleeps through
a pause and defers them in the deal window. One may `Connect` to a session that is over,
as long as the Manager's entry does not say so. A command is stamped with `maxSeen` by
`stamp` and put on the wire by `write`.

### ScriptClient

`cardcore-cli` from its flags to its exit status. It does one thing at a time: the read
of a message, what follows from it and the write of the command are one action.
`stage` is the place in `run`; `cfg` the flags that survive `parseFlags`; `script` has for
some phases an entry: the action it names, which need not be that of the phase, and
whether its selector may choose well, choose too many or too few cards, or fail; `actionSeq` is the counter
`nextActionID` uses; `blame` records what an error exit was about. `Rejoin` kills the
process and starts another with the same seat.

### TerminalClient

`cardcore-tui`. Reader, event loop and one goroutine per command run at once, and
timers send messages into the loop.

| TLA+ | code |
|---|---|
| `stage`, `observer` | menu, creation, connection and event loop of `main.go` |
| `held` | the message the reader is handing over with `p.Send` |
| `view`, `deadline` | what the model keeps of the newest snapshot |
| `timeoutDisabled`, `inputDisabled`, `submitted` | the three locks of the keyboard |
| `escConfirm`, `modalContinue`, `fatal` | the modals |
| `ticks`, `flashes` | running `turnTickMsg` and `flashTimeoutMsg` timers |
| `sends` | `tea.Cmd` goroutines that have not written yet: to be stamped (`StampCommand`), then to be written (`WriteCommand`) |
| `clock` | the human turn: early, in its last second, or due |
| `restamped` | history: a command was stamped with a later number than its snapshot's |

A key press that selects, moves the cursor or asks for a card that is not there is
left out. Client and server clocks are taken to agree.

### MC modules

The sets TLC uses, and the symmetry of identifiers and tokens for `registry`.

## 4. Runs

| run | question | properties |
|---|---|---|
| `solo` | one human, one AI seat, passes in any order, an observer, timeouts, a pause, deletion | `DeadlineIsHumanTurn`, `ShutdownLosesNoCommand`, `PausedGameFrozen`, `FeedSpec` |
| `duo` | two humans and an AI seat, passes in any order: one player's command handled in the middle of another's turn | `TurnMeaningful`, `EveryCallerIsOwed` |
| `live` | engine errors and marshal failures wherever they can occur, and progress under fairness | `EndedHasNoSubscribers`, `EndIsNoted`, `SubmitReturns`, `DeleteStopsGoroutine`, `EndIsRecorded` |
| `turnends` | a statement the code does not keep (section 7) | `TurnEnds` |
| `registry` | two sessions through every order of the manager's methods, the goroutine's end and its late notice, and a handler that holds a seat meanwhile | `TokenIndexAgrees`, `EntryFollowsGoroutine`, `HeldTokensKeepTheirSeat`, `LifecycleForward`, `TokenSpec` |
| `channels` | two connections of one seat, failed upgrades, full queues, the session's end and what is sent to it until `done` is closed, a shutdown; the end of a connection under fairness | `ChannelsHaveOneOwner`, `PausedGameIsWatched`, `ConnectionEnds` |
| `newest` | a statement the code does not keep (section 7) | `NewestConnectionStays` |
| `hearts` | up to three rounds, two humans, passes in any order and in the middle of an AI's pacing, pauses | `TurnHasNotPassed`, `StaleSeatCanPlay`, `ShownIsTrue`, `PhasesFollowProtocol`, `ContractSpec`, `GameEnds` |
| `shutdown` | two observers that connect, leave or lose their session at any moment of a shutdown | `NobodyIsMissed`, `ShutdownIsSaid`, `ListedSessionsStop`, `ConnectionEnds` |
| `script` | the script client over channels that drop and a queue that fills, timeouts, scripts that fail or do not fit, a session that breaks off, a process that is killed and comes back | `SuccessMeansGameOver`, `RunningSessionRefusesNothing`, `QuietProgramIsUpToDate`, `ActionFitsTable`, `ScriptEnds` |
| `rejoin` | a statement the code does not keep (section 7) | `RejoinedScriptEnds` |
| `terminal` | the terminal client: keys at any moment, turns that time out, commands overtaken by broadcasts between key, stamp and write, a full queue | `SettledViewIsCurrent`, `HumanCanAct`, `OneSubmissionPerView`, `RunningSessionIsNotFatal`, `FinalBoardIsShown`, `CountdownIsDriven` |

Every component has a type invariant `TypeOK`. It is proved, and so no run checks it
again. Every other invariant and every action property of a run is stated by a
theorem too (section 5): the run shows it on an instance, the theorem for every value
of the constants.

**Bounds.** `MaxMoves` is 2 or 3 engine steps: enough for a human turn, a pause
and an AI turn in any order, and for a nested `driveTurns` to end in each way.
`MaxPauses = 1` lets a game be paused and resumed by command or by disconnect,
with another pause refused as soon as one is sent. One `action_id` (two in
`solo`) suffices for a fresh command and a replayed one. `cmdChanSize` is 1 or 2
(64 in the code): full, empty, and two commands in either order. Two humans
make the session one that cannot be paused; three seats make it possible that a
command moves the turn away from the AI seat that is being paced. Deadlock is
checked in each of these runs: the only state without a step of the system is
the exited goroutine with nobody inside, and `Over` names it.

`registry`: two sessions, so that a change to one could touch the other's tokens,
two seats, one handler, and four tokens: two patches that replace a seat, or
two full sessions. Generation of more tokens is where the instance stops, hence
`CHECK_DEADLOCK FALSE`. A negative and a proper delay are enough for validation.
Sessions, seats, tokens and delays are interchangeable here; no other run uses symmetry.

`channels`, `newest`: two connections, the old one and the one that replaces it. The
capacities (64, 64 and 16 in the code) are 1 to 3: the properties turn on full and
not full. `channels` has room for two commands, so that an unsubscribe is dropped
in some behaviours and not in others; `newest` for three, so that it is not. A seat
whose connections are all gone rests, hence `CHECK_DEADLOCK FALSE`.

`hearts`: the code's four seats, hands of three cards instead of thirteen (a first, a
middle and a last trick) and three rounds, which cross the round boundary twice.
The code passes in three rounds of four; the model leaves it open after each deal
whether the round begins with passes. The AIs sit at seats 0 and 1 and the humans
at 2 and 3: one human may pass while the first AI is paced, the turn is then the
second AI's, and its pacing delay, in which the other human may pass, runs inside that of
the first. `GameEnds` needs the humans' passes in
turn, the other properties do not.

`shutdown`: two observers of one session, so that one may be swept while the other
is on its way in; a session can be created before or after the list. An exited
process rests, hence `CHECK_DEADLOCK FALSE`.

`script`, `rejoin`, `terminal`: a subscription of 2 snapshots (64 in the code) drops
some; with 6 nothing is dropped and `rejoin` cannot be blamed on a loss. Three moves
let the script act, be overtaken by the timer and act again. Three scripts: one that
fits, one that may fail and says nothing for the passing, and one that may miscount a
pass and names the wrong action for two phases. Two processes are the
one that was killed and the one that rejoins. `terminal` has two moves and two key
presses that do something: an action and a pause, two pauses, an Escape and a
confirmation. Its constraint `FewTimers` stops at two countdown timers, since each
snapshot starts another and each tick renews its own.

**Fairness** (`live`, `turnends`). Weak fairness of the goroutine as a whole, since
the scheduler runs it; of the timer, deal window, cancel and command cases of a
select one by one, since Go's select picks at random among ready cases and an
expired timer or a closed channel stays ready; of a submitter that sees `done`
closed, of `onDone`'s goroutine and of a writer whose lock is free. Clients owe
nothing: no fairness is assumed of submitting, subscribing or deleting.

**Fairness** (`channels`). Weak fairness of the upgrade (the handler runs and the
library answers), of a read that must fail, of the reader's send or its giving
up, of each case of the writer's select (Go picks at random among ready cases),
of `run`'s tail, of `Shutdown`'s close, of the session's handling of commands and of its
close of `done`.
No client has to send, read or leave, and no session has to end.

**Fairness** (`shutdown`). Weak fairness of each connection's handler, `CloseRead`
goroutine and close goroutine, of the cases of its writer, and of `Shutdown` itself.
Nobody has to connect, leave, send a signal or end a game.

**Fairness** (`hearts`). Weak fairness of `Pace` and `AIPlay` (an AI's pacing begins, and it or
a human's timeout ends), `Resume` and the deal's display: the session's timers. Humans need not act, so
`GameEnds` is about the timeouts. A game that is paused again and again is excepted.

**Fairness** (`script`, `rejoin`). Weak fairness of the session, its turn timer included, and
of the program's setup, reads and exit. `terminal` states safety only: what the program
does next is the user's choice.

## 5. Proofs

`SessionLoop_proofs` proves, for every set of seats, every switch and every
bound allowed by the assumptions of `SessionLoop`:

* `TypeCorrect`: `Spec => []TypeOK`. `TypeOK` is inductive. Each handler and action
  has a lemma of its own; what they share (`BroadcastType`, `SendType`,
  `CommandType`) is stated once. It includes `Len(cmds) <= cmdChanSize`: no sender
  overfills the queue.
* `TurnIsMeaningful`: `Spec => []TurnMeaningful`. Together with `TypeOK` the invariant
  is inductive: it ties the outcome of the last engine step to the place of the
  goroutine (`outcomeAt`). The argument is that an engine step chooses the next
  place by its outcome (`DriveAfterOutcome`), that nothing but an engine step
  changes the outcome, and that every place a frame may return to is one where a
  turn is read. The last needs care: `driveTurns` never returns to its caller
  before the game waits for a human, unless the session has finished or is
  cancelled, which the invariant excepts; a handler called in the pacing delay
  therefore comes back to a game that still has a turn.

Its second part is about what the end of a session leaves behind:

* `NobodyStaysSubscribed`: `Spec => []EndedHasNoSubscribers`. Every step that sets
  `finished` closes the subscribers (`StepEnds`), the goroutine enters its way out
  only through `Shutdown` and `Unwind` (`StepGoesOn`), and no later step touches them.
* `DeleteForgetsNoCommand`: `Spec => []ShutdownLosesNoCommand`. The property is not
  inductive: that no command is queued when `cancel` is closed follows from who
  is waiting. The invariant `CommandsOwed` says that each queued or deferred
  gameplay command belongs to a caller inside `SubmitAction`, and to no other
  queued command; `DeleteExcludes` says that nobody is inside once `cancel` is
  closed. Together they leave no command to forget.
* `NobodyWaitsInVain`: `Spec => []EveryCallerIsOwed`, the safety half of `SubmitReturns`. It is
  the converse of `CommandsOwed` (`Waiting`): whoever is inside owns a queued or
  deferred command. A handler takes a command and its owner away together
  (`CommandAnswers`, `HeadOwner`); `Shutdown`, which clears the deferred commands of a
  session that has not finished, is taken after `cancel`, when `DeleteExcludes` leaves
  nobody to be owed.
* `EndReachesManager`: `Spec => []EndIsNoted`, the safety half of `EndIsRecorded`. Each of the
  four ways to end (game over, engine error, marshal failure in a broadcast or in a
  reply) spawns the notice in the step that ends the session (`StepNotes`), and the
  Manager's steps only move it on.

The third part is about when a turn may be acted on and shown:

* `DeadlineIsTheHumans` and `PausedStandsStill`: `Spec => []DeadlineIsHumanTurn` and
  `Spec => PausedGameFrozen`. One invariant serves both, `ClockInv`: a deadline is shown
  only with a human's turn, a paused game has none, the pacing delay waits for no
  human, and where the goroutine waits for one the turn is his. That no pause is
  taken after `cancel` rests on `DeleteForgetsNoCommand`.

The last part shows that a session implements `SnapshotFeed`
(`SessionIsFeed`: `Spec => FeedSpec`), for an engine that reports no error. The
invariant `FeedInv` has one part per place of the goroutine: nothing shown before
the first broadcast, the cached view shown in the deal window, and elsewhere the
last snapshot sent is what a fresh rendering of the game would give under the
current number. Each way of sending is shown to be a step of the feed
(`BroadcastFeed`, `JoinFeed`, `LeaveFeed`, `DropFeed`); the steps that send nothing, and the
`stale_seq` reply, stutter. `TurnMeaningful` is used where the turn timer fires.

`SessionManager_proofs` proves all the properties of the `registry` run for any sets:

* `TypeCorrect`, and `EntriesFollowGoroutines` (`Spec => []EntryFollowsGoroutine`): a session
  plays the configuration its entry shows, is told to stop once, and its end is
  noticed. `EntryOK` makes this inductive: it adds that a goroutine exists from `Start`
  on only, and that a notice comes from a goroutine that is gone.
* `StatesMoveForward`: the lifecycle. `OnDone` only acts on an active entry, which is
  what keeps a late notice from reviving an expired one.
* `IndexAgrees`: the index and the entries' seats are two views of one assignment.
  `IndexInv` adds that a token resolves in one way and that every token that resolves
  has been generated.
* `HeldTokensAreSafe`: `Spec => []HeldTokensKeepTheirSeat`. `HeldInv` adds that a token a handler
  holds has been generated and, if it is still in the index, names the held seat.
* `ManagerKeepsPromise`: every step of the manager is a step of `SeatTokens` or
  stutters; creation and a patch issue, deletion closes.

`PlayerConnection_proofs` proves the type invariant and the two invariants of the `channels` run for any
number of connections and any capacities:

* `TypeCorrect`, strengthened by `RepliesWait`: a reader that waits for `outCh` has a
  reply to put there.
* `OneOwner`: the invariant `Owner` says of each connection that its channel is with
  the handler, in one queued command, registered, or closed, and never in two of
  these hands. A queue that nobody reads any more holds only what was sent after
  `drainCmds`. The queue is seen through two lemmas, `Sent` and `Received`, on who has
  what in it.
* `SomebodyWatches`: only a running connection's command can pause (`Player`: one
  queued play command per reader that waits for it), and what ends a connection
  queues an unsubscribe unless the queue is full.

`HeartsAdapter_proofs` proves the safety properties of the `hearts` run for any number of
players from two on, any hand size and any set of humans, from one invariant (`Invariance`):

* `Tie` ties the adapter's flags to the engine: a trick pause exactly over a full
  table, a round pause exactly over a scored round, a deal only over an untouched
  hand; `Shown` says the last snapshot is a rendering of the present state; the third
  part is `TurnHasNotPassed` itself. Each engine operation has one lemma.
* `StaleSeatsCanPlay`: `Spec => []StaleSeatCanPlay`. Every pass moves the turn by one seat, whoever makes
  it. `Laps` says that, unless a seat passed twice, the turn counts the passes. An AI seat
  passes only when it is played, so that none at or after the turn has passed; a call
  inside another's pacing paces a later seat, so that no two calls hold the same one;
  and the play cannot have begun, since the paced seat's pass is missing. In the play
  nobody acts but the seat on turn, so that a paced seat keeps the turn.
* From it follow `TypeCorrect`, `PausesAgree`, `LapNeverRepeats`, `ShowsTheTruth`, `ProtocolIsFollowed`
  (each step leads from the phase shown to one that may follow; `Phased` gives the
  phase shown from the flags) and `ContractIsKept` (each step is one of `GameContract` or
  stutters).

`ServerShutdown_proofs` proves the safety properties of the `shutdown` run for any sets of
observers and sessions:

* `TypeCorrect`.
* `ListedAreStopped`: `Spec => []ListedSessionsStop`, from `Stages` (how far `Shutdown` is goes
  with `closing` and `todo`) and `Listed` (whoever is alive is on the list or late).
* `NobodyMissed`: `Spec => []NobodyIsMissed`, from `Registered` and `EveryoneCovered`: while
  closing, a registered open connection has yet to be visited, has its close
  goroutine, or has its own look at `closing` ahead. The case that needs care is the
  connection that registers while `Range` is running, which need not see it. `closing` is
  set and `Range` begun in one step: one that registers in between is one that `Range` is
  bound to visit and that finds `closing` set, and so is covered twice.
* `ShutdownSaid`: `Spec => []ShutdownIsSaid`, from `Quiet` and `Parting`: whoever
  cancels a connection's context has put a frame out first, and a writer says
  goodbye only after its subscription ended, which under `closing` it does in silence.

`ClientLink_proofs` has the invariant of a client's connection, `LinkInv`. It is stated
once and kept by the session and by the connection, whatever program is on top:

* `LinkType`, and `Bounds`: nobody is ahead of the session's number, neither a queued
  message nor a command, a cached reply or the client.
* `Truth`: a queued snapshot that bears the present number shows the present table, and
  a final board is final. It is what makes "the latest snapshot" mean "the table".
* `Course`: how the session's life goes with the phase; an armed timer has a turn.
* `Fresh`: unless something was dropped, the latest snapshot is queued or was read.
* `Errors`: an error in a channel says nothing newer than what was read, with two
  exceptions: those of a session that has ended, and `stale_seq`, which is preceded in its
  channel by the snapshot it is about. This clause carries the recovery of the clients.

What a step of the session may do to a client is summed up in three definitions
(`Publishes` a snapshot, `Answers` a command, `Ends`); the session's actions are shown to
be instances of them, and only the three are shown to keep `LinkInv`.

`ScriptClient_proofs` proves the safety properties of the `script` run, for any scripts, any
capacity and any number of processes that take the seat one after another:

* `ScriptInv` adds how far the program is (`Stages`), that each command on the way bears
  the number of the snapshot it was chosen on and is what the script has for the table
  as long as that is the latest (`Chosen`), that nothing is refused but a late command, one
  that met a full queue and one whose entry is to blame (`Refusals`), and
  what each way out means (`Outcome`). `Chosen` and `Refusals` need each other: a
  command is not refused because it fits, and it fits because the program read on
  from an error before it chose again.
* `Invariance`, and from it `TypeCorrect`, `SuccessIsTheEnd`, `NothingRefusedWhileRunning`,
  `QuietIsCurrent` and the action property `ActionsFit`.

`TerminalClient_proofs` proves the safety properties of the `terminal` run, for any number of
key presses. The program's reader, event loop and sending goroutines run at once, so
that `ScreenInv` has more to tie together:

* `Stages`, `Screen`, `Caught`, `Closing`: what the reader holds, what the screen shows, and
  that a snapshot is passed over only for an error that ends the program. From them
  follow `SettledIsCurrent` and `QuitsOnFinalBoard`.
* `Spent`, `Ids`: a key press starts one flash or one command, so that ids are not used
  twice and no command is taken for the replay of another.
* `Chosen`, `Single`, `Locks`: a card or a pass under way from the snapshot on the screen
  keeps the keyboard locked, so that there is one at most (`AnswersOnce`); and a
  locked keyboard has a reason: the phase, the last second, or a command not yet
  answered (`NoLockOutlastsItsReason`). The lemma `LatestIsTaken` is the hinge: a command
  chosen on the latest table is not refused, unless by a full queue or because it is a
  pause that came too late, and both end the program: no answer leaves the table as it
  is and the keyboard locked.
* `Fatal`: what may raise a fatal modal (`CrossingIsNotFatal`); `IllegalMoves` shows that an
  `illegal_move` needs a command that bears a later number than its snapshot's. The
  second half of `RunningSessionIsNotFatal`, that a pause in time is granted, is `Chosen` with
  `suits`: what the table must be for a key to send a command.
* `Countdown`, for `TimerDrivesCountdown`.

The assumptions are the ones the modules name. In `SessionLoop`: human seats are seats,
the observer and `None` are none, the switches are Booleans, the bounds numbers
and the channel's capacity positive. In the clients: the bounds are numbers, the
subscription has room for a message, and a script has entries for some phases. No
theorem but `SessionIsFeed` (`~EngineMayFail`) has a hypothesis of its own; section 6 says
why it does.

## 6. Only model-checked

Liveness under fairness (`SubmitReturns`, `DeleteStopsGoroutine`, `EndIsRecorded`, both
`ConnectionEnds`, `GameEnds`, `ScriptEnds`) and everything about `ENABLED` is outside what TLAPS
can do and stays with TLC, as does whatever needs induction over data. Of two of them
the safety half is proved (`EveryCallerIsOwed`, `EndIsNoted`): what is left to the fairness
is that the goroutine, or the notice, gets its turn.

That the seat an AI plays for is the one in turn is not claimed: with a pass another
human makes in the pacing delay it is not. `StaleSeatCanPlay` says what holds instead, in
Hearts, where it matters: the stale seat still has its move.

`FeedSpec` is checked and proved with engine failures off: when `AIPlay` fails on a turn
timeout, `handleTurnTimeout` clears the deadline without a broadcast, so one number
then stands for two views. In Hearts `AIPlay` can fail only for a seat that has passed
already or, in the play, is not in turn. For paced AI seats `StaleSeatCanPlay` rules that
out; for a human seat that times out `TurnHasNotPassed` does, as long as everybody passes
in turn.

Properties name what they except, and the exceptions are cases the code has:
`TurnHasNotPassed` and `GameEnds` games with a pass out of turn, `StaleSeatCanPlay` a seat that
passed twice, `ChannelsHaveOneOwner` subscriptions sent after `drainCmds`, `HeldTokensKeepTheirSeat`
a token replaced meanwhile, `SuccessMeansGameOver` a session that broke off, and the clients'
properties full queues, entries that do not fit, restamped commands, late pauses and
dropped snapshots. `HumanCanAct` leaves out the turn whose timer a refusal has stopped.

## 7. Where the code and its documentation disagree

With a run that shows it:

* `TurnEnds` (`turnends`): `run` takes `waitingForHuman` away before it handles a command of
  the seat whose turn it is. If the command is refused, nothing sets it again, so
  the turn timer is never armed again and that turn may last for ever.
* `NewestConnectionStays` (`newest`): the kicked connection's `UnsubscribePlayer` names the
  seat, so it closes the channel of the connection that replaced it.
* `RejoinedScriptEnds` (`rejoin`): a script client numbers its actions from 1 again when it
  rejoins; the session takes them for replays, and the program waits for ever.

Met while modelling, without a run of their own:

* A command received during the AI pacing delay ends the delay
  (`goroutine.go:536`), which `doc/api.md:517` calls fixed.
* A subscription sent between the last read of `drainCmds` (`goroutine.go:667`) and
  the end of the session is neither registered nor closed, though the comments of `run`
  (`goroutine.go:153`) and of `drainCmds` (`goroutine.go:642`) say that all are. The
  connection gets no message and no close frame: the script client, which has no timeout
  of its own, waits until somebody ends it or the server (`ScriptEnds` excepts it).
* `drainCmds` answers `game_over` to a command it finds in the queue, also when an engine
  error or a marshal failure ended the session in mid-game; `cardcore-cli` then exits
  with 0 (`main.go:366`). `doc/api.md:471` gives the code for "Game is finished",
  `doc/decisions/013` lets a client display final scores on it.
* A command that finds the queue of a running session full is answered
  `internal_error` (`ws_player.go:130`), which ends the script client and is fatal in the
  terminal client, although the same command could be sent again.
* The script is not checked against the game: an entry may name another phase's action or
  pass too few cards, and `wrong_phase` or `malformed_message` ends the program. The former is
  "non-fatal" in `doc/decisions/013`.
* `handlePlayerWS` holds the seat it looked up across a patch that gives the seat to
  an AI (`manager.go:262`), and is then connected to it.
* Under a shutdown a writer whose subscription is closed leaves without cancelling,
  and a reader blocked on a full `outCh` (`ws_player.go:182`) is never released;
  `ConnectionEnds` of `PlayerConnection` excepts it.
* `doc/api.md:468` says `out_of_turn` of any action by a seat that is not due; a pass
  out of turn is accepted. With it the turn may come to a seat that has passed. One
  made in the pacing delay moves the turn away from the seat that is then played.
* `doc/api.md:466` promises success to the duplicate of an accepted action; the seq
  check comes first and answers `stale_seq`.
* The terminal client: a flash that times out clears the text of a server error that
  should stay until Enter (`model.go:97`); a second `p` before the first is answered,
  or one in the last second, ends the program with `pause_not_allowed`; `game_paused`
  is called unreachable (`status.go:139`) and is reached; a command is stamped with
  the number at the time of the write (`ws.go:150`), not of the snapshot it was chosen
  on; session and token from the environment do not skip the menu, which clears them
  (`main.go:191`); selected cards survive when all snapshots of a round are lost
  (`client.go:93`); a late `game_over` error can make it discard the final board.
* The script client leaves a draft behind when `StartSession` fails, and reads the
  script only after the session runs (`cmd/cardcore-cli/main.go:269`).

## 8. Not modelled

* The game registry (a map filled once), the wire types (records of the modules that
  exchange them), flag parsing and the test utilities: nothing in them changes over time.
* In the Hearts view, the masking of hands and the layout of cards: a question of
  data. It would need the cards, which `HeartsAdapter` leaves to the engine.
* In the terminal client, cursor, selection, layout and rendering.
* Routing, headers, JSON layout and logging.
