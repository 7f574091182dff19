--------------------------- MODULE SessionManager ---------------------------
(***************************************************************************)
(* The registry of sessions, internal/server/session/manager.go, as HTTP   *)
(* and WebSocket handlers use it concurrently.  Every method is one        *)
(* critical section of the Manager's RWMutex and is one action here, but   *)
(* for a player's WebSocket handler, which calls LookupToken and           *)
(* SubscribePlayer one after the other and holds what the first told it.   *)
(*                                                                         *)
(* A method that answers with an error leaves everything as it was and is  *)
(* a step of its own only where the caller's state changes.  The session's *)
(* goroutine is SessionLoop's; here it runs, is over, and is done.         *)
(***************************************************************************)
EXTENDS Naturals

CONSTANTS
    Ids,        \* session identifiers
    Seats,      \* seats of a session
    Tokens,     \* seat tokens generateSeatToken may return
    Handlers,   \* player WebSocket handlers, one per connection
    Delays,     \* values of a delay or timeout in a configuration
    Negative,   \* those validateConfig rejects
    None

ASSUME NoneAssumption == None \notin Tokens \cup Delays

ASSUME NegativeAssumption == Negative \subseteq Delays

VARIABLES
    sessions,    \* id -> entry; state "none": the id is not in the map
    tokenIndex,  \* the tokens that resolve, each with its session and seat
    minted,      \* tokens generated so far
    goroutines,  \* id -> where the session's goroutine is
    playing,     \* id -> configuration newSession was given
    cancels,     \* id -> how often cancel was closed
    notices,     \* ids whose onDone goroutine waits for the lock
    handlers     \* handler -> what it knows

registry == <<sessions, tokenIndex, minted>>
running  == <<goroutines, playing, cancels, notices>>
vars == <<registry, running, handlers>>

(* Which seats are human, and one delay for all of them: None stands for an
   omitted value, which the server's default replaces.  A patch replaces the
   seats or not; a delay of None leaves the former one. *)
Config == [humans : SUBSET Seats, delay : Delays \cup {None}]
Patch == [replace : BOOLEAN, humans : SUBSET Seats, delay : Delays \cup {None}]

States == {"none", "draft", "active", "finished", "expired"}
Entry == [state : States, config : Config, seats : [Seats -> Tokens \cup {None}]]
Known == [token : Tokens, session : Ids, seat : Seats]
Handler == [pc : {"idle"}]
           \cup [pc : {"authenticated", "connected"}, as : Known]

isLive(e) == e.state \in {"draft", "active", "finished"}

validateConfig(cfg) == cfg.delay \notin Negative

buildSeatsSharingTokens(humans) == \* mutant: one token for all human seats
    {f \in [Seats -> (Tokens \ minted) \cup {None}] :
        /\ \A s \in Seats : f[s] # None <=> s \in humans
        /\ \A s, t \in humans : f[s] = f[t]}

(* Tokens for the human seats, never generated before. *)
buildSeats(humans) ==
    {f \in [Seats -> (Tokens \ minted) \cup {None}] :
        /\ \A s \in Seats : f[s] # None <=> s \in humans
        /\ \A s, t \in humans : f[s] = f[t] => s = t}

tokensOf(f) == {f[s] : s \in Seats} \ {None}

granted(id, f) ==
    {[token |-> f[s], session |-> id, seat |-> s] : s \in {z \in Seats : f[z] # None}}

forgetNothing(f) == tokenIndex \* mutant: former tokens stay in the index

forget(f) == {r \in tokenIndex : r.token \notin tokensOf(f)}

-----------------------------------------------------------------------------
(* Methods of the Manager. *)

Create(id, cfg) ==
    /\ sessions[id].state = "none"
    /\ validateConfig(cfg)
    /\ \E f \in buildSeats(cfg.humans) :
        /\ sessions' = [sessions EXCEPT ![id] =
               [state |-> "draft", config |-> cfg, seats |-> f]]
        /\ tokenIndex' = tokenIndex \cup granted(id, f)
        /\ minted' = minted \cup tokensOf(f)
    /\ UNCHANGED <<running, handlers>>

merged(cfg, patch) ==
    [humans |-> IF patch.replace THEN patch.humans ELSE cfg.humans,
     delay |-> IF patch.delay = None THEN cfg.delay ELSE patch.delay]

updatableAnytime(e) == isLive(e) \* mutant: no draft check

updatable(e) == e.state = "draft"

Update(id, patch) ==
    LET cfg == merged(sessions[id].config, patch) IN
    /\ updatable(sessions[id])
    /\ validateConfig(cfg)
    /\ \/ /\ ~patch.replace
          /\ sessions' = [sessions EXCEPT ![id].config = cfg]
          /\ UNCHANGED <<tokenIndex, minted>>
       \/ /\ patch.replace
          /\ \E f \in buildSeats(patch.humans) :
              /\ sessions' = [sessions EXCEPT ![id].config = cfg, ![id].seats = f]
              /\ tokenIndex' = forget(sessions[id].seats) \cup granted(id, f)
              /\ minted' = minted \cup tokensOf(f)
    /\ UNCHANGED <<running, handlers>>

(* The goroutine is started with the entry's configuration.  A game that the
   adapter refuses to build leaves the session in draft. *)
Start(id) ==
    /\ sessions[id].state = "draft"
    /\ sessions' = [sessions EXCEPT ![id].state = "active"]
    /\ goroutines' = [goroutines EXCEPT ![id] = "running"]
    /\ playing' = [playing EXCEPT ![id] = sessions[id].config]
    /\ UNCHANGED <<tokenIndex, minted, cancels, notices, handlers>>

stopNothing(id) == cancels \* mutant: cancel is not closed

stop(id) == IF sessions[id].state = "active" THEN [cancels EXCEPT ![id] = @ + 1] ELSE cancels

Delete(id) ==
    /\ isLive(sessions[id])
    /\ cancels' = stop(id)
    /\ tokenIndex' = forget(sessions[id].seats)
    /\ sessions' = [sessions EXCEPT ![id].state = "expired"]
    /\ UNCHANGED <<minted, goroutines, playing, notices, handlers>>

recordAnyway(e) == [e EXCEPT !.state = "finished"] \* mutant: any state is overwritten

record(e) == IF e.state = "active" THEN [e EXCEPT !.state = "finished"] ELSE e

(* onDone's goroutine gets the lock. *)
OnDone(id) ==
    /\ id \in notices
    /\ notices' = notices \ {id}
    /\ sessions' = [sessions EXCEPT ![id] = record(@)]
    /\ UNCHANGED <<tokenIndex, minted, goroutines, playing, cancels, handlers>>

-----------------------------------------------------------------------------
(* The session's goroutine exits: the game is over or the session has failed,
   which run reports through onDone, or cancel was closed. *)
GameEnds(id) ==
    /\ goroutines[id] = "running"
    /\ goroutines' = [goroutines EXCEPT ![id] = "done"]
    /\ notices' = notices \cup {id}
    /\ UNCHANGED <<registry, playing, cancels, handlers>>

Shutdown(id) ==
    /\ goroutines[id] = "running"
    /\ cancels[id] > 0
    /\ goroutines' = [goroutines EXCEPT ![id] = "done"]
    /\ UNCHANGED <<registry, playing, cancels, notices, handlers>>

-----------------------------------------------------------------------------
(* A player's WebSocket handler. *)

(* LookupToken, for a client that presents a token with its session's path. *)
LookupToken(h) ==
    /\ handlers[h].pc = "idle"
    /\ \E r \in tokenIndex :
        handlers' = [handlers EXCEPT ![h] = [pc |-> "authenticated", as |-> r]]
    /\ UNCHANGED <<registry, running>>

(* SubscribePlayer refuses a session that is not active; its command may find
   the queue full.  Once done is closed the select takes either ready case. *)
SubscribePlayer(h) ==
    /\ handlers[h].pc = "authenticated"
    /\ LET r == handlers[h].as IN
       \/ /\ sessions[r.session].state = "active"
          /\ handlers' = [handlers EXCEPT ![h] = [pc |-> "connected", as |-> r]]
       \/ handlers' = [handlers EXCEPT ![h] = [pc |-> "idle"]]
    /\ UNCHANGED <<registry, running>>

Disconnect(h) ==
    /\ handlers[h].pc = "connected"
    /\ handlers' = [handlers EXCEPT ![h] = [pc |-> "idle"]]
    /\ UNCHANGED <<registry, running>>

-----------------------------------------------------------------------------
NoConfig == [humans |-> {}, delay |-> None]

Init ==
    /\ sessions = [id \in Ids |->
           [state |-> "none", config |-> NoConfig, seats |-> [s \in Seats |-> None]]]
    /\ tokenIndex = {}
    /\ minted = {}
    /\ goroutines = [id \in Ids |-> "none"]
    /\ playing = [id \in Ids |-> NoConfig]
    /\ cancels = [id \in Ids |-> 0]
    /\ notices = {}
    /\ handlers = [h \in Handlers |-> [pc |-> "idle"]]

ManagerNext ==
    \E id \in Ids :
        \/ \E cfg \in Config : Create(id, cfg)
        \/ \E patch \in Patch : Update(id, patch)
        \/ Start(id)
        \/ Delete(id)
        \/ OnDone(id)
        \/ GameEnds(id)
        \/ Shutdown(id)

HandlerNext == \E h \in Handlers : LookupToken(h) \/ SubscribePlayer(h) \/ Disconnect(h)

Next == ManagerNext \/ HandlerNext

Spec == Init /\ [][Next]_vars

-----------------------------------------------------------------------------
(* Properties. *)

(* Every variable has its type. *)
TypeOK ==
    /\ sessions \in [Ids -> Entry]
    /\ tokenIndex \subseteq Known
    /\ minted \subseteq Tokens
    /\ goroutines \in [Ids -> {"none", "running", "done"}]
    /\ playing \in [Ids -> Config]
    /\ cancels \in [Ids -> Nat]
    /\ notices \subseteq Ids
    /\ handlers \in [Handlers -> Handler]

(* The two maps the lock protects agree: what the index resolves is a seat of
   a session that is still there, exactly the human seats have a token, and
   each of those tokens resolves. *)
TokenIndexAgrees ==
    /\ \A r \in tokenIndex :
        isLive(sessions[r.session]) /\ sessions[r.session].seats[r.seat] = r.token
    /\ \A id \in Ids, s \in Seats : isLive(sessions[id]) =>
        IF s \in sessions[id].config.humans
        THEN [token |-> sessions[id].seats[s], session |-> id, seat |-> s] \in tokenIndex
        ELSE sessions[id].seats[s] = None

playsItsConfig(id) ==
    /\ sessions[id].config.delay \notin Negative
    /\ sessions[id].state \in {"active", "finished"} => playing[id] = sessions[id].config

toldToStopOnce(id) ==
    /\ cancels[id] <= 1
    /\ cancels[id] = 1 => sessions[id].state = "expired"
    /\ sessions[id].state = "expired" /\ goroutines[id] = "running" => cancels[id] = 1

endIsNoticed(id) ==
    sessions[id].state = "active" /\ goroutines[id] # "running" => id \in notices

(* An entry and its goroutine, which share nothing once it runs, tell the same
   story: the goroutine plays the configuration the entry shows, which is one
   that creation would have accepted whatever was patched; a deleted session's
   goroutine has been told to stop, and not twice, since a second close of
   cancel panics; and no session is shown active for ever when its goroutine
   is gone, since the notice that records the end is on its way. *)
EntryFollowsGoroutine ==
    \A id \in Ids : playsItsConfig(id) /\ toldToStopOnce(id) /\ endIsNoticed(id)

(* The session lifecycle of doc/api.md, whatever the goroutine's end, its
   late notice and a deletion do in which order. *)
LifecycleForward ==
    [][\A id \in Ids : sessions'[id].state # sessions[id].state =>
        <<sessions[id].state, sessions'[id].state>> \in
            {<<"none", "draft">>, <<"draft", "active">>, <<"active", "finished">>}
            \cup {"draft", "active", "finished"} \X {"expired"}]_vars

(* The Manager's token index keeps the promise of SeatTokens. *)
Promise == INSTANCE SeatTokens WITH
    valid <- tokenIndex, used <- minted,
    closed <- {id \in Ids : sessions[id].state = "expired"}
TokenSpec == Promise!TokenSpec

(* handlePlayerWS acts on a token it has looked up before, under a lock it no
   longer holds.  A patch or a deletion in between may take the token away,
   but never lets it name anything else, and whoever is connected with a token
   that still counts sits at a human seat of the game that is being played. *)
HeldTokensKeepTheirSeat ==
    \A h \in Handlers : handlers[h].pc # "idle" =>
        LET r == handlers[h].as IN
        /\ \A k \in tokenIndex : k.token = r.token => k = r
        /\ handlers[h].pc = "connected" =>
            /\ goroutines[r.session] # "none"
            /\ r \in tokenIndex => r.seat \in playing[r.session].humans
=============================================================================
