----------------------- MODULE SessionManager_proofs -----------------------
(***************************************************************************)
(* The registry's maps agree for any number of sessions, seats, tokens and *)
(* handlers, and the token index keeps the promise of SeatTokens.          *)
(***************************************************************************)
EXTENDS SessionManager, TLAPS

(* Every variable keeps its type. *)
THEOREM TypeCorrect == Spec => []TypeOK
<1>1. Init => TypeOK
  BY DEF Init, TypeOK, Entry, Config, NoConfig, States, Handler
<1>2. TypeOK /\ [Next]_vars => TypeOK'
  <2> SUFFICES ASSUME TypeOK, [Next]_vars PROVE TypeOK'
    OBVIOUS
  <2> USE DEF TypeOK
  <2>1. ASSUME NEW id \in Ids, NEW cfg \in Config, Create(id, cfg) PROVE TypeOK'
    <3>1. PICK f \in buildSeats(cfg.humans) :
            /\ sessions' = [sessions EXCEPT ![id] = [state |-> "draft", config |-> cfg, seats |-> f]]
            /\ tokenIndex' = tokenIndex \cup granted(id, f)
            /\ minted' = minted \cup tokensOf(f)
      BY <2>1 DEF Create
    <3>2. f \in [Seats -> Tokens \cup {None}]
      BY <3>1 DEF buildSeats
    <3>3. granted(id, f) \subseteq Known /\ tokensOf(f) \subseteq Tokens
      BY <3>2 DEF granted, tokensOf, Known
    <3>4. [state |-> "draft", config |-> cfg, seats |-> f] \in Entry
      BY <3>2 DEF Entry, States
    <3> QED
      BY <2>1, <3>1, <3>3, <3>4 DEF Create, running
  <2>2. ASSUME NEW id \in Ids, NEW patch \in Patch, Update(id, patch) PROVE TypeOK'
    <3> DEFINE cfg == merged(sessions[id].config, patch)
    <3>1. cfg \in Config
      BY DEF merged, Config, Patch, Entry
    <3> HIDE DEF cfg
    <3>2. CASE ~patch.replace
      <4>1. /\ sessions' = [sessions EXCEPT ![id].config = cfg]
            /\ UNCHANGED <<tokenIndex, minted, running, handlers>>
        BY <2>2, <3>2 DEF Update, cfg
      <4>2. sessions' \in [Ids -> Entry]
        BY <3>1, <4>1 DEF Entry
      <4> QED
        BY <4>1, <4>2 DEF running
    <3>3. CASE patch.replace
      <4>1. PICK f \in buildSeats(patch.humans) :
              /\ sessions' = [sessions EXCEPT ![id].config = cfg, ![id].seats = f]
              /\ tokenIndex' = forget(sessions[id].seats) \cup granted(id, f)
              /\ minted' = minted \cup tokensOf(f)
        BY <2>2, <3>3 DEF Update, cfg
      <4>2. f \in [Seats -> Tokens \cup {None}]
        BY <4>1 DEF buildSeats
      <4>3. granted(id, f) \subseteq Known /\ tokensOf(f) \subseteq Tokens
        BY <4>2 DEF granted, tokensOf, Known
      <4>4. forget(sessions[id].seats) \subseteq tokenIndex
        BY DEF forget
      <4>5. sessions' \in [Ids -> Entry]
        BY <3>1, <4>1, <4>2 DEF Entry
      <4> QED
        BY <2>2, <4>1, <4>3, <4>4, <4>5 DEF Update, running
    <3> QED
      BY <3>2, <3>3
  <2>3. ASSUME NEW id \in Ids, Start(id) PROVE TypeOK'
    BY <2>3 DEF Start, Entry, States
  <2>4. ASSUME NEW id \in Ids, Delete(id) PROVE TypeOK'
    <3>1. sessions' \in [Ids -> Entry]
      BY <2>4 DEF Delete, Entry, States
    <3>2. cancels' \in [Ids -> Nat]
      BY <2>4 DEF Delete, stop
    <3>3. tokenIndex' \subseteq tokenIndex
      BY <2>4 DEF Delete, forget
    <3> QED
      BY <2>4, <3>1, <3>2, <3>3 DEF Delete
  <2>5. ASSUME NEW id \in Ids, OnDone(id) PROVE TypeOK'
    <3>1. record(sessions[id]) \in Entry
      BY DEF record, Entry, States
    <3> QED
      BY <2>5, <3>1 DEF OnDone
  <2>6. ASSUME NEW id \in Ids, GameEnds(id) \/ Shutdown(id) PROVE TypeOK'
    BY <2>6 DEF GameEnds, Shutdown, registry
  <2>7. ASSUME NEW h \in Handlers, LookupToken(h) \/ SubscribePlayer(h) \/ Disconnect(h)
        PROVE TypeOK'
    <3>1. handlers[h].pc = "authenticated" => handlers[h].as \in Known
      BY DEF Handler
    <3>2. handlers' \in [Handlers -> Handler]
      BY <2>7, <3>1 DEF LookupToken, SubscribePlayer, Disconnect, Handler
    <3> QED
      BY <2>7, <3>2 DEF LookupToken, SubscribePlayer, Disconnect, registry, running
  <2>8. CASE UNCHANGED vars
    BY <2>8 DEF vars, registry, running
  <2> QED
    BY <2>1, <2>2, <2>3, <2>4, <2>5, <2>6, <2>7, <2>8 DEF Next, ManagerNext, HandlerNext
<1> QED
  BY <1>1, <1>2, PTL DEF Spec

-----------------------------------------------------------------------------
(* Sessions and their goroutines. *)

(* What the state of an entry says about its goroutine: the state properties
   that relate the two are not inductive, since they forget that a goroutine
   exists only from Start on and that a notice comes from one that is done. *)
EntryOK(id) ==
    /\ sessions[id].config.delay \notin Negative
    /\ id \in notices => goroutines[id] = "done"
    /\ sessions[id].state \in {"none", "draft"} =>
        goroutines[id] = "none" /\ cancels[id] = 0
    /\ sessions[id].state \in {"active", "finished"} =>
        /\ cancels[id] = 0
        /\ goroutines[id] # "none"
        /\ playing[id] = sessions[id].config
    /\ sessions[id].state = "active" /\ goroutines[id] = "done" => id \in notices
    /\ sessions[id].state = "finished" => goroutines[id] = "done"
    /\ sessions[id].state = "expired" =>
        cancels[id] <= 1 /\ (goroutines[id] = "running" => cancels[id] = 1)

LifeInv == \A id \in Ids : EntryOK(id)

(* A method leaves every session but its own as it was. *)
LEMMA OthersRest ==
    ASSUME TypeOK, NEW id \in Ids, NEW k \in Ids, k # id,
           (\E cfg \in Config : Create(id, cfg)) \/ (\E patch \in Patch : Update(id, patch))
           \/ Start(id) \/ Delete(id) \/ OnDone(id) \/ GameEnds(id) \/ Shutdown(id)
    PROVE  /\ sessions'[k] = sessions[k] /\ goroutines'[k] = goroutines[k]
           /\ playing'[k] = playing[k] /\ cancels'[k] = cancels[k]
           /\ (k \in notices' <=> k \in notices)
  BY DEF TypeOK, Create, Update, Start, Delete, OnDone, GameEnds, Shutdown, stop, running, registry

(* Each method keeps its own session in order. *)
LEMMA OwnEntry ==
    ASSUME TypeOK, NEW id \in Ids, EntryOK(id),
           (\E cfg \in Config : Create(id, cfg)) \/ (\E patch \in Patch : Update(id, patch))
           \/ Start(id) \/ Delete(id) \/ OnDone(id) \/ GameEnds(id) \/ Shutdown(id)
    PROVE  EntryOK(id)'
<1> USE DEF EntryOK
<1>0. /\ sessions \in [Ids -> Entry] /\ goroutines \in [Ids -> {"none", "running", "done"}]
      /\ playing \in [Ids -> Config] /\ cancels \in [Ids -> Nat]
      /\ sessions[id] \in Entry
  BY DEF TypeOK
<1>1. CASE \E cfg \in Config : Create(id, cfg)
  BY <1>0, <1>1 DEF Create, running, validateConfig
<1>2. CASE \E patch \in Patch : Update(id, patch)
  <2>1. PICK patch \in Patch : Update(id, patch)
    BY <1>2
  <2>2. sessions[id].state = "draft" /\ UNCHANGED running
    BY <2>1 DEF Update, updatable
  <2> DEFINE cfg == merged(sessions[id].config, patch)
  <2>3. cfg.delay \notin Negative
    BY <2>1 DEF Update, validateConfig
  <2> HIDE DEF cfg
  <2>4. \/ sessions' = [sessions EXCEPT ![id].config = cfg]
        \/ \E f \in buildSeats(patch.humans) :
             sessions' = [sessions EXCEPT ![id].config = cfg, ![id].seats = f]
    BY <2>1 DEF Update, cfg
  <2>5. sessions'[id].state = "draft" /\ sessions'[id].config = cfg
    BY <1>0, <2>2, <2>4 DEF Entry
  <2> QED
    BY <2>2, <2>3, <2>5 DEF running
<1>3. CASE Start(id)
  BY <1>0, <1>3 DEF Start, Entry
<1>4. CASE Delete(id)
  <2>1. sessions'[id].state = "expired" /\ sessions'[id].config = sessions[id].config
    BY <1>0, <1>4 DEF Delete, Entry
  <2>2. cancels'[id] = IF sessions[id].state = "active" THEN cancels[id] + 1 ELSE cancels[id]
    BY <1>0, <1>4 DEF Delete, stop
  <2>3. UNCHANGED <<goroutines, notices>> /\ isLive(sessions[id])
    BY <1>4 DEF Delete
  <2> QED
    BY <1>0, <2>1, <2>2, <2>3 DEF isLive
<1>5. CASE OnDone(id)
  <2>1. sessions'[id] = record(sessions[id]) /\ id \notin notices'
    BY <1>0, <1>5 DEF OnDone
  <2>2. goroutines[id] = "done" /\ UNCHANGED <<goroutines, playing, cancels>>
    BY <1>5 DEF OnDone
  <2>3. CASE sessions[id].state = "active"
    BY <1>0, <2>1, <2>2, <2>3 DEF record, Entry
  <2>4. CASE sessions[id].state # "active"
    BY <1>0, <2>1, <2>2, <2>4 DEF record
  <2> QED
    BY <2>3, <2>4
<1>6. CASE GameEnds(id) \/ Shutdown(id)
  BY <1>0, <1>6 DEF GameEnds, Shutdown, registry, Entry, States
<1> QED
  BY <1>1, <1>2, <1>3, <1>4, <1>5, <1>6

LEMMA LifeNext == TypeOK /\ LifeInv /\ [Next]_vars => LifeInv'
<1> SUFFICES ASSUME TypeOK, LifeInv, [Next]_vars PROVE LifeInv'
  OBVIOUS
<1>1. CASE ManagerNext
  <2>1. PICK id \in Ids :
          (\E cfg \in Config : Create(id, cfg)) \/ (\E patch \in Patch : Update(id, patch))
          \/ Start(id) \/ Delete(id) \/ OnDone(id) \/ GameEnds(id) \/ Shutdown(id)
    BY <1>1 DEF ManagerNext
  <2>2. EntryOK(id)'
    BY <2>1, OwnEntry DEF LifeInv
  <2>3. ASSUME NEW k \in Ids, k # id PROVE EntryOK(k)'
    <3>1. /\ sessions'[k] = sessions[k] /\ goroutines'[k] = goroutines[k]
          /\ playing'[k] = playing[k] /\ cancels'[k] = cancels[k]
          /\ (k \in notices' <=> k \in notices)
      BY <2>1, <2>3, OthersRest
    <3> QED
      BY <3>1 DEF LifeInv, EntryOK
  <2> QED
    BY <2>2, <2>3 DEF LifeInv
<1>2. CASE HandlerNext \/ UNCHANGED vars
  <2>1. UNCHANGED <<sessions, running>>
    BY <1>2 DEF HandlerNext, LookupToken, SubscribePlayer, Disconnect, registry, vars
  <2> QED
    BY <2>1 DEF LifeInv, EntryOK, running
<1> QED
  BY <1>1, <1>2 DEF Next

LEMMA LifeInit == Init => LifeInv
<1> SUFFICES ASSUME Init, NEW id \in Ids PROVE EntryOK(id)
  BY DEF LifeInv
<1>1. /\ sessions[id].state = "none" /\ sessions[id].config.delay = None
      /\ goroutines[id] = "none" /\ cancels[id] = 0 /\ notices = {}
  BY DEF Init, NoConfig
<1>2. None \notin Negative
  BY NoneAssumption, NegativeAssumption
<1> QED
  BY <1>1, <1>2 DEF EntryOK

(* An entry and its goroutine agree in every state: the goroutine plays the
   configuration shown, a deleted session's goroutine is told to stop once,
   and the end of a game is recorded or about to be. *)
THEOREM EntriesFollowGoroutines == Spec => []EntryFollowsGoroutine
<1>1. TypeOK /\ LifeInv => EntryFollowsGoroutine
  <2> SUFFICES ASSUME TypeOK, NEW id \in Ids, EntryOK(id)
               PROVE  playsItsConfig(id) /\ toldToStopOnce(id) /\ endIsNoticed(id)
    BY DEF LifeInv, EntryFollowsGoroutine
  <2>1. /\ sessions[id].state \in States /\ cancels[id] \in Nat
        /\ goroutines[id] \in {"none", "running", "done"}
    BY DEF TypeOK, Entry
  <2> QED
    BY <2>1 DEF EntryOK, States, playsItsConfig, toldToStopOnce, endIsNoticed
<1> QED
  BY <1>1, LifeInit, LifeNext, TypeCorrect, PTL DEF Spec

(* A session's state only moves forward, whatever the order of a game's end,
   its late notice and a deletion. *)
THEOREM StatesMoveForward == Spec => LifecycleForward
<1> DEFINE Moved(id) == sessions'[id].state # sessions[id].state =>
        <<sessions[id].state, sessions'[id].state>> \in
            {<<"none", "draft">>, <<"draft", "active">>, <<"active", "finished">>}
            \cup {"draft", "active", "finished"} \X {"expired"}
<1>1. TypeOK /\ [Next]_vars => [\A id \in Ids : Moved(id)]_vars
  <2> SUFFICES ASSUME TypeOK, Next, NEW k \in Ids PROVE Moved(k)
    BY Zenon
  <2>0. sessions \in [Ids -> Entry]
    BY DEF TypeOK
  <2>1. CASE HandlerNext
    BY <2>1 DEF HandlerNext, LookupToken, SubscribePlayer, Disconnect, registry
  <2>2. CASE ManagerNext
    <3>1. PICK id \in Ids :
            (\E cfg \in Config : Create(id, cfg)) \/ (\E patch \in Patch : Update(id, patch))
            \/ Start(id) \/ Delete(id) \/ OnDone(id) \/ GameEnds(id) \/ Shutdown(id)
      BY <2>2 DEF ManagerNext
    <3>2. CASE k # id
      BY <3>1, <3>2, OthersRest
    <3>3. CASE k = id
      <4>1. CASE \E cfg \in Config : Create(id, cfg)
        BY <2>0, <3>3, <4>1 DEF Create
      <4>2. CASE \E patch \in Patch : Update(id, patch)
        BY <2>0, <3>3, <4>2 DEF Update, Entry
      <4>3. CASE Start(id)
        BY <2>0, <3>3, <4>3 DEF Start, Entry
      <4>4. CASE Delete(id)
        BY <2>0, <3>3, <4>4 DEF Delete, Entry, isLive
      <4>5. CASE OnDone(id)
        BY <2>0, <3>3, <4>5 DEF OnDone, record, Entry
      <4>6. CASE GameEnds(id) \/ Shutdown(id)
        BY <4>6 DEF GameEnds, Shutdown, registry
      <4> QED
        BY <3>1, <4>1, <4>2, <4>3, <4>4, <4>5, <4>6
    <3> QED
      BY <3>2, <3>3
  <2> QED
    BY <2>1, <2>2 DEF Next
<1> QED
  BY <1>1, TypeCorrect, PTL DEF Spec, LifecycleForward

-----------------------------------------------------------------------------
(* The token index. *)

(* TokenIndexAgrees is not inductive by itself: forgetting the tokens of one
   session could drop another's, and a new token could be an old one, unless
   a token resolves in one way and every token that resolves was minted. *)
IndexInv ==
    /\ TokenIndexAgrees
    /\ \A q, r \in tokenIndex : q.token = r.token => q = r
    /\ \A r \in tokenIndex : r.token \in minted

others(id) == {r \in tokenIndex : r.session # id}

(* Forgetting the tokens of an entry is forgetting its session. *)
LEMMA ForgetsOneSession ==
    ASSUME TypeOK, IndexInv, NEW id \in Ids, isLive(sessions[id])
    PROVE  forget(sessions[id].seats) = others(id)
<1> DEFINE f == sessions[id].seats
<1>0. f \in [Seats -> Tokens \cup {None}]
  BY DEF TypeOK, Entry
<1>1. ASSUME NEW r \in tokenIndex, r.session = id PROVE r.token \in tokensOf(f)
  <2>1. f[r.seat] = r.token /\ r.seat \in Seats /\ r.token \in Tokens
    BY <1>1 DEF IndexInv, TokenIndexAgrees, TypeOK, Known
  <2> QED
    BY <2>1, NoneAssumption DEF tokensOf
<1>2. ASSUME NEW r \in tokenIndex, r.token \in tokensOf(f) PROVE r.session = id
  <2>1. PICK s \in Seats : f[s] = r.token /\ f[s] # None
    BY <1>2 DEF tokensOf
  <2>2. [token |-> f[s], session |-> id, seat |-> s] \in tokenIndex
    BY <2>1 DEF IndexInv, TokenIndexAgrees
  <2>3. r = [token |-> f[s], session |-> id, seat |-> s]
    BY <2>1, <2>2 DEF IndexInv
  <2> QED
    BY <2>3
<1> QED
  BY <1>1, <1>2 DEF forget, others

(* A session that is not there has no tokens. *)
LEMMA NoTokensBefore ==
    ASSUME IndexInv, NEW id \in Ids, ~isLive(sessions[id])
    PROVE  others(id) = tokenIndex
  BY DEF IndexInv, TokenIndexAgrees, others

(* What buildSeats hands out: one fresh token per human seat. *)
LEMMA SeatsBuilt ==
    ASSUME NEW id \in Ids, NEW humans \in SUBSET Seats, NEW f \in buildSeats(humans)
    PROVE  /\ f \in [Seats -> Tokens \cup {None}]
           /\ \A s \in Seats : s \notin humans => f[s] = None
           /\ \A s \in humans : [token |-> f[s], session |-> id, seat |-> s] \in granted(id, f)
           /\ \A r \in granted(id, f) :
                /\ r \in Known /\ r.session = id /\ r.seat \in humans /\ r.token = f[r.seat]
                /\ r.token \notin minted /\ r.token \in tokensOf(f)
           /\ \A q, r \in granted(id, f) : q # r => q.token # r.token /\ q.seat # r.seat
           /\ tokensOf(f) = {r.token : r \in granted(id, f)}
<1>1. f \in [Seats -> (Tokens \ minted) \cup {None}]
  BY DEF buildSeats
<1>2. \A s \in Seats : f[s] # None <=> s \in humans
  BY DEF buildSeats
<1>3. \A s, t \in humans : f[s] = f[t] => s = t
  BY DEF buildSeats
<1>4. \A s \in humans : f[s] \in Tokens \ minted /\ f[s] # None
  BY <1>1, <1>2
<1>5. granted(id, f) = {[token |-> f[s], session |-> id, seat |-> s] : s \in humans}
  BY <1>2 DEF granted
<1>6. \A r \in granted(id, f) :
        /\ r \in Known /\ r.session = id /\ r.seat \in humans /\ r.token = f[r.seat]
        /\ r.token \notin minted /\ r.token \in tokensOf(f)
  BY <1>4, <1>5 DEF Known, tokensOf
<1>7. ASSUME NEW q \in granted(id, f), NEW r \in granted(id, f), q # r
      PROVE  q.token # r.token /\ q.seat # r.seat
  <2>1. PICK s \in humans : q = [token |-> f[s], session |-> id, seat |-> s]
    BY <1>5
  <2>2. PICK t \in humans : r = [token |-> f[t], session |-> id, seat |-> t]
    BY <1>5
  <2> QED
    BY <1>3, <1>7, <2>1, <2>2
<1>8. tokensOf(f) = {r.token : r \in granted(id, f)}
  <2>1. ASSUME NEW t \in tokensOf(f) PROVE \E r \in granted(id, f) : r.token = t
    <3>1. PICK s \in humans : f[s] = t
      BY <1>2 DEF tokensOf
    <3> DEFINE r == [token |-> f[s], session |-> id, seat |-> s]
    <3>2. r \in granted(id, f) /\ r.token = t
      BY <1>5, <3>1
    <3> QED
      BY <3>2
  <2> QED
    BY <1>6, <2>1
<1> QED
  BY <1>1, <1>2, <1>5, <1>6, <1>7, <1>8

(* Create and a patch of the seats come to the same: the session's former
   tokens go and those of the new seats come. *)
Regrant(id, humans, f) ==
    /\ f \in buildSeats(humans)
    /\ isLive(sessions'[id])
    /\ sessions'[id].seats = f /\ sessions'[id].config.humans = humans
    /\ \A k \in Ids : k # id => sessions'[k] = sessions[k]
    /\ tokenIndex' = others(id) \cup granted(id, f)
    /\ minted' = minted \cup tokensOf(f)

LEMMA CreateRegrants ==
    ASSUME TypeOK, IndexInv, NEW id \in Ids, NEW cfg \in Config, Create(id, cfg)
    PROVE  \E f : Regrant(id, cfg.humans, f)
<1>1. PICK f \in buildSeats(cfg.humans) :
        /\ sessions' = [sessions EXCEPT ![id] = [state |-> "draft", config |-> cfg, seats |-> f]]
        /\ tokenIndex' = tokenIndex \cup granted(id, f)
        /\ minted' = minted \cup tokensOf(f)
  BY DEF Create
<1>2. others(id) = tokenIndex
  BY NoTokensBefore DEF Create, isLive
<1> QED
  BY <1>1, <1>2 DEF Regrant, TypeOK, isLive

LEMMA UpdateRegrants ==
    ASSUME TypeOK, IndexInv, NEW id \in Ids, NEW patch \in Patch, patch.replace,
           Update(id, patch)
    PROVE  \E f : Regrant(id, patch.humans, f)
<1> DEFINE cfg == merged(sessions[id].config, patch)
<1>1. PICK f \in buildSeats(patch.humans) :
        /\ sessions' = [sessions EXCEPT ![id].config = cfg, ![id].seats = f]
        /\ tokenIndex' = forget(sessions[id].seats) \cup granted(id, f)
        /\ minted' = minted \cup tokensOf(f)
  BY DEF Update
<1>2. cfg.humans = patch.humans
  BY DEF merged
<1> HIDE DEF cfg
<1>3. sessions[id] \in Entry /\ sessions \in [Ids -> Entry] /\ sessions[id].state = "draft"
  BY DEF TypeOK, Update, updatable
<1>4. forget(sessions[id].seats) = others(id)
  BY <1>3, ForgetsOneSession DEF isLive
<1>5. sessions'[id].state = "draft" /\ sessions'[id].config = cfg /\ sessions'[id].seats = f
  BY <1>1, <1>3 DEF Entry
<1>6. \A k \in Ids : k # id => sessions'[k] = sessions[k]
  BY <1>1, <1>3
<1> QED
  BY <1>1, <1>2, <1>4, <1>5, <1>6 DEF Regrant, isLive

LEMMA RegrantKeepsIndex ==
    ASSUME TypeOK, IndexInv, NEW id \in Ids, NEW humans \in SUBSET Seats, NEW f,
           Regrant(id, humans, f)
    PROVE  IndexInv'
<1> USE DEF Regrant
<1>1. \A r \in tokenIndex : r.session \in Ids /\ r.seat \in Seats
  BY DEF TypeOK, Known
<1>2. \A r \in tokenIndex' : isLive(sessions'[r.session])
                              /\ sessions'[r.session].seats[r.seat] = r.token
  <2>1. ASSUME NEW r \in others(id) PROVE isLive(sessions'[r.session])
                                          /\ sessions'[r.session].seats[r.seat] = r.token
    BY <1>1, <2>1 DEF others, IndexInv, TokenIndexAgrees
  <2>2. ASSUME NEW r \in granted(id, f) PROVE isLive(sessions'[r.session])
                                              /\ sessions'[r.session].seats[r.seat] = r.token
    BY <2>2, SeatsBuilt
  <2> QED
    BY <2>1, <2>2
<1>3. ASSUME NEW k \in Ids, NEW s \in Seats, isLive(sessions'[k])
      PROVE  IF s \in sessions'[k].config.humans
             THEN [token |-> sessions'[k].seats[s], session |-> k, seat |-> s] \in tokenIndex'
             ELSE sessions'[k].seats[s] = None
  <2>1. CASE k = id
    BY <2>1, SeatsBuilt
  <2>2. CASE k # id
    BY <1>3, <2>2 DEF others, IndexInv, TokenIndexAgrees
  <2> QED
    BY <2>1, <2>2
<1>4. ASSUME NEW q \in tokenIndex', NEW r \in tokenIndex', q.token = r.token PROVE q = r
  <2>1. \A x \in granted(id, f) : x.token \notin minted
    BY SeatsBuilt
  <2>2. \A x \in others(id) : x.token \in minted /\ x \in tokenIndex
    BY DEF others, IndexInv
  <2>3. CASE q \in others(id) /\ r \in others(id)
    BY <1>4, <2>2, <2>3 DEF IndexInv
  <2>4. CASE q \in granted(id, f) /\ r \in granted(id, f)
    BY <1>4, <2>4, SeatsBuilt
  <2> QED
    BY <1>4, <2>1, <2>2, <2>3, <2>4
<1>5. \A r \in tokenIndex' : r.token \in minted'
  BY SeatsBuilt DEF others, IndexInv
<1> QED
  BY <1>2, <1>3, <1>4, <1>5 DEF IndexInv, TokenIndexAgrees, isLive

(* A step that moves no seat and neither begins nor ends a session. *)
LEMMA SameSeats ==
    ASSUME TypeOK, IndexInv, UNCHANGED <<tokenIndex, minted>>,
           \A k \in Ids : /\ isLive(sessions'[k]) <=> isLive(sessions[k])
                         /\ sessions'[k].seats = sessions[k].seats
                         /\ sessions'[k].config.humans = sessions[k].config.humans
    PROVE  IndexInv'
  BY DEF IndexInv, TokenIndexAgrees, TypeOK, Known, isLive

expired == {id \in Ids : sessions[id].state = "expired"}

(* What a step is to the registry. *)
LEMMA StepKinds ==
    ASSUME TypeOK, IndexInv, [Next]_vars
    PROVE  \/ \E id \in Ids, humans \in SUBSET Seats : \E f :
                Regrant(id, humans, f) /\ id \notin expired
           \/ \E id \in Ids : Delete(id)
           \/ /\ UNCHANGED <<tokenIndex, minted>>
              /\ \A k \in Ids : /\ isLive(sessions'[k]) <=> isLive(sessions[k])
                                /\ sessions'[k].seats = sessions[k].seats
                                /\ sessions'[k].config.humans = sessions[k].config.humans
                                /\ sessions'[k].state = "expired" <=> sessions[k].state = "expired"
<1> DEFINE Still(k) == /\ isLive(sessions'[k]) <=> isLive(sessions[k])
                       /\ sessions'[k].seats = sessions[k].seats
                       /\ sessions'[k].config.humans = sessions[k].config.humans
                       /\ sessions'[k].state = "expired" <=> sessions[k].state = "expired"
<1>0. sessions \in [Ids -> Entry]
  BY DEF TypeOK
<1>1. ASSUME NEW id \in Ids, NEW cfg \in Config, Create(id, cfg)
      PROVE  \E humans \in SUBSET Seats : \E f : Regrant(id, humans, f) /\ id \notin expired
  BY <1>1, CreateRegrants DEF Config, Create, expired
<1>2. ASSUME NEW id \in Ids, NEW patch \in Patch, patch.replace, Update(id, patch)
      PROVE  \E humans \in SUBSET Seats : \E f : Regrant(id, humans, f) /\ id \notin expired
  BY <1>2, UpdateRegrants DEF Patch, Update, updatable, expired
<1>3. ASSUME NEW id \in Ids, NEW patch \in Patch, ~patch.replace, Update(id, patch)
      PROVE  UNCHANGED <<tokenIndex, minted>> /\ \A k \in Ids : Still(k)
  <2> DEFINE cfg == merged(sessions[id].config, patch)
  <2>1. sessions' = [sessions EXCEPT ![id].config = cfg] /\ UNCHANGED <<tokenIndex, minted>>
    BY <1>3 DEF Update
  <2>2. cfg.humans = sessions[id].config.humans
    BY <1>3 DEF merged
  <2> HIDE DEF cfg
  <2>3. /\ sessions'[id].config = cfg /\ sessions'[id].seats = sessions[id].seats
        /\ sessions'[id].state = sessions[id].state
    BY <1>0, <2>1 DEF Entry
  <2>4. \A k \in Ids : k # id => sessions'[k] = sessions[k]
    BY <1>0, <2>1
  <2> QED
    BY <2>1, <2>2, <2>3, <2>4 DEF isLive
<1>4. ASSUME NEW id \in Ids, Start(id) \/ OnDone(id)
      PROVE  UNCHANGED <<tokenIndex, minted>> /\ \A k \in Ids : Still(k)
  <2>1. /\ sessions' = [sessions EXCEPT ![id].state = "active"] /\ sessions[id].state = "draft"
        \/ sessions' = [sessions EXCEPT ![id] = record(@)]
    BY <1>4 DEF Start, OnDone
  <2>2. \A k \in Ids : k # id => sessions'[k] = sessions[k]
    BY <1>0, <2>1
  <2>3. Still(id)
    BY <1>0, <2>1 DEF record, isLive, Entry
  <2>4. UNCHANGED <<tokenIndex, minted>>
    BY <1>4 DEF Start, OnDone
  <2> QED
    BY <2>2, <2>3, <2>4
<1>5. CASE UNCHANGED registry
  BY <1>5 DEF registry
<1> QED
  BY <1>1, <1>2, <1>3, <1>4, <1>5
     DEF Next, ManagerNext, HandlerNext, GameEnds, Shutdown, LookupToken, SubscribePlayer,
         Disconnect, vars

LEMMA DeleteKeepsIndex ==
    ASSUME TypeOK, IndexInv, NEW id \in Ids, Delete(id)
    PROVE  /\ IndexInv'
           /\ tokenIndex' = others(id) /\ minted' = minted
           /\ expired' = expired \cup {id}
<1>1. /\ sessions \in [Ids -> Entry]
      /\ sessions' = [sessions EXCEPT ![id].state = "expired"]
  BY DEF TypeOK, Delete
<1>2. tokenIndex' = others(id) /\ minted' = minted
  BY ForgetsOneSession DEF Delete
<1>3. sessions'[id].state = "expired" /\ \A k \in Ids : k # id => sessions'[k] = sessions[k]
  BY <1>1 DEF Entry
<1>4. expired' = expired \cup {id}
  BY <1>3 DEF expired
<1>5. IndexInv'
  BY <1>2, <1>3 DEF IndexInv, TokenIndexAgrees, others, isLive, TypeOK, Known
<1> QED
  BY <1>2, <1>4, <1>5

LEMMA IndexNext == TypeOK /\ IndexInv /\ [Next]_vars => IndexInv'
  BY StepKinds, RegrantKeepsIndex, DeleteKeepsIndex, SameSeats

LEMMA IndexInit == Init => IndexInv
  BY DEF Init, IndexInv, TokenIndexAgrees, isLive

(* Whatever is created, patched, started, deleted and finished in any order,
   the token index resolves exactly the tokens of the seats of the sessions
   that are there. *)
THEOREM IndexAgrees == Spec => []TokenIndexAgrees
<1>1. IndexInv => TokenIndexAgrees
  BY DEF IndexInv
<1> QED
  BY <1>1, IndexInit, IndexNext, TypeCorrect, PTL DEF Spec

(* The Manager keeps the promise of SeatTokens: a token is issued once, for
   one seat, and is never valid again once it is replaced or its session is
   deleted. *)
THEOREM ManagerKeepsPromise == Spec => TokenSpec
<1>1. Init => Promise!TokenInit
  BY DEF Init, Promise!TokenInit
<1>2. TypeOK /\ IndexInv /\ [Next]_vars => [Promise!TokenNext]_(Promise!tokenVars)
  <2> SUFFICES ASSUME TypeOK, IndexInv, [Next]_vars
               PROVE  [Promise!TokenNext]_(Promise!tokenVars)
    OBVIOUS
  <2>1. ASSUME NEW id \in Ids, NEW humans \in SUBSET Seats, NEW f, Regrant(id, humans, f),
               id \notin expired
        PROVE  Promise!Issue(id)
    <3> DEFINE new == granted(id, f)
    <3>1. /\ new \subseteq {r \in Promise!Grant : r.session = id /\ r.token \notin minted}
          /\ \A q, r \in new : q # r => q.token # r.token /\ q.seat # r.seat
          /\ tokensOf(f) = {r.token : r \in new}
      BY <2>1, SeatsBuilt DEF Regrant, Promise!Grant, Known
    <3>2. tokenIndex' = (tokenIndex \ Promise!of(id)) \cup new
      BY <2>1 DEF Regrant, others, Promise!of
    <3>3. minted' = minted \cup {r.token : r \in new}
      BY <2>1, <3>1 DEF Regrant
    <3>4. expired' = expired
      BY <2>1 DEF Regrant, expired, isLive
    <3> HIDE DEF new
    <3> QED
      BY <2>1, <3>1, <3>2, <3>3, <3>4 DEF Promise!Issue, expired
  <2>2. ASSUME NEW id \in Ids, Delete(id) PROVE Promise!Close(id)
    BY <2>2, DeleteKeepsIndex DEF Promise!Close, Promise!of, others, expired
  <2>3. ASSUME UNCHANGED <<tokenIndex, minted>>,
               \A k \in Ids : sessions'[k].state = "expired" <=> sessions[k].state = "expired"
        PROVE  UNCHANGED Promise!tokenVars
    BY <2>3 DEF Promise!tokenVars
  <2> QED
    BY <2>1, <2>2, <2>3, StepKinds DEF Promise!TokenNext
<1> QED
  BY <1>1, <1>2, IndexInit, IndexNext, TypeCorrect, PTL DEF Spec, TokenSpec, Promise!TokenSpec

-----------------------------------------------------------------------------
(* Tokens that handlers hold across their two calls. *)

(* A token that was looked up is an old one, so that no later session or patch
   can give it to another seat. *)
Held(h) ==
    handlers[h].pc # "idle" =>
        LET r == handlers[h].as IN
        /\ r.token \in minted
        /\ \A k \in tokenIndex : k.token = r.token => k = r
        /\ handlers[h].pc = "connected" => goroutines[r.session] # "none"

HeldInv == \A h \in Handlers : Held(h)

(* Tokens are only added, and what comes into the index is new. *)
LEMMA IndexGrows ==
    ASSUME TypeOK, IndexInv, [Next]_vars
    PROVE  minted \subseteq minted' /\ \A k \in tokenIndex' : k \in tokenIndex \/ k.token \notin minted
<1>1. ASSUME NEW id \in Ids, NEW humans \in SUBSET Seats, NEW f, Regrant(id, humans, f)
      PROVE  minted \subseteq minted' /\ \A k \in tokenIndex' : k \in tokenIndex \/ k.token \notin minted
  <2>1. \A r \in granted(id, f) : r.token \notin minted
    BY <1>1, SeatsBuilt DEF Regrant
  <2> QED
    BY <1>1, <2>1 DEF Regrant, others
<1>2. ASSUME NEW id \in Ids, Delete(id) PROVE minted' = minted /\ tokenIndex' \subseteq tokenIndex
  BY <1>2, DeleteKeepsIndex DEF others
<1> QED
  BY <1>1, <1>2, StepKinds

LEMMA GoroutinesStay ==
    ASSUME TypeOK, [Next]_vars, NEW id \in Ids, goroutines[id] # "none"
    PROVE  goroutines'[id] # "none"
<1>1. goroutines' = goroutines \/ \E k \in Ids : \E g \in {"running", "done"} :
            goroutines' = [goroutines EXCEPT ![k] = g]
  BY DEF Next, ManagerNext, HandlerNext, Create, Update, Start, Delete, OnDone, GameEnds, Shutdown,
         LookupToken, SubscribePlayer, Disconnect, running, vars
<1> QED
  BY <1>1 DEF TypeOK

(* A handler changes only what it holds itself. *)
LEMMA HandlerSteps ==
    ASSUME TypeOK, [Next]_vars, NEW h \in Handlers
    PROVE  \/ handlers'[h] = handlers[h]
           \/ handlers'[h] = [pc |-> "idle"]
           \/ /\ UNCHANGED <<registry, running>>
              /\ \E r \in tokenIndex : handlers'[h] = [pc |-> "authenticated", as |-> r]
           \/ /\ UNCHANGED <<registry, running>>
              /\ handlers[h].pc = "authenticated"
              /\ sessions[handlers[h].as.session].state = "active"
              /\ handlers'[h] = [pc |-> "connected", as |-> handlers[h].as]
<1>1. CASE ManagerNext \/ UNCHANGED vars
  BY <1>1 DEF ManagerNext, Create, Update, Start, Delete, OnDone, GameEnds, Shutdown, vars
<1>2. ASSUME NEW g \in Handlers, LookupToken(g) \/ SubscribePlayer(g) \/ Disconnect(g), g # h
      PROVE  handlers'[h] = handlers[h]
  BY <1>2 DEF LookupToken, SubscribePlayer, Disconnect, TypeOK
<1>3. CASE LookupToken(h) \/ SubscribePlayer(h) \/ Disconnect(h)
  BY <1>3 DEF LookupToken, SubscribePlayer, Disconnect, TypeOK
<1> QED
  BY <1>1, <1>2, <1>3 DEF Next, HandlerNext

LEMMA HeldNext == TypeOK /\ LifeInv /\ IndexInv /\ HeldInv /\ [Next]_vars => HeldInv'
<1> SUFFICES ASSUME TypeOK, LifeInv, IndexInv, HeldInv, [Next]_vars, NEW h \in Handlers
             PROVE  Held(h)'
  BY DEF HeldInv
<1>1. handlers[h] \in Handler
  BY DEF TypeOK
<1>2. CASE handlers'[h] = handlers[h]
  <2> SUFFICES ASSUME handlers[h].pc # "idle"
               PROVE  LET r == handlers[h].as IN
                      /\ r.token \in minted'
                      /\ \A k \in tokenIndex' : k.token = r.token => k = r
                      /\ handlers[h].pc = "connected" => goroutines'[r.session] # "none"
    BY <1>2 DEF Held
  <2> DEFINE r == handlers[h].as
  <2>1. /\ r.session \in Ids /\ r.token \in minted
        /\ \A k \in tokenIndex : k.token = r.token => k = r
        /\ handlers[h].pc = "connected" => goroutines[r.session] # "none"
    BY <1>1 DEF HeldInv, Held, Handler, Known
  <2>2. r.token \in minted' /\ \A k \in tokenIndex' : k.token = r.token => k = r
    BY <2>1, IndexGrows
  <2>3. handlers[h].pc = "connected" => goroutines'[r.session] # "none"
    BY <2>1, GoroutinesStay
  <2> QED
    BY <2>2, <2>3
<1>3. CASE handlers'[h] = [pc |-> "idle"]
  BY <1>3 DEF Held
<1>4. ASSUME UNCHANGED <<registry, running>>, NEW r \in tokenIndex,
             handlers'[h] = [pc |-> "authenticated", as |-> r]
      PROVE  Held(h)'
  <2>1. r.token \in minted /\ \A k \in tokenIndex : k.token = r.token => k = r
    BY DEF IndexInv
  <2> QED
    BY <1>4, <2>1 DEF Held, registry
<1>5. CASE /\ UNCHANGED <<registry, running>>
           /\ handlers[h].pc = "authenticated"
           /\ sessions[handlers[h].as.session].state = "active"
           /\ handlers'[h] = [pc |-> "connected", as |-> handlers[h].as]
  <2> DEFINE r == handlers[h].as
  <2>1. /\ r.session \in Ids /\ r.token \in minted
        /\ \A k \in tokenIndex : k.token = r.token => k = r
    BY <1>1, <1>5 DEF HeldInv, Held, Handler, Known
  <2>2. goroutines[r.session] # "none"
    BY <1>5, <2>1 DEF LifeInv, EntryOK
  <2> QED
    BY <1>5, <2>1, <2>2 DEF Held, registry, running
<1> QED
  BY <1>2, <1>3, <1>4, <1>5, HandlerSteps

(* A handler that connects with a token it looked up before is at a seat of
   the game being played, or its token no longer counts: an update or a
   deletion in between cannot give the token to anything else
   (handlePlayerWS: LookupToken, then SubscribePlayer). *)
THEOREM HeldTokensAreSafe == Spec => []HeldTokensKeepTheirSeat
<1>1. Init => HeldInv
  BY DEF Init, HeldInv, Held
<1>2. TypeOK /\ LifeInv /\ IndexInv /\ HeldInv => HeldTokensKeepTheirSeat
  <2> SUFFICES ASSUME TypeOK, LifeInv, IndexInv, HeldInv, NEW h \in Handlers, handlers[h].pc # "idle"
               PROVE  LET r == handlers[h].as IN
                      /\ \A k \in tokenIndex : k.token = r.token => k = r
                      /\ handlers[h].pc = "connected" =>
                          /\ goroutines[r.session] # "none"
                          /\ r \in tokenIndex => r.seat \in playing[r.session].humans
    BY DEF HeldTokensKeepTheirSeat
  <2> DEFINE r == handlers[h].as
  <2>1. /\ r \in Known
        /\ \A k \in tokenIndex : k.token = r.token => k = r
        /\ handlers[h].pc = "connected" => goroutines[r.session] # "none"
    BY DEF HeldInv, Held, TypeOK, Handler
  <2>2. ASSUME handlers[h].pc = "connected", r \in tokenIndex
        PROVE  r.seat \in playing[r.session].humans
    <3>1. r.session \in Ids /\ r.seat \in Seats /\ r.token \in Tokens /\ r.token # None
      BY <2>1, NoneAssumption DEF Known
    <3>2. isLive(sessions[r.session]) /\ sessions[r.session].seats[r.seat] = r.token
      BY <2>2 DEF IndexInv, TokenIndexAgrees
    <3>3. r.seat \in sessions[r.session].config.humans
      BY <3>1, <3>2 DEF IndexInv, TokenIndexAgrees
    <3>4. playing[r.session] = sessions[r.session].config
      BY <2>1, <2>2, <3>1, <3>2 DEF LifeInv, EntryOK, isLive
    <3> QED
      BY <3>3, <3>4
  <2> QED
    BY <2>1, <2>2
<1> QED
  BY <1>1, <1>2, HeldNext, LifeInit, LifeNext, IndexInit, IndexNext, TypeCorrect, PTL DEF Spec
=============================================================================
