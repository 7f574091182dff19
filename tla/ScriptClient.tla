---------------------------- MODULE ScriptClient ----------------------------
(***************************************************************************)
(* cardcore-cli (cmd/cardcore-cli): one run of the program from its flags  *)
(* to its exit status, over the connection of ClientLink.                  *)
(*                                                                         *)
(* The program has one goroutine: what it does between two reads depends   *)
(* on nothing another process changes, so that a read, the step it leads   *)
(* to, the stamp and the write of the command are one action.              *)
(***************************************************************************)
EXTENDS ClientLink

CONSTANTS
    Scripts,    \* for some phases an entry: its action, which need not be the
                \* phase's, and what its selector may come to on a snapshot
    MaxClients  \* bound: processes that sit at the seat one after another

(* An entry's selector makes a choice the snapshot allows, picks the wrong *)
(* number of cards to pass, or fails; parseScript looks at neither.        *)
Entry == {e \in [action : Gameplay, may : (SUBSET {"choice", "miscount", "failure"}) \ {{}}] :
            "miscount" \in e.may => e.action = "pass_cards"}

ASSUME ScriptAssumption ==
    /\ \A s \in Scripts : \E D \in SUBSET (Playable \cup {"interlude"}) : s \in [D -> Entry]
    /\ MaxClients \in Nat \ {0}

VARIABLES
    cfg,        \* cliConfig
    script,
    stage,      \* where run is
    actionSeq,  \* ScriptExecutor.actionSeq
    exit,       \* none, ok or error
    blame       \* history: what an error exit was about

program == <<cfg, script, stage, actionSeq, exit, blame>>
vars == <<link, program>>

-----------------------------------------------------------------------------
(* parseFlags: which of -script, -observe, -session-id, -token and         *)
(* -delete-on-exit may be given together.                                  *)

Flags == [script : BOOLEAN, observe : BOOLEAN, session : BOOLEAN, token : BOOLEAN,
          deleteOnExit : BOOLEAN]

parseFlags ==
    {f \in Flags : /\ f.script \/ f.observe
                   /\ ~(f.observe /\ f.session)
                   /\ f.session <=> f.token}

Init ==
    /\ LinkInit
    /\ cfg \in parseFlags
    /\ script \in Scripts
    /\ life = IF cfg.session THEN "live" ELSE "none"
    /\ human = ~cfg.observe
    /\ stage = IF cfg.session THEN "connect" ELSE "create"
    /\ actionSeq = 0
    /\ exit = "none" /\ blame = "none"

goes(to) ==
    /\ stage' = to
    /\ UNCHANGED <<cfg, script, actionSeq, exit, blame>>

fails(why) ==
    /\ stage' = "exited"
    /\ exit' = "error"
    /\ blame' = why
    /\ UNCHANGED <<cfg, script, actionSeq>>

stays == UNCHANGED <<cfg, script, stage, actionSeq, exit, blame>>

-----------------------------------------------------------------------------
(* run, up to the game loop.  A session that was created and not started   *)
(* is left as it is.                                                       *)

CreateSession ==
    /\ stage = "create"
    /\ \/ life' = "draft" /\ goes("start")
       \/ life' = "none" /\ fails("setup")
    /\ UNCHANGED <<human, seq, table, cache, channels, up, conn, client, history>>

StartSession ==
    /\ stage = "start"
    /\ \/ life' = "live" /\ goes("connect")
       \/ life' = "draft" /\ fails("setup")
    /\ UNCHANGED <<human, seq, table, cache, channels, up, conn, client, history>>

Dial ==
    /\ stage = "connect"
    /\ \/ Connect /\ goes(IF cfg.observe THEN "observe" ELSE "script")
       \/ fails("setup") /\ UNCHANGED link

(* The script is read when the session is already running.                 *)
ReadScript ==
    /\ stage = "script"
    /\ \/ goes("play")
       \/ fails("script")
    /\ UNCHANGED link

-----------------------------------------------------------------------------
(* ScriptExecutor.Step and the builder. *)

isTransitional(ph) == ph = "interlude"

scripted(ph) == ph \in DOMAIN script

winsOnScores(m) == m.phase \notin Playable \* mutant: any scores are final ones

wins(m) == m.phase = "game_over"

ignores(m) == ~wins(m) /\ (~m.mine \/ (~scripted(m.phase) /\ isTransitional(m.phase)))

hasEntry(m) == ~wins(m) /\ m.mine /\ scripted(m.phase)

isLost(m) ==
    \/ ~wins(m) /\ m.mine /\ ~scripted(m.phase) /\ ~isTransitional(m.phase)
    \/ hasEntry(m) /\ "failure" \in script[m.phase].may

-----------------------------------------------------------------------------
(* runPlayer. *)

fresh(m) == m.type = "snapshot" /\ ReadSnapshot(m)

unsent == UNCHANGED <<session, up, client, history>>

leaves == goes(IF cfg.deleteOnExit /\ ~cfg.observe THEN "delete" ELSE "done")

StepNothing ==
    /\ stage = "play"
    /\ \E m \in readable : fresh(m) /\ ignores(m)
    /\ stays
    /\ unsent

StepLost ==
    /\ stage = "play"
    /\ \E m \in readable : fresh(m) /\ isLost(m)
    /\ fails("script")
    /\ unsent

StepDone ==
    /\ stage = "play"
    /\ \E m \in readable : fresh(m) /\ wins(m)
    /\ leaves
    /\ unsent

(* The write fails when the server has closed the WebSocket already.       *)
StepSends ==
    /\ stage = "play"
    /\ \E m \in readable :
        /\ fresh(m)
        /\ hasEntry(m)
        /\ actionSeq' = actionSeq + 1
        /\ \/ /\ \E picked \in script[m.phase].may \ {"failure"} :
                    write(stamp(newCommand(script[m.phase].action, actionSeq', m.seq,
                                           picked = "choice")))
              /\ UNCHANGED <<stage, exit, blame>>
           \/ /\ life \in {"over", "broken"}
              /\ script[m.phase].may # {"failure"}
              /\ stage' = "exited" /\ exit' = "error" /\ blame' = "closed"
              /\ UNCHANGED up
    /\ UNCHANGED <<session, client, history, cfg, script>>

resyncsNever(code) == FALSE \* mutant: stale_seq is an error like the others

resyncs(code) == code = "stale_seq"

(* What runPlayer and runObserver make of an error message.                *)
ReadsError ==
    /\ stage \in {"play", "observe"}
    /\ \E m \in readable :
        /\ m.type = "error"
        /\ ReadSnapshot(m)
        /\ \/ resyncs(m.code) /\ stays
           \/ m.code = "game_over" /\ leaves
           \/ ~resyncs(m.code) /\ m.code # "game_over" /\ fails(m.code)
    /\ UNCHANGED <<session, up, client, history>>

ReadsClose ==
    /\ stage \in {"play", "observe"}
    /\ \E code \in closeCodes : readsClose(code)
    /\ fails("closed")
    /\ UNCHANGED <<session, up, conn, client, history>>

Discard == stage \in {"play", "observe"} /\ DiscardSnapshot /\ UNCHANGED program

-----------------------------------------------------------------------------
(* runObserver, and what follows the game. *)

Observe ==
    /\ stage = "observe"
    /\ \E m \in readable :
        /\ fresh(m)
        /\ \/ wins(m) /\ leaves
           \/ ~wins(m) /\ stays
           \/ fails("stdout")
    /\ unsent

(* A DELETE that fails is only logged.  The session's grace period ends    *)
(* with it.                                                                *)
DeleteSession ==
    /\ stage = "delete"
    /\ goes("done")
    /\ life' = life \/ (life = "grace" /\ life' = "over")
    /\ UNCHANGED <<human, seq, table, cache, channels, up, conn, client, history>>

Exit ==
    /\ stage = "done"
    /\ stage' = "exited"
    /\ exit' = "ok"
    /\ UNCHANGED <<link, cfg, script, actionSeq, blame>>

(* The process is killed and another one is started with the session's id  *)
(* and the seat's token.                                                   *)
Rejoin ==
    /\ stage = "play"
    /\ client < MaxClients
    /\ Leave
    /\ stage' = "connect"
    /\ cfg' = [cfg EXCEPT !.session = TRUE, !.token = TRUE]
    /\ actionSeq' = 0
    /\ UNCHANGED <<script, exit, blame>>

Setup == CreateSession \/ StartSession \/ Dial \/ ReadScript
Steps == StepNothing \/ StepLost \/ StepDone \/ StepSends \/ Observe
Reads == Steps \/ ReadsError \/ ReadsClose \/ Discard
Server == (Handlers \/ TurnTimeout) /\ UNCHANGED program

Next ==
    \/ Server
    \/ Break /\ UNCHANGED program
    \/ Setup \/ Reads \/ DeleteSession \/ Exit
    \/ Rejoin

Spec == Init /\ [][Next]_vars

(* The session keeps going, its timer and the AIs included, and the        *)
(* program keeps reading and writing.  Nothing makes it fail or come back. *)
Fairness ==
    /\ WF_vars(Server)
    /\ WF_vars(Setup)
    /\ WF_vars(Reads)
    /\ WF_vars(DeleteSession \/ Exit)

FairSpec == Spec /\ Fairness

-----------------------------------------------------------------------------
(* Properties. *)

errorCodes == {"stale_seq", "game_paused", "out_of_turn", "wrong_phase", "illegal_move",
               "malformed_message", "pause_not_allowed", "game_over", "internal_error"}

messages ==
    [type : {"snapshot"}, seq : Nat, mine : BOOLEAN, phase : Phases \cup {"paused"}]
    \cup [type : {"error"}, seq : Nat, code : errorCodes]

(* Every variable has its type; a program that has exited has a status.    *)
TypeOK ==
    /\ life \in {"none", "draft", "live", "grace", "over", "broken"}
    /\ phase \in Phases
    /\ entry \in {"registered", "drained", "stranded"}
    /\ \A i \in DOMAIN subCh : subCh[i] \in messages
    /\ \A i \in DOMAIN outCh : outCh[i] \in messages
    /\ \A i \in DOMAIN up : up[i].type \in Gameplay /\ up[i].by \in 1 .. client
    /\ Len(subCh) <= SubCap
    /\ maxSeen \in 0 .. seq
    /\ cfg \in parseFlags
    /\ stage \in {"create", "start", "connect", "script", "play", "observe",
                  "delete", "done", "exited"}
    /\ stage = "exited" <=> exit # "none"

(* Exit status 0 means the game was played to its end, whatever way the    *)
(* program learns of it, the snapshot, the error message or neither.  With *)
(* one exception: if the session fails or is ended in the middle of the    *)
(* game, an action found in the queue is answered with game_over           *)
(* (drainCmds), and the program that sent it reports success (runPlayer).  *)
SuccessMeansGameOver ==
    exit = "ok" => phase = "game_over" \/ (life = "broken" /\ actionSeq > 0)

(* Scripts that parseScript lets through and the session does not.         *)
misplaced == \E ph \in Playable \cap DOMAIN script : phaseOf[script[ph].action] # ph
miscounts == \E ph \in Playable \cap DOMAIN script : "miscount" \in script[ph].may

(* As long as the session runs, nothing the script sends is answered with  *)
(* an error that ends the program: commands cross timeouts and come late,  *)
(* but late ones are only told to resync (runPlayer, ADR-013).  Excepted   *)
(* are a full command queue, an entry for the action of another phase, and *)
(* one that picks the wrong number of cards.                               *)
RunningSessionRefusesNothing ==
    blame \in errorCodes /\ life \notin {"over", "broken"} =>
        \/ blame = "internal_error"
        \/ blame = "wrong_phase" /\ misplaced
        \/ blame = "malformed_message" /\ miscounts

(* When nothing is on its way the program has looked at the table as it    *)
(* is, unless the session had to drop a snapshot of it (ADR-011) or        *)
(* subscribed the program when the game was over.                          *)
QuietProgramIsUpToDate ==
    /\ stage \in {"play", "observe"} /\ entry = "registered"
    /\ subCh = <<>> /\ outCh = <<>> /\ up = <<>> /\ ~lost
    => shown = seq

(* An action is applied to the table it was chosen on, whatever the AIs    *)
(* and the timer did while it was under way (handlePlay's seq check).      *)
ActionFitsTable ==
    [][cache' # cache => Head(up).saw = seq]_vars

(* The program comes to an end: it wins through lost snapshots and lost    *)
(* turns (api.md, Turn timeout).  Excepted is one that came back to the    *)
(* seat: a late command of its predecessor may stop the timer, its own     *)
(* actions may bear ids the session knows already, and, back only when the *)
(* session is gone, it may be subscribed to nothing (drainCmds).           *)
ScriptEnds == <>(stage = "exited" \/ entry = "stranded" \/ overtaken \/ swallowed)

(* Coming back takes no special care: nothing a new process sends at a     *)
(* seat is taken for a replay of what an earlier one sent, so that it      *)
(* comes to an end like any other.                                         *)
RejoinedScriptEnds == <>(stage = "exited" \/ entry = "stranded" \/ overtaken)

=============================================================================
