--------------------------- MODULE MCScriptClient ---------------------------
EXTENDS ScriptClient

chooses(action) == [action |-> action, may |-> {"choice"}]

WholeScript == [passing |-> chooses("pass_cards"), playing |-> chooses("play_card")]

(* An entry for either phase, and each chooses what the snapshot allows.   *)
MCWholeScript == {WholeScript}

(* Entries that fail, miscount, are missing, and stand in the wrong phase. *)
MCScripts ==
    {WholeScript,
     [playing |-> [action |-> "play_card", may |-> {"choice", "failure"}]],
     [passing |-> [action |-> "pass_cards", may |-> {"miscount", "failure"}],
      playing |-> chooses("pass_cards"),
      interlude |-> chooses("play_card")]}

=============================================================================
