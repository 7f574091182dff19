-------------------------- MODULE MCTerminalClient --------------------------
EXTENDS TerminalClient

(* Timers of turns that are over are not told apart.                       *)
FewTimers == ticks <= 2

=============================================================================
