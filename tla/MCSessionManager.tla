-------------------------- MODULE MCSessionManager --------------------------
(* Small instances of SessionManager.  Identifiers and tokens are random and
   nothing orders them, so permuting them is sound for the safety runs. *)
EXTENDS SessionManager, TLC

Interchangeable == Permutations(Ids) \cup Permutations(Tokens)
=============================================================================
