-------------------------- MODULE MCServerShutdown --------------------------
(* A small instance of ServerShutdown. *)
EXTENDS ServerShutdown, TLC
=============================================================================
