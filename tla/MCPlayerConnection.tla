------------------------- MODULE MCPlayerConnection -------------------------
(* Two overlapping connections of one seat, with the smallest channels. *)
EXTENDS PlayerConnection, TLC
=============================================================================
