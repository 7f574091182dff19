--------------------------- MODULE MCSessionLoop ---------------------------
(* Small tables for TLC. *)
EXTENDS SessionLoop

OneHuman  == {0}
TwoHumans == {0, 1}
Seats2    == {0, 1}
Seats3    == {0, 1, 2}

=============================================================================
