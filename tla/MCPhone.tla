-------------------------------- MODULE MCPhone --------------------------------
(* The instances of Phone that TLC checks. *)
EXTENDS Phone

CONSTANTS o1, o2, f1, c1, c2
=============================================================================
