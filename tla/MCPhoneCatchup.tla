----------------------------- MODULE MCPhoneCatchup -----------------------------
(* The instances of PhoneCatchup that TLC checks. *)
EXTENDS PhoneCatchup

CONSTANTS p1, p2
=============================================================================
