---------------------------- MODULE MCLoamOutbox ----------------------------
(* LoamOutbox with a user who writes two events and redeems an invite. *)
EXTENDS LoamOutbox

CONSTANTS e1, e2, c1
=============================================================================
