------------------------------ MODULE MCOverlay ------------------------------
(* Overlay with two named instances, two events, a question and two ports. *)
EXTENDS Overlay

CONSTANTS i1, i2, e1, e2, q1, p1, p2
=============================================================================
