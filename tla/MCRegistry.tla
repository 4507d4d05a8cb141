------------------------------ MODULE MCRegistry ------------------------------
(* Registry with three session ids and two links, which are alike. *)
EXTENDS Registry, TLC

CONSTANTS s1, s2, s3, link1, link2

Same == Permutations(Ids) \cup Permutations(Codes)
=============================================================================
