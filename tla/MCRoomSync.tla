----------------------------- MODULE MCRoomSync -----------------------------
(* RoomSync with its authors fixed: odd events are written by p1, even ones by
   p2, so that their ids interleave and every range split separates them.
   Beside it the same search as a plain function, Reconcile, on every pair of
   sets of up to four events with one or two wall times. *)
EXTENDS RoomSync, Reconcile

CONSTANTS p1, p2, p3

MCAuthorOf == [e \in Ids |-> IF e % 2 = 1 THEN p1 ELSE p2]

\* reconcile() returns what each side lacks, neither more nor less, however the
\* ranges happen to be cut; its twin's test (sync.test.mjs) tries one pair of logs.
ASSUME ReconcileAssumption == ReconcilesExactly(1 .. 4, 1 .. 2, 1 .. 2, 2 .. 3)
=============================================================================
