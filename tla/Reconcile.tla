------------------------------- MODULE Reconcile -------------------------------
(***************************************************************************)
(* rbsr::reconcile: the difference of two sets of events, found by comparing *)
(* fingerprints of ever smaller ranges.  It is the algorithm that Catchup    *)
(* sends over the wire, with both sets at hand; ranges are closed below, cut *)
(* by the larger of the two sets, and ordered by wall time before id.        *)
(*                                                                           *)
(* An item is [wall, id].  A bound is the set of the item it is at, empty    *)
(* when it is not set; a range is a pair of bounds; and the fingerprint of a *)
(* set of ids is that set (no hash collisions).                              *)
(***************************************************************************)
EXTENDS Integers, FiniteSets

\* keyCmp
Below(x, y) == x.wall < y.wall \/ (x.wall = y.wall /\ x.id < y.id)

InRange(S, r) ==
  {x \in S : (\A lo \in r[1] : ~Below(x, lo)) /\ (\A hi \in r[2] : Below(x, hi))}

IdsOf(S) == {x.id : x \in S}
Fingerprint(S) == IdsOf(S)

Larger(S, T) == IF Cardinality(S) >= Cardinality(T) THEN S ELSE T

\* Every step-th item of S but the first opens a sub-range of r.
SplitAt(S, r, buckets) ==
  LET step == (Cardinality(S) + buckets - 1) \div buckets
      rank(x) == Cardinality({y \in S : Below(y, x)})
      cuts == {x \in S : rank(x) > 0 /\ rank(x) % step = 0}
      next(lo) == LET above == {x \in cuts : \A y \in lo : Below(y, x)}
                  IN IF above = {} THEN r[2] ELSE {x \in above : \A y \in above : ~Below(y, x)}
  IN {<<r[1], next({})>>} \cup {<<{x}, next({x})>> : x \in cuts}

RECURSIVE Search(_, _, _, _, _)
Search(A, B, frontier, threshold, buckets) ==
  LET differs(r) == Fingerprint(InRange(A, r)) # Fingerprint(InRange(B, r))
      larger(r) == Larger(InRange(A, r), InRange(B, r))
      open == {r \in frontier : differs(r)}
      small == {r \in open : Cardinality(larger(r)) <= threshold}
      ids(S) == UNION {IdsOf(InRange(S, r)) : r \in small}
      rest == IF open = small THEN [aNeeds |-> {}, bNeeds |-> {}]
              ELSE Search(A, B, UNION {SplitAt(larger(r), r, buckets) : r \in open \ small},
                          threshold, buckets)
  IN [aNeeds |-> (ids(B) \ ids(A)) \cup rest.aNeeds, bNeeds |-> (ids(A) \ ids(B)) \cup rest.bNeeds]

ReconcileSets(A, B, threshold, buckets) == Search(A, B, {<<{}, {}>>}, threshold, buckets)

\* The difference is exact, for every two sets of events (an id has one stamp), with
\* any threshold and number of buckets that make an answer smaller than the question.
ReconcilesExactly(ids, walls, thresholds, buckets) ==
  \A w \in [ids -> walls], I, J \in SUBSET ids, t \in thresholds, b \in buckets :
    LET items(K) == {[wall |-> w[i], id |-> i] : i \in K}
    IN ReconcileSets(items(I), items(J), t, b) = [aNeeds |-> J \ I, bNeeds |-> I \ J]
=============================================================================
