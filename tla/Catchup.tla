-------------------------------- MODULE Catchup --------------------------------
(***************************************************************************)
(* The catch-up protocol as a pure step, the same on the desktop             *)
(* (logos_sync/catchup.hpp) and on the phone (catchup.ts): range-based set   *)
(* reconciliation.  A round publishes fingerprints of ranges of the id set   *)
(* ("fp"); a range that disagrees is split or answered with an exact id list *)
(* ("ids"); from a list a peer learns what to serve and what to ask for      *)
(* ("need").  Event ids are numbers (the code sorts strings); the            *)
(* fingerprint of a set of ids is that set (no hash collisions).             *)
(***************************************************************************)
EXTENDS Integers, FiniteSets

CONSTANTS Peers,       \* device ids of the room's members
          MaxId,       \* events have ids 1 .. MaxId
          Threshold,   \* a range of at most this many ids is answered with a list
          Buckets      \* sub-ranges per "fp" frame

Ids == 1 .. MaxId

(* A list of at least one id and a split into at least two sub-ranges: with a
   threshold of 0 a range of one id is never cut and two peers that disagree
   on it answer each other with the same fingerprint for ever.  The code's
   defaults are 8 and 8. *)
ASSUME CatchupAssumption ==
  /\ MaxId \in Nat \ {0}
  /\ Threshold \in Nat \ {0}
  /\ Buckets \in Nat \ {0, 1}

-----------------------------------------------------------------------------
(* Frames.  A range (lo, hi] is open below; lo = 0 and hi = MaxId stand for
   the absent bounds of a frame. *)

FpFrame == [t : {"fp"}, from : Peers, lo : 0 .. MaxId, hi : 0 .. MaxId,
            parts : SUBSET [lo : 0 .. MaxId, hi : 0 .. MaxId, fp : SUBSET Ids]]
IdsFrame == [t : {"ids"}, from : Peers, lo : 0 .. MaxId, hi : 0 .. MaxId, ids : SUBSET Ids]
NeedFrame == [t : {"need"}, from : Peers, ids : SUBSET Ids]
EventFrame == [t : {"EVENT"}, id : Ids]
Frames == FpFrame \cup IdsFrame \cup NeedFrame \cup EventFrame

IdsInRange(ids, lo, hi) == {e \in ids : lo < e /\ e <= hi}

\* (Mutant: rounded down.)
CeilDiv_floor(a, b) == a \div b
CeilDiv(a, b) == (a + b - 1) \div b

\* buildFp puts StepOf(ids) ids in every sub-range, in id order.
StepOf(ids) ==
  LET n == Cardinality(ids)
      k == IF n < Buckets THEN n ELSE Buckets
  IN  IF n = 0 THEN 1 ELSE CeilDiv(n, k)

Rank(ids, e) == Cardinality({f \in ids : f <= e})

\* The interior boundaries: the last id of every sub-range but the last.
Cuts(ids) == {e \in ids : Rank(ids, e) % StepOf(ids) = 0 /\ Rank(ids, e) < Cardinality(ids)}

\* (Mutant: the lower end of the range is not a boundary.)
SubRanges_headless(lo, hi, cuts) ==
  LET ends == cuts \cup {hi}
  IN  {r \in [lo : ends, hi : ends] :
         r.lo < r.hi /\ \A c \in ends : ~(r.lo < c /\ c < r.hi)}

\* Consecutive boundaries of (lo, hi] cut at `cuts`.
SubRanges(lo, hi, cuts) ==
  LET ends == cuts \cup {lo, hi}
  IN  {r \in [lo : ends, hi : ends] :
         /\ r.lo < r.hi
         /\ \A c \in ends : ~(r.lo < c /\ c < r.hi)}

BuildFp(me, ids, lo, hi) ==
  [t |-> "fp", from |-> me, lo |-> lo, hi |-> hi,
   parts |-> {[lo |-> r.lo, hi |-> r.hi, fp |-> IdsInRange(ids, r.lo, r.hi)] :
                r \in SubRanges(lo, hi, Cuts(ids))}]

\* (Mutant: an upper bound past the last id.)
BuildInitial_past(me, ids) == BuildFp(me, ids, 0, MaxId + 1)
BuildInitial(me, ids) == BuildFp(me, ids, 0, MaxId)

\* respond() passes over a sub-range whose fingerprint agrees.  (Mutants: it always
\* answers; it never does.)
Differs_always(ids, r) == TRUE
Differs_never(ids, r) == FALSE
Differs(ids, r) == IdsInRange(ids, r.lo, r.hi) # r.fp

\* The answer to one sub-range whose fingerprint disagrees.
AnswerRange(me, ids, r) ==
  LET mine == IdsInRange(ids, r.lo, r.hi)
  IN  IF Cardinality(mine) <= Threshold
      THEN [t |-> "ids", from |-> me, lo |-> r.lo, hi |-> r.hi, ids |-> mine]
      ELSE BuildFp(me, mine, r.lo, r.hi)

\* respond(): the control frames to publish ...
Replies(me, ids, m) ==
  CASE m.t = "fp"   -> {AnswerRange(me, ids, r) : r \in {x \in m.parts : Differs(ids, x)}}
    [] m.t = "ids"  -> LET need == m.ids \ IdsInRange(ids, m.lo, m.hi)
                       IN  IF need = {} THEN {}
                           ELSE {[t |-> "need", from |-> me, ids |-> need]}
    [] m.t = "need" -> {}

\* ... and the events to serve.
Serves(ids, m) ==
  CASE m.t = "fp"   -> {}
    [] m.t = "ids"  -> IdsInRange(ids, m.lo, m.hi) \ m.ids
    [] m.t = "need" -> m.ids \cap ids

EventFrames(ids) == {[t |-> "EVENT", id |-> e] : e \in ids}
=============================================================================
