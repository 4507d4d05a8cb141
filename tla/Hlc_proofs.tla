----------------------------- MODULE Hlc_proofs -----------------------------
(***************************************************************************)
(* Proofs about the clocks of module Hlc, for any set of devices and any     *)
(* bounds.  The argument: a device's clock never falls behind the log it     *)
(* keeps (to the wall time in qaku_core, to the full stamp with the Clock    *)
(* class or, for its own events, until it restarts), and what it writes next *)
(* is stamped strictly after its clock.                                      *)
(***************************************************************************)
EXTENDS Hlc, TLAPS

\* a is not after b, as stamps.
AtMost(a, b) == a.wall < b.wall \/ (a.wall = b.wall /\ a.ctr <= b.ctr)

\* Events are numbered as they are written; logs and causes hold written events,
\* and a device's log all of its own.
Bookkeeping ==
  /\ \A e, f \in written : e.n = f.n => e = f
  /\ \A e \in written : e.n \in log[e.dev]
  /\ \A e, f \in written : e.dev = f.dev /\ e.n < f.n => e.n \in f.seen
  /\ \A e \in written : \A m \in e.seen : m < e.n
  /\ \A d \in Devices : \A n \in log[d] : \E e \in written : e.n = n

\* The clock is not behind the log.
ClockAhead ==
  \A d \in Devices : \A e \in written :
    e.n \in log[d] =>
      /\ e.at.wall <= clock[d].wall
      /\ d \in ClockDevices => AtMost(e.at, clock[d])
      /\ e.dev = d /\ restarts[d] = 0 => AtMost(e.at, clock[d])

Inv ==
  TypeOK /\ Bookkeeping /\ ClockAhead /\ CausalToTheMillisecond /\ ClockIsCausal /\ OwnOrder

\* Send returns a stamp strictly after the clock it advances.
LEMMA SendAdvances ==
  ASSUME NEW c \in Stamps, NEW now \in Nat
  PROVE  /\ Send(c, now) \in Stamps
         /\ c.wall <= Send(c, now).wall
         /\ c.wall < Send(c, now).wall
              \/ (c.wall = Send(c, now).wall /\ c.ctr < Send(c, now).ctr)
BY DEF Send, Stamps

\* A clock that receives a stamp is at or after where it was, and has its wall time.
LEMMA CoreReceiveAdvances ==
  ASSUME NEW c \in Stamps, NEW at \in Stamps
  PROVE  /\ CoreReceive(c, at) \in Stamps
         /\ AtMost(c, CoreReceive(c, at)) /\ at.wall <= CoreReceive(c, at).wall
BY DEF CoreReceive, Stamps, AtMost

\* The Clock class also ends at or after the whole stamp it receives.
LEMMA ClockReceiveAdvances ==
  ASSUME NEW c \in Stamps, NEW at \in Stamps
  PROVE  /\ ClockReceive(c, at) \in Stamps
         /\ AtMost(c, ClockReceive(c, at)) /\ AtMost(at, ClockReceive(c, at))
BY DEF ClockReceive, CoreReceive, Stamps, AtMost

\* Order of stamps is transitive; used to move ClockAhead over a step.
LEMMA AtMostTransitive ==
  ASSUME NEW a \in Stamps, NEW b \in Stamps, NEW c \in Stamps, AtMost(a, b), AtMost(b, c)
  PROVE  AtMost(a, c)
BY DEF AtMost, Stamps

\* Writing an event preserves the invariant.
LEMMA AuthorInv ==
  ASSUME Inv, NEW d \in Devices, NEW n \in Numbers, NEW now \in 1 .. MaxWall, Author(d, n, now)
  PROVE  Inv'
<1> DEFINE at  == Send(clock[d], now)
           new == [n |-> n, dev |-> d, at |-> at, seen |-> log[d]]
<1> USE HlcAssumption
<1>1. /\ TypeOK /\ Bookkeeping /\ ClockAhead
      /\ CausalToTheMillisecond /\ ClockIsCausal /\ OwnOrder
  BY DEF Inv
<1>2. /\ now \in Nat /\ clock[d] \in Stamps
      /\ at \in Stamps /\ clock[d].wall <= at.wall
      /\ clock[d].wall < at.wall \/ (clock[d].wall = at.wall /\ clock[d].ctr < at.ctr)
  BY <1>1, SendAdvances DEF TypeOK
<1>3. /\ written' = written \cup {new}
      /\ log' = [log EXCEPT ![d] = @ \cup {n}]
      /\ clock' = [clock EXCEPT ![d] = at]
      /\ restarts' = restarts
      /\ \A e \in written : e.n < n
  BY DEF Author
<1> HIDE DEF at
<1>4. TypeOK'
  BY <1>1, <1>2, <1>3 DEF TypeOK, Events
<1>5. /\ new \in Events /\ new.n = n /\ new.dev = d /\ new.at = at /\ new.seen = log[d]
      /\ n \in Int /\ new \notin written
  BY <1>1, <1>2, <1>3 DEF TypeOK, Events, Numbers
<1> HIDE DEF new
<1>6. \A e \in written : /\ e.n \in Int /\ e.n # n /\ e \in Events /\ e.at \in Stamps
                         /\ e.dev \in Devices /\ e.seen \subseteq Numbers
  BY <1>1, <1>3 DEF TypeOK, Events, Numbers
<1>7. n \notin log[d] /\ \A f \in log[d] : f < n
  BY <1>1, <1>3, <1>6 DEF Bookkeeping
<1>8. Bookkeeping'
  <2>1. \A e, f \in written' : e.n = f.n => e = f
    BY <1>1, <1>3, <1>5, <1>6 DEF Bookkeeping
  <2>2. \A e \in written' : e.n \in log'[e.dev]
    BY <1>1, <1>3, <1>5, <1>6 DEF Bookkeeping, TypeOK
  <2>3. \A e, f \in written' : e.dev = f.dev /\ e.n < f.n => e.n \in f.seen
    BY <1>1, <1>3, <1>5, <1>6 DEF Bookkeeping
  <2>4. \A e \in written' : \A m \in e.seen : m < e.n
    BY <1>1, <1>3, <1>5, <1>7 DEF Bookkeeping
  <2>5. \A q \in Devices : \A m \in log'[q] : \E e \in written' : e.n = m
    <3> SUFFICES ASSUME NEW q \in Devices, NEW m \in log'[q]
                 PROVE  \E e \in written' : e.n = m
      OBVIOUS
    <3>1. CASE q = d /\ m = n
      BY <3>1, <1>3, <1>5
    <3>2. CASE ~(q = d /\ m = n)
      <4>1. m \in log[q]
        BY <3>2, <1>1, <1>3 DEF TypeOK
      <4> QED BY <4>1, <1>1, <1>3 DEF Bookkeeping
    <3> QED BY <3>1, <3>2
  <2> QED BY <2>1, <2>2, <2>3, <2>4, <2>5 DEF Bookkeeping
<1>9. ClockAhead'
  <2> SUFFICES ASSUME NEW q \in Devices, NEW e \in written', e.n \in log'[q]
               PROVE  /\ e.at.wall <= clock'[q].wall
                      /\ q \in ClockDevices => AtMost(e.at, clock'[q])
                      /\ e.dev = q /\ restarts'[q] = 0 => AtMost(e.at, clock'[q])
    BY DEF ClockAhead
  <2>1. CASE e = new
    <3>1. q = d
      BY <2>1, <1>1, <1>3, <1>5, <1>6 DEF TypeOK, Bookkeeping
    <3>2. e.at = at /\ clock'[q] = at
      BY <3>1, <2>1, <1>1, <1>3, <1>5 DEF TypeOK
    <3> QED BY <3>2, <1>2 DEF AtMost, Stamps
  <2>2. CASE e \in written
    <3>1. e.n \in log[q]
      BY <2>2, <1>1, <1>3, <1>6 DEF TypeOK
    <3>2. AtMost(clock[q], clock'[q]) /\ clock[q] \in Stamps /\ clock'[q] \in Stamps
      BY <1>1, <1>2, <1>3 DEF TypeOK, AtMost, Stamps
    <3> QED BY <2>2, <3>1, <3>2, <1>1, <1>3, <1>6, AtMostTransitive DEF ClockAhead, AtMost, Stamps
  <2> QED BY <2>1, <2>2, <1>3
\* What the author had seen is in its log, hence not after its clock.
<1>10. \A f \in written : f.n \in log[d] =>
         /\ f.at.wall <= at.wall
         /\ d \in ClockDevices \/ (f.dev = d /\ restarts[d] = 0) =>
              \/ f.at.wall < at.wall
              \/ f.at.wall = at.wall /\ f.at.ctr < at.ctr
  BY <1>1, <1>2, <1>6 DEF ClockAhead, AtMost, Stamps
<1>11. \A e \in written : n \notin e.seen
  BY <1>1, <1>3, <1>5, <1>6 DEF Bookkeeping, Numbers, TypeOK
<1>12. CausalToTheMillisecond'
  BY <1>1, <1>2, <1>3, <1>5, <1>7, <1>10, <1>11 DEF CausalToTheMillisecond
<1>13. ClockIsCausal'
  BY <1>1, <1>3, <1>5, <1>7, <1>10, <1>11 DEF ClockIsCausal, Before
<1>14. OwnOrder'
  <2> SUFFICES ASSUME NEW e \in written', NEW f \in written',
                      e.dev = f.dev, e.n < f.n, e.dev \in ClockDevices \/ restarts'[e.dev] = 0
               PROVE  Before(e, f)
    BY DEF OwnOrder
  <2>1. CASE f = new
    <3>1. e \in written /\ e.dev = d /\ e.n \in log[d]
      BY <2>1, <1>1, <1>3, <1>5 DEF Bookkeeping
    <3> QED BY <3>1, <2>1, <1>3, <1>5, <1>10 DEF Before
  <2>2. CASE e = new /\ f \in written
    BY <2>2, <1>3, <1>5, <1>6
  <2>3. CASE e \in written /\ f \in written
    BY <2>3, <1>1, <1>3 DEF OwnOrder
  <2> QED BY <2>1, <2>2, <2>3, <1>3
<1> QED BY <1>4, <1>8, <1>9, <1>12, <1>13, <1>14 DEF Inv

\* Receiving an event preserves the invariant.
LEMMA ReceiveInv ==
  ASSUME Inv, NEW d \in Devices, NEW e \in written, Receive(d, e)
  PROVE  Inv'
<1>1. /\ TypeOK /\ Bookkeeping /\ ClockAhead
      /\ CausalToTheMillisecond /\ ClockIsCausal /\ OwnOrder
  BY DEF Inv
<1>2. /\ written' = written /\ restarts' = restarts
      /\ log' = [log EXCEPT ![d] = @ \cup {e.n}]
      /\ clock' = [clock EXCEPT ![d] = IF d \in ClockDevices THEN ClockReceive(@, e.at)
                                                           ELSE CoreReceive(@, e.at)]
      /\ \A f \in written : f \in Events /\ f.at \in Stamps /\ f.n \in Numbers
  BY <1>1 DEF Receive, TypeOK, Events
<1>3. /\ clock[d] \in Stamps /\ clock'[d] \in Stamps
      /\ AtMost(clock[d], clock'[d]) /\ e.at.wall <= clock'[d].wall
      /\ d \in ClockDevices => AtMost(e.at, clock'[d])
  <2>1. CASE d \in ClockDevices
    <3>1. clock'[d] = ClockReceive(clock[d], e.at)
      BY <2>1, <1>1, <1>2 DEF TypeOK
    <3> QED BY <3>1, <1>1, <1>2, ClockReceiveAdvances DEF TypeOK, AtMost, Stamps
  <2>2. CASE d \notin ClockDevices
    <3>1. clock'[d] = CoreReceive(clock[d], e.at)
      BY <2>2, <1>1, <1>2 DEF TypeOK
    <3> QED BY <3>1, <2>2, <1>1, <1>2, CoreReceiveAdvances DEF TypeOK
  <2> QED BY <2>1, <2>2
<1>4. \A q \in Devices \ {d} : clock'[q] = clock[q] /\ log'[q] = log[q]
  BY <1>1, <1>2 DEF TypeOK
<1>5. log'[d] = log[d] \cup {e.n}
  BY <1>1, <1>2 DEF TypeOK
<1>6. TypeOK'
  BY <1>1, <1>2, <1>3, <1>4 DEF TypeOK
<1>7. Bookkeeping'
  BY <1>1, <1>2, <1>4, <1>5 DEF Bookkeeping
<1>8. ClockAhead'
  <2> SUFFICES ASSUME NEW q \in Devices, NEW f \in written, f.n \in log'[q]
               PROVE  /\ f.at.wall <= clock'[q].wall
                      /\ q \in ClockDevices => AtMost(f.at, clock'[q])
                      /\ f.dev = q /\ restarts[q] = 0 => AtMost(f.at, clock'[q])
    BY <1>2 DEF ClockAhead
  <2>1. CASE q # d
    BY <2>1, <1>1, <1>4 DEF ClockAhead
  <2>2. CASE q = d /\ f.n \in log[d]
    BY <2>2, <1>1, <1>2, <1>3, AtMostTransitive DEF ClockAhead, AtMost, Stamps
  <2>3. CASE q = d /\ f.n \notin log[d]
    <3>1. f = e
      BY <2>3, <1>1, <1>5 DEF Bookkeeping
    <3>2. f.dev # d
      BY <2>3, <1>1 DEF Bookkeeping
    <3> QED BY <3>1, <3>2, <2>3, <1>3
  <2> QED BY <2>1, <2>2, <2>3
<1>9. CausalToTheMillisecond' /\ ClockIsCausal' /\ OwnOrder'
  BY <1>1, <1>2 DEF CausalToTheMillisecond, ClockIsCausal, OwnOrder
<1> QED BY <1>6, <1>7, <1>8, <1>9 DEF Inv

\* A restart preserves the invariant: both ways of priming reach the wall time of
\* all that was loaded, and the Clock class's the whole stamp.
LEMMA RestartInv ==
  ASSUME Inv, NEW d \in Devices, NEW kept \in SUBSET log[d], Restart(d, kept)
  PROVE  Inv'
<1> USE HlcAssumption
<1>1. /\ TypeOK /\ Bookkeeping /\ ClockAhead
      /\ CausalToTheMillisecond /\ ClockIsCausal /\ OwnOrder
  BY DEF Inv
<1> DEFINE loaded == {e \in written : e.n \in kept}
<1>2. /\ written' = written
      /\ restarts[d] < MaxRestarts /\ restarts' = [restarts EXCEPT ![d] = @ + 1]
      /\ log' = [log EXCEPT ![d] = kept]
      /\ \A e \in InLog(d) : e.dev = d => e.n \in kept
      /\ \A f \in written : f \in Events /\ f.at \in Stamps /\ f.n \in Numbers
  BY <1>1 DEF Restart, TypeOK, Events
<1>3. \/ /\ loaded = {}
         /\ clock' = [clock EXCEPT ![d] = [wall |-> 0, ctr |-> 0]]
      \/ \E e \in loaded :
           /\ IF d \in ClockDevices THEN ClockPrimes(e, loaded) ELSE CorePrimes(e, loaded)
           /\ clock' = [clock EXCEPT ![d] = e.at]
  BY DEF Restart
<1>4. clock' = [clock EXCEPT ![d] = clock'[d]] /\ clock'[d] \in Stamps
  <2>1. CASE clock' = [clock EXCEPT ![d] = [wall |-> 0, ctr |-> 0]]
    BY <2>1, <1>1 DEF TypeOK, Stamps
  <2>2. ASSUME NEW e \in loaded, clock' = [clock EXCEPT ![d] = e.at]
        PROVE  clock' = [clock EXCEPT ![d] = clock'[d]] /\ clock'[d] \in Stamps
    BY <2>2, <1>1, <1>2 DEF TypeOK
  <2> QED BY <1>3, <2>1, <2>2
<1>5. \A f \in loaded : /\ f.at.wall <= clock'[d].wall
                        /\ d \in ClockDevices => AtMost(f.at, clock'[d])
  BY <1>1, <1>2, <1>3 DEF TypeOK, ClockPrimes, CorePrimes, AtMost, Stamps
<1>6. \A q \in Devices \ {d} : clock'[q] = clock[q] /\ log'[q] = log[q] /\ restarts'[q] = restarts[q]
  BY <1>1, <1>2, <1>4 DEF TypeOK
<1>7. log'[d] = kept /\ restarts'[d] = restarts[d] + 1 /\ restarts[d] \in Nat /\ restarts'[d] # 0
  BY <1>1, <1>2 DEF TypeOK
<1>8. TypeOK'
  BY <1>1, <1>2, <1>4, <1>7 DEF TypeOK
<1>9. Bookkeeping'
  <2>1. \A e \in written : e.n \in log'[e.dev]
    BY <1>1, <1>2, <1>6, <1>7 DEF Bookkeeping, InLog, Events
  <2> QED BY <2>1, <1>1, <1>2, <1>6, <1>7 DEF Bookkeeping
<1>10. ClockAhead'
  BY <1>1, <1>2, <1>5, <1>6, <1>7 DEF ClockAhead
<1>11. CausalToTheMillisecond' /\ ClockIsCausal'
  BY <1>1, <1>2 DEF CausalToTheMillisecond, ClockIsCausal
<1>12. OwnOrder'
  BY <1>1, <1>2, <1>6, <1>7 DEF OwnOrder, Events
<1> QED BY <1>8, <1>9, <1>10, <1>11, <1>12 DEF Inv

\* The clocks are well-formed, never behind the log, and every stamp is causal as
\* far as its device's way of keeping the clock allows.
THEOREM Invariance == Spec => []Inv
<1>1. Init => Inv
  BY HlcAssumption DEF Init, Inv, TypeOK, Stamps, Bookkeeping, ClockAhead,
                       CausalToTheMillisecond, ClockIsCausal, OwnOrder
<1>2. Inv /\ [Next]_vars => Inv'
  <2> SUFFICES ASSUME Inv, [Next]_vars PROVE Inv'
    OBVIOUS
  <2>1. CASE UNCHANGED vars
    BY <2>1 DEF vars, Inv, TypeOK, Bookkeeping, ClockAhead,
                CausalToTheMillisecond, ClockIsCausal, OwnOrder
  <2>2. CASE Next
    BY <2>2, AuthorInv, ReceiveInv, RestartInv DEF Next
  <2> QED BY <2>1, <2>2
<1> QED BY <1>1, <1>2, PTL DEF Spec

\* Events, logs and clocks keep their types (Session, logos_sync::Event).
THEOREM TypeCorrect == Spec => []TypeOK
BY Invariance, PTL DEF Inv

\* Nothing is stamped with an earlier wall time than what its author had seen, on
\* any device and across restarts (nextHlc, pushEvent, loadPersistedLog).
THEOREM Millisecond == Spec => []CausalToTheMillisecond
BY Invariance, PTL DEF Inv

\* With the Clock class an event sorts after all its author had seen (event.hpp:78-81).
THEOREM ClockCausality == Spec => []ClockIsCausal
BY Invariance, PTL DEF Inv

\* One author's events sort as they were written, up to a restart of qaku_core.
THEOREM OwnOrdering == Spec => []OwnOrder
BY Invariance, PTL DEF Inv
=============================================================================
