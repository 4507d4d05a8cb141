--------------------------------- MODULE Hlc ---------------------------------
(***************************************************************************)
(* The hybrid logical clock that orders a room's events (wall, then ctr,    *)
(* then dev), as the devices of a room keep it: qaku_core stamps with       *)
(* nextHlc and takes over the wall time of a later event it receives or     *)
(* loads; the Clock class of logos_sync, which the phone app uses through   *)
(* its JavaScript twin, also keeps ctr ahead at an equal wall time.         *)
(*                                                                          *)
(* Wall clocks are not synchronised and may be set back.  Events arrive in  *)
(* any order; a restart primes the clock from the log on disk, which has    *)
(* all of a device's own events and some of those it received.              *)
(***************************************************************************)
EXTENDS Integers, FiniteSets

CONSTANTS Devices,      \* the authors of the room, numbered (dev breaks ties)
          ClockDevices, \* those that use the Clock class
          MaxEvents,    \* bound on the events written
          MaxWall,      \* wall clocks read 1 .. MaxWall
          MaxRestarts   \* bound on restarts of one device

ASSUME HlcAssumption ==
  /\ Devices \subseteq Nat /\ ClockDevices \subseteq Devices
  /\ MaxEvents \in Nat /\ MaxWall \in Nat /\ MaxRestarts \in Nat

VARIABLES
  written,  \* the events of the room: the stamp of each, and what its author had seen
  log,      \* log[d]: the numbers of the events in d's log
  clock,    \* clock[d]: s.wall, s.ctr
  restarts  \* restarts[d]: restarts of d so far

vars == <<written, log, clock, restarts>>

Numbers == 1 .. MaxEvents
Stamps == [wall : Nat, ctr : Nat]

\* Event n of the room, in the order in which they were written.
Events == [n : Numbers, dev : Devices, at : Stamps, seen : SUBSET Numbers]

InLog(d) == {e \in written : e.n \in log[d]}

\* compareHlc(e, f) < 0
Before(e, f) ==
  \/ e.at.wall < f.at.wall
  \/ e.at.wall = f.at.wall /\ e.at.ctr < f.at.ctr
  \/ e.at = f.at /\ e.dev < f.dev

-----------------------------------------------------------------------------
\* (Mutant: the wall clock is taken as it is.)
Send_wall(c, now) == [wall |-> now, ctr |-> 0]

\* nextHlc and Clock::send
Send(c, now) ==
  IF now > c.wall THEN [wall |-> now, ctr |-> 0] ELSE [c EXCEPT !.ctr = @ + 1]

\* (Mutant: received events leave the clock alone.)
CoreReceive_ignores(c, at) == c

\* The receive half of pushEvent: only a later wall time counts.
CoreReceive(c, at) == IF at.wall > c.wall THEN at ELSE c

\* (Mutant: an equal wall time leaves the counter alone.)
ClockReceive_wall(c, at) == CoreReceive(c, at)

\* Clock::receive
ClockReceive(c, at) ==
  IF at.wall = c.wall /\ at.ctr > c.ctr THEN at ELSE CoreReceive(c, at)

\* loadPersistedLog visits the log in order from an unset clock, so that the
\* first event of the last wall time gives the counter.
CorePrimes(e, loaded) ==
  \A f \in loaded : f.at.wall < e.at.wall \/ (f.at.wall = e.at.wall /\ e.at.ctr <= f.at.ctr)

\* Priming with Clock::receive ends at the greatest stamp.
ClockPrimes(e, loaded) ==
  \A f \in loaded : f.at.wall < e.at.wall \/ (f.at.wall = e.at.wall /\ f.at.ctr <= e.at.ctr)

-----------------------------------------------------------------------------
Init ==
  /\ written = {}
  /\ log = [d \in Devices |-> {}]
  /\ clock = [d \in Devices |-> [wall |-> 0, ctr |-> 0]]
  /\ restarts = [d \in Devices |-> 0]

\* A device writes event n; `now` is what its wall clock reads.
Author(d, n, now) ==
  /\ \A e \in written : e.n < n
  /\ LET at == Send(clock[d], now)
     IN  /\ clock' = [clock EXCEPT ![d] = at]
         /\ written' = written \cup {[n |-> n, dev |-> d, at |-> at, seen |-> log[d]]}
  /\ log' = [log EXCEPT ![d] = @ \cup {n}]
  /\ UNCHANGED restarts

Receive(d, e) ==
  /\ e \in written /\ e.n \notin log[d]
  /\ log' = [log EXCEPT ![d] = @ \cup {e.n}]
  /\ clock' = [clock EXCEPT ![d] = IF d \in ClockDevices THEN ClockReceive(@, e.at)
                                                         ELSE CoreReceive(@, e.at)]
  /\ UNCHANGED <<written, restarts>>

\* d starts again from the `kept` part of its log, which has its own events.
Restart(d, kept) ==
  /\ restarts[d] < MaxRestarts
  /\ \A e \in InLog(d) : e.dev = d => e.n \in kept
  /\ restarts' = [restarts EXCEPT ![d] = @ + 1]
  /\ log' = [log EXCEPT ![d] = kept]
  /\ LET loaded == {e \in written : e.n \in kept}
     IN  IF loaded = {} THEN clock' = [clock EXCEPT ![d] = [wall |-> 0, ctr |-> 0]]
         ELSE \E e \in loaded :
                /\ IF d \in ClockDevices THEN ClockPrimes(e, loaded) ELSE CorePrimes(e, loaded)
                /\ clock' = [clock EXCEPT ![d] = e.at]
  /\ UNCHANGED written

Next ==
  \E d \in Devices :
    \/ \E n \in Numbers, now \in 1 .. MaxWall : Author(d, n, now)
    \/ \E e \in written : Receive(d, e)
    \/ \E kept \in SUBSET log[d] : Restart(d, kept)

Spec == Init /\ [][Next]_vars

-----------------------------------------------------------------------------
TypeOK ==
  /\ written \in SUBSET Events
  /\ log \in [Devices -> SUBSET Numbers]
  /\ clock \in [Devices -> Stamps]
  /\ restarts \in [Devices -> 0 .. MaxRestarts]

\* An event never has an earlier wall time than something its author had seen,
\* whatever the wall clocks read and whoever restarted (nextHlc, pushEvent,
\* loadPersistedLog): causes and effects are swapped within a millisecond at most.
CausalToTheMillisecond ==
  \A e, f \in written : f.n \in e.seen => f.at.wall <= e.at.wall

\* On a device with the Clock class an event sorts after everything its author
\* had seen, also after a restart (event.hpp:83-86).
ClockIsCausal ==
  \A e, f \in written : e.dev \in ClockDevices /\ f.n \in e.seen => Before(f, e)

\* One author's events sort in the order they were written, as long as a device
\* of qaku_core is not restarted: an edit never loses against the text it edits.
OwnOrder ==
  \A e, f \in written :
    /\ e.dev = f.dev /\ e.n < f.n
    /\ e.dev \in ClockDevices \/ restarts[e.dev] = 0
    => Before(e, f)
=============================================================================
