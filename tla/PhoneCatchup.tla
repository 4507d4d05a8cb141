----------------------------- MODULE PhoneCatchup -----------------------------
(***************************************************************************)
(* Catch-up between phones, which answer at most one fingerprint of a peer   *)
(* in ten seconds (Sessions.onCatchup).  Everything else is as good as it    *)
(* can be: every frame arrives, once, and a round starts only when the last  *)
(* exchange is long over, so that no throttle is left from it.  The fleet    *)
(* store, which a resync also asks for events, is left out.                  *)
(***************************************************************************)
EXTENDS Catchup

VARIABLES
  log,      \* room.log
  inbox,    \* inbox[p]: the frames on their way to p
  answered  \* lastCatchup: the peers p has answered a fingerprint of in this exchange

vars == <<log, inbox, answered>>

Publish(boxes, p, frames) == [q \in Peers |-> IF q = p THEN boxes[q] ELSE boxes[q] \cup frames]

-----------------------------------------------------------------------------
\* Every event is in somebody's log.
Init ==
  /\ log \in [Peers -> SUBSET Ids]
  /\ \A e \in Ids : \E p \in Peers : e \in log[p]
  /\ inbox = [p \in Peers |-> {}]
  /\ answered = [p \in Peers |-> {}]

\* The 30 s timer: sendCatchup.
SendCatchup(p) ==
  /\ \A q \in Peers : inbox[q] = {}
  /\ inbox' = Publish(inbox, p, {BuildInitial(p, log[p])})
  /\ answered' = [q \in Peers |-> {}]
  /\ UNCHANGED log

Throttled(p, m) == m.t = "fp" /\ m.from \in answered[p]

\* onCatchup
OnCatchup(p, m) ==
  /\ m \in inbox[p] /\ m.t # "EVENT"
  /\ LET rest == [inbox EXCEPT ![p] = @ \ {m}]
     IN  inbox' = IF Throttled(p, m) THEN rest
                  ELSE Publish(rest, p, Replies(p, log[p], m) \cup EventFrames(Serves(log[p], m)))
  /\ answered' = IF m.t = "fp" THEN [answered EXCEPT ![p] = @ \cup {m.from}] ELSE answered
  /\ UNCHANGED log

\* onCandidates of an event
OnEvent(p, m) ==
  /\ m \in inbox[p] /\ m.t = "EVENT"
  /\ inbox' = [inbox EXCEPT ![p] = @ \ {m}]
  /\ log' = [log EXCEPT ![p] = @ \cup {m.id}]
  /\ UNCHANGED answered

Next ==
  \E p \in Peers : SendCatchup(p) \/ \E m \in inbox[p] : OnCatchup(p, m) \/ OnEvent(p, m)

\* Timers fire, frames arrive, and every phone has rounds of its own.
Fairness == WF_vars(Next) /\ \A p \in Peers : SF_vars(SendCatchup(p))

Spec == Init /\ [][Next]_vars /\ Fairness

-----------------------------------------------------------------------------
\* The phones end up with the same log: a genuine exchange is never throttled
\* (onCatchup's comment), and the peers converge on what is missing (catchup.ts).
Converges == <>(\A p \in Peers : log[p] = Ids)
=============================================================================
