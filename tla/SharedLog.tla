------------------------------ MODULE SharedLog ------------------------------
(***************************************************************************)
(* What a Q&A room promises, with the transport left out: an append-only    *)
(* set of events that every member keeps a growing part of, and whatever    *)
(* one member keeps every other one eventually keeps too, unless one of the *)
(* two is cut off (DESIGN.md sections 1 and 5).  RoomSync implements it.    *)
(***************************************************************************)
CONSTANTS Peers,     \* the members of the room
          Ids        \* the event ids they may ever write

VARIABLES authored,  \* the events somebody has written
          kept,      \* kept[p]: the events p will still have after a crash
          cutOff     \* the members that neither send nor receive

vars == <<authored, kept, cutOff>>

SharedLogTypeOK ==
  /\ authored \in SUBSET Ids
  /\ kept \in [Peers -> SUBSET Ids]
  /\ cutOff \in SUBSET Peers

Init ==
  /\ authored = {} /\ cutOff = {}
  /\ kept = [p \in Peers |-> {}]

\* p writes e, and keeps it from that moment on together with anything else it knows.
\* If p was cut off and dies in the middle of writing, it comes back.
Write(p, e) ==
  /\ e \notin authored
  /\ authored' = authored \cup {e}
  /\ \E known \in SUBSET authored :
       kept' = [kept EXCEPT ![p] = @ \cup known \cup {e}]
  /\ cutOff' \in {cutOff, cutOff \ {p}}

\* p keeps some events written by others.
Learn(p) ==
  /\ \E known \in SUBSET authored :
       kept' = [kept EXCEPT ![p] = @ \cup known]
  /\ UNCHANGED <<authored, cutOff>>

\* p catches up with q.
CatchUp(p, q) ==
  /\ {p, q} \cap cutOff = {} /\ ~(kept[q] \subseteq kept[p])
  /\ kept' = [kept EXCEPT ![p] = @ \cup kept[q]]
  /\ UNCHANGED <<authored, cutOff>>

\* p is cut off, or comes back.
Switch(p) ==
  /\ cutOff' \in {cutOff \cup {p}, cutOff \ {p}}
  /\ UNCHANGED <<authored, kept>>

Next ==
  \E p \in Peers :
    \/ \E e \in Ids : Write(p, e)
    \/ Learn(p)
    \/ \E q \in Peers : CatchUp(p, q)
    \/ Switch(p)

Fairness == \A p, q \in Peers : p # q => WF_vars(CatchUp(p, q))

Safe == Init /\ [][Next]_vars
Spec == Safe /\ Fairness
=============================================================================
