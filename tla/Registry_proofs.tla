---------------------------- MODULE Registry_proofs ----------------------------
(***************************************************************************)
(* Proofs about the rooms of one qaku_core, for every set of ids and of     *)
(* secrets and any number of crashes.                                       *)
(*                                                                          *)
(* A world is Good when memory is tidy, memory and files agree and the files*)
(* keep what is to be kept (DiskOK); it is Settled, between two handlers,   *)
(* when in addition the current room is held and sessions.json lists what   *)
(* is held.  Each write keeps a world Good (KeyedGood, PushedGood,          *)
(* SavedGood, ErasedGood, ...), and so each handler, from a settled world,  *)
(* goes through Points, which a crash may leave behind, to a settled one    *)
(* (CreateIs, JoinIs, DeleteIs, LoadIs, ...).  IInv says that a running     *)
(* process is settled and a stopped one has DiskOK on disk.                 *)
(*                                                                          *)
(* Two steps are not plain.  joinSession writes the other room's key over   *)
(* the untouched default's before the registry stops calling it untouched:  *)
(* its worlds are Good only with that room among the odd ones, and Forgive  *)
(* takes it out again once the registry is saved; a crash in between leaves *)
(* it among the rooms ListedFresh finds.  And loadSessions is a fold over   *)
(* sessions.json, which ReadWalk makes a walk and ReadIs an induction.      *)
(***************************************************************************)
EXTENDS Registry, FiniteSetTheorems, SequenceTheorems, WellFoundedInduction, TLAPS

(* Types of what a handler works on. *)
Mems ==
  [slots : UNION {[H -> Slots] : H \in SUBSET Ids}, order : Seq(Ids),
   current : Ids \cup {None}, name : BOOLEAN]
Worlds == [m : Mems, d : Disk, j : SUBSET Keys]

\* The ids that are taken once d is on disk.
Seen(d, dr) == dr \cup {x \in Ids : d.keys[x] # None}

\* What the files keep, for the rooms of mk, the odd ones of od and the ids drawn.
DiskOK(d, dr, mk, od) ==
  /\ d \in Disk
  /\ \A i, j \in DOMAIN d.sessions : d.sessions[i].id = d.sessions[j].id => i = j
  /\ \A s \in Ids : d.keys[s] \in Codes \cup {None, s}
  /\ \A s \in Ids \ od : "create" \in d.logs[s] => d.keys[s] = s
  /\ \A i \in DOMAIN d.sessions :
       d.sessions[i].fresh /\ d.sessions[i].id \notin od => d.keys[d.sessions[i].id] \notin Codes
  /\ \A r \in DOMAIN mk \ od :
       /\ r \in Listed(d) /\ d.keys[r] = mk[r]
       /\ mk[r] = r => "create" \in d.logs[r]
  /\ \A r, s \in Listed(d) \ od : d.keys[r] = d.keys[s] /\ d.keys[r] # None => r = s
  /\ \A s \in Ids \ Seen(d, dr) : d.logs[s] = {} /\ s \notin Listed(d)

\* The memory names each room once.
Tidy(m) ==
  /\ Range(m.order) = Held(m)
  /\ \A i, j \in DOMAIN m.order : m.order[i] = m.order[j] => i = j

\* Memory and files agree, between any two writes of a handler.
Agree(w, mk, od) ==
  /\ \A s \in Held(w.m) : w.d.keys[s] = w.m.slots[s].key /\ w.d.logs[s] = w.m.slots[s].log
  /\ \A s \in Held(w.m) \ od : w.m.slots[s].fresh => w.m.slots[s].key = s
  /\ \A r, s \in Held(w.m) \ od : w.m.slots[r].key = w.m.slots[s].key => r = s
  /\ DOMAIN mk \ od \subseteq Held(w.m)
  /\ node = "on" => \A s \in Held(w.m) : w.m.slots[s].key \in w.j

Good(w, dr, mk, od) ==
  /\ w \in Worlds /\ Tidy(w.m) /\ Agree(w, mk, od) /\ DiskOK(w.d, dr, mk, od)

\* Between two handlers.
Settled(w, dr, mk, od) ==
  Good(w, dr, mk, od) /\ w.m.current \in Held(w.m) /\ Listed(w.d) = Held(w.m)

IInv ==
  /\ up \in BOOLEAN /\ node \in {"off", "starting", "on"} /\ joined \in SUBSET Keys
  /\ drawn \in SUBSET Ids /\ odd \in SUBSET drawn /\ crashes \in 0 .. MaxCrashes
  /\ DOMAIN made \subseteq Ids /\ \A r \in DOMAIN made : made[r] \in Keys
  /\ DiskOK(disk, drawn, made, odd) /\ Seen(disk, drawn) = drawn
  /\ up => Settled(World, drawn, made, odd)
  /\ ~up => mem = NoMemory /\ node = "off"

-----------------------------------------------------------------------------
LEMMA MemIs ==
  ASSUME NEW m \in Mems
  PROVE  /\ m.slots \in [Held(m) -> Slots] /\ Held(m) \in SUBSET Ids
         /\ m.order \in Seq(Ids) /\ m.current \in Ids \cup {None} /\ m.name \in BOOLEAN
<1>1. PICK H \in SUBSET Ids : m.slots \in [H -> Slots]
  BY DEF Mems
<1> QED BY <1>1 DEF Mems, Held

LEMMA IsMem ==
  ASSUME NEW slots, DOMAIN slots \in SUBSET Ids, slots \in [DOMAIN slots -> Slots],
         NEW order \in Seq(Ids), NEW current \in Ids \cup {None}, NEW name \in BOOLEAN
  PROVE  [slots |-> slots, order |-> order, current |-> current, name |-> name] \in Mems
<1>1. slots \in UNION {[H -> Slots] : H \in SUBSET Ids}
  OBVIOUS
<1> QED BY <1>1 DEF Mems

LEMMA WorldIs ==
  ASSUME NEW w \in Worlds
  PROVE  /\ w.m \in Mems /\ w.d \in Disk /\ w.j \in SUBSET Keys
         /\ w.m.slots \in [Held(w.m) -> Slots] /\ Held(w.m) \in SUBSET Ids
         /\ w.m.order \in Seq(Ids) /\ w.m.current \in Ids \cup {None} /\ w.m.name \in BOOLEAN
         /\ w.d.keys \in [Ids -> Keys \cup {None}] /\ w.d.logs \in [Ids -> SUBSET Kinds]
         /\ w.d.sessions \in Seq([id : Ids, fresh : BOOLEAN])
         /\ w.d.current \in Ids \cup {None} /\ w.d.name \in BOOLEAN
<1>1. w.m \in Mems /\ w.d \in Disk /\ w.j \in SUBSET Keys
  BY DEF Worlds
<1> QED BY <1>1, MemIs DEF Disk

LEMMA ListedIs ==
  ASSUME NEW d \in Disk
  PROVE  /\ \A i \in DOMAIN d.sessions : d.sessions[i].id \in Ids /\ d.sessions[i].id \in Listed(d)
         /\ \A r \in Listed(d) : r \in Ids /\ \E i \in DOMAIN d.sessions : d.sessions[i].id = r
<1>1. d.sessions \in Seq([id : Ids, fresh : BOOLEAN])
  BY DEF Disk
<1>2. DOMAIN d.sessions = 1 .. Len(d.sessions)
  BY <1>1
<1>3. \A i \in DOMAIN d.sessions : d.sessions[i] \in [id : Ids, fresh : BOOLEAN]
  <2> DEFINE S == [id : Ids, fresh : BOOLEAN]
  <2>1. d.sessions \in Seq(S)
    BY <1>1
  <2> HIDE DEF S
  <2>2. \A i \in DOMAIN d.sessions : d.sessions[i] \in S
    BY <2>1
  <2> QED BY <2>2 DEF S
<1>4. \A i \in DOMAIN d.sessions : d.sessions[i].id \in Ids
  BY <1>3
<1> QED BY <1>2, <1>4 DEF Listed

\* Put, one point at a time.
LEMMA PutIs ==
  ASSUME NEW f, NEW x, NEW v
  PROVE  /\ DOMAIN Put(f, x, v) = DOMAIN f \cup {x} /\ Put(f, x, v)[x] = v
         /\ \A y \in DOMAIN f \ {x} : Put(f, x, v)[y] = f[y]
BY DEF Put

LEMMA PutType ==
  ASSUME NEW f, NEW x, NEW S, NEW v \in S, f \in [DOMAIN f -> S]
  PROVE  Put(f, x, v) \in [DOMAIN f \cup {x} -> S]
BY DEF Put

LEMMA KeyedIs ==
  ASSUME NEW w \in Worlds, NEW s \in Ids, NEW k \in Keys
  PROVE  LET a == Keyed(w, s, k)
         IN  /\ a \in Worlds /\ a.m.slots[s].key = k
             /\ \A x \in Held(w.m) \ {s} : a.m.slots[x] = w.m.slots[x]
             /\ a.m.order = w.m.order /\ a.m.current = w.m.current /\ a.m.name = w.m.name
             /\ a.d.sessions = w.d.sessions /\ a.d.logs = w.d.logs
             /\ a.d.keys[s] = k /\ \A x \in Ids \ {s} : a.d.keys[x] = w.d.keys[x]
<1> DEFINE slot == IF s \in Held(w.m) THEN w.m.slots[s] ELSE NoSlot
           n == [slot EXCEPT !.key = k, !.subscribed = node = "on"]
           a == Keyed(w, s, k)
           sl == Put(w.m.slots, s, n)
<1>1. /\ n \in Slots /\ n.key = k
      /\ s \in Held(w.m) => n.fresh = w.m.slots[s].fresh /\ n.log = w.m.slots[s].log
      /\ s \notin Held(w.m) => n.fresh = TRUE /\ n.log = {}
  <2>1. (node = "on") \in BOOLEAN
    OBVIOUS
  <2>2. CASE s \in Held(w.m)
    <3>1. w.m.slots[s] \in Slots
      BY <2>2, WorldIs
    <3> QED BY <2>1, <2>2, <3>1 DEF Slots
  <2>3. CASE s \notin Held(w.m)
    BY <2>1, <2>3 DEF Slots, NoSlot
  <2> QED BY <2>2, <2>3
<1>2. a = [w EXCEPT !.m.slots = sl, !.d.keys[s] = k,
                    !.j = IF node = "on" THEN @ \cup {k} ELSE @]
  BY DEF Keyed
<1> HIDE DEF slot, n
<1>3. DOMAIN w.m.slots = Held(w.m)
  BY DEF Held
<1>4. sl \in [Held(w.m) \cup {s} -> Slots] /\ DOMAIN sl = Held(w.m) \cup {s} /\ sl[s] = n
      /\ \A x \in Held(w.m) \ {s} : sl[x] = w.m.slots[x]
  <2>1. w.m.slots \in [DOMAIN w.m.slots -> Slots]
    BY <1>3, WorldIs
  <2>2. sl \in [DOMAIN w.m.slots \cup {s} -> Slots]
    BY <1>1, <2>1, PutType
  <2>3. DOMAIN sl = DOMAIN w.m.slots \cup {s} /\ sl[s] = n
        /\ \A x \in DOMAIN w.m.slots \ {s} : sl[x] = w.m.slots[x]
    BY DEF Put
  <2> QED BY <1>3, <2>2, <2>3
<1> HIDE DEF sl, a
<1>5. /\ a.m = [w.m EXCEPT !.slots = sl] /\ a.d = [w.d EXCEPT !.keys[s] = k]
      /\ a.j = IF node = "on" THEN w.j \cup {k} ELSE w.j
      /\ a = [m |-> a.m, d |-> a.d, j |-> a.j]
  BY <1>2 DEF Worlds
<1>6. /\ a.m.slots = sl /\ a.m.order = w.m.order /\ a.m.current = w.m.current
      /\ a.m.name = w.m.name
      /\ a.m = [slots |-> sl, order |-> w.m.order, current |-> w.m.current, name |-> w.m.name]
  BY <1>5 DEF Worlds, Mems
<1>7. a.m \in Mems
  <2>1. DOMAIN sl \in SUBSET Ids /\ sl \in [DOMAIN sl -> Slots]
    BY <1>4, WorldIs
  <2>2. w.m.order \in Seq(Ids) /\ w.m.current \in Ids \cup {None} /\ w.m.name \in BOOLEAN
    BY WorldIs
  <2>3. [slots |-> sl, order |-> w.m.order, current |-> w.m.current, name |-> w.m.name] \in Mems
    BY <2>1, <2>2, IsMem
  <2> QED BY <2>3, <1>6
<1>8. /\ a.d \in Disk /\ a.d.sessions = w.d.sessions /\ a.d.logs = w.d.logs
      /\ a.d.keys[s] = k /\ \A x \in Ids \ {s} : a.d.keys[x] = w.d.keys[x]
  <2>1. w.d \in Disk /\ w.d.keys \in [Ids -> Keys \cup {None}]
    BY WorldIs
  <2>2. [w.d.keys EXCEPT ![s] = k] \in [Ids -> Keys \cup {None}]
    BY <2>1
  <2>3. /\ a.d.keys = [w.d.keys EXCEPT ![s] = k] /\ a.d.sessions = w.d.sessions
        /\ a.d.logs = w.d.logs /\ a.d.current = w.d.current /\ a.d.name = w.d.name
        /\ a.d = [sessions |-> a.d.sessions, current |-> a.d.current, keys |-> a.d.keys,
                  logs |-> a.d.logs, name |-> a.d.name]
    BY <1>5, <2>1 DEF Disk
  <2>4. a.d \in Disk
    BY <2>1, <2>2, <2>3, WorldIs DEF Disk
  <2> QED BY <2>1, <2>3, <2>4
<1>9. a \in Worlds
  BY <1>5, <1>7, <1>8, WorldIs DEF Worlds
<1> QED BY <1>1, <1>4, <1>5, <1>6, <1>8, <1>9 DEF Held, a

LEMMA KeyedSlot ==
  ASSUME NEW w \in Worlds, NEW s \in Ids, NEW k \in Keys
  PROVE  /\ s \in Held(w.m) => Keyed(w, s, k).m.slots[s].log = w.m.slots[s].log
         /\ s \notin Held(w.m) => Keyed(w, s, k).m.slots[s].log = {}
<1> DEFINE slot == IF s \in Held(w.m) THEN w.m.slots[s] ELSE NoSlot
           n == [slot EXCEPT !.key = k, !.subscribed = node = "on"]
<1>1. Keyed(w, s, k).m.slots = Put(w.m.slots, s, n)
  BY DEF Keyed, Worlds, Mems
<1>2. Keyed(w, s, k).m.slots[s] = n
  <2> HIDE DEF n
  <2> QED BY <1>1 DEF Put
<1>3. (node = "on") \in BOOLEAN
  OBVIOUS
<1>4. CASE s \in Held(w.m)
  <2>1. w.m.slots[s] \in Slots
    BY <1>4, WorldIs
  <2> QED BY <1>2, <1>3, <1>4, <2>1 DEF Slots
<1>5. CASE s \notin Held(w.m)
  BY <1>2, <1>3, <1>5 DEF Slots, NoSlot
<1> QED BY <1>4, <1>5

LEMMA KeyedHeld ==
  ASSUME NEW w \in Worlds, NEW s \in Ids, NEW k \in Keys
  PROVE  \A x : x \in Held(Keyed(w, s, k).m) <=> x \in Held(w.m) \/ x = s
<1> DEFINE slot == IF s \in Held(w.m) THEN w.m.slots[s] ELSE NoSlot
           n == [slot EXCEPT !.key = k, !.subscribed = node = "on"]
<1>1. Keyed(w, s, k).m.slots = Put(w.m.slots, s, n)
  BY DEF Keyed, Worlds, Mems
<1> HIDE DEF n
<1> QED BY <1>1 DEF Put, Held

LEMMA KeyedJoins ==
  ASSUME NEW w \in Worlds, NEW s \in Ids, NEW k \in Keys
  PROVE  /\ node = "on" => Keyed(w, s, k).j = w.j \cup {k}
         /\ node # "on" => Keyed(w, s, k).j = w.j
BY DEF Keyed, Worlds

LEMMA PushedIs ==
  ASSUME NEW w \in Worlds, NEW s \in Held(w.m), NEW kind \in Kinds
  PROVE  LET a == Pushed(w, s, kind)
         IN  /\ a \in Worlds /\ Held(a.m) = Held(w.m)
             /\ a.m.slots[s].key = w.m.slots[s].key /\ a.m.slots[s].fresh = w.m.slots[s].fresh
             /\ a.m.slots[s].log = w.m.slots[s].log \cup {kind}
             /\ \A x \in Held(w.m) \ {s} : a.m.slots[x] = w.m.slots[x]
             /\ a.m.order = w.m.order /\ a.m.current = w.m.current /\ a.m.name = w.m.name
             /\ a.d.sessions = w.d.sessions /\ a.d.keys = w.d.keys
             /\ a.d.logs[s] = w.d.logs[s] \cup {kind}
             /\ \A x \in Ids \ {s} : a.d.logs[x] = w.d.logs[x]
             /\ a.j = w.j
<1> DEFINE n == [w.m.slots[s] EXCEPT !.log = @ \cup {kind}]
           sl == [w.m.slots EXCEPT ![s] = n]
           lg == [w.d.logs EXCEPT ![s] = @ \cup {kind}]
           a == Pushed(w, s, kind)
<1>1. w.m.slots[s] \in Slots /\ s \in Ids
  BY WorldIs
<1>2. n \in Slots /\ n.key = w.m.slots[s].key /\ n.fresh = w.m.slots[s].fresh
      /\ n.log = w.m.slots[s].log \cup {kind}
  BY <1>1 DEF Slots
<1>3. sl \in [Held(w.m) -> Slots] /\ sl[s] = n /\ \A x \in Held(w.m) \ {s} : sl[x] = w.m.slots[x]
  <2> HIDE DEF n
  <2> QED BY <1>2, WorldIs
<1>4. lg \in [Ids -> SUBSET Kinds] /\ lg[s] = w.d.logs[s] \cup {kind}
      /\ \A x \in Ids \ {s} : lg[x] = w.d.logs[x]
  BY <1>1, WorldIs
<1>5. a.m = [w.m EXCEPT !.slots = sl] /\ a.d = [w.d EXCEPT !.logs = lg] /\ a.j = w.j
      /\ a = [m |-> a.m, d |-> a.d, j |-> a.j]
  <2>1. w = [m |-> w.m, d |-> w.d, j |-> w.j]
    BY DEF Worlds
  <2>2. a = [w EXCEPT !.m.slots = sl, !.d.logs = lg]
    BY DEF Pushed
  <2> HIDE DEF n, sl, lg, a
  <2> QED BY <2>1, <2>2
<1> HIDE DEF n, sl, lg, a
<1>6. /\ a.m.slots = sl /\ a.m.order = w.m.order /\ a.m.current = w.m.current
      /\ a.m.name = w.m.name
      /\ a.m = [slots |-> sl, order |-> w.m.order, current |-> w.m.current, name |-> w.m.name]
  BY <1>5 DEF Worlds, Mems
<1>7. a.m \in Mems
  <2>1. DOMAIN sl \in SUBSET Ids /\ sl \in [DOMAIN sl -> Slots]
    BY <1>3, WorldIs
  <2>2. w.m.order \in Seq(Ids) /\ w.m.current \in Ids \cup {None} /\ w.m.name \in BOOLEAN
    BY WorldIs
  <2>3. [slots |-> sl, order |-> w.m.order, current |-> w.m.current, name |-> w.m.name] \in Mems
    BY <2>1, <2>2, IsMem
  <2> QED BY <2>3, <1>6
<1>8. /\ a.d \in Disk /\ a.d.sessions = w.d.sessions /\ a.d.keys = w.d.keys /\ a.d.logs = lg
  <2>1. w.d \in Disk
    BY WorldIs
  <2> QED BY <2>1, <1>4, <1>5 DEF Disk
<1>9. a \in Worlds
  BY <1>5, <1>7, <1>8, WorldIs DEF Worlds
<1>10. Held(a.m) = Held(w.m)
  BY <1>3, <1>6 DEF Held
<1> QED BY <1>2, <1>3, <1>4, <1>5, <1>6, <1>8, <1>9, <1>10 DEF a

Unfreshed(w, r) == [w EXCEPT !.m.slots[r].fresh = FALSE]
At(w, r) == [w EXCEPT !.m.current = r]

LEMMA UnfreshedIs ==
  ASSUME NEW w \in Worlds, NEW s \in Held(w.m)
  PROVE  LET a == Unfreshed(w, s)
         IN  /\ a \in Worlds /\ Held(a.m) = Held(w.m)
             /\ a.m.slots[s].key = w.m.slots[s].key /\ a.m.slots[s].fresh = FALSE
             /\ a.m.slots[s].log = w.m.slots[s].log
             /\ \A x \in Held(w.m) \ {s} : a.m.slots[x] = w.m.slots[x]
             /\ a.m.order = w.m.order /\ a.m.current = w.m.current /\ a.m.name = w.m.name
             /\ a.d = w.d /\ a.j = w.j
<1> DEFINE n == [w.m.slots[s] EXCEPT !.fresh = FALSE]
           sl == [w.m.slots EXCEPT ![s] = n]
           a == Unfreshed(w, s)
<1>1. w.m.slots[s] \in Slots /\ s \in Ids
  BY WorldIs
<1>2. n \in Slots /\ n.key = w.m.slots[s].key /\ n.fresh = FALSE
      /\ n.log = w.m.slots[s].log
  BY <1>1 DEF Slots
<1>3. sl \in [Held(w.m) -> Slots] /\ sl[s] = n /\ \A x \in Held(w.m) \ {s} : sl[x] = w.m.slots[x]
  <2> HIDE DEF n
  <2> QED BY <1>2, WorldIs
<1>5. a.m = [w.m EXCEPT !.slots = sl] /\ a.d = w.d /\ a.j = w.j
      /\ a = [m |-> a.m, d |-> a.d, j |-> a.j]
  <2>1. w = [m |-> w.m, d |-> w.d, j |-> w.j]
    BY DEF Worlds
  <2>2. a = [w EXCEPT !.m.slots = sl]
    BY DEF Unfreshed
  <2> HIDE DEF n, sl, a
  <2> QED BY <2>1, <2>2
<1> HIDE DEF n, sl, a
<1>6. /\ a.m.slots = sl /\ a.m.order = w.m.order /\ a.m.current = w.m.current
      /\ a.m.name = w.m.name
      /\ a.m = [slots |-> sl, order |-> w.m.order, current |-> w.m.current, name |-> w.m.name]
  BY <1>5 DEF Worlds, Mems
<1>7. a.m \in Mems
  <2>1. DOMAIN sl \in SUBSET Ids /\ sl \in [DOMAIN sl -> Slots]
    BY <1>3, WorldIs
  <2>2. w.m.order \in Seq(Ids) /\ w.m.current \in Ids \cup {None} /\ w.m.name \in BOOLEAN
    BY WorldIs
  <2>3. [slots |-> sl, order |-> w.m.order, current |-> w.m.current, name |-> w.m.name] \in Mems
    BY <2>1, <2>2, IsMem
  <2> QED BY <2>3, <1>6
<1>9. a \in Worlds
  BY <1>5, <1>7, WorldIs DEF Worlds
<1>10. Held(a.m) = Held(w.m)
  BY <1>3, <1>6 DEF Held
<1> QED BY <1>2, <1>3, <1>5, <1>6, <1>9, <1>10 DEF a

LEMMA AtIs ==
  ASSUME NEW w \in Worlds, NEW s \in Ids
  PROVE  LET a == At(w, s)
         IN  /\ a \in Worlds /\ Held(a.m) = Held(w.m) /\ a.m.slots = w.m.slots
             /\ a.m.order = w.m.order /\ a.m.current = s /\ a.m.name = w.m.name
             /\ a.d = w.d /\ a.j = w.j
<1> DEFINE a == At(w, s)
<1>1. w.m \in Mems /\ w.d \in Disk /\ w.j \in SUBSET Keys
  BY WorldIs
<1>2. a.m = [w.m EXCEPT !.current = s] /\ a.d = w.d /\ a.j = w.j
      /\ a = [m |-> a.m, d |-> a.d, j |-> a.j]
  BY DEF Worlds, At
<1> HIDE DEF a
<1>3. a.m \in Mems /\ a.m.slots = w.m.slots /\ a.m.order = w.m.order /\ a.m.current = s
      /\ a.m.name = w.m.name
  BY <1>1, <1>2 DEF Mems
<1>4. a \in Worlds
  BY <1>1, <1>2, <1>3 DEF Worlds
<1> QED BY <1>2, <1>3, <1>4 DEF a, Held

\* What saveSessions writes of a tidy memory.
LEMMA SavedIs ==
  ASSUME NEW w \in Worlds, Tidy(w.m)
  PROVE  LET a == Saved(w)
         IN  /\ a \in Worlds /\ a.m = w.m /\ a.j = w.j
             /\ a.d.keys = w.d.keys /\ a.d.logs = w.d.logs
             /\ DOMAIN a.d.sessions = DOMAIN w.m.order
             /\ \A i \in DOMAIN w.m.order :
                  /\ w.m.order[i] \in Held(w.m)
                  /\ a.d.sessions[i].id = w.m.order[i]
                  /\ a.d.sessions[i].fresh = w.m.slots[w.m.order[i]].fresh
             /\ Listed(a.d) = Held(w.m)
<1> DEFINE ss == [i \in 1 .. Len(w.m.order) |->
                   [id |-> w.m.order[i], fresh |-> w.m.slots[w.m.order[i]].fresh]]
           a == Saved(w)
<1>1. w.m \in Mems /\ w.d \in Disk /\ w.j \in SUBSET Keys /\ w.m.order \in Seq(Ids)
      /\ w.m.slots \in [Held(w.m) -> Slots] /\ w.m.current \in Ids \cup {None}
  BY WorldIs
<1>2. a.m = w.m /\ a.d = [w.d EXCEPT !.sessions = ss, !.current = w.m.current] /\ a.j = w.j
      /\ a = [m |-> a.m, d |-> a.d, j |-> a.j]
  <2>1. w = [m |-> w.m, d |-> w.d, j |-> w.j]
    BY DEF Worlds
  <2>2. a = [w EXCEPT !.d.sessions = ss, !.d.current = w.m.current]
    BY DEF Saved
  <2> HIDE DEF ss, a
  <2>3. a = [w EXCEPT !.d = [w.d EXCEPT !.sessions = ss, !.current = w.m.current]]
    BY <2>2, WorldIs DEF Disk
  <2> QED BY <2>1, <2>3
<1>3. DOMAIN w.m.order = 1 .. Len(w.m.order) /\ Len(w.m.order) \in Nat
  BY <1>1
<1>4. \A i \in DOMAIN w.m.order : w.m.order[i] \in Held(w.m) /\ w.m.order[i] \in Ids
  BY <1>1 DEF Tidy, Range
<1>5. \A i \in DOMAIN w.m.order :
        [id |-> w.m.order[i], fresh |-> w.m.slots[w.m.order[i]].fresh] \in [id : Ids, fresh : BOOLEAN]
  BY <1>1, <1>4 DEF Slots
<1>6. ss \in Seq([id : Ids, fresh : BOOLEAN]) /\ DOMAIN ss = DOMAIN w.m.order
  BY <1>3, <1>5
<1>7. \A i \in DOMAIN w.m.order :
        ss[i].id = w.m.order[i] /\ ss[i].fresh = w.m.slots[w.m.order[i]].fresh
  BY <1>3
<1>8. Len(ss) = Len(w.m.order)
  BY <1>3, <1>6
<1> HIDE DEF ss, a
<1>9. /\ a.d \in Disk /\ a.d.sessions = ss
      /\ a.d.keys = w.d.keys /\ a.d.logs = w.d.logs
  BY <1>1, <1>2, <1>6 DEF Disk
<1>10. a \in Worlds
  BY <1>1, <1>2, <1>9 DEF Worlds
<1>11. Listed(a.d) = Held(w.m)
  <2>1. Listed(a.d) = {ss[i].id : i \in 1 .. Len(w.m.order)}
    BY <1>8, <1>9 DEF Listed
  <2>2. \A x \in Held(w.m) : \E i \in DOMAIN w.m.order : x = w.m.order[i]
    BY DEF Tidy, Range
  <2> QED BY <2>1, <2>2, <1>3, <1>4, <1>7
<1> QED BY <1>2, <1>4, <1>6, <1>7, <1>9, <1>10, <1>11 DEF a

-----------------------------------------------------------------------------
(* Each write keeps memory and files in agreement. *)

LEMMA KeysApart == None \notin Keys /\ \A s \in Ids : s \notin Codes /\ s # None
BY RegistryAssumption DEF Keys

\* What is held has a key on disk.
LEMMA HeldIs ==
  ASSUME NEW w, NEW dr, NEW mk, NEW od, Good(w, dr, mk, od)
  PROVE  \A s \in Held(w.m) : /\ s \in Ids /\ w.m.slots[s] \in Slots
                              /\ w.d.keys[s] = w.m.slots[s].key /\ w.d.logs[s] = w.m.slots[s].log
                              /\ w.d.keys[s] \in Codes \cup {s} /\ w.d.keys[s] # None
                              /\ s \in Seen(w.d, dr)
<1> TAKE s \in Held(w.m)
<1>1. w \in Worlds
  BY DEF Good
<1>2. s \in Ids /\ w.m.slots[s] \in Slots
  BY <1>1, WorldIs
<1>3. w.d.keys[s] = w.m.slots[s].key /\ w.d.logs[s] = w.m.slots[s].log
  BY DEF Good, Agree
<1>4. w.m.slots[s].key \in Keys
  BY <1>2 DEF Slots
<1>5. w.d.keys[s] \in Codes \cup {None, s}
  BY <1>2 DEF Good, DiskOK
<1> QED BY <1>2, <1>3, <1>4, <1>5, KeysApart DEF Seen

LEMMA SavedGood ==
  ASSUME NEW w, NEW dr, NEW mk, NEW od, Good(w, dr, mk, od)
  PROVE  Good(Saved(w), dr, mk, od) /\ Listed(Saved(w).d) = Held(Saved(w).m)
<1> DEFINE a == Saved(w)
<1>1. w \in Worlds /\ Tidy(w.m) /\ Agree(w, mk, od) /\ DiskOK(w.d, dr, mk, od)
  BY DEF Good
<1>2. /\ a \in Worlds /\ a.m = w.m /\ a.j = w.j
      /\ a.d.keys = w.d.keys /\ a.d.logs = w.d.logs
      /\ DOMAIN a.d.sessions = DOMAIN w.m.order
      /\ \A i \in DOMAIN w.m.order :
           /\ w.m.order[i] \in Held(w.m)
           /\ a.d.sessions[i].id = w.m.order[i]
           /\ a.d.sessions[i].fresh = w.m.slots[w.m.order[i]].fresh
      /\ Listed(a.d) = Held(w.m)
  BY <1>1, SavedIs
<1>3. \A s \in Held(w.m) : /\ s \in Ids /\ w.m.slots[s] \in Slots
                           /\ w.d.keys[s] = w.m.slots[s].key /\ w.d.logs[s] = w.m.slots[s].log
                           /\ w.d.keys[s] \in Codes \cup {s} /\ w.d.keys[s] # None
                           /\ s \in Seen(w.d, dr)
  BY HeldIs
<1> HIDE DEF a
<1>4. Tidy(a.m)
  BY <1>1, <1>2
<1>5. Agree(a, mk, od)
  BY <1>1, <1>2 DEF Agree
<1>6. DiskOK(a.d, dr, mk, od)
  <2>1. a.d \in Disk
    BY <1>2, WorldIs
  <2>2. \A i, j \in DOMAIN a.d.sessions : a.d.sessions[i].id = a.d.sessions[j].id => i = j
    BY <1>1, <1>2 DEF Tidy
  <2>3. \A s \in Ids : a.d.keys[s] \in Codes \cup {None, s}
    BY <1>1, <1>2 DEF DiskOK
  <2>4. \A s \in Ids \ od : "create" \in a.d.logs[s] => a.d.keys[s] = s
    BY <1>1, <1>2 DEF DiskOK
  <2>5. \A i \in DOMAIN a.d.sessions :
          a.d.sessions[i].fresh /\ a.d.sessions[i].id \notin od
            => a.d.keys[a.d.sessions[i].id] \notin Codes
    <3> TAKE i \in DOMAIN a.d.sessions
    <3> DEFINE s == w.m.order[i]
    <3>1. s \in Held(w.m) /\ a.d.sessions[i].id = s /\ a.d.sessions[i].fresh = w.m.slots[s].fresh
      BY <1>2
    <3> HIDE DEF s
    <3>2. s \notin od /\ w.m.slots[s].fresh => w.m.slots[s].key = s
      BY <1>1, <3>1 DEF Agree
    <3>3. s \notin Codes /\ a.d.keys[s] = w.m.slots[s].key
      BY <1>2, <1>3, <3>1, KeysApart
    <3> QED BY <3>1, <3>2, <3>3
  <2>6. ASSUME NEW r \in DOMAIN mk \ od
        PROVE  /\ r \in Listed(a.d) /\ a.d.keys[r] = mk[r]
               /\ mk[r] = r => "create" \in a.d.logs[r]
    BY <1>1, <1>2 DEF DiskOK, Agree
  <2>7. \A r, s \in Listed(a.d) \ od : a.d.keys[r] = a.d.keys[s] /\ a.d.keys[r] # None => r = s
    BY <1>1, <1>2, <1>3 DEF Agree
  <2>8. \A s \in Ids \ Seen(a.d, dr) : a.d.logs[s] = {} /\ s \notin Listed(a.d)
    BY <1>1, <1>2, <1>3 DEF DiskOK, Seen
  <2> QED BY <2>1, <2>2, <2>3, <2>4, <2>5, <2>6, <2>7, <2>8 DEF DiskOK
<1> QED BY <1>2, <1>4, <1>5, <1>6 DEF Good, a

LEMMA PushedGood ==
  ASSUME NEW w, NEW dr, NEW mk, NEW od, Good(w, dr, mk, od), NEW s \in Held(w.m), NEW kind \in Kinds,
         kind = "create" => s \in od \/ w.m.slots[s].key = s
  PROVE  Good(Pushed(w, s, kind), dr, mk, od)
<1> DEFINE a == Pushed(w, s, kind)
<1>1. w \in Worlds /\ Tidy(w.m) /\ Agree(w, mk, od) /\ DiskOK(w.d, dr, mk, od)
  BY DEF Good
<1>2. /\ a \in Worlds /\ Held(a.m) = Held(w.m)
      /\ a.m.slots[s].key = w.m.slots[s].key /\ a.m.slots[s].fresh = w.m.slots[s].fresh
      /\ a.m.slots[s].log = w.m.slots[s].log \cup {kind}
      /\ \A x \in Held(w.m) \ {s} : a.m.slots[x] = w.m.slots[x]
      /\ a.m.order = w.m.order /\ a.m.current = w.m.current /\ a.m.name = w.m.name
      /\ a.d.sessions = w.d.sessions /\ a.d.keys = w.d.keys
      /\ a.d.logs[s] = w.d.logs[s] \cup {kind}
      /\ \A x \in Ids \ {s} : a.d.logs[x] = w.d.logs[x]
      /\ a.j = w.j
  BY <1>1, PushedIs
<1>3. \A x \in Held(w.m) : /\ x \in Ids /\ w.m.slots[x] \in Slots
                           /\ w.d.keys[x] = w.m.slots[x].key /\ w.d.logs[x] = w.m.slots[x].log
                           /\ w.d.keys[x] \in Codes \cup {x} /\ w.d.keys[x] # None
                           /\ x \in Seen(w.d, dr)
  BY HeldIs
<1> HIDE DEF a
<1>4. Tidy(a.m)
  BY <1>1, <1>2 DEF Tidy
<1>5. \A x \in Held(w.m) : a.m.slots[x].key = w.m.slots[x].key /\ a.m.slots[x].fresh = w.m.slots[x].fresh
  BY <1>2
<1>6. Agree(a, mk, od)
  <2>1. \A x \in Held(a.m) : a.d.keys[x] = a.m.slots[x].key /\ a.d.logs[x] = a.m.slots[x].log
    <3> TAKE x \in Held(a.m)
    <3>1. x \in Held(w.m) /\ x \in Ids /\ w.d.keys[x] = w.m.slots[x].key
          /\ w.d.logs[x] = w.m.slots[x].log
      BY <1>2, <1>3
    <3>2. a.d.keys[x] = a.m.slots[x].key
      BY <1>2, <1>5, <3>1
    <3>3. CASE x = s
      BY <1>2, <3>1, <3>2, <3>3
    <3>4. CASE x # s
      BY <1>2, <3>1, <3>2, <3>4
    <3> QED BY <3>3, <3>4
  <2> QED BY <1>1, <1>2, <1>5, <2>1 DEF Agree
<1>7. DiskOK(a.d, dr, mk, od)
  <2>1. a.d \in Disk
    BY <1>2, WorldIs
  <2>2. Listed(a.d) = Listed(w.d) /\ Seen(a.d, dr) = Seen(w.d, dr)
    BY <1>2 DEF Listed, Seen
  <2>3. \A x \in Ids \ od : "create" \in a.d.logs[x] => a.d.keys[x] = x
    BY <1>1, <1>2, <1>3 DEF DiskOK
  <2>4. \A x \in Ids : w.d.logs[x] \subseteq a.d.logs[x]
    BY <1>2
  <2>5. \A x \in Ids \ Seen(a.d, dr) : a.d.logs[x] = {} /\ x \notin Listed(a.d)
    BY <1>1, <1>2, <1>3, <2>2 DEF DiskOK
  <2>6. ASSUME NEW r \in DOMAIN mk \ od
        PROVE  /\ r \in Listed(a.d) /\ a.d.keys[r] = mk[r]
               /\ mk[r] = r => "create" \in a.d.logs[r]
    <3>1. r \in Ids
      BY <1>1, <1>3 DEF Agree
    <3> QED BY <1>1, <1>2, <2>2, <2>4, <3>1 DEF DiskOK
  <2>7. /\ \A i, j \in DOMAIN a.d.sessions : a.d.sessions[i].id = a.d.sessions[j].id => i = j
        /\ \A x \in Ids : a.d.keys[x] \in Codes \cup {None, x}
        /\ \A i \in DOMAIN a.d.sessions :
             a.d.sessions[i].fresh /\ a.d.sessions[i].id \notin od
               => a.d.keys[a.d.sessions[i].id] \notin Codes
    BY <1>1, <1>2 DEF DiskOK
  <2>8. \A x, y \in Listed(a.d) \ od : a.d.keys[x] = a.d.keys[y] /\ a.d.keys[x] # None => x = y
    BY <1>1, <1>2, <2>2 DEF DiskOK
  <2> QED BY <2>1, <2>3, <2>5, <2>6, <2>7, <2>8 DEF DiskOK
<1> QED BY <1>2, <1>4, <1>6, <1>7 DEF Good, a

LEMMA UnfreshedGood ==
  ASSUME NEW w, NEW dr, NEW mk, NEW od, Good(w, dr, mk, od), NEW s \in Held(w.m)
  PROVE  Good(Unfreshed(w, s), dr, mk, od)
<1> DEFINE a == Unfreshed(w, s)
<1>1. w \in Worlds /\ Tidy(w.m) /\ Agree(w, mk, od) /\ DiskOK(w.d, dr, mk, od)
  BY DEF Good
<1>2. /\ a \in Worlds /\ Held(a.m) = Held(w.m)
      /\ a.m.slots[s].key = w.m.slots[s].key /\ a.m.slots[s].fresh = FALSE
      /\ a.m.slots[s].log = w.m.slots[s].log
      /\ \A x \in Held(w.m) \ {s} : a.m.slots[x] = w.m.slots[x]
      /\ a.m.order = w.m.order
      /\ a.d = w.d /\ a.j = w.j
  BY <1>1, UnfreshedIs
<1> HIDE DEF a
<1>3. \A x \in Held(w.m) : /\ a.m.slots[x].key = w.m.slots[x].key /\ a.m.slots[x].log = w.m.slots[x].log
                           /\ a.m.slots[x].fresh => x # s /\ w.m.slots[x].fresh
  BY <1>2
<1>4. Tidy(a.m)
  BY <1>1, <1>2 DEF Tidy
<1>5. Agree(a, mk, od)
  BY <1>1, <1>2, <1>3 DEF Agree
<1> QED BY <1>1, <1>2, <1>4, <1>5 DEF Good, a

LEMMA AtGood ==
  ASSUME NEW w, NEW dr, NEW mk, NEW od, Good(w, dr, mk, od), NEW s \in Ids
  PROVE  Good(At(w, s), dr, mk, od)
<1> DEFINE a == At(w, s)
<1>1. w \in Worlds /\ Tidy(w.m) /\ Agree(w, mk, od) /\ DiskOK(w.d, dr, mk, od)
  BY DEF Good
<1>2. /\ a \in Worlds /\ Held(a.m) = Held(w.m) /\ a.m.slots = w.m.slots
      /\ a.m.order = w.m.order /\ a.d = w.d /\ a.j = w.j
  BY <1>1, AtIs
<1> HIDE DEF a
<1>3. Tidy(a.m) /\ Agree(a, mk, od)
  BY <1>1, <1>2 DEF Tidy, Agree
<1> QED BY <1>1, <1>2, <1>3 DEF Good, a

\* An existing room gets another key: it may now be odd.
LEMMA KeyedGood ==
  ASSUME NEW w, NEW dr, NEW mk, NEW od, Good(w, dr, mk, od), NEW s \in Held(w.m), NEW k \in Codes
  PROVE  Good(Keyed(w, s, k), dr, mk, od \cup {s})
<1> DEFINE a == Keyed(w, s, k)
           o == od \cup {s}
<1>1. w \in Worlds /\ Tidy(w.m) /\ Agree(w, mk, od) /\ DiskOK(w.d, dr, mk, od)
  BY DEF Good
<1>2. s \in Ids /\ k \in Keys /\ k # None
  BY <1>1, WorldIs, KeysApart DEF Keys
<1>3. /\ a \in Worlds /\ Held(a.m) = Held(w.m) \cup {s}
      /\ a.m.slots[s].key = k
      /\ s \in Held(w.m) => a.m.slots[s].log = w.m.slots[s].log
      /\ s \notin Held(w.m) => a.m.slots[s].log = {}
      /\ \A x \in Held(w.m) \ {s} : a.m.slots[x] = w.m.slots[x]
      /\ a.m.order = w.m.order /\ a.m.current = w.m.current
      /\ a.d.sessions = w.d.sessions /\ a.d.logs = w.d.logs
      /\ a.d.keys[s] = k /\ \A x \in Ids \ {s} : a.d.keys[x] = w.d.keys[x]
      /\ node = "on" => a.j = w.j \cup {k}
      /\ node # "on" => a.j = w.j
  <2>1. a = Keyed(w, s, k)
    BY DEF a
  <2> HIDE DEF a
  <2>2. a \in Worlds
    BY <1>1, <1>2, <2>1, KeyedIs
  <2>7. Held(a.m) = Held(w.m) \cup {s}
    <3>1. \A x : x \in Held(a.m) <=> x \in Held(w.m) \/ x = s
      BY <1>1, <1>2, <2>1, KeyedHeld
    <3> QED BY <3>1
  <2>8. /\ a.m.slots[s].key = k
        /\ \A x \in Held(w.m) \ {s} : a.m.slots[x] = w.m.slots[x]
    BY <1>1, <1>2, <2>1, KeyedIs
  <2>3. /\ a.m.order = w.m.order /\ a.m.current = w.m.current
        /\ a.d.sessions = w.d.sessions /\ a.d.logs = w.d.logs
    BY <1>1, <1>2, <2>1, KeyedIs
  <2>4. a.d.keys[s] = k /\ \A x \in Ids \ {s} : a.d.keys[x] = w.d.keys[x]
    BY <1>1, <1>2, <2>1, KeyedIs
  <2>5. /\ s \in Held(w.m) => a.m.slots[s].log = w.m.slots[s].log
        /\ s \notin Held(w.m) => a.m.slots[s].log = {}
    BY <1>1, <1>2, <2>1, KeyedSlot
  <2>6. /\ node = "on" => a.j = w.j \cup {k}
        /\ node # "on" => a.j = w.j
    BY <1>1, <1>2, <2>1, KeyedJoins
  <2> QED BY <2>2, <2>3, <2>4, <2>5, <2>6, <2>7, <2>8
<1>4. \A x \in Held(w.m) : /\ x \in Ids /\ w.m.slots[x] \in Slots
                           /\ w.d.keys[x] = w.m.slots[x].key /\ w.d.logs[x] = w.m.slots[x].log
                           /\ w.d.keys[x] \in Codes \cup {x} /\ w.d.keys[x] # None
                           /\ x \in Seen(w.d, dr)
  BY HeldIs
<1>5. a.m.slots[s].log = w.m.slots[s].log /\ Held(a.m) = Held(w.m)
  BY <1>3
<1> HIDE DEF a
<1>6. Tidy(a.m)
  BY <1>1, <1>3, <1>5 DEF Tidy
<1>7. Agree(a, mk, o)
  <2>1. ASSUME NEW x \in Held(a.m)
        PROVE  a.d.keys[x] = a.m.slots[x].key /\ a.d.logs[x] = a.m.slots[x].log
    <3>1. x \in Held(w.m) /\ x \in Ids /\ w.d.keys[x] = w.m.slots[x].key
          /\ w.d.logs[x] = w.m.slots[x].log
      BY <1>4, <1>5
    <3>2. CASE x = s
      BY <1>3, <1>5, <3>1, <3>2
    <3>3. CASE x # s
      BY <1>3, <3>1, <3>3
    <3> QED BY <3>2, <3>3
  <2>2. \A x \in Held(a.m) \ o : x \in Held(w.m) \ od /\ a.m.slots[x] = w.m.slots[x]
    BY <1>3, <1>5
  <2>3. DOMAIN mk \ o \subseteq Held(a.m)
    BY <1>1, <1>5 DEF Agree
  <2>4. node = "on" => \A x \in Held(a.m) : a.m.slots[x].key \in a.j
    BY <1>1, <1>3, <1>5 DEF Agree
  <2> QED BY <1>1, <2>1, <2>2, <2>3, <2>4 DEF Agree
<1>8. DiskOK(a.d, dr, mk, o)
  <2>1. a.d \in Disk
    BY <1>3, WorldIs
  <2>2. Listed(a.d) = Listed(w.d) /\ Seen(a.d, dr) = Seen(w.d, dr)
    <3>1. s \in Seen(w.d, dr) /\ w.d.keys[s] # None
      BY <1>4
    <3> QED BY <1>2, <1>3, <3>1 DEF Listed, Seen
  <2>3. \A x \in Ids : a.d.keys[x] \in Codes \cup {None, x}
    BY <1>1, <1>3 DEF DiskOK
  <2>4. \A x \in Ids \ o : "create" \in a.d.logs[x] => a.d.keys[x] = x
    BY <1>1, <1>3 DEF DiskOK
  <2>5. \A i \in DOMAIN a.d.sessions :
          a.d.sessions[i].fresh /\ a.d.sessions[i].id \notin o
            => a.d.keys[a.d.sessions[i].id] \notin Codes
    <3>1. \A i \in DOMAIN a.d.sessions : a.d.sessions[i].id \in Ids
      BY <2>1, ListedIs
    <3> QED BY <1>1, <1>3, <3>1 DEF DiskOK
  <2>6. ASSUME NEW r \in DOMAIN mk \ o
        PROVE  /\ r \in Listed(a.d) /\ a.d.keys[r] = mk[r]
               /\ mk[r] = r => "create" \in a.d.logs[r]
    <3>1. r \in Ids /\ r # s
      BY <1>1, <1>4 DEF Agree
    <3> QED BY <1>1, <1>3, <2>2, <3>1 DEF DiskOK
  <2>7. ASSUME NEW r \in Listed(a.d) \ o, NEW x \in Listed(a.d) \ o,
               a.d.keys[r] = a.d.keys[x], a.d.keys[r] # None
        PROVE  r = x
    <3>1. r \in Ids /\ x \in Ids
      BY <2>1, ListedIs
    <3> QED BY <1>1, <1>3, <2>2, <2>7, <3>1 DEF DiskOK
  <2>8. \A x \in Ids \ Seen(a.d, dr) : a.d.logs[x] = {} /\ x \notin Listed(a.d)
    BY <1>1, <1>3, <2>2 DEF DiskOK
  <2> QED BY <1>1, <1>3, <2>1, <2>3, <2>4, <2>5, <2>6, <2>7, <2>8 DEF DiskOK
<1> QED BY <1>3, <1>6, <1>7, <1>8 DEF Good, a

\* A new entry: the memory names it first, then it has its key.
Listing(w, s) == [w EXCEPT !.m.order = Append(@, s), !.m.current = s]
Entered(w, s) == Keyed(Listing(w, s), s, s)

LEMMA ListingIs ==
  ASSUME NEW w \in Worlds, NEW s \in Ids
  PROVE  LET a == Listing(w, s)
         IN  /\ a \in Worlds /\ Held(a.m) = Held(w.m) /\ a.m.slots = w.m.slots
             /\ a.m.order = Append(w.m.order, s) /\ a.m.current = s
             /\ a.d = w.d /\ a.j = w.j
<1> DEFINE a == Listing(w, s)
<1>1. w.m \in Mems /\ w.d \in Disk /\ w.j \in SUBSET Keys /\ Append(w.m.order, s) \in Seq(Ids)
  BY WorldIs
<1>2. a.m = [w.m EXCEPT !.order = Append(@, s), !.current = s] /\ a.d = w.d /\ a.j = w.j
      /\ a = [m |-> a.m, d |-> a.d, j |-> a.j]
  <2>1. w = [m |-> w.m, d |-> w.d, j |-> w.j]
    BY DEF Worlds
  <2>2. a = [w EXCEPT !.m = [w.m EXCEPT !.order = Append(@, s), !.current = s]]
    BY <1>1 DEF Listing, Mems
  <2> HIDE DEF a
  <2> QED BY <2>1, <2>2
<1> HIDE DEF a
<1>3. a.m \in Mems /\ a.m.slots = w.m.slots /\ a.m.order = Append(w.m.order, s)
      /\ a.m.current = s
  BY <1>1, <1>2 DEF Mems
<1>4. a \in Worlds
  BY <1>1, <1>2, <1>3 DEF Worlds
<1> QED BY <1>2, <1>3, <1>4 DEF a, Held

LEMMA EnteredGood ==
  ASSUME NEW w, NEW dr, NEW mk, NEW od, Good(w, dr, mk, od), NEW s \in Ids \ Seen(w.d, dr)
  PROVE  /\ Good(Entered(w, s), dr, mk, od) /\ Entered(w, s).m.current = s
         /\ s \in Held(Entered(w, s).m) /\ s \notin DOMAIN mk \ od
         /\ Entered(w, s).m.slots[s].key = s
         /\ Entered(w, s).m.slots[s].log = {}
<1> DEFINE l == Listing(w, s)
           a == Entered(w, s)
<1>1. w \in Worlds /\ Tidy(w.m) /\ Agree(w, mk, od) /\ DiskOK(w.d, dr, mk, od)
  BY DEF Good
<1>2. s \in Keys
  BY DEF Keys
<1>3. \A x \in Held(w.m) : /\ x \in Ids /\ w.m.slots[x] \in Slots
                           /\ w.d.keys[x] = w.m.slots[x].key /\ w.d.logs[x] = w.m.slots[x].log
                           /\ w.d.keys[x] \in Codes \cup {x} /\ w.d.keys[x] # None
                           /\ x \in Seen(w.d, dr)
  BY HeldIs
<1>4. s \notin Held(w.m) /\ w.d.keys[s] = None /\ w.d.logs[s] = {} /\ s \notin Listed(w.d)
  BY <1>1, <1>3 DEF DiskOK, Seen
<1>5. /\ l \in Worlds /\ Held(l.m) = Held(w.m) /\ l.m.slots = w.m.slots
      /\ l.m.order = Append(w.m.order, s) /\ l.m.current = s
      /\ l.d = w.d /\ l.j = w.j
  BY <1>1, ListingIs
<1> HIDE DEF l
<1>6. /\ a \in Worlds /\ Held(a.m) = Held(l.m) \cup {s}
      /\ a.m.slots[s].key = s
      /\ s \in Held(l.m) => a.m.slots[s].log = l.m.slots[s].log
      /\ s \notin Held(l.m) => a.m.slots[s].log = {}
      /\ \A x \in Held(l.m) \ {s} : a.m.slots[x] = l.m.slots[x]
      /\ a.m.order = l.m.order /\ a.m.current = l.m.current
      /\ a.d.sessions = l.d.sessions /\ a.d.logs = l.d.logs
      /\ a.d.keys[s] = s /\ \A x \in Ids \ {s} : a.d.keys[x] = l.d.keys[x]
      /\ node = "on" => a.j = l.j \cup {s}
      /\ node # "on" => a.j = l.j
  <2>1. a = Keyed(l, s, s)
    BY DEF a, Entered, l
  <2> HIDE DEF a
  <2>2. a \in Worlds
    BY <1>1, <1>2, <1>5, <2>1, KeyedIs
  <2>7. Held(a.m) = Held(l.m) \cup {s}
    <3>1. \A x : x \in Held(a.m) <=> x \in Held(l.m) \/ x = s
      BY <1>2, <1>5, <2>1, KeyedHeld
    <3> QED BY <3>1
  <2>8. /\ a.m.slots[s].key = s
        /\ \A x \in Held(l.m) \ {s} : a.m.slots[x] = l.m.slots[x]
    BY <1>1, <1>2, <1>5, <2>1, KeyedIs
  <2>3. /\ a.m.order = l.m.order /\ a.m.current = l.m.current
        /\ a.d.sessions = l.d.sessions /\ a.d.logs = l.d.logs
    BY <1>1, <1>2, <1>5, <2>1, KeyedIs
  <2>4. a.d.keys[s] = s /\ \A x \in Ids \ {s} : a.d.keys[x] = l.d.keys[x]
    BY <1>1, <1>2, <1>5, <2>1, KeyedIs
  <2>5. /\ s \in Held(l.m) => a.m.slots[s].log = l.m.slots[s].log
        /\ s \notin Held(l.m) => a.m.slots[s].log = {}
    BY <1>1, <1>2, <1>5, <2>1, KeyedSlot
  <2>6. /\ node = "on" => a.j = l.j \cup {s}
        /\ node # "on" => a.j = l.j
    BY <1>1, <1>2, <1>5, <2>1, KeyedJoins
  <2> QED BY <2>2, <2>3, <2>4, <2>5, <2>6, <2>7, <2>8
<1> HIDE DEF a
<1>7. a.m.slots[s].log = {}
  BY <1>4, <1>5, <1>6
<1>8. /\ a \in Worlds /\ Held(a.m) = Held(w.m) \cup {s}
      /\ a.m.slots[s].key = s /\ a.m.slots[s].log = {}
      /\ \A x \in Held(w.m) : a.m.slots[x] = w.m.slots[x]
      /\ a.m.order = Append(w.m.order, s) /\ a.m.current = s
      /\ a.d.sessions = w.d.sessions /\ a.d.logs = w.d.logs
      /\ a.d.keys[s] = s /\ \A x \in Ids \ {s} : a.d.keys[x] = w.d.keys[x]
      /\ w.j \subseteq a.j /\ (node = "on" => s \in a.j)
  BY <1>4, <1>5, <1>6, <1>7
<1>9. Tidy(a.m)
  <2>1. w.m.order \in Seq(Ids) /\ Range(w.m.order) = Held(w.m)
        /\ \A i, j \in DOMAIN w.m.order : w.m.order[i] = w.m.order[j] => i = j
    BY <1>1, WorldIs DEF Tidy
  <2> DEFINE n == Len(w.m.order)
  <2>2. /\ n \in Nat /\ DOMAIN w.m.order = 1 .. n /\ DOMAIN a.m.order = 1 .. n + 1
        /\ a.m.order[n + 1] = s /\ \A i \in 1 .. n : a.m.order[i] = w.m.order[i]
    BY <1>8, <2>1
  <2> HIDE DEF n
  <2>3. \A i \in 1 .. n : w.m.order[i] # s
    BY <1>4, <2>1, <2>2 DEF Range
  <2>4. DOMAIN a.m.order = (1 .. n) \cup {n + 1}
    BY <2>2
  <2>5. Range(a.m.order) = Held(a.m)
    BY <1>8, <2>1, <2>2, <2>4 DEF Range
  <2>6. \A i, j \in DOMAIN a.m.order : a.m.order[i] = a.m.order[j] => i = j
    BY <2>1, <2>2, <2>3, <2>4
  <2> QED BY <2>5, <2>6 DEF Tidy
<1>10. Agree(a, mk, od)
  <2>1. ASSUME NEW x \in Held(a.m)
        PROVE  a.d.keys[x] = a.m.slots[x].key /\ a.d.logs[x] = a.m.slots[x].log
    <3>1. CASE x = s
      BY <1>4, <1>8, <3>1
    <3>2. CASE x # s
      BY <1>3, <1>8, <3>2
    <3> QED BY <3>1, <3>2
  <2>2. \A x \in Held(a.m) \ od : a.m.slots[x].fresh => a.m.slots[x].key = x
    BY <1>1, <1>8 DEF Agree
  <2>3. \A x \in Held(w.m) : w.m.slots[x].key # s
    BY <1>3, <1>4, KeysApart
  <2>4. \A r, x \in Held(a.m) \ od : a.m.slots[r].key = a.m.slots[x].key => r = x
    BY <1>1, <1>8, <2>3 DEF Agree
  <2>5. DOMAIN mk \ od \subseteq Held(a.m)
    BY <1>1, <1>8 DEF Agree
  <2>6. node = "on" => \A x \in Held(a.m) : a.m.slots[x].key \in a.j
    BY <1>1, <1>8 DEF Agree
  <2> QED BY <2>1, <2>2, <2>4, <2>5, <2>6 DEF Agree
<1>11. DiskOK(a.d, dr, mk, od)
  <2>1. a.d \in Disk
    BY <1>8, WorldIs
  <2>2. Listed(a.d) = Listed(w.d) /\ Seen(a.d, dr) = Seen(w.d, dr) \cup {s}
    BY <1>4, <1>8, KeysApart DEF Listed, Seen
  <2>3. \A x \in Ids : a.d.keys[x] \in Codes \cup {None, x}
    BY <1>1, <1>8 DEF DiskOK
  <2>4. \A x \in Ids \ od : "create" \in a.d.logs[x] => a.d.keys[x] = x
    BY <1>1, <1>8 DEF DiskOK
  <2>5. \A i \in DOMAIN a.d.sessions :
          a.d.sessions[i].id \in Ids /\ a.d.keys[a.d.sessions[i].id] = w.d.keys[a.d.sessions[i].id]
    <3> TAKE i \in DOMAIN a.d.sessions
    <3>1. a.d.sessions[i].id \in Ids /\ a.d.sessions[i].id \in Listed(w.d)
      BY <2>1, <2>2, ListedIs
    <3> QED BY <1>4, <1>8, <3>1
  <2>6. ASSUME NEW r \in DOMAIN mk \ od
        PROVE  /\ r \in Listed(a.d) /\ a.d.keys[r] = mk[r]
               /\ mk[r] = r => "create" \in a.d.logs[r]
    <3>1. r \in Ids /\ r # s
      BY <1>1, <1>3, <1>4 DEF Agree
    <3> QED BY <1>1, <1>8, <2>2, <3>1 DEF DiskOK
  <2>7. ASSUME NEW r \in Listed(a.d) \ od, NEW x \in Listed(a.d) \ od,
               a.d.keys[r] = a.d.keys[x], a.d.keys[r] # None
        PROVE  r = x
    <3>1. r \in Ids /\ x \in Ids
      BY <2>1, ListedIs
    <3> QED BY <1>1, <1>4, <1>8, <2>2, <2>7, <3>1 DEF DiskOK
  <2>8. \A x \in Ids \ Seen(a.d, dr) : a.d.logs[x] = {} /\ x \notin Listed(a.d)
    BY <1>1, <1>8, <2>2 DEF DiskOK
  <2> QED BY <1>1, <1>8, <2>1, <2>3, <2>4, <2>5, <2>6, <2>7, <2>8 DEF DiskOK
<1>12. s \notin DOMAIN mk \ od
  BY <1>1, <1>4 DEF Agree
<1> QED BY <1>7, <1>8, <1>9, <1>10, <1>11, <1>12 DEF Good, a

LEMMA EnteredHeld ==
  ASSUME NEW w, NEW dr, NEW mk, NEW od, Good(w, dr, mk, od), NEW s \in Ids \ Seen(w.d, dr)
  PROVE  /\ \A x : x \in Held(Entered(w, s).m) <=> x \in Held(w.m) \/ x = s
         /\ \A x \in Held(w.m) : Entered(w, s).m.slots[x] = w.m.slots[x]
<1> DEFINE l == Listing(w, s)
<1>1. w \in Worlds /\ s \in Keys /\ s \in Ids
  BY DEF Good, Keys
<1>2. l \in Worlds /\ Held(l.m) = Held(w.m) /\ l.m.slots = w.m.slots
  BY <1>1, ListingIs
<1>3. s \notin Held(w.m)
  BY HeldIs
<1>4. Entered(w, s) = Keyed(l, s, s)
  BY DEF Entered
<1> HIDE DEF l
<1>5. \A x : x \in Held(Keyed(l, s, s).m) <=> x \in Held(l.m) \/ x = s
  BY <1>1, <1>2, KeyedHeld
<1>6. \A k \in Keys : \A x \in Held(l.m) \ {s} : Keyed(l, s, k).m.slots[x] = l.m.slots[x]
  BY <1>1, <1>2, KeyedIs
<1>7. \A x : x \in Held(Entered(w, s).m) <=> x \in Held(w.m) \/ x = s
  BY <1>2, <1>4, <1>5
<1>8. \A x \in Held(w.m) : Entered(w, s).m.slots[x] = w.m.slots[x]
  BY <1>1, <1>2, <1>3, <1>4, <1>6
<1> QED BY <1>7, <1>8

-----------------------------------------------------------------------------
(* Fewer rooms to keep, more odd ones, more ids drawn. *)

LEMMA Weaken ==
  ASSUME NEW d, NEW dr, NEW mk, NEW od, DiskOK(d, dr, mk, od),
         NEW mk2, DOMAIN mk2 \subseteq DOMAIN mk, \A r \in DOMAIN mk2 : mk2[r] = mk[r],
         NEW od2, od \subseteq od2
  PROVE  DiskOK(d, dr, mk2, od2) /\ DiskOK(d, Seen(d, dr), mk2, od2)
<1>1. Seen(d, Seen(d, dr)) = Seen(d, dr)
  BY DEF Seen
<1>2. DiskOK(d, dr, mk2, od2)
  <2>1. ASSUME NEW r \in DOMAIN mk2 \ od2
        PROVE  /\ r \in Listed(d) /\ d.keys[r] = mk2[r]
               /\ mk2[r] = r => "create" \in d.logs[r]
    BY DEF DiskOK
  <2> QED BY <2>1 DEF DiskOK
<1> QED BY <1>1, <1>2 DEF DiskOK

\* What a crash may leave behind.
Survives(d, dr, mk, od) == DiskOK(d, dr, mk, od \cup ListedFresh(d))
Points(dr, mk, od) == {w \in Worlds : Survives(w.d, dr, mk, od)}

LEMMA GoodSurvives ==
  ASSUME NEW w, NEW dr, NEW mk, NEW od, Good(w, dr, mk, od)
  PROVE  w \in Points(dr, mk, od)
<1>1. w \in Worlds /\ DiskOK(w.d, dr, mk, od)
  BY DEF Good
<1>2. DiskOK(w.d, dr, mk, od \cup ListedFresh(w.d))
  BY <1>1, Weaken
<1> QED BY <1>1, <1>2 DEF Points, Survives

LEMMA GoodWeaken ==
  ASSUME NEW w, NEW dr, NEW mk, NEW od, Good(w, dr, mk, od),
         NEW mk2, DOMAIN mk2 \subseteq DOMAIN mk, \A r \in DOMAIN mk2 : mk2[r] = mk[r]
  PROVE  Good(w, dr, mk2, od)
<1>1. DiskOK(w.d, dr, mk2, od)
  BY Weaken DEF Good
<1>2. Agree(w, mk2, od)
  BY DEF Good, Agree
<1> QED BY <1>1, <1>2 DEF Good

LEMMA GoodSeen ==
  ASSUME NEW w, NEW dr, NEW mk, NEW od, Good(w, dr, mk, od)
  PROVE  Good(w, Seen(w.d, dr), mk, od)
<1>1. DiskOK(w.d, Seen(w.d, dr), mk, od)
  BY Weaken DEF Good
<1> QED BY <1>1 DEF Good

\* One room more to keep.
LEMMA MadeMore ==
  ASSUME NEW w, NEW dr, NEW mk, NEW od, Good(w, dr, mk, od),
         NEW r \in Held(w.m), r \in Listed(w.d), NEW v,
         r \notin od => w.d.keys[r] = v /\ (v = r => "create" \in w.d.logs[r])
  PROVE  Good(w, dr, Put(mk, r, v), od)
<1> DEFINE mk2 == Put(mk, r, v)
<1>1. DOMAIN mk2 = DOMAIN mk \cup {r} /\ mk2[r] = v /\ \A x \in DOMAIN mk \ {r} : mk2[x] = mk[x]
  BY DEF Put
<1> HIDE DEF mk2
<1>2. Agree(w, mk2, od)
  <2>1. DOMAIN mk2 \ od \subseteq Held(w.m)
    BY <1>1 DEF Good, Agree
  <2> QED BY <2>1 DEF Good, Agree
<1>3. DiskOK(w.d, dr, mk2, od)
  <2>1. ASSUME NEW x \in DOMAIN mk2 \ od
        PROVE  /\ x \in Listed(w.d) /\ w.d.keys[x] = mk2[x]
               /\ mk2[x] = x => "create" \in w.d.logs[x]
    <3>1. CASE x = r
      BY <1>1, <3>1
    <3>2. CASE x # r
      BY <1>1, <3>2 DEF Good, DiskOK
    <3> QED BY <3>1, <3>2
  <2> QED BY <2>1 DEF Good, DiskOK
<1> QED BY <1>2, <1>3 DEF Good, mk2

\* A room that got somebody else's key is not odd if nobody takes it for untouched.
LEMMA Forgive ==
  ASSUME NEW d, NEW dr, NEW mk, NEW od, NEW r \in Ids, DiskOK(d, dr, mk, od \cup {r}),
         NEW od2, od \subseteq od2,
         r \notin od2 => /\ "create" \notin d.logs[r]
                         /\ \A i \in DOMAIN d.sessions : d.sessions[i].id = r => ~d.sessions[i].fresh
                         /\ r \notin DOMAIN mk
                         /\ \A x \in Listed(d) \ {r} : d.keys[x] # d.keys[r]
  PROVE  DiskOK(d, dr, mk, od2)
<1>1. CASE r \in od2
  <2>1. od \cup {r} \subseteq od2
    BY <1>1
  <2> QED BY <2>1, Weaken
<1>2. CASE r \notin od2
  <2>1. \A s \in Ids \ od2 : "create" \in d.logs[s] => d.keys[s] = s
    BY <1>2 DEF DiskOK
  <2>2. \A i \in DOMAIN d.sessions :
          d.sessions[i].fresh /\ d.sessions[i].id \notin od2 => d.keys[d.sessions[i].id] \notin Codes
    BY <1>2 DEF DiskOK
  <2>3. ASSUME NEW x \in DOMAIN mk \ od2
        PROVE  /\ x \in Listed(d) /\ d.keys[x] = mk[x]
               /\ mk[x] = x => "create" \in d.logs[x]
    BY <1>2 DEF DiskOK
  <2>4. \A x, s \in Listed(d) \ od2 : d.keys[x] = d.keys[s] /\ d.keys[x] # None => x = s
    BY <1>2 DEF DiskOK
  <2> QED BY <2>1, <2>2, <2>3, <2>4 DEF DiskOK
<1> QED BY <1>1, <1>2

-----------------------------------------------------------------------------
(* What is said in a room: our profile or our claim. *)

Grown(w, a) ==
  /\ a \in Worlds /\ Held(a.m) = Held(w.m) /\ a.m.current = w.m.current
  /\ a.d.keys = w.d.keys /\ a.d.sessions = w.d.sessions
  /\ \A x \in Ids : w.d.logs[x] \subseteq a.d.logs[x] /\ a.d.logs[x] \subseteq w.d.logs[x] \cup {"other"}
  /\ \A x \in Held(w.m) : a.m.slots[x].key = w.m.slots[x].key /\ a.m.slots[x].fresh = w.m.slots[x].fresh

LEMMA SaidGood ==
  ASSUME NEW w, NEW dr, NEW mk, NEW od, Good(w, dr, mk, od), NEW s \in Held(w.m),
         NEW a, a = w \/ a = Pushed(w, s, "other")
  PROVE  Good(a, dr, mk, od) /\ Grown(w, a)
<1>1. CASE a = w
  BY <1>1 DEF Good, Grown
<1>2. CASE a = Pushed(w, s, "other")
  <2>1. "other" \in Kinds /\ "other" # "create" /\ w \in Worlds
    BY DEF Kinds, Good
  <2>2. Good(a, dr, mk, od)
    <3>1. \A kind \in Kinds : kind # "create" => Good(Pushed(w, s, kind), dr, mk, od)
      BY PushedGood
    <3> QED BY <1>2, <2>1, <3>1
  <2>3. /\ a \in Worlds /\ Held(a.m) = Held(w.m) /\ a.m.current = w.m.current
        /\ a.m.slots[s].key = w.m.slots[s].key /\ a.m.slots[s].fresh = w.m.slots[s].fresh
        /\ \A x \in Held(w.m) \ {s} : a.m.slots[x] = w.m.slots[x]
        /\ a.d.sessions = w.d.sessions /\ a.d.keys = w.d.keys
        /\ a.d.logs[s] = w.d.logs[s] \cup {"other"}
        /\ \A x \in Ids \ {s} : a.d.logs[x] = w.d.logs[x]
    BY <1>2, <2>1, PushedIs
  <2>4. \A x \in Ids : w.d.logs[x] \subseteq a.d.logs[x] /\ a.d.logs[x] \subseteq w.d.logs[x] \cup {"other"}
    BY <2>3
  <2>5. \A x \in Held(w.m) : a.m.slots[x].key = w.m.slots[x].key
    BY <2>3
  <2>6. \A x \in Held(w.m) : a.m.slots[x].fresh = w.m.slots[x].fresh
    BY <2>3
  <2> QED BY <2>2, <2>3, <2>4, <2>5, <2>6 DEF Grown
<1> QED BY <1>1, <1>2

LEMMA AnnouncedGood ==
  ASSUME NEW w, NEW dr, NEW mk, NEW od, Good(w, dr, mk, od), NEW s \in Held(w.m)
  PROVE  Good(Announced(w, s), dr, mk, od) /\ Grown(w, Announced(w, s))
<1>1. Announced(w, s) = w \/ Announced(w, s) = Pushed(w, s, "other")
  BY DEF Announced
<1> QED BY <1>1, SaidGood

LEMMA ClaimedGood ==
  ASSUME NEW w, NEW dr, NEW mk, NEW od, Good(w, dr, mk, od), NEW s \in Held(w.m), NEW invited
  PROVE  Good(Claimed(w, s, invited), dr, mk, od) /\ Grown(w, Claimed(w, s, invited))
<1>1. Claimed(w, s, invited) = w \/ Claimed(w, s, invited) = Pushed(w, s, "other")
  BY DEF Claimed
<1> QED BY <1>1, SaidGood

-----------------------------------------------------------------------------
(* The handlers, as trails of points that a crash may leave behind. *)

LEMMA Joined ==
  ASSUME NEW S, NEW t \in Seq(S), NEW u \in Seq(S), u # << >>
  PROVE  t \o u \in Seq(S) /\ t \o u # << >> /\ Last(t \o u) = Last(u)
<1>1. t \o u \in Seq(S) /\ Len(t \o u) = Len(t) + Len(u) /\ Len(t) \in Nat /\ Len(u) \in Nat
  OBVIOUS
<1>2. Len(u) # 0
  OBVIOUS
<1>3. (t \o u)[Len(t) + Len(u)] = u[Len(u)]
  BY <1>1, <1>2
<1> QED BY <1>1, <1>2, <1>3 DEF Last

LEMMA NewEntryIs ==
  ASSUME NEW w, NEW dr, NEW mk, NEW od, Good(w, dr, mk, od), NEW s \in Ids \ Seen(w.d, dr)
  PROVE  LET t == NewEntry(w, s)
             z == Last(t)
         IN  /\ t \in Seq(Points(dr, mk, od)) /\ t # << >>
             /\ Settled(z, dr, mk, od) /\ z.m.current = s
             /\ z.m.slots[s].key = s /\ z.m.slots[s].log = {}
             /\ s \notin DOMAIN mk \ od
             /\ \A x : x \in Held(z.m) <=> x \in Held(w.m) \/ x = s
             /\ \A x \in Held(w.m) : z.m.slots[x] = w.m.slots[x]
<1> DEFINE a == Entered(w, s)
           z == Saved(a)
           t == NewEntry(w, s)
<1>1. t = <<a, z>>
  BY DEF NewEntry, Entered, Listing
<1>2. /\ Good(a, dr, mk, od) /\ a.m.current = s
      /\ s \notin DOMAIN mk \ od
      /\ a.m.slots[s].key = s
      /\ a.m.slots[s].log = {}
  BY EnteredGood
<1>3. /\ \A x : x \in Held(a.m) <=> x \in Held(w.m) \/ x = s
      /\ \A x \in Held(w.m) : a.m.slots[x] = w.m.slots[x]
  BY EnteredHeld
<1> HIDE DEF a
<1>4. Good(z, dr, mk, od) /\ Listed(z.d) = Held(z.m) /\ z.m = a.m
  <2>1. a \in Worlds /\ Tidy(a.m)
    BY <1>2 DEF Good
  <2> QED BY <1>2, <2>1, SavedGood, SavedIs
<1> HIDE DEF z, t
<1>5. a \in Points(dr, mk, od) /\ z \in Points(dr, mk, od)
  BY <1>2, <1>4, GoodSurvives
<1>6. t \in Seq(Points(dr, mk, od)) /\ t # << >> /\ Last(t) = z
  BY <1>1, <1>5 DEF Last
<1>7. Settled(z, dr, mk, od)
  BY <1>2, <1>3, <1>4 DEF Settled
<1> QED BY <1>2, <1>3, <1>4, <1>6, <1>7 DEF t

\* The room a create or a join uses: the untouched default or a new entry.
IdFor(w, dr, s) ==
  IF Reusable(w.m.slots[w.m.current]) THEN s = None ELSE s \in Ids \ Seen(w.d, dr)

LEMMA TargetIs ==
  ASSUME NEW w, NEW dr, NEW mk, NEW od, Settled(w, dr, mk, od), NEW s, IdFor(w, dr, s)
  PROVE  LET t == TargetTrail(w, s)
             z == Last(t)
             r == Target(w, s)
         IN  /\ t \in Seq(Points(dr, mk, od)) /\ t # << >>
             /\ Settled(z, dr, mk, od) /\ z.m.current = r
             /\ z.m.slots[r].log = {} /\ r \notin DOMAIN mk \ od
             /\ r \notin od => z.m.slots[r].key = r
             /\ \A x \in Held(z.m) : x # r => x \in Held(w.m) /\ z.m.slots[x] = w.m.slots[x]
<1>0. Good(w, dr, mk, od) /\ w.m.current \in Held(w.m) /\ Listed(w.d) = Held(w.m)
  BY DEF Settled
<1>1. CASE Reusable(w.m.slots[w.m.current])
  <2> DEFINE c == w.m.current
  <2>1. s = None /\ c # None
    BY <1>0, <1>1, HeldIs, KeysApart DEF IdFor
  <2>2. Target(w, s) = c /\ TargetTrail(w, s) = <<w>>
    BY <1>1, <2>1 DEF Target, TargetTrail
  <2>3. w.m.slots[c].log = {} /\ w.m.slots[c].fresh
    BY <1>1 DEF Reusable
  <2>4. c \in Ids /\ w.d.keys[c] = w.m.slots[c].key /\ w.d.logs[c] = w.m.slots[c].log
    BY <1>0, HeldIs
  <2>5. c \notin od => w.m.slots[c].key = c
    BY <1>0, <2>3 DEF Good, Agree
  <2>6. c \notin DOMAIN mk \ od
    <3>1. ASSUME c \in DOMAIN mk \ od PROVE FALSE
      <4>1. w.d.keys[c] = mk[c] /\ (mk[c] = c => "create" \in w.d.logs[c])
        BY <1>0, <3>1 DEF Good, DiskOK
      <4> QED BY <2>3, <2>4, <2>5, <3>1, <4>1
    <3> QED BY <3>1
  <2>7. <<w>> \in Seq(Points(dr, mk, od)) /\ <<w>> # << >> /\ Last(<<w>>) = w
    <3>1. w \in Points(dr, mk, od)
      BY <1>0, GoodSurvives
    <3> QED BY <3>1 DEF Last
  <2> HIDE DEF c
  <2> QED BY <2>2, <2>3, <2>5, <2>6, <2>7 DEF c
<1>2. CASE ~Reusable(w.m.slots[w.m.current])
  <2> DEFINE t == NewEntry(w, s)
             z == Last(t)
  <2>1. s \in Ids \ Seen(w.d, dr)
    BY <1>2 DEF IdFor
  <2>2. Target(w, s) = s /\ TargetTrail(w, s) = t
    BY <1>2 DEF Target, TargetTrail
  <2>3. /\ t \in Seq(Points(dr, mk, od)) /\ t # << >>
        /\ Settled(z, dr, mk, od) /\ z.m.current = s
        /\ z.m.slots[s].key = s /\ z.m.slots[s].log = {}
        /\ s \notin DOMAIN mk \ od
    BY <1>0, <2>1, NewEntryIs
  <2>4. \A x : x \in Held(z.m) <=> x \in Held(w.m) \/ x = s
    BY <1>0, <2>1, NewEntryIs
  <2>5. \A x \in Held(w.m) : z.m.slots[x] = w.m.slots[x]
    BY <1>0, <2>1, NewEntryIs
  <2> HIDE DEF t, z
  <2>6. \A x \in Held(z.m) : x # s => x \in Held(w.m) /\ z.m.slots[x] = w.m.slots[x]
    BY <2>4, <2>5
  <2> QED BY <2>2, <2>3, <2>6 DEF z
<1> QED BY <1>1, <1>2

\* createSession.
LEMMA CreateIs ==
  ASSUME NEW w, NEW dr, NEW mk, NEW od, Settled(w, dr, mk, od), NEW s, IdFor(w, dr, s)
  PROVE  LET t == Create(w, s)
             r == Target(w, s)
         IN  /\ t \in Seq(Points(dr, mk, od)) /\ t # << >>
             /\ Settled(Last(t), dr, Put(mk, r, r), od)
<1> DEFINE u == TargetTrail(w, s)
           y == Last(u)
           r == Target(w, s)
           x == Unfreshed(y, r)
           a == Pushed(x, r, "create")
           b == Announced(a, r)
           c == Saved(b)
           t == Create(w, s)
<1>1. t = u \o <<a, b, c>>
  BY DEF Create, Unfreshed
<1>2. /\ u \in Seq(Points(dr, mk, od)) /\ u # << >>
      /\ Settled(y, dr, mk, od) /\ y.m.current = r
      /\ y.m.slots[r].log = {} /\ r \notin DOMAIN mk \ od
      /\ r \notin od => y.m.slots[r].key = r
  BY TargetIs
<1> HIDE DEF u, y, r
<1>3. Good(y, dr, mk, od) /\ r \in Held(y.m)
  BY <1>2 DEF Settled
<1>4. /\ Good(x, dr, mk, od) /\ Held(x.m) = Held(y.m) /\ x.m.current = r
      /\ x.m.slots[r].key = y.m.slots[r].key
  <2>1. y \in Worlds
    BY <1>3 DEF Good
  <2> QED BY <1>2, <1>3, <2>1, UnfreshedGood, UnfreshedIs
<1> HIDE DEF x
<1>5. x \in Worlds /\ r \in Held(x.m) /\ r \in Ids
  BY <1>3, <1>4, HeldIs DEF Good
<1>6. Good(a, dr, mk, od)
  <2>1. \A kind \in Kinds :
          (kind = "create" => r \in od \/ x.m.slots[r].key = r) => Good(Pushed(x, r, kind), dr, mk, od)
    BY <1>4, <1>5, PushedGood
  <2>2. "create" \in Kinds /\ (r \in od \/ x.m.slots[r].key = r)
    BY <1>2, <1>4 DEF Kinds
  <2> QED BY <2>1, <2>2
<1>7. Held(a.m) = Held(x.m) /\ a.m.current = r /\ a.d.logs[r] = x.d.logs[r] \cup {"create"}
  <2>1. "create" \in Kinds
    BY DEF Kinds
  <2>2. \A kind \in Kinds : /\ Held(Pushed(x, r, kind).m) = Held(x.m)
                            /\ Pushed(x, r, kind).m.current = x.m.current
                            /\ Pushed(x, r, kind).d.logs[r] = x.d.logs[r] \cup {kind}
    BY <1>5, PushedIs
  <2> QED BY <1>4, <2>1, <2>2
<1> HIDE DEF a
<1>8. Good(b, dr, mk, od) /\ Grown(a, b)
  BY <1>5, <1>6, <1>7, AnnouncedGood
<1>9. r \in Held(b.m) /\ b.m.current = r /\ "create" \in b.d.logs[r]
  BY <1>5, <1>7, <1>8 DEF Grown
<1> HIDE DEF b
<1>10. /\ Good(c, dr, mk, od) /\ Listed(c.d) = Held(c.m) /\ c.m = b.m
       /\ c.d.keys = b.d.keys /\ c.d.logs = b.d.logs
  <2>1. b \in Worlds /\ Tidy(b.m)
    BY <1>8 DEF Good
  <2> QED BY <1>8, <2>1, SavedGood, SavedIs
<1> HIDE DEF c
<1>11. Good(c, dr, Put(mk, r, r), od)
  <2>1. r \in Held(c.m) /\ r \in Listed(c.d) /\ "create" \in c.d.logs[r]
    BY <1>9, <1>10
  <2>2. r \notin od => c.d.keys[r] = r
    BY <1>5, <1>10, <2>1 DEF Good, DiskOK
  <2> QED BY <1>10, <2>1, <2>2, MadeMore
<1>12. Settled(c, dr, Put(mk, r, r), od)
  BY <1>9, <1>10, <1>11 DEF Settled
<1>13. a \in Points(dr, mk, od) /\ b \in Points(dr, mk, od) /\ c \in Points(dr, mk, od)
  BY <1>6, <1>8, <1>10, GoodSurvives
<1>14. <<a, b, c>> \in Seq(Points(dr, mk, od)) /\ <<a, b, c>> # << >> /\ Last(<<a, b, c>>) = c
  BY <1>13 DEF Last
<1>15. t \in Seq(Points(dr, mk, od)) /\ t # << >> /\ Last(t) = c
  <2> HIDE DEF t
  <2> QED BY <1>1, <1>2, <1>14, Joined
<1> QED BY <1>12, <1>15 DEF r

\* joinSession of a room that is held.
LEMMA JoinHeldIs ==
  ASSUME NEW w, NEW dr, NEW mk, NEW od, Settled(w, dr, mk, od),
         NEW code \in Codes, NEW r \in Held(w.m), w.m.slots[r].key = code, NEW invited
  PROVE  LET t == JoinHeld(w, r, invited)
         IN  /\ t \in Seq(Points(dr, mk, od)) /\ t # << >>
             /\ Settled(Last(t), dr, Put(mk, Last(t).m.current, code), od)
<1> DEFINE x == At(w, r)
           a == Claimed(x, r, invited)
           c == Saved(a)
           t == JoinHeld(w, r, invited)
<1>1. t = <<a, c>>
  BY DEF JoinHeld, At
<1>2. Good(w, dr, mk, od) /\ w \in Worlds /\ r \in Ids /\ w.d.keys[r] = code
  BY HeldIs DEF Settled, Good
<1>3. Good(x, dr, mk, od) /\ Held(x.m) = Held(w.m) /\ x.m.current = r /\ x.d = w.d
  BY <1>2, AtGood, AtIs
<1> HIDE DEF x
<1>4. Good(a, dr, mk, od) /\ Grown(x, a)
  BY <1>3, ClaimedGood
<1>5. r \in Held(a.m) /\ a.m.current = r /\ a.d.keys[r] = code
  BY <1>2, <1>3, <1>4 DEF Grown
<1> HIDE DEF a
<1>6. /\ Good(c, dr, mk, od) /\ Listed(c.d) = Held(c.m) /\ c.m = a.m /\ c.d.keys = a.d.keys
  <2>1. a \in Worlds /\ Tidy(a.m)
    BY <1>4 DEF Good
  <2> QED BY <1>4, <2>1, SavedGood, SavedIs
<1> HIDE DEF c
<1>7. Good(c, dr, Put(mk, r, code), od)
  <2>1. r \in Held(c.m) /\ r \in Listed(c.d) /\ c.d.keys[r] = code /\ code # r
    BY <1>2, <1>5, <1>6, KeysApart
  <2> QED BY <1>6, <2>1, MadeMore
<1>8. Settled(c, dr, Put(mk, r, code), od) /\ c.m.current = r
  BY <1>5, <1>6, <1>7 DEF Settled
<1>9. a \in Points(dr, mk, od) /\ c \in Points(dr, mk, od)
  BY <1>4, <1>6, GoodSurvives
<1>10. <<a, c>> \in Seq(Points(dr, mk, od)) /\ <<a, c>> # << >> /\ Last(<<a, c>>) = c
  BY <1>9 DEF Last
<1> QED BY <1>1, <1>8, <1>10

\* A join may die between the key and the registry: who takes the room for untouched
\* then has it among the odd ones.
LEMMA JoinPoint ==
  ASSUME NEW w, NEW dr, NEW mk, NEW od, NEW r \in Ids, Good(w, dr, mk, od \cup {r}),
         w.d.keys[r] \in Codes, "create" \notin w.d.logs[r], r \notin DOMAIN mk \ od,
         \A x \in Listed(w.d) \ {r} : w.d.keys[x] # w.d.keys[r]
  PROVE  w \in Points(dr, mk, od)
<1> DEFINE o == od \cup ListedFresh(w.d)
<1>1. w \in Worlds /\ DiskOK(w.d, dr, mk, od \cup {r}) /\ w.d \in Disk
  BY WorldIs DEF Good
<1>2. ASSUME r \notin o, NEW i \in DOMAIN w.d.sessions, w.d.sessions[i].id = r
      PROVE  ~w.d.sessions[i].fresh
  <2>1. w.d.sessions \in Seq([id : Ids, fresh : BOOLEAN])
    BY <1>1, WorldIs
  <2>2. DOMAIN w.d.sessions = 1 .. Len(w.d.sessions) /\ w.d.sessions[i] \in [id : Ids, fresh : BOOLEAN]
    <3> DEFINE S == [id : Ids, fresh : BOOLEAN]
    <3> HIDE DEF S
    <3>1. w.d.sessions \in Seq(S)
      BY <2>1 DEF S
    <3>2. DOMAIN w.d.sessions = 1 .. Len(w.d.sessions) /\ w.d.sessions[i] \in S
      BY <3>1
    <3> QED BY <3>2 DEF S
  <2>3. CASE w.d.sessions[i].fresh
    <3>1. w.d.sessions[i] = [id |-> r, fresh |-> TRUE]
      BY <1>2, <2>2, <2>3
    <3>2. r \in ListedFresh(w.d)
      BY <2>2, <3>1 DEF ListedFresh
    <3> QED BY <1>2, <3>2
  <2> QED BY <2>3
<1>3. DiskOK(w.d, dr, mk, o)
  <2>1. od \subseteq o
    OBVIOUS
  <2>2. r \notin o => r \notin DOMAIN mk
    OBVIOUS
  <2> HIDE DEF o
  <2> QED BY <1>1, <1>2, <2>1, <2>2, Forgive
<1> QED BY <1>1, <1>3 DEF Points, Survives

LEMMA JoinNewIs ==
  ASSUME NEW w, NEW dr, NEW mk, NEW od, Settled(w, dr, mk, od), NEW s, IdFor(w, dr, s),
         NEW code \in Codes, \A x \in Held(w.m) : w.m.slots[x].key # code, NEW invited
  PROVE  LET t == JoinNew(w, s, code, invited)
         IN  /\ t \in Seq(Points(dr, mk, od)) /\ t # << >>
             /\ Settled(Last(t), dr, Put(mk, Last(t).m.current, code), od)
<1> DEFINE u == TargetTrail(w, s)
           y == Last(u)
           r == Target(w, s)
           a == Keyed(y, r, code)
           f == Unfreshed(a, r)
           x == At(f, r)
           b == Announced(x, r)
           c == Claimed(b, r, invited)
           e == Saved(c)
           t == JoinNew(w, s, code, invited)
           o == od \cup {r}
<1>1. t = u \o <<a, b, c, e>>
  <2>1. [a EXCEPT !.m.slots[r].fresh = FALSE, !.m.current = r] = x
    BY DEF At, Unfreshed
  <2> HIDE DEF x
  <2> QED BY <2>1 DEF JoinNew
<1>2. /\ u \in Seq(Points(dr, mk, od)) /\ u # << >>
      /\ Settled(y, dr, mk, od) /\ y.m.current = r
      /\ y.m.slots[r].log = {} /\ r \notin DOMAIN mk \ od
      /\ r \notin od => y.m.slots[r].key = r
  BY TargetIs
<1>3. \A z \in Held(y.m) : z # r => z \in Held(w.m) /\ y.m.slots[z] = w.m.slots[z]
  BY TargetIs
<1> HIDE DEF u, y, r, t
<1>4. Good(y, dr, mk, od) /\ r \in Held(y.m) /\ Listed(y.d) = Held(y.m) /\ y \in Worlds
  BY <1>2 DEF Settled, Good
<1>5. r \in Ids /\ y.d.logs[r] = {} /\ code \in Keys
  BY <1>2, <1>4, HeldIs DEF Keys
<1>6. \A z \in Listed(y.d) \ {r} : z \in Ids /\ y.d.keys[z] # code
  BY <1>3, <1>4, HeldIs
<1>7. Good(a, dr, mk, o)
  BY <1>4, KeyedGood
<1>8. /\ a \in Worlds /\ a.d.sessions = y.d.sessions /\ a.d.logs = y.d.logs
      /\ a.d.keys[r] = code /\ \A z \in Ids \ {r} : a.d.keys[z] = y.d.keys[z]
  BY <1>4, <1>5, KeyedIs
<1>9. r \in Held(a.m) /\ Held(a.m) = Held(y.m)
  <2>1. \A z : z \in Held(a.m) <=> z \in Held(y.m) \/ z = r
    BY <1>4, <1>5, KeyedHeld
  <2> QED BY <1>4, <2>1
<1>10. \A z \in Held(y.m) \ {r} : a.m.slots[z] = y.m.slots[z]
  BY <1>4, <1>5, KeyedIs
<1> HIDE DEF a
<1>11. Good(f, dr, mk, o) /\ f \in Worlds /\ Held(f.m) = Held(a.m) /\ f.d = a.d
       /\ f.m.slots[r].fresh = FALSE
  BY <1>7, <1>8, <1>9, UnfreshedGood, UnfreshedIs
<1> HIDE DEF f
<1>12. Good(x, dr, mk, o) /\ x \in Worlds /\ Held(x.m) = Held(a.m) /\ x.d = a.d
       /\ x.m.current = r /\ x.m.slots[r].fresh = FALSE
  BY <1>5, <1>11, AtGood, AtIs
<1> HIDE DEF x
<1>13. Good(b, dr, mk, o) /\ Grown(x, b)
  BY <1>9, <1>12, AnnouncedGood
<1>14. /\ b \in Worlds /\ Held(b.m) = Held(a.m) /\ b.m.current = r
       /\ b.d.keys = a.d.keys /\ b.d.sessions = a.d.sessions
       /\ b.d.logs[r] \subseteq {"other"} /\ ~b.m.slots[r].fresh
  BY <1>5, <1>8, <1>9, <1>12, <1>13 DEF Grown
<1> HIDE DEF b
<1>15. Good(c, dr, mk, o) /\ Grown(b, c)
  BY <1>9, <1>13, <1>14, ClaimedGood
<1>16. /\ c \in Worlds /\ Held(c.m) = Held(a.m) /\ c.m.current = r
       /\ c.d.keys = a.d.keys /\ c.d.sessions = a.d.sessions
       /\ c.d.logs[r] \subseteq {"other"} /\ ~c.m.slots[r].fresh
  BY <1>5, <1>9, <1>14, <1>15 DEF Grown
<1> HIDE DEF c
<1>17. Good(e, dr, mk, o) /\ Listed(e.d) = Held(e.m)
  BY <1>15, SavedGood
<1>18. /\ e.m = c.m /\ e.d.keys = c.d.keys /\ e.d.logs = c.d.logs
       /\ DOMAIN e.d.sessions = DOMAIN c.m.order
       /\ \A i \in DOMAIN c.m.order :
            /\ e.d.sessions[i].id = c.m.order[i]
            /\ e.d.sessions[i].fresh = c.m.slots[c.m.order[i]].fresh
  <2>1. Tidy(c.m)
    BY <1>15 DEF Good
  <2> QED BY <1>16, <2>1, SavedIs
<1> HIDE DEF e
<1>19. "create" \notin {"other"}
  OBVIOUS
<1>20. a \in Points(dr, mk, od) /\ b \in Points(dr, mk, od) /\ c \in Points(dr, mk, od)
  <2>1. \A z \in Listed(y.d) \ {r} : a.d.keys[z] # a.d.keys[r]
    BY <1>6, <1>8
  <2>2. Listed(a.d) = Listed(y.d) /\ Listed(b.d) = Listed(y.d) /\ Listed(c.d) = Listed(y.d)
    BY <1>8, <1>14, <1>16 DEF Listed
  <2>3. a \in Points(dr, mk, od)
    <3>1. Good(a, dr, mk, od \cup {r})
      BY <1>7
    <3>2. a.d.keys[r] \in Codes /\ "create" \notin a.d.logs[r]
      BY <1>5, <1>8
    <3>3. \A z \in Listed(a.d) \ {r} : a.d.keys[z] # a.d.keys[r]
      BY <1>5, <1>8, <2>1, <2>2
    <3>4. r \in Ids /\ r \notin DOMAIN mk \ od
      BY <1>2, <1>5
    <3> QED BY ONLY <3>1, <3>2, <3>3, <3>4, JoinPoint
  <2>4. b \in Points(dr, mk, od)
    <3>1. Good(b, dr, mk, od \cup {r})
      BY <1>13
    <3>2. b.d.keys[r] \in Codes /\ "create" \notin b.d.logs[r]
      BY <1>8, <1>14, <1>19
    <3>3. \A z \in Listed(b.d) \ {r} : b.d.keys[z] # b.d.keys[r]
      BY <1>8, <1>14, <1>19, <2>1, <2>2
    <3>4. r \in Ids /\ r \notin DOMAIN mk \ od
      BY <1>2, <1>5
    <3> QED BY ONLY <3>1, <3>2, <3>3, <3>4, JoinPoint
  <2>5. c \in Points(dr, mk, od)
    <3>1. Good(c, dr, mk, od \cup {r})
      BY <1>15
    <3>2. c.d.keys[r] \in Codes /\ "create" \notin c.d.logs[r]
      BY <1>8, <1>16, <1>19
    <3>3. \A z \in Listed(c.d) \ {r} : c.d.keys[z] # c.d.keys[r]
      BY <1>8, <1>16, <1>19, <2>1, <2>2
    <3>4. r \in Ids /\ r \notin DOMAIN mk \ od
      BY <1>2, <1>5
    <3> QED BY ONLY <3>1, <3>2, <3>3, <3>4, JoinPoint
  <2> QED BY <2>3, <2>4, <2>5
<1>21. \A z \in Held(e.m) \ {r} : z \in Listed(y.d) /\ e.d.keys[z] # code
  <2>1. Held(e.m) = Listed(y.d)
    BY <1>4, <1>9, <1>16, <1>18
  <2> QED BY <1>6, <1>8, <1>16, <1>18, <2>1
<1>22. DiskOK(e.d, dr, mk, od)
  <2>1. \A i \in DOMAIN e.d.sessions : e.d.sessions[i].id = r => ~e.d.sessions[i].fresh
    BY <1>16, <1>18
  <2>2. "create" \notin e.d.logs[r]
    BY <1>16, <1>18, <1>19
  <2>3. \A z \in Listed(e.d) \ {r} : e.d.keys[z] # e.d.keys[r]
    BY <1>8, <1>16, <1>17, <1>18, <1>21
  <2>4. DiskOK(e.d, dr, mk, od \cup {r})
    BY <1>17 DEF Good
  <2>5. r \notin od => r \notin DOMAIN mk
    BY <1>2
  <2> QED BY <1>5, <2>1, <2>2, <2>3, <2>4, <2>5, Forgive
<1>23. Agree(e, mk, od)
  <2>1. Agree(e, mk, o) /\ r \in Held(e.m)
    BY <1>9, <1>16, <1>17, <1>18 DEF Good
  <2>2. \A z \in Held(e.m) : e.d.keys[z] = e.m.slots[z].key
    BY <2>1 DEF Agree
  <2>3. \A z \in Held(e.m) \ {r} : e.m.slots[z].key # e.m.slots[r].key
    BY <1>8, <1>16, <1>18, <1>21, <2>1, <2>2
  <2>4. ~e.m.slots[r].fresh
    BY <1>16, <1>18
  <2>5. \A z \in Held(e.m) \ od : e.m.slots[z].fresh => e.m.slots[z].key = z
    BY <2>1, <2>4 DEF Agree
  <2>6. \A q, z \in Held(e.m) \ od : e.m.slots[q].key = e.m.slots[z].key => q = z
    BY <2>1, <2>3 DEF Agree
  <2>7. DOMAIN mk \ od \subseteq Held(e.m)
    BY <2>1 DEF Agree
  <2> QED BY <2>1, <2>5, <2>6, <2>7 DEF Agree
<1>24. Good(e, dr, mk, od)
  BY <1>17, <1>22, <1>23 DEF Good
<1>25. Settled(e, dr, Put(mk, r, code), od) /\ e.m.current = r
  <2>1. r \in Held(e.m) /\ r \in Listed(e.d) /\ e.d.keys[r] = code /\ code # r
    BY <1>5, <1>8, <1>9, <1>16, <1>17, <1>18, KeysApart
  <2>2. Good(e, dr, Put(mk, r, code), od)
    BY <1>24, <2>1, MadeMore
  <2> QED BY <1>16, <1>17, <1>18, <2>1, <2>2 DEF Settled
<1>26. <<a, b, c, e>> \in Seq(Points(dr, mk, od)) /\ <<a, b, c, e>> # << >> /\ Last(<<a, b, c, e>>) = e
  <2>1. e \in Points(dr, mk, od)
    BY <1>24, GoodSurvives
  <2> QED BY <1>20, <2>1 DEF Last
<1>27. t \in Seq(Points(dr, mk, od)) /\ t # << >> /\ Last(t) = e
  BY <1>1, <1>2, <1>26, Joined
<1> QED BY <1>25, <1>27 DEF t

\* joinSession.
LEMMA JoinIs ==
  ASSUME NEW w, NEW dr, NEW mk, NEW od, Settled(w, dr, mk, od), NEW code \in Codes, NEW invited,
         NEW s, Holders(w, code) = {} => IdFor(w, dr, s)
  PROVE  LET t == Join(w, s, code, invited)
         IN  /\ t \in Seq(Points(dr, mk, od)) /\ t # << >>
             /\ Settled(Last(t), dr, Put(mk, Last(t).m.current, code), od)
<1>1. CASE Holders(w, code) = {}
  <2>1. \A x \in Held(w.m) : w.m.slots[x].key # code
    BY <1>1 DEF Holders
  <2>2. Join(w, s, code, invited) = JoinNew(w, s, code, invited)
    BY <1>1 DEF Join
  <2> QED BY <1>1, <2>1, <2>2, JoinNewIs
<1>2. CASE Holders(w, code) # {}
  <2> DEFINE r == CHOOSE r \in Holders(w, code) : TRUE
  <2>1. r \in Held(w.m) /\ w.m.slots[r].key = code
    <3>1. r \in Holders(w, code)
      BY <1>2
    <3> QED BY <3>1 DEF Holders
  <2>2. Join(w, s, code, invited) = JoinHeld(w, r, invited)
    BY <1>2 DEF Join
  <2> HIDE DEF r
  <2> QED BY <2>1, <2>2, JoinHeldIs
<1> QED BY <1>1, <1>2

-----------------------------------------------------------------------------
(* deleteSession. *)

\* RemoveFirst, of what a sequence has once.
LEMMA CutAt ==
  ASSUME NEW S, NEW q \in Seq(S), NEW k \in 1 .. Len(q)
  PROVE  /\ RemoveAt(q, k) \in Seq(S) /\ Len(RemoveAt(q, k)) = Len(q) - 1
         /\ \A j \in 1 .. k - 1 : RemoveAt(q, k)[j] = q[j]
         /\ \A j \in k .. Len(q) - 1 : RemoveAt(q, k)[j] = q[j + 1]
<1> DEFINE a == SubSeq(q, 1, k - 1)
           b == SubSeq(q, k + 1, Len(q))
<1>1. a \in Seq(S) /\ Len(a) = k - 1 /\ \A j \in 1 .. k - 1 : a[j] = q[j]
  OBVIOUS
<1>2. b \in Seq(S) /\ Len(b) = Len(q) - k /\ \A j \in 1 .. Len(q) - k : b[j] = q[k + j]
  OBVIOUS
<1>3. RemoveAt(q, k) = a \o b
  BY DEF RemoveAt
<1> HIDE DEF a, b
<1>4. Len(q) \in Nat
  OBVIOUS
<1>5. a \o b \in Seq(S) /\ Len(a \o b) = Len(q) - 1
  <2>1. a \in Seq(S) /\ b \in Seq(S)
    BY <1>1, <1>2
  <2>2. a \o b \in Seq(S) /\ Len(a \o b) = Len(a) + Len(b)
    BY ONLY <2>1
  <2>3. Len(a) = k - 1 /\ Len(b) = Len(q) - k /\ k \in Nat
    BY <1>1, <1>2, <1>4
  <2> QED BY <1>4, <2>2, <2>3
<1>6. ASSUME NEW j \in 1 .. k - 1 PROVE (a \o b)[j] = q[j]
  BY <1>1, <1>2, <1>4
<1>7. ASSUME NEW j \in k .. Len(q) - 1 PROVE (a \o b)[j] = q[j + 1]
  <2>1. j - k + 1 \in 1 .. Len(q) - k /\ k + (j - k + 1) = j + 1 /\ k - 1 + (j - k + 1) = j
    BY <1>4
  <2>2. (a \o b)[j] = b[j - k + 1]
    BY <1>1, <1>2, <1>4, <2>1
  <2>3. b[j - k + 1] = q[k + (j - k + 1)]
    BY <1>2, <2>1
  <2> QED BY <2>1, <2>2, <2>3
<1> QED BY <1>3, <1>5, <1>6, <1>7

LEMMA RemovedIs ==
  ASSUME NEW S, NEW q \in Seq(S), NEW r, r \in Range(q),
         \A i, j \in DOMAIN q : q[i] = q[j] => i = j
  PROVE  LET p == RemoveFirst(q, r)
         IN  /\ p \in Seq(S) /\ \A x : x \in Range(p) <=> x \in Range(q) /\ x # r
             /\ \A i, j \in DOMAIN p : p[i] = p[j] => i = j
<1> DEFINE p == RemoveFirst(q, r)
           n == Len(q)
<1>1. n \in Nat /\ DOMAIN q = 1 .. n
  OBVIOUS
<1>2. PICK k \in 1 .. n : q[k] = r
  BY <1>1 DEF Range
<1> HIDE DEF n
<1>3. SelectInSeq(q, LAMBDA v : v = r) = k
  <2> DEFINE I == {i \in 1 .. n : q[i] = r}
  <2>1. I = {k}
    BY <1>1, <1>2
  <2>2. Min(I) = k
    BY <1>1, <1>2, <2>1 DEF Min
  <2>3. I # {}
    BY <2>1
  <2> HIDE DEF I
  <2>4. SelectInSeq(q, LAMBDA v : v = r) = IF I # {} THEN Min(I) ELSE 0
    BY DEF SelectInSeq, I, n
  <2> QED BY <2>2, <2>3, <2>4
<1>4. p = RemoveAt(q, k)
  BY <1>2, <1>3 DEF RemoveFirst, n
<1> HIDE DEF p
<1>5. /\ p \in Seq(S) /\ Len(p) = n - 1
      /\ \A j \in 1 .. k - 1 : p[j] = q[j]
      /\ \A j \in k .. n - 1 : p[j] = q[j + 1]
  <2>1. \A i \in 1 .. Len(q) :
          /\ RemoveAt(q, i) \in Seq(S) /\ Len(RemoveAt(q, i)) = Len(q) - 1
          /\ \A j \in 1 .. i - 1 : RemoveAt(q, i)[j] = q[j]
          /\ \A j \in i .. Len(q) - 1 : RemoveAt(q, i)[j] = q[j + 1]
    BY CutAt
  <2> QED BY <1>2, <1>4, <2>1 DEF n
<1>6. DOMAIN p = 1 .. n - 1
  BY <1>5
<1>7. ASSUME NEW x PROVE x \in Range(p) <=> x \in Range(q) /\ x # r
  <2>1. ASSUME x \in Range(p) PROVE x \in Range(q) /\ x # r
    <3>1. PICK j \in 1 .. n - 1 : p[j] = x
      BY <1>6, <2>1 DEF Range
    <3>2. PICK i \in 1 .. n : x = q[i] /\ i # k
      <4>1. CASE j < k
        BY <1>1, <1>2, <1>5, <3>1, <4>1
      <4>2. CASE ~(j < k)
        <5>1. j \in k .. n - 1 /\ j + 1 \in 1 .. n /\ j + 1 # k
          BY <1>1, <1>2, <3>1, <4>2
        <5> QED BY <1>5, <3>1, <5>1
      <4> QED BY <4>1, <4>2
    <3> QED BY <1>1, <1>2, <3>2 DEF Range
  <2>2. ASSUME x \in Range(q), x # r PROVE x \in Range(p)
    <3>1. PICK i \in 1 .. n : q[i] = x /\ i # k
      BY <1>1, <1>2, <2>2 DEF Range
    <3>2. \E j \in 1 .. n - 1 : p[j] = x
      <4>1. CASE i < k
        <5>1. i \in 1 .. k - 1 /\ i \in 1 .. n - 1
          BY <1>1, <1>2, <3>1, <4>1
        <5> QED BY <1>5, <3>1, <5>1
      <4>2. CASE ~(i < k)
        <5>1. i - 1 \in k .. n - 1 /\ i - 1 \in 1 .. n - 1 /\ (i - 1) + 1 = i
          BY <1>1, <1>2, <3>1, <4>2
        <5>2. p[i - 1] = q[(i - 1) + 1]
          BY <1>5, <5>1
        <5> QED BY <3>1, <5>1, <5>2
      <4> QED BY <4>1, <4>2
    <3> QED BY <1>6, <3>2 DEF Range
  <2> QED BY <2>1, <2>2
<1>8. ASSUME NEW i \in DOMAIN p, NEW j \in DOMAIN p, p[i] = p[j] PROVE i = j
  <2> DEFINE h(x) == IF x < k THEN x ELSE x + 1
  <2>1. ASSUME NEW x \in 1 .. n - 1 PROVE h(x) \in 1 .. n /\ p[x] = q[h(x)]
    <3>1. CASE x < k
      BY <1>1, <1>2, <1>5, <3>1
    <3>2. CASE ~(x < k)
      <4>1. x \in k .. n - 1
        BY <1>1, <1>2, <3>2
      <4> QED BY <1>1, <1>2, <1>5, <3>2, <4>1
    <3> QED BY <3>1, <3>2
  <2>2. h(i) = h(j)
    <3> HIDE DEF h
    <3> QED BY <1>1, <1>6, <1>8, <2>1
  <2>3. i \in Nat /\ j \in Nat
    BY <1>1, <1>6
  <2> QED BY <1>2, <2>2, <2>3
<1> QED BY <1>5, <1>7, <1>8 DEF p

Without(f, r) == [x \in DOMAIN f \ {r} |-> f[x]]

LEMMA WithoutIs ==
  ASSUME NEW f, NEW r
  PROVE  DOMAIN Without(f, r) = DOMAIN f \ {r} /\ \A x \in DOMAIN Without(f, r) : Without(f, r)[x] = f[x]
BY DEF Without

LEMMA ForgottenIs ==
  ASSUME NEW w \in Worlds, Tidy(w.m), NEW r \in Held(w.m)
  PROVE  LET a == Forgotten(w, r)
         IN  /\ a \in Worlds /\ Tidy(a.m)
             /\ \A x : x \in Held(a.m) <=> x \in Held(w.m) /\ x # r
             /\ \A x \in Held(a.m) : a.m.slots[x] = w.m.slots[x]
             /\ w.m.current \in Held(w.m) /\ a.m.order # << >> => a.m.current \in Held(a.m)
             /\ a.m.order = << >> => \A x \in Held(w.m) : x = r
             /\ a.d = w.d /\ a.j = w.j
<1> DEFINE a == Forgotten(w, r)
           rest == RemoveFirst(w.m.order, r)
           sl == Without(w.m.slots, r)
           c == IF w.m.current = r /\ rest # << >> THEN Head(rest) ELSE w.m.current
<1>1. /\ w.m \in Mems /\ w.d \in Disk /\ w.j \in SUBSET Keys
      /\ w.m.slots \in [Held(w.m) -> Slots] /\ Held(w.m) \in SUBSET Ids
      /\ w.m.order \in Seq(Ids) /\ w.m.current \in Ids \cup {None} /\ w.m.name \in BOOLEAN
  BY WorldIs
<1>2. rest \in Seq(Ids) /\ (\A x : x \in Range(rest) <=> x \in Held(w.m) /\ x # r)
      /\ \A i, j \in DOMAIN rest : rest[i] = rest[j] => i = j
  <2> HIDE DEF rest
  <2>1. Range(w.m.order) = Held(w.m) /\ \A i, j \in DOMAIN w.m.order : w.m.order[i] = w.m.order[j] => i = j
    BY DEF Tidy
  <2>2. r \in Range(w.m.order)
    BY <2>1
  <2>3. /\ rest \in Seq(Ids) /\ \A x : x \in Range(rest) <=> x \in Range(w.m.order) /\ x # r
        /\ \A i, j \in DOMAIN rest : rest[i] = rest[j] => i = j
    BY <1>1, <2>1, <2>2, RemovedIs DEF rest
  <2> QED BY <2>1, <2>3
<1>3. DOMAIN sl = Held(w.m) \ {r} /\ sl \in [Held(w.m) \ {r} -> Slots]
      /\ \A x \in Held(w.m) \ {r} : sl[x] = w.m.slots[x]
  BY <1>1 DEF Without, Held
<1>4. a = [w EXCEPT !.m.slots = sl, !.m.order = rest,
                    !.m.current = IF @ = r /\ rest # << >> THEN Head(rest) ELSE @]
  BY DEF Forgotten, Without, Held
<1> HIDE DEF rest, sl
<1>5. rest # << >> => Head(rest) \in Held(w.m) /\ Head(rest) # r
  <2>1. rest # << >> => Head(rest) \in Range(rest)
    BY <1>2 DEF Range
  <2> QED BY <1>2, <2>1
<1>6. rest = << >> => Held(w.m) = {r}
  <2>1. ASSUME rest = << >> PROVE \A x : x \notin Range(rest)
    BY <2>1 DEF Range
  <2> QED BY <1>2, <2>1
<1>7. c \in Ids \cup {None} /\ (w.m.current \in Held(w.m) /\ rest # << >> => c \in Held(w.m) \ {r})
  BY <1>1, <1>5
<1>8. a.m = [w.m EXCEPT !.slots = sl, !.order = rest, !.current = c] /\ a.d = w.d /\ a.j = w.j
      /\ a = [m |-> a.m, d |-> a.d, j |-> a.j]
  <2>1. w = [m |-> w.m, d |-> w.d, j |-> w.j]
    BY DEF Worlds
  <2>2. a = [w EXCEPT !.m = [w.m EXCEPT !.slots = sl, !.order = rest, !.current = c]]
    BY <1>1, <1>4 DEF Mems
  <2> HIDE DEF a, c
  <2> QED BY <2>1, <2>2
<1> HIDE DEF a, c
<1>9. a.m = [slots |-> sl, order |-> rest, current |-> c, name |-> w.m.name]
  BY <1>1, <1>8 DEF Mems
<1>10. a.m \in Mems
  <2>1. DOMAIN sl \in SUBSET Ids /\ sl \in [DOMAIN sl -> Slots]
    BY <1>1, <1>3
  <2>2. [slots |-> sl, order |-> rest, current |-> c, name |-> w.m.name] \in Mems
    BY <1>1, <1>2, <1>7, <2>1, IsMem
  <2> QED BY <1>9, <2>2
<1>11. a.m.slots = sl /\ a.m.order = rest /\ a.m.current = c
  BY <1>9
<1>12. a \in Worlds
  BY <1>1, <1>8, <1>10 DEF Worlds
<1>13. Held(a.m) = Held(w.m) \ {r}
  BY <1>3, <1>11 DEF Held
<1>14. Tidy(a.m)
  <2>1. Range(rest) = Held(w.m) \ {r}
    BY <1>2
  <2> QED BY <1>2, <1>11, <1>13, <2>1 DEF Tidy
<1> QED BY <1>3, <1>6, <1>7, <1>8, <1>11, <1>12, <1>13, <1>14 DEF a

LEMMA ForgottenGood ==
  ASSUME NEW w, NEW dr, NEW mk, NEW od, Good(w, dr, mk, od), NEW r \in Held(w.m)
  PROVE  Good(Forgotten(w, r), dr, Without(mk, r), od)
<1> DEFINE a == Forgotten(w, r)
           mk2 == Without(mk, r)
<1>1. w \in Worlds /\ Tidy(w.m) /\ Agree(w, mk, od)
  BY DEF Good
<1>2. DOMAIN mk2 = DOMAIN mk \ {r} /\ \A x \in DOMAIN mk2 : mk2[x] = mk[x]
  BY WithoutIs
<1>3. /\ a \in Worlds /\ Tidy(a.m)
      /\ \A x : x \in Held(a.m) <=> x \in Held(w.m) /\ x # r
      /\ \A x \in Held(a.m) : a.m.slots[x] = w.m.slots[x]
      /\ a.d = w.d /\ a.j = w.j
  BY <1>1, ForgottenIs
<1> HIDE DEF a, mk2
<1>4. Agree(a, mk2, od)
  BY <1>1, <1>2, <1>3 DEF Agree
<1>5. DiskOK(a.d, dr, mk2, od)
  <2>1. DOMAIN mk2 \subseteq DOMAIN mk
    BY <1>2
  <2>2. Good(w, dr, mk2, od)
    BY <1>2, <2>1, GoodWeaken
  <2> QED BY <1>3, <2>2 DEF Good
<1>6. Good(a, dr, mk2, od)
  BY <1>3, <1>4, <1>5 DEF Good
<1> QED BY <1>6 DEF a, mk2

\* The files of a room that is not held are removed.
Erased(w, r) == [w EXCEPT !.d.keys[r] = None, !.d.logs[r] = {}]

LEMMA ErasedIs ==
  ASSUME NEW w \in Worlds, NEW r \in Ids
  PROVE  LET a == Erased(w, r)
         IN  /\ a \in Worlds /\ a.m = w.m /\ a.j = w.j /\ a.d.sessions = w.d.sessions
             /\ a.d.keys[r] = None /\ a.d.logs[r] = {}
             /\ \A x \in Ids \ {r} : a.d.keys[x] = w.d.keys[x] /\ a.d.logs[x] = w.d.logs[x]
<1> DEFINE ks == [w.d.keys EXCEPT ![r] = None]
           lg == [w.d.logs EXCEPT ![r] = {}]
           a == Erased(w, r)
<1>1. w.d.keys \in [Ids -> Keys \cup {None}] /\ w.d.logs \in [Ids -> SUBSET Kinds] /\ w.d \in Disk
  BY WorldIs
<1>2. ks \in [Ids -> Keys \cup {None}] /\ ks[r] = None /\ \A x \in Ids \ {r} : ks[x] = w.d.keys[x]
  BY <1>1
<1>3. lg \in [Ids -> SUBSET Kinds] /\ lg[r] = {} /\ \A x \in Ids \ {r} : lg[x] = w.d.logs[x]
  BY <1>1
<1>4. a.d = [w.d EXCEPT !.keys = ks, !.logs = lg] /\ a.m = w.m /\ a.j = w.j
      /\ a = [m |-> a.m, d |-> a.d, j |-> a.j]
  <2>1. w = [m |-> w.m, d |-> w.d, j |-> w.j]
    BY DEF Worlds
  <2>2. a = [w EXCEPT !.d = [w.d EXCEPT !.keys = ks, !.logs = lg]]
    BY <1>1 DEF Erased, Disk
  <2> HIDE DEF a, ks, lg
  <2> QED BY <2>1, <2>2
<1> HIDE DEF a, ks, lg
<1>5. a.d \in Disk /\ a.d.sessions = w.d.sessions /\ a.d.keys = ks /\ a.d.logs = lg
  BY <1>1, <1>2, <1>3, <1>4 DEF Disk
<1>6. a \in Worlds
  BY <1>4, <1>5, WorldIs DEF Worlds
<1> QED BY <1>2, <1>3, <1>4, <1>5, <1>6 DEF a

LEMMA ErasedGood ==
  ASSUME NEW w, NEW dr, NEW mk, NEW od, Good(w, dr, mk, od), NEW r \in Ids \ Held(w.m), r \in dr
  PROVE  Good(Erased(w, r), dr, mk, od)
<1> DEFINE a == Erased(w, r)
<1>1. w \in Worlds /\ Tidy(w.m) /\ Agree(w, mk, od) /\ DiskOK(w.d, dr, mk, od)
  BY DEF Good
<1>2. /\ a \in Worlds /\ a.m = w.m /\ a.j = w.j /\ a.d.sessions = w.d.sessions
      /\ a.d.keys[r] = None /\ a.d.logs[r] = {}
      /\ \A x \in Ids \ {r} : a.d.keys[x] = w.d.keys[x] /\ a.d.logs[x] = w.d.logs[x]
  BY <1>1, ErasedIs
<1> HIDE DEF a
<1>3. \A x \in Held(w.m) : x \in Ids /\ x # r
  BY HeldIs
<1>4. Agree(a, mk, od)
  <2>1. \A x \in Held(a.m) : a.d.keys[x] = a.m.slots[x].key /\ a.d.logs[x] = a.m.slots[x].log
    BY <1>1, <1>2, <1>3 DEF Agree
  <2> QED BY <1>1, <1>2, <2>1 DEF Agree
<1>5. DiskOK(a.d, dr, mk, od)
  <2>1. a.d \in Disk
    BY <1>2, WorldIs
  <2>2. Listed(a.d) = Listed(w.d) /\ Seen(a.d, dr) = Seen(w.d, dr)
    BY <1>2 DEF Listed, Seen
  <2>3. \A x \in Ids : a.d.keys[x] \in Codes \cup {None, x}
    BY <1>1, <1>2 DEF DiskOK
  <2>4. \A x \in Ids \ od : "create" \in a.d.logs[x] => a.d.keys[x] = x
    BY <1>1, <1>2 DEF DiskOK
  <2>5. \A i \in DOMAIN a.d.sessions :
          a.d.sessions[i].fresh /\ a.d.sessions[i].id \notin od => a.d.keys[a.d.sessions[i].id] \notin Codes
    <3> TAKE i \in DOMAIN a.d.sessions
    <3>1. a.d.sessions[i].id \in Ids
      BY <2>1, ListedIs
    <3>2. None \notin Codes
      BY RegistryAssumption
    <3> QED BY <1>1, <1>2, <3>1, <3>2 DEF DiskOK
  <2>6. ASSUME NEW x \in DOMAIN mk \ od
        PROVE  /\ x \in Listed(a.d) /\ a.d.keys[x] = mk[x]
               /\ mk[x] = x => "create" \in a.d.logs[x]
    <3>1. x \in Ids /\ x # r
      BY <1>1, <1>3 DEF Agree
    <3> QED BY <1>1, <1>2, <2>2, <3>1 DEF DiskOK
  <2>7. ASSUME NEW x \in Listed(a.d) \ od, NEW y \in Listed(a.d) \ od,
               a.d.keys[x] = a.d.keys[y], a.d.keys[x] # None
        PROVE  x = y
    <3>1. x \in Ids /\ y \in Ids
      BY <2>1, ListedIs
    <3> QED BY <1>1, <1>2, <2>2, <2>7, <3>1 DEF DiskOK
  <2>8. \A x \in Ids \ Seen(a.d, dr) : a.d.logs[x] = {} /\ x \notin Listed(a.d)
    BY <1>1, <1>2, <2>2 DEF DiskOK
  <2> QED BY <1>1, <1>2, <2>1, <2>3, <2>4, <2>5, <2>6, <2>7, <2>8 DEF DiskOK
<1> QED BY <1>1, <1>2, <1>4, <1>5 DEF Good, a

LEMMA DeleteIs ==
  ASSUME NEW w, NEW dr, NEW mk, NEW od, Settled(w, dr, mk, od), NEW r \in Held(w.m), r \in dr,
         NEW s, Held(w.m) = {r} => s \in Ids \ Seen(w.d, dr)
  PROVE  LET t == Delete(w, r, s)
         IN  /\ t \in Seq(Points(dr, Without(mk, r), od)) /\ t # << >>
             /\ Settled(Last(t), dr, Without(mk, r), od)
<1> DEFINE a == Forgotten(w, r)
           u == IF a.m.order = << >> THEN NewEntry(a, s) ELSE <<a>>
           y == Last(u)
           b == Erased(y, r)
           c == Saved(b)
           t == Delete(w, r, s)
           mk2 == Without(mk, r)
<1>1. t = u \o <<b, c>>
  BY DEF Delete, Erased
<1>2. Good(w, dr, mk, od) /\ w \in Worlds /\ Tidy(w.m) /\ r \in Ids /\ w.m.current \in Held(w.m)
  BY HeldIs DEF Settled, Good
<1>3. Good(a, dr, mk2, od)
  BY <1>2, ForgottenGood
<1>4. /\ \A x : x \in Held(a.m) <=> x \in Held(w.m) /\ x # r
      /\ a.m.order # << >> => a.m.current \in Held(a.m)
      /\ a.m.order = << >> => \A x \in Held(w.m) : x = r
      /\ a.d = w.d
  BY <1>2, ForgottenIs
<1> HIDE DEF a, mk2, b, c, t
<1>5. /\ u \in Seq(Points(dr, mk2, od)) /\ u # << >>
      /\ Good(y, dr, mk2, od) /\ y.m.current \in Held(y.m) /\ r \notin Held(y.m)
  <2>1. CASE a.m.order = << >>
    <3>1. u = NewEntry(a, s)
      BY <2>1
    <3>2. s \in Ids \ Seen(a.d, dr) /\ s # r
      BY <1>4, <2>1 DEF Seen
    <3> HIDE DEF u
    <3>3. /\ u \in Seq(Points(dr, mk2, od)) /\ u # << >>
          /\ Settled(y, dr, mk2, od)
      BY <1>3, <3>1, <3>2, NewEntryIs
    <3>4. \A x : x \in Held(y.m) <=> x \in Held(a.m) \/ x = s
      <4>1. y = Last(NewEntry(a, s)) /\ s \in Ids \ Seen(a.d, dr)
        BY <3>1, <3>2
      <4> HIDE DEF y
      <4>2. \A x : x \in Held(Last(NewEntry(a, s)).m) <=> x \in Held(a.m) \/ x = s
        BY ONLY <1>3, <4>1, NewEntryIs
      <4> QED BY <4>1, <4>2
    <3>5. r \notin Held(y.m)
      BY <1>4, <3>2, <3>4
    <3> QED BY <3>3, <3>5 DEF Settled
  <2>2. CASE a.m.order # << >>
    <3>1. u = <<a>> /\ y = a
      BY <2>2 DEF Last
    <3>2. a \in Points(dr, mk2, od)
      BY <1>3, GoodSurvives
    <3> QED BY <1>3, <1>4, <2>2, <3>1, <3>2
  <2> QED BY <2>1, <2>2
<1> HIDE DEF u, y
<1>6. Good(b, dr, mk2, od) /\ b.m = y.m /\ b \in Worlds /\ Tidy(b.m)
  <2>1. y \in Worlds
    BY <1>5 DEF Good
  <2>2. Good(b, dr, mk2, od) /\ b.m = y.m
    BY <1>2, <1>5, <2>1, ErasedGood, ErasedIs DEF b
  <2> QED BY <2>2 DEF Good
<1>7. Good(c, dr, mk2, od) /\ Listed(c.d) = Held(c.m) /\ c.m = b.m
  BY <1>6, SavedGood, SavedIs DEF c
<1>8. Settled(c, dr, mk2, od)
  BY <1>5, <1>6, <1>7 DEF Settled
<1>9. b \in Points(dr, mk2, od) /\ c \in Points(dr, mk2, od)
  BY <1>6, <1>7, GoodSurvives
<1>10. <<b, c>> \in Seq(Points(dr, mk2, od)) /\ <<b, c>> # << >> /\ Last(<<b, c>>) = c
  BY <1>9 DEF Last
<1>11. t \in Seq(Points(dr, mk2, od)) /\ t # << >> /\ Last(t) = c
  BY <1>1, <1>5, <1>10, Joined
<1> QED BY <1>8, <1>11 DEF t, mk2

-----------------------------------------------------------------------------
(* The handlers of a single write. *)

LEMMA OneWrite ==
  ASSUME NEW w, NEW dr, NEW mk, NEW od, Settled(w, dr, mk, od)
  PROVE  /\ <<w>> \in Seq(Points(dr, mk, od)) /\ <<w>> # << >>
         /\ Settled(Last(<<w>>), dr, mk, od)
<1>1. w \in Points(dr, mk, od)
  BY GoodSurvives DEF Settled
<1> QED BY <1>1 DEF Last

\* switchSession.
LEMMA SwitchIs ==
  ASSUME NEW w, NEW dr, NEW mk, NEW od, Settled(w, dr, mk, od), NEW r \in Held(w.m)
  PROVE  LET t == Switch(w, r)
         IN  /\ t \in Seq(Points(dr, mk, od)) /\ t # << >>
             /\ Settled(Last(t), dr, mk, od)
<1> DEFINE a == At(w, r)
           c == Saved(a)
<1>1. Switch(w, r) = <<c>>
  BY DEF Switch, At
<1>2. Good(w, dr, mk, od) /\ w \in Worlds /\ r \in Ids
  BY HeldIs DEF Settled, Good
<1>3. Good(a, dr, mk, od) /\ Held(a.m) = Held(w.m) /\ a.m.current = r
  BY <1>2, AtGood, AtIs
<1> HIDE DEF a
<1>4. Good(c, dr, mk, od) /\ Listed(c.d) = Held(c.m) /\ c.m = a.m
  <2>1. a \in Worlds /\ Tidy(a.m)
    BY <1>3 DEF Good
  <2> QED BY <1>3, <2>1, SavedGood, SavedIs
<1> HIDE DEF c
<1>5. Settled(c, dr, mk, od)
  BY <1>3, <1>4 DEF Settled
<1> QED BY <1>1, <1>5, OneWrite

\* setSecret.
LEMMA SetKeyIs ==
  ASSUME NEW w, NEW dr, NEW mk, NEW od, Settled(w, dr, mk, od), NEW code \in Codes
  PROVE  LET t == SetKey(w, code)
         IN  /\ t \in Seq(Points(dr, Without(mk, w.m.current), od \cup {w.m.current})) /\ t # << >>
             /\ Settled(Last(t), dr, Without(mk, w.m.current), od \cup {w.m.current})
<1> DEFINE r == w.m.current
           a == Keyed(w, r, code)
           b == Unfreshed(a, r)
           o == od \cup {r}
           mk2 == Without(mk, r)
<1>1. SetKey(w, code) = <<b>>
  BY DEF SetKey, Unfreshed
<1>2. Good(w, dr, mk, od) /\ w \in Worlds /\ r \in Ids /\ r \in Held(w.m) /\ code \in Keys
      /\ Listed(w.d) = Held(w.m)
  BY HeldIs DEF Settled, Good, Keys
<1> HIDE DEF r
<1>3. Good(a, dr, mk, o)
  BY <1>2, KeyedGood
<1>4. a.m.current = w.m.current /\ a.d.sessions = w.d.sessions
  BY <1>2, KeyedIs
<1>5. \A x : x \in Held(a.m) <=> x \in Held(w.m) \/ x = r
  BY <1>2, KeyedHeld
<1> HIDE DEF a
<1>6. Held(a.m) = Held(w.m) /\ r \in Held(a.m) /\ a \in Worlds
  BY <1>2, <1>3, <1>5 DEF Good
<1>7. Good(b, dr, mk, o) /\ Held(b.m) = Held(a.m) /\ b.m.current = a.m.current /\ b.d = a.d
  BY <1>3, <1>6, UnfreshedGood, UnfreshedIs
<1> HIDE DEF b, o, mk2
<1>8. Good(b, dr, mk2, o)
  <2>1. DOMAIN mk2 \subseteq DOMAIN mk /\ \A x \in DOMAIN mk2 : mk2[x] = mk[x]
    BY WithoutIs DEF mk2
  <2> QED BY <1>7, <2>1, GoodWeaken
<1>9. Settled(b, dr, mk2, o)
  <2>1. Listed(b.d) = Held(b.m)
    BY <1>2, <1>4, <1>6, <1>7 DEF Listed
  <2> QED BY <1>2, <1>4, <1>6, <1>7, <1>8, <2>1 DEF Settled, r
<1> QED BY <1>1, <1>9, OneWrite DEF o, mk2, r

\* ingestPayload.
LEMMA ReceiveIs ==
  ASSUME NEW w, NEW dr, NEW mk, NEW od, Settled(w, dr, mk, od), NEW r \in Held(w.m)
  PROVE  LET t == <<Pushed(w, r, "other")>>
         IN  /\ t \in Seq(Points(dr, mk, od)) /\ t # << >>
             /\ Settled(Last(t), dr, mk, od)
<1> DEFINE a == Pushed(w, r, "other")
<1>1. Good(w, dr, mk, od) /\ w.m.current \in Held(w.m) /\ Listed(w.d) = Held(w.m)
  BY DEF Settled
<1>2. Good(a, dr, mk, od) /\ Grown(w, a)
  BY <1>1, SaidGood
<1> HIDE DEF a
<1>3. Listed(a.d) = Listed(w.d) /\ Held(a.m) = Held(w.m) /\ a.m.current = w.m.current
  BY <1>2 DEF Grown, Listed
<1>4. Settled(a, dr, mk, od)
  BY <1>1, <1>2, <1>3 DEF Settled
<1>5. <<a>> \in Seq(Points(dr, mk, od)) /\ <<a>> # << >> /\ Settled(Last(<<a>>), dr, mk, od)
  BY <1>4, OneWrite
<1> QED BY <1>5 DEF a

\* setName, in all rooms or, before a crash, in some.
LEMMA NamedIs ==
  ASSUME NEW w \in Worlds, NEW rooms \in SUBSET Held(w.m)
  PROVE  LET a == Name(w, rooms)[1]
         IN  /\ Name(w, rooms) = <<a>>
             /\ a \in Worlds /\ Held(a.m) = Held(w.m) /\ a.m.order = w.m.order
             /\ a.m.current = w.m.current
             /\ \A x \in Held(w.m) \ rooms : a.m.slots[x] = w.m.slots[x]
             /\ \A x \in rooms : a.m.slots[x] = Pushed(w, x, "other").m.slots[x]
             /\ a.d.sessions = w.d.sessions /\ a.d.keys = w.d.keys /\ a.j = w.j
             /\ \A x \in Ids \ rooms : a.d.logs[x] = w.d.logs[x]
             /\ \A x \in rooms : a.d.logs[x] = w.d.logs[x] \cup {"other"}
<1> DEFINE sl == [x \in Held(w.m) |->
                    IF x \in rooms THEN Pushed(w, x, "other").m.slots[x] ELSE w.m.slots[x]]
           lg == [x \in Ids |-> IF x \in rooms THEN w.d.logs[x] \cup {"other"} ELSE w.d.logs[x]]
           a == Name(w, rooms)[1]
<1>1. /\ w.m \in Mems /\ w.d \in Disk /\ w.j \in SUBSET Keys
      /\ w.m.slots \in [Held(w.m) -> Slots] /\ Held(w.m) \in SUBSET Ids
      /\ w.m.order \in Seq(Ids) /\ w.m.current \in Ids \cup {None}
      /\ w.d.logs \in [Ids -> SUBSET Kinds]
  BY WorldIs
<1>2. "other" \in Kinds
  BY DEF Kinds
<1>3. \A x \in rooms : Pushed(w, x, "other").m.slots[x] \in Slots
  <2> TAKE x \in rooms
  <2> DEFINE p == Pushed(w, x, "other")
  <2>1. p \in Worlds /\ Held(p.m) = Held(w.m)
    <3>1. \A kind \in Kinds : /\ Pushed(w, x, kind) \in Worlds
                              /\ Held(Pushed(w, x, kind).m) = Held(w.m)
      BY PushedIs
    <3> QED BY <1>2, <3>1
  <2> HIDE DEF p
  <2>2. p.m.slots[x] \in Slots
    BY <2>1, WorldIs
  <2> QED BY <2>2 DEF p
<1>4. /\ sl \in [Held(w.m) -> Slots]
      /\ \A x \in Held(w.m) \ rooms : sl[x] = w.m.slots[x]
      /\ \A x \in rooms : sl[x] = Pushed(w, x, "other").m.slots[x]
  BY <1>1, <1>3
<1>5. /\ lg \in [Ids -> SUBSET Kinds]
      /\ \A x \in Ids \ rooms : lg[x] = w.d.logs[x]
      /\ \A x \in rooms : lg[x] = w.d.logs[x] \cup {"other"}
  BY <1>1, <1>2
<1>6. /\ Name(w, rooms) = <<a>>
      /\ a = [w EXCEPT !.m.name = TRUE, !.d.name = TRUE, !.m.slots = sl, !.d.logs = lg]
  BY DEF Name
<1> HIDE DEF sl, lg, a
<1>7. /\ a.m = [w.m EXCEPT !.name = TRUE, !.slots = sl] /\ a.j = w.j
      /\ a.d = [w.d EXCEPT !.name = TRUE, !.logs = lg]
      /\ a = [m |-> a.m, d |-> a.d, j |-> a.j]
  <2>1. w = [m |-> w.m, d |-> w.d, j |-> w.j]
    BY DEF Worlds
  <2> QED BY <1>6, <2>1
<1>8. /\ a.m.slots = sl /\ a.m.order = w.m.order /\ a.m.current = w.m.current
      /\ a.m = [slots |-> sl, order |-> w.m.order, current |-> w.m.current, name |-> TRUE]
  BY <1>1, <1>7 DEF Mems
<1>9. a.m \in Mems
  <2>1. DOMAIN sl \in SUBSET Ids /\ sl \in [DOMAIN sl -> Slots]
    BY <1>1, <1>4
  <2>2. [slots |-> sl, order |-> w.m.order, current |-> w.m.current, name |-> TRUE] \in Mems
    BY <1>1, <2>1, IsMem
  <2> QED BY <1>8, <2>2
<1>10. a.d \in Disk /\ a.d.sessions = w.d.sessions /\ a.d.keys = w.d.keys /\ a.d.logs = lg
  BY <1>1, <1>5, <1>7 DEF Disk
<1>11. a \in Worlds
  BY <1>1, <1>7, <1>9, <1>10 DEF Worlds
<1>12. Held(a.m) = Held(w.m)
  BY <1>4, <1>8 DEF Held
<1> QED BY <1>4, <1>5, <1>6, <1>7, <1>8, <1>10, <1>11, <1>12 DEF a

LEMMA NameIs ==
  ASSUME NEW w, NEW dr, NEW mk, NEW od, Settled(w, dr, mk, od), NEW rooms \in SUBSET Held(w.m)
  PROVE  LET t == Name(w, rooms)
         IN  /\ t \in Seq(Points(dr, mk, od)) /\ t # << >>
             /\ Settled(Last(t), dr, mk, od)
<1> DEFINE a == Name(w, rooms)[1]
<1>1. /\ Good(w, dr, mk, od) /\ w.m.current \in Held(w.m) /\ Listed(w.d) = Held(w.m)
      /\ w \in Worlds /\ Tidy(w.m) /\ Agree(w, mk, od) /\ DiskOK(w.d, dr, mk, od)
  BY DEF Settled, Good
<1>2. /\ Name(w, rooms) = <<a>>
      /\ a \in Worlds /\ Held(a.m) = Held(w.m) /\ a.m.order = w.m.order
      /\ a.m.current = w.m.current
      /\ \A x \in Held(w.m) \ rooms : a.m.slots[x] = w.m.slots[x]
      /\ \A x \in rooms : a.m.slots[x] = Pushed(w, x, "other").m.slots[x]
      /\ a.d.sessions = w.d.sessions /\ a.d.keys = w.d.keys /\ a.j = w.j
      /\ \A x \in Ids \ rooms : a.d.logs[x] = w.d.logs[x]
      /\ \A x \in rooms : a.d.logs[x] = w.d.logs[x] \cup {"other"}
  BY <1>1, NamedIs
<1> HIDE DEF a
<1>3. \A x \in Held(w.m) : /\ x \in Ids /\ w.m.slots[x] \in Slots
                           /\ w.d.keys[x] = w.m.slots[x].key /\ w.d.logs[x] = w.m.slots[x].log
                           /\ w.d.keys[x] \in Codes \cup {x} /\ w.d.keys[x] # None
                           /\ x \in Seen(w.d, dr)
  BY <1>1, HeldIs
<1>4. "other" \in Kinds /\ "other" # "create"
  BY DEF Kinds
<1>5. ASSUME NEW x \in rooms
      PROVE  /\ a.m.slots[x].key = w.m.slots[x].key /\ a.m.slots[x].fresh = w.m.slots[x].fresh
             /\ a.m.slots[x].log = w.m.slots[x].log \cup {"other"}
  <2> DEFINE p == Pushed(w, x, "other")
  <2>1. /\ p.m.slots[x].key = w.m.slots[x].key /\ p.m.slots[x].fresh = w.m.slots[x].fresh
        /\ p.m.slots[x].log = w.m.slots[x].log \cup {"other"}
    BY <1>1, <1>4, PushedIs
  <2> HIDE DEF p
  <2> QED BY <1>2, <2>1 DEF p
<1>6. \A x \in Held(w.m) : a.m.slots[x].key = w.m.slots[x].key /\ a.m.slots[x].fresh = w.m.slots[x].fresh
  BY <1>2, <1>5
<1>7. ASSUME NEW x \in Held(a.m)
      PROVE  a.d.keys[x] = a.m.slots[x].key /\ a.d.logs[x] = a.m.slots[x].log
  <2>1. /\ x \in Held(w.m) /\ x \in Ids
        /\ w.d.keys[x] = w.m.slots[x].key /\ w.d.logs[x] = w.m.slots[x].log
    BY <1>2, <1>3
  <2>2. CASE x \in rooms
    <3>1. a.m.slots[x].key = w.m.slots[x].key /\ a.m.slots[x].log = w.m.slots[x].log \cup {"other"}
      BY <1>5, <2>2
    <3>2. a.d.keys[x] = w.d.keys[x] /\ a.d.logs[x] = w.d.logs[x] \cup {"other"}
      BY <1>2, <2>2
    <3> QED BY <2>1, <3>1, <3>2
  <2>3. CASE x \notin rooms
    <3>1. a.m.slots[x] = w.m.slots[x] /\ a.d.keys[x] = w.d.keys[x] /\ a.d.logs[x] = w.d.logs[x]
      BY <1>2, <2>1, <2>3
    <3> QED BY <2>1, <3>1
  <2> QED BY <2>2, <2>3
<1>8. Agree(a, mk, od) /\ Tidy(a.m)
  BY <1>1, <1>2, <1>6, <1>7 DEF Agree, Tidy
<1>9. DiskOK(a.d, dr, mk, od)
  <2>1. a.d \in Disk
    BY <1>2, WorldIs
  <2>2. Listed(a.d) = Listed(w.d) /\ Seen(a.d, dr) = Seen(w.d, dr)
    BY <1>2 DEF Listed, Seen
  <2>3. \A x \in Ids : "create" \in a.d.logs[x] <=> "create" \in w.d.logs[x]
    BY <1>2, <1>4
  <2>4. \A x \in Ids \ Seen(a.d, dr) : a.d.logs[x] = {} /\ x \notin Listed(a.d)
    BY <1>1, <1>2, <1>3, <2>2 DEF DiskOK
  <2>5. ASSUME NEW r \in DOMAIN mk \ od
        PROVE  /\ r \in Listed(a.d) /\ a.d.keys[r] = mk[r]
               /\ mk[r] = r => "create" \in a.d.logs[r]
    <3>1. r \in Ids
      BY <1>1, <1>3 DEF Agree
    <3> QED BY <1>1, <1>2, <2>2, <2>3, <3>1 DEF DiskOK
  <2> QED BY <1>1, <1>2, <2>1, <2>2, <2>3, <2>4, <2>5 DEF DiskOK
<1>10. Settled(a, dr, mk, od)
  <2>1. Listed(a.d) = Held(a.m)
    BY <1>1, <1>2 DEF Listed
  <2> QED BY <1>1, <1>2, <1>8, <1>9, <2>1 DEF Settled, Good
<1> QED BY <1>2, <1>10, OneWrite

-----------------------------------------------------------------------------
(* loadSessions: the fold over sessions.json, entry by entry. *)

\* A set of numbers has a least element.
LEMMA Least ==
  ASSUME NEW T \in SUBSET Nat, T # {}
  PROVE  \E x \in T : \A y \in T : x <= y
<1> DEFINE R == OpToRel(<, Nat)
<1>1. IsWellFoundedOn(R, Nat)
  BY NatLessThanWellFounded DEF OpToRel
<1>2. PICK x \in T : \A y \in T : ~(<<y, x>> \in R)
  <2> HIDE DEF R
  <2> QED BY <1>1, WFMin
<1>3. \A y \in T : ~(y < x)
  BY <1>2 DEF OpToRel
<1> QED BY <1>3

\* Induction over the numbers up to a bound.
LEMMA BoundedInduction ==
  ASSUME NEW n \in Nat, NEW T, 0 \in T, \A k \in 1 .. n : k - 1 \in T => k \in T
  PROVE  \A k \in 0 .. n : k \in T
<1> SUFFICES ASSUME (0 .. n) \ T # {} PROVE FALSE
  OBVIOUS
<1>1. PICK x \in (0 .. n) \ T : \A y \in (0 .. n) \ T : x <= y
  <2>1. (0 .. n) \ T \in SUBSET Nat
    OBVIOUS
  <2> QED BY <2>1, Least
<1>2. x \in 1 .. n /\ x - 1 \in 0 .. n
  BY <1>1
<1>3. x - 1 \in T
  BY <1>1, <1>2
<1> QED BY <1>1, <1>2, <1>3

LEMMA MaxTop ==
  ASSUME NEW m \in Nat, NEW s \in SUBSET (1 .. m), m \in s
  PROVE  Max(s) = m
<1>1. m \in s /\ \A y \in s : m >= y
  OBVIOUS
<1>2. Max(s) \in s /\ \A y \in s : Max(s) >= y
  BY <1>1 DEF Max
<1>3. Max(s) \in 1 .. m
  BY <1>2
<1>4. Max(s) >= m
  BY <1>2
<1> QED BY <1>3, <1>4

\* The recursive function that the fold stands for, on sets of places.
LoadMap(d, n, f) ==
  f = [s \in SUBSET (1 .. n) |->
         IF s = {} THEN NoMemory ELSE Restore(d, f[s \ {Max(s)}], d.sessions[Max(s)])]

\* The memory after each entry.
IsWalk(g, d) ==
  /\ g[0] = NoMemory
  /\ \A k \in 1 .. Len(d.sessions) : g[k] = Restore(d, g[k - 1], d.sessions[k])

LEMMA LoadMapExists ==
  ASSUME NEW d, NEW n \in Nat
  PROVE  \E f : LoadMap(d, n, f)
<1> DEFINE T == {m \in 0 .. n : \E f : LoadMap(d, m, f)}
<1>1. 0 \in T
  <2> DEFINE f == [s \in SUBSET (1 .. 0) |-> NoMemory]
  <2>1. LoadMap(d, 0, f)
    <3>1. \A s \in SUBSET (1 .. 0) : s = {}
      OBVIOUS
    <3> QED BY <3>1 DEF LoadMap
  <2> QED BY <2>1
<1>2. ASSUME NEW m \in 1 .. n, m - 1 \in T PROVE m \in T
  <2>1. PICK f : LoadMap(d, m - 1, f)
    BY <1>2
  <2> DEFINE h == [s \in SUBSET (1 .. m) |->
                     IF m \notin s THEN f[s] ELSE Restore(d, f[s \ {m}], d.sessions[m])]
             R(s) == IF s = {} THEN NoMemory
                     ELSE Restore(d, h[s \ {Max(s)}], d.sessions[Max(s)])
  <2>2. ASSUME NEW s \in SUBSET (1 .. m) PROVE h[s] = R(s)
    <3>1. CASE m \in s
      <4>1. Max(s) = m
        <5> HIDE DEF h, R
        <5> QED BY <3>1, MaxTop
      <4>2. s \ {m} \in SUBSET (1 .. m) /\ m \notin s \ {m}
        OBVIOUS
      <4>3. h[s \ {m}] = f[s \ {m}]
        BY <4>2
      <4> QED BY <4>1, <4>3, <3>1
    <3>2. CASE m \notin s
      <4>1. s \in SUBSET (1 .. m - 1)
        BY <3>2
      <4>2. CASE s = {}
        BY <4>2, <2>1, <4>1 DEF LoadMap
      <4>3. CASE s # {}
        <5>1. s \ {Max(s)} \in SUBSET (1 .. m) /\ m \notin s \ {Max(s)}
          BY <3>2
        <5>2. h[s \ {Max(s)}] = f[s \ {Max(s)}]
          BY <5>1
        <5>3. f[s] = Restore(d, f[s \ {Max(s)}], d.sessions[Max(s)])
          BY <2>1, <4>1, <4>3 DEF LoadMap
        <5> QED BY <5>2, <5>3, <3>2, <4>3
      <4> QED BY <4>2, <4>3
    <3> QED BY <3>1, <3>2
  <2>3. h = [s \in SUBSET (1 .. m) |-> R(s)]
    <3>1. h = [s \in SUBSET (1 .. m) |-> h[s]]
      OBVIOUS
    <3> HIDE DEF h, R
    <3> QED BY <3>1, <2>2
  <2>4. LoadMap(d, m, h)
    BY <2>3 DEF LoadMap
  <2> HIDE DEF h
  <2> QED BY <2>4
<1>3. \A k \in 0 .. n : k \in T
  <2> HIDE DEF T
  <2> QED BY <1>1, <1>2, BoundedInduction
<1> QED BY <1>3

\* What is read back of d.sessions, d.keys and d.logs.
Read(d) == FoldLeft(LAMBDA n, e : Restore(d, n, e), NoMemory, d.sessions)

LEMMA ReadWalk ==
  ASSUME NEW d \in Disk
  PROVE  \E g : IsWalk(g, d) /\ Read(d) = g[Len(d.sessions)]
<1> DEFINE n == Len(d.sessions)
           f == CHOOSE f : LoadMap(d, n, f)
           g == [k \in 0 .. n |-> f[1 .. k]]
<1>0. n \in Nat /\ DOMAIN d.sessions = 1 .. n
  BY DEF Disk
<1> HIDE DEF n
<1>1. LoadMap(d, n, f)
  BY <1>0, LoadMapExists
<1>2. Read(d) = f[1 .. n]
  BY <1>0 DEF Read, FoldLeft, MapThenFoldSet, LoadMap
<1>3. IsWalk(g, d)
  <2> HIDE DEF f
  <2>1. 1 .. 0 = {}
    OBVIOUS
  <2>2. g[0] = NoMemory
    BY <1>0, <1>1, <2>1 DEF LoadMap
  <2>3. ASSUME NEW k \in 1 .. n
        PROVE  g[k] = Restore(d, g[k - 1], d.sessions[k])
    <3>1. 1 .. k \in SUBSET (1 .. n) /\ 1 .. k # {}
      <4>1. k \in Nat /\ 1 <= k /\ k <= n
        BY <1>0
      <4>2. \A x \in 1 .. k : x \in 1 .. n
        BY <4>1, <1>0
      <4>3. k \in 1 .. k
        BY <4>1
      <4> QED BY <4>2, <4>3
    <3>2. Max(1 .. k) = k
      <4>1. 1 .. k \in SUBSET (1 .. k) /\ k \in 1 .. k /\ k \in Nat
        BY <1>0
      <4> HIDE DEF g
      <4> QED BY <4>1, MaxTop
    <3>3. (1 .. k) \ {k} = 1 .. k - 1
      BY <1>0
    <3>4. f[1 .. k] = Restore(d, f[1 .. k - 1], d.sessions[k])
      BY <1>1, <3>1, <3>2, <3>3 DEF LoadMap
    <3>5. k \in 0 .. n /\ k - 1 \in 0 .. n
      BY <1>0
    <3> QED BY <3>4, <3>5
  <2> QED BY <2>2, <2>3 DEF IsWalk, n
<1>4. g[n] = f[1 .. n]
  BY <1>0
<1> HIDE DEF g, f
<1> QED BY <1>2, <1>3, <1>4 DEF n

\* An id more at the end of the order.
LEMMA OneMore ==
  ASSUME NEW q \in Seq(Ids), \A i, j \in DOMAIN q : q[i] = q[j] => i = j,
         NEW s \in Ids, s \notin Range(q)
  PROVE  LET p == Append(q, s)
         IN  /\ p \in Seq(Ids) /\ \A i, j \in DOMAIN p : p[i] = p[j] => i = j
             /\ \A x : x \in Range(p) <=> x \in Range(q) \/ x = s
<1> DEFINE n == Len(q)
           p == Append(q, s)
<1>1. /\ n \in Nat /\ DOMAIN q = 1 .. n /\ DOMAIN p = 1 .. n + 1 /\ p \in Seq(Ids)
      /\ p[n + 1] = s /\ \A i \in 1 .. n : p[i] = q[i]
  OBVIOUS
<1> HIDE DEF n, p
<1>2. \A i \in 1 .. n : q[i] # s
  BY <1>1 DEF Range
<1>3. DOMAIN p = (1 .. n) \cup {n + 1}
  BY <1>1
<1>4. \A i, j \in DOMAIN p : p[i] = p[j] => i = j
  BY <1>1, <1>2, <1>3
<1>5. \A x : x \in Range(p) <=> x \in Range(q) \/ x = s
  BY <1>1, <1>3 DEF Range
<1> QED BY <1>1, <1>4, <1>5 DEF p

LEMMA RestoreIs ==
  ASSUME NEW d \in Disk, NEW m \in Mems, Tidy(m), NEW e \in [id : Ids, fresh : BOOLEAN],
         NEW a, a = Restore(d, m, e)
  PROVE  /\ a \in Mems /\ Tidy(a)
         /\ \A x : x \in Held(a) <=> x \in Held(m) \/ (x = e.id /\ d.keys[x] # None)
         /\ \A x \in Held(m) : a.slots[x] = m.slots[x]
         /\ e.id \notin Held(m) /\ d.keys[e.id] # None
              => /\ a.slots[e.id].key = d.keys[e.id] /\ a.slots[e.id].log = d.logs[e.id]
                 /\ a.slots[e.id].fresh => e.fresh
<1> DEFINE s == e.id
<1>0. s \in Ids /\ e.fresh \in BOOLEAN /\ d.keys[s] \in Keys \cup {None} /\ d.logs[s] \in SUBSET Kinds
  BY DEF Disk
<1>1. CASE s \in Held(m) \/ d.keys[s] = None
  <2>1. a = m
    BY <1>1 DEF Restore, Restored
  <2> HIDE DEF s
  <2>2. /\ a \in Mems /\ Tidy(a)
        /\ \A x : x \in Held(a) <=> x \in Held(m) \/ (x = s /\ d.keys[x] # None)
        /\ \A x \in Held(m) : a.slots[x] = m.slots[x]
        /\ s \notin Held(m) /\ d.keys[s] # None
             => /\ a.slots[s].key = d.keys[s] /\ a.slots[s].log = d.logs[s]
                /\ a.slots[s].fresh => e.fresh
    BY <1>1, <2>1
  <2> QED BY <2>2 DEF s
<1>2. CASE s \notin Held(m) /\ d.keys[s] # None
  <2> DEFINE n == [key |-> d.keys[s], fresh |-> e.fresh, subscribed |-> FALSE, log |-> d.logs[s]]
             sl == Put(m.slots, s, n)
  <2>1. n \in Slots /\ n.key = d.keys[s] /\ n.log = d.logs[s] /\ n.fresh = e.fresh
    BY <1>0, <1>2 DEF Slots
  <2>2. a = [m EXCEPT !.order = Append(@, s), !.slots = sl]
    BY <1>2 DEF Restore, Restored
  <2> HIDE DEF n, s
  <2>3. /\ m.slots \in [Held(m) -> Slots] /\ Held(m) \in SUBSET Ids
        /\ m.order \in Seq(Ids) /\ m.current \in Ids \cup {None} /\ m.name \in BOOLEAN
    BY MemIs
  <2>4. DOMAIN m.slots = Held(m)
    BY DEF Held
  <2>5. /\ sl \in [Held(m) \cup {s} -> Slots] /\ DOMAIN sl = Held(m) \cup {s} /\ sl[s] = n
        /\ \A x \in Held(m) : sl[x] = m.slots[x]
    <3>1. sl \in [DOMAIN m.slots \cup {s} -> Slots]
      BY <2>1, <2>3, <2>4, PutType
    <3>2. DOMAIN sl = DOMAIN m.slots \cup {s} /\ sl[s] = n
          /\ \A x \in DOMAIN m.slots \ {s} : sl[x] = m.slots[x]
      BY DEF Put
    <3> QED BY <1>2, <2>4, <3>1, <3>2
  <2> HIDE DEF sl
  <2>6. /\ Range(m.order) = Held(m)
        /\ \A i, j \in DOMAIN m.order : m.order[i] = m.order[j] => i = j
    BY DEF Tidy
  <2> DEFINE p == Append(m.order, s)
  <2>7. /\ p \in Seq(Ids) /\ \A i, j \in DOMAIN p : p[i] = p[j] => i = j
        /\ \A x : x \in Range(p) <=> x \in Range(m.order) \/ x = s
    BY <1>0, <1>2, <2>3, <2>6, OneMore
  <2>8. /\ a.slots = sl /\ a.order = p
        /\ a = [slots |-> sl, order |-> p, current |-> m.current, name |-> m.name]
    BY <2>2 DEF Mems
  <2> HIDE DEF p
  <2>9. a \in Mems
    <3>1. DOMAIN sl \in SUBSET Ids /\ sl \in [DOMAIN sl -> Slots]
      BY <1>0, <2>3, <2>5
    <3>2. [slots |-> sl, order |-> p, current |-> m.current, name |-> m.name] \in Mems
      BY <2>3, <2>7, <3>1, IsMem
    <3> QED BY <2>8, <3>2
  <2>10. \A x : x \in Held(a) <=> x \in Held(m) \/ x = s
    BY <2>5, <2>8 DEF Held
  <2>11. Tidy(a)
    <3>1. \A x : x \in Range(p) <=> x \in Held(a)
      BY <2>6, <2>7, <2>10
    <3>2. Range(p) = Held(a)
      BY ONLY <3>1
    <3> QED BY <2>7, <2>8, <3>2 DEF Tidy
  <2>12. \A x \in Held(m) : a.slots[x] = m.slots[x]
    BY <2>5, <2>8
  <2>13. a.slots[s].key = d.keys[s] /\ a.slots[s].log = d.logs[s] /\ a.slots[s].fresh = e.fresh
    BY <2>1, <2>5, <2>8
  <2>14. /\ a \in Mems /\ Tidy(a)
         /\ \A x : x \in Held(a) <=> x \in Held(m) \/ (x = s /\ d.keys[x] # None)
         /\ \A x \in Held(m) : a.slots[x] = m.slots[x]
         /\ s \notin Held(m) /\ d.keys[s] # None
              => /\ a.slots[s].key = d.keys[s] /\ a.slots[s].log = d.logs[s]
                 /\ a.slots[s].fresh => e.fresh
    BY <1>2, <2>9, <2>10, <2>11, <2>12, <2>13
  <2> QED BY <2>14 DEF s
<1> QED BY <1>1, <1>2

\* What the first k entries lead to.
ReadTo(d, k, m) ==
  /\ m \in Mems /\ Tidy(m)
  /\ \A x : x \in Held(m) <=> \E i \in 1 .. k : d.sessions[i].id = x /\ d.keys[x] # None
  /\ \A x \in Held(m) :
       /\ m.slots[x].key = d.keys[x] /\ m.slots[x].log = d.logs[x]
       /\ m.slots[x].fresh => \E i \in 1 .. k : d.sessions[i].id = x /\ d.sessions[i].fresh

LEMMA ReadIs ==
  ASSUME NEW d \in Disk
  PROVE  ReadTo(d, Len(d.sessions), Read(d))
<1> DEFINE n == Len(d.sessions)
<1>0. n \in Nat /\ \A i \in 1 .. n : d.sessions[i] \in [id : Ids, fresh : BOOLEAN]
  <2> DEFINE S == [id : Ids, fresh : BOOLEAN]
  <2>1. d.sessions \in Seq(S)
    BY DEF Disk
  <2> HIDE DEF S
  <2>2. n \in Nat /\ \A i \in 1 .. n : d.sessions[i] \in S
    BY <2>1
  <2> QED BY <2>2 DEF S
<1>1. PICK g : IsWalk(g, d) /\ Read(d) = g[n]
  BY ReadWalk
<1> DEFINE T == {k \in 0 .. n : ReadTo(d, k, g[k])}
<1>2. ReadTo(d, 0, NoMemory)
  <2>1. Held(NoMemory) = {} /\ NoMemory.order = << >>
    BY DEF NoMemory, Held
  <2>2. NoMemory \in Mems
    <3>1. << >> \in Seq(Ids) /\ DOMAIN << >> = {} /\ << >> \in [{} -> Slots]
      OBVIOUS
    <3>2. DOMAIN << >> \in SUBSET Ids /\ << >> \in [DOMAIN << >> -> Slots]
      BY <3>1
    <3> QED BY <3>1, <3>2, IsMem DEF NoMemory
  <2>3. Tidy(NoMemory)
    BY <2>1 DEF Tidy, Range
  <2> QED BY <2>1, <2>2, <2>3 DEF ReadTo
<1>3. 0 \in T
  BY <1>0, <1>1, <1>2 DEF IsWalk
<1>4. ASSUME NEW k \in 1 .. n, k - 1 \in T PROVE k \in T
  <2> DEFINE m == g[k - 1]
             e == d.sessions[k]
             a == g[k]
  <2>1. a = Restore(d, m, e) /\ ReadTo(d, k - 1, m) /\ e \in [id : Ids, fresh : BOOLEAN]
    BY <1>0, <1>1, <1>4 DEF IsWalk
  <2>2. 1 .. k = (1 .. k - 1) \cup {k} /\ k \in 0 .. n
    BY <1>0
  <2> HIDE DEF m, e, a, n, T
  <2>3. m \in Mems /\ Tidy(m)
    BY <2>1 DEF ReadTo
  <2>4. /\ a \in Mems /\ Tidy(a)
        /\ \A x : x \in Held(a) <=> x \in Held(m) \/ (x = e.id /\ d.keys[x] # None)
        /\ \A x \in Held(m) : a.slots[x] = m.slots[x]
        /\ e.id \notin Held(m) /\ d.keys[e.id] # None
             => /\ a.slots[e.id].key = d.keys[e.id] /\ a.slots[e.id].log = d.logs[e.id]
                /\ a.slots[e.id].fresh => e.fresh
    BY <2>1, <2>3, RestoreIs
  <2>5. \A x : x \in Held(a) <=> \E i \in 1 .. k : d.sessions[i].id = x /\ d.keys[x] # None
    BY <2>1, <2>2, <2>4 DEF ReadTo, e
  <2>6. ASSUME NEW x \in Held(a)
        PROVE  /\ a.slots[x].key = d.keys[x] /\ a.slots[x].log = d.logs[x]
               /\ a.slots[x].fresh => \E i \in 1 .. k : d.sessions[i].id = x /\ d.sessions[i].fresh
    <3>1. CASE x \in Held(m)
      BY <2>1, <2>2, <2>4, <3>1 DEF ReadTo
    <3>2. CASE x \notin Held(m)
      <4>1. x = e.id /\ d.keys[e.id] # None
        BY <2>4, <3>2
      <4> QED BY <2>2, <2>4, <3>2, <4>1 DEF e
    <3> QED BY <3>1, <3>2
  <2>7. ReadTo(d, k, a)
    BY <2>4, <2>5, <2>6 DEF ReadTo
  <2> QED BY <2>2, <2>7 DEF T, a
<1>5. \A k \in 0 .. n : k \in T
  <2> HIDE DEF T
  <2> QED BY <1>0, <1>3, <1>4, BoundedInduction
<1> QED BY <1>0, <1>1, <1>5

LEMMA LoadedIs ==
  ASSUME NEW d \in Disk
  PROVE  /\ ReadTo(d, Len(d.sessions), Loaded(d))
         /\ Held(Loaded(d)) # {} => Loaded(d).current \in Held(Loaded(d))
<1> DEFINE m == Read(d)
           c == IF d.current \in Held(m) THEN d.current
                ELSE IF m.order = << >> THEN None ELSE Head(m.order)
           a == Loaded(d)
<1>1. ReadTo(d, Len(d.sessions), m)
  BY ReadIs
<1>2. a = [m EXCEPT !.name = d.name, !.current = c]
  BY DEF Loaded, Read
<1> HIDE DEF m, a
<1>3. /\ m.slots \in [Held(m) -> Slots] /\ Held(m) \in SUBSET Ids
      /\ m.order \in Seq(Ids) /\ m \in Mems /\ Range(m.order) = Held(m)
  BY <1>1, MemIs DEF ReadTo, Tidy
<1>4. d.name \in BOOLEAN
  BY DEF Disk
<1>5. m.order # << >> => Head(m.order) \in Held(m)
  BY <1>3 DEF Range
<1>6. m.order = << >> => Held(m) = {}
  BY <1>3 DEF Range
<1>7. c \in Ids \cup {None} /\ (Held(m) # {} => c \in Held(m))
  BY <1>3, <1>5, <1>6
<1> HIDE DEF c
<1>8. /\ a = [slots |-> m.slots, order |-> m.order, current |-> c, name |-> d.name]
      /\ a.slots = m.slots /\ a.order = m.order /\ a.current = c
  BY <1>2, <1>3 DEF Mems
<1>9. Held(a) = Held(m)
  BY <1>8 DEF Held
<1>10. a \in Mems
  <2>1. DOMAIN m.slots \in SUBSET Ids /\ m.slots \in [DOMAIN m.slots -> Slots]
    BY <1>3 DEF Held
  <2> QED BY <1>3, <1>4, <1>7, <1>8, <2>1, IsMem
<1>11. Tidy(a)
  BY <1>1, <1>8, <1>9 DEF ReadTo, Tidy
<1>12. ReadTo(d, Len(d.sessions), a)
  BY <1>1, <1>8, <1>9, <1>10, <1>11 DEF ReadTo
<1> QED BY <1>7, <1>8, <1>9, <1>12 DEF a

LEMMA LoadedGood ==
  ASSUME node # "on", NEW d, NEW dr, NEW mk, NEW od, DiskOK(d, dr, mk, od),
         \A r \in DOMAIN mk : mk[r] \in Keys
  PROVE  Good([m |-> Loaded(d), d |-> d, j |-> {}], dr, mk, od)
<1> DEFINE a == Loaded(d)
           n == Len(d.sessions)
           w == [m |-> a, d |-> d, j |-> {}]
<1>1. d \in Disk /\ DOMAIN d.sessions = 1 .. n
  BY DEF DiskOK, Disk
<1>2. ReadTo(d, n, a)
  BY <1>1, LoadedIs
<1> HIDE DEF n, a
<1>3. /\ a \in Mems /\ Tidy(a)
      /\ \A x : x \in Held(a) <=> \E i \in DOMAIN d.sessions : d.sessions[i].id = x /\ d.keys[x] # None
      /\ \A x \in Held(a) :
           /\ a.slots[x].key = d.keys[x] /\ a.slots[x].log = d.logs[x]
           /\ a.slots[x].fresh => \E i \in DOMAIN d.sessions : d.sessions[i].id = x /\ d.sessions[i].fresh
  BY <1>1, <1>2 DEF ReadTo
<1>4. \A x \in Held(a) : x \in Listed(d) /\ x \in Ids /\ d.keys[x] # None
  <2>1. \A i \in DOMAIN d.sessions : d.sessions[i].id \in Ids /\ d.sessions[i].id \in Listed(d)
    BY <1>1, ListedIs
  <2> QED BY <1>3, <2>1
<1>5. \A x \in Listed(d) : d.keys[x] # None => x \in Held(a)
  BY <1>1, <1>3, ListedIs
<1>6. ASSUME NEW x \in Held(a) \ od, a.slots[x].fresh PROVE a.slots[x].key = x
  <2>1. d.keys[x] \notin Codes
    BY <1>3, <1>6 DEF DiskOK
  <2>2. d.keys[x] \in Codes \cup {None, x}
    BY <1>4 DEF DiskOK
  <2> QED BY <1>3, <1>4, <2>1, <2>2
<1>7. \A r, s \in Held(a) \ od : a.slots[r].key = a.slots[s].key => r = s
  BY <1>3, <1>4 DEF DiskOK
<1>8. DOMAIN mk \ od \subseteq Held(a)
  <2>1. \A r \in DOMAIN mk \ od : r \in Listed(d) /\ d.keys[r] # None
    BY KeysApart DEF DiskOK
  <2> QED BY <1>5, <2>1
<1>9. Agree(w, mk, od)
  BY <1>3, <1>6, <1>7, <1>8 DEF Agree
<1>10. w \in Worlds
  BY <1>1, <1>3 DEF Worlds
<1> QED BY <1>3, <1>9, <1>10 DEF Good, a

LEMMA LoadIs ==
  ASSUME node # "on", NEW dr, NEW mk, NEW od, DiskOK(disk, dr, mk, od),
         \A r \in DOMAIN mk : mk[r] \in Keys,
         NEW s, Held(Loaded(disk)) = {} => s \in Ids \ Seen(disk, dr)
  PROVE  LET t == Load(s)
         IN  /\ t \in Seq(Points(dr, mk, od)) /\ t # << >>
             /\ Settled(Last(t), dr, mk, od)
<1> DEFINE w == [m |-> Loaded(disk), d |-> disk, j |-> {}]
           u == IF Held(w.m) = {} THEN NewEntry(w, s) ELSE <<w>>
           y == Last(u)
           c == Saved(y)
           t == Load(s)
<1>1. t = Append(u, c)
  BY DEF Load
<1>2. Good(w, dr, mk, od)
  BY LoadedGood
<1>3. Held(w.m) # {} => w.m.current \in Held(w.m)
  <2>1. disk \in Disk
    BY DEF DiskOK
  <2> QED BY <2>1, LoadedIs
<1>4. Held(w.m) = {} => s \in Ids \ Seen(w.d, dr)
  OBVIOUS
<1> HIDE DEF w, c, t
<1>5. /\ u \in Seq(Points(dr, mk, od)) /\ u # << >>
      /\ Good(y, dr, mk, od) /\ y.m.current \in Held(y.m)
  <2>1. CASE Held(w.m) = {}
    <3>1. u = NewEntry(w, s)
      BY <2>1
    <3> HIDE DEF u
    <3> QED BY <1>2, <1>4, <2>1, <3>1, NewEntryIs DEF Settled
  <2>2. CASE Held(w.m) # {}
    <3>1. u = <<w>> /\ y = w
      BY <2>2 DEF Last
    <3>2. w \in Points(dr, mk, od)
      BY <1>2, GoodSurvives
    <3> QED BY <1>2, <1>3, <2>2, <3>1, <3>2
  <2> QED BY <2>1, <2>2
<1> HIDE DEF u, y
<1>6. Good(c, dr, mk, od) /\ Listed(c.d) = Held(c.m) /\ c.m = y.m
  <2>1. y \in Worlds /\ Tidy(y.m)
    BY <1>5 DEF Good
  <2> QED BY <1>5, <2>1, SavedGood, SavedIs DEF c
<1>7. Settled(c, dr, mk, od)
  BY <1>5, <1>6 DEF Settled
<1>8. c \in Points(dr, mk, od)
  BY <1>6, GoodSurvives
<1>9. t \in Seq(Points(dr, mk, od)) /\ t # << >> /\ Last(t) = c
  BY <1>1, <1>5, <1>8 DEF Last
<1> QED BY <1>7, <1>9 DEF t

-----------------------------------------------------------------------------
(* The invariant, one action at a time. *)

\* A handler gets through.
LEMMA Finish ==
  ASSUME IInv, up' = TRUE, NEW t, Through(t),
         DOMAIN made' \subseteq Ids, \A r \in DOMAIN made' : made'[r] \in Keys,
         odd' \in SUBSET drawn',
         Settled(Last(t), drawn, made', odd')
  PROVE  IInv'
<1> DEFINE z == Last(t)
<1>1. /\ mem' = z.m /\ disk' = z.d /\ joined' = z.j /\ drawn' = Seen(z.d, drawn)
      /\ node' = node /\ crashes' = crashes
  BY DEF Through, Seen
<1> HIDE DEF z
<1>2. Settled(z, drawn, made', odd')
  BY DEF z
<1>3. /\ Good(z, drawn', made', odd') /\ z.m.current \in Held(z.m) /\ Listed(z.d) = Held(z.m)
  BY <1>1, <1>2, GoodSeen DEF Settled
<1>4. z \in Worlds /\ z = [m |-> z.m, d |-> z.d, j |-> z.j]
  BY <1>3 DEF Good, Worlds
<1>5. World' = z
  BY <1>1, <1>4 DEF World
<1>6. Agree(World, made, odd)'
  <2>1. Agree(z, made', odd')
    BY <1>3 DEF Good
  <2> QED BY <1>1, <1>5, <2>1 DEF Agree
<1>7. Settled(World, drawn, made, odd)'
  <2>1. /\ World' \in Worlds /\ Tidy(World'.m) /\ DiskOK(World'.d, drawn', made', odd')
        /\ World'.m.current \in Held(World'.m) /\ Listed(World'.d) = Held(World'.m)
    BY <1>3, <1>5 DEF Good
  <2> QED BY <1>6, <2>1 DEF Settled, Good
<1>8. Seen(disk', drawn') = drawn' /\ drawn' \in SUBSET Ids
  BY <1>1 DEF Seen, IInv
<1>9. joined' \in SUBSET Keys /\ DiskOK(disk', drawn', made', odd')
  BY <1>1, <1>3, <1>4, WorldIs DEF Good
<1> QED BY <1>1, <1>7, <1>8, <1>9 DEF IInv

\* A handler dies after one of its writes, or before the first.
LEMMA Dying ==
  ASSUME IInv, NEW t, NEW going, Dies(t, going),
         NEW mk, t \in Seq(Points(drawn, mk, odd)),
         \A r \in DOMAIN made \ going : r \in DOMAIN mk /\ mk[r] = made[r]
  PROVE  IInv'
<1>1. PICK d \in {disk} \cup {t[k].d : k \in 1 .. Len(t)} :
        /\ disk' = d /\ drawn' = Seen(d, drawn) /\ odd' = odd \cup ListedFresh(d)
  BY DEF Dies, Seen
<1>2. /\ made' = [r \in DOMAIN made \ going |-> made[r]]
      /\ crashes < MaxCrashes /\ crashes' = crashes + 1
      /\ up' = FALSE /\ mem' = NoMemory /\ node' = "off" /\ joined' = {}
  BY DEF Dies
<1>3. DOMAIN made' = DOMAIN made \ going /\ \A r \in DOMAIN made' : made'[r] = made[r]
  BY <1>2
<1>4. DiskOK(d, drawn, made', odd')
  <2>1. CASE d = disk
    <3>1. DiskOK(d, drawn, made, odd)
      BY <2>1 DEF IInv
    <3>2. DOMAIN made' \subseteq DOMAIN made /\ odd \subseteq odd'
      BY <1>1, <1>3
    <3> QED BY <1>3, <3>1, <3>2, Weaken
  <2>2. CASE d # disk
    <3>1. PICK k \in 1 .. Len(t) : d = t[k].d
      BY <1>1, <2>2
    <3>2. t[k] \in Points(drawn, mk, odd)
      <4> DEFINE S == Points(drawn, mk, odd)
      <4>1. t \in Seq(S)
        OBVIOUS
      <4> HIDE DEF S
      <4>2. t[k] \in S
        BY <4>1
      <4> QED BY <4>2 DEF S
    <3>3. DiskOK(d, drawn, mk, odd')
      BY <1>1, <3>1, <3>2 DEF Points, Survives
    <3>4. DOMAIN made' \subseteq DOMAIN mk /\ \A r \in DOMAIN made' : made'[r] = mk[r]
      BY <1>3
    <3> QED BY <3>3, <3>4, Weaken
  <2> QED BY <2>1, <2>2
<1>5. DiskOK(d, drawn', made', odd') /\ Seen(d, drawn') = drawn' /\ drawn' \in SUBSET Ids
  <2>1. DOMAIN made' \subseteq DOMAIN made' /\ odd' \subseteq odd'
    OBVIOUS
  <2>2. DiskOK(d, Seen(d, drawn), made', odd')
    BY <1>4, <2>1, Weaken
  <2> QED BY <1>1, <2>2 DEF Seen, IInv
<1>6. odd' \in SUBSET drawn'
  <2>1. ListedFresh(d) \subseteq drawn'
    BY <1>1, RegistryAssumption DEF ListedFresh, Seen
  <2> QED BY <1>1, <2>1 DEF IInv, Seen
<1>7. crashes' \in 0 .. MaxCrashes
  BY <1>2, RegistryAssumption DEF IInv
<1>8. DOMAIN made' \subseteq Ids /\ \A r \in DOMAIN made' : made'[r] \in Keys
  BY <1>3 DEF IInv
<1>9. DiskOK(disk, drawn, made, odd)' /\ (Seen(disk, drawn) = drawn)'
  BY <1>1, <1>5
<1> QED BY <1>1, <1>2, <1>5, <1>6, <1>7, <1>8, <1>9 DEF IInv

\* What the invariant says of a running process.
LEMMA Running ==
  ASSUME IInv, up
  PROVE  /\ Settled(World, drawn, made, odd) /\ Seen(World.d, drawn) = drawn
         /\ World.m = mem /\ World.d = disk
         /\ mem.current \in Held(mem) /\ Held(mem) \subseteq drawn
<1>1. Settled(World, drawn, made, odd) /\ World.m = mem /\ World.d = disk
  BY DEF IInv, World
<1>2. Seen(World.d, drawn) = drawn
  BY <1>1 DEF IInv
<1>3. mem.current \in Held(mem)
  BY <1>1 DEF Settled
<1>4. \A s \in Held(World.m) : s \in Seen(World.d, drawn)
  <2>1. Good(World, drawn, made, odd)
    BY <1>1 DEF Settled
  <2> QED BY <2>1, HeldIs
<1> QED BY <1>1, <1>2, <1>3, <1>4

\* The id a handler draws is one that its trail can use.
LEMMA Drawing ==
  ASSUME IInv, up, NEW s, s \in NewId(CreateDraws)
  PROVE  IdFor(World, drawn, s)
BY Running DEF NewId, CreateDraws, IdFor

LEMMA Creates ==
  ASSUME IInv, CreateSession
  PROVE  IInv'
<1>1. up /\ up' = TRUE /\ odd' = odd
  BY DEF CreateSession, Handle, IInv
<1>2. PICK s \in NewId(CreateDraws) :
        Through(Create(World, s)) /\ made' = Put(made, Target(World, s), Target(World, s))
  BY DEF CreateSession, Handle
<1>3. Settled(World, drawn, made, odd) /\ IdFor(World, drawn, s) /\ mem.current \in Ids
  BY <1>1, <1>2, Running, Drawing DEF IInv
<1> DEFINE r == Target(World, s)
           t == Create(World, s)
<1>4. r \in Ids
  BY <1>1, <1>3, Running DEF Target, IdFor
<1>5. DOMAIN made' = DOMAIN made \cup {r} /\ made'[r] = r /\ \A x \in DOMAIN made \ {r} : made'[x] = made[x]
  <2>1. made' = Put(made, r, r)
    BY <1>2
  <2> HIDE DEF r
  <2> QED BY <2>1 DEF Put
<1>6. Settled(Last(t), drawn, made', odd')
  BY <1>1, <1>2, <1>3, CreateIs
<1>7. DOMAIN made' \subseteq Ids /\ \A x \in DOMAIN made' : made'[x] \in Keys
  <2> HIDE DEF r
  <2> QED BY <1>4, <1>5 DEF IInv, Keys
<1>8. odd' \in SUBSET drawn'
  BY <1>1, <1>2 DEF Through, IInv
<1> HIDE DEF t
<1> QED BY <1>1, <1>2, <1>6, <1>7, <1>8, Finish DEF t

LEMMA Joins ==
  ASSUME IInv, NEW code \in Codes, NEW invited, JoinSession(code, invited)
  PROVE  IInv'
<1>1. up /\ up' = TRUE /\ odd' = odd /\ made' = Put(made, mem'.current, code)
  BY DEF JoinSession, Handle, IInv
<1>2. PICK s \in NewId(JoinDraws(code)) : Through(Join(World, s, code, invited))
  BY DEF JoinSession, Handle
<1> DEFINE t == Join(World, s, code, invited)
           r == mem'.current
<1>3. Settled(World, drawn, made, odd) /\ (Holders(World, code) = {} => IdFor(World, drawn, s))
  BY <1>1, <1>2, Running, Drawing DEF JoinDraws, NewId
<1>4. Settled(Last(t), drawn, Put(made, Last(t).m.current, code), odd)
  BY <1>3, JoinIs
<1>5. mem' = Last(t).m /\ Through(t)
  BY <1>2 DEF Through
<1> HIDE DEF t
<1>6. Settled(Last(t), drawn, made', odd')
  BY <1>1, <1>4, <1>5
<1>7. r \in Ids
  <2>1. Good(Last(t), drawn, made', odd') /\ Last(t).m.current \in Held(Last(t).m)
    BY <1>6 DEF Settled
  <2> QED BY <1>5, <2>1, HeldIs
<1>8. DOMAIN made' = DOMAIN made \cup {r} /\ made'[r] = code /\ \A x \in DOMAIN made \ {r} : made'[x] = made[x]
  <2>1. made' = Put(made, r, code)
    BY <1>1
  <2> HIDE DEF r
  <2> QED BY <2>1 DEF Put
<1>9. DOMAIN made' \subseteq Ids /\ \A x \in DOMAIN made' : made'[x] \in Keys
  <2> HIDE DEF r
  <2> QED BY <1>7, <1>8 DEF IInv, Keys
<1>10. odd' \in SUBSET drawn'
  BY <1>1, <1>5 DEF Through, IInv
<1> QED BY <1>1, <1>5, <1>6, <1>9, <1>10, Finish

LEMMA Deletes ==
  ASSUME IInv, NEW r \in Held(mem), DeleteSession(r)
  PROVE  IInv'
<1>1. up /\ up' = TRUE /\ odd' = odd /\ made' = Without(made, r)
  BY DEF DeleteSession, Handle, IInv, Without
<1>2. PICK s \in NewId(DeleteDraws(r)) : Through(Delete(World, r, s))
  BY DEF DeleteSession, Handle
<1>3. /\ Settled(World, drawn, made, odd) /\ r \in Held(World.m) /\ r \in drawn
      /\ Held(World.m) = {r} => s \in Ids \ Seen(World.d, drawn)
  BY <1>1, <1>2, Running DEF DeleteDraws, NewId
<1> DEFINE t == Delete(World, r, s)
<1>4. Settled(Last(t), drawn, made', odd')
  BY <1>1, <1>3, DeleteIs
<1>5. DOMAIN made' \subseteq Ids /\ \A x \in DOMAIN made' : made'[x] \in Keys
  BY <1>1 DEF Without, IInv
<1>6. odd' \in SUBSET drawn'
  BY <1>1, <1>2 DEF Through, IInv
<1> HIDE DEF t
<1> QED BY <1>1, <1>2, <1>4, <1>5, <1>6, Finish DEF t

LEMMA Switches ==
  ASSUME IInv, NEW r \in Held(mem), SwitchSession(r)
  PROVE  IInv'
<1> DEFINE t == Switch(World, r)
<1>1. up /\ up' = TRUE /\ odd' = odd /\ made' = made /\ Through(t)
  BY DEF SwitchSession, Handle, IInv
<1>2. Settled(World, drawn, made, odd) /\ r \in Held(World.m)
  BY <1>1, Running
<1>3. Settled(Last(t), drawn, made, odd)
  BY <1>2, SwitchIs
<1> HIDE DEF t
<1>4. odd' \in SUBSET drawn'
  BY <1>1 DEF Through, IInv
<1>5. DOMAIN made' \subseteq Ids /\ \A x \in DOMAIN made' : made'[x] \in Keys
  BY <1>1 DEF IInv
<1>6. Settled(Last(t), drawn, made', odd')
  BY <1>1, <1>3
<1> QED BY <1>1, <1>4, <1>5, <1>6, Finish

LEMMA SetsKey ==
  ASSUME IInv, NEW code \in Codes, SetSecret(code)
  PROVE  IInv'
<1> DEFINE t == SetKey(World, code)
<1>1. /\ up /\ up' = TRUE /\ odd' = odd \cup {mem.current} /\ made' = Without(made, mem.current)
      /\ Through(t)
  BY DEF SetSecret, Handle, IInv, Without
<1>2. Settled(World, drawn, made, odd) /\ World.m = mem /\ mem.current \in drawn
  BY <1>1, Running
<1>3. Settled(Last(t), drawn, Without(made, World.m.current), odd \cup {World.m.current})
  BY <1>2, SetKeyIs
<1> HIDE DEF t
<1>4. odd' \in SUBSET drawn'
  BY <1>1, <1>2 DEF Through, IInv
<1>5. DOMAIN made' \subseteq Ids /\ \A x \in DOMAIN made' : made'[x] \in Keys
  BY <1>1 DEF Without, IInv
<1>6. Settled(Last(t), drawn, made', odd')
  BY <1>1, <1>2, <1>3
<1> QED BY <1>1, <1>4, <1>5, <1>6, Finish

LEMMA Names ==
  ASSUME IInv, SetName
  PROVE  IInv'
<1> DEFINE t == Name(World, Held(mem))
<1>1. up /\ up' = TRUE /\ odd' = odd /\ made' = made /\ Through(t)
  BY DEF SetName, Handle, IInv
<1>2. Settled(World, drawn, made, odd) /\ Held(mem) \in SUBSET Held(World.m)
  BY <1>1, Running
<1>3. Settled(Last(t), drawn, made, odd)
  BY <1>2, NameIs
<1> HIDE DEF t
<1>4. odd' \in SUBSET drawn'
  BY <1>1 DEF Through, IInv
<1>5. DOMAIN made' \subseteq Ids /\ \A x \in DOMAIN made' : made'[x] \in Keys
  BY <1>1 DEF IInv
<1>6. Settled(Last(t), drawn, made', odd')
  BY <1>1, <1>3
<1> QED BY <1>1, <1>4, <1>5, <1>6, Finish

LEMMA Receives ==
  ASSUME IInv, NEW r \in Held(mem), Receive(r)
  PROVE  IInv'
<1> DEFINE t == <<Pushed(World, r, "other")>>
<1>1. up /\ up' = TRUE /\ odd' = odd /\ made' = made /\ Through(t)
  BY DEF Receive, Handle, IInv
<1>2. Settled(World, drawn, made, odd) /\ r \in Held(World.m)
  BY <1>1, Running
<1>3. Settled(Last(t), drawn, made, odd)
  BY <1>2, ReceiveIs
<1> HIDE DEF t
<1>4. odd' \in SUBSET drawn'
  BY <1>1 DEF Through, IInv
<1>5. DOMAIN made' \subseteq Ids /\ \A x \in DOMAIN made' : made'[x] \in Keys
  BY <1>1 DEF IInv
<1>6. Settled(Last(t), drawn, made', odd')
  BY <1>1, <1>3
<1> QED BY <1>1, <1>4, <1>5, <1>6, Finish

LEMMA Starts ==
  ASSUME IInv, Start
  PROVE  IInv'
<1>1. up' = TRUE /\ odd' = odd /\ made' = made /\ node # "on"
  BY DEF Start, IInv
<1>2. PICK s \in NewId(LoadDraws) : Through(Load(s))
  BY DEF Start
<1> DEFINE t == Load(s)
<1>3. Settled(Last(t), drawn, made, odd)
  <2>1. Held(Loaded(disk)) = {} => s \in Ids \ Seen(disk, drawn)
    BY <1>2 DEF LoadDraws, NewId, IInv
  <2>2. DiskOK(disk, drawn, made, odd) /\ \A r \in DOMAIN made : made[r] \in Keys
    BY DEF IInv
  <2> QED BY <1>1, <2>1, <2>2, LoadIs
<1> HIDE DEF t
<1>4. odd' \in SUBSET drawn'
  BY <1>1, <1>2 DEF Through, IInv
<1>5. DOMAIN made' \subseteq Ids /\ \A x \in DOMAIN made' : made'[x] \in Keys
  BY <1>1 DEF IInv
<1>6. Settled(Last(t), drawn, made', odd')
  BY <1>1, <1>3
<1> QED BY <1>1, <1>2, <1>4, <1>5, <1>6, Finish DEF t

LEMMA Bootstraps ==
  ASSUME IInv, Bootstrap
  PROVE  IInv'
<1>1. /\ up /\ node' = "starting"
      /\ UNCHANGED <<up, mem, disk, joined, drawn, made, odd, crashes>>
  BY DEF Bootstrap
<1>2. Settled(World, drawn, made, odd)
  BY <1>1, Running
<1>3. World' = World
  BY <1>1 DEF World
<1>4. Settled(World, drawn, made, odd)'
  BY <1>1, <1>2, <1>3 DEF Settled, Good, Agree
<1> QED BY <1>1, <1>4 DEF IInv

LEMMA Connects ==
  ASSUME IInv, Connected
  PROVE  IInv'
<1> DEFINE sl == [r \in Held(mem) |-> [mem.slots[r] EXCEPT !.subscribed = TRUE]]
           m2 == [mem EXCEPT !.slots = sl]
           j2 == joined \cup {mem.slots[r].key : r \in Held(mem)}
           z == [m |-> m2, d |-> disk, j |-> j2]
<1>1. /\ up /\ up' = up /\ node' = "on" /\ mem' = m2 /\ joined' = j2
      /\ disk' = disk /\ drawn' = drawn /\ made' = made /\ odd' = odd /\ crashes' = crashes
  BY DEF Connected
<1>2. /\ Good(World, drawn, made, odd) /\ World.m = mem /\ World.d = disk /\ World \in Worlds
      /\ mem.current \in Held(mem) /\ Listed(disk) = Held(mem)
  BY <1>1, Running DEF Settled, Good
<1>3. /\ mem \in Mems /\ disk \in Disk /\ joined \in SUBSET Keys
      /\ mem.slots \in [Held(mem) -> Slots] /\ Held(mem) \in SUBSET Ids
      /\ mem.order \in Seq(Ids) /\ mem.current \in Ids \cup {None} /\ mem.name \in BOOLEAN
  BY <1>2, WorldIs DEF IInv
<1>4. ASSUME NEW r \in Held(mem)
      PROVE  /\ sl[r] \in Slots /\ sl[r].key = mem.slots[r].key /\ sl[r].log = mem.slots[r].log
             /\ sl[r].fresh => mem.slots[r].fresh
  <2>1. mem.slots[r] \in Slots
    BY <1>3
  <2> QED BY <2>1 DEF Slots
<1>5. sl \in [Held(mem) -> Slots] /\ DOMAIN sl = Held(mem)
  <2>1. DOMAIN sl = Held(mem) /\ sl = [r \in Held(mem) |-> sl[r]]
    OBVIOUS
  <2> HIDE DEF sl
  <2> QED BY <1>4, <2>1
<1> HIDE DEF sl
<1>6. /\ m2 = [slots |-> sl, order |-> mem.order, current |-> mem.current, name |-> mem.name]
      /\ m2.slots = sl /\ m2.order = mem.order /\ m2.current = mem.current
  BY <1>3 DEF Mems
<1>7. m2 \in Mems
  <2>1. DOMAIN sl \in SUBSET Ids /\ sl \in [DOMAIN sl -> Slots]
    BY <1>3, <1>5
  <2> QED BY <1>3, <1>6, <2>1, IsMem
<1>8. Held(m2) = Held(mem)
  BY <1>5, <1>6 DEF Held
<1> HIDE DEF m2
<1>9. j2 \in SUBSET Keys /\ \A r \in Held(mem) : mem.slots[r].key \in j2
  BY <1>3 DEF Slots
<1> HIDE DEF j2
<1>10. Tidy(m2)
  BY <1>2, <1>6, <1>8 DEF Good, Tidy
<1>11. World' = z /\ z \in Worlds
  BY <1>1, <1>3, <1>7, <1>9 DEF World, Worlds
<1>12. Agree(World, made, odd)'
  <2>1. Agree(World, made, odd)
    BY <1>2 DEF Good
  <2>2. \A s \in Held(m2) : disk.keys[s] = m2.slots[s].key /\ disk.logs[s] = m2.slots[s].log
    BY <1>2, <1>4, <1>6, <1>8, <2>1 DEF Agree
  <2>3. \A s \in Held(m2) \ odd : m2.slots[s].fresh => m2.slots[s].key = s
    BY <1>2, <1>4, <1>6, <1>8, <2>1 DEF Agree
  <2>4. \A r, s \in Held(m2) \ odd : m2.slots[r].key = m2.slots[s].key => r = s
    BY <1>2, <1>4, <1>6, <1>8, <2>1 DEF Agree
  <2>5. DOMAIN made \ odd \subseteq Held(m2)
    BY <1>2, <1>8, <2>1 DEF Agree
  <2>6. \A s \in Held(m2) : m2.slots[s].key \in j2
    BY <1>4, <1>6, <1>8, <1>9
  <2> QED BY <1>1, <1>11, <2>2, <2>3, <2>4, <2>5, <2>6 DEF Agree
<1>13. Settled(World, drawn, made, odd)'
  <2>1. /\ World' \in Worlds /\ Tidy(World'.m) /\ DiskOK(World'.d, drawn', made', odd')
        /\ World'.m.current \in Held(World'.m) /\ Listed(World'.d) = Held(World'.m)
    BY <1>1, <1>2, <1>6, <1>8, <1>10, <1>11 DEF Good
  <2> QED BY <1>12, <2>1 DEF Settled, Good
<1> QED BY <1>1, <1>9, <1>13 DEF IInv

LEMMA Crashes ==
  ASSUME IInv, Crash
  PROVE  IInv'
<1>1. up /\ Dies(<<World>>, {})
  BY DEF Crash
<1>2. <<World>> \in Seq(Points(drawn, made, odd))
  BY <1>1, Running, OneWrite
<1> QED BY <1>1, <1>2, Dying

LEMMA CrashesIn ==
  ASSUME IInv, CrashIn
  PROVE  IInv'
<1>1. CASE up /\ \E s \in NewId(CreateDraws) : Dies(Create(World, s), {})
  <2>1. PICK s \in NewId(CreateDraws) : Dies(Create(World, s), {})
    BY <1>1
  <2>2. Settled(World, drawn, made, odd) /\ IdFor(World, drawn, s)
    BY <1>1, <2>1, Running, Drawing
  <2>3. Create(World, s) \in Seq(Points(drawn, made, odd))
    BY <2>2, CreateIs
  <2> QED BY <2>1, <2>3, Dying
<1>2. CASE up /\ \E code \in Codes, invited \in BOOLEAN :
                   \E s \in NewId(JoinDraws(code)) : Dies(Join(World, s, code, invited), {})
  <2>1. PICK code \in Codes, invited \in BOOLEAN :
               \E s \in NewId(JoinDraws(code)) : Dies(Join(World, s, code, invited), {})
    BY <1>2
  <2>2. PICK s \in NewId(JoinDraws(code)) : Dies(Join(World, s, code, invited), {})
    BY <2>1
  <2>3. Settled(World, drawn, made, odd) /\ (Holders(World, code) = {} => IdFor(World, drawn, s))
    BY <1>2, <2>2, Running, Drawing DEF JoinDraws, NewId
  <2>4. Join(World, s, code, invited) \in Seq(Points(drawn, made, odd))
    BY <2>3, JoinIs
  <2> QED BY <2>2, <2>4, Dying
<1>3. CASE up /\ \E r \in Held(mem) : \E s \in NewId(DeleteDraws(r)) : Dies(Delete(World, r, s), {r})
  <2>1. PICK r \in Held(mem) : \E s \in NewId(DeleteDraws(r)) : Dies(Delete(World, r, s), {r})
    BY <1>3
  <2>2. PICK s \in NewId(DeleteDraws(r)) : Dies(Delete(World, r, s), {r})
    BY <2>1
  <2>3. /\ Settled(World, drawn, made, odd) /\ r \in Held(World.m) /\ r \in drawn
        /\ Held(World.m) = {r} => s \in Ids \ Seen(World.d, drawn)
    BY <1>3, <2>2, Running DEF DeleteDraws, NewId
  <2>4. Delete(World, r, s) \in Seq(Points(drawn, Without(made, r), odd))
    BY <2>3, DeleteIs
  <2>5. \A x \in DOMAIN made \ {r} : x \in DOMAIN Without(made, r) /\ Without(made, r)[x] = made[x]
    BY DEF Without
  <2> QED BY <2>2, <2>4, <2>5, Dying
<1>4. CASE up /\ ~mem.name /\ \E rooms \in SUBSET Held(mem) : Dies(Name(World, rooms), {})
  <2>1. PICK rooms \in SUBSET Held(mem) : Dies(Name(World, rooms), {})
    BY <1>4
  <2>2. Settled(World, drawn, made, odd) /\ rooms \in SUBSET Held(World.m)
    BY <1>4, Running
  <2>3. Name(World, rooms) \in Seq(Points(drawn, made, odd))
    BY <2>2, NameIs
  <2> QED BY <2>1, <2>3, Dying
<1>5. CASE ~up /\ \E s \in NewId(LoadDraws) : Dies(Load(s), {})
  <2>1. PICK s \in NewId(LoadDraws) : Dies(Load(s), {})
    BY <1>5
  <2>2. Held(Loaded(disk)) = {} => s \in Ids \ Seen(disk, drawn)
    BY <2>1 DEF LoadDraws, NewId, IInv
  <2>3. node # "on" /\ DiskOK(disk, drawn, made, odd) /\ \A r \in DOMAIN made : made[r] \in Keys
    BY <1>5 DEF IInv
  <2>4. Load(s) \in Seq(Points(drawn, made, odd))
    BY <2>2, <2>3, LoadIs
  <2> QED BY <2>1, <2>4, Dying
<1> QED BY <1>1, <1>2, <1>3, <1>4, <1>5 DEF CrashIn

LEMMA Inits == Init => IInv
<1> SUFFICES ASSUME Init PROVE IInv
  OBVIOUS
<1>1. /\ disk = [sessions |-> << >>, current |-> None, keys |-> [s \in Ids |-> None],
                 logs |-> [s \in Ids |-> {}], name |-> FALSE]
      /\ up = FALSE /\ mem = NoMemory /\ node = "off" /\ joined = {}
      /\ drawn = {} /\ made = << >> /\ odd = {} /\ crashes = 0
  BY DEF Init
<1>2. /\ disk.sessions = << >> /\ disk.keys = [s \in Ids |-> None] /\ disk.logs = [s \in Ids |-> {}]
  BY <1>1
<1>3. disk \in Disk
  <2>1. << >> \in Seq([id : Ids, fresh : BOOLEAN])
    OBVIOUS
  <2> QED BY <1>1, <2>1 DEF Disk
<1>4. Listed(disk) = {} /\ DOMAIN disk.sessions = {} /\ DOMAIN made = {}
  BY <1>1, <1>2 DEF Listed
<1>5. DiskOK(disk, drawn, made, odd)
  BY <1>2, <1>3, <1>4 DEF DiskOK
<1>6. Seen(disk, drawn) = drawn
  BY <1>1, <1>2 DEF Seen
<1>7. crashes \in 0 .. MaxCrashes
  BY <1>1, RegistryAssumption
<1> QED BY <1>1, <1>4, <1>5, <1>6, <1>7 DEF IInv

LEMMA Steps == IInv /\ [Next]_vars => IInv'
<1> SUFFICES ASSUME IInv, [Next]_vars PROVE IInv'
  OBVIOUS
<1>1. CASE Start
  BY <1>1, Starts
<1>2. CASE CreateSession
  BY <1>2, Creates
<1>3. CASE SetName
  BY <1>3, Names
<1>4. CASE Bootstrap
  BY <1>4, Bootstraps
<1>5. CASE Connected
  BY <1>5, Connects
<1>6. ASSUME NEW code \in Codes, SetSecret(code) PROVE IInv'
  BY <1>6, SetsKey
<1>7. ASSUME NEW code \in Codes, NEW invited \in BOOLEAN, JoinSession(code, invited) PROVE IInv'
  BY <1>7, Joins
<1>8. ASSUME NEW r \in Held(mem), DeleteSession(r) PROVE IInv'
  BY <1>8, Deletes
<1>9. ASSUME NEW r \in Held(mem), SwitchSession(r) PROVE IInv'
  BY <1>9, Switches
<1>10. ASSUME NEW r \in Held(mem), Receive(r) PROVE IInv'
  BY <1>10, Receives
<1>11. CASE Crash
  BY <1>11, Crashes
<1>12. CASE CrashIn
  BY <1>12, CrashesIn
<1>13. CASE UNCHANGED vars
  BY <1>13 DEF vars, IInv, World, Settled, Good, Agree
<1> QED BY <1>1, <1>2, <1>3, <1>4, <1>5, <1>6, <1>7, <1>8, <1>9, <1>10, <1>11, <1>12, <1>13 DEF Next

\* The invariant: files that keep what is to be kept, whatever write the process
\* dies after, and a memory that agrees with them while it runs.
THEOREM Invariance == Spec => []IInv
BY Inits, Steps, PTL DEF Spec

-----------------------------------------------------------------------------
\* The order of the rooms has each of them once.
LEMMA Counted ==
  ASSUME NEW q \in Seq(Ids), \A i, j \in DOMAIN q : q[i] = q[j] => i = j
  PROVE  Len(q) = Cardinality(Range(q))
<1>1. Len(q) \in Nat /\ DOMAIN q = 1 .. Len(q)
  OBVIOUS
<1>2. IsFiniteSet(1 .. Len(q)) /\ Cardinality(1 .. Len(q)) = Len(q)
  BY <1>1, FS_Interval
<1>3. q \in Bijection(1 .. Len(q), Range(q))
  BY <1>1 DEF Bijection, Injection, Surjection, IsInjective, Range
<1> QED BY <1>2, <1>3, FS_Bijection DEF ExistsBijection

\* Memory and files are of their types, and the order has each held room once.
THEOREM TypeCorrect == Spec => []TypeOK
<1>1. IInv => TypeOK
  <2> SUFFICES ASSUME IInv PROVE TypeOK
    OBVIOUS
  <2>1. /\ Held(mem) \subseteq Ids /\ mem.slots \in [Held(mem) -> Slots]
        /\ mem.order \in Seq(Ids) /\ mem.name \in BOOLEAN /\ Tidy(mem)
        /\ mem.current \in (IF up THEN Held(mem) ELSE {None})
    <3>1. CASE up
      <4>1. World \in Worlds /\ World.m = mem /\ Tidy(mem) /\ mem.current \in Held(mem)
        BY <3>1, Running DEF Settled, Good
      <4> QED BY <3>1, <4>1, WorldIs
    <3>2. CASE ~up
      <4>1. mem = NoMemory
        BY <3>2 DEF IInv
      <4>2. Held(mem) = {} /\ mem.order = << >> /\ mem.current = None /\ mem.name = FALSE
            /\ mem.slots = << >>
        BY <4>1 DEF NoMemory, Held
      <4>3. << >> \in [{} -> Slots] /\ << >> \in Seq(Ids)
        OBVIOUS
      <4> QED BY <3>2, <4>2, <4>3 DEF Tidy, Range
    <3> QED BY <3>1, <3>2
  <2>2. Range(mem.order) = Held(mem) /\ Len(mem.order) = Cardinality(Held(mem))
    BY <2>1, Counted DEF Tidy
  <2>3. disk \in Disk
    BY DEF IInv, DiskOK
  <2> QED BY <2>1, <2>2, <2>3 DEF TypeOK, IInv
<1> QED BY <1>1, Invariance, PTL

\* A room the user made or joined is on disk with its secret and, if it is their
\* own, its session.create, until it is deleted: no create, join, delete or crash
\* between two writes loses one (createSession, joinSession, deleteSession).
THEOREM Kept == Spec => []RoomsAreKept
<1>1. IInv => RoomsAreKept
  BY DEF IInv, DiskOK, RoomsAreKept
<1> QED BY <1>1, Invariance, PTL

\* Our session.create is in no room with somebody else's secret (createSession's
\* choice of the slot to use, also after a crash in joinSession).
THEOREM OwnCreates == Spec => []CreatesOnlyOwn
<1>1. IInv => CreatesOnlyOwn
  BY DEF IInv, DiskOK, CreatesOnlyOwn
<1> QED BY <1>1, Invariance, PTL

\* A topic has one session (joinSession's search for the secret, sessionForTopic).
THEOREM OneRoom == Spec => []OneRoomPerKey
<1>1. IInv => OneRoomPerKey
  <2> SUFFICES ASSUME IInv PROVE OneRoomPerKey
    OBVIOUS
  <2>1. CASE up
    BY <2>1, Running DEF Settled, Good, Agree, OneRoomPerKey
  <2>2. CASE ~up
    <3>1. Held(mem) = {}
      BY <2>2 DEF IInv, NoMemory, Held
    <3> QED BY <3>1 DEF OneRoomPerKey
  <2> QED BY <2>1, <2>2
<1> QED BY <1>1, Invariance, PTL

\* With the node up, every room's topic is joined (applySecret, and the join of all
\* rooms when delivery is up).
THEOREM AllListen == Spec => []EveryRoomListens
<1>1. IInv => EveryRoomListens
  <2> SUFFICES ASSUME IInv, up, node = "on" PROVE \A r \in Held(mem) : mem.slots[r].key \in joined
    BY DEF EveryRoomListens
  <2>1. Agree(World, made, odd) /\ World.m = mem /\ World.j = joined
    BY Running DEF Settled, Good, World
  <2> QED BY <2>1 DEF Agree
<1> QED BY <1>1, Invariance, PTL
=============================================================================
