------------------------------- MODULE Registry -------------------------------
(***************************************************************************)
(* The rooms one qaku_core keeps (m_sessions, m_order, m_current), the files   *)
(* it finds them in again (sessions.json, a pair.key and a log for each), and  *)
(* the topics it has joined on loam_core.                                      *)
(*                                                                             *)
(* A handler runs under the lock but writes several files, and the process     *)
(* may die after any of them.  So a handler is its trail, the sequence of      *)
(* worlds its writes lead through: it reaches the last one, or a crash leaves  *)
(* the disk as one of them has it.  A single write is not torn here.           *)
(*                                                                             *)
(* A secret stands for the room it opens: a session's own secret is its id,    *)
(* those of others' rooms are Codes.  Events waiting in the outbox count as    *)
(* the log's, and a received event is on disk at once (RoomSync and LoamOutbox *)
(* have the difference).  Left out: a secret given in QAKU_SECRET, a start of    *)
(* the node that fails, an unreadable sessions.json.  A run ends when the ids    *)
(* and the crashes are used up, which is not a deadlock of the program.          *)
(***************************************************************************)
EXTENDS Integers, Sequences, FiniteSets, SequencesExt

CONSTANTS Ids,         \* the session ids newSessionId may draw
          Codes,       \* the secrets of others' rooms that the user has links to
          None,        \* no key, no current session
          MaxCrashes   \* bound on crashes

ASSUME RegistryAssumption ==
  /\ Ids \cap Codes = {} /\ None \notin Ids \cup Codes
  /\ MaxCrashes \in Nat

VARIABLES
  up,       \* the process runs
  mem,      \* m_sessions, m_order, m_current, and whether the user has a name
  disk,     \* sessions.json (sessions, current), pair.key and log of each session
  node,     \* "off", "starting" (m_deliveryStarting) or "on" (m_nodeReady)
  joined,   \* topics joined on loam_core
  drawn,    \* ids drawn so far (history)
  made,     \* the user's rooms, with their secrets: created or joined, not deleted (history)
  odd,      \* rooms setSecret, or a crash in joinSession, left listed as untouched (history)
  crashes

vars == <<up, mem, disk, node, joined, drawn, made, odd, crashes>>

Keys == Ids \cup Codes
\* What a log has: our session.create, and anything else, by us (profile.set,
\* member.claim) or by others.
Kinds == {"create", "other"}

Slots == [key : Keys, fresh : BOOLEAN, subscribed : BOOLEAN, log : SUBSET Kinds]
NoSlot == [key |-> None, fresh |-> TRUE, subscribed |-> FALSE, log |-> {}]
Disk == [sessions : Seq([id : Ids, fresh : BOOLEAN]), current : Ids \cup {None},
         keys : [Ids -> Keys \cup {None}], logs : [Ids -> SUBSET Kinds], name : BOOLEAN]

\* What a handler works on: memory, disk and the joined topics.
World == [m |-> mem, d |-> disk, j |-> joined]

NoMemory == [slots |-> << >>, order |-> << >>, current |-> None, name |-> FALSE]
Held(m) == DOMAIN m.slots
Listed(d) == {d.sessions[i].id : i \in 1 .. Len(d.sessions)}

\* f with x mapped to v.
Put(f, x, v) == [y \in DOMAIN f \cup {x} |-> IF y = x THEN v ELSE f[y]]

-----------------------------------------------------------------------------
(* Single writes. *)

\* saveSessions.
Saved(w) ==
  [w EXCEPT !.d.sessions = [i \in 1 .. Len(w.m.order) |->
                              [id |-> w.m.order[i], fresh |-> w.m.slots[w.m.order[i]].fresh]],
            !.d.current = w.m.current]

\* applySecret: pair.key is written and, if the node is up, the topic joined unless
\* the slot is subscribed.  (Mutant: a slot used again stays subscribed.)
Keyed_subscribed(w, s, k) ==
  LET slot == IF s \in Held(w.m) THEN w.m.slots[s] ELSE NoSlot
  IN  [w EXCEPT !.m.slots = Put(@, s, [slot EXCEPT !.key = k, !.subscribed = @ \/ node = "on"]),
                !.d.keys[s] = k,
                !.j = IF node = "on" /\ ~slot.subscribed THEN @ \cup {k} ELSE @]
Keyed(w, s, k) ==
  LET slot == IF s \in Held(w.m) THEN w.m.slots[s] ELSE NoSlot
  IN  [w EXCEPT !.m.slots = Put(@, s, [slot EXCEPT !.key = k, !.subscribed = node = "on"]),
                !.d.keys[s] = k,
                !.j = IF node = "on" THEN @ \cup {k} ELSE @]

\* pushEvent, into the log or the outbox and its file.
Pushed(w, s, kind) ==
  [w EXCEPT !.m.slots[s].log = @ \cup {kind}, !.d.logs[s] = @ \cup {kind}]

\* emitProfileSet.
Announced(w, s) == IF w.m.name THEN Pushed(w, s, "other") ELSE w

-----------------------------------------------------------------------------
(* Handlers, as trails.  s is the id a new entry gets. *)

\* newSessionEntry.
NewEntry(w, s) ==
  LET a == Keyed([w EXCEPT !.m.order = Append(@, s), !.m.current = s], s, s)
  IN  <<a, Saved(a)>>

\* The slot createSession and joinSession use: the current one if it is the
\* untouched default.  (Mutant: if it is empty.)
Reusable_empty(slot) == slot.log = {}
Reusable(slot) == slot.fresh /\ slot.log = {}

Target(w, s) == IF Reusable(w.m.slots[w.m.current]) THEN w.m.current ELSE s
TargetTrail(w, s) == IF Target(w, s) = s THEN NewEntry(w, s) ELSE <<w>>

\* createSession.
Create(w, s) ==
  LET r == Target(w, s)
      t == TargetTrail(w, s)
      a == Pushed([Last(t) EXCEPT !.m.slots[r].fresh = FALSE], r, "create")
      b == Announced(a, r)
  IN  t \o <<a, b, Saved(b)>>

\* joinSession of a room held already, which becomes the current one, and of
\* another, both with an invite or without.  (Mutant of Holders: none is found.)
Claimed(w, s, invited) == IF invited THEN Pushed(w, s, "other") ELSE w

JoinHeld(w, r, invited) ==
  LET a == Claimed([w EXCEPT !.m.current = r], r, invited)
  IN  <<a, Saved(a)>>

JoinNew(w, s, code, invited) ==
  LET r == Target(w, s)
      t == TargetTrail(w, s)
      a == Keyed(Last(t), r, code)
      b == Announced([a EXCEPT !.m.slots[r].fresh = FALSE, !.m.current = r], r)
      c == Claimed(b, r, invited)
  IN  t \o <<a, b, c, Saved(c)>>

Holders_none(w, code) == {}
Holders(w, code) == {r \in Held(w.m) : w.m.slots[r].key = code}

Join(w, s, code, invited) ==
  IF Holders(w, code) # {}
  THEN JoinHeld(w, CHOOSE r \in Holders(w, code) : TRUE, invited)
  ELSE JoinNew(w, s, code, invited)

\* deleteSession.  (Mutant: the current session is not moved on.)
Forgotten_current(w, r) ==
  [w EXCEPT !.m.slots = [x \in Held(w.m) \ {r} |-> w.m.slots[x]],
            !.m.order = RemoveFirst(@, r)]
Forgotten(w, r) ==
  LET rest == RemoveFirst(w.m.order, r)
  IN  [w EXCEPT !.m.slots = [x \in Held(w.m) \ {r} |-> w.m.slots[x]],
                !.m.order = rest,
                !.m.current = IF @ = r /\ rest # << >> THEN Head(rest) ELSE @]

Delete(w, r, s) ==
  LET a == Forgotten(w, r)
      t == IF a.m.order = << >> THEN NewEntry(a, s) ELSE <<a>>
      b == [Last(t) EXCEPT !.d.keys[r] = None, !.d.logs[r] = {}]
  IN  t \o <<b, Saved(b)>>

Switch(w, r) == <<Saved([w EXCEPT !.m.current = r])>>

\* setSecret: the registry is not saved.
SetKey(w, code) ==
  <<[Keyed(w, w.m.current, code) EXCEPT !.m.slots[w.m.current].fresh = FALSE]>>

\* setName: the name is announced in every room; a crash leaves only some of them
\* announced.
Name(w, rooms) ==
  <<[w EXCEPT !.m.name = TRUE, !.d.name = TRUE,
              !.m.slots = [r \in Held(w.m) |-> IF r \in rooms THEN Pushed(w, r, "other").m.slots[r] ELSE @[r]],
              !.d.logs = [r \in Ids |-> IF r \in rooms THEN @[r] \cup {"other"} ELSE @[r]]]>>

\* loadSessions: what sessions.json lists and has a key; a default session if there
\* is none; the registry is saved.  (Mutant: fresh is not read back.)
Restored(d, m, e, fresh) ==
  IF e.id \in Held(m) \/ d.keys[e.id] = None THEN m
  ELSE [m EXCEPT !.order = Append(@, e.id),
                 !.slots = Put(@, e.id, [key |-> d.keys[e.id], fresh |-> fresh,
                                         subscribed |-> FALSE, log |-> d.logs[e.id]])]
Restore_fresh(d, m, e) == Restored(d, m, e, TRUE)
Restore(d, m, e) == Restored(d, m, e, e.fresh)

Loaded(d) ==
  LET m == FoldLeft(LAMBDA n, e : Restore(d, n, e), NoMemory, d.sessions)
  IN  [m EXCEPT !.name = d.name,
                !.current = IF d.current \in Held(m) THEN d.current
                            ELSE IF m.order = << >> THEN None ELSE Head(m.order)]

Load(s) ==
  LET w == [m |-> Loaded(disk), d |-> disk, j |-> {}]
      t == IF Held(w.m) = {} THEN NewEntry(w, s) ELSE <<w>>
  IN  Append(t, Saved(Last(t)))

-----------------------------------------------------------------------------
Init ==
  /\ up = FALSE /\ mem = NoMemory
  /\ disk = [sessions |-> << >>, current |-> None, keys |-> [s \in Ids |-> None],
             logs |-> [s \in Ids |-> {}], name |-> FALSE]
  /\ node = "off" /\ joined = {}
  /\ drawn = {} /\ made = << >> /\ odd = {} /\ crashes = 0

\* The ids newSessionId may draw, if one is needed: Ids bounds the sessions made.
NewId(needed) == IF needed THEN Ids \ drawn ELSE {None}

\* The handlers that need one.
CreateDraws == ~Reusable(mem.slots[mem.current])
JoinDraws(code) == Holders(World, code) = {} /\ CreateDraws
DeleteDraws(r) == Held(mem) = {r}
LoadDraws == Held(Loaded(disk)) = {}

\* A handler with trail t gets through.
Through(t) ==
  /\ mem' = Last(t).m /\ disk' = Last(t).d /\ joined' = Last(t).j
  /\ drawn' = drawn \cup {s \in Ids : Last(t).d.keys[s] # None}
  /\ UNCHANGED <<node, crashes>>

\* Of the rooms with a joined secret, those the disk lists as untouched.
ListedFresh(d) ==
  {s \in Ids : d.keys[s] \in Codes /\ \E i \in 1 .. Len(d.sessions) : d.sessions[i] = [id |-> s, fresh |-> TRUE]}

\* The process dies in it, before or after a write; `going' was being deleted.
Dies(t, going) ==
  /\ crashes < MaxCrashes /\ crashes' = crashes + 1
  /\ \E d \in {disk} \cup {t[k].d : k \in 1 .. Len(t)} :
       /\ disk' = d
       /\ drawn' = drawn \cup {s \in Ids : d.keys[s] # None}
       /\ odd' = odd \cup ListedFresh(d)
  /\ made' = [r \in DOMAIN made \ going |-> made[r]]
  /\ up' = FALSE /\ mem' = NoMemory /\ node' = "off" /\ joined' = {}

Handle(t) == Through(t) /\ UNCHANGED up

Start ==
  /\ ~up /\ up' = TRUE
  /\ \E s \in NewId(LoadDraws) : Through(Load(s))
  /\ UNCHANGED <<made, odd>>

CreateSession ==
  /\ up
  /\ \E s \in NewId(CreateDraws) :
       /\ Handle(Create(World, s))
       /\ made' = Put(made, Target(World, s), Target(World, s))
  /\ UNCHANGED odd

JoinSession(code, invited) ==
  /\ up
  /\ \E s \in NewId(JoinDraws(code)) : Handle(Join(World, s, code, invited))
  /\ made' = Put(made, mem'.current, code)
  /\ UNCHANGED odd

DeleteSession(r) ==
  /\ up /\ r \in Held(mem)
  /\ \E s \in NewId(DeleteDraws(r)) : Handle(Delete(World, r, s))
  /\ made' = [x \in DOMAIN made \ {r} |-> made[x]]
  /\ UNCHANGED odd

SwitchSession(r) ==
  /\ up /\ r \in Held(mem)
  /\ Handle(Switch(World, r))
  /\ UNCHANGED <<made, odd>>

SetSecret(code) ==
  /\ up
  /\ Handle(SetKey(World, code))
  /\ made' = [x \in DOMAIN made \ {mem.current} |-> made[x]]
  /\ odd' = odd \cup {mem.current}

SetName ==
  /\ up /\ ~mem.name
  /\ Handle(Name(World, Held(mem)))
  /\ UNCHANGED <<made, odd>>

\* ingestPayload: an event of somebody else.
Receive(r) ==
  /\ up /\ r \in Held(mem) /\ mem.slots[r].key \in joined
  /\ Handle(<<Pushed(World, r, "other")>>)
  /\ UNCHANGED <<made, odd>>

\* bootstrapDelivery, and loam_core's "Connected": every room joins its topic.
Bootstrap ==
  /\ up /\ node = "off" /\ node' = "starting"
  /\ UNCHANGED <<up, mem, disk, joined, drawn, made, odd, crashes>>

Connected ==
  /\ up /\ node = "starting" /\ node' = "on"
  /\ mem' = [mem EXCEPT !.slots = [r \in Held(mem) |-> [@[r] EXCEPT !.subscribed = TRUE]]]
  /\ joined' = joined \cup {mem.slots[r].key : r \in Held(mem)}
  /\ UNCHANGED <<up, disk, drawn, made, odd, crashes>>

Crash == up /\ Dies(<<World>>, {})

CrashIn ==
  \/ up /\ \E s \in NewId(CreateDraws) : Dies(Create(World, s), {})
  \/ up /\ \E code \in Codes, invited \in BOOLEAN :
             \E s \in NewId(JoinDraws(code)) : Dies(Join(World, s, code, invited), {})
  \/ up /\ \E r \in Held(mem) : \E s \in NewId(DeleteDraws(r)) : Dies(Delete(World, r, s), {r})
  \/ up /\ ~mem.name /\ \E rooms \in SUBSET Held(mem) : Dies(Name(World, rooms), {})
  \/ ~up /\ \E s \in NewId(LoadDraws) : Dies(Load(s), {})

Next ==
  \/ Start \/ CreateSession \/ SetName \/ Bootstrap \/ Connected
  \/ \E code \in Codes : SetSecret(code) \/ \E invited \in BOOLEAN : JoinSession(code, invited)
  \/ \E r \in Held(mem) : DeleteSession(r) \/ SwitchSession(r) \/ Receive(r)
  \/ Crash \/ CrashIn

Spec == Init /\ [][Next]_vars

-----------------------------------------------------------------------------
TypeOK ==
  /\ up \in BOOLEAN /\ node \in {"off", "starting", "on"} /\ joined \in SUBSET Keys
  /\ Held(mem) \subseteq Ids /\ mem.slots \in [Held(mem) -> Slots]
  /\ mem.order \in Seq(Ids) /\ Range(mem.order) = Held(mem) /\ Len(mem.order) = Cardinality(Held(mem))
  /\ mem.current \in (IF up THEN Held(mem) ELSE {None}) /\ mem.name \in BOOLEAN
  /\ disk \in Disk
  /\ drawn \in SUBSET Ids /\ odd \in SUBSET Ids /\ crashes \in 0 .. MaxCrashes
  /\ DOMAIN made \subseteq Ids /\ \A r \in DOMAIN made : made[r] \in Keys

\* A room the user made or joined stays listed with its secret until it is deleted,
\* and one of their own has its session.create, whatever else is created, joined
\* or deleted and wherever the process dies (createSession's comment).
RoomsAreKept ==
  \A r \in DOMAIN made \ odd :
    /\ r \in Listed(disk) /\ disk.keys[r] = made[r]
    /\ made[r] = r => "create" \in disk.logs[r]

\* Our session.create is never written into somebody else's room, not by way of a
\* slot that was the untouched default before a restart (createSession's comment).
CreatesOnlyOwn ==
  \A r \in Ids \ odd : "create" \in disk.logs[r] => disk.keys[r] = r

\* No two sessions hold one room: what arrives on a topic has one place to go
\* (joinSession, sessionForTopic).
OneRoomPerKey ==
  \A r, s \in Held(mem) \ odd : mem.slots[r].key = mem.slots[s].key => r = s

\* Once the node is up every room has its topic joined, the ones made since, and
\* those in a slot that was joined under another secret, included.
EveryRoomListens ==
  up /\ node = "on" => \A r \in Held(mem) : mem.slots[r].key \in joined
=============================================================================
