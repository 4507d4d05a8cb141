------------------------------ MODULE Moderation ------------------------------
(***************************************************************************)
(* The devices of one room: each writes events, under the guard of          *)
(* qaku_core's mutators, from what its own log folds to at that moment, and *)
(* receives the others' events in any order (RoomSync shows that they       *)
(* arrive).  `order' has every event of the room in the order of its stamp: *)
(* a new one sorts after what its author wrote and what it has in its log   *)
(* (Hlc says how far that holds) and anywhere among what it has not.  A     *)
(* device whose room is not bound to the device key writes into its outbox: *)
(* the event is in no log, and shows nowhere, until the room is bound or    *)
(* Loam has signed it (LoamOutbox), and has the stamp of when it was        *)
(* written.                                                                 *)
(***************************************************************************)
EXTENDS Engine

CONSTANTS Founder,   \* the device that created the session
          Rooms,     \* the rooms looked at: who is in them, and what they do there
          MaxEvents  \* bound on the events of the room

ASSUME ModerationAssumption ==
  /\ Rooms \subseteq [who : SUBSET Devices, ops : SUBSET Types, slow : SUBSET Devices]
  /\ Founder \in Devices /\ MaxEvents \in Nat \ {0}

VARIABLES
  room,     \* one of Rooms
  order,    \* every event of the room, by stamp
  mode,     \* mode[d]: the key of d's room, "device" or "loam"; "" while it is not
            \* decided, or Loam's address for the room not known
  waiting,  \* waiting[d]: the ids of the events in d's outbox
  log,      \* log[d]: the ids of the events in d's log
  fold      \* fold[d]: what d's log folds to

vars == <<room, order, mode, waiting, log, fold>>

Admins(d) == fold[d].roles.admins
Pending(d) == fold[d].roles.invites
Knows(d) == fold[d].roles.owner # NoDevice

\* adminGuard: everyone passes while the session.create is not known, and nobody
\* who has no address in the room does once it is.
AdminGuard(d) == Knows(d) => d \in Admins(d) /\ mode[d] # ""

-----------------------------------------------------------------------------
Event(d, type, on, val) ==
  [id |-> Len(order) + 1, dev |-> d, type |-> type, on |-> on, val |-> val]

Init ==
  /\ room \in Rooms
  /\ order = <<[id |-> 1, dev |-> Founder, type |-> "session.create",
                on |-> NoDevice, val |-> TRUE]>>
  /\ mode = [d \in Devices |-> IF d \in room.slow THEN "" ELSE "device"]
  /\ waiting = [d \in Devices |-> IF d = Founder /\ mode[d] = "" THEN <<1>> ELSE << >>]
  /\ log = [d \in Devices |-> IF d = Founder /\ mode[d] # "" THEN {1} ELSE {}]
  /\ fold = [d \in Devices |-> Fold(order, log[d], "its own")]

\* Events of the new order enter d's log, which is folded anew (foldOf).
Enter(d, ids) ==
  /\ log' = [log EXCEPT ![d] = @ \cup ids]
  /\ fold' = [fold EXCEPT ![d] = Fold(order', log'[d], "its own")]

\* pushEvent of an own event: committed, or into the outbox.
PushEvent(d, id) ==
  \/ /\ mode[d] = "device" /\ waiting[d] = << >>
     /\ Enter(d, {id})
     /\ UNCHANGED waiting
  \/ /\ ~(mode[d] = "device" /\ waiting[d] = << >>)
     /\ waiting' = [waiting EXCEPT ![d] = Append(@, id)]
     /\ UNCHANGED <<log, fold>>

\* mkEvent and pushEvent.
Write(d, type, on, val) ==
  /\ type \in room.ops
  /\ Len(order) < MaxEvents
  /\ \E k \in 1 .. Len(order) + 1 :
       /\ \A i \in DOMAIN order : order[i].id \in log[d] \cup ToSet(waiting[d]) => i < k
       /\ order' = InsertAt(order, k, Event(d, type, on, val))
  /\ PushEvent(d, Len(order) + 1)
  /\ UNCHANGED <<room, mode>>

\* overlayPayload: what d has to show on its stream overlay, if it is picked.
Page(d) ==
  LET b == Fold(order, log[d], "").board
  IN {q \in Questions : Shown(b, q) /\ ~b.items[q].flag}

Unused(x) == \A i \in DOMAIN order : order[i].on # x
Sees(d, i) == Shown(fold[d].board, i)

SetConfig(d) == AdminGuard(d) /\ \E b \in BOOLEAN : Write(d, "session.config", NoDevice, b)
AddAdmin(d) == AdminGuard(d) /\ \E m \in Devices \ Admins(d) : Write(d, "admin.add", m, TRUE)
RemoveAdmin(d) == AdminGuard(d) /\ \E m \in Admins(d) : Write(d, "admin.remove", m, TRUE)
CreateInvite(d) ==
  AdminGuard(d) /\ \E t \in Tickets : Unused(t) /\ Write(d, "member.invite", t, TRUE)
RevokeInvite(d) == AdminGuard(d) /\ \E t \in Pending(d) : Write(d, "member.invite", t, FALSE)

\* joinSession with an invite link, which exists once its ticket is written.
RedeemInvite(d) ==
  \E t \in Tickets : ~Unused(t) /\ Write(d, "member.claim", t, TRUE)

AddQuestion(d) == \E q \in Questions : Unused(q) /\ Write(d, "add", q, FALSE)
EditQuestion(d) == \E q \in Questions : Sees(d, q) /\ Write(d, "edit", q, TRUE)
DeleteQuestion(d) == \E q \in Questions : Sees(d, q) /\ Write(d, "delete", q, TRUE)
PostAnswer(d) ==
  /\ AdminGuard(d)
  /\ \E a \in Answers : Unused(a) /\ Sees(d, a[1]) /\ Write(d, "add", a, FALSE)
CreatePoll(d) ==
  AdminGuard(d) /\ \E p \in Polls, b \in BOOLEAN : Unused(p) /\ Write(d, "add", p, b)
DeletePoll(d) == AdminGuard(d) /\ \E p \in Polls : Sees(d, p) /\ Write(d, "delete", p, TRUE)

\* moderate, acceptAnswer, setPollActive
SetFlag(d) ==
  AdminGuard(d) /\ \E i \in Items, b \in BOOLEAN : Sees(d, i) /\ Write(d, "flag", i, b)

\* upvoteQuestion, upvoteAnswer, votePoll
CastVote(d) == \E i \in Items, b \in BOOLEAN : Sees(d, i) /\ Write(d, "vote", i, b)

\* pumpIdentity of a room with events in its outbox: it is bound to the device key,
\* which signs them all; or to Loam, once that has told its address for the room;
\* and then Loam signs them one at a time.
BindDevice(d) ==
  /\ mode[d] = "" /\ waiting[d] # << >>
  /\ mode' = [mode EXCEPT ![d] = "device"]
  /\ waiting' = [waiting EXCEPT ![d] = << >>]
  /\ UNCHANGED <<room, order>>
  /\ Enter(d, ToSet(waiting[d]))

BindLoam(d) ==
  /\ mode[d] = "" /\ waiting[d] # << >>
  /\ mode' = [mode EXCEPT ![d] = "loam"]
  /\ UNCHANGED <<room, order, waiting, log, fold>>

SignAnswered(d) ==
  /\ mode[d] = "loam" /\ waiting[d] # << >>
  /\ waiting' = [waiting EXCEPT ![d] = Tail(@)]
  /\ UNCHANGED <<room, order, mode>>
  /\ Enter(d, {Head(waiting[d])})

\* What its author has committed, and so sent, arrives.
Receive(d) ==
  \E i \in DOMAIN order :
    /\ order[i].id \in log[order[i].dev] \ log[d]
    /\ UNCHANGED <<room, order, mode, waiting>>
    /\ Enter(d, {order[i].id})

Next == \E d \in room.who :
  \/ SetConfig(d) \/ AddAdmin(d) \/ RemoveAdmin(d)
  \/ CreateInvite(d) \/ RevokeInvite(d) \/ RedeemInvite(d)
  \/ AddQuestion(d) \/ EditQuestion(d) \/ DeleteQuestion(d)
  \/ PostAnswer(d) \/ CreatePoll(d) \/ DeletePoll(d) \/ SetFlag(d) \/ CastVote(d)
  \/ BindDevice(d) \/ BindLoam(d) \/ SignAnswered(d) \/ Receive(d)

Spec == Init /\ [][Next]_vars

-----------------------------------------------------------------------------
\* Whatever was written by devices that did not know the session yet, no device takes anybody
\* but the owner for an admin unless the owner let somebody in (admitEvents).
Grants == {"admin.add", "member.invite"}
AdminsComeFromOwner ==
  (\A i \in DOMAIN order : order[i].type \in Grants => order[i].dev # Founder)
    => \A d \in Devices : Admins(d) \subseteq {Founder}

\* A ticket makes at most one admin in any log, and is not pending any more.
ClaimsOf(d, t) ==
  {i \in DOMAIN order : /\ order[i].type = "member.claim" /\ order[i].on = t
                        /\ order[i].id \in fold[d].roles.effective}
TicketOnce ==
  \A d \in Devices, t \in Tickets :
    /\ Cardinality(ClaimsOf(d, t)) <= 1
    /\ ClaimsOf(d, t) # {} => t \notin Pending(d)

\* A device loses the role it has in somebody's view only if an admin.remove, a
\* revocation or a second claim of a ticket is in that log: events that merely
\* arrive late and sort earlier take no role away.
MayCost(e, f) ==
  \/ e.type = "admin.remove"
  \/ e.type = "member.invite" /\ ~e.val
  \/ e.type = "member.claim" /\ f.type = "member.claim" /\ e.on = f.on /\ e.id # f.id
RolesAreKept ==
  [][\A d \in Devices :
       \/ Admins(d) \subseteq Admins(d)'
       \/ \E i, j \in DOMAIN order' :
             /\ {order'[i].id, order'[j].id} \subseteq log'[d]
             /\ MayCost(order'[i], order'[j])]_vars

\* Whenever it entered the log, at once or signed late, and whatever entered before or
\* after it: what is said last of a device, of a ticket or of the title stands, if who
\* said it was entitled to at its place in the log (for the title, at the end).
Before(i) ==
  {order[j].id : j \in {k \in DOMAIN order : k < i \/ order[k].type = "session.create"}}
At(d, i) == Roles(order, Before(i) \cap log[d], "its own")
Entitled(d, i) ==
  LET e == order[i] IN
  CASE e.type \in {"admin.add", "admin.remove"} -> e.dev \in At(d, i).admins
    [] e.type = "member.invite" -> e.dev \in At(d, i).admins /\ e.on \notin At(d, i).claimed
    [] e.type = "member.claim" -> e.on \in At(d, i).invites
    [] e.type = "session.config" -> e.dev \in Admins(d)
    [] OTHER -> FALSE

\* Event f has a say on what e was about.
Overrides(f, e) ==
  CASE e.type \in {"admin.add", "member.invite"} -> f.on = e.on
    [] e.type = "admin.remove" -> f.on = e.on \/ (f.type = "member.claim" /\ f.dev = e.on)
    [] e.type = "member.claim" -> f.on = e.dev
    [] OTHER -> f.type \in {"session.create", "session.config"}
Stands(view, e) ==
  LET r == view.roles IN
  CASE e.type = "admin.add" -> e.on \in r.admins
    [] e.type = "admin.remove" -> (e.on \in r.admins <=> e.on = r.owner)
    [] e.type = "member.invite" -> (e.on \in r.invites <=> e.val)
    [] e.type = "member.claim" -> e.dev \in r.admins
    [] OTHER -> view.board.title = e.val
LastWordStands ==
  \A d \in Devices, i \in DOMAIN order :
    (/\ order[i].id \in log[d]
     /\ \A j \in DOMAIN order :
          i < j /\ order[j].id \in log[d] => ~Overrides(order[j], order[i])
     /\ Entitled(d, i))
      => Stands(fold[d], order[i])

\* A question its author deleted is shown by nobody who knows of the delete, on the
\* board or on the stream, whatever else has arrived or will.
AuthorsDeleteIsTerminal ==
  \A d \in Devices, i \in DOMAIN order :
    (/\ order[i].type = "delete" /\ order[i].id \in log[d]
     /\ order[i].on \in Questions /\ Creator(order, 1 .. Len(order), order[i].on) = order[i].dev)
      => ~Sees(d, order[i].on) /\ order[i].on \notin Page(d)

\* A question that is hidden on the board is not on the stream overlay.
HiddenStaysHidden ==
  \A d \in Devices, q \in Questions :
    Sees(d, q) /\ fold[d].board.items[q].flag => q \notin Page(d)

\* The board has the last write of everything that counts: the last edit, the
\* last flag, each voter's last vote (on a poll, the last one cast while it was
\* active), and a delete whenever there is one.
Counting(d) ==
  {k \in DOMAIN order :
     order[k].id \in log[d] /\ Admits(order, log[d], fold[d].roles, order[k])}
ActiveAt(A, p, j) ==
  LET said == {k \in A : k <= j /\ order[k].on = p /\ order[k].type \in {"add", "flag"}}
  IN (\E k \in said : order[k].type = "add") /\ order[Max(said)].val
BoardIsLastWrites ==
  \A d \in Devices :
    LET A == Counting(d)
        b == fold[d].board
        On(i, types) == {k \in A : order[k].on = i /\ order[k].type \in types}
    IN /\ \A i \in DOMAIN b.items :
            /\ b.items[i].content = order[Max(On(i, {"add", "edit"}))].id
            /\ b.items[i].flag = order[Max(On(i, {"add", "flag"}))].val
            /\ b.items[i].deleted <=> On(i, {"delete"}) # {}
       /\ \A i \in Items, v \in Devices :
            LET cast == {k \in On(i, {"vote"}) :
                           order[k].dev = v /\ (i \in Polls => ActiveAt(A, i, k))}
            IN IF cast = {} THEN v \notin DOMAIN b.votes[i]
               ELSE b.votes[i][v] = order[Max(cast)].val
=============================================================================
