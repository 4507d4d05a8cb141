-------------------------------- MODULE Engine --------------------------------
(***************************************************************************)
(* The fold that every replica of a room applies to its log: admitEvents    *)
(* decides who is owner and admin and which events count, computeState      *)
(* turns what counts into the board that is shown.  A log is given as L, a  *)
(* sequence of events in the order of their stamps (mergeEvents), and ids,  *)
(* those of them that it holds.                                             *)
(*                                                                          *)
(* Questions, answers and polls are items.  What is said of any of them is  *)
(* one of five events: "add" is question.add, answer.post, poll.create;     *)
(* "edit" and "delete" are question.edit and the *.delete events; "flag" is *)
(* moderate (hidden), answer.accept (accepted) and poll.setActive (active); *)
(* "vote" is upvote and poll.vote.  An event's number, id, also stands for  *)
(* the text it brings.  profile.set, a register per author like upvote, is  *)
(* left out.  Every event is taken as signed by its author, and every claim  *)
(* as made for this room; but a caller may fold the log without naming the  *)
(* room, and no claim verifies then.                                        *)
(***************************************************************************)
EXTENDS Naturals, FiniteSets, Sequences, SequencesExt

CONSTANTS Devices,    \* authors
          NoDevice,   \* the owner of a room whose session.create is not known
          Questions,  \* ids of questions
          Polls,      \* ids of polls
          Tickets     \* addresses of ticket keys

ASSUME NoDeviceAssumption == NoDevice \notin Devices \cup BOOLEAN

Answers == Questions \X {1}      \* ids of answers: an answer belongs to one question
Items == Questions \cup Answers \cup Polls

Types == {"session.create", "session.config", "admin.add", "admin.remove",
          "member.invite", "member.claim", "add", "edit", "delete", "flag", "vote"}

\* An event: `on' is the device, ticket or item it is about, `val' its boolean:
\* the title, role = "admin" (not "revoke"), hidden, accepted, active, up, or one
\* of the two options of a poll.
Events == [id : Nat, dev : Devices, type : Types,
           on : Devices \cup Tickets \cup Items \cup {NoDevice}, val : BOOLEAN]

-----------------------------------------------------------------------------
(* Roles *)

\* The author of the earliest of the events at the given places.
FirstBy(L, places) == IF places = {} THEN NoDevice ELSE L[Min(places)].dev

Owner(L, ids) ==
  FirstBy(L, {i \in DOMAIN L : L[i].id \in ids /\ L[i].type = "session.create"})

NoRoles(owner) ==
  [owner |-> owner, admins |-> {owner} \ {NoDevice}, invites |-> {},
   claimed |-> {}, effective |-> {}]

Offer(r, e) ==
  [r EXCEPT !.invites = IF e.val THEN @ \cup {e.on} ELSE @ \ {e.on},
            !.effective = @ \cup {e.id}]
Redeem(r, e) ==
  [r EXCEPT !.admins = @ \cup {e.dev}, !.invites = @ \ {e.on},
            !.claimed = @ \cup {e.on}, !.effective = @ \cup {e.id}]
MayRedeem(roomId, r, e) ==
  e.type = "member.claim" /\ e.dev # r.owner /\ e.on \in r.invites /\ roomId # ""

\* roomId: "its own", or "" from a caller that names no room.
\* (Mutants: anyone may offer a ticket; a redeemed ticket stays open; a new
\* ticket takes the place of those that are pending.)
TicketStep_ungated(roomId, r, e) ==
  IF e.on \in r.claimed THEN r
  ELSE CASE e.type = "member.invite" -> Offer(r, e)
         [] MayRedeem(roomId, r, e) -> Redeem(r, e)
         [] OTHER -> r
TicketStep_reusable(roomId, r, e) ==
  CASE e.type = "member.invite" /\ e.dev \in r.admins -> Offer(r, e)
    [] MayRedeem(roomId, r, e) -> [Redeem(r, e) EXCEPT !.invites = r.invites]
    [] OTHER -> r
TicketStep_single(roomId, r, e) ==
  IF e.on \in r.claimed THEN r
  ELSE CASE e.type = "member.invite" /\ e.dev \in r.admins ->
              [Offer(r, e) EXCEPT !.invites = IF e.val THEN {e.on} ELSE {}]
         [] MayRedeem(roomId, r, e) -> Redeem(r, e)
         [] OTHER -> r

\* member.invite and member.claim; `effective' has those that did something.
TicketStep(roomId, r, e) ==
  IF e.on \in r.claimed THEN r
  ELSE CASE e.type = "member.invite" /\ e.dev \in r.admins -> Offer(r, e)
         [] MayRedeem(roomId, r, e) -> Redeem(r, e)
         [] OTHER -> r

\* (Mutant: the owner is removed like anybody else.)
MemberStep_owner(r, e) ==
  IF e.dev \notin r.admins THEN r
  ELSE CASE e.type = "admin.add" -> [r EXCEPT !.admins = @ \cup {e.on}]
         [] e.type = "admin.remove" -> [r EXCEPT !.admins = @ \ {e.on}]
         [] OTHER -> r

\* admin.add and admin.remove, by whoever is an admin at that place in the order.
MemberStep(r, e) ==
  IF e.dev \notin r.admins THEN r
  ELSE CASE e.type = "admin.add" -> [r EXCEPT !.admins = @ \cup {e.on}]
         [] e.type = "admin.remove" /\ e.on # r.owner -> [r EXCEPT !.admins = @ \ {e.on}]
         [] OTHER -> r

RoleStep(roomId, r, e) ==
  IF e.type \in {"member.invite", "member.claim"} THEN TicketStep(roomId, r, e)
  ELSE MemberStep(r, e)

Roles(L, ids, roomId) ==
  FoldLeft(LAMBDA r, e : IF e.id \in ids THEN RoleStep(roomId, r, e) ELSE r,
           NoRoles(Owner(L, ids)), L)

-----------------------------------------------------------------------------
(* Admission *)

\* The first writer of an item; NoDevice when its "add" is not in the log.
Creator(L, ids, x) ==
  FirstBy(L, {i \in DOMAIN L : L[i].id \in ids /\ L[i].type = "add" /\ L[i].on = x})

ParticipantEvent(e) == e.type = "vote" \/ (e.type = "add" /\ e.on \in Questions)
OwnQuestion(L, ids, e) ==
  e.type \in {"edit", "delete"} /\ e.on \in Questions /\ Creator(L, ids, e.on) = e.dev

\* (Mutant: a question is deleted by admins only.)
Admits_admins(L, ids, r, e) ==
  \/ r.owner = NoDevice
  \/ e.type = "session.create"
  \/ ParticipantEvent(e)
  \/ e.type \in {"member.invite", "member.claim"} /\ e.id \in r.effective
  \/ e.type \notin {"member.invite", "member.claim"} /\ e.dev \in r.admins

\* What counts, given the roles at the END of the log.
Admits(L, ids, r, e) ==
  \/ r.owner = NoDevice
  \/ e.type = "session.create"
  \/ ParticipantEvent(e)
  \/ OwnQuestion(L, ids, e)
  \/ e.type \in {"member.invite", "member.claim"} /\ e.id \in r.effective
  \/ e.type \notin {"member.invite", "member.claim"} /\ e.dev \in r.admins

-----------------------------------------------------------------------------
(* The board *)

\* title: a field of session.config, the first (TRUE) or another; NoDevice until
\* the session exists.  items: the items added so far.
\* accepted[q]: the answer accepted for q.  votes[i]: the votes of each voter.
EmptyBoard ==
  [title |-> NoDevice, items |-> << >>,
   accepted |-> [q \in Questions |-> NoDevice], votes |-> [i \in Items |-> << >>]]

Has(b, i) == i \in DOMAIN b.items

\* The projection at the end of computeState: live questions, answers and polls.
Shown(b, i) == Has(b, i) /\ ~b.items[i].deleted
With(f, x, y) == [z \in DOMAIN f \cup {x} |-> IF z = x THEN y ELSE f[z]]

\* answer.accept sets the answer's flag, and the question's answer.
Accept(b, e) ==
  LET q == e.on[1]
      marked == IF Has(b, e.on) THEN [b EXCEPT !.items[e.on].flag = e.val] ELSE b
  IN IF ~Has(b, q) THEN marked
     ELSE [marked EXCEPT !.accepted[q] =
             CASE e.val -> e.on [] ~e.val /\ @ = e.on -> NoDevice [] OTHER -> @]

\* foldUpvotes: the last vote of an author stands, whatever voter it names.
Cast(b, e) == [b EXCEPT !.votes[e.on] = With(@, e.dev, e.val)]

\* (Mutants: a vote on a poll always counts; the first vote of a voter stands.)
Vote_closed(b, e) == Cast(b, e)
Vote_first(b, e) ==
  IF e.dev \in DOMAIN b.votes[e.on] \/ (e.on \in Polls /\ ~(Has(b, e.on) /\ b.items[e.on].flag))
  THEN b ELSE Cast(b, e)

\* A vote on a poll counts while the poll is active; an upvote always counts.
Vote(b, e) ==
  IF e.on \in Polls /\ ~(Has(b, e.on) /\ b.items[e.on].flag) THEN b ELSE Cast(b, e)

BoardStep(b, e) ==
  CASE e.type = "session.create" ->
         IF b.title = NoDevice THEN [b EXCEPT !.title = TRUE] ELSE b
    [] e.type = "session.config" ->
         IF b.title = NoDevice THEN b ELSE [b EXCEPT !.title = e.val]
    [] e.type = "add" /\ ~Has(b, e.on) ->
         [b EXCEPT !.items = With(@, e.on, [content |-> e.id, author |-> e.dev,
                                            flag |-> e.val, deleted |-> FALSE])]
    [] e.type = "edit" /\ Has(b, e.on) -> [b EXCEPT !.items[e.on].content = e.id]
    [] e.type = "delete" /\ Has(b, e.on) -> [b EXCEPT !.items[e.on].deleted = TRUE]
    [] e.type = "flag" /\ e.on \in Answers -> Accept(b, e)
    [] e.type = "flag" /\ e.on \notin Answers /\ Has(b, e.on) ->
         [b EXCEPT !.items[e.on].flag = e.val]
    [] e.type = "vote" -> Vote(b, e)
    [] OTHER -> b

\* computeState
Board(L, ids, r) ==
  FoldLeft(LAMBDA b, e : IF e.id \in ids /\ Admits(L, ids, r, e) THEN BoardStep(b, e) ELSE b,
           EmptyBoard, L)

Fold(L, ids, roomId) ==
  LET r == Roles(L, ids, roomId) IN [roles |-> r, board |-> Board(L, ids, r)]
=============================================================================
