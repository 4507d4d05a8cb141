----------------------------- MODULE MCModeration -----------------------------
(* Moderation with an owner, two members and two tickets, in four kinds of room: where
   tickets are given out and redeemed, and where a board is written, each with rooms
   bound to the device keys and rooms where events wait to be signed; and one where a
   member who came by a ticket moderates.  The members may be exchanged for each other,
   and so may the tickets. *)
EXTENDS Moderation, TLC

CONSTANTS owner, m, n, t, u

Room(who, ops, slow) == [who |-> who, ops |-> ops, slow |-> slow]
TicketOps == {"member.invite", "member.claim", "admin.remove"}
BoardOps == {"admin.add", "admin.remove", "session.config", "add", "edit", "delete", "flag", "vote"}
FewOps == {"admin.add", "admin.remove", "add", "edit", "delete"}

TicketRooms ==
  {Room({owner, m, n}, TicketOps, {})} \cup {Room({owner, x}, TicketOps, {owner, x}) : x \in {m, n}}
BoardRooms ==
  {Room({owner, x}, BoardOps, {}) : x \in {m, n}} \cup {Room({owner, x}, FewOps, {x}) : x \in {m, n}}
TicketAndBoardRooms == TicketRooms \cup BoardRooms

StreamRooms ==
  {Room({owner, x}, {"member.invite", "member.claim", "add", "flag"}, {}) : x \in {m, n}}

Names == Permutations({m, n}) \cup Permutations({t, u})
=============================================================================
