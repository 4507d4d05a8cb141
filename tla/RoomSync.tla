------------------------------- MODULE RoomSync -------------------------------
(***************************************************************************)
(* The peers of one room, as qaku_core keeps their logs in step: an event   *)
(* is broadcast once when it is written (commitOwn), and whatever a peer    *)
(* missed is recovered by the catch-up protocol, Catchup.                   *)
(*                                                                          *)
(* The transport may lose, delay, reorder and duplicate every frame.  A     *)
(* peer may crash between two handlers, or inside commitOwn; what it had    *)
(* received but not yet flushed is then gone.  The start of a peer's node may fail.  Peers of an *)
(* older build, which are not modelled, ask for a whole log (SYNC_REQ).     *)
(***************************************************************************)
EXTENDS Catchup

CONSTANTS AuthorOf,    \* AuthorOf[e]: the peer that may write event e
          MaxCrashes,  \* bound on the number of crashes in a behaviour
          Capacity     \* bound on the frames in flight to one peer

ASSUME RoomSyncAssumption ==
  /\ {MaxCrashes, Capacity} \subseteq Nat
  /\ AuthorOf \in [Ids -> Peers]

VARIABLES
  authored,  \* every event some peer has committed (history)
  log,       \* log[p]: s.log / s.ids, in memory
  disk,      \* disk[p]: <dir>/log.json
  queued,    \* queued[p]: m_unpublished, mirrored in unpublished.json
  node,      \* node[p]: m_deliveryStarting, m_nodeReady, and how the start went
  inbox,     \* inbox[p]: the frames on their way to p
  crashes    \* crashes so far (bounded by MaxCrashes)

vars == <<authored, log, disk, queued, node, inbox, crashes>>

\* "failed" looks like "starting" to the code: m_deliveryStarting and not m_nodeReady.
NodeStates == {"off", "starting", "failed", "on"}

\* m_nodeReady, and the room's topic is joined.
Ready(p) == node[p] = "on"

-----------------------------------------------------------------------------
\* A burst of frames that would overfill a box displaces what was in it: the
\* transport may lose any frame, and Lose covers the other choices.
Deliver(box, frames) ==
  IF Cardinality(box \cup frames) <= Capacity THEN box \cup frames ELSE frames

\* The frames of `boxes` once p has published `frames`: every other peer that is
\* on the topic may get them.  deliverySend drops them when p is not ready.
Broadcast(boxes, p, frames) ==
  [q \in Peers |-> IF q # p /\ Ready(p) /\ Ready(q) THEN Deliver(boxes[q], frames) ELSE boxes[q]]

\* sealAndSend: an event handed to the node is no longer queued.  (Mutant: the
\* mark stays.)
Sent_kept(marks, ids) == marks
Sent(marks, ids) == marks \ ids

\* What a round publishes.
Round(p) == BuildInitial(p, log[p])

-----------------------------------------------------------------------------
Init ==
  /\ authored = {}
  /\ log = [p \in Peers |-> {}]
  /\ disk = [p \in Peers |-> {}]
  /\ queued = [p \in Peers |-> {}]
  /\ node = [p \in Peers |-> "off"]
  /\ inbox = [p \in Peers |-> {}]
  /\ crashes = 0

\* commitOwn: append, save the whole log, mark queued, then seal and send; the
\* send clears the mark again when the node is ready.
CommitOwn(p, e) ==
  /\ AuthorOf[e] = p
  /\ e \notin authored
  /\ authored' = authored \cup {e}
  /\ log' = [log EXCEPT ![p] = @ \cup {e}]
  /\ disk' = [disk EXCEPT ![p] = log[p] \cup {e}]
  /\ queued' = [queued EXCEPT ![p] = IF Ready(p) THEN Sent(@ \cup {e}, {e}) ELSE @ \cup {e}]
  /\ inbox' = Broadcast(inbox, p, EventFrames({e}))
  /\ UNCHANGED <<node, crashes>>

\* bootstrapDelivery, a second after the start: once, for nothing clears
\* m_deliveryStarting.  (The timer of a hub calls it again, and it returns.)
Bootstrap(p) ==
  /\ node[p] = "off"
  /\ node' = [node EXCEPT ![p] = "starting"]
  /\ UNCHANGED <<authored, log, disk, queued, inbox, crashes>>

\* loam_core.start answers with an error, which is logged.
StartFails(p) ==
  /\ node[p] = "starting"
  /\ node' = [node EXCEPT ![p] = "failed"]
  /\ UNCHANGED <<authored, log, disk, queued, inbox, crashes>>

\* onStatusChanged("Connected"): the topic is joined and one round is published.
\* (The other peers' frames reach p from now on.)
Connected(p) ==
  /\ node[p] = "starting"
  /\ node' = [node EXCEPT ![p] = "on"]
  /\ inbox' = [q \in Peers |-> IF q # p /\ Ready(q)
                               THEN Deliver(inbox[q], {Round(p)}) ELSE inbox[q]]
  /\ UNCHANGED <<authored, log, disk, queued, crashes>>

\* The 15 s timer: a catch-up round, when the node is ready.
CatchupRound(p) ==
  /\ Ready(p)
  /\ inbox' = Broadcast(inbox, p, {Round(p)})
  /\ UNCHANGED <<authored, log, disk, queued, node, crashes>>

\* openAndPush of a control frame, `boxes` being what is left in flight:
\* publish the replies, then serve; a served event is no longer queued.
HandleControl(p, m, boxes) ==
  /\ m.t # "EVENT"
  /\ inbox' = Broadcast(boxes, p, Replies(p, log[p], m) \cup EventFrames(Serves(log[p], m)))
  /\ queued' = [queued EXCEPT ![p] = Sent(@, Serves(log[p], m))]
  /\ UNCHANGED <<authored, log, disk, node, crashes>>

\* openAndPush of a SYNC_REQ without `rbsr', three seconds after the last one: the
\* whole log goes out again.
AnswerSyncReq(p) ==
  /\ Ready(p)
  /\ inbox' = Broadcast(inbox, p, EventFrames(log[p]))
  /\ queued' = [queued EXCEPT ![p] = Sent(@, log[p])]
  /\ UNCHANGED <<authored, log, disk, node, crashes>>

\* openAndPush of an EVENT: pushEvent drops a known id, else inserts it and
\* arms the debounced flush.
HandleEvent(p, m, boxes) ==
  /\ m.t = "EVENT"
  /\ inbox' = boxes
  /\ log' = [log EXCEPT ![p] = @ \cup {m.id}]
  /\ UNCHANGED <<authored, disk, queued, node, crashes>>

Handle(p, m, boxes) == Ready(p) /\ (HandleControl(p, m, boxes) \/ HandleEvent(p, m, boxes))

\* The transport delivers a frame to p: a control frame of kind k, or event e ...
Receive(p, m) == Handle(p, m, [inbox EXCEPT ![p] = @ \ {m}])
ReceiveControl(p, k) == \E m \in inbox[p] : m.t = k /\ Receive(p, m)
ReceiveEvent(p, e)   == \E m \in inbox[p] : m.t = "EVENT" /\ m.id = e /\ Receive(p, m)

\* ... and may deliver the same frame again later.
ReceiveDuplicate(p) ==
  \E m \in inbox[p] : Handle(p, m, inbox)

\* (Mutant: the file replaces the memory.)
FlushDirty_reload(p) ==
  /\ disk[p] # log[p]
  /\ log' = [log EXCEPT ![p] = disk[p]]
  /\ UNCHANGED <<authored, disk, queued, node, inbox, crashes>>

\* flushDirty: merge with the file, write it back.
FlushDirty(p) ==
  /\ disk[p] # log[p]
  /\ log' = [log EXCEPT ![p] = @ \cup disk[p]]
  /\ disk' = [disk EXCEPT ![p] = log[p] \cup disk[p]]
  /\ UNCHANGED <<authored, queued, node, inbox, crashes>>

Lose(p, m) ==
  /\ m \in inbox[p]
  /\ inbox' = [inbox EXCEPT ![p] = @ \ {m}]
  /\ UNCHANGED <<authored, log, disk, queued, node, crashes>>

\* The process dies between two handlers and starts again from its files:
\* loadSessions reads log.json, loadUnpublished reads unpublished.json.
Crash(p) ==
  /\ crashes < MaxCrashes
  /\ crashes' = crashes + 1
  /\ log' = [log EXCEPT ![p] = disk[p]]
  /\ node' = [node EXCEPT ![p] = "off"]
  /\ inbox' = [inbox EXCEPT ![p] = {}]
  /\ UNCHANGED <<authored, disk, queued>>

\* (Mutant: the event is sent before it is saved.)
CommitCut_sent(p, e) ==
  /\ AuthorOf[e] = p
  /\ e \notin authored
  /\ authored' = authored \cup {e}
  /\ log' = [log EXCEPT ![p] = disk[p]]
  /\ inbox' = [Broadcast(inbox, p, EventFrames({e})) EXCEPT ![p] = {}]
  /\ crashes < MaxCrashes /\ crashes' = crashes + 1
  /\ node' = [node EXCEPT ![p] = "off"]
  /\ UNCHANGED <<disk, queued>>

\* The process dies inside commitOwn, after the save and before the send: before,
\* in the middle of or after the write of unpublished.json, half of which reads as
\* no marks.  (Dying before the save, or after the send, is Crash.)
CommitCut(p, e) ==
  /\ AuthorOf[e] = p
  /\ e \notin authored
  /\ authored' = authored \cup {e}
  /\ log' = [log EXCEPT ![p] = @ \cup {e}]
  /\ disk' = [disk EXCEPT ![p] = log[p] \cup {e}]
  /\ \E marks \in {queued[p], {}, queued[p] \cup {e}} : queued' = [queued EXCEPT ![p] = marks]
  /\ inbox' = [inbox EXCEPT ![p] = {}]
  /\ crashes < MaxCrashes /\ crashes' = crashes + 1
  /\ node' = [node EXCEPT ![p] = "off"]

Kinds == {"fp", "ids", "need"}

Next ==
  \E p \in Peers :
    \/ \E e \in Ids : CommitOwn(p, e) \/ CommitCut(p, e)
    \/ Bootstrap(p)
    \/ StartFails(p)
    \/ Connected(p)
    \/ CatchupRound(p)
    \/ AnswerSyncReq(p)
    \/ \E k \in Kinds : ReceiveControl(p, k)
    \/ \E e \in Ids : ReceiveEvent(p, e)
    \/ ReceiveDuplicate(p)
    \/ FlushDirty(p)
    \/ \E m \in inbox[p] : Lose(p, m)
    \/ Crash(p)

(* Fairness.  A node is started, connects unless its start fails, and its timers
   keep firing (WF on the event loop's own steps).  The transport is fair-lossy: frames of a kind that
   keep being offered to a peer are sometimes delivered, and a round that keeps
   being published is sometimes accepted (SF).  Writing an event, losing a frame,
   a start that fails, a SYNC_REQ and crashing are not fair. *)
Fairness ==
  \A p \in Peers :
    /\ WF_vars(Bootstrap(p) \/ Connected(p))
    /\ WF_vars(FlushDirty(p))
    /\ SF_vars(CatchupRound(p))
    /\ \A k \in Kinds : SF_vars(ReceiveControl(p, k))
    /\ \A e \in Ids : SF_vars(ReceiveEvent(p, e))

Safe == Init /\ [][Next]_vars
Spec == Safe /\ Fairness

-----------------------------------------------------------------------------
TypeOK ==
  /\ authored \in SUBSET Ids
  /\ log \in [Peers -> SUBSET Ids]
  /\ disk \in [Peers -> SUBSET Ids]
  /\ queued \in [Peers -> SUBSET Ids]
  /\ node \in [Peers -> NodeStates]
  /\ inbox \in [Peers -> SUBSET Frames]
  /\ crashes \in 0 .. MaxCrashes

InFlight(m) == \E p \in Peers : m \in inbox[p]
EventInFlight(e) == InFlight([t |-> "EVENT", id |-> e])

\* An event still shown as "queued" is safe on its author's disk and has left its
\* machine in no form: only its author marks it, no other peer holds it, on disk
\* or in memory, and it is on its way to nobody (m_unpublished, commitOwn,
\* sealAndSend).
QueuedIsPrivate ==
  \A p \in Peers : \A e \in queued[p] :
    /\ AuthorOf[e] = p /\ e \in disk[p]
    /\ ~EventInFlight(e)
    /\ \A q \in Peers \ {p} : e \notin log[q] \cup disk[q]

\* What a peer wrote survives its crashes, also one inside commitOwn, and nobody
\* holds or is sent an event that was not written: commitOwn saves before it sends,
\* respond serves and asks for nothing else.
OwnIsDurable ==
  /\ \A e \in authored : e \in disk[AuthorOf[e]]
  /\ \A p \in Peers : disk[p] \subseteq log[p] /\ log[p] \subseteq authored
  /\ \A e \in Ids : EventInFlight(e) => e \in authored

\* A frame is a sound account of its range that fits one transport segment: a
\* handful of fingerprints, or a list no longer than the threshold, and sub-ranges
\* that cover the range and never overlap, so no missing event hides between two
\* fingerprints and none is fingerprinted twice (catchup.hpp:7-12).
RangesTile ==
  \A p \in Peers : \A m \in inbox[p] :
    /\ m.t \in {"ids", "need"} => Cardinality(m.ids) <= Threshold
    /\ m.t = "fp" =>
         /\ Cardinality(m.parts) \in 1 .. Buckets
         /\ \A e \in Ids :
              Cardinality({r \in m.parts : r.lo < e /\ e <= r.hi}) =
                (IF m.lo < e /\ e <= m.hi THEN 1 ELSE 0)

\* Peers that hold the same log, with only up-to-date fingerprints in flight,
\* publish nothing but the next round: agreement costs no event traffic, unless an
\* older peer asks for it.
Agreed ==
  \E ids \in SUBSET Ids :
    \A p \in Peers :
      /\ log[p] = ids
      /\ \A m \in inbox[p] :
           m.t = "fp" /\ \A r \in m.parts : r.fp = IdsInRange(ids, r.lo, r.hi)

AgreedIsQuiet ==
  [][Agreed /\ authored' = authored /\ (\A p \in Peers : ~AnswerSyncReq(p)) =>
       \A q \in Peers : \A m \in inbox'[q] \ inbox[q] :
         \E p \in Peers : m = Round(p)]_vars

\* What one peer has saved the other one saves too, whatever was lost, reordered
\* or forgotten in a crash on the way; only a failed start keeps a peer out, and
\* that until its process is started again.
Converges ==
  \A p, q \in Peers : p # q =>
    \A e \in Ids : e \in disk[q] ~> e \in disk[p] \/ "failed" \in {node[p], node[q]}

\* A queued event is eventually handed to the transport, with the same exception:
\* it waits for a peer to ask for it, connecting alone sends nothing.
QueuedDrains ==
  \A p, q \in Peers : p # q =>
    \A e \in Ids : e \in queued[p] ~> e \notin queued[p] \/ "failed" \in {node[p], node[q]}

\* The protocol implements the shared log: what a peer has saved is what it keeps,
\* and a peer whose start failed is cut off.
Shared == INSTANCE SharedLog WITH kept <- disk, cutOff <- {p \in Peers : node[p] = "failed"}
ImplementsSharedLog == Shared!Spec
=============================================================================
