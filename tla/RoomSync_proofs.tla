--------------------------- MODULE RoomSync_proofs ---------------------------
(***************************************************************************)
(* For every number of peers, every authorship, threshold, bucket count and *)
(* crash bound: RoomSync is type correct, an event is durable at its author *)
(* before anybody else can hold it, a queued event is private to its        *)
(* author, and RoomSync implements the safety part of SharedLog.            *)
(*                                                                          *)
(* The last two parts are about what is on its way: frames fit a segment and *)
(* leave no gap between their fingerprints, and peers that agree are quiet.  *)
(***************************************************************************)
EXTENDS RoomSync, FiniteSetTheorems, WellFoundedInduction, TLAPS

(* Frames are built from ids the sender holds; these lemmas are about the pure
   operators and hold in every state. *)

\* buildFp yields a well-formed "fp" frame (buildFp).
LEMMA BuildFpType ==
  ASSUME NEW p \in Peers, NEW ids \in SUBSET Ids,
         NEW lo \in 0 .. MaxId, NEW hi \in 0 .. MaxId
  PROVE  BuildFp(p, ids, lo, hi) \in FpFrame
<1>1. Cuts(ids) \subseteq 0 .. MaxId
  <2>1. Cuts(ids) \subseteq ids
    BY DEF Cuts
  <2>2. Ids \subseteq 0 .. MaxId
    BY CatchupAssumption DEF Ids
  <2>. QED  BY <2>1, <2>2
<1>2. SubRanges(lo, hi, Cuts(ids)) \subseteq [lo : 0 .. MaxId, hi : 0 .. MaxId]
  BY <1>1 DEF SubRanges
<1>3. \A r \in SubRanges(lo, hi, Cuts(ids)) :
        [lo |-> r.lo, hi |-> r.hi, fp |-> IdsInRange(ids, r.lo, r.hi)]
          \in [lo : 0 .. MaxId, hi : 0 .. MaxId, fp : SUBSET Ids]
  BY <1>2 DEF IdsInRange
<1>. QED  BY <1>3 DEF BuildFp, FpFrame

\* Everything respond() publishes is a well-formed frame (respond).
LEMMA RepliesType ==
  ASSUME NEW p \in Peers, NEW ids \in SUBSET Ids, NEW m \in Frames, m.t # "EVENT"
  PROVE  Replies(p, ids, m) \subseteq Frames
<1>1. CASE m \in FpFrame
  <2>1. m.t = "fp" /\ m.parts \subseteq [lo : 0 .. MaxId, hi : 0 .. MaxId, fp : SUBSET Ids]
    BY <1>1 DEF FpFrame
  <2>2. ASSUME NEW r \in m.parts
        PROVE  AnswerRange(p, ids, r) \in Frames
    <3>1. r.lo \in 0 .. MaxId /\ r.hi \in 0 .. MaxId
      BY <2>1
    <3>2. IdsInRange(ids, r.lo, r.hi) \in SUBSET Ids
      BY DEF IdsInRange
    <3>3. BuildFp(p, IdsInRange(ids, r.lo, r.hi), r.lo, r.hi) \in FpFrame
      BY <3>1, <3>2, BuildFpType
    <3>4. [t |-> "ids", from |-> p, lo |-> r.lo, hi |-> r.hi, ids |-> IdsInRange(ids, r.lo, r.hi)]
            \in IdsFrame
      BY <3>1, <3>2 DEF IdsFrame
    <3>. QED  BY <3>3, <3>4 DEF AnswerRange, Frames
  <2>. QED  BY <2>1, <2>2 DEF Replies
<1>2. CASE m \in IdsFrame
  <2>1. m.t = "ids" /\ m.ids \subseteq Ids
    BY <1>2 DEF IdsFrame
  <2>2. [t |-> "need", from |-> p, ids |-> m.ids \ IdsInRange(ids, m.lo, m.hi)] \in NeedFrame
    BY <2>1 DEF NeedFrame
  <2>. QED  BY <2>1, <2>2 DEF Replies, Frames
<1>3. CASE m \in NeedFrame
  BY <1>3 DEF Replies, NeedFrame
<1>4. CASE m \in EventFrame
  BY <1>4 DEF EventFrame
<1>. QED  BY <1>1, <1>2, <1>3, <1>4 DEF Frames

\* respond() serves only events it holds (respond).
LEMMA ServesHeld ==
  ASSUME NEW ids, NEW m \in Frames, m.t # "EVENT"
  PROVE  Serves(ids, m) \subseteq ids
<1>1. CASE m \in FpFrame
  BY <1>1 DEF FpFrame, Serves
<1>2. CASE m \in IdsFrame
  BY <1>2 DEF IdsFrame, Serves, IdsInRange
<1>3. CASE m \in NeedFrame
  BY <1>3 DEF NeedFrame, Serves
<1>4. CASE m \in EventFrame
  BY <1>4 DEF EventFrame
<1>. QED  BY <1>1, <1>2, <1>3, <1>4 DEF Frames

\* A control frame is no event.
LEMMA RepliesNoEvent ==
  ASSUME NEW p, NEW ids, NEW m \in Frames, m.t # "EVENT"
  PROVE  \A f \in Replies(p, ids, m) : f.t # "EVENT"
<1>1. CASE m \in FpFrame
  BY <1>1 DEF FpFrame, Replies, AnswerRange, BuildFp
<1>2. CASE m \in IdsFrame
  BY <1>2 DEF IdsFrame, Replies
<1>3. CASE m \in NeedFrame
  BY <1>3 DEF NeedFrame, Replies
<1>4. CASE m \in EventFrame
  BY <1>4 DEF EventFrame
<1>. QED  BY <1>1, <1>2, <1>3, <1>4 DEF Frames

\* What reaches a peer's box was there before or has just been published.
LEMMA BroadcastBounded ==
  ASSUME NEW boxes, NEW p \in Peers, NEW frames, NEW q \in Peers
  PROVE  /\ Broadcast(boxes, p, frames)[q] \subseteq boxes[q] \cup frames
         /\ ~Ready(p) => Broadcast(boxes, p, frames)[q] = boxes[q]
BY DEF Broadcast, Deliver

LEMMA BroadcastType ==
  ASSUME NEW boxes \in [Peers -> SUBSET Frames], NEW p \in Peers, NEW frames \in SUBSET Frames
  PROVE  Broadcast(boxes, p, frames) \in [Peers -> SUBSET Frames]
BY DEF Broadcast, Deliver

LEMMA EventFramesType ==
  ASSUME NEW ids \in SUBSET Ids
  PROVE  EventFrames(ids) \in SUBSET Frames
BY DEF EventFrames, EventFrame, Frames

-----------------------------------------------------------------------------
\* The two forms of receiving a frame, as one: the rest of the mail is some
\* `boxes` no larger than inbox (ReceiveControl, ReceiveEvent, ReceiveDuplicate).
Handled(p, m, boxes) ==
  /\ m \in inbox[p]
  /\ boxes \in [Peers -> SUBSET Frames]
  /\ \A q \in Peers : boxes[q] \subseteq inbox[q]
  /\ Handle(p, m, boxes)

\* Every step of the system is one of eleven.
LEMMA NextCases ==
  ASSUME TypeOK, Next
  PROVE  \E p \in Peers :
           \/ \E e \in Ids : CommitOwn(p, e) \/ CommitCut(p, e)
           \/ Bootstrap(p) \/ StartFails(p)
           \/ Connected(p)
           \/ CatchupRound(p)
           \/ AnswerSyncReq(p)
           \/ \E m, boxes : Handled(p, m, boxes)
           \/ FlushDirty(p)
           \/ \E m \in inbox[p] : Lose(p, m)
           \/ Crash(p)
<1>1. ASSUME NEW p \in Peers, NEW m \in inbox[p], Receive(p, m)
      PROVE  \E boxes : Handled(p, m, boxes)
  <2>1. Handled(p, m, [inbox EXCEPT ![p] = @ \ {m}])
    BY <1>1 DEF Receive, Handled, TypeOK
  <2>. QED  BY <2>1
<1>2. ASSUME NEW p \in Peers, ReceiveDuplicate(p)
      PROVE  \E m, boxes : Handled(p, m, boxes)
  <2>1. PICK m \in inbox[p] : Handle(p, m, inbox)
    BY <1>2 DEF ReceiveDuplicate
  <2>2. Handled(p, m, inbox)
    BY <2>1 DEF Handled, TypeOK
  <2>. QED  BY <2>2
<1>3. ASSUME NEW p \in Peers,
             (\E k \in Kinds : ReceiveControl(p, k)) \/ (\E e \in Ids : ReceiveEvent(p, e))
      PROVE  \E m, boxes : Handled(p, m, boxes)
  BY <1>1, <1>3 DEF ReceiveControl, ReceiveEvent
<1>. QED  BY <1>2, <1>3 DEF Next

\* Type correctness: frames stay well formed, logs hold events of the room
\* (every handler).
THEOREM TypeCorrect == Safe => []TypeOK
<1>1. Init => TypeOK
  BY RoomSyncAssumption DEF Init, TypeOK, NodeStates
<1>2. TypeOK /\ [Next]_vars => TypeOK'
  <2> SUFFICES ASSUME TypeOK, [Next]_vars
               PROVE  TypeOK'
    OBVIOUS
  <2>1. ASSUME NEW p \in Peers, NEW e \in Ids, CommitOwn(p, e)
        PROVE  TypeOK'
    <3>1. EventFrames({e}) \in SUBSET Frames
      BY EventFramesType
    <3>2. inbox' \in [Peers -> SUBSET Frames]
      BY <2>1, <3>1, BroadcastType DEF CommitOwn, TypeOK
    <3>. QED  BY <2>1, <3>2 DEF CommitOwn, Sent, TypeOK
  <2>2. ASSUME NEW p \in Peers, Connected(p) \/ CatchupRound(p)
        PROVE  TypeOK'
    <3>1. Round(p) \in Frames
      <4>1. 0 \in 0 .. MaxId /\ MaxId \in 0 .. MaxId
        BY CatchupAssumption
      <4>2. log[p] \in SUBSET Ids
        BY DEF TypeOK
      <4>. QED  BY <4>1, <4>2, BuildFpType DEF Round, BuildInitial, Frames
    <3>2. inbox' \in [Peers -> SUBSET Frames]
      <4>1. CASE Connected(p)
        BY <4>1, <3>1 DEF Connected, Deliver, TypeOK
      <4>2. CASE CatchupRound(p)
        BY <4>2, <3>1, BroadcastType DEF CatchupRound, TypeOK
      <4>. QED  BY <2>2, <4>1, <4>2
    <3>. QED  BY <2>2, <3>2 DEF Connected, CatchupRound, TypeOK, NodeStates
  <2>3. ASSUME NEW p \in Peers, NEW m, NEW boxes, Handled(p, m, boxes)
        PROVE  TypeOK'
    <3>1. m \in Frames
      BY <2>3 DEF Handled, TypeOK
    <3>2. CASE HandleControl(p, m, boxes)
      <4>1. log[p] \in SUBSET Ids
        BY DEF TypeOK
      <4>2. Replies(p, log[p], m) \cup EventFrames(Serves(log[p], m)) \in SUBSET Frames
        BY <3>1, <3>2, <4>1, RepliesType, ServesHeld, EventFramesType DEF HandleControl
      <4>3. inbox' \in [Peers -> SUBSET Frames]
        BY <2>3, <3>2, <4>2, BroadcastType DEF HandleControl, Handled
      <4>. QED  BY <3>2, <4>3 DEF HandleControl, Sent, TypeOK
    <3>3. CASE HandleEvent(p, m, boxes)
      <4>1. m.id \in Ids
        BY <3>1, <3>3 DEF HandleEvent, Frames, FpFrame, IdsFrame, NeedFrame, EventFrame
      <4>. QED  BY <2>3, <3>3, <4>1 DEF HandleEvent, Handled, TypeOK
    <3>. QED  BY <2>3, <3>2, <3>3 DEF Handled, Handle
  <2>4. ASSUME NEW p \in Peers, FlushDirty(p)
        PROVE  TypeOK'
    BY <2>4 DEF FlushDirty, TypeOK
  <2>5. ASSUME NEW p \in Peers, NEW m, Lose(p, m)
        PROVE  TypeOK'
    BY <2>5 DEF Lose, TypeOK
  <2>6. ASSUME NEW p \in Peers, Crash(p)
        PROVE  TypeOK'
    BY <2>6, RoomSyncAssumption DEF Crash, TypeOK, NodeStates
  <2>7. ASSUME NEW p \in Peers, Bootstrap(p) \/ StartFails(p)
        PROVE  TypeOK'
    BY <2>7 DEF Bootstrap, StartFails, TypeOK, NodeStates
  <2>8. ASSUME NEW p \in Peers, AnswerSyncReq(p)
        PROVE  TypeOK'
    <3>1. EventFrames(log[p]) \in SUBSET Frames
      BY EventFramesType DEF TypeOK
    <3>2. inbox' \in [Peers -> SUBSET Frames]
      BY <2>8, <3>1, BroadcastType DEF AnswerSyncReq, TypeOK
    <3>. QED  BY <2>8, <3>2 DEF AnswerSyncReq, Sent, TypeOK
  <2>9. ASSUME NEW p \in Peers, NEW e \in Ids, CommitCut(p, e)
        PROVE  TypeOK'
    <3>1. queued[p] \cup {e} \in SUBSET Ids
      BY DEF TypeOK
    <3>. QED  BY <2>9, <3>1, RoomSyncAssumption DEF CommitCut, TypeOK, NodeStates
  <2>10. CASE UNCHANGED vars
    BY <2>10 DEF vars, TypeOK
  <2>. QED  BY <2>1, <2>2, <2>3, <2>4, <2>5, <2>6, <2>7, <2>8, <2>9, <2>10, NextCases
<1>. QED  BY <1>1, <1>2, PTL DEF Safe

-----------------------------------------------------------------------------
\* The invariant is inductive as it is: who holds an event, who is sent it and
\* who still has it queued have to be followed together.
Inv == TypeOK /\ OwnIsDurable /\ QueuedIsPrivate

\* Writing an event (commitOwn).
LEMMA CommitOwnInv ==
  ASSUME Inv, NEW p \in Peers, NEW e \in Ids, CommitOwn(p, e)
  PROVE  (OwnIsDurable /\ QueuedIsPrivate)'
<1>1. \A q \in Peers : inbox'[q] \subseteq inbox[q] \cup EventFrames({e})
  BY BroadcastBounded DEF CommitOwn
<1>2. \A f \in Ids : EventInFlight(f)' => EventInFlight(f) \/ (f = e /\ Ready(p))
  <2>1. \A q \in Peers : ~Ready(p) => inbox'[q] = inbox[q]
    BY BroadcastBounded DEF CommitOwn
  <2>. QED  BY <1>1, <2>1 DEF EventInFlight, InFlight, EventFrames
<1>3. e \notin authored /\ AuthorOf[e] = p
  BY DEF CommitOwn
<1>4. OwnIsDurable'
  BY <1>2, <1>3 DEF CommitOwn, Inv, OwnIsDurable, TypeOK
<1>5. ASSUME NEW q \in Peers, NEW f \in queued'[q]
      PROVE  /\ AuthorOf[f] = q /\ f \in disk'[q]
             /\ ~EventInFlight(f)'
             /\ \A r \in Peers \ {q} : f \notin log'[r] \cup disk'[r]
  <2>1. CASE f \in queued[q]
    <3>1. f # e
      BY <1>3, <2>1 DEF Inv, OwnIsDurable, QueuedIsPrivate, TypeOK
    <3>. QED  BY <1>2, <2>1, <3>1 DEF CommitOwn, Inv, QueuedIsPrivate, OwnIsDurable, TypeOK
  <2>2. CASE f \notin queued[q]
    <3>1. q = p /\ f = e /\ ~Ready(p)
      BY <1>5, <2>2 DEF CommitOwn, Sent, Inv, TypeOK
    <3>2. ~EventInFlight(e)
      BY <1>3 DEF Inv, OwnIsDurable
    <3>. QED  BY <1>2, <1>3, <3>1, <3>2 DEF CommitOwn, Inv, OwnIsDurable, TypeOK
  <2>. QED  BY <2>1, <2>2
<1>. QED  BY <1>4, <1>5 DEF QueuedIsPrivate

\* Dying of it, with the event saved and nobody told.
LEMMA CommitCutInv ==
  ASSUME Inv, NEW p \in Peers, NEW e \in Ids, CommitCut(p, e)
  PROVE  (OwnIsDurable /\ QueuedIsPrivate)'
<1>1. \A q \in Peers : inbox'[q] \subseteq inbox[q]
  BY DEF CommitCut, Inv, TypeOK
<1>2. \A f \in Ids : EventInFlight(f)' => EventInFlight(f)
  BY <1>1 DEF EventInFlight, InFlight
<1>3. e \notin authored /\ AuthorOf[e] = p /\ authored' = authored \cup {e}
  BY DEF CommitCut
<1>4. \A q \in Peers :
        /\ disk[q] \subseteq disk'[q] /\ disk'[q] \subseteq log'[q]
        /\ log'[q] = IF q = p THEN log[q] \cup {e} ELSE log[q]
  BY DEF CommitCut, Inv, TypeOK, OwnIsDurable
<1>5. e \in disk'[p]
  BY DEF CommitCut, Inv, TypeOK
<1>6. OwnIsDurable'
  BY ZenonT(30), <1>2, <1>3, <1>4, <1>5, RoomSyncAssumption DEF Inv, OwnIsDurable, TypeOK
<1>7. ASSUME NEW q \in Peers, NEW f \in queued'[q]
      PROVE  /\ AuthorOf[f] = q /\ f \in disk'[q]
             /\ ~EventInFlight(f)'
             /\ \A r \in Peers \ {q} : f \notin log'[r] \cup disk'[r]
  <2>1. f \in queued[q] \/ (q = p /\ f = e)
    BY <1>7 DEF CommitCut, Inv, TypeOK
  <2>2. CASE f \in queued[q]
    <3>1. f # e /\ f \in Ids
      BY <1>3, <2>2 DEF Inv, OwnIsDurable, QueuedIsPrivate, TypeOK
    <3>2. /\ AuthorOf[f] = q /\ f \in disk[q] /\ ~EventInFlight(f)
          /\ \A r \in Peers \ {q} : f \notin log[r]
      BY <2>2 DEF Inv, QueuedIsPrivate
    <3>3. \A r \in Peers \ {q} : f \notin log'[r] \cup disk'[r]
      BY <1>4, <3>1, <3>2
    <3>4. f \in disk'[q]
      BY <1>4, <3>2
    <3>5. ~EventInFlight(f)'
      BY <1>2, <3>1, <3>2
    <3>. QED  BY <3>2, <3>3, <3>4, <3>5
  <2>3. CASE q = p /\ f = e
    <3>1. ~EventInFlight(e) /\ \A r \in Peers : e \notin log[r]
      BY <1>3 DEF Inv, OwnIsDurable
    <3>2. \A r \in Peers \ {q} : e \notin log'[r] \cup disk'[r]
      BY <1>4, <2>3, <3>1
    <3>3. ~EventInFlight(e)'
      BY <1>2, <3>1
    <3>. QED  BY <1>3, <1>5, <2>3, <3>2, <3>3
  <2>. QED  BY <2>1, <2>2, <2>3
<1>. QED  BY <1>6, <1>7 DEF QueuedIsPrivate

\* Publishing a round (onStatusChanged, catchupRound): no event is sent.
LEMMA RoundInv ==
  ASSUME Inv, NEW p \in Peers, Connected(p) \/ CatchupRound(p)
  PROVE  (OwnIsDurable /\ QueuedIsPrivate)'
<1>1. Round(p).t = "fp"
  BY DEF Round, BuildInitial, BuildFp
<1>2. \A q \in Peers : inbox'[q] \subseteq inbox[q] \cup {Round(p)}
  <2>1. CASE Connected(p)
    BY <2>1 DEF Connected, Deliver
  <2>2. CASE CatchupRound(p)
    BY <2>2, BroadcastBounded DEF CatchupRound
  <2>. QED  BY <2>1, <2>2
<1>3. \A f \in Ids : EventInFlight(f)' => EventInFlight(f)
  BY <1>1, <1>2 DEF EventInFlight, InFlight
<1>4. UNCHANGED <<authored, log, disk, queued>>
  BY DEF Connected, CatchupRound
<1>. QED  BY <1>3, <1>4 DEF Inv, OwnIsDurable, QueuedIsPrivate, TypeOK

\* Answering a control frame: a served event is held, and loses its mark
\* (openAndPush, respond, sealAndSend).
LEMMA ControlInv ==
  ASSUME Inv, NEW p \in Peers, NEW m, NEW boxes, Handled(p, m, boxes), HandleControl(p, m, boxes)
  PROVE  (OwnIsDurable /\ QueuedIsPrivate)'
<1>. DEFINE served == Serves(log[p], m)
<1>1. m \in Frames /\ m.t # "EVENT"
  BY DEF Handled, HandleControl, Inv, TypeOK
<1>2. served \subseteq log[p]
  BY <1>1, ServesHeld
<1>3. \A f \in Replies(p, log[p], m) : f.t # "EVENT"
  BY <1>1, RepliesNoEvent
<1>4. \A q \in Peers : inbox'[q] \subseteq inbox[q] \cup Replies(p, log[p], m) \cup EventFrames(served)
  <2>1. \A q \in Peers :
          inbox'[q] \subseteq boxes[q] \cup (Replies(p, log[p], m) \cup EventFrames(served))
    BY BroadcastBounded DEF HandleControl
  <2>. QED  BY <2>1 DEF Handled
<1>5. \A f \in Ids : EventInFlight(f)' => EventInFlight(f) \/ f \in served
  BY <1>3, <1>4 DEF EventInFlight, InFlight, EventFrames
<1>6. UNCHANGED <<authored, log, disk>>
  BY DEF HandleControl
<1>7. OwnIsDurable'
  BY <1>2, <1>5, <1>6 DEF Inv, OwnIsDurable
<1>8. ASSUME NEW q \in Peers, NEW f \in queued'[q]
      PROVE  /\ AuthorOf[f] = q /\ f \in disk'[q]
             /\ ~EventInFlight(f)'
             /\ \A r \in Peers \ {q} : f \notin log'[r] \cup disk'[r]
  <2>1. f \in queued[q] /\ (q = p => f \notin served)
    BY <1>8 DEF HandleControl, Sent, Inv, TypeOK
  <2>2. f \notin served
    <3>1. CASE q # p
      BY <1>2, <2>1, <3>1 DEF Inv, QueuedIsPrivate
    <3>. QED  BY <2>1, <3>1
  <2>3. f \in Ids
    BY <2>1 DEF Inv, TypeOK
  <2>. QED  BY <1>5, <1>6, <2>1, <2>2, <2>3 DEF Inv, QueuedIsPrivate
<1>. QED  BY <1>7, <1>8 DEF QueuedIsPrivate

\* Serving the whole log again: what goes out is held, and loses its mark
\* (openAndPush of a SYNC_REQ, sealAndSend).
LEMMA SyncReqInv ==
  ASSUME Inv, NEW p \in Peers, AnswerSyncReq(p)
  PROVE  (OwnIsDurable /\ QueuedIsPrivate)'
<1>1. \A q \in Peers : inbox'[q] \subseteq inbox[q] \cup EventFrames(log[p])
  BY BroadcastBounded DEF AnswerSyncReq
<1>2. \A f \in Ids : EventInFlight(f)' => EventInFlight(f) \/ f \in log[p]
  BY <1>1 DEF EventInFlight, InFlight, EventFrames
<1>3. UNCHANGED <<authored, log, disk>>
  BY DEF AnswerSyncReq
<1>4. OwnIsDurable'
  BY <1>2, <1>3 DEF Inv, OwnIsDurable
<1>5. ASSUME NEW q \in Peers, NEW f \in queued'[q]
      PROVE  /\ AuthorOf[f] = q /\ f \in disk'[q]
             /\ ~EventInFlight(f)'
             /\ \A r \in Peers \ {q} : f \notin log'[r] \cup disk'[r]
  <2>1. f \in queued[q] /\ (q = p => f \notin log[p])
    BY <1>5 DEF AnswerSyncReq, Sent, Inv, TypeOK
  <2>2. f \notin log[p]
    BY <2>1 DEF Inv, QueuedIsPrivate
  <2>3. f \in Ids
    BY <2>1 DEF Inv, TypeOK
  <2>. QED  BY <1>2, <1>3, <2>1, <2>2, <2>3 DEF Inv, QueuedIsPrivate
<1>. QED  BY <1>4, <1>5 DEF QueuedIsPrivate

\* Taking in an event: it was on its way, so it is not queued (pushEvent).
LEMMA EventInv ==
  ASSUME Inv, NEW p \in Peers, NEW m, NEW boxes, Handled(p, m, boxes), HandleEvent(p, m, boxes)
  PROVE  (OwnIsDurable /\ QueuedIsPrivate)'
<1>1. m \in inbox[p] /\ m.id \in Ids /\ m = [t |-> "EVENT", id |-> m.id]
  BY DEF Handled, HandleEvent, Inv, TypeOK, Frames, FpFrame, IdsFrame, NeedFrame, EventFrame
<1>2. EventInFlight(m.id)
  BY <1>1 DEF EventInFlight, InFlight
<1>3. \A f \in Ids : EventInFlight(f)' => EventInFlight(f)
  BY DEF HandleEvent, Handled, EventInFlight, InFlight
<1>4. /\ UNCHANGED <<authored, disk, queued>>
      /\ log' = [log EXCEPT ![p] = @ \cup {m.id}]
  BY DEF HandleEvent
<1>5. OwnIsDurable'
  BY <1>1, <1>2, <1>3, <1>4 DEF Inv, OwnIsDurable, TypeOK
<1>6. QueuedIsPrivate'
  BY <1>2, <1>3, <1>4 DEF Inv, QueuedIsPrivate, TypeOK
<1>. QED  BY <1>5, <1>6

\* Starting the node, flushing, losing a frame and crashing send nothing and reveal
\* nothing (bootstrapDelivery, flushDirty, loadSessions).
LEMMA LocalInv ==
  ASSUME Inv, NEW p \in Peers,
         \/ Bootstrap(p) \/ StartFails(p) \/ FlushDirty(p)
         \/ (\E m \in inbox[p] : Lose(p, m)) \/ Crash(p)
  PROVE  (OwnIsDurable /\ QueuedIsPrivate)'
<1>1. \A q \in Peers : inbox'[q] \subseteq inbox[q]
  BY DEF Bootstrap, StartFails, FlushDirty, Lose, Crash, Inv, TypeOK
<1>2. \A f \in Ids : EventInFlight(f)' => EventInFlight(f)
  BY <1>1 DEF EventInFlight, InFlight
<1>3. UNCHANGED <<authored, queued>>
  BY DEF Bootstrap, StartFails, FlushDirty, Lose, Crash
<1>4. \A q \in Peers : /\ disk[q] \subseteq disk'[q]
                       /\ disk'[q] \subseteq log'[q]
                       /\ log'[q] \subseteq log[q]
  BY DEF Bootstrap, StartFails, FlushDirty, Lose, Crash, Inv, TypeOK, OwnIsDurable
<1>5. OwnIsDurable'
  <2>1. \A f \in authored : f \in disk[AuthorOf[f]] /\ AuthorOf[f] \in Peers
    BY RoomSyncAssumption DEF Inv, OwnIsDurable, TypeOK
  <2>. QED  BY <1>2, <1>3, <1>4, <2>1 DEF Inv, OwnIsDurable
<1>6. QueuedIsPrivate'
  BY <1>2, <1>3, <1>4 DEF Inv, QueuedIsPrivate, OwnIsDurable, TypeOK
<1>. QED  BY <1>5, <1>6

THEOREM Invariance == Safe => []Inv
<1>1. Init => Inv
  BY RoomSyncAssumption
     DEF Init, Inv, TypeOK, NodeStates, OwnIsDurable, QueuedIsPrivate, EventInFlight, InFlight
<1>2. Inv /\ TypeOK' /\ [Next]_vars => Inv'
  <2> SUFFICES ASSUME Inv, TypeOK', [Next]_vars
               PROVE  (OwnIsDurable /\ QueuedIsPrivate)'
    BY DEF Inv
  <2>1. CASE Next
    <3>1. ASSUME NEW p \in Peers, NEW m, NEW boxes, Handled(p, m, boxes)
          PROVE  (OwnIsDurable /\ QueuedIsPrivate)'
      BY <3>1, ControlInv, EventInv DEF Handled, Handle
    <3>. QED  BY <2>1, <3>1, NextCases, CommitOwnInv, CommitCutInv, RoundInv, SyncReqInv, LocalInv DEF Inv
  <2>2. CASE UNCHANGED vars
    BY <2>2 DEF vars, Inv, OwnIsDurable, QueuedIsPrivate, EventInFlight, InFlight
  <2>. QED  BY <2>1, <2>2
<1>. QED  BY <1>1, <1>2, TypeCorrect, PTL DEF Safe

\* An event is on its author's disk before anybody else can hold it, and stays
\* there (commitOwn saves before it sends).
THEOREM Durability == Safe => []OwnIsDurable
BY Invariance, PTL DEF Inv

\* A "queued" mark is never wrong in the dangerous direction: nobody else has
\* the event (m_unpublished).
THEOREM QueuedPrivacy == Safe => []QueuedIsPrivate
BY Invariance, PTL DEF Inv

-----------------------------------------------------------------------------
\* Every step of the protocol writes one event, saves events that were written
\* before, or leaves the shared log alone (every handler).
THEOREM Implementation == Safe => Shared!Safe
<1>1. Init => Shared!Init
  BY DEF Init, Shared!Init
<1>2. Inv /\ [Next]_vars => [Shared!Next]_(Shared!vars)
  <2> SUFFICES ASSUME Inv, [Next]_vars
               PROVE  [Shared!Next]_(Shared!vars)
    OBVIOUS
  <2>1. ASSUME NEW p \in Peers, NEW e \in Ids, CommitOwn(p, e) \/ CommitCut(p, e)
        PROVE  Shared!Next
    <3>1. /\ log[p] \in SUBSET authored
          /\ disk[p] \cup log[p] \cup {e} = log[p] \cup {e}
      BY DEF Inv, OwnIsDurable
    <3>2. disk' = [disk EXCEPT ![p] = @ \cup log[p] \cup {e}]
      BY <2>1, <3>1 DEF CommitOwn, CommitCut, Inv, TypeOK
    <3>. DEFINE Failed == {q \in Peers : node[q] = "failed"}
    <3>3. Failed' \in {Failed, Failed \ {p}}
      <4>1. node' = node \/ node' = [node EXCEPT ![p] = "off"]
        BY <2>1 DEF CommitOwn, CommitCut
      <4>. QED  BY <4>1 DEF Inv, TypeOK
    <3>4. Shared!Write(p, e)
      BY <2>1, <3>1, <3>2, <3>3 DEF CommitOwn, CommitCut, Shared!Write
    <3>. QED  BY <3>4 DEF Shared!Next
  <2>2. ASSUME NEW p \in Peers, FlushDirty(p)
        PROVE  Shared!Next
    <3>1. log[p] \in SUBSET authored
      BY DEF Inv, OwnIsDurable
    <3>2. disk' = [disk EXCEPT ![p] = @ \cup log[p]] /\ UNCHANGED <<authored, node>>
      BY <2>2 DEF FlushDirty, Inv, TypeOK
    <3>3. Shared!Learn(p)
      BY <3>1, <3>2 DEF Shared!Learn
    <3>. QED  BY <3>3 DEF Shared!Next
  <2>3. ASSUME NEW p \in Peers,
               \/ CatchupRound(p)
               \/ AnswerSyncReq(p)
               \/ \E m, boxes : Handled(p, m, boxes)
               \/ \E m \in inbox[p] : Lose(p, m)
        PROVE  UNCHANGED <<authored, disk, node>>
    BY <2>3 DEF CatchupRound, AnswerSyncReq, Handled, Handle, HandleControl, HandleEvent, Lose
  <2>4. ASSUME NEW p \in Peers, Bootstrap(p) \/ StartFails(p) \/ Connected(p) \/ Crash(p)
        PROVE  Shared!Next
    <3>. DEFINE Failed == {q \in Peers : node[q] = "failed"}
    <3>1. \A q \in Peers \ {p} : node'[q] = node[q]
      BY <2>4 DEF Bootstrap, StartFails, Connected, Crash, Inv, TypeOK
    <3>2. Failed' \in {Failed \cup {p}, Failed \ {p}}
      BY <3>1
    <3>3. UNCHANGED <<authored, disk>>
      BY <2>4 DEF Bootstrap, StartFails, Connected, Crash
    <3>4. Shared!Switch(p)
      BY <3>2, <3>3 DEF Shared!Switch
    <3>. QED  BY <3>4 DEF Shared!Next
  <2>5. CASE Next
    BY <2>1, <2>2, <2>3, <2>4, <2>5, NextCases DEF Inv, Shared!vars
  <2>6. CASE UNCHANGED vars
    BY <2>6 DEF vars, Shared!vars
  <2>. QED  BY <2>5, <2>6
<1>. QED  BY <1>1, <1>2, Invariance, PTL DEF Safe, Shared!Safe

-----------------------------------------------------------------------------
(* Fingerprints leave no gap. *)

\* A set of numbers has a least element, and a greatest one if it is bounded.
LEMMA Least ==
  ASSUME NEW T \in SUBSET Nat, T # {}
  PROVE  \E x \in T : \A y \in T : x <= y
<1>. DEFINE R == OpToRel(<, Nat)
<1>1. IsWellFoundedOn(R, Nat)
  BY NatLessThanWellFounded DEF OpToRel
<1>2. PICK x \in T : \A y \in T : ~(<<y, x>> \in R)
  <2>. HIDE DEF R
  <2>. QED  BY <1>1, WFMin
<1>3. \A y \in T : ~(y < x)
  BY <1>2 DEF OpToRel
<1>. QED  BY <1>3

LEMMA Greatest ==
  ASSUME NEW n \in Nat, NEW T \in SUBSET (0 .. n), T # {}
  PROVE  \E x \in T : \A y \in T : y <= x
<1>. DEFINE D == {n - y : y \in T}
<1>1. D \in SUBSET Nat /\ D # {}
  <2>1. \A y \in T : n - y \in Nat
    OBVIOUS
  <2>2. PICK y \in T : TRUE
    OBVIOUS
  <2>3. n - y \in D
    OBVIOUS
  <2>. QED  BY <2>1, <2>3
<1>2. PICK d \in D : \A y \in D : d <= y
  <2>. HIDE DEF D
  <2>. QED  BY <1>1, Least
<1>3. PICK x \in T : d = n - x
  OBVIOUS
<1>4. \A y \in T : n - x <= n - y
  BY <1>2, <1>3
<1>. QED  BY <1>4

\* The sub-ranges cut a range into consecutive parts (buildFp).
LEMMA Tiling ==
  ASSUME NEW lo \in Nat, NEW hi \in Nat, lo < hi,
         NEW cuts \in SUBSET Nat, \A c \in cuts : lo < c /\ c <= hi
  PROVE  /\ \A r \in SubRanges(lo, hi, cuts) :
              /\ r.lo \in Nat /\ r.hi \in Nat /\ r.lo < r.hi
              /\ r.hi \in cuts \cup {hi}
              /\ lo <= r.lo /\ r.hi <= hi
         /\ \A r, s \in SubRanges(lo, hi, cuts) : r.hi = s.hi => r = s
         /\ \A e \in Nat : lo < e /\ e <= hi =>
              \E r \in SubRanges(lo, hi, cuts) :
                 /\ r.lo < e /\ e <= r.hi
                 /\ \A s \in SubRanges(lo, hi, cuts) : s.lo < e /\ e <= s.hi => s = r
<1>. DEFINE ends == cuts \cup {lo, hi}
            S == SubRanges(lo, hi, cuts)
<1>1. ends \in SUBSET (0 .. hi) /\ \A c \in ends : lo <= c
  OBVIOUS
<1>2. \A r \in S : /\ r = [lo |-> r.lo, hi |-> r.hi]
                   /\ r.lo \in ends /\ r.hi \in ends /\ r.lo < r.hi
                   /\ \A c \in ends : ~(r.lo < c /\ c < r.hi)
  BY DEF SubRanges
<1>3. \A r \in S : r.hi \in cuts \cup {hi}
  BY <1>1, <1>2
<1>4. \A r, s \in S : r.hi = s.hi => r = s
  <2>. SUFFICES ASSUME NEW r \in S, NEW s \in S, r.hi = s.hi
                PROVE  r.lo = s.lo
    BY <1>2
  <2>1. ~(r.lo < s.lo) /\ ~(s.lo < r.lo)
    BY <1>1, <1>2
  <2>. QED  BY <1>1, <1>2, <2>1
<1>5. ASSUME NEW e \in Nat, lo < e, e <= hi
      PROVE  \E r \in S : /\ r.lo < e /\ e <= r.hi
                          /\ \A s \in S : s.lo < e /\ e <= s.hi => s = r
  <2>1. PICK a \in ends : a < e /\ \A c \in ends : c < e => c <= a
    <3>. DEFINE T == {c \in ends : c < e}
    <3>1. T # {} /\ T \in SUBSET (0 .. hi)
      BY <1>1, <1>5
    <3>. QED  BY <3>1, Greatest
  <2>2. PICK b \in ends : e <= b /\ \A c \in ends : e <= c => b <= c
    <3>. DEFINE T == {c \in ends : e <= c}
    <3>1. T # {} /\ T \in SUBSET Nat
      BY <1>1, <1>5
    <3>. QED  BY <3>1, Least
  <2>3. [lo |-> a, hi |-> b] \in S
    BY <1>1, <2>1, <2>2 DEF SubRanges
  <2>4. \A s \in S : s.lo < e /\ e <= s.hi => s.lo = a /\ s.hi = b
    BY <1>1, <1>2, <2>1, <2>2
  <2>. QED  BY <1>2, <2>1, <2>2, <2>3, <2>4
<1>. QED  BY <1>1, <1>2, <1>3, <1>4, <1>5

\* A set of events is finite.
LEMMA IdsFinite ==
  ASSUME NEW ids \in SUBSET Ids
  PROVE  IsFiniteSet(ids) /\ Cardinality(ids) \in Nat
<1>1. IsFiniteSet(Ids)
  BY FS_Interval, CatchupAssumption DEF Ids
<1>. QED  BY <1>1, FS_Subset, FS_CardinalityType

LEMMA RankGrows ==
  ASSUME NEW ids \in SUBSET Ids, NEW e \in ids, NEW f \in ids, e < f
  PROVE  Rank(ids, e) < Rank(ids, f)
<1>. DEFINE below == {g \in ids : g <= e}
            upto == {g \in ids : g <= f}
<1>1. below \in SUBSET upto /\ below # upto
  <2>1. \A g \in ids : g \in Nat
    BY CatchupAssumption DEF Ids
  <2>. QED  BY <2>1
<1>2. IsFiniteSet(upto) /\ Cardinality(upto) \in Nat /\ Cardinality(below) \in Nat
  BY IdsFinite
<1>3. Cardinality(below) <= Cardinality(upto) /\ Cardinality(below) # Cardinality(upto)
  BY <1>1, <1>2, FS_Subset
<1>. QED  BY <1>2, <1>3 DEF Rank

\* As many ids as there are sub-ranges but one can be the last of a sub-range.
LEMMA FewCuts ==
  ASSUME NEW ids \in SUBSET Ids
  PROVE  IsFiniteSet(Cuts(ids)) /\ Cardinality(Cuts(ids)) <= Buckets - 1
<1>. DEFINE n == Cardinality(ids)
            step == StepOf(ids)
            k == IF n < Buckets THEN n ELSE Buckets
<1>1. n \in Nat /\ Buckets \in Nat /\ Buckets > 1 /\ IsFiniteSet(ids)
  BY IdsFinite, CatchupAssumption
<1>2. CASE n = 0
  <2>1. Cuts(ids) = {}
    BY <1>1, <1>2, FS_EmptySet DEF Cuts
  <2>. QED  BY <1>1, <2>1, FS_EmptySet
<1>3. CASE n # 0
  <2>1. k \in Nat /\ k >= 1 /\ k <= Buckets
    BY <1>1, <1>3
  <2>2. step \in Nat /\ step >= 1 /\ n <= step * k
    <3>1. step = (n + k - 1) \div k
      BY <1>3 DEF StepOf, CeilDiv
    <3>. HIDE DEF k, step, n
    <3>. QED  BY <1>1, <1>3, <2>1, <3>1
  <2>. DEFINE Nth == [e \in Cuts(ids) |-> Rank(ids, e) \div step]
  <2>3. \A e \in Cuts(ids) : /\ e \in ids
                             /\ Rank(ids, e) \in Nat /\ Rank(ids, e) < n
                             /\ Rank(ids, e) >= 1
                             /\ Rank(ids, e) % step = 0
    <3>. SUFFICES ASSUME NEW e \in Cuts(ids)
                  PROVE  Rank(ids, e) \in Nat /\ Rank(ids, e) >= 1
      BY DEF Cuts
    <3>1. e \in {f \in ids : f <= e}
      BY DEF Cuts, Ids
    <3>2. IsFiniteSet({f \in ids : f <= e}) /\ Cardinality({f \in ids : f <= e}) \in Nat
      BY IdsFinite
    <3>3. Cardinality({f \in ids : f <= e}) # 0
      BY <3>1, <3>2, FS_EmptySet
    <3>. QED  BY <3>2, <3>3 DEF Rank
  <2>4. \A e \in Cuts(ids) : Nth[e] \in 1 .. k - 1 /\ Rank(ids, e) = step * Nth[e]
    <3>. SUFFICES ASSUME NEW e \in Cuts(ids), NEW q \in Nat, q = Rank(ids, e)
                  PROVE  q \div step \in 1 .. k - 1 /\ q = step * (q \div step)
      BY <2>3
    <3>1. q >= 1 /\ q < n /\ q % step = 0
      BY <2>3
    <3>. HIDE DEF k, step, n
    <3>2. q \div step \in Nat /\ q = step * (q \div step)
      BY <2>2, <3>1
    <3>3. PICK j \in Nat : j = q \div step
      BY <3>2
    <3>4. q = step * j
      BY <3>2, <3>3
    <3>5. j # 0
      BY <2>2, <3>1, <3>4
    <3>6. j < k
      <4>. SUFFICES ASSUME j >= k PROVE FALSE
        BY <2>1
      <4>1. step * j >= step * k
        BY <2>1, <2>2
      <4>. QED  BY <1>1, <2>1, <2>2, <3>1, <3>4, <4>1
    <3>. QED  BY <2>1, <3>2, <3>3, <3>5, <3>6
  <2>5. Nth \in Injection(Cuts(ids), 1 .. k - 1)
    <3>1. ASSUME NEW e \in Cuts(ids), NEW f \in Cuts(ids), Nth[e] = Nth[f]
          PROVE  e = f
      <4>1. Rank(ids, e) = Rank(ids, f)
        BY <2>4, <3>1
      <4>2. ~(e < f) /\ ~(f < e)
        BY <2>3, <4>1, RankGrows
      <4>3. e \in Nat /\ f \in Nat
        <5>1. e \in ids /\ f \in ids
          BY <2>3
        <5>. HIDE DEF Nth
        <5>. QED  BY <5>1, CatchupAssumption DEF Ids
      <4>. QED  BY <4>2, <4>3
    <3>. QED  BY <2>4, <3>1 DEF Injection, IsInjective
  <2>6. IsFiniteSet(1 .. k - 1) /\ Cardinality(1 .. k - 1) = k - 1
    BY SMTT(30), <2>1, FS_Interval
  <2>7. IsFiniteSet(Cuts(ids)) /\ Cardinality(Cuts(ids)) <= k - 1
    BY <2>5, <2>6, FS_Injection
  <2>. QED  BY <1>1, <2>1, <2>7, FS_CardinalityType
<1>. QED  BY <1>2, <1>3

\* What RangesTile says of one frame, and of a fingerprint that its ranges are not empty.
Tiles(m) ==
  /\ m.t \in {"ids", "need"} => Cardinality(m.ids) <= Threshold
  /\ m.t = "fp" =>
       /\ Cardinality(m.parts) \in 1 .. Buckets
       /\ \A r \in m.parts : r.lo < r.hi
       /\ \A e \in Ids :
            Cardinality({r \in m.parts : r.lo < e /\ e <= r.hi}) =
              (IF m.lo < e /\ e <= m.hi THEN 1 ELSE 0)

AllTile == \A p \in Peers : \A m \in inbox[p] : Tiles(m)

\* The ranges of a fingerprint tile its range and are no more than Buckets (buildFp).
LEMMA BuildFpTiles ==
  ASSUME NEW p, NEW ids \in SUBSET Ids, NEW lo \in 0 .. MaxId, NEW hi \in 0 .. MaxId, lo < hi,
         \A e \in ids : lo < e /\ e <= hi
  PROVE  Tiles(BuildFp(p, ids, lo, hi))
<1>. DEFINE S == SubRanges(lo, hi, Cuts(ids))
            part(r) == [lo |-> r.lo, hi |-> r.hi, fp |-> IdsInRange(ids, r.lo, r.hi)]
            parts == {part(r) : r \in S}
            m == BuildFp(p, ids, lo, hi)
<1>1. lo \in Nat /\ hi \in Nat /\ hi \in Ids /\ Ids \subseteq Nat /\ Buckets \in Nat \ {0, 1}
  BY CatchupAssumption DEF Ids
<1>2. Cuts(ids) \in SUBSET Nat /\ \A c \in Cuts(ids) : lo < c /\ c <= hi
  BY <1>1 DEF Cuts
<1>3. /\ \A r \in S : /\ r.lo \in Nat /\ r.hi \in Nat /\ r.lo < r.hi
                     /\ r.hi \in Cuts(ids) \cup {hi}
                     /\ lo <= r.lo /\ r.hi <= hi
      /\ \A r, s \in S : r.hi = s.hi => r = s
      /\ \A e \in Nat : lo < e /\ e <= hi =>
           \E r \in S : /\ r.lo < e /\ e <= r.hi
                       /\ \A s \in S : s.lo < e /\ e <= s.hi => s = r
  BY <1>1, <1>2, Tiling
<1>4. m.t = "fp" /\ m.lo = lo /\ m.hi = hi /\ m.parts = parts
  BY DEF BuildFp
<1>. HIDE DEF S, m
<1>5. \A x \in parts : \E r \in S : x = part(r) /\ x.lo = r.lo /\ x.hi = r.hi
  OBVIOUS
<1>6. \A x \in parts : x.lo < x.hi
  BY <1>3, <1>5
<1>7. ASSUME NEW e \in Ids
      PROVE  Cardinality({x \in parts : x.lo < e /\ e <= x.hi}) = (IF lo < e /\ e <= hi THEN 1 ELSE 0)
  <2>1. CASE lo < e /\ e <= hi
    <3>1. PICK r \in S : /\ r.lo < e /\ e <= r.hi
                        /\ \A s \in S : s.lo < e /\ e <= s.hi => s = r
      BY <1>1, <1>3, <2>1
    <3>2. {x \in parts : x.lo < e /\ e <= x.hi} = {part(r)}
      <4>1. part(r) \in parts /\ part(r).lo = r.lo /\ part(r).hi = r.hi
        OBVIOUS
      <4>2. \A x \in parts : x.lo < e /\ e <= x.hi => x = part(r)
        BY <1>5, <3>1
      <4>. HIDE DEF part, parts
      <4>. QED  BY <3>1, <4>1, <4>2
    <3>. QED  BY <2>1, <3>2, FS_Singleton
  <2>2. CASE ~(lo < e /\ e <= hi)
    <3>1. \A x \in parts : ~(x.lo < e /\ e <= x.hi)
      BY <1>1, <1>3, <1>5, <2>2
    <3>2. {x \in parts : x.lo < e /\ e <= x.hi} = {}
      BY <3>1
    <3>. QED  BY <2>2, <3>2, FS_EmptySet
  <2>. QED  BY <2>1, <2>2
<1>8. IsFiniteSet(parts) /\ Cardinality(parts) \in Nat /\ Cardinality(parts) <= Buckets
  <2>. DEFINE T == Cuts(ids) \cup {hi}
              Hi == [x \in parts |-> x.hi]
  <2>1. IsFiniteSet(T) /\ Cardinality(T) \in Nat /\ Cardinality(T) <= Buckets
    <3>1. IsFiniteSet(Cuts(ids)) /\ Cardinality(Cuts(ids)) <= Buckets - 1 /\ Cardinality(Cuts(ids)) \in Nat
      BY FewCuts, FS_CardinalityType
    <3>2. IsFiniteSet(T) /\ Cardinality(T) = IF hi \in Cuts(ids) THEN Cardinality(Cuts(ids)) ELSE Cardinality(Cuts(ids)) + 1
      BY <3>1, FS_AddElement
    <3>. QED  BY <1>1, <3>1, <3>2
  <2>2. Hi \in Injection(parts, T)
    <3>1. \A x \in parts : Hi[x] \in T
      BY <1>3, <1>5
    <3>2. ASSUME NEW x \in parts, NEW y \in parts, Hi[x] = Hi[y] PROVE x = y
      <4>1. PICK r \in S : x = part(r) /\ x.hi = r.hi
        BY <1>5
      <4>2. PICK s \in S : y = part(s) /\ y.hi = s.hi
        BY <1>5
      <4>3. r = s
        BY <1>3, <3>2, <4>1, <4>2
      <4>. QED  BY <4>1, <4>2, <4>3
    <3>. QED  BY <3>1, <3>2 DEF Injection, IsInjective
  <2>. HIDE DEF T, Hi, parts
  <2>3. IsFiniteSet(parts) /\ Cardinality(parts) <= Cardinality(T)
    BY <2>1, <2>2, FS_Injection
  <2>. QED  BY <1>1, <2>1, <2>3, FS_CardinalityType
<1>9. Cardinality(parts) # 0
  <2>1. parts # {}
    <3>1. PICK r \in S : TRUE
      BY <1>1, <1>3
    <3>2. part(r) \in parts
      OBVIOUS
    <3>. QED  BY <3>2
  <2>. QED  BY <1>8, <2>1, FS_EmptySet
<1>. HIDE DEF parts
<1>10. Cardinality(parts) \in 1 .. Buckets
  BY <1>1, <1>8, <1>9
<1>11. Tiles(m)
  BY <1>4, <1>6, <1>7, <1>10 DEF Tiles
<1>. QED  BY <1>11 DEF m

\* Every answer to a frame that tiles is one that does (respond).
LEMMA RepliesTile ==
  ASSUME NEW p, NEW ids \in SUBSET Ids, NEW m \in Frames, m.t # "EVENT", Tiles(m)
  PROVE  \A f \in Replies(p, ids, m) : Tiles(f)
<1>1. CASE m \in FpFrame
  <2>1. m.t = "fp" /\ m.parts \subseteq [lo : 0 .. MaxId, hi : 0 .. MaxId, fp : SUBSET Ids]
    BY <1>1 DEF FpFrame
  <2>2. ASSUME NEW r \in m.parts
        PROVE  Tiles(AnswerRange(p, ids, r))
    <3>. DEFINE mine == IdsInRange(ids, r.lo, r.hi)
    <3>1. r.lo \in 0 .. MaxId /\ r.hi \in 0 .. MaxId /\ r.lo < r.hi
      BY <2>1 DEF Tiles
    <3>2. mine \in SUBSET Ids /\ \A e \in mine : r.lo < e /\ e <= r.hi
      BY DEF IdsInRange
    <3>3. Tiles(BuildFp(p, mine, r.lo, r.hi))
      BY <3>1, <3>2, BuildFpTiles
    <3>4. Cardinality(mine) <= Threshold =>
            Tiles([t |-> "ids", from |-> p, lo |-> r.lo, hi |-> r.hi, ids |-> mine])
      BY DEF Tiles
    <3>. QED  BY <3>3, <3>4 DEF AnswerRange
  <2>. QED  BY <2>1, <2>2 DEF Replies
<1>2. CASE m \in IdsFrame
  <2>1. m.t = "ids" /\ m.ids \in SUBSET Ids /\ Cardinality(m.ids) <= Threshold
    BY <1>2 DEF IdsFrame, Tiles
  <2>. DEFINE need == m.ids \ IdsInRange(ids, m.lo, m.hi)
  <2>2. Cardinality(need) <= Threshold
    <3>1. IsFiniteSet(m.ids) /\ Cardinality(m.ids) \in Nat /\ Cardinality(need) \in Nat
      BY <2>1, IdsFinite
    <3>2. Cardinality(need) <= Cardinality(m.ids)
      BY <3>1, FS_Subset
    <3>. QED  BY <2>1, <3>1, <3>2, CatchupAssumption
  <2>3. Tiles([t |-> "need", from |-> p, ids |-> need])
    BY <2>2 DEF Tiles
  <2>. QED  BY <2>1, <2>3 DEF Replies
<1>3. CASE m \in NeedFrame
  BY <1>3 DEF Replies, NeedFrame
<1>4. CASE m \in EventFrame
  BY <1>4 DEF EventFrame
<1>. QED  BY <1>1, <1>2, <1>3, <1>4 DEF Frames

\* A round, and an event, tile as well.
LEMMA RoundTiles ==
  ASSUME TypeOK, NEW p \in Peers
  PROVE  Tiles(Round(p))
<1>1. log[p] \in SUBSET Ids /\ MaxId \in Nat \ {0}
  BY CatchupAssumption DEF TypeOK
<1>2. \A e \in log[p] : 0 < e /\ e <= MaxId
  BY <1>1 DEF Ids
<1>. QED  BY <1>1, <1>2, BuildFpTiles DEF Round, BuildInitial

LEMMA EventsTile == \A ids : \A f \in EventFrames(ids) : Tiles(f)
BY DEF EventFrames, Tiles

\* Frames in flight tile when what is published does.
LEMMA BroadcastTiles ==
  ASSUME AllTile, NEW boxes, \A q \in Peers : boxes[q] \subseteq inbox[q],
         NEW p \in Peers, NEW frames, \A f \in frames : Tiles(f), inbox' = Broadcast(boxes, p, frames)
  PROVE  AllTile'
BY BroadcastBounded DEF AllTile, Tiles

\* Every frame in flight fits its segment and leaves no gap, whoever sent it and
\* whatever was lost before (buildFp, respond, buildInitial).
THEOREM Tiled == Safe => []RangesTile
<1>1. Init => AllTile
  BY DEF Init, AllTile
<1>2. TypeOK /\ AllTile /\ [Next]_vars => AllTile'
  <2>. SUFFICES ASSUME TypeOK, AllTile, [Next]_vars
                PROVE  AllTile'
    OBVIOUS
  <2>1. ASSUME NEW p \in Peers, NEW e \in Ids, CommitOwn(p, e) PROVE AllTile'
    BY <2>1, EventsTile, BroadcastTiles DEF CommitOwn
  <2>2. ASSUME NEW p \in Peers, CatchupRound(p) PROVE AllTile'
    BY <2>2, RoundTiles, BroadcastTiles DEF CatchupRound
  <2>3. ASSUME NEW p \in Peers, AnswerSyncReq(p) PROVE AllTile'
    BY <2>3, EventsTile, BroadcastTiles DEF AnswerSyncReq
  <2>4. ASSUME NEW p \in Peers, Connected(p) PROVE AllTile'
    BY <2>4, RoundTiles DEF Connected, AllTile, Deliver, Tiles
  <2>5. ASSUME NEW p \in Peers, NEW m, NEW boxes, Handled(p, m, boxes) PROVE AllTile'
    <3>1. m \in Frames /\ Tiles(m) /\ log[p] \in SUBSET Ids
      BY <2>5 DEF Handled, TypeOK, AllTile
    <3>2. CASE HandleControl(p, m, boxes)
      <4>1. m.t # "EVENT" /\ inbox' = Broadcast(boxes, p, Replies(p, log[p], m) \cup EventFrames(Serves(log[p], m)))
        BY <3>2 DEF HandleControl
      <4>2. \A f \in Replies(p, log[p], m) \cup EventFrames(Serves(log[p], m)) : Tiles(f)
        BY <3>1, <4>1, RepliesTile, EventsTile
      <4>. QED  BY <2>5, <4>1, <4>2, BroadcastTiles DEF Handled
    <3>3. CASE HandleEvent(p, m, boxes)
      BY <2>5, <3>3 DEF Handled, HandleEvent, AllTile, Tiles
    <3>. QED  BY <2>5, <3>2, <3>3 DEF Handled, Handle
  <2>6. ASSUME NEW p \in Peers,
               Bootstrap(p) \/ StartFails(p) \/ FlushDirty(p) \/ Crash(p) \/ \E m \in inbox[p] : Lose(p, m)
        PROVE  AllTile'
    <3>1. \A q \in Peers : inbox'[q] \subseteq inbox[q]
      BY <2>6 DEF Bootstrap, StartFails, FlushDirty, Crash, Lose, TypeOK
    <3>. QED  BY <3>1 DEF AllTile, Tiles
  <2>7. ASSUME NEW p \in Peers, NEW e \in Ids, CommitCut(p, e) PROVE AllTile'
    <3>1. \A q \in Peers : inbox'[q] \subseteq inbox[q]
      BY <2>7 DEF CommitCut, TypeOK
    <3>. QED  BY <3>1 DEF AllTile, Tiles
  <2>8. CASE UNCHANGED vars
    BY <2>8 DEF vars, AllTile, Tiles
  <2>. QED  BY <2>1, <2>2, <2>3, <2>4, <2>5, <2>6, <2>7, <2>8, NextCases
<1>3. AllTile => RangesTile
  BY DEF AllTile, Tiles, RangesTile
<1>. QED  BY <1>1, <1>2, <1>3, TypeCorrect, PTL DEF Safe

-----------------------------------------------------------------------------
\* A fingerprint that agrees is not answered, and serves nothing (respond).
LEMMA AgreedAnswersNothing ==
  ASSUME NEW p, NEW ids, NEW m, m.t = "fp", \A r \in m.parts : r.fp = IdsInRange(ids, r.lo, r.hi)
  PROVE  Replies(p, ids, m) = {} /\ Serves(ids, m) = {}
BY DEF Replies, Serves, Differs

\* Peers that hold the same log publish nothing but rounds, whatever is lost, doubled
\* or restarted meanwhile (respond, catchupRound).
THEOREM AgreementIsQuiet == Safe => AgreedIsQuiet
<1>. DEFINE Quiet == Agreed /\ authored' = authored /\ (\A p \in Peers : ~AnswerSyncReq(p)) =>
                       \A q \in Peers : \A m \in inbox'[q] \ inbox[q] : \E p \in Peers : m = Round(p)
<1>1. TypeOK /\ [Next]_vars => [Quiet]_vars
  <2>. SUFFICES ASSUME TypeOK, Next, Agreed, authored' = authored, \A p \in Peers : ~AnswerSyncReq(p),
                       NEW q \in Peers, NEW f \in inbox'[q] \ inbox[q]
                PROVE  \E p \in Peers : f = Round(p)
    OBVIOUS
  <2>1. PICK ids \in SUBSET Ids : \A p \in Peers :
                /\ log[p] = ids
                /\ \A m \in inbox[p] : m.t = "fp" /\ \A r \in m.parts : r.fp = IdsInRange(ids, r.lo, r.hi)
    BY DEF Agreed
  <2>2. ASSUME NEW p \in Peers, NEW e \in Ids, CommitOwn(p, e) \/ CommitCut(p, e) PROVE FALSE
    BY <2>2 DEF CommitOwn, CommitCut
  <2>3. ASSUME NEW p \in Peers, CatchupRound(p) PROVE f = Round(p)
    BY <2>3, BroadcastBounded DEF CatchupRound
  <2>4. ASSUME NEW p \in Peers, Connected(p) PROVE f = Round(p)
    BY <2>4 DEF Connected, Deliver
  <2>5. ASSUME NEW p \in Peers, NEW m, NEW boxes, Handled(p, m, boxes) PROVE FALSE
    <3>1. m.t = "fp" /\ \A r \in m.parts : r.fp = IdsInRange(log[p], r.lo, r.hi)
      BY <2>1, <2>5 DEF Handled
    <3>2. Replies(p, log[p], m) \cup EventFrames(Serves(log[p], m)) = {}
      BY <3>1, AgreedAnswersNothing DEF EventFrames
    <3>3. inbox' = Broadcast(boxes, p, {})
      BY <2>5, <3>1, <3>2 DEF Handled, Handle, HandleControl, HandleEvent
    <3>4. Broadcast(boxes, p, {})[q] \subseteq boxes[q] \cup {}
      BY BroadcastBounded
    <3>5. boxes[q] \subseteq inbox[q]
      BY <2>5 DEF Handled
    <3>. QED  BY <3>3, <3>4, <3>5
  <2>6. ASSUME NEW p \in Peers,
               Bootstrap(p) \/ StartFails(p) \/ FlushDirty(p) \/ Crash(p) \/ \E m \in inbox[p] : Lose(p, m)
        PROVE  FALSE
    BY <2>6 DEF Bootstrap, StartFails, FlushDirty, Crash, Lose, TypeOK
  <2>. QED  BY <2>2, <2>3, <2>4, <2>5, <2>6, NextCases
<1>. QED  BY <1>1, TypeCorrect, PTL DEF Safe, AgreedIsQuiet
=============================================================================
