-------------------------- MODULE LoamOutbox_proofs --------------------------
(***************************************************************************)
(* For any events and any bounds, and with crashes at any point of a         *)
(* handler: everything committed in a room is signed by the one identity it  *)
(* is bound to, the event Loam is signing is the head of the outbox, and a   *)
(* binding never changes, but for a crash that tears identity.json before    *)
(* anything was signed.  Nothing the user wrote is lost but the event whose  *)
(* hdSign callback a crash cuts in two, and what waits in an outbox.json     *)
(* that a crash tears.                                                       *)
(*                                                                           *)
(* The second half is about order: what waits is always the rest of what was  *)
(* written, so no event overtakes another, and a claim is signed with the key *)
(* that was put aside for it.  The last part is about the binding: the room    *)
(* gets the device key though Loam has a root only after hdStatus has failed   *)
(* three times, or after a restart.                                          *)
(***************************************************************************)
EXTENDS LoamOutbox, TLAPS

\* A room whose own events and whose call in flight agree with its binding.
Sound(s) ==
  /\ s \in RoomState
  /\ \A c \in s.log : c.by = s.mode
  /\ \A c, d \in s.log : c.id = d.id => c = d
  /\ s.signing # "none" => s.mode = "loam"
  /\ s.signing \in Events => s.addr /\ s.outbox # <<>> /\ Head(s.outbox) = s.signing
  /\ s.signing = "identity" => ~s.addr
  /\ s.mode = "loam" /\ ~s.addr => s.log = {}

\* What a room still knows of: committed or waiting.
Known(s) == Committed(s) \cup Waiting(s)

RoomInv ==
  /\ TypeOK
  /\ Sound(room)
  /\ phase # "open" => room = EmptyRoom

-----------------------------------------------------------------------------
(* The outbox as a sequence. *)

\* An appended event waits last, and the head of the outbox stays.
LEMMA AppendOutbox ==
  ASSUME NEW q \in Seq(Events), NEW e \in Events
  PROVE  /\ Append(q, e) \in Seq(Events) /\ Append(q, e) # <<>>
         /\ q # <<>> => Head(Append(q, e)) = Head(q)
         /\ \A i \in 1 .. Len(q) : Append(q, e)[i] = q[i]
         /\ Len(Append(q, e)) = Len(q) + 1 /\ Append(q, e)[Len(q) + 1] = e
<1>1. /\ Append(q, e) \in Seq(Events)
      /\ Len(Append(q, e)) = Len(q) + 1 /\ Append(q, e)[Len(q) + 1] = e
      /\ \A i \in 1 .. Len(q) : Append(q, e)[i] = q[i]
      /\ Len(q) \in Nat
  OBVIOUS
<1>2. Append(q, e) # <<>>
  BY <1>1
<1>3. ASSUME q # <<>> PROVE Head(Append(q, e)) = Head(q)
  <2>1. 1 \in 1 .. Len(q) /\ Head(q) = q[1]
    BY <1>3
  <2>2. Head(Append(q, e)) = Append(q, e)[1]
    BY <1>1, <1>2
  <2> QED BY <1>1, <2>1, <2>2
<1> QED BY <1>1, <1>2, <1>3

\* Only the head leaves with Tail.
LEMMA TailOutbox ==
  ASSUME NEW q \in Seq(Events), q # <<>>
  PROVE  /\ Tail(q) \in Seq(Events) /\ Head(q) \in Events
         /\ \A i \in 1 .. Len(q) : q[i] = Head(q) \/ \E j \in 1 .. Len(Tail(q)) : Tail(q)[j] = q[i]
<1>1. Tail(q) \in Seq(Events) /\ Head(q) \in Events /\ Head(q) = q[1] /\ Len(Tail(q)) = Len(q) - 1
      /\ Len(q) \in Nat \ {0}
  OBVIOUS
<1>2. \A i \in 1 .. Len(q) : i # 1 => i - 1 \in 1 .. Len(Tail(q)) /\ Tail(q)[i - 1] = q[i]
  BY <1>1
<1> QED BY <1>1, <1>2

\* The events that wait are events.
LEMMA WaitingType ==
  ASSUME NEW s \in RoomState
  PROVE  Waiting(s) \subseteq Events
BY DEF Waiting, RoomState

-----------------------------------------------------------------------------
(* The steps of pumpIdentity. *)

\* What is signed for a commit carries the identity it is signed with.
LEMMA SignedType ==
  ASSUME NEW s \in RoomState, NEW e \in Events, NEW by \in {"loam", "device"}
  PROVE  Signed(s, e, by) \in Commits /\ Signed(s, e, by).id = e /\ Signed(s, e, by).by = by
BY DEF Signed, Commits, RoomState

\* Committing events signed with the room's identity keeps it sound and forgets nothing.
LEMMA CommitSound ==
  ASSUME NEW s, Sound(s), NEW new \in SUBSET Commits,
         \A c \in new : c.by = s.mode,
         \A c, d \in new : c.id = d.id => c = d,
         s.mode = "loam" => s.addr
  PROVE  /\ Sound(Commit(s, new))
         /\ Commit(s, new) = [s EXCEPT !.log = Commit(s, new).log]
         /\ s.log \subseteq Commit(s, new).log
         /\ \A c \in new : c.id \in Committed(Commit(s, new))
<1> DEFINE l == s.log \cup {c \in new : c.id \notin Committed(s)}
<1>1. s \in RoomState
  BY DEF Sound
<1>2. /\ Commit(s, new) = [s EXCEPT !.log = l] /\ Commit(s, new).log = l
      /\ Commit(s, new) \in RoomState
  BY <1>1 DEF Commit, RoomState
<1>3. \A c, d \in l : c.id = d.id => c = d
  BY DEF Sound, Committed
<1>4. \A c \in l : c.by = s.mode
  BY DEF Sound
<1>5. \A c \in new : \E d \in l : d.id = c.id
  BY DEF Committed
<1> HIDE DEF l
<1>6. Sound(Commit(s, new))
  BY <1>1, <1>2, <1>3, <1>4 DEF Sound, RoomState
<1>7. \A c \in new : c.id \in Committed(Commit(s, new))
  BY <1>2, <1>5 DEF Committed
<1> QED BY <1>2, <1>6, <1>7 DEF l

\* Deciding the binding only changes an unbound room, which has committed nothing.
LEMMA DecideSound ==
  ASSUME NEW s, Sound(s), NEW h
  PROVE  /\ Sound(Decide(s, h))
         /\ Decide(s, h) = [s EXCEPT !.mode = Decide(s, h).mode]
         /\ s.mode # "" => Decide(s, h) = s
<1>1. CASE Decide(s, h) = s
  <2>1. s = [s EXCEPT !.mode = s.mode]
    BY DEF Sound, RoomState
  <2> QED BY <1>1, <2>1
<1>2. CASE Decide(s, h) # s
  <2>1. PICK m \in {"loam", "device"} : Decide(s, h) = [s EXCEPT !.mode = m]
    BY <1>2 DEF Decide
  <2>2. s.mode = "" /\ s.log = {} /\ s.signing = "none"
    BY ZenonT(30), <1>2 DEF Decide, Sound, RoomState, Commits
  <2>3. [s EXCEPT !.mode = m] \in RoomState
    BY DEF Sound, RoomState, Modes
  <2> QED BY <2>1, <2>2, <2>3 DEF Sound, RoomState
<1> QED BY <1>1, <1>2

\* The device key signs and commits the whole outbox at once.
LEMMA FlushDeviceSound ==
  ASSUME NEW s, Sound(s), s.mode = "device"
  PROVE  /\ Sound(FlushDevice(s)) /\ Known(s) \subseteq Known(FlushDevice(s))
         /\ FlushDevice(s).mode = "device"
<1> DEFINE new == {Signed(s, e, "device") : e \in Waiting(s)}
           c == Commit(s, new)
<1>1. s \in RoomState /\ Waiting(s) \subseteq Events /\ s.signing = "none"
  BY WaitingType DEF Sound
<1>2. \A e \in Waiting(s) : /\ Signed(s, e, "device") \in Commits
                            /\ Signed(s, e, "device").id = e
                            /\ Signed(s, e, "device").by = "device"
  BY <1>1, SignedType
<1>3. new \in SUBSET Commits /\ (\A x \in new : x.by = s.mode)
      /\ \A x, y \in new : x.id = y.id => x = y
  BY <1>2
<1>4. /\ Sound(c) /\ c = [s EXCEPT !.log = c.log] /\ s.log \subseteq c.log
      /\ \A x \in new : x.id \in Committed(c)
  BY <1>3, CommitSound
<1>5. FlushDevice(s) = [c EXCEPT !.outbox = <<>>, !.keys = {}]
  BY DEF FlushDevice
<1>6. Waiting(s) \subseteq Committed(c) /\ Committed(s) \subseteq Committed(c)
  BY ZenonT(30), <1>2, <1>4 DEF Committed
<1> HIDE DEF c, new
<1>7. c \in RoomState /\ c.mode = "device" /\ c.signing = "none"
  BY <1>1, <1>4 DEF Sound, RoomState
<1>8. FlushDevice(s) \in RoomState /\ FlushDevice(s).log = c.log
      /\ FlushDevice(s).mode = "device" /\ FlushDevice(s).signing = "none"
  <2>1. <<>> \in Seq(Events) /\ {} \in SUBSET Events
    OBVIOUS
  <2> QED BY <1>5, <1>7, <2>1 DEF RoomState
<1>9. Sound(FlushDevice(s))
  BY <1>4, <1>7, <1>8, LoamOutboxAssumption DEF Sound
<1> QED BY <1>6, <1>8, <1>9 DEF Known, Committed

\* A call is made for the address, or for the head of a non-empty outbox.
LEMMA AskLoamSound ==
  ASSUME NEW s, Sound(s), s.mode = "loam"
  PROVE  /\ Sound(AskLoam(s)) /\ Known(s) \subseteq Known(AskLoam(s))
         /\ AskLoam(s).mode = "loam"
<1>1. s \in RoomState
  BY DEF Sound
<1>2. CASE s.signing # "none" \/ (s.outbox = <<>> /\ s.addr)
  BY <1>2 DEF AskLoam
<1>3. CASE ~(s.signing # "none" \/ (s.outbox = <<>> /\ s.addr))
  <2> DEFINE call == IF s.addr THEN Head(s.outbox) ELSE "identity"
  <2>1. AskLoam(s) = [s EXCEPT !.signing = call]
    BY <1>3 DEF AskLoam
  <2>2. s.addr => s.outbox # <<>> /\ Head(s.outbox) \in Events
    BY <1>1, <1>3, TailOutbox DEF RoomState
  <2>3. call \in Events \cup {"none", "identity"} /\ call # "none"
        /\ (call \in Events => s.addr /\ s.outbox # <<>> /\ Head(s.outbox) = call)
        /\ (call = "identity" => ~s.addr)
    BY <2>2, LoamOutboxAssumption
  <2> HIDE DEF call
  <2>4. /\ AskLoam(s) \in RoomState /\ AskLoam(s).signing = call /\ AskLoam(s).mode = "loam"
        /\ AskLoam(s).outbox = s.outbox /\ AskLoam(s).addr = s.addr /\ AskLoam(s).log = s.log
    BY <1>1, <2>1, <2>3 DEF RoomState
  <2> QED BY <2>3, <2>4 DEF Sound, Known, Committed, Waiting
<1> QED BY <1>2, <1>3

\* pumpIdentity keeps a room sound and bound as it was, and forgets nothing.
LEMMA PumpSound ==
  ASSUME NEW s, Sound(s), NEW h
  PROVE  /\ Sound(Pump(s, h)) /\ Known(s) \subseteq Known(Pump(s, h))
         /\ s.mode # "" => Pump(s, h).mode = s.mode
<1> DEFINE d == Decide(s, h)
<1>1. Sound(d) /\ d = [s EXCEPT !.mode = d.mode] /\ (s.mode # "" => d = s)
  BY DecideSound
<1>2. Known(d) = Known(s)
  <2> HIDE DEF d
  <2>1. d.log = s.log /\ d.outbox = s.outbox
    BY <1>1 DEF Sound, RoomState
  <2> QED BY <2>1 DEF Known, Committed, Waiting
<1>3. Pump(s, h) = IF d.mode = "device" THEN FlushDevice(d)
                   ELSE IF d.mode = "loam" THEN AskLoam(d) ELSE d
  BY DEF Pump
<1> HIDE DEF d
<1>4. CASE d.mode = "device"
  BY <1>1, <1>2, <1>3, <1>4, FlushDeviceSound
<1>5. CASE d.mode = "loam"
  BY <1>1, <1>2, <1>3, <1>5, AskLoamSound
<1>6. CASE d.mode # "device" /\ d.mode # "loam"
  BY <1>1, <1>2, <1>3, <1>6
<1> QED BY <1>4, <1>5, <1>6

-----------------------------------------------------------------------------
(* The other things a handler does to a room. *)

\* The ticket keys have no part in soundness.
LEMMA KeysSound ==
  ASSUME NEW s, Sound(s), NEW k \in SUBSET Events
  PROVE  /\ Sound([s EXCEPT !.keys = k]) /\ Known([s EXCEPT !.keys = k]) = Known(s)
         /\ [s EXCEPT !.keys = k].mode = s.mode /\ [s EXCEPT !.keys = k].outbox = s.outbox
BY DEF Sound, RoomState, Known, Committed, Waiting

\* A new event waits behind the one in flight.
LEMMA AppendSound ==
  ASSUME NEW s, Sound(s), NEW e \in Events
  PROVE  /\ Sound([s EXCEPT !.outbox = Append(@, e)])
         /\ Known(s) \cup {e} \subseteq Known([s EXCEPT !.outbox = Append(@, e)])
         /\ [s EXCEPT !.outbox = Append(@, e)].mode = s.mode
<1> DEFINE q == Append(s.outbox, e)
           t == [s EXCEPT !.outbox = q]
<1>1. s \in RoomState /\ s.outbox \in Seq(Events)
  BY DEF Sound, RoomState
<1>2. /\ q \in Seq(Events) /\ q # <<>> /\ (s.outbox # <<>> => Head(q) = Head(s.outbox))
      /\ \A i \in 1 .. Len(s.outbox) : q[i] = s.outbox[i]
      /\ Len(q) = Len(s.outbox) + 1 /\ q[Len(s.outbox) + 1] = e
      /\ Len(s.outbox) \in Nat
  BY <1>1, AppendOutbox
<1> HIDE DEF q
<1>3. /\ t \in RoomState /\ t.outbox = q /\ t.mode = s.mode /\ t.log = s.log
      /\ t.signing = s.signing /\ t.addr = s.addr
  BY <1>1, <1>2 DEF RoomState
<1> HIDE DEF t
<1>4. Sound(t)
  BY <1>2, <1>3 DEF Sound
<1>5. Waiting(s) \subseteq Waiting(t)
  <2>1. \A i \in 1 .. Len(s.outbox) : i \in 1 .. Len(q)
    BY <1>2
  <2> QED BY <1>2, <1>3, <2>1 DEF Waiting
<1>6. e \in Waiting(t)
  <2>1. Len(s.outbox) + 1 \in 1 .. Len(q)
    BY <1>2
  <2> QED BY <1>2, <1>3, <2>1 DEF Waiting
<1>7. Known(s) \cup {e} \subseteq Known(t)
  BY <1>3, <1>5, <1>6 DEF Known, Committed
<1> QED BY <1>3, <1>4, <1>7 DEF t, q

\* Without a call in flight a room stays sound, and it stays so when its address comes.
LEMMA AnsweredSound ==
  ASSUME NEW s, Sound(s)
  PROVE  /\ Sound([s EXCEPT !.signing = "none", !.addr = TRUE])
         /\ Sound([s EXCEPT !.signing = "none"])
         /\ Known([s EXCEPT !.signing = "none", !.addr = TRUE]) = Known(s)
         /\ Known([s EXCEPT !.signing = "none"]) = Known(s)
BY LoamOutboxAssumption DEF Sound, RoomState, Known, Committed, Waiting

\* The signed event leaves the outbox, and nothing else does.
LEMMA LeftOutboxSound ==
  ASSUME Sound(room), NEW e \in Events, room.signing = e
  PROVE  /\ Sound(LeftOutbox(e)) /\ Known(room) \subseteq Known(LeftOutbox(e)) \cup {e}
         /\ LeftOutbox(e).mode = "loam" /\ LeftOutbox(e).addr /\ room.mode = "loam"
<1>1. /\ room \in RoomState /\ room.mode = "loam" /\ room.outbox \in Seq(Events)
      /\ room.outbox # <<>> /\ Head(room.outbox) = e /\ room.keys \ {e} \in SUBSET Events
      /\ room.addr
  BY LoamOutboxAssumption DEF Sound, RoomState
<1>2. LeftOutbox(e) = [room EXCEPT !.signing = "none", !.keys = room.keys \ {e},
                                   !.outbox = Tail(room.outbox)]
  BY <1>1 DEF LeftOutbox
<1>3. /\ Tail(room.outbox) \in Seq(Events)
      /\ \A i \in 1 .. Len(room.outbox) :
           room.outbox[i] = e \/ \E j \in 1 .. Len(Tail(room.outbox)) :
                                   Tail(room.outbox)[j] = room.outbox[i]
  BY <1>1, TailOutbox
<1> DEFINE t == Tail(room.outbox)
<1> HIDE DEF t
<1>4. /\ LeftOutbox(e) \in RoomState /\ LeftOutbox(e).mode = "loam"
      /\ LeftOutbox(e).signing = "none" /\ LeftOutbox(e).log = room.log
      /\ LeftOutbox(e).outbox = t /\ LeftOutbox(e).addr = room.addr
  BY <1>1, <1>2, <1>3 DEF RoomState, t
<1>5. Sound(LeftOutbox(e))
  BY <1>1, <1>4, LoamOutboxAssumption DEF Sound
<1>6. Waiting(room) \subseteq Waiting(LeftOutbox(e)) \cup {e}
  BY <1>3, <1>4 DEF Waiting, t
<1> QED BY <1>1, <1>4, <1>5, <1>6 DEF Known, Committed

\* A restart loses the call in flight and decides an unbound room for the device key.
LEMMA ReloadedSound ==
  ASSUME NEW s, Sound(s), phase = "open" \/ s = EmptyRoom
  PROVE  /\ Sound(Reloaded(s)) /\ Known(Reloaded(s)) = Known(s)
         /\ s.mode # "" => Reloaded(s).mode = s.mode
         /\ phase # "open" => Reloaded(s) = EmptyRoom
<1>1. s \in RoomState /\ (s.mode = "" => s.log = {})
  BY DEF Sound, RoomState, Commits
<1> DEFINE m == IF phase = "open" /\ s.mode # "loam" THEN "device" ELSE s.mode
<1>2. Reloaded(s) = [s EXCEPT !.signing = "none", !.mode = m] /\ m \in Modes
  BY <1>1 DEF Reloaded, RoomState, Modes
<1>3. (s.mode # "" => m = s.mode) /\ (phase # "open" => m = s.mode)
  BY <1>1 DEF RoomState, Modes
<1> HIDE DEF m
<1>4. /\ Reloaded(s) \in RoomState /\ Reloaded(s).mode = m /\ Reloaded(s).log = s.log
      /\ Reloaded(s).signing = "none" /\ Reloaded(s).outbox = s.outbox
      /\ Reloaded(s).addr = s.addr /\ (m = "loam" => s.mode = "loam")
  BY <1>1, <1>2 DEF RoomState, m
<1>5. Sound(Reloaded(s)) /\ Known(Reloaded(s)) = Known(s)
  BY ZenonT(30), <1>1, <1>3, <1>4, LoamOutboxAssumption DEF Sound, Known, Committed, Waiting
<1>6. phase # "open" => Reloaded(s) = EmptyRoom
  <2> SUFFICES ASSUME phase # "open" PROVE Reloaded(s) = EmptyRoom
    OBVIOUS
  <2>0. s = EmptyRoom /\ m = s.mode
    BY <1>3
  <2>1. s = EmptyRoom /\ m = ""
    BY <2>0 DEF EmptyRoom
  <2>2. Reloaded(s) = [EmptyRoom EXCEPT !.signing = "none", !.mode = ""]
    BY <1>2, <2>1
  <2> QED BY <2>2 DEF EmptyRoom
<1> QED BY <1>3, <1>4, <1>5, <1>6

\* The room of nobody is sound.
LEMMA EmptySound == Sound(EmptyRoom)
<1>1. <<>> \in Seq(Events)
  OBVIOUS
<1> QED BY <1>1, LoamOutboxAssumption DEF Sound, EmptyRoom, RoomState, Modes

-----------------------------------------------------------------------------
(* The actions.  Each keeps the invariant and a binding once made; and what is
   known of stays known, with what is newly written, except what a crash in the middle
   of a handler takes. *)

Binds ==
  room.mode # "" /\ phase' = "open" =>
    room'.mode = room.mode \/ (CrashInIdentity /\ room.log = {})

Keeps ==
  /\ RoomInv'
  /\ Binds
  /\ NothingLost => NothingLost'

\* How a handler that leaves a sound room, forgetting nothing, keeps it all.
LEMMA KeepsRoom ==
  ASSUME RoomInv, TypeOK', Sound(room'), phase' = phase, phase = "open" \/ room' = room,
         authored' = authored, cut' = cut, lost' = lost, Known(room) \subseteq Known(room'),
         room.mode # "" => room'.mode = room.mode
  PROVE  Keeps
<1>1. RoomInv'
  BY DEF RoomInv
<1>2. NothingLost => NothingLost'
  BY DEF NothingLost, Known
<1> QED BY <1>1, <1>2 DEF Keeps, Binds

\* Asking for the status, or not, keeps the type of hd.
LEMMA AskType ==
  ASSUME NEW h \in HdState, NEW b \in BOOLEAN
  PROVE  Ask(h, b) \in HdState
BY DEF Ask, HdState

\* createSession, joinSession.
LEMMA OpenKeeps == ASSUME RoomInv, Open PROVE Keeps
<1>1. /\ phase = "absent" /\ phase' = "open" /\ room' = room /\ authored' = authored
      /\ cut' = cut /\ lost' = lost
      /\ TypeOK /\ room = EmptyRoom
  BY DEF Open, RoomInv
<1>2. TypeOK'
  BY DEF Open, RoomInv, TypeOK
<1>3. RoomInv'
  BY <1>1, <1>2, EmptySound DEF RoomInv
<1> QED BY <1>1, <1>3 DEF Keeps, Binds, NothingLost, EmptyRoom

\* pushEvent of an own event.
LEMMA AuthorKeeps == ASSUME RoomInv, NEW e \in Events, Author(e) PROVE Keeps
<1> DEFINE s == [room EXCEPT !.keys = IF e \in Claims THEN @ \cup {e} ELSE @]
           q == [s EXCEPT !.outbox = Append(@, e)]
<1>1. TypeOK /\ Sound(room) /\ phase = "open" /\ phase' = phase
      /\ authored' = Append(authored, e) /\ authored \in Seq(Events) /\ cut' = cut /\ lost' = lost
  BY DEF RoomInv, Author, TypeOK
<1>2. \/ /\ s.mode = "device" /\ s.outbox = <<>>
         /\ room' = [Commit(s, {Signed(s, e, "device")}) EXCEPT !.keys = @ \ {e}]
         /\ hd' = hd
      \/ /\ room' = Pump(q, hd) /\ hd' = Ask(hd, NeedsStatus(q, hd))
  BY DEF Author
<1>3. Sound(s) /\ Known(s) = Known(room) /\ s.mode = room.mode
  <2>1. (IF e \in Claims THEN room.keys \cup {e} ELSE room.keys) \in SUBSET Events
    BY <1>1 DEF Sound, RoomState
  <2> QED BY <1>1, <2>1, KeysSound
<1> HIDE DEF s
<1>4. Sound(q) /\ Known(s) \cup {e} \subseteq Known(q) /\ q.mode = s.mode
  BY <1>3, AppendSound
<1> HIDE DEF q
<1>5. /\ Sound(room') /\ Known(room) \cup {e} \subseteq Known(room') /\ hd' \in HdState
      /\ room.mode # "" => room'.mode = room.mode
  <2>1. CASE /\ s.mode = "device" /\ s.outbox = <<>>
             /\ room' = [Commit(s, {Signed(s, e, "device")}) EXCEPT !.keys = @ \ {e}]
             /\ hd' = hd
    <3> DEFINE new == {Signed(s, e, "device")}
               c == Commit(s, new)
    <3>1. s \in RoomState /\ Signed(s, e, "device") \in Commits
          /\ Signed(s, e, "device").by = "device" /\ Signed(s, e, "device").id = e
      BY <1>3, SignedType DEF Sound
    <3>2. /\ Sound(c) /\ c = [s EXCEPT !.log = c.log] /\ s.log \subseteq c.log
          /\ e \in Committed(c)
      <4>1. new \in SUBSET Commits /\ (\A x \in new : x.by = s.mode)
            /\ (\A x, y \in new : x.id = y.id => x = y) /\ \E x \in new : x.id = e
        BY <2>1, <3>1
      <4> HIDE DEF new
      <4> QED BY <1>3, <2>1, <4>1, CommitSound
    <3> HIDE DEF c
    <3>3. c.outbox = s.outbox /\ c.mode = s.mode /\ c.keys \ {e} \in SUBSET Events
      BY <3>1, <3>2 DEF RoomState, Sound
    <3>4. Known(s) \cup {e} \subseteq Known(c)
      BY <3>2, <3>3 DEF Known, Committed, Waiting
    <3>5. room' = [c EXCEPT !.keys = c.keys \ {e}]
      BY <2>1 DEF c
    <3>6. /\ Sound(room') /\ Known(room') = Known(c) /\ room'.mode = c.mode
      <4> DEFINE k == c.keys \ {e}
      <4> HIDE DEF k
      <4>1. k \in SUBSET Events /\ room' = [c EXCEPT !.keys = k]
        BY <3>3, <3>5 DEF k
      <4> QED BY <3>2, <4>1, KeysSound
    <3> QED BY <1>1, <1>3, <2>1, <3>3, <3>4, <3>6 DEF TypeOK
  <2>2. CASE room' = Pump(q, hd) /\ hd' = Ask(hd, NeedsStatus(q, hd))
    <3>1. NeedsStatus(q, hd) \in BOOLEAN /\ hd \in HdState
      BY <1>1 DEF NeedsStatus, TypeOK
    <3> QED BY <1>3, <1>4, <2>2, <3>1, PumpSound, AskType
  <2> QED BY <1>2, <2>1, <2>2
<1>6. TypeOK'
  <2>1. authored' \in Seq(Events)
    BY <1>1, AppendOutbox
  <2> QED BY <1>1, <1>5, <2>1 DEF Author, TypeOK, Sound
<1>7. RoomInv'
  BY <1>1, <1>5, <1>6 DEF RoomInv
<1>8. NothingLost => NothingLost'
  <2>1. \A i \in 1 .. Len(authored') : authored'[i] = e \/ \E j \in 1 .. Len(authored) : authored'[i] = authored[j]
    <3>1. /\ Len(authored) \in Nat /\ Len(authored') = Len(authored) + 1
          /\ authored'[Len(authored) + 1] = e
          /\ \A i \in 1 .. Len(authored) : authored'[i] = authored[i]
      BY <1>1, AppendOutbox
    <3> QED BY <3>1
  <2> QED BY <1>1, <1>5, <2>1 DEF NothingLost, Known
<1> QED BY <1>5, <1>7, <1>8 DEF Keeps, Binds

\* A pump from the timer or a callback, with hd as it leaves it.
LEMMA PumpKeeps ==
  ASSUME RoomInv, NEW s, Sound(s), NEW h, phase' = phase, authored' = authored, cut' = cut, lost' = lost,
         hd' \in HdState, root' \in BOOLEAN, rooted' = rooted,
         crashes' \in 0 .. MaxCrashes, failures' \in 0 .. MaxFailures,
         phase = "open" \/ s = room, Known(room) \subseteq Known(s),
         room.mode # "" => s.mode = room.mode,
         room' = IF phase = "open" THEN Pump(s, h) ELSE s
  PROVE  Keeps
<1>1. /\ Sound(room') /\ Known(s) \subseteq Known(room')
      /\ s.mode # "" => room'.mode = s.mode
  BY PumpSound
<1>2. TypeOK'
  BY <1>1 DEF RoomInv, TypeOK, Sound
<1> QED BY <1>1, <1>2, KeepsRoom

\* A counter below its bound may be advanced.
LEMMA BoundedCounter ==
  ASSUME NEW N \in Nat
  PROVE  0 \in 0 .. N /\ \A n \in 0 .. N : n < N => n + 1 \in 0 .. N
OBVIOUS

\* Only an open room has a call in flight.
LEMMA CallIsOpen == ASSUME RoomInv, room.signing # "none" PROVE phase = "open"
<1>1. EmptyRoom.signing = "none"
  BY DEF EmptyRoom
<1>2. phase # "open" => room = EmptyRoom
  BY DEF RoomInv
<1> QED BY <1>1, <1>2

\* The 15 s tick.
LEMMA TickKeeps == ASSUME RoomInv, Tick PROVE Keeps
<1>1. PICK other \in BOOLEAN :
        LET mine == phase = "open" /\ (room.outbox # <<>> \/ (room.mode = "loam" /\ ~room.addr))
            h    == Ask(hd, (mine \/ other) /\ ~hd.known)
        IN  IF mine \/ other
            THEN /\ hd' = h
                 /\ room' = IF phase = "open" THEN Pump(room, h) ELSE room
            ELSE UNCHANGED <<hd, room>>
  BY DEF Tick
<1> DEFINE mine == phase = "open" /\ (room.outbox # <<>> \/ (room.mode = "loam" /\ ~room.addr))
           h    == Ask(hd, (mine \/ other) /\ ~hd.known)
<1>2. /\ TypeOK /\ Sound(room) /\ hd \in HdState
      /\ UNCHANGED <<root, phase, authored, rooted, cut, lost, crashes, failures>>
  BY DEF Tick, RoomInv, TypeOK
<1>3. h \in HdState
  BY <1>2, AskType
<1>4. CASE mine \/ other
  <2>1. hd' = h /\ room' = IF phase = "open" THEN Pump(room, h) ELSE room
    BY <1>1, <1>4
  <2> HIDE DEF h, mine
  <2> QED BY <1>2, <1>3, <2>1, PumpKeeps DEF TypeOK
<1>5. CASE ~(mine \/ other)
  <2>1. UNCHANGED vars
    BY <1>1, <1>2, <1>5 DEF vars
  <2> QED BY <2>1 DEF vars, Keeps, RoomInv, TypeOK, Binds, NothingLost
<1> QED BY <1>4, <1>5

\* hdStatus's callback, answered or failed.
LEMMA StatusKeeps ==
  ASSUME RoomInv, NEW h \in HdState, StatusCallback(h), failures' \in 0 .. MaxFailures
  PROVE  Keeps
<1>1. /\ TypeOK /\ Sound(room) /\ UNCHANGED <<root, phase, authored, rooted, cut, lost, crashes>>
      /\ room' = IF phase = "open" THEN Pump(room, h) ELSE room
      /\ hd' = Ask(h, phase = "open" /\ NeedsStatus(room, h))
  BY DEF StatusCallback, RoomInv
<1>2. hd' \in HdState
  BY <1>1, AskType
<1> QED BY <1>1, <1>2, PumpKeeps DEF TypeOK

\* What an answer, or a failure, leaves of hd.
LEMMA HdType ==
  ASSUME NEW h \in HdState
  PROVE  /\ Answer(h) \in HdState /\ Answer(h).exists = (h.said = "yes")
         /\ Answer(h).failures = 0 /\ Answer(h).said = "none"
         /\ Failure(h) \in HdState /\ Failure(h).failures = h.failures + 1
         /\ Failure(h).said = "none"
         /\ \/ h.failures + 1 >= 3
            \/ Failure(h).known = h.known /\ Failure(h).exists = h.exists
<1>1. /\ h.known \in BOOLEAN /\ h.exists \in BOOLEAN /\ h.failures \in Nat
      /\ (h.said = "yes") \in BOOLEAN
  BY DEF HdState
<1>2. /\ Answer(h) \in HdState /\ Answer(h).exists = (h.said = "yes")
      /\ Answer(h).failures = 0 /\ Answer(h).said = "none"
  BY <1>1 DEF Answer, HdState
<1> DEFINE n == h.failures + 1
           k == h.known \/ GivesUp(n)
           x == h.exists /\ ~GivesUp(n)
<1>3. k \in BOOLEAN /\ x \in BOOLEAN /\ n \in Nat
  BY <1>1
<1>4. n >= 3 \/ (k = h.known /\ x = h.exists)
  BY <1>1, <1>3 DEF GivesUp
<1>5. Failure(h) = [h EXCEPT !.failures = n, !.querying = FALSE, !.said = "none",
                             !.known = k, !.exists = x]
  BY DEF Failure
<1> HIDE DEF n, k, x
<1>6. /\ Failure(h) \in HdState /\ Failure(h).failures = n /\ Failure(h).said = "none"
      /\ Failure(h).known = k /\ Failure(h).exists = x
  BY <1>3, <1>5 DEF HdState
<1> QED BY <1>2, <1>4, <1>6 DEF n

\* hdStatus works out its answer, answers or fails.
LEMMA HdStatusKeeps ==
  ASSUME RoomInv, StatusComputed \/ StatusAnswered \/ StatusFailed PROVE Keeps
<1>1. TypeOK /\ hd \in HdState
  BY DEF RoomInv, TypeOK
<1>2. CASE StatusComputed
  <2> DEFINE a == IF root THEN "yes" ELSE "no"
  <2>1. /\ hd' = [hd EXCEPT !.said = a]
        /\ UNCHANGED <<root, phase, room, authored, rooted, cut, lost, crashes, failures>>
    BY <1>2 DEF StatusComputed
  <2>2. a \in {"none", "yes", "no"}
    OBVIOUS
  <2> HIDE DEF a
  <2>3. hd' \in HdState
    BY <1>1, <2>1, <2>2 DEF HdState
  <2> QED BY <2>1, <2>3 DEF Keeps, RoomInv, TypeOK, Binds, NothingLost
<1>3. CASE StatusAnswered
  <2>1. Answer(hd) \in HdState /\ failures' \in 0 .. MaxFailures /\ StatusCallback(Answer(hd))
    BY <1>1, <1>3, HdType DEF TypeOK, StatusAnswered
  <2> QED BY <2>1, StatusKeeps
<1>4. CASE StatusFailed
  <2>1. Failure(hd) \in HdState /\ failures' \in 0 .. MaxFailures /\ StatusCallback(Failure(hd))
    BY <1>1, <1>4, HdType, LoamOutboxAssumption DEF TypeOK, StatusFailed
  <2> QED BY <2>1, StatusKeeps
<1> QED BY <1>2, <1>3, <1>4

\* A room that asks Loam for its address has nothing signed yet.
LEMMA IdentityIsFirst ==
  ASSUME Sound(room), room.signing = "identity"
  PROVE  room.log = {}
BY DEF Sound

\* hdIdentity answers with the address.
LEMMA IdentityKeeps == ASSUME RoomInv, IdentityAnswered PROVE Keeps
<1> DEFINE s == [room EXCEPT !.signing = "none", !.addr = TRUE]
<1>1. /\ TypeOK /\ Sound(room) /\ UNCHANGED <<root, hd, phase, authored, rooted, cut, lost, crashes, failures>>
      /\ room.signing = "identity" /\ room' = Pump(s, hd)
  BY DEF IdentityAnswered, RoomInv
<1>2. Sound(s) /\ Known(s) = Known(room) /\ s.mode = room.mode
  BY <1>1, AnsweredSound DEF Sound, RoomState
<1>3. phase = "open"
  BY <1>1, CallIsOpen
<1> HIDE DEF s
<1> QED BY <1>1, <1>2, <1>3, PumpKeeps DEF TypeOK

\* hdSign answers with a good signature: the event moves from the outbox to the log.
LEMMA SignKeeps == ASSUME RoomInv, SignAnswered PROVE Keeps
<1> DEFINE e == room.signing
           l == LeftOutbox(e)
           new == {Signed(room, e, "loam")}
           s == Commit(l, new)
<1>1. /\ TypeOK /\ Sound(room) /\ UNCHANGED <<root, hd, phase, authored, rooted, cut, lost, crashes, failures>>
      /\ e \in Events /\ room' = Pump(s, hd)
  BY DEF SignAnswered, RoomInv
<1>2. phase = "open"
  BY <1>1, CallIsOpen, LoamOutboxAssumption
<1>3. /\ Sound(l) /\ Known(room) \subseteq Known(l) \cup {e} /\ l.mode = "loam" /\ room.mode = "loam"
  BY <1>1, LeftOutboxSound
<1>3a. l.mode = "loam" => l.addr
  BY <1>1, LeftOutboxSound
<1>4. /\ new \in SUBSET Commits /\ (\A x \in new : x.by = l.mode)
      /\ (\A x, y \in new : x.id = y.id => x = y) /\ \E x \in new : x.id = e
  BY <1>1, <1>3, SignedType DEF Sound
<1> HIDE DEF new, l, e
<1>5. /\ Sound(s) /\ s = [l EXCEPT !.log = s.log] /\ l.log \subseteq s.log /\ e \in Committed(s)
  BY <1>3, <1>3a, <1>4, CommitSound
<1> HIDE DEF s
<1>6. s.mode = "loam" /\ s.outbox = l.outbox
  BY <1>3, <1>5 DEF Sound, RoomState
<1>7. Known(room) \subseteq Known(s)
  BY ZenonT(30), <1>3, <1>5, <1>6 DEF Known, Committed, Waiting
<1> QED BY <1>1, <1>2, <1>3, <1>5, <1>6, <1>7, PumpKeeps DEF TypeOK

\* A call to Loam fails.
LEMMA CallFailedKeeps == ASSUME RoomInv, LoamCallFailed PROVE Keeps
<1>1. /\ TypeOK /\ Sound(room) /\ UNCHANGED <<root, hd, phase, authored, rooted, cut, lost, crashes>>
      /\ failures < MaxFailures /\ failures' = failures + 1 /\ room.signing # "none"
      /\ room' = [room EXCEPT !.signing = "none"]
  BY DEF LoamCallFailed, RoomInv
<1>2. phase = "open"
  BY <1>1, CallIsOpen
<1>3. Sound(room') /\ Known(room') = Known(room) /\ room'.mode = room.mode
  BY <1>1, AnsweredSound DEF Sound, RoomState
<1>4. TypeOK'
  BY <1>1, <1>3, LoamOutboxAssumption DEF TypeOK, Sound
<1> QED BY <1>1, <1>2, <1>3, <1>4, KeepsRoom

\* deleteSession, and the user making a root in Loam.
LEMMA DeleteKeeps == ASSUME RoomInv, Delete \/ MakeRoot PROVE Keeps
<1>1. CASE Delete
  <2>1. phase' = "deleted" /\ room' = EmptyRoom /\ authored' = <<>> /\ TypeOK
    BY <1>1 DEF Delete, RoomInv
  <2>2. TypeOK'
    BY <1>1, <2>1, EmptySound DEF Delete, TypeOK, Sound
  <2>3. Sound(room')
    BY <2>1, EmptySound
  <2> QED BY <2>1, <2>2, <2>3 DEF Keeps, RoomInv, Binds, NothingLost
<1>2. CASE MakeRoot
  BY <1>2 DEF MakeRoot, Keeps, RoomInv, TypeOK, Binds, NothingLost
<1> QED BY <1>1, <1>2

\* A restart from a sound room that still has all the old one had.
LEMMA RestartKeeps ==
  ASSUME RoomInv, NEW s, Sound(s), phase = "open" \/ s = room,
         NEW caught \in SUBSET Events, NEW gone \in SUBSET caught, Restart(s, caught, gone),
         room.mode # "" => s.mode = room.mode \/ (CrashInIdentity /\ room.log = {}),
         Known(room) \subseteq Known(s) \cup gone
  PROVE  Keeps
<1>1. /\ TypeOK /\ UNCHANGED <<root, phase, authored, rooted, failures>>
      /\ cut' = cut \cup caught /\ lost' = lost \cup gone /\ lost \subseteq cut
      /\ hd' = HdUnknown /\ room' = Reloaded(s) /\ crashes < MaxCrashes /\ crashes' = crashes + 1
      /\ phase # "open" => s = EmptyRoom
  BY DEF Restart, RoomInv, TypeOK
<1>2. /\ Sound(room') /\ Known(room') = Known(s)
      /\ s.mode # "" => room'.mode = s.mode
      /\ phase # "open" => room' = EmptyRoom
  BY <1>1, ReloadedSound
<1>3. TypeOK'
  <2>1. HdUnknown \in HdState
    BY DEF HdUnknown, HdState
  <2>2. crashes' \in 0 .. MaxCrashes
    <3>1. crashes \in 0 .. MaxCrashes /\ crashes < MaxCrashes /\ crashes' = crashes + 1
      BY <1>1 DEF TypeOK
    <3>2. MaxCrashes \in Nat
      BY LoamOutboxAssumption
    <3> QED BY <3>1, <3>2, BoundedCounter
  <2>3. room' \in RoomState
    BY <1>2 DEF Sound
  <2> QED BY <1>1, <2>1, <2>2, <2>3 DEF TypeOK
<1>4. RoomInv'
  BY <1>1, <1>2, <1>3 DEF RoomInv
<1>5. NothingLost => NothingLost'
  BY <1>1, <1>2 DEF NothingLost, Known
<1>6. Binds
  <2>1. s \in RoomState /\ (s.mode = "" => s.log = {})
    BY DEF Sound, RoomState, Commits
  <2> QED BY <1>1, <1>2, <2>1 DEF Binds
<1> QED BY <1>4, <1>5, <1>6 DEF Keeps

\* The process dies between two handlers, in hdSign's callback, in a flush, or in the
\* middle of writing outbox.json or identity.json.
LEMMA CrashKeeps ==
  ASSUME RoomInv, Crash \/ CrashInSign \/ CrashInFlush \/ CrashInOutbox \/ CrashInIdentity
  PROVE  Keeps
<1>1. CASE Crash
  <2>1. Sound(room) /\ Restart(room, {}, {})
    BY <1>1 DEF Crash, RoomInv
  <2> QED BY <2>1, RestartKeeps
<1>2. CASE CrashInSign
  <2>1. /\ room.signing \in Events /\ Sound(room)
        /\ Restart(LeftOutbox(room.signing), {room.signing}, {room.signing})
    BY <1>2 DEF CrashInSign, RoomInv
  <2>2. phase = "open"
    BY <2>1, CallIsOpen, LoamOutboxAssumption
  <2> DEFINE s == LeftOutbox(room.signing)
  <2>3. /\ Sound(s) /\ s.mode = room.mode /\ s.mode = "loam"
        /\ Known(room) \subseteq Known(s) \cup {room.signing}
    BY <2>1, LeftOutboxSound
  <2> DEFINE caught == {room.signing}
  <2>4. Restart(s, caught, caught) /\ caught \in SUBSET Events /\ caught \in SUBSET caught
    BY <2>1
  <2>5. Known(room) \subseteq Known(s) \cup caught
    BY <2>3
  <2> HIDE DEF s, caught
  <2> QED BY <2>2, <2>3, <2>4, <2>5, RestartKeeps
<1>3. CASE CrashInFlush
  <2> DEFINE caught(n) == {room.outbox[i] : i \in 1 .. n}
  <2>1. PICK k \in 1 .. Len(room.outbox) :
          Restart([Commit(room, {Signed(room, room.outbox[i], "device") : i \in 1 .. k})
                     EXCEPT !.mode = "device"], caught(k), {})
    BY <1>3 DEF CrashInFlush
  <2>2. phase = "open" /\ room.mode \in {"", "device"} /\ Sound(room)
    BY <1>3 DEF CrashInFlush, RoomInv
  <2> DEFINE new == {Signed(room, room.outbox[i], "device") : i \in 1 .. k}
             r == [room EXCEPT !.mode = "device"]
  <2>3. room \in RoomState /\ room.signing = "none" /\ (room.mode = "" => room.log = {})
    BY <2>2 DEF Sound, RoomState, Commits
  <2>4. Sound(r) /\ r.mode = "device" /\ r.log = room.log
    BY <2>2, <2>3, LoamOutboxAssumption DEF Sound, RoomState, Modes
  <2>5. \A i \in 1 .. k : room.outbox[i] \in Events
    <3>0. room.outbox \in Seq(Events)
      BY <2>3 DEF RoomState
    <3>1. room.outbox \in Seq(Events) /\ Len(room.outbox) \in Nat
      BY <3>0
    <3>2. \A i \in 1 .. k : i \in 1 .. Len(room.outbox)
      BY <3>1
    <3> QED BY <3>1, <3>2
  <2>6. /\ new \in SUBSET Commits /\ (\A x \in new : x.by = r.mode)
        /\ (\A x, y \in new : x.id = y.id => x = y)
    <3>1. \A i \in 1 .. k : /\ Signed(room, room.outbox[i], "device") \in Commits
                            /\ Signed(room, room.outbox[i], "device").by = "device"
                            /\ Signed(room, room.outbox[i], "device").id = room.outbox[i]
      BY <2>3, <2>5, SignedType
    <3>2. \A i, j \in 1 .. k : room.outbox[i] = room.outbox[j] =>
            Signed(room, room.outbox[i], "device") = Signed(room, room.outbox[j], "device")
      BY DEF Signed
    <3> QED BY <2>4, <3>1, <3>2
  <2> HIDE DEF new
  <2>7. [Commit(room, new) EXCEPT !.mode = "device"] = Commit(r, new)
    BY <2>3, <2>4 DEF Commit, Committed, RoomState
  <2>8. Sound(Commit(r, new)) /\ Commit(r, new) = [r EXCEPT !.log = Commit(r, new).log]
    BY <2>4, <2>6, CommitSound
  <2>9. Commit(r, new).mode = "device"
    BY <2>3, <2>8 DEF RoomState
  <2>10. Restart(Commit(r, new), caught(k), {}) /\ caught(k) \in SUBSET Events
    BY <2>1, <2>5, <2>7 DEF new
  <2>11. r.log \subseteq Commit(r, new).log
    BY <2>4, <2>6, CommitSound
  <2>12. r \in RoomState /\ r.outbox = room.outbox
    BY <2>3, <2>4 DEF RoomState, Sound
  <2> HIDE DEF r
  <2> DEFINE s == Commit(r, new)
  <2>13. s = [r EXCEPT !.log = s.log] /\ room.log \subseteq s.log
    BY <2>4, <2>8, <2>11
  <2> HIDE DEF s, caught
  <2>14. s.outbox = room.outbox
    BY <2>12, <2>13 DEF RoomState
  <2>15. Known(room) \subseteq Known(s)
    BY <2>13, <2>14 DEF Known, Committed, Waiting
  <2>16. Sound(s) /\ s.mode = "device" /\ Restart(s, caught(k), {})
    BY <2>8, <2>9, <2>10 DEF s
  <2> QED BY <2>2, <2>10, <2>15, <2>16, RestartKeeps
<1>4. CASE CrashInOutbox
  <2> DEFINE s == [room EXCEPT !.outbox = <<>>, !.keys = {}, !.signing = "none"]
             w == Waiting(room)
  <2>1. phase = "open" /\ Restart(s, w, w) /\ Sound(room) /\ room \in RoomState
    BY <1>4 DEF CrashInOutbox, RoomInv, Sound
  <2>2. w \in SUBSET Events
    BY <2>1, WaitingType
  <2>3. <<>> \in Seq(Events) /\ {} \in SUBSET Events
    OBVIOUS
  <2>4. s \in RoomState /\ s.log = room.log /\ s.mode = room.mode /\ s.addr = room.addr
        /\ s.signing = "none"
    BY <2>1, <2>3 DEF RoomState
  <2> HIDE DEF s, w
  <2>5. Sound(s)
    BY <2>1, <2>4, LoamOutboxAssumption DEF Sound
  <2>6. Known(room) \subseteq Known(s) \cup w
    BY <2>4 DEF Known, Committed, w
  <2> QED BY <2>1, <2>2, <2>4, <2>5, <2>6, RestartKeeps
<1>5. CASE CrashInIdentity
  <2> DEFINE s == [room EXCEPT !.mode = "", !.signing = "none"]
  <2>1. /\ room.signing = "identity" /\ Restart(s, {}, {}) /\ Sound(room) /\ room \in RoomState
        /\ phase = "open"
    BY <1>5, CallIsOpen DEF CrashInIdentity, RoomInv, Sound
  <2>2. room.log = {}
    BY <2>1, IdentityIsFirst
  <2>3. s \in RoomState /\ s.log = {} /\ s.mode = "" /\ s.signing = "none" /\ s.outbox = room.outbox
    BY <2>1, <2>2 DEF RoomState, Modes
  <2> HIDE DEF s
  <2>4. Sound(s)
    BY <2>3, LoamOutboxAssumption DEF Sound
  <2>5. Known(room) \subseteq Known(s)
    BY <2>2, <2>3 DEF Known, Committed, Waiting
  <2> QED BY <1>5, <2>1, <2>2, <2>4, <2>5, RestartKeeps
<1> QED BY <1>1, <1>2, <1>3, <1>4, <1>5

-----------------------------------------------------------------------------
\* Every step keeps the invariant, the binding and what is known.
LEMMA NextKeeps == ASSUME RoomInv, [Next]_vars PROVE Keeps
<1>1. CASE Next
  BY <1>1, OpenKeeps, AuthorKeeps, TickKeeps, HdStatusKeeps, IdentityKeeps, SignKeeps,
     CallFailedKeeps, DeleteKeeps, CrashKeeps DEF Next
<1>2. CASE UNCHANGED vars
  BY <1>2 DEF vars, Keeps, RoomInv, TypeOK, Binds, NothingLost
<1> QED BY <1>1, <1>2

\* The room is sound in every reachable state, torn handlers included.
THEOREM Invariance == Safe => []RoomInv
<1>1. Init => RoomInv
  <2> SUFFICES ASSUME Init PROVE RoomInv
    OBVIOUS
  <2>1. <<>> \in Seq(Events) /\ HdUnknown \in HdState
    BY DEF HdUnknown, HdState
  <2>2. room = EmptyRoom /\ Sound(room) /\ room \in RoomState
    BY EmptySound DEF Init, Sound
  <2>3. TypeOK
    <3>1. crashes \in 0 .. MaxCrashes /\ failures \in 0 .. MaxFailures
      BY BoundedCounter, LoamOutboxAssumption DEF Init
    <3>2. root \in BOOLEAN /\ rooted \in {"yes", "late", "no"} /\ phase \in {"absent", "open", "deleted"}
      BY LoamOutboxAssumption DEF Init
    <3>3. authored \in Seq(Events) /\ cut \in SUBSET Events /\ lost \in SUBSET cut /\ hd \in HdState
      BY <2>1 DEF Init
    <3> QED BY <2>2, <3>1, <3>2, <3>3 DEF TypeOK
  <2> QED BY <2>2, <2>3 DEF RoomInv
<1>2. RoomInv /\ [Next]_vars => RoomInv'
  BY NextKeeps DEF Keeps
<1> QED BY <1>1, <1>2, PTL DEF Safe

\* The outbox, the binding and the call in flight keep their types (Session).
THEOREM TypeCorrect == Safe => []TypeOK
BY Invariance, PTL DEF RoomInv

\* Everything committed in a room is signed by the one identity it is bound to, and
\* no event is committed twice, whatever fails, restarts or dies (ADR 0001).
THEOREM SingleAuthor == Safe => []OneIdentity
<1>1. RoomInv => OneIdentity
  BY DEF RoomInv, Sound, OneIdentity
<1> QED BY <1>1, Invariance, PTL

\* hdSign's answer always commits the head of the outbox of a bound room.
THEOREM InFlight == Safe => []InFlightIsHead
<1>1. RoomInv => InFlightIsHead
  BY CallIsOpen DEF RoomInv, Sound, InFlightIsHead
<1> QED BY <1>1, Invariance, PTL

\* A binding, once made, is never changed while the room exists, but by a crash that tears
\* identity.json before anything was signed with it (ADR 0001).
THEOREM StableBinding == Safe => BindingIsStable
<1>1. RoomInv /\ [Next]_vars =>
        [room.mode # "" /\ phase' = "open" =>
           room'.mode = room.mode \/ (CrashInIdentity /\ room.log = {})]_vars
  BY NextKeeps DEF Keeps, Binds
<1> QED BY <1>1, Invariance, PTL DEF BindingIsStable, Safe

\* What the user wrote is committed or waits, whatever fails, restarts or dies, but for an
\* event whose hdSign callback a crash cut in two, and for what waited in an outbox.json
\* that a crash tore (pushEvent, pumpIdentity).
THEOREM NoLoss == Safe => []NothingLost
<1>1. Init => NothingLost
  BY DEF Init, NothingLost
<1>2. RoomInv /\ NothingLost /\ [Next]_vars => NothingLost'
  BY NextKeeps DEF Keeps
<1> QED BY <1>1, <1>2, Invariance, PTL DEF Safe

-----------------------------------------------------------------------------
(* The order of what is written. *)

\* q is the last part of a.
Suffix(a, q) ==
  /\ Len(q) <= Len(a)
  /\ \A i \in 1 .. Len(q) : q[i] = a[Len(a) - Len(q) + i]

\* What has left the outbox q of a room in which a was written.
Gone(a, q) == {a[i] : i \in 1 .. Len(a) - Len(q)}

Distinct(a) == \A i, j \in 1 .. Len(a) : a[i] = a[j] => i = j

Proven(s) ==
  /\ \A c \in s.log : c.proof <=> c.id \in Claims
  /\ s.keys = Waiting(s) \cap Claims

\* The outbox s.outbox and the log s.log of a room in which a was written; `torn' when a
\* crash has hit between two file writes of it.
Ordered(a, s, torn) ==
  /\ Suffix(a, s.outbox)
  /\ Proven(s)
  /\ ~torn => Committed(s) = Gone(a, s.outbox)

OrderInv ==
  /\ RoomInv
  /\ Distinct(authored)
  /\ Ordered(authored, room, cut # {})

-----------------------------------------------------------------------------
(* The operators of pumpIdentity. *)

\* Only the log, the outbox and the keys matter.
LEMMA OrderedSame ==
  ASSUME NEW a, NEW s, NEW t, NEW torn \in BOOLEAN, Ordered(a, s, torn),
         t.log = s.log, t.outbox = s.outbox, t.keys = s.keys
  PROVE  Ordered(a, t, torn)
<1>1. Waiting(t) = Waiting(s) /\ Committed(t) = Committed(s)
  BY DEF Waiting, Committed
<1>2. Proven(t)
  BY <1>1 DEF Ordered, Proven
<1> QED BY <1>1, <1>2 DEF Ordered

\* The first m - k and the last k of m values are all of them.
LEMMA LastPart ==
  ASSUME NEW m \in Nat, NEW k \in Nat, k <= m
  PROVE  /\ \A i \in 1 .. k : m - k + i \in 1 .. m
         /\ \A i \in 1 .. m : i \in 1 .. m - k \/ \E j \in 1 .. k : m - k + j = i
         /\ \A i \in 1 .. m - k : i \in 1 .. m
<1>1. \A i \in 1 .. m : i \in 1 .. m - k \/ (i - (m - k) \in 1 .. k /\ m - k + (i - (m - k)) = i)
  OBVIOUS
<1>2. \A i \in 1 .. m : i \in 1 .. m - k \/ \E j \in 1 .. k : m - k + j = i
  BY <1>1
<1> QED BY <1>2

\* One value more.
LEMMA OneMore ==
  ASSUME NEW k \in Nat
  PROVE  /\ \A i \in 1 .. k + 1 : i = k + 1 \/ i \in 1 .. k
         /\ k + 1 \in 1 .. k + 1 /\ \A i \in 1 .. k : i \in 1 .. k + 1
OBVIOUS

\* What waits and what is gone is what was written.
LEMMA GoneOrWaiting ==
  ASSUME NEW a \in Seq(Events), NEW s \in RoomState, Suffix(a, s.outbox)
  PROVE  /\ Gone(a, s.outbox) \cup Waiting(s) = Gone(a, <<>>)
         /\ Suffix(a, <<>>)
<1>1. /\ Len(a) \in Nat /\ Len(s.outbox) \in Nat /\ Len(s.outbox) <= Len(a) /\ Len(<<>>) = 0
      /\ \A i \in 1 .. Len(s.outbox) : s.outbox[i] = a[Len(a) - Len(s.outbox) + i]
  BY DEF Suffix, RoomState
<1>2. Suffix(a, <<>>)
  BY <1>1 DEF Suffix
<1>3. Gone(a, <<>>) = {a[i] : i \in 1 .. Len(a)}
  BY <1>1 DEF Gone
<1> DEFINE n == Len(a)
           k == Len(s.outbox)
           o == s.outbox
<1>4. /\ \A i \in 1 .. k : n - k + i \in 1 .. n
      /\ \A i \in 1 .. n : i \in 1 .. n - k \/ \E j \in 1 .. k : n - k + j = i
      /\ \A i \in 1 .. n - k : i \in 1 .. n
  BY <1>1, LastPart
<1>5. Gone(a, o) = {a[i] : i \in 1 .. n - k} /\ Waiting(s) = {o[i] : i \in 1 .. k}
  BY DEF Gone, Waiting
<1>6. \A i \in 1 .. k : o[i] = a[n - k + i]
  BY <1>1
<1> HIDE DEF n, k, o
<1>7. Waiting(s) \subseteq {a[i] : i \in 1 .. n}
  BY <1>4, <1>5, <1>6
<1>8. Gone(a, o) \subseteq {a[i] : i \in 1 .. n}
  BY <1>4, <1>5
<1>9. \A i \in 1 .. n : a[i] \in Gone(a, o) \cup Waiting(s)
  <2>1. SUFFICES ASSUME NEW i \in 1 .. n PROVE a[i] \in Gone(a, o) \cup Waiting(s)
    OBVIOUS
  <2>2. CASE i \in 1 .. n - k
    BY <1>5, <2>2
  <2>3. CASE \E j \in 1 .. k : n - k + j = i
    BY <1>5, <1>6, <2>3
  <2> QED BY <1>4, <2>2, <2>3
<1>10. Gone(a, <<>>) = {a[i] : i \in 1 .. n}
  BY <1>3 DEF n
<1>11. Gone(a, o) \cup Waiting(s) = Gone(a, <<>>)
  BY <1>7, <1>8, <1>9, <1>10
<1> QED BY <1>2, <1>11 DEF o

\* commitOwn adds the events it is given, each with the proof it has.
LEMMA CommitOrder ==
  ASSUME NEW s \in RoomState, NEW new \in SUBSET Commits,
         \A c \in s.log : c.proof <=> c.id \in Claims,
         \A c \in new : c.proof <=> c.id \in Claims
  PROVE  /\ \A c \in Commit(s, new).log : c.proof <=> c.id \in Claims
         /\ Committed(Commit(s, new)) = Committed(s) \cup {c.id : c \in new}
         /\ Commit(s, new).outbox = s.outbox /\ Commit(s, new).keys = s.keys
         /\ Commit(s, new) \in RoomState
<1> DEFINE l == s.log \cup {c \in new : c.id \notin Committed(s)}
<1>1. /\ Commit(s, new) = [s EXCEPT !.log = l] /\ Commit(s, new).log = l
      /\ Commit(s, new) \in RoomState
      /\ Commit(s, new).outbox = s.outbox /\ Commit(s, new).keys = s.keys
  BY DEF Commit, RoomState
<1>2. Committed(Commit(s, new)) = Committed(s) \cup {c.id : c \in new}
  BY <1>1 DEF Committed
<1> QED BY <1>1, <1>2

\* An event that waits is signed with its proof exactly if it is a claim.
LEMMA SignedProof ==
  ASSUME NEW s \in RoomState, Proven(s), NEW e \in Waiting(s), NEW by \in {"loam", "device"}
  PROVE  /\ Signed(s, e, by) \in Commits /\ Signed(s, e, by).id = e
         /\ Signed(s, e, by).proof <=> e \in Claims
<1>1. e \in Events
  BY WaitingType
<1> QED BY <1>1, SignedType DEF Signed, Proven

\* The device key signs all that waits.
LEMMA FlushDeviceOrder ==
  ASSUME NEW a \in Seq(Events), NEW s \in RoomState, NEW torn \in BOOLEAN, Ordered(a, s, torn)
  PROVE  Ordered(a, FlushDevice(s), torn)
<1> DEFINE new == {Signed(s, e, "device") : e \in Waiting(s)}
           c == Commit(s, new)
<1>1. \A e \in Waiting(s) : /\ Signed(s, e, "device") \in Commits /\ Signed(s, e, "device").id = e
                            /\ Signed(s, e, "device").proof <=> e \in Claims
  BY SignedProof DEF Ordered
<1>2. new \in SUBSET Commits /\ (\A x \in new : x.proof <=> x.id \in Claims)
      /\ {x.id : x \in new} = Waiting(s)
  BY <1>1
<1> HIDE DEF new
<1>3. /\ \A x \in c.log : x.proof <=> x.id \in Claims
      /\ Committed(c) = Committed(s) \cup Waiting(s)
      /\ c \in RoomState
  BY <1>2, CommitOrder DEF Ordered, Proven
<1>4. FlushDevice(s) = [c EXCEPT !.outbox = <<>>, !.keys = {}]
  BY DEF FlushDevice, new
<1> HIDE DEF c
<1>5. /\ FlushDevice(s).log = c.log /\ FlushDevice(s).outbox = <<>> /\ FlushDevice(s).keys = {}
  BY <1>3, <1>4 DEF RoomState
<1>6. Waiting(FlushDevice(s)) = {} /\ Committed(FlushDevice(s)) = Committed(c)
  BY <1>5 DEF Waiting, Committed
<1>7. Gone(a, s.outbox) \cup Waiting(s) = Gone(a, <<>>) /\ Suffix(a, <<>>)
  BY GoneOrWaiting DEF Ordered
<1> QED BY <1>3, <1>5, <1>6, <1>7 DEF Ordered, Proven

\* pumpIdentity keeps the order.
LEMMA PumpOrder ==
  ASSUME NEW a \in Seq(Events), NEW s, Sound(s), NEW h, NEW torn \in BOOLEAN, Ordered(a, s, torn)
  PROVE  Ordered(a, Pump(s, h), torn)
<1> DEFINE d == Decide(s, h)
<1>1. Sound(d) /\ d = [s EXCEPT !.mode = d.mode] /\ s \in RoomState
  BY DecideSound DEF Sound
<1>2. Pump(s, h) = IF d.mode = "device" THEN FlushDevice(d)
                   ELSE IF d.mode = "loam" THEN AskLoam(d) ELSE d
  BY DEF Pump
<1> HIDE DEF d
<1>3. d.log = s.log /\ d.outbox = s.outbox /\ d.keys = s.keys /\ d \in RoomState
  BY <1>1 DEF RoomState, Sound
<1>4. Ordered(a, d, torn)
  BY <1>3, OrderedSame
<1>5. AskLoam(d).log = d.log /\ AskLoam(d).outbox = d.outbox /\ AskLoam(d).keys = d.keys
  BY <1>3 DEF AskLoam, RoomState
<1>6. Ordered(a, AskLoam(d), torn)
  BY <1>4, <1>5, OrderedSame
<1> QED BY <1>2, <1>3, <1>4, <1>6, FlushDeviceOrder

-----------------------------------------------------------------------------
(* The other things a handler does to a room. *)

\* What the user writes goes to the end of the outbox, a claim's key is put aside.
LEMMA AppendOrder ==
  ASSUME NEW a \in Seq(Events), NEW s \in RoomState, NEW torn \in BOOLEAN, Ordered(a, s, torn),
         NEW e \in Events, NEW k, k = IF e \in Claims THEN s.keys \cup {e} ELSE s.keys
  PROVE  Ordered(Append(a, e), [s EXCEPT !.keys = k, !.outbox = Append(s.outbox, e)], torn)
<1> DEFINE b == Append(a, e)
           q == Append(s.outbox, e)
           t == [s EXCEPT !.keys = k, !.outbox = q]
<1>1. /\ Len(a) \in Nat /\ Len(s.outbox) \in Nat /\ Len(s.outbox) <= Len(a)
      /\ \A i \in 1 .. Len(s.outbox) : s.outbox[i] = a[Len(a) - Len(s.outbox) + i]
  BY DEF Ordered, Suffix, RoomState
<1>2. /\ Len(b) = Len(a) + 1 /\ b[Len(a) + 1] = e /\ \A i \in 1 .. Len(a) : b[i] = a[i]
      /\ Len(q) = Len(s.outbox) + 1 /\ q[Len(s.outbox) + 1] = e
      /\ \A i \in 1 .. Len(s.outbox) : q[i] = s.outbox[i]
  BY AppendOutbox DEF RoomState
<1>3. t.log = s.log /\ t.outbox = q /\ t.keys = k
  BY DEF RoomState
<1> HIDE DEF b, q, t
<1> DEFINE m == Len(a)
           l == Len(s.outbox)
           o == s.outbox
<1>4. /\ m \in Nat /\ l \in Nat /\ l <= m /\ Len(b) = m + 1 /\ Len(q) = l + 1
      /\ Waiting(s) = {o[i] : i \in 1 .. l} /\ Gone(a, o) = {a[i] : i \in 1 .. m - l}
      /\ \A i \in 1 .. l : o[i] = a[m - l + i]
      /\ \A i \in 1 .. l : q[i] = o[i]
      /\ \A i \in 1 .. m : b[i] = a[i]
      /\ b[m + 1] = e /\ q[l + 1] = e
  BY <1>1, <1>2 DEF Waiting, Gone
<1> HIDE DEF m, l, o
<1>5. (m + 1) - (l + 1) = m - l /\ l + 1 <= m + 1
  BY <1>4
<1>6. /\ \A i \in 1 .. l + 1 : i = l + 1 \/ i \in 1 .. l
      /\ l + 1 \in 1 .. l + 1 /\ \A i \in 1 .. l : i \in 1 .. l + 1
  BY <1>4, OneMore
<1>7. Suffix(b, q)
  <2>1. ASSUME NEW i \in 1 .. l + 1 PROVE q[i] = b[m - l + i]
    <3>1. CASE i = l + 1
      <4>1. m - l + i = m + 1
        BY <1>4, <3>1
      <4> QED BY <1>4, <3>1, <4>1
    <3>2. CASE i \in 1 .. l
      <4>1. m - l + i \in 1 .. m
        BY <1>4, <3>2
      <4> QED BY <1>4, <3>2, <4>1
    <3> QED BY <1>6, <3>1, <3>2
  <2> QED BY <1>4, <1>5, <2>1 DEF Suffix
<1>8. Waiting(t) = Waiting(s) \cup {e}
  <2>1. Waiting(t) = {q[i] : i \in 1 .. l + 1}
    BY <1>3, <1>4 DEF Waiting
  <2>2. {q[i] : i \in 1 .. l + 1} \subseteq {o[i] : i \in 1 .. l} \cup {e}
    BY <1>4, <1>6
  <2>3. \A i \in 1 .. l : o[i] \in {q[j] : j \in 1 .. l + 1}
    BY <1>4, <1>6
  <2>4. e \in {q[j] : j \in 1 .. l + 1}
    BY <1>4, <1>6
  <2> QED BY SMTT(30), <1>4, <2>1, <2>2, <2>3, <2>4
<1>9. Proven(t)
  BY <1>3, <1>8 DEF Ordered, Proven
<1>10. Gone(b, q) = Gone(a, o)
  <2>1. Gone(b, q) = {b[i] : i \in 1 .. m - l}
    BY <1>4, <1>5 DEF Gone
  <2>2. \A i \in 1 .. m - l : b[i] = a[i]
    BY <1>4
  <2> QED BY <1>4, <2>1, <2>2
<1>11. Committed(t) = Committed(s)
  BY <1>3 DEF Committed
<1> QED BY <1>3, <1>7, <1>9, <1>10, <1>11 DEF Ordered, b, q, t, o

\* The head of the outbox leaves it, with its key.
LEMMA LeftOutboxOrder ==
  ASSUME NEW a \in Seq(Events), Distinct(a), Sound(room), NEW e \in Events, room.signing = e,
         NEW torn \in BOOLEAN, Ordered(a, room, torn)
  PROVE  /\ Suffix(a, LeftOutbox(e).outbox) /\ Proven(LeftOutbox(e))
         /\ Gone(a, LeftOutbox(e).outbox) = Gone(a, room.outbox) \cup {e}
         /\ LeftOutbox(e).log = room.log /\ LeftOutbox(e) \in RoomState
         /\ e \in Waiting(room)
<1> DEFINE q == room.outbox
           t == Tail(q)
           l == LeftOutbox(e)
<1>1. /\ room \in RoomState /\ q \in Seq(Events) /\ q # <<>> /\ Head(q) = e
  BY LoamOutboxAssumption DEF Sound, RoomState
<1>2. /\ t \in Seq(Events) /\ Len(t) = Len(q) - 1 /\ Len(q) \in Nat \ {0} /\ q[1] = e /\ Len(a) \in Nat
      /\ \A i \in 1 .. Len(t) : t[i] = q[i + 1]
  BY <1>1
<1>3. l = [room EXCEPT !.signing = "none", !.keys = room.keys \ {e}, !.outbox = t]
  BY <1>1 DEF LeftOutbox
<1> HIDE DEF l, t
<1>4. l \in RoomState /\ l.log = room.log /\ l.keys = room.keys \ {e} /\ l.outbox = t
  BY <1>1, <1>2, <1>3 DEF RoomState
<1>5. Len(q) <= Len(a) /\ \A i \in 1 .. Len(q) : q[i] = a[Len(a) - Len(q) + i]
  BY DEF Ordered, Suffix
<1> HIDE DEF q
<1>6. Suffix(a, t)
  <2>1. \A i \in 1 .. Len(t) : i + 1 \in 1 .. Len(q) /\ Len(a) - Len(q) + (i + 1) = Len(a) - Len(t) + i
    BY <1>2
  <2> QED BY <1>2, <1>5, <2>1 DEF Suffix
<1>7. Waiting(l) = Waiting(room) \ {e} /\ e \in Waiting(room)
  <2>1. \A i \in 1 .. Len(q) : i = 1 \/ (i - 1 \in 1 .. Len(t) /\ t[i - 1] = q[i])
    BY <1>2
  <2>2. \A i \in 1 .. Len(t) : i + 1 \in 1 .. Len(q) /\ t[i] = q[i + 1]
    BY <1>2
  <2>3. \A i \in 1 .. Len(t) : t[i] # e
    <3>1. SUFFICES ASSUME NEW i \in 1 .. Len(t), t[i] = e PROVE FALSE
      OBVIOUS
    <3>2. q[i + 1] = q[1] /\ i + 1 \in 1 .. Len(q) /\ 1 \in 1 .. Len(q)
      BY <1>2, <3>1, <2>2
    <3>3. /\ Len(a) - Len(q) + (i + 1) \in 1 .. Len(a) /\ Len(a) - Len(q) + 1 \in 1 .. Len(a)
          /\ Len(a) - Len(q) + (i + 1) # Len(a) - Len(q) + 1
      BY <1>2, <1>5, <3>2
    <3>4. a[Len(a) - Len(q) + (i + 1)] = a[Len(a) - Len(q) + 1]
      BY <1>5, <3>2
    <3> QED BY <3>3, <3>4 DEF Distinct
  <2>4. 1 \in 1 .. Len(q)
    BY <1>2
  <2>5. Waiting(l) = {t[i] : i \in 1 .. Len(t)} /\ Waiting(room) = {q[i] : i \in 1 .. Len(q)}
    BY <1>4 DEF Waiting, q
  <2> QED BY <1>2, <2>1, <2>2, <2>3, <2>4, <2>5
<1>8. Proven(l)
  BY <1>4, <1>7 DEF Ordered, Proven
<1>9. Gone(a, t) = Gone(a, q) \cup {e}
  <2> DEFINE n == Len(a) - Len(q)
  <2>1. Len(a) - Len(t) = n + 1 /\ n \in Nat
    BY <1>2, <1>5
  <2>2. a[n + 1] = e
    BY <1>2, <1>5
  <2>3. \A i \in 1 .. n + 1 : i = n + 1 \/ i \in 1 .. n
    BY <2>1
  <2>4. n + 1 \in 1 .. n + 1 /\ \A i \in 1 .. n : i \in 1 .. n + 1
    BY <2>1
  <2> QED BY <2>1, <2>2, <2>3, <2>4 DEF Gone
<1> QED BY <1>4, <1>6, <1>7, <1>8, <1>9 DEF l, q

\* A restart forgets the call in flight and may bind the room, no more.
LEMMA ReloadedOrder ==
  ASSUME NEW a, NEW s \in RoomState, NEW torn \in BOOLEAN, Ordered(a, s, torn)
  PROVE  Ordered(a, Reloaded(s), torn)
<1>1. Reloaded(s).log = s.log /\ Reloaded(s).outbox = s.outbox /\ Reloaded(s).keys = s.keys
  BY DEF Reloaded, RoomState
<1> QED BY <1>1, OrderedSame

-----------------------------------------------------------------------------
(* The actions. *)

Orders == Distinct(authored') /\ Ordered(authored', room', cut' # {})

\* A handler that leaves what was written alone and pumps a room with everything in order.
LEMMA PumpOrders ==
  ASSUME OrderInv, NEW s, Sound(s), NEW h, Ordered(authored, s, cut # {}),
         room' = Pump(s, h) \/ room' = s, authored' = authored, cut' = cut
  PROVE  Orders
<1>1. authored \in Seq(Events)
  BY DEF OrderInv, RoomInv, TypeOK
<1> QED BY <1>1, PumpOrder DEF OrderInv, Orders

\* The user writes an event.
LEMMA AuthorOrders == ASSUME OrderInv, NEW e \in Events, Author(e) PROVE Orders
<1> DEFINE k == IF e \in Claims THEN room.keys \cup {e} ELSE room.keys
           s == [room EXCEPT !.keys = k]
           o == Append(room.outbox, e)
           q == [room EXCEPT !.keys = k, !.outbox = o]
           a == Append(authored, e)
           torn == cut # {}
<1>1. /\ TypeOK /\ Sound(room) /\ room \in RoomState /\ authored \in Seq(Events)
      /\ Distinct(authored) /\ Ordered(authored, room, torn) /\ torn \in BOOLEAN
  BY DEF OrderInv, RoomInv, TypeOK
<1>2. /\ authored' = a /\ cut' = cut /\ \A i \in 1 .. Len(authored) : authored[i] # e
  BY DEF Author
<1>3. k \in SUBSET Events /\ Sound(s) /\ s \in RoomState
  <2>1. k \in SUBSET Events
    BY <1>1 DEF RoomState
  <2> HIDE DEF k
  <2> QED BY <1>1, <2>1, KeysSound DEF Sound
<1>4. /\ s.outbox = room.outbox /\ s.keys = k /\ s.mode = room.mode /\ s.log = room.log
      /\ [s EXCEPT !.outbox = o] = q
  BY <1>1 DEF RoomState
<1>5. \/ /\ s.mode = "device" /\ s.outbox = <<>>
         /\ room' = [Commit(s, {Signed(s, e, "device")}) EXCEPT !.keys = @ \ {e}]
      \/ room' = Pump(q, hd)
  BY <1>1, <1>4 DEF Author
<1> HIDE DEF o
<1>6. Sound(q)
  BY <1>3, <1>4, AppendSound DEF o
<1>7. Ordered(a, q, torn) /\ a \in Seq(Events)
  BY <1>1, AppendOrder, AppendOutbox DEF o
<1>8. Distinct(a)
  <2> DEFINE n == Len(authored)
  <2>1. n \in Nat /\ Len(a) = n + 1 /\ a[n + 1] = e /\ \A i \in 1 .. n : a[i] = authored[i]
    BY <1>1, AppendOutbox
  <2>2. \A i, j \in 1 .. n : authored[i] = authored[j] => i = j
    BY <1>1 DEF Distinct
  <2>3. \A i \in 1 .. n : authored[i] # e
    BY <1>2
  <2> HIDE DEF n, a
  <2>4. \A i \in 1 .. n + 1 : i = n + 1 \/ i \in 1 .. n
    BY <2>1, OneMore
  <2> QED BY <2>1, <2>2, <2>3, <2>4 DEF Distinct
<1>9. Ordered(a, room', torn)
  <2>1. CASE room' = Pump(q, hd)
    BY <1>6, <1>7, <2>1, PumpOrder
  <2>2. CASE /\ s.mode = "device" /\ s.outbox = <<>>
             /\ room' = [Commit(s, {Signed(s, e, "device")}) EXCEPT !.keys = @ \ {e}]
    <3> DEFINE new == {Signed(s, e, "device")}
               c == Commit(s, new)
    <3>1. room.outbox = <<>> /\ Waiting(room) = {} /\ room.keys = {} /\ k \ {e} = {}
      BY <1>1, <1>4, <2>2 DEF Waiting, Ordered, Proven
    <3>2. /\ Signed(s, e, "device") \in Commits /\ Signed(s, e, "device").id = e
      BY <1>3, SignedType
    <3>3. Signed(s, e, "device").proof <=> e \in Claims
      BY <1>4, <3>1 DEF Signed
    <3>4. /\ new \in SUBSET Commits /\ (\A x \in new : x.proof <=> x.id \in Claims)
          /\ {x.id : x \in new} = {e} /\ \A x \in s.log : x.proof <=> x.id \in Claims
      BY <1>1, <1>4, <3>2, <3>3 DEF Ordered, Proven
    <3> HIDE DEF new, s, k
    <3>5. /\ \A x \in c.log : x.proof <=> x.id \in Claims
          /\ Committed(c) = Committed(s) \cup {e} /\ c.outbox = s.outbox /\ c.keys = s.keys
          /\ c \in RoomState
      BY <1>3, <3>4, CommitOrder
    <3> HIDE DEF c
    <3>6. room' = [c EXCEPT !.keys = @ \ {e}]
      BY <2>2 DEF c, new
    <3>7. room'.log = c.log /\ room'.outbox = <<>> /\ room'.keys = {}
      BY <1>4, <2>2, <3>1, <3>5, <3>6 DEF RoomState
    <3>8. Committed(room') = Committed(room) \cup {e} /\ Waiting(room') = {}
      BY <1>4, <3>5, <3>7 DEF Committed, Waiting
    <3>9. ~torn => Committed(room) = Gone(authored, <<>>)
      BY <1>1, <3>1 DEF Ordered
    <3>10. Gone(a, <<>>) = Gone(authored, <<>>) \cup {e} /\ Suffix(a, <<>>)
      <4> DEFINE n == Len(authored)
      <4>1. n \in Nat /\ Len(a) = n + 1 /\ a[n + 1] = e /\ \A i \in 1 .. n : a[i] = authored[i]
        BY <1>1, AppendOutbox
      <4> HIDE DEF a
      <4>2. Gone(authored, <<>>) = {authored[i] : i \in 1 .. n} /\ Gone(a, <<>>) = {a[i] : i \in 1 .. n + 1}
        BY <4>1 DEF Gone
      <4>3. Suffix(a, <<>>)
        BY <4>1 DEF Suffix
      <4> HIDE DEF n
      <4>4. \A i \in 1 .. n + 1 : i = n + 1 \/ i \in 1 .. n
        BY <4>1, OneMore
      <4>5. n + 1 \in 1 .. n + 1 /\ \A i \in 1 .. n : i \in 1 .. n + 1
        BY <4>1, OneMore
      <4>6. \A i \in 1 .. n + 1 : a[i] \in {authored[j] : j \in 1 .. n} \cup {e}
        BY <4>1, <4>4
      <4>7. e \in {a[i] : i \in 1 .. n + 1} /\ \A j \in 1 .. n : authored[j] \in {a[i] : i \in 1 .. n + 1}
        BY <4>1, <4>5
      <4> QED BY <4>2, <4>3, <4>6, <4>7
    <3> QED BY <3>5, <3>7, <3>8, <3>9, <3>10 DEF Ordered, Proven
  <2> QED BY <1>5, <2>1, <2>2
<1> QED BY <1>2, <1>8, <1>9 DEF Orders

\* hdSign's answer moves the head of the outbox to the log.
LEMMA SignOrders == ASSUME OrderInv, SignAnswered PROVE Orders
<1> DEFINE e == room.signing
           l == LeftOutbox(e)
           new == {Signed(room, e, "loam")}
           s == Commit(l, new)
           torn == cut # {}
<1>1. /\ Sound(room) /\ room \in RoomState /\ authored \in Seq(Events) /\ Distinct(authored)
      /\ Ordered(authored, room, torn) /\ torn \in BOOLEAN /\ e \in Events /\ room' = Pump(s, hd)
      /\ authored' = authored /\ cut' = cut
  BY DEF OrderInv, RoomInv, TypeOK, SignAnswered
<1>2. /\ Suffix(authored, l.outbox) /\ Proven(l) /\ l.log = room.log /\ l \in RoomState
      /\ Gone(authored, l.outbox) = Gone(authored, room.outbox) \cup {e} /\ e \in Waiting(room)
  BY <1>1, LeftOutboxOrder
<1>3. Sound(l) /\ l.mode = "loam" /\ (l.mode = "loam" => l.addr)
  BY <1>1, LeftOutboxSound
<1>4. /\ Signed(room, e, "loam") \in Commits /\ Signed(room, e, "loam").id = e
      /\ Signed(room, e, "loam").by = "loam" /\ (Signed(room, e, "loam").proof <=> e \in Claims)
  BY <1>1, <1>2, SignedProof, SignedType DEF Ordered
<1>5. /\ new \in SUBSET Commits /\ (\A x \in new : x.proof <=> x.id \in Claims)
      /\ {x.id : x \in new} = {e} /\ (\A x \in new : x.by = l.mode)
      /\ (\A x, y \in new : x.id = y.id => x = y) /\ \A x \in l.log : x.proof <=> x.id \in Claims
  BY <1>2, <1>3, <1>4 DEF Proven
<1> HIDE DEF new, l, e
<1>6. Sound(s)
  BY <1>3, <1>5, CommitSound
<1>7. /\ \A x \in s.log : x.proof <=> x.id \in Claims
      /\ Committed(s) = Committed(l) \cup {e} /\ s.outbox = l.outbox /\ s.keys = l.keys
  BY <1>2, <1>5, CommitOrder
<1> HIDE DEF s
<1>8. Committed(l) = Committed(room) /\ Waiting(s) = Waiting(l)
  BY <1>2, <1>7 DEF Committed, Waiting
<1>9. Ordered(authored, s, torn)
  BY <1>1, <1>2, <1>7, <1>8 DEF Ordered, Proven
<1> QED BY <1>1, <1>6, <1>9, PumpOrders

\* The process dies: between two handlers, in hdSign's callback, in a flush, or in the
\* middle of writing a file.
LEMMA CrashOrders ==
  ASSUME OrderInv, Crash \/ CrashInSign \/ CrashInFlush \/ CrashInOutbox \/ CrashInIdentity
  PROVE  Orders
<1>1. /\ Sound(room) /\ room \in RoomState /\ authored \in Seq(Events) /\ Distinct(authored)
      /\ Ordered(authored, room, cut # {}) /\ (cut # {}) \in BOOLEAN
  BY DEF OrderInv, RoomInv, TypeOK
<1>2. CASE Crash
  <2>1. authored' = authored /\ cut' = cut /\ room' = Reloaded(room)
    BY <1>2 DEF Crash, Restart
  <2> QED BY <1>1, <2>1, ReloadedOrder DEF Orders
<1>3. CASE CrashInSign
  <2> DEFINE e == room.signing
             l == LeftOutbox(e)
  <2>1. /\ e \in Events /\ authored' = authored /\ cut' = cut \cup {e} /\ room' = Reloaded(l)
    BY <1>3 DEF CrashInSign, Restart
  <2>2. Suffix(authored, l.outbox) /\ Proven(l) /\ l \in RoomState
    BY <1>1, <2>1, LeftOutboxOrder
  <2> HIDE DEF l
  <2>3. Ordered(authored, l, TRUE)
    BY <2>2 DEF Ordered
  <2>4. Ordered(authored, Reloaded(l), TRUE)
    BY <2>2, <2>3, ReloadedOrder
  <2>5. cut' # {}
    BY <2>1
  <2> QED BY <1>1, <2>1, <2>4, <2>5 DEF Orders, Ordered
<1>4. CASE CrashInFlush
  <2>1. PICK k \in 1 .. Len(room.outbox) :
          Restart([Commit(room, {Signed(room, room.outbox[i], "device") : i \in 1 .. k})
                     EXCEPT !.mode = "device"], {room.outbox[i] : i \in 1 .. k}, {})
    BY <1>4 DEF CrashInFlush
  <2> DEFINE new == {Signed(room, room.outbox[i], "device") : i \in 1 .. k}
             c == Commit(room, new)
             t == [c EXCEPT !.mode = "device"]
             caught == {room.outbox[i] : i \in 1 .. k}
  <2>2. /\ authored' = authored /\ cut' = cut \cup caught /\ room' = Reloaded(t)
    BY <2>1 DEF Restart
  <2>3. \A i \in 1 .. k : room.outbox[i] \in Waiting(room)
    <3>1. Len(room.outbox) \in Nat
      BY <1>1 DEF RoomState
    <3>2. \A i \in 1 .. k : i \in 1 .. Len(room.outbox)
      BY <3>1
    <3> QED BY <3>2 DEF Waiting
  <2>4. \A i \in 1 .. k :
          /\ Signed(room, room.outbox[i], "device") \in Commits
          /\ Signed(room, room.outbox[i], "device").id = room.outbox[i]
          /\ Signed(room, room.outbox[i], "device").proof <=> room.outbox[i] \in Claims
    BY <1>1, <2>3, SignedProof DEF Ordered
  <2>5. new \in SUBSET Commits /\ (\A x \in new : x.proof <=> x.id \in Claims)
        /\ \A x \in room.log : x.proof <=> x.id \in Claims
    BY <1>1, <2>4 DEF Ordered, Proven
  <2>6. room.outbox[1] \in caught
    <3>1. 1 \in 1 .. k
      OBVIOUS
    <3> QED BY <3>1
  <2> HIDE DEF new, caught
  <2>7. /\ \A x \in c.log : x.proof <=> x.id \in Claims
        /\ c.outbox = room.outbox /\ c.keys = room.keys /\ c \in RoomState
    BY <1>1, <2>5, CommitOrder
  <2> HIDE DEF c
  <2>8. t.log = c.log /\ t.outbox = room.outbox /\ t.keys = room.keys /\ t \in RoomState
    BY <2>7 DEF RoomState, Modes
  <2> HIDE DEF t
  <2>9. Ordered(authored, t, TRUE)
    <3>1. Waiting(t) = Waiting(room)
      BY <2>8 DEF Waiting
    <3> QED BY <1>1, <2>7, <2>8, <3>1 DEF Ordered, Proven
  <2>10. Ordered(authored, Reloaded(t), TRUE)
    BY <2>8, <2>9, ReloadedOrder
  <2>11. cut' # {}
    BY <2>2, <2>6
  <2> QED BY <1>1, <2>2, <2>10, <2>11 DEF Orders, Ordered
<1>5. CASE CrashInOutbox
  <2> DEFINE s == [room EXCEPT !.outbox = <<>>, !.keys = {}, !.signing = "none"]
  <2>1. /\ authored' = authored /\ cut' = cut \cup Waiting(room) /\ room' = Reloaded(s)
        /\ room.outbox # <<>>
    BY <1>5 DEF CrashInOutbox, Restart
  <2>2. <<>> \in Seq(Events)
    OBVIOUS
  <2>3. s \in RoomState /\ s.outbox = <<>> /\ s.keys = {} /\ s.log = room.log
    BY <1>1, <2>2 DEF RoomState
  <2> HIDE DEF s
  <2>4. Suffix(authored, <<>>)
    BY <1>1, GoneOrWaiting DEF Ordered
  <2>5. Ordered(authored, s, TRUE)
    BY <1>1, <2>3, <2>4 DEF Ordered, Proven, Waiting
  <2>6. Ordered(authored, Reloaded(s), TRUE)
    BY <2>3, <2>5, ReloadedOrder
  <2>7. Waiting(room) # {}
    <3>1. room.outbox \in Seq(Events)
      BY <1>1 DEF RoomState
    <3>2. 1 \in 1 .. Len(room.outbox)
      BY <2>1, <3>1
    <3> QED BY <3>2 DEF Waiting
  <2>8. cut' # {}
    BY <2>1, <2>7
  <2> QED BY <1>1, <2>1, <2>6, <2>8 DEF Orders, Ordered
<1>6. CASE CrashInIdentity
  <2> DEFINE s == [room EXCEPT !.mode = "", !.signing = "none"]
  <2>1. authored' = authored /\ cut' = cut /\ room' = Reloaded(s)
    BY <1>6 DEF CrashInIdentity, Restart
  <2>2. s \in RoomState /\ s.outbox = room.outbox /\ s.keys = room.keys /\ s.log = room.log
    BY <1>1 DEF RoomState, Modes
  <2> HIDE DEF s
  <2>3. Ordered(authored, s, cut # {})
    BY <1>1, <2>2, OrderedSame
  <2> QED BY <1>1, <2>1, <2>2, <2>3, ReloadedOrder DEF Orders
<1> QED BY <1>2, <1>3, <1>4, <1>5, <1>6

\* The callbacks and the timer that only pump, and what leaves the room alone.
LEMMA OtherOrders ==
  ASSUME OrderInv,
         \/ Open \/ Tick \/ StatusComputed \/ StatusAnswered \/ StatusFailed \/ IdentityAnswered
         \/ LoamCallFailed \/ Delete \/ MakeRoot \/ UNCHANGED vars
  PROVE  Orders
<1>1. /\ Sound(room) /\ room \in RoomState /\ authored \in Seq(Events) /\ Distinct(authored)
      /\ Ordered(authored, room, cut # {}) /\ (cut # {}) \in BOOLEAN
  BY DEF OrderInv, RoomInv, TypeOK
<1>2. CASE Open \/ MakeRoot \/ StatusComputed \/ UNCHANGED vars
  BY <1>1, <1>2 DEF Open, MakeRoot, StatusComputed, vars, Orders
<1>3. CASE Tick \/ StatusAnswered \/ StatusFailed
  <2>1. authored' = authored /\ cut' = cut
    BY <1>3 DEF Tick, StatusAnswered, StatusFailed, StatusCallback
  <2>2. room' = room \/ \E h : room' = Pump(room, h)
    BY <1>3 DEF Tick, StatusAnswered, StatusFailed, StatusCallback
  <2> QED BY <1>1, <2>1, <2>2, PumpOrders
<1>4. CASE IdentityAnswered
  <2> DEFINE s == [room EXCEPT !.signing = "none", !.addr = TRUE]
  <2>1. authored' = authored /\ cut' = cut /\ room' = Pump(s, hd)
    BY <1>4 DEF IdentityAnswered
  <2>2. s.log = room.log /\ s.outbox = room.outbox /\ s.keys = room.keys
    BY <1>1 DEF RoomState
  <2>3. Sound(s)
    BY <1>1, AnsweredSound
  <2> HIDE DEF s
  <2>4. Ordered(authored, s, cut # {})
    BY <1>1, <2>2, OrderedSame
  <2> QED BY <2>1, <2>3, <2>4, PumpOrders
<1>5. CASE LoamCallFailed
  <2>1. authored' = authored /\ cut' = cut /\ room' = [room EXCEPT !.signing = "none"]
    BY <1>5 DEF LoamCallFailed
  <2>2. room'.log = room.log /\ room'.outbox = room.outbox /\ room'.keys = room.keys
    BY <1>1, <2>1 DEF RoomState
  <2> QED BY <1>1, <2>1, <2>2, OrderedSame DEF Orders
<1>6. CASE Delete
  <2>1. authored' = <<>> /\ room' = EmptyRoom
    BY <1>6 DEF Delete
  <2>2. Ordered(<<>>, EmptyRoom, cut' # {}) /\ Distinct(<<>>)
    BY DEF Ordered, Suffix, Proven, Waiting, Committed, Gone, Distinct, EmptyRoom
  <2> QED BY <2>1, <2>2 DEF Orders
<1> QED BY <1>2, <1>3, <1>4, <1>5, <1>6

\* The room and what was written in it stay in order in every reachable state.
THEOREM OrderInvariance == Safe => []OrderInv
<1>1. Init /\ RoomInv => OrderInv
  <2>1. Ordered(<<>>, EmptyRoom, FALSE) /\ Distinct(<<>>)
    BY DEF Ordered, Suffix, Proven, Waiting, Committed, Gone, Distinct, EmptyRoom
  <2> QED BY <2>1 DEF Init, OrderInv
<1>2. OrderInv /\ RoomInv' /\ [Next]_vars => OrderInv'
  <2> SUFFICES ASSUME OrderInv, RoomInv', [Next]_vars PROVE Orders
    BY DEF OrderInv, Orders
  <2> QED BY AuthorOrders, SignOrders, CrashOrders, OtherOrders DEF Next
<1> QED BY <1>1, <1>2, Invariance, PTL DEF Safe

\* What waits is the rest of what the user wrote, and what is committed is the part before
\* it, until a crash falls between two file writes (pushEvent, pumpIdentity).
THEOREM Ordering == Safe => []InOrder
<1>1. OrderInv => InOrder
  BY DEF OrderInv, Ordered, Suffix, Gone, InOrder
<1> QED BY <1>1, OrderInvariance, PTL

\* A claim is never published without its ticket proof, crashes or not (finalizeForAuthor).
THEOREM Proofs == Safe => []ClaimsCarryProof
<1>1. OrderInv => ClaimsCarryProof
  BY DEF OrderInv, Ordered, Proven, ClaimsCarryProof
<1> QED BY <1>1, OrderInvariance, PTL

-----------------------------------------------------------------------------
(* The device key in a room opened under a Loam root. *)

\* In a process that has not been restarted: a root seen when the room was opened is
\* still there, and "no root" was learnt after that only by failures.
RootInv ==
  /\ phase = "absent" => rooted = "no"
  /\ crashes = 0 => hd.failures <= failures
  /\ crashes = 0 /\ rooted = "yes" =>
       /\ root /\ hd.said # "no"
       /\ hd.known /\ ~hd.exists => failures >= 3
       /\ room.mode = "device" => failures >= 3

\* pumpIdentity gives the device key to a room that has it, or to one that learns
\* that there is no root.
LEMMA PumpMode ==
  ASSUME NEW s, Sound(s), NEW h, Pump(s, h).mode = "device"
  PROVE  s.mode = "device" \/ (h.known /\ ~h.exists)
<1> DEFINE d == Decide(s, h)
<1>1. Sound(d)
  BY DecideSound
<1>2. Pump(s, h) = IF d.mode = "device" THEN FlushDevice(d)
                   ELSE IF d.mode = "loam" THEN AskLoam(d) ELSE d
  BY DEF Pump
<1>3. d.mode = "device" => s.mode = "device" \/ (h.known /\ ~h.exists)
  BY DEF Decide, Sound, RoomState
<1> HIDE DEF d
<1>4. d.mode = "device"
  BY <1>1, <1>2, AskLoamSound
<1> QED BY <1>3, <1>4

\* Counters are numbers.
LEMMA Counters ==
  ASSUME RoomInv
  PROVE  /\ failures \in Nat /\ crashes \in Nat /\ hd \in HdState /\ hd.failures \in Nat
         /\ Sound(room) /\ room \in RoomState
<1>1. TypeOK /\ Sound(room)
  BY DEF RoomInv
<1>2. failures \in Nat /\ crashes \in Nat
  BY <1>1, LoamOutboxAssumption DEF TypeOK
<1> QED BY <1>1, <1>2 DEF TypeOK, HdState

\* The user writes, Loam signs, the address comes, the timer fires: no failure is counted.
LEMMA PumpRoots ==
  ASSUME RoomInv, RootInv,
         NEW s, Sound(s), s.mode = room.mode, room' = Pump(s, hd) \/ room'.mode = s.mode,
         hd'.known = hd.known, hd'.exists = hd.exists, hd'.failures = hd.failures,
         hd'.said = hd.said,
         UNCHANGED <<root, phase, rooted, crashes, failures>>
  PROVE  RootInv'
<1>1. room'.mode = "device" => room.mode = "device" \/ (hd.known /\ ~hd.exists)
  BY PumpMode
<1> QED BY <1>1 DEF RootInv

\* Asking for the status changes nothing that is known.
LEMMA AskKnows ==
  ASSUME NEW h \in HdState, NEW b
  PROVE  /\ Ask(h, b).known = h.known /\ Ask(h, b).exists = h.exists
         /\ Ask(h, b).failures = h.failures /\ Ask(h, b).said = h.said
BY DEF Ask, HdState

\* The handlers that call pumpIdentity with what hdStatus has said before.
LEMMA HandlersRoot ==
  ASSUME RoomInv, RootInv,
         \/ \E e \in Events : Author(e)
         \/ Tick \/ IdentityAnswered \/ SignAnswered
  PROVE  RootInv'
<1>1. /\ failures \in Nat /\ hd \in HdState /\ Sound(room) /\ room \in RoomState
  BY Counters
<1>2. CASE \E e \in Events : Author(e)
  <2>1. PICK e \in Events : Author(e)
    BY <1>2
  <2> DEFINE k == IF e \in Claims THEN room.keys \cup {e} ELSE room.keys
             s == [room EXCEPT !.keys = k]
             q == [s EXCEPT !.outbox = Append(@, e)]
             c == Commit(s, {Signed(s, e, "device")})
  <2>2. k \in SUBSET Events
    BY <1>1 DEF RoomState
  <2>3. /\ UNCHANGED <<root, phase, rooted, crashes, failures>>
        /\ \/ room' = [c EXCEPT !.keys = @ \ {e}] /\ hd' = hd
           \/ room' = Pump(q, hd) /\ hd' = Ask(hd, NeedsStatus(q, hd))
    BY <1>1, <2>1 DEF Author
  <2> HIDE DEF k
  <2>4. Sound(s) /\ s.mode = room.mode /\ s \in RoomState
    BY <1>1, <2>2, KeysSound DEF Sound
  <2> HIDE DEF s
  <2>5. Sound(q) /\ q.mode = room.mode
    BY <2>4, AppendSound
  <2>6. [c EXCEPT !.keys = @ \ {e}].mode = room.mode
    BY <2>4 DEF Commit, RoomState
  <2> HIDE DEF q, c
  <2>7. hd'.known = hd.known /\ hd'.exists = hd.exists /\ hd'.failures = hd.failures
        /\ hd'.said = hd.said
    BY <1>1, <2>3, AskKnows
  <2>8. room' = Pump(q, hd) \/ room'.mode = q.mode
    BY <2>3, <2>5, <2>6
  <2> QED BY <2>3, <2>5, <2>7, <2>8, PumpRoots
<1>3. CASE Tick
  <2>1. PICK b \in BOOLEAN :
          /\ UNCHANGED <<root, phase, rooted, crashes, failures>>
          /\ hd' = hd \/ hd' = Ask(hd, b)
          /\ room' = room \/ room' = Pump(room, hd')
    BY <1>3 DEF Tick
  <2>2. hd'.known = hd.known /\ hd'.exists = hd.exists /\ hd'.failures = hd.failures
        /\ hd'.said = hd.said
    BY <1>1, <2>1, AskKnows
  <2>3. Pump(room, hd') = Pump(room, hd)
    BY <2>2 DEF Pump, Decide
  <2> QED BY <1>1, <2>1, <2>2, <2>3, PumpRoots
<1>4. CASE IdentityAnswered
  <2> DEFINE s == [room EXCEPT !.signing = "none", !.addr = TRUE]
  <2>1. room' = Pump(s, hd) /\ UNCHANGED <<root, hd, phase, rooted, crashes, failures>>
    BY <1>4 DEF IdentityAnswered
  <2>2. Sound(s) /\ s.mode = room.mode
    BY <1>1, AnsweredSound DEF RoomState
  <2> HIDE DEF s
  <2> QED BY <2>1, <2>2, PumpRoots
<1>5. CASE SignAnswered
  <2>1. /\ room.signing \in Events /\ UNCHANGED <<root, hd, phase, rooted, crashes, failures>>
        /\ room.mode = "loam" /\ RoomInv'
    <3>1. room.signing \in Events /\ UNCHANGED <<root, hd, phase, rooted, crashes, failures>>
      BY <1>5 DEF SignAnswered
    <3>2. room.mode = "loam"
      BY <1>1, <3>1, LeftOutboxSound
    <3> QED BY <1>5, <3>1, <3>2, SignKeeps DEF Keeps
  <2>2. phase = "open" /\ phase' = "open"
    BY <2>1, CallIsOpen, LoamOutboxAssumption
  <2>3. room'.mode = room.mode
    <3>1. ~CrashInIdentity
      BY <2>1, LoamOutboxAssumption DEF CrashInIdentity
    <3> QED BY <1>5, <2>1, <2>2, <3>1, SignKeeps DEF Keeps, Binds
  <2> QED BY <1>1, <2>1, <2>3, PumpRoots
<1> QED BY <1>2, <1>3, <1>4, <1>5

\* hdStatus answers with what it has worked out, or fails once more.
LEMMA StatusRoot == ASSUME RoomInv, RootInv, StatusAnswered \/ StatusFailed PROVE RootInv'
<1>1. /\ failures \in Nat /\ hd \in HdState /\ hd.failures \in Nat /\ Sound(room)
      /\ hd.known \in BOOLEAN /\ hd.exists \in BOOLEAN /\ hd.said \in {"none", "yes", "no"}
  BY Counters DEF HdState
<1>2. PICK h \in HdState :
        /\ hd' = Ask(h, phase = "open" /\ NeedsStatus(room, h))
        /\ room' = room \/ room' = Pump(room, h)
        /\ UNCHANGED <<root, phase, rooted, crashes>> /\ h.said = "none"
        /\ \/ hd.said # "none" /\ h.exists = (hd.said = "yes") /\ h.failures = 0 /\ failures' = failures
           \/ /\ failures' = failures + 1 /\ h.failures = hd.failures + 1
              /\ \/ h.failures >= 3
                 \/ h.known = hd.known /\ h.exists = hd.exists
  <2>1. CASE StatusAnswered
    <3>1. StatusCallback(Answer(hd)) /\ failures' = failures /\ hd.said # "none"
      BY <2>1 DEF StatusAnswered
    <3>2. /\ Answer(hd) \in HdState /\ Answer(hd).exists = (hd.said = "yes")
          /\ Answer(hd).failures = 0 /\ Answer(hd).said = "none"
      BY <1>1, HdType
    <3> QED BY <3>1, <3>2 DEF StatusCallback
  <2>2. CASE StatusFailed
    <3>1. StatusCallback(Failure(hd)) /\ failures' = failures + 1
      BY <2>2 DEF StatusFailed
    <3>2. /\ Failure(hd) \in HdState /\ Failure(hd).failures = hd.failures + 1
          /\ Failure(hd).said = "none"
          /\ \/ hd.failures + 1 >= 3
             \/ Failure(hd).known = hd.known /\ Failure(hd).exists = hd.exists
      BY <1>1, HdType
    <3> QED BY <3>1, <3>2 DEF StatusCallback
  <2> QED BY <2>1, <2>2
<1>3. /\ hd'.known = h.known /\ hd'.exists = h.exists /\ hd'.failures = h.failures
      /\ hd'.said = h.said /\ h.failures \in Nat
  BY <1>2, AskKnows DEF HdState
<1>4. room'.mode = "device" => room.mode = "device" \/ (h.known /\ ~h.exists)
  BY <1>1, <1>2, PumpMode
<1>5. CASE hd.said # "none" /\ h.exists = (hd.said = "yes") /\ h.failures = 0 /\ failures' = failures
  <2>1. hd.said # "no" => h.exists
    BY <1>1, <1>5
  <2> QED BY <1>1, <1>2, <1>3, <1>4, <1>5, <2>1 DEF RootInv
<1>6. CASE failures' = failures + 1 /\ h.failures = hd.failures + 1
  BY <1>1, <1>2, <1>3, <1>4, <1>6 DEF RootInv
<1> QED BY <1>2, <1>5, <1>6

\* hdStatus works out its answer: with a root, it is not "no".
LEMMA ComputedRoot == ASSUME RoomInv, RootInv, StatusComputed PROVE RootInv'
<1> DEFINE a == IF root THEN "yes" ELSE "no"
<1>1. /\ hd' = [hd EXCEPT !.said = a] /\ hd \in HdState
      /\ UNCHANGED <<root, phase, room, rooted, crashes, failures>>
  BY DEF StatusComputed, RoomInv, TypeOK
<1>2. root => a # "no"
  OBVIOUS
<1> HIDE DEF a
<1>3. /\ hd'.known = hd.known /\ hd'.exists = hd.exists /\ hd'.failures = hd.failures
      /\ hd'.said = a
  BY <1>1 DEF HdState
<1> QED BY <1>1, <1>2, <1>3 DEF RootInv

\* Every other step.
LEMMA OthersRoot ==
  ASSUME RoomInv, RootInv,
         \/ Open \/ LoamCallFailed \/ Delete \/ MakeRoot \/ UNCHANGED vars
         \/ Crash \/ CrashInSign \/ CrashInFlush \/ CrashInOutbox \/ CrashInIdentity
  PROVE  RootInv'
<1>1. /\ failures \in Nat /\ crashes \in Nat /\ hd \in HdState /\ hd.failures \in Nat /\ Sound(room)
      /\ room \in RoomState /\ root \in BOOLEAN
  BY Counters DEF RoomInv, TypeOK
<1>2. EmptyRoom.mode = ""
  BY DEF EmptyRoom
<1>3. CASE Open
  <2>1. /\ phase = "absent" /\ phase' = "open" /\ UNCHANGED <<root, hd, room, crashes, failures>>
        /\ rooted' = IF ~root THEN "no"
                     ELSE IF (hd.known /\ ~hd.exists) \/ hd.said = "no" THEN "late" ELSE "yes"
        /\ room = EmptyRoom
    BY <1>3 DEF Open, RoomInv
  <2>2. rooted' = "yes" => root /\ ~(hd.known /\ ~hd.exists) /\ hd.said # "no"
    BY <2>1
  <2> QED BY <1>2, <2>1, <2>2 DEF RootInv
<1>4. CASE LoamCallFailed
  <2>1. /\ failures' = failures + 1 /\ room' = [room EXCEPT !.signing = "none"]
        /\ UNCHANGED <<root, hd, phase, rooted, crashes>>
    BY <1>4 DEF LoamCallFailed
  <2>2. room'.mode = room.mode
    BY <1>1, <2>1 DEF RoomState
  <2> QED BY <1>1, <2>1, <2>2 DEF RootInv
<1>5. CASE Delete
  BY <1>2, <1>5 DEF Delete, RootInv
<1>6. CASE MakeRoot \/ UNCHANGED vars
  BY <1>6 DEF MakeRoot, vars, RootInv
<1>7. CASE Crash \/ CrashInSign \/ CrashInFlush \/ CrashInOutbox \/ CrashInIdentity
  <2>1. crashes' = crashes + 1 /\ UNCHANGED <<phase, rooted>>
    BY <1>7 DEF Crash, CrashInSign, CrashInFlush, CrashInOutbox, CrashInIdentity, Restart
  <2> QED BY <1>1, <2>1 DEF RootInv
<1> QED BY <1>3, <1>4, <1>5, <1>6, <1>7

\* A room opened while Loam has a root gets the device key only after hdStatus has failed
\* three times, or after a restart, or by an answer worked out before the root was made and held,
\* or on its way, when the room was opened (ADR 0001, queryHdStatus).
THEOREM Rooted == Safe => []RootedUntilRestart
<1>1. Init => RootInv
  BY DEF Init, RootInv, HdUnknown
<1>2. RoomInv /\ RootInv /\ [Next]_vars => RootInv'
  BY HandlersRoot, StatusRoot, ComputedRoot, OthersRoot DEF Next
<1>3. RoomInv /\ RootInv => RootedUntilRestart
  BY Counters DEF RootInv, RootedUntilRestart, RootedRoomIsLoam
<1> QED BY <1>1, <1>2, <1>3, Invariance, PTL DEF Safe
=============================================================================
