------------------------------ MODULE LoamOutbox ------------------------------
(***************************************************************************)
(* How qaku_core signs what the user writes in one room (ADR 0001).  Until   *)
(* the room is bound to an identity, and for a room bound to a Loam          *)
(* identity until Loam has answered, events wait in the room's outbox:       *)
(* hdStatus decides the binding, hdIdentity gives the address, hdSign signs  *)
(* one event at a time.  All three are asynchronous and may fail.            *)
(*                                                                           *)
(* Every handler leaves identity.json, outbox.json and log.json equal to     *)
(* what it has in memory, so the fields of `room` that are on disk need no   *)
(* second copy: a crash between two handlers loses `signing` and hdStatus's  *)
(* answer, and an undecided binding.  Two crashes between file writes of one *)
(* handler leave the outbox and the log at odds, CrashInSign and             *)
(* CrashInFlush; two in the middle of a write leave a file that does not     *)
(* parse, CrashInOutbox and CrashInIdentity.  A torn log.json is in Overlay, *)
(* the 15 s timer's other half, catch-up, in RoomSync.                       *)
(***************************************************************************)
EXTENDS Integers, Sequences, FiniteSets

CONSTANTS Events,        \* the events the user may write in the room
          Claims,        \* those that redeem an invite (member.claim)
          MaxCrashes,    \* bound on crashes in a behaviour
          MaxFailures    \* bound on failed Loam calls in a behaviour

ASSUME LoamOutboxAssumption ==
  /\ Claims \subseteq Events
  /\ MaxCrashes \in Nat /\ MaxFailures \in Nat
  /\ "none" \notin Events /\ "identity" \notin Events

VARIABLES
  root,      \* Loam has an HD root (the user may make one at any time)
  hd,        \* m_hdKnown, m_hdExists, m_hdFailures, m_hdQuerying, and `said': what Loam
             \* has answered to the call in flight, on its way to qaku_core
  phase,     \* the room: "absent", "open" or "deleted"
  room,      \* its Session fields, see RoomState
  authored,  \* the events the user wrote, in order (history)
  rooted,    \* Loam had a root when the room was opened: "yes", "no", or "late" if an
             \* answer from before is still held or on its way (history)
  cut,       \* events a crash caught in the middle of a handler (history)
  lost,      \* those of them that it took out of both the outbox and the log (history)
  crashes, failures

vars == <<root, hd, phase, room, authored, rooted, cut, lost, crashes, failures>>

-----------------------------------------------------------------------------
Modes == {"", "loam", "device"}
Commits == [id : Events, by : {"loam", "device"}, proof : BOOLEAN]

RoomState == [mode : Modes,                          \* idMode
              addr : BOOLEAN,                        \* idAddress is known
              outbox : Seq(Events),
              keys : SUBSET Events,                  \* claimKeys
              signing : Events \cup {"none", "identity"},  \* the call in flight
              log : SUBSET Commits]                  \* our own events in log.json

EmptyRoom == [mode |-> "", addr |-> FALSE, outbox |-> <<>>, keys |-> {},
              signing |-> "none", log |-> {}]

HdState == [known : BOOLEAN, exists : BOOLEAN, failures : Nat, querying : BOOLEAN,
            said : {"none", "yes", "no"}]
HdUnknown == [known |-> FALSE, exists |-> FALSE, failures |-> 0, querying |-> FALSE,
              said |-> "none"]

Waiting(s) == {s.outbox[i] : i \in 1 .. Len(s.outbox)}
Committed(s) == {c.id : c \in s.log}

\* How many failures of hdStatus in a row count as "no Loam root".  (Mutant: two.)
GivesUp_early(n) == n >= 2
GivesUp(n) == n >= 3

\* finalizeForAuthor and signEvent: a claim gets its ticket proof if its key is at hand.
Signed(s, e, by) == [id |-> e, by |-> by, proof |-> e \in s.keys]

\* commitOwn: an id already in the log is left alone.
Commit(s, new) == [s EXCEPT !.log = @ \cup {c \in new : c.id \notin Committed(s)}]

\* (Mutants: a bound room decides again; a room waits as long as Loam has no root.)
Decide_again(s, h) ==
  IF s.outbox # <<>> /\ h.known
  THEN [s EXCEPT !.mode = IF h.exists THEN "loam" ELSE "device"] ELSE s
Decide_waits(s, h) ==
  IF s.mode = "" /\ s.outbox # <<>> /\ h.known /\ h.exists
  THEN [s EXCEPT !.mode = "loam"] ELSE s

\* pumpIdentity, first part: an undecided room with something to write is bound.
Decide(s, h) ==
  IF s.mode = "" /\ s.outbox # <<>> /\ h.known
  THEN [s EXCEPT !.mode = IF h.exists THEN "loam" ELSE "device"] ELSE s

\* (Mutant: the ticket keys are dropped before the claims are signed.)
FlushDevice_keyless(s) ==
  LET t == [s EXCEPT !.keys = {}]
  IN  [Commit(t, {Signed(t, e, "device") : e \in Waiting(t)}) EXCEPT !.outbox = <<>>]

\* pumpIdentity with the device key: sign and commit the whole outbox.
FlushDevice(s) ==
  [Commit(s, {Signed(s, e, "device") : e \in Waiting(s)}) EXCEPT !.outbox = <<>>, !.keys = {}]

\* pumpIdentity with a Loam identity: one call in flight, for the address first.
AskLoam(s) ==
  IF s.signing # "none" \/ (s.outbox = <<>> /\ s.addr) THEN s
  ELSE [s EXCEPT !.signing = IF s.addr THEN Head(s.outbox) ELSE "identity"]

Pump(s, h) ==
  LET d == Decide(s, h)
  IN  IF d.mode = "device" THEN FlushDevice(d)
      ELSE IF d.mode = "loam" THEN AskLoam(d) ELSE d

\* ... and whether it has to ask for hdStatus to be able to decide.
NeedsStatus(s, h) == s.mode = "" /\ s.outbox # <<>> /\ ~h.known
Ask(h, needed) == [h EXCEPT !.querying = @ \/ needed]

-----------------------------------------------------------------------------
Init ==
  /\ root \in BOOLEAN
  /\ hd = HdUnknown
  /\ phase = "absent"
  /\ room = EmptyRoom
  /\ authored = <<>>
  /\ rooted = "no" /\ cut = {} /\ lost = {}
  /\ crashes = 0 /\ failures = 0

\* createSession and joinSession: the slot is no longer fresh (sessions.json);
\* what they write in it, if anything, are Author steps.
Open ==
  /\ phase = "absent"
  /\ phase' = "open"
  /\ rooted' = IF ~root THEN "no"
               ELSE IF (hd.known /\ ~hd.exists) \/ hd.said = "no" THEN "late" ELSE "yes"
  /\ UNCHANGED <<root, hd, room, authored, cut, lost, crashes, failures>>

\* pushEvent of an own event.  A claim's ticket key is put aside first.
Author(e) ==
  /\ phase = "open"
  /\ e \notin {authored[i] : i \in 1 .. Len(authored)}
  /\ authored' = Append(authored, e)
  /\ LET s == [room EXCEPT !.keys = IF e \in Claims THEN @ \cup {e} ELSE @]
         q == [s EXCEPT !.outbox = Append(@, e)]
     IN  IF s.mode = "device" /\ s.outbox = <<>>
         THEN /\ room' = [Commit(s, {Signed(s, e, "device")}) EXCEPT !.keys = @ \ {e}]
              /\ UNCHANGED hd
         ELSE /\ room' = Pump(q, hd)
              /\ hd' = Ask(hd, NeedsStatus(q, hd))
  /\ UNCHANGED <<root, phase, rooted, cut, lost, crashes, failures>>

\* The 15 s tick: rooms that wait for Loam are pumped; this one also when
\* another room of the same process waits.
Tick ==
  /\ \E other \in BOOLEAN :
       LET mine == phase = "open" /\ (room.outbox # <<>> \/ (room.mode = "loam" /\ ~room.addr))
           h    == Ask(hd, (mine \/ other) /\ ~hd.known)
       IN  IF mine \/ other
           THEN /\ hd' = h
                /\ room' = IF phase = "open" THEN Pump(room, h) ELSE room
           ELSE UNCHANGED <<hd, room>>
  /\ UNCHANGED <<root, phase, authored, rooted, cut, lost, crashes, failures>>

\* The callback of hdStatus, with the rooms pumped afterwards.
StatusCallback(h) ==
  /\ hd' = Ask(h, phase = "open" /\ NeedsStatus(room, h))
  /\ room' = IF phase = "open" THEN Pump(room, h) ELSE room
  /\ UNCHANGED <<root, phase, authored, rooted, cut, lost, crashes>>

\* loam_core's hdStatus works out its answer; the callback is queued after that, so the
\* user may make a root, or open a room, before qaku_core has it.
StatusComputed ==
  /\ hd.querying /\ hd.said = "none"
  /\ hd' = [hd EXCEPT !.said = IF root THEN "yes" ELSE "no"]
  /\ UNCHANGED <<root, phase, room, authored, rooted, cut, lost, crashes, failures>>

Answer(h) == [known |-> TRUE, exists |-> h.said = "yes", failures |-> 0, querying |-> FALSE,
              said |-> "none"]

StatusAnswered ==
  /\ hd.querying /\ hd.said # "none"
  /\ StatusCallback(Answer(hd))
  /\ UNCHANGED failures

\* What qaku_core takes from one more failure: three in a row count as "no Loam root".
Failure(h) ==
  LET n == h.failures + 1
  IN  [h EXCEPT !.failures = n, !.querying = FALSE, !.said = "none",
                !.known = @ \/ GivesUp(n), !.exists = @ /\ ~GivesUp(n)]

\* No answer, an error, or one that comes after the deadline.
StatusFailed ==
  /\ hd.querying
  /\ failures < MaxFailures /\ failures' = failures + 1
  /\ StatusCallback(Failure(hd))

\* The callback of hdIdentity with an address.
IdentityAnswered ==
  /\ room.signing = "identity"
  /\ room' = Pump([room EXCEPT !.signing = "none", !.addr = TRUE], hd)
  /\ UNCHANGED <<root, hd, phase, authored, rooted, cut, lost, crashes, failures>>

\* The callback of hdSign with a good signature: the event leaves the outbox
\* and is committed, then the next one is sent to Loam.
\* (Mutants: the whole outbox goes; the event stays in it.)
LeftOutbox_all(e) == [room EXCEPT !.signing = "none", !.keys = @ \ {e}, !.outbox = <<>>]
LeftOutbox_stays(e) == [room EXCEPT !.signing = "none", !.keys = @ \ {e}]
LeftOutbox(e) ==
  [room EXCEPT !.signing = "none", !.keys = @ \ {e},
               !.outbox = IF @ # <<>> /\ Head(@) = e THEN Tail(@) ELSE @]

SignAnswered ==
  /\ room.signing \in Events
  /\ LET e == room.signing
     IN  room' = Pump(Commit(LeftOutbox(e), {Signed(room, e, "loam")}), hd)
  /\ UNCHANGED <<root, hd, phase, authored, rooted, cut, lost, crashes, failures>>

\* Locked, refused, no answer, another identity, a bad signature: it stays queued.
LoamCallFailed ==
  /\ room.signing # "none"
  /\ failures < MaxFailures /\ failures' = failures + 1
  /\ room' = [room EXCEPT !.signing = "none"]
  /\ UNCHANGED <<root, hd, phase, authored, rooted, cut, lost, crashes>>

\* deleteSession wipes the room and its files; a call in flight finds no session.
Delete ==
  /\ phase = "open"
  /\ phase' = "deleted"
  /\ room' = EmptyRoom /\ authored' = <<>>
  /\ UNCHANGED <<root, hd, rooted, cut, lost, crashes, failures>>

\* The user makes a root in Loam.
MakeRoot ==
  /\ ~root /\ root' = TRUE
  /\ UNCHANGED <<hd, phase, room, authored, rooted, cut, lost, crashes, failures>>

\* (Mutant: a Loam binding is not read back.)
Reloaded_unbound(s) ==
  [s EXCEPT !.signing = "none", !.mode = IF phase = "open" THEN "device" ELSE @]

\* loadIdentity, loadOutbox: a room on disk without a Loam binding has the device key.
Reloaded(s) ==
  [s EXCEPT !.signing = "none",
            !.mode = IF phase = "open" /\ @ # "loam" THEN "device" ELSE @]

\* The process comes back with s on disk; the crash caught some events, and some of
\* these are gone.
Restart(s, caught, gone) ==
  /\ crashes < MaxCrashes /\ crashes' = crashes + 1
  /\ cut' = cut \cup caught /\ lost' = lost \cup gone
  /\ hd' = HdUnknown
  /\ room' = Reloaded(s)
  /\ UNCHANGED <<root, phase, authored, rooted, failures>>

Crash == Restart(room, {}, {})

\* The process dies in hdSign's callback, after saveOutbox and before commitOwn.
CrashInSign ==
  /\ room.signing \in Events
  /\ Restart(LeftOutbox(room.signing), {room.signing}, {room.signing})

\* The process dies while the outbox is signed with the device key: the first k
\* events are in the log, and outbox.json still has them all.
CrashInFlush ==
  /\ phase = "open"
  /\ \/ room.mode = "device"
     \/ room.mode = "" /\ hd.querying /\ (hd.said = "no" \/ GivesUp(hd.failures + 1))
  /\ \E k \in 1 .. Len(room.outbox) :
       Restart([Commit(room, {Signed(room, room.outbox[i], "device") : i \in 1 .. k})
                  EXCEPT !.mode = "device"], {room.outbox[i] : i \in 1 .. k}, {})

\* It dies in saveOutbox, with one more event of the user's or in hdSign's callback:
\* outbox.json is cut off, does not parse, and is read as empty.
CrashInOutbox ==
  /\ phase = "open" /\ room.outbox # <<>>
  /\ Restart([room EXCEPT !.outbox = <<>>, !.keys = {}, !.signing = "none"],
             Waiting(room), Waiting(room))

\* It dies in saveIdentity in hdIdentity's callback: identity.json does not parse, and
\* a room without one has the device key.
CrashInIdentity ==
  /\ room.signing = "identity"
  /\ Restart([room EXCEPT !.mode = "", !.signing = "none"], {}, {})

Next ==
  \/ Open
  \/ \E e \in Events : Author(e)
  \/ Tick
  \/ StatusComputed
  \/ StatusAnswered
  \/ StatusFailed
  \/ IdentityAnswered
  \/ SignAnswered
  \/ LoamCallFailed
  \/ Delete
  \/ MakeRoot
  \/ Crash
  \/ CrashInSign
  \/ CrashInFlush
  \/ CrashInOutbox
  \/ CrashInIdentity

(* Fairness: the timer fires, and a Loam call that is made again and again is
   sometimes answered (the user unlocks Loam now and then). *)
Fairness ==
  /\ WF_vars(Tick)
  /\ SF_vars(StatusComputed)
  /\ SF_vars(StatusAnswered)
  /\ SF_vars(IdentityAnswered)
  /\ SF_vars(SignAnswered)

Safe == Init /\ [][Next]_vars
Spec == Safe /\ Fairness

-----------------------------------------------------------------------------
TypeOK ==
  /\ root \in BOOLEAN /\ rooted \in {"yes", "late", "no"}
  /\ hd \in HdState
  /\ phase \in {"absent", "open", "deleted"}
  /\ room \in RoomState
  /\ authored \in Seq(Events) /\ cut \in SUBSET Events /\ lost \in SUBSET cut
  /\ crashes \in 0 .. MaxCrashes /\ failures \in 0 .. MaxFailures

\* One author per room: everything committed in it is signed by the identity it
\* is bound to, whatever failed or restarted (ADR 0001, pumpIdentity).
OneIdentity ==
  /\ \A c \in room.log : c.by = room.mode
  /\ \A c, d \in room.log : c.id = d.id => c = d

\* Whatever the user wrote is committed or still waits to be signed, but for an event
\* whose hdSign callback a crash cut in two, and for what waited when a crash tore
\* outbox.json (pushEvent, pumpIdentity).
NothingLost ==
  \A i \in 1 .. Len(authored) : authored[i] \in Committed(room) \cup Waiting(room) \cup lost

\* What waits is the rest of what was written, in order, and nothing that waits is
\* committed: no event is signed twice or overtakes an earlier one, as long as no
\* crash hits in the middle of a handler.
InOrder ==
  cut = {} =>
  /\ Len(room.outbox) <= Len(authored)
  /\ LET n == Len(authored) - Len(room.outbox)
     IN  /\ \A i \in 1 .. Len(room.outbox) : room.outbox[i] = authored[n + i]
         /\ Committed(room) = {authored[i] : i \in 1 .. n}

\* The event Loam is signing is still the first of the outbox, in a room that is
\* bound to Loam and knows its address, so the answer commits the right event.
InFlightIsHead ==
  /\ room.signing # "none" => phase = "open" /\ room.mode = "loam"
  /\ room.signing \in Events =>
       room.addr /\ room.outbox # <<>> /\ Head(room.outbox) = room.signing

\* A claim is never published without its ticket proof, and a key is kept exactly
\* as long as its claim waits (claimKeys, finalizeForAuthor).
ClaimsCarryProof ==
  /\ \A c \in room.log : c.proof <=> c.id \in Claims
  /\ room.keys = Waiting(room) \cap Claims

\* A binding, once made, is kept for as long as the room exists (h:137-140); a crash
\* that tears identity.json undoes it, while nothing has been signed with it yet.
BindingIsStable ==
  [][room.mode # "" /\ phase' = "open" =>
       room'.mode = room.mode \/ (CrashInIdentity /\ room.log = {})]_vars

\* A room opened while Loam has a root, with hdStatus never failing three times,
\* is not bound to the device key (ADR 0001).
RootedRoomIsLoam == rooted # "no" /\ failures < 3 => room.mode # "device"

\* The same, as far as a process that is not restarted keeps it: only hdStatus
\* failing three times, or an answer worked out before there was a root (held already,
\* or still on its way when the room is opened), binds the room to the device key.
RootedUntilRestart == crashes = 0 /\ rooted = "yes" => RootedRoomIsLoam

\* What the user wrote is eventually signed and committed, unless the room goes.
OutboxDrains ==
  \A e \in Events : e \in Waiting(room) ~> e \notin Waiting(room)
=============================================================================
