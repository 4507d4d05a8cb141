-------------------------------- MODULE View --------------------------------
(***************************************************************************)
(* The QML view (Main.qml) and the core behind its asynchronous bridge.     *)
(* Every call is answered by a callback, in any order, or times out in the  *)
(* bridge while the core still runs it; a bridge may also never call back.  *)
(* The core pushes its state with every change; a push comes at once, comes *)
(* without its payload, or is dropped.  What arrives is stashed             *)
(* (_pendingState) and applied on a later tick (Qt.callLater, which         *)
(* coalesces).                                                              *)
(*                                                                          *)
(* Of the core's state there are the list of rooms, the current one, whose  *)
(* secret the QR code has, and a number of events for all other content.    *)
(***************************************************************************)
EXTENDS Integers, FiniteSets, FiniteSetsExt

CONSTANTS Rooms, Default,  \* the rooms, and the unused one that is there when all are deleted
          None,
          Lists,           \* the rooms the core may load at first
          Buttons,         \* the mutations that are clicked, each with its room
          MaxMoves,        \* bound on what happens from outside: clicks, events received,
                           \* restarts of the core, calls that time out or are never
                           \* answered, suspensions of the machine
          MaxBuilds        \* bound on QR codes being built at once

VARIABLES
  core,    \* ready: loaded; its rooms, the current one, its events
  calls,   \* the calls that are out, see Call
  shown,   \* st
  pending, \* _pendingState
  fetch,   \* _snapInFlight, _snapAgain, and whether _snapStartedAt is too long ago
  keys,    \* _inflightKeys
  due,     \* what Qt.callLater holds, but for _applyPending
  qr,      \* qrData: the room whose code is drawn
  qrOf,    \* lastQrSecret
  moves,
  slept,   \* the machine was suspended (history)
  odd      \* a shareQr failed, or was run in another room than it was for (history)

qrVars == <<qr, qrOf>>
viewVars == <<shown, pending, fetch, keys, due, qrVars>>
history == <<slept, odd>>
vars == <<core, calls, viewVars, moves, history>>

Starting == [ready |-> FALSE, rooms |-> {}, room |-> None, events |-> 0]

Mutations == {"switchSession", "deleteSession"}

ASSUME ViewAssumption ==
  /\ Lists \subseteq SUBSET Rooms /\ Buttons \subseteq Mutations \X Rooms
  /\ MaxMoves \in Nat /\ MaxBuilds \in Nat \ {0}

\* at: "core", to be run; "back", with its result; "late", to be run though the
\* bridge has told the view that it timed out.  arg is the room a mutation is
\* about; for shareQr, the room whose code the view wants.  n tells apart calls
\* that are out twice, but for shareQr, where two that are alike do the same.
Call(n, m, arg) == [n |-> n, m |-> m, arg |-> arg, at |-> "core", res |-> None]

\* call
Sent(cs, m, arg) ==
  LET twins == {c \in cs : c.m = m /\ c.arg = arg /\ m # "shareQr"}
  IN  cs \cup {Call(Min(1 .. Cardinality(twins) + 1 \ {c.n : c \in twins}), m, arg)}

-----------------------------------------------------------------------------
\* (Mutant: no watchdog.)
MayFetch_guarded(f) == ~f.out

\* refresh: one snapshot at a time, unless the last one is overdue ...
MayFetch(f) == ~f.out \/ f.overdue

\* ... and the requests made meanwhile become one follow-up.
Refresh(cs) ==
  IF MayFetch(fetch)
  THEN /\ calls' = Sent(cs, "snapshot", None)
       /\ fetch' = [out |-> TRUE, again |-> FALSE, overdue |-> FALSE]
  ELSE /\ calls' = cs
       /\ fetch' = [fetch EXCEPT !.again = TRUE]

\* (Mutant: a click is never dropped.)
MayMutate_always(m, id) == TRUE

\* mutate drops an identical call while one is out.
MayMutate(m, id) == <<m, id>> \notin keys

\* _pushState; asState of a failed call is null.
PushState(o) == pending' = IF o = None THEN pending ELSE o

\* (Mutant: whatever comes is applied.)
Applies_any(o) == TRUE

\* apply: an empty state of a core that has not loaded does not blank the view.
Applies(o) == o.rooms = {} /\ ~o.ready => shown.rooms = {}

\* (Mutant: the code is drawn whatever room is shown.)
QrIsWanted_always(c) == TRUE

\* The callback of buildQr: the session may have been switched meanwhile.
QrIsWanted(c) == c.arg = shown.room

-----------------------------------------------------------------------------
\* m_order.front(), or the slot that is kept when there is no room.
First(rs) == IF rs = {} THEN Default ELSE CHOOSE r \in rs : TRUE

Init ==
  /\ \E rs \in Lists : core = [Starting EXCEPT !.rooms = rs, !.room = First(rs)]
  /\ calls = {Call(1, "snapshot", None)}
  /\ shown = Starting /\ pending = None
  /\ fetch = [out |-> TRUE, again |-> FALSE, overdue |-> FALSE]
  /\ keys = {} /\ due = {}
  /\ qr = None /\ qrOf = None
  /\ moves = 0
  /\ slept = FALSE /\ odd = FALSE

Move == moves < MaxMoves /\ moves' = moves + 1

\* What the core publishes; before it has loaded, nothing.
State(k) == IF k.ready THEN k ELSE Starting

\* stateChanged, and onModuleEventReceived: with its payload, without, or dropped.
Emit(cs) ==
  /\ \/ PushState(State(core')) /\ calls' = cs /\ UNCHANGED fetch
     \/ Refresh(cs) /\ UNCHANGED pending
     \/ calls' = cs /\ UNCHANGED <<pending, fetch>>
  /\ UNCHANGED <<shown, keys, due, qrVars>>

\* onContextReady, in the core's process or in the one that takes over from it.
CoreLoads ==
  /\ ~core.ready
  /\ core' = [core EXCEPT !.ready = TRUE]
  /\ Emit(calls)
  /\ UNCHANGED <<moves, history>>

\* An event arrives from the network.
CoreReceives ==
  /\ core.ready /\ Move
  /\ core' = [core EXCEPT !.events = @ + 1]
  /\ Emit(calls)
  /\ UNCHANGED history

\* switchSession, deleteSession
Mutated(k, m, id) ==
  IF m = "switchSession" THEN [k EXCEPT !.room = id]
  ELSE LET left == k.rooms \ {id}
       IN  [k EXCEPT !.rooms = left,
                     !.room = IF left = {} \/ @ = id THEN First(left) ELSE @]

\* shareQr: the code of the current session's secret.
ShareQr(k) == State(k).room

\* The core runs a call; snapshot and the mutations publish.
CoreRuns(c) ==
  /\ c.at \in {"core", "late"}
  /\ LET refused == c.m \in Mutations /\ (~core.ready \/ c.arg \notin core.rooms)
         res == IF refused THEN None
                ELSE IF c.m = "shareQr" THEN ShareQr(core) ELSE State(core')
     IN  /\ core' = IF c.m \in Mutations /\ ~refused THEN Mutated(core, c.m, c.arg) ELSE core
         /\ LET rest == (calls \ {c}) \cup
                       IF c.at = "late" THEN {} ELSE {[c EXCEPT !.at = "back", !.res = res]}
            IN  IF refused \/ c.m = "shareQr" THEN calls' = rest /\ UNCHANGED viewVars
                                               ELSE Emit(rest)
  /\ odd' = (odd \/ (c.m = "shareQr" /\ ShareQr(core) # c.arg))
  /\ UNCHANGED <<moves, slept>>

-----------------------------------------------------------------------------
\* A callback of the view, with the result res or, for None, an error.
SnapshotBack(rest, res) ==
  /\ calls' = rest
  /\ fetch' = [fetch EXCEPT !.out = FALSE, !.again = FALSE]
  /\ due' = IF fetch.again THEN due \cup {"refresh"} ELSE due
  /\ PushState(res)
  /\ UNCHANGED <<keys, qrVars>>

MutateBack(c, rest, res) ==
  /\ keys' = keys \ {<<c.m, c.arg>>}
  /\ PushState(res)
  /\ Refresh(rest)
  /\ UNCHANGED <<due, qrVars>>

QrBack(c, rest, res) ==
  /\ calls' = rest
  /\ IF QrIsWanted(c) THEN qr' = res /\ qrOf' = IF res = None THEN qrOf ELSE c.arg
                      ELSE UNCHANGED qrVars
  /\ UNCHANGED <<fetch, keys, due, pending>>

CalledBack(c, rest, res) ==
  /\ CASE c.m = "snapshot" -> SnapshotBack(rest, res)
       [] c.m \in Mutations -> MutateBack(c, rest, res)
       [] c.m = "shareQr" -> QrBack(c, rest, res)
  /\ UNCHANGED shown

Answered(c) ==
  /\ c.at = "back"
  /\ CalledBack(c, calls \ {c}, c.res)
  /\ UNCHANGED <<core, moves, history>>

-----------------------------------------------------------------------------
\* The bridge gives up on a call; the core may still run it.
TimesOut(c) ==
  /\ c.at # "late" /\ Move
  /\ \/ CalledBack(c, calls \ {c}, None)
     \/ /\ c.at = "core" /\ c.m \in Mutations
        /\ CalledBack(c, (calls \ {c}) \cup {[c EXCEPT !.at = "late"]}, None)
  /\ odd' = (odd \/ c.m = "shareQr")
  /\ UNCHANGED <<core, slept>>

\* The bridge never calls back.
GoesLost(c) ==
  /\ c.at # "late" /\ Move
  /\ calls' = calls \ {c}
  /\ odd' = (odd \/ c.m = "shareQr")
  /\ UNCHANGED <<core, viewVars, slept>>

CoreRestarts ==
  /\ core.ready /\ Move
  /\ core' = [core EXCEPT !.ready = FALSE]
  /\ UNCHANGED <<calls, viewVars, history>>

\* The view's clock jumps while a fetch is out.
Sleeps ==
  /\ fetch.out /\ ~fetch.overdue /\ Move
  /\ fetch' = [fetch EXCEPT !.overdue = TRUE]
  /\ slept' = TRUE
  /\ UNCHANGED <<core, calls, shown, pending, keys, due, qrVars, odd>>

\* 15 s more than a call may take have passed since the fetch began.
Overdue ==
  /\ fetch.out /\ ~fetch.overdue
  /\ ~\E c \in calls : c.m = "snapshot" /\ c.at # "late"
  /\ fetch' = [fetch EXCEPT !.overdue = TRUE]
  /\ UNCHANGED <<core, calls, shown, pending, keys, due, qrVars, moves, history>>

-----------------------------------------------------------------------------
\* The 6 s timer.
Poll ==
  /\ Refresh(calls)
  /\ UNCHANGED <<core, shown, pending, keys, due, qrVars, moves, history>>

\* mutate, from a button
Click(m, id) ==
  /\ id \in shown.rooms
  /\ MayMutate(m, id) /\ Move
  /\ keys' = keys \cup {<<m, id>>}
  /\ calls' = Sent(calls, m, id)
  /\ UNCHANGED <<core, shown, pending, fetch, due, qrVars, history>>

\* _applyPending, apply and onSecretChanged
ApplyPending ==
  /\ pending # None /\ pending' = None
  /\ shown' = IF Applies(pending) THEN pending ELSE shown
  /\ due' = IF shown'.room \notin {shown.room, qrOf} THEN due \cup {"buildQr"} ELSE due
  /\ UNCHANGED <<core, calls, fetch, keys, qrVars, moves, history>>

RefreshAgain ==
  /\ "refresh" \in due /\ due' = due \ {"refresh"}
  /\ Refresh(calls)
  /\ UNCHANGED <<core, shown, pending, keys, qrVars, moves, history>>

BuildQr ==
  /\ Cardinality({c \in calls : c.m = "shareQr"}) < MaxBuilds
  /\ "buildQr" \in due /\ due' = due \ {"buildQr"}
  /\ IF shown.room = None THEN qr' = None /\ qrOf' = None /\ UNCHANGED calls
     ELSE calls' = Sent(calls, "shareQr", shown.room) /\ UNCHANGED qrVars
  /\ UNCHANGED <<core, shown, pending, fetch, keys, moves, history>>

Next ==
  \/ CoreLoads \/ CoreReceives \/ CoreRestarts
  \/ \E c \in calls : CoreRuns(c) \/ Answered(c) \/ TimesOut(c) \/ GoesLost(c)
  \/ \E b \in Buttons : Click(b[1], b[2])
  \/ Poll \/ Sleeps \/ Overdue
  \/ ApplyPending \/ RefreshAgain \/ BuildQr

\* The core loads and runs its calls, their answers come, clock and timer go on,
\* and what is deferred to the next tick is run.
Fairness ==
  /\ WF_vars(CoreLoads)
  /\ WF_vars(\E c \in calls : CoreRuns(c)) /\ WF_vars(\E c \in calls : Answered(c))
  /\ WF_vars(Overdue) /\ WF_vars(Poll)
  /\ WF_vars(ApplyPending) /\ WF_vars(RefreshAgain) /\ WF_vars(BuildQr)

Spec == Init /\ [][Next]_vars /\ Fairness

-----------------------------------------------------------------------------
\* Whatever pushes are dropped and answers lost or late, the view ends up with
\* what the core has and stays there (refresh, the 6 s poll, _pushState).
CatchesUp == <>[](shown = core)

\* A view that shows rooms goes blank only if the core has deleted the last one,
\* not because a core that is still loading answers (apply).
NoBlank == [][shown.rooms # {} /\ shown'.rooms = {} => core.rooms = {}]_vars

\* No call is out twice: fetches overlap only after a gap in the view's clock,
\* and a second click is dropped until the first is answered (refresh, mutate).
OneOfAKind ==
  \A c, d \in calls :
    /\ c # d /\ c.at # "late" /\ d.at # "late"
    /\ <<c.m, c.arg>> = <<d.m, d.arg>> /\ c.m # "shareQr"
    => c.m = "snapshot" /\ slept

\* At rest the code drawn is that of the room shown, through every switch made
\* while one was being built, unless a shareQr failed or the core had switched
\* before it ran one (buildQr, onSecretChanged).
QrIsOfRoom ==
  ~odd /\ "buildQr" \notin due /\ (\A c \in calls : c.m # "shareQr") => qr = shown.room
=============================================================================
