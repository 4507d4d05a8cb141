--------------------------------- MODULE Phone ---------------------------------
(***************************************************************************)
(* One room on the phone (Sessions), from the moment its link is opened to   *)
(* the moment it is deleted, over crashes.  The app is one JavaScript thread: *)
(* handlers run whole, and everything they await (Loam's signature, a file    *)
(* operation, a send, a timer) lets others run in between.                    *)
(*                                                                            *)
(* The room has a log file, the app a file with the ids still marked queued   *)
(* (unconfirmed) and the registry.  Writes of one file are carried out in     *)
(* order, some time after they were asked for; a deletion may overtake a      *)
(* write, as deleteRoom expects.  A crash drops what was not carried out, and  *)
(* may leave a file half written.  The transport counts the peers of its mesh; *)
(* until it has, publish cannot tell a live mesh from none.                    *)
(***************************************************************************)
EXTENDS Integers, FiniteSets, Sequences, SequencesExt

CONSTANTS Own,         \* the events the user writes in the room
          Foreign,     \* events of others
          Callers,     \* concurrent calls of joinRoom
          NoEvent,     \* a write nobody waits for
          MaxCrashes,  \* bound on crashes
          MaxFailures  \* bound on writes that fail

ASSUME PhoneAssumption == /\ NoEvent \notin Own /\ Own \cap Foreign = {}
                          /\ MaxCrashes \in Nat /\ MaxFailures \in Nat

Events == Own \cup Foreign

VARIABLES
  up, started,   \* loaded: local state is in memory; started: the node is up
  measured,      \* the transport's mesh counter is not the initial -1
  inList,        \* the room is in byHash and rooms
  log,           \* room.log, empty when the room is not in memory
  joins,         \* joins[c]: the call is at "bind" (bindIdentity), or not under way
  own,           \* own[e]: where append is with e
  timer,         \* the debounced save is armed
  deletion,      \* where deleteRoom is; at most one in a behaviour
  marks,         \* unconfirmed
  disk,          \* log file, unconfirmed file, registry
  io,            \* operations asked for and not carried out, per file
  sent,          \* own events that reached a live mesh (history)
  guessed,       \* own events unmarked on an unmeasured mesh that was none (history)
  saved,         \* own events whose append went on after its save (history)
  unsaved,       \* own events that a failed or torn write kept from, or took off, the disk (history)
  cut,           \* own events whose append, or its mark, was cut off by a crash (history)
  rejoined,      \* the room was joined again: "early" if deleteRoom was not through (history)
  crashes, failures

node == <<up, started, measured>>
memory == <<inList, log, joins, own, timer, marks>>
history == <<sent, guessed, saved, unsaved, cut, rejoined>>
bounds == <<crashes, failures>>
vars == <<node, memory, deletion, disk, io, history, bounds>>

\* own[e] is "new", then "sign" (Loam is asked), "save" (the file is written), "send"
\* (publish is awaited), "over".  deletion is "none", "star" (the star is removed),
\* "file", "sweep" (the 2 s timer is armed), "done", or "cut" when a crash hit it.
\* An operation of the log file writes the events v or deletes it; e waits for it.
SaveLog(events, e) == [v |-> events, delete |-> FALSE, for |-> e]
DeleteLog == [v |-> {}, delete |-> TRUE, for |-> NoEvent]

NoIo == [log |-> << >>, marks |-> << >>, listed |-> << >>]

\* saveUnconfirmed with the marks `m': not awaited.
MarksSaved(q, m) == [q EXCEPT !.marks = Append(@, m)]

\* An echo, or a send into a live mesh: the mark goes, and is saved if there was one.
Unmark(e) ==
  IF e \in marks THEN marks' = marks \ {e} /\ io' = MarksSaved(io, marks \ {e})
  ELSE UNCHANGED <<marks, io>>

-----------------------------------------------------------------------------
Init ==
  /\ up = TRUE /\ started = FALSE /\ measured = FALSE
  /\ inList = FALSE /\ log = {} /\ joins = [c \in Callers |-> "none"]
  /\ own = [e \in Own |-> "new"]
  /\ timer = FALSE /\ deletion = "none" /\ marks = {}
  /\ disk = [log |-> {}, marks |-> {}, listed |-> FALSE]
  /\ io = NoIo
  /\ sent = {} /\ guessed = {} /\ saved = {} /\ unsaved = {} /\ cut = {} /\ rejoined = "no"
  /\ crashes = 0 /\ failures = 0

\* start(): marks, registry and, if the room is listed, its log come from disk.
\* (Mutant: the marks do not.)
Start_unmarked ==
  /\ ~up /\ up' = TRUE
  /\ inList' = disk.listed
  /\ log' = IF disk.listed THEN disk.log ELSE {}
  /\ UNCHANGED <<started, measured, joins, own, timer, marks, deletion, disk, io, history, bounds>>
Start ==
  /\ ~up /\ up' = TRUE
  /\ marks' = disk.marks
  /\ inList' = disk.listed
  /\ log' = IF disk.listed THEN disk.log ELSE {}
  /\ UNCHANGED <<started, measured, joins, own, timer, deletion, disk, io, history, bounds>>

\* connect(): tried again until the transport is up.
Connect ==
  /\ up /\ ~started /\ started' = TRUE
  /\ UNCHANGED <<up, measured, memory, deletion, disk, io, history, bounds>>

\* The transport has counted its mesh (external).
Measure ==
  /\ started /\ ~measured /\ measured' = TRUE
  /\ UNCHANGED <<up, started, memory, deletion, disk, io, history, bounds>>

\* joinRoom: a room that is not in memory, and not on its way in.  (Mutant: only
\* the list is looked at.)
MayJoin_list(c) == up /\ ~inList /\ joins[c] = "none"
MayJoin(c) == up /\ ~inList /\ \A d \in Callers : joins[d] = "none"

Join(c) ==
  /\ MayJoin(c)
  /\ joins' = [joins EXCEPT ![c] = "bind"]
  /\ UNCHANGED <<node, inList, log, own, timer, marks, deletion, disk, io, history, bounds>>

\* bindIdentity throws: nothing was registered.
JoinFails(c) ==
  /\ joins[c] = "bind"
  /\ joins' = [joins EXCEPT ![c] = "none"]
  /\ UNCHANGED <<node, inList, log, own, timer, marks, deletion, disk, io, history, bounds>>

\* doJoinRoom after bindIdentity: the log left by an earlier stay is read, the
\* room registered, the registry saved.
Register(c) ==
  /\ joins[c] = "bind"
  /\ joins' = [joins EXCEPT ![c] = "none"]
  /\ inList' = TRUE /\ log' = disk.log
  /\ io' = [io EXCEPT !.listed = Append(@, TRUE)]
  /\ rejoined' = CASE deletion = "none" -> rejoined
                   [] deletion = "done" /\ io.log = << >> /\ rejoined # "early" -> "late"
                   [] OTHER -> "early"
  /\ UNCHANGED <<node, own, timer, marks, deletion, disk, sent, guessed, saved, unsaved, cut, bounds>>

-----------------------------------------------------------------------------
(* append *)

\* The event is stamped and Loam, or this device's key, is asked to sign it ...
Author(e) ==
  /\ inList /\ own[e] = "new"
  /\ own' = [own EXCEPT ![e] = "sign"]
  /\ UNCHANGED <<node, inList, log, joins, timer, marks, deletion, disk, io, history, bounds>>

\* ... which may fail ...
SignFails(e) ==
  /\ own[e] = "sign"
  /\ own' = [own EXCEPT ![e] = "over"]
  /\ UNCHANGED <<node, inList, log, joins, timer, marks, deletion, disk, io, history, bounds>>

\* ... then it enters the log and the file is written at once (ingest, flushSave).
Signed(e) ==
  /\ own[e] = "sign"
  /\ own' = [own EXCEPT ![e] = "save"]
  /\ log' = log \cup {e} /\ timer' = FALSE
  /\ io' = [io EXCEPT !.log = Append(@, SaveLog(log \cup {e}, e))]
  /\ UNCHANGED <<node, inList, joins, marks, deletion, disk, history, bounds>>

\* An operation on the log file: the next one, or a deletion ahead of the writes
\* before it.
Next_up(k) == \A j \in 1 .. k - 1 : io.log[k].delete /\ ~io.log[j].delete

Awaited(k) == io.log[k].for \in Own /\ own[io.log[k].for] = "save"

\* What awaits the operation goes on: append with the mark, its file and the send;
\* deleteRoom with the sweep and the registry.
GoesOn(k) ==
  LET op == io.log[k]
      rest == [io EXCEPT !.log = RemoveAt(@, k)]
      last == op.delete /\ deletion = "file"
  IN  /\ own' = IF Awaited(k) THEN [own EXCEPT ![op.for] = "send"] ELSE own
      /\ marks' = IF Awaited(k) THEN marks \cup {op.for} ELSE marks
      /\ deletion' = IF last THEN "sweep" ELSE deletion
      /\ io' = IF Awaited(k) THEN MarksSaved(rest, marks \cup {op.for})
               ELSE IF last THEN [rest EXCEPT !.listed = Append(@, inList)] ELSE rest

LogIo(k) ==
  /\ Next_up(k) /\ GoesOn(k)
  /\ disk' = [disk EXCEPT !.log = io.log[k].v]
  /\ saved' = IF Awaited(k) THEN saved \cup {io.log[k].for} ELSE saved
  /\ UNCHANGED <<node, inList, log, joins, timer, sent, guessed, unsaved, cut, rejoined, bounds>>

\* A write that fails, leaving the file as it was or half written, which reads as
\* empty: saveLogFile swallows the error and what awaits it goes on all the same.
LogIoFails(k) ==
  /\ Next_up(k) /\ ~io.log[k].delete /\ GoesOn(k)
  /\ failures < MaxFailures /\ failures' = failures + 1
  /\ \/ UNCHANGED disk
     \/ disk' = [disk EXCEPT !.log = {}]
  /\ unsaved' = unsaved \cup (Own \cap ((io.log[k].v \cup disk.log) \ disk'.log))
  /\ UNCHANGED <<node, inList, log, joins, timer, sent, guessed, saved, cut, rejoined, crashes>>

MarksIo ==
  /\ io.marks # << >>
  /\ disk' = [disk EXCEPT !.marks = Head(io.marks)]
  /\ io' = [io EXCEPT !.marks = Tail(@)]
  /\ UNCHANGED <<node, memory, deletion, history, bounds>>

ListedIo ==
  /\ io.listed # << >>
  /\ disk' = [disk EXCEPT !.listed = Head(io.listed)]
  /\ io' = [io EXCEPT !.listed = Tail(@)]
  /\ UNCHANGED <<node, memory, deletion, history, bounds>>

\* trySend into a live mesh.
SendLands(e) ==
  /\ started /\ measured /\ own[e] = "send"
  /\ own' = [own EXCEPT ![e] = "over"]
  /\ sent' = sent \cup {e}
  /\ Unmark(e)
  /\ UNCHANGED <<node, inList, log, joins, timer, deletion, disk, guessed, saved, unsaved, cut,
                 rejoined, bounds>>

\* trySend when the mesh was not counted yet: the mark goes, whether there is a mesh
\* or not.
SendUnmeasured(e) ==
  /\ started /\ ~measured /\ own[e] = "send"
  /\ own' = [own EXCEPT ![e] = "over"]
  /\ \/ sent' = sent \cup {e} /\ UNCHANGED guessed
     \/ guessed' = guessed \cup {e} /\ UNCHANGED sent
  /\ Unmark(e)
  /\ UNCHANGED <<node, inList, log, joins, timer, deletion, disk, saved, unsaved, cut, rejoined,
                 bounds>>

\* trySend into a mesh counted as empty, or a publish that throws: the mark stays.  (Mutant: it goes.)
SendBuffered_unmarks(e) ==
  /\ own[e] = "send"
  /\ own' = [own EXCEPT ![e] = "over"]
  /\ Unmark(e)
  /\ UNCHANGED <<node, inList, log, joins, timer, deletion, disk, history, bounds>>
SendBuffered(e) ==
  /\ own[e] = "send"
  /\ own' = [own EXCEPT ![e] = "over"]
  /\ UNCHANGED <<node, inList, log, joins, timer, marks, deletion, disk, io, history, bounds>>

\* retryUnpublished, from resync: every marked event of the log is sent again.
Resync ==
  /\ started
  /\ \E e \in log \cap marks : own[e] = "over"
  /\ own' = [e \in Own |-> IF e \in log \cap marks THEN "send" ELSE own[e]]
  /\ UNCHANGED <<node, inList, log, joins, timer, marks, deletion, disk, io, history, bounds>>

-----------------------------------------------------------------------------
\* onCandidates and ingest: an event of somebody else, or one of ours echoed.
Receive(e) ==
  /\ started /\ inList
  /\ e \in Foreign \cup sent
  /\ e \in marks \/ e \notin log
  /\ Unmark(e)
  /\ log' = log \cup {e}
  /\ timer' = (timer \/ e \notin log)
  /\ UNCHANGED <<node, inList, joins, own, deletion, disk, history, bounds>>

\* scheduleSave's timer.
TimerFires ==
  /\ timer /\ timer' = FALSE
  /\ io' = [io EXCEPT !.log = Append(@, SaveLog(log, NoEvent))]
  /\ UNCHANGED <<node, inList, log, joins, own, marks, deletion, disk, history, bounds>>

\* deleteRoom up to its first await: what awaits on the room's behalf will stop.
Delete ==
  /\ inList /\ deletion = "none"
  /\ deletion' = "star"
  /\ inList' = FALSE /\ log' = {} /\ timer' = FALSE
  /\ own' = [e \in Own |-> IF own[e] = "new" THEN "new" ELSE "over"]
  /\ marks' = marks \ log /\ io' = MarksSaved(io, marks \ log)
  /\ saved' = {}
  /\ UNCHANGED <<node, joins, disk, sent, guessed, unsaved, cut, rejoined, bounds>>

DeleteFile ==
  /\ deletion = "star" /\ deletion' = "file"
  /\ io' = [io EXCEPT !.log = Append(@, DeleteLog)]
  /\ UNCHANGED <<node, memory, disk, history, bounds>>

\* After 2 s, longer than a save takes, the file is deleted once more, also when
\* the room is back.  (Mutant: it is not.)
Sweep_none ==
  /\ deletion = "sweep" /\ deletion' = "done"
  /\ io.log = << >>
  /\ UNCHANGED <<node, memory, disk, io, history, bounds>>
Sweep ==
  /\ deletion = "sweep" /\ deletion' = "done"
  /\ io.log = << >>
  /\ io' = [io EXCEPT !.log = Append(@, DeleteLog)]
  /\ UNCHANGED <<node, memory, disk, history, bounds>>

\* The app is killed.  The write of a file that is under way may leave half of it,
\* which reads as empty.
Halvable(f) == io[f] # << >> /\ (f = "log" => ~Head(io.log).delete)

Crash ==
  /\ up /\ crashes < MaxCrashes /\ crashes' = crashes + 1
  /\ up' = FALSE /\ started' = FALSE /\ measured' = FALSE
  /\ inList' = FALSE /\ log' = {} /\ timer' = FALSE /\ marks' = {}
  /\ joins' = [c \in Callers |-> "none"]
  /\ own' = [e \in Own |-> IF own[e] = "new" THEN "new" ELSE "over"]
  /\ \E halved \in SUBSET {f \in {"log", "marks"} : Halvable(f)} :
       disk' = [disk EXCEPT !.log = IF "log" \in halved THEN {} ELSE @,
                            !.marks = IF "marks" \in halved THEN {} ELSE @]
  /\ unsaved' = unsaved \cup (Own \cap (disk.log \ disk'.log))
  /\ cut' = cut \cup {e \in Own : own[e] = "save"} \cup (marks \ disk'.marks)
  /\ io' = NoIo
  /\ deletion' = IF deletion = "none" \/ (deletion = "done" /\ io = NoIo) THEN deletion ELSE "cut"
  /\ UNCHANGED <<sent, guessed, saved, rejoined, failures>>

Next ==
  \/ Start \/ Connect \/ Measure \/ Resync \/ TimerFires
  \/ \E c \in Callers : Join(c) \/ JoinFails(c) \/ Register(c)
  \/ \E e \in Own : Author(e) \/ SignFails(e) \/ Signed(e)
                    \/ SendLands(e) \/ SendUnmeasured(e) \/ SendBuffered(e)
  \/ \E k \in 1 .. Len(io.log) : LogIo(k) \/ LogIoFails(k)
  \/ MarksIo \/ ListedIo
  \/ \E e \in Events : Receive(e)
  \/ Delete \/ DeleteFile \/ Sweep
  \/ Crash

(* Fairness: the app is started again, it connects, and of a starred room the
   keep-alive task resyncs for ever (keepalive.ts); files get written; a mesh
   that is tried again and again is sometimes there, or not counted. *)
Fairness ==
  /\ WF_vars(Start) /\ WF_vars(Connect) /\ WF_vars(Resync)
  /\ WF_vars(MarksIo) /\ WF_vars(\E k \in 1 .. Len(io.log) : LogIo(k))
  /\ \A e \in Own : SF_vars(SendLands(e) \/ SendUnmeasured(e))

Safe == Init /\ [][Next]_vars
Spec == Safe /\ Fairness

-----------------------------------------------------------------------------
\* An event of ours is in the file from before its first send until the room is
\* deleted (append's comment): no later save, join or restart drops it.  A write that
\* fails, or that a kill cuts in half, does; nobody is told.
OwnIsOnDisk == saved \ unsaved \subseteq disk.log

\* The same, unless the room was joined again before deleteRoom was through.
OwnIsOnDiskUnlessRejoined == rejoined # "early" => OwnIsOnDisk

\* An event of ours that no mesh has seen is shown as queued (isPublished), also after
\* a restart or a failed write, with three exceptions: its mark went before the mesh
\* was counted (guessed); the app was killed between saving it and saving its mark
\* (cut); or it was killed during the deletion, which brings the room back unmarked.
UnsentIsQueued ==
  rejoined # "early" /\ deletion # "cut" =>
    \A e \in log \cap Own : e \in sent \cup marks \cup guessed \cup cut \/ own[e] = "save"

\* When deleteRoom is through, nothing of the room is left or will come back: not
\* by a save that was under way, not by the registry of another join.  A mark of an
\* event that never got to the disk stays.
DeletedIsGone ==
  deletion = "done" /\ rejoined = "no" =>
    /\ io.log = << >> => disk.log = {}
    /\ io.marks = << >> => disk.marks \subseteq unsaved
    /\ io.listed = << >> => ~disk.listed

\* What was saved, in a room that the registry has, is sent, though the mesh be gone
\* for long and the app killed; with the same exceptions.
SavedIsSent ==
  \A e \in Own :
    e \in saved /\ disk.listed /\ io.listed = << >>
      ~> e \in sent \cup guessed \cup cut \cup unsaved \/ e \notin saved \/ rejoined = "early"
=============================================================================
