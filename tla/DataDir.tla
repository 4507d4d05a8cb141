------------------------------- MODULE DataDir -------------------------------
(***************************************************************************)
(* One room's log.json, shared by several qaku_core instances.  Basecamp may *)
(* run one instance per view on the same data directory; each keeps the log  *)
(* in memory, merges the file into it before most writes, and then rewrites  *)
(* the whole file: loadPersistedLog, then savePersistedLog, which truncates  *)
(* the file and writes it anew.  A torn or empty file reads as no events.    *)
(*                                                                           *)
(* The instances are processes of their own and take no lock on the file, so *)
(* the steps of a save interleave with those of another's, and a process may *)
(* die between them.  Opening the file truncates it; the log is then handed  *)
(* over in one write, at the start of the file, over what another instance   *)
(* may have put there meanwhile.                                             *)
(***************************************************************************)
EXTENDS Integers, FiniteSets

CONSTANTS Instances, Events,
          MaxExits    \* bound on orderly exits in a behaviour

ASSUME DataDirAssumption == MaxExits \in Nat

VARIABLES
  mem,    \* mem[i]: s.log of instance i, empty while it is down
  dirty,  \* dirty[i]: the room is in m_dirty of an instance that runs
  op,     \* op[i]: where i is in a save, see Ops
  file,   \* log.json, as readLog reads it
  torn,   \* log.json holds the rest of a longer log after a shorter one: not JSON
  saved,  \* every event a save wrote (history)
  disturbed,  \* two saves have overlapped, a process has died between truncating the file
              \* and writing it, or a destructor has saved a dirty room (history)
  exits

vars == <<mem, dirty, op, file, torn, saved, disturbed, exits>>

\* "down": not running; "idle": between handlers; "open": about to truncate the
\* file; "write": about to write it; "exit", "last": the same, in the destructor.
Ops == {"down", "idle", "open", "write", "exit", "last"}
Saving == {"open", "write", "exit", "last"}

OthersSave(i) == \E j \in Instances \ {i} : op[j] \in Saving

-----------------------------------------------------------------------------
Init ==
  /\ mem = [i \in Instances |-> {}]
  /\ dirty = [i \in Instances |-> FALSE]
  /\ op = [i \in Instances |-> "down"]
  /\ file = {} /\ torn = FALSE /\ saved = {} /\ disturbed = FALSE
  /\ exits = 0

\* loadSessions reads the file.
Start(i) ==
  /\ op[i] = "down"
  /\ op' = [op EXCEPT ![i] = "idle"]
  /\ mem' = [mem EXCEPT ![i] = file]
  /\ UNCHANGED <<dirty, file, torn, saved, disturbed, exits>>

\* (Mutants: no merge; the file instead of the memory.)
Load_none(i) == mem[i]
Load_file(i) == file

\* loadPersistedLog
Load(i) == mem[i] \cup file

\* commitOwn: merge the file, add the event, save.
CommitOwn(i, e) ==
  /\ op[i] = "idle"
  /\ e \notin saved /\ \A j \in Instances : e \notin mem[j]
  /\ mem' = [mem EXCEPT ![i] = Load(i) \cup {e}]
  /\ op' = [op EXCEPT ![i] = "open"]
  /\ disturbed' = (disturbed \/ OthersSave(i))
  /\ UNCHANGED <<dirty, file, torn, saved, exits>>

\* The receive half of pushEvent, for an event of another device: memory only.
Receive(i, e) ==
  /\ op[i] = "idle" /\ e \notin mem[i]
  /\ mem' = [mem EXCEPT ![i] = @ \cup {e}]
  /\ dirty' = [dirty EXCEPT ![i] = TRUE]
  /\ UNCHANGED <<op, file, torn, saved, disturbed, exits>>

\* flushDirty: merge the file, save.
Flush(i) ==
  /\ op[i] = "idle" /\ dirty[i]
  /\ dirty' = [dirty EXCEPT ![i] = FALSE]
  /\ mem' = [mem EXCEPT ![i] = Load(i)]
  /\ op' = [op EXCEPT ![i] = "open"]
  /\ disturbed' = (disturbed \/ OthersSave(i))
  /\ UNCHANGED <<file, torn, saved, exits>>

\* The destructor saves a dirty room as it is in memory.
Exit(i) ==
  /\ op[i] = "idle"
  /\ exits < MaxExits /\ exits' = exits + 1
  /\ op' = [op EXCEPT ![i] = IF dirty[i] THEN "exit" ELSE "down"]
  /\ mem' = [mem EXCEPT ![i] = IF dirty[i] THEN @ ELSE {}]
  /\ dirty' = [dirty EXCEPT ![i] = FALSE]
  /\ disturbed' = (disturbed \/ dirty[i])
  /\ UNCHANGED <<file, torn, saved>>

\* writeLog: opening the file truncates it ...
Truncate(i) ==
  /\ op[i] \in {"open", "exit"}
  /\ op' = [op EXCEPT ![i] = IF op[i] = "open" THEN "write" ELSE "last"]
  /\ file' = {} /\ torn' = FALSE
  /\ UNCHANGED <<mem, dirty, saved, disturbed, exits>>

\* ... and then the whole log is written, from the start of the file.  What another
\* instance has written since shows behind it if it is longer.
Write(i) ==
  /\ op[i] \in {"write", "last"}
  /\ op' = [op EXCEPT ![i] = IF op[i] = "write" THEN "idle" ELSE "down"]
  /\ \E whole \in BOOLEAN :
       /\ ~torn /\ file \subseteq mem[i] => whole
       /\ ~torn /\ mem[i] \subseteq file /\ mem[i] # file => ~whole
       /\ file' = (IF whole THEN mem[i] ELSE {}) /\ torn' = ~whole
  /\ saved' = saved \cup mem[i]
  /\ mem' = [mem EXCEPT ![i] = IF op[i] = "write" THEN @ ELSE {}]
  /\ UNCHANGED <<dirty, disturbed, exits>>

\* The process dies.
Crash(i) ==
  /\ op[i] # "down"
  /\ op' = [op EXCEPT ![i] = "down"]
  /\ mem' = [mem EXCEPT ![i] = {}]
  /\ dirty' = [dirty EXCEPT ![i] = FALSE]
  /\ disturbed' = (disturbed \/ op[i] \in {"write", "last"})
  /\ UNCHANGED <<file, torn, saved, exits>>

Next ==
  \E i \in Instances :
    \/ Start(i)
    \/ \E e \in Events : CommitOwn(i, e)
    \/ \E e \in Events : Receive(i, e)
    \/ Flush(i)
    \/ Exit(i)
    \/ Truncate(i)
    \/ Write(i)
    \/ Crash(i)

\* The debounce timer fires, and a handler that has begun goes on.
Fairness ==
  \A i \in Instances : WF_vars(Flush(i)) /\ WF_vars(Truncate(i)) /\ WF_vars(Write(i))

Safe == Init /\ [][Next]_vars
Spec == Safe /\ Fairness

-----------------------------------------------------------------------------
TypeOK ==
  /\ mem \in [Instances -> SUBSET Events]
  /\ dirty \in [Instances -> BOOLEAN]
  /\ op \in [Instances -> Ops]
  /\ file \in SUBSET Events /\ torn \in BOOLEAN /\ saved \in SUBSET Events
  /\ disturbed \in BOOLEAN
  /\ exits \in 0 .. MaxExits

\* An event that was saved once stays in the file, or is in the hands of the
\* instance that is rewriting it: no instance clobbers another's events
\* (loadPersistedLog's comment).
NothingClobbered ==
  \A e \in saved :
    e \in file \/ \E i \in Instances : op[i] \in {"write", "last"} /\ e \in mem[i]

\* What the merge before a save gives, and no more: memory that is out of date clobbers
\* nothing, until two saves overlap, a crash halves one, or a destructor saves a dirty
\* room; each of the three is enough to lose what was saved (commitOwn, flushDirty).
KeptUnlessDisturbed == ~disturbed => NothingClobbered

\* A received event is on disk soon, unless its instance is killed first, or the save
\* lands on a longer one of another instance.
ReceivedIsSaved ==
  \A i \in Instances, e \in Events :
    dirty[i] /\ op[i] = "idle" /\ e \in mem[i] ~> e \in file \/ op[i] = "down" \/ torn
=============================================================================
