----------------------------- MODULE Phone_proofs -----------------------------
(***************************************************************************)
(* The room on the phone for any events, callers and number of crashes: what *)
(* was saved stays on disk, what no mesh has seen is shown as queued, and a   *)
(* deleted room is gone.  The argument is about what is still to be written:  *)
(* while the room is in memory each write of its file has all that those      *)
(* before it have, and after a deletion nothing but deletions is left.        *)
(***************************************************************************)
EXTENDS Phone, TLAPS

Op == [v : SUBSET Events, delete : BOOLEAN, for : Own \cup {NoEvent}]

Typed ==
  /\ up \in BOOLEAN /\ started \in BOOLEAN /\ measured \in BOOLEAN /\ inList \in BOOLEAN /\ timer \in BOOLEAN
  /\ log \in SUBSET Events /\ marks \in SUBSET Own
  /\ joins \in [Callers -> {"none", "bind"}]
  /\ own \in [Own -> {"new", "sign", "save", "send", "over"}]
  /\ deletion \in {"none", "star", "file", "sweep", "done", "cut"}
  /\ disk \in [log : SUBSET Events, marks : SUBSET Own, listed : BOOLEAN]
  /\ io \in [log : Seq(Op), marks : Seq(SUBSET Own), listed : Seq(BOOLEAN)]
  /\ sent \in SUBSET Own /\ guessed \in SUBSET Own /\ cut \in SUBSET Own
  /\ saved \in SUBSET Own /\ unsaved \in SUBSET Own
  /\ rejoined \in {"no", "late", "early"}

\* deleteRoom is between its steps.
Deleting == deletion \in {"star", "file", "sweep"}

\* A room that is not in memory has nothing under way but its deletion and a join.
Basics ==
  /\ ~inList => log = {} /\ ~timer /\ \A e \in Own : own[e] \in {"new", "over"}
  /\ ~up => ~inList /\ ~Deleting /\ marks = {} /\ io = NoIo /\ \A c \in Callers : joins[c] = "none"
  /\ \A c \in Callers : joins[c] = "bind" => up /\ ~inList /\ \A d \in Callers : joins[d] = "bind" => d = c
  /\ ~inList /\ deletion = "none" => io.log = << >>
  /\ \A k \in 1 .. Len(io.log) : io.log[k].delete => io.log[k].v = {}

\* The writes q of a file that has d grow to the log l, and each has what waits for it.
Chained(d, q, l) ==
  /\ d \subseteq l
  /\ \A k \in 1 .. Len(q) :
       /\ ~q[k].delete /\ d \subseteq q[k].v /\ q[k].v \subseteq l
       /\ q[k].for # NoEvent => q[k].for \in q[k].v
       /\ \A j \in 1 .. k : q[j].v \subseteq q[k].v

Kept ==
  rejoined # "early" =>
    /\ Deleting => ~inList /\ saved = {}
    /\ ~inList => io.log = << >> \/ saved = {}
    /\ inList => Chained(disk.log, io.log, log)
    /\ saved \ unsaved \subseteq disk.log
    /\ deletion = "done" /\ ~inList => \A k \in 1 .. Len(io.log) : io.log[k].delete

\* The marks a room will have that is read from disk.
MarksOnDisk == IF up THEN marks ELSE disk.marks

Queued ==
  rejoined # "early" /\ deletion # "cut" =>
    /\ \A e \in log \cap Own : e \in sent \cup marks \cup guessed \cup cut \/ own[e] = "save"
    /\ ~inList /\ deletion \in {"none", "done"} /\ io.log = << >>
         => disk.log \cap Own \subseteq sent \cup MarksOnDisk \cup guessed \cup cut

\* When the operations q have been carried out on what is d, it is in S.
Ends(q, d, S) == IF q = << >> THEN d \in S ELSE q[Len(q)] \in S

Gone ==
  rejoined = "no" =>
    /\ deletion \notin {"none", "cut"} =>
         ~inList /\ marks \subseteq unsaved /\ Ends(io.marks, disk.marks, SUBSET unsaved)
    /\ deletion \in {"sweep", "done"} => Ends(io.listed, disk.listed, {FALSE})
    /\ deletion = "done" /\ io.log = << >> => disk.log = {}
    /\ deletion = "none" => /\ marks \cup disk.marks \subseteq disk.log \cup unsaved
                            /\ \A k \in 1 .. Len(io.marks) : io.marks[k] \subseteq disk.log \cup unsaved

Inv == Typed /\ Basics /\ Kept /\ Queued /\ Gone

-----------------------------------------------------------------------------
(* Queues. *)

LEMMA Appended ==
  ASSUME NEW S, NEW q \in Seq(S), NEW x \in S
  PROVE  /\ Append(q, x) \in Seq(S) /\ Len(Append(q, x)) = Len(q) + 1 /\ Append(q, x) # << >>
         /\ \A k \in 1 .. Len(q) : Append(q, x)[k] = q[k]
         /\ Append(q, x)[Len(q) + 1] = x
OBVIOUS

LEMMA Popped ==
  ASSUME NEW S, NEW q \in Seq(S), q # << >>
  PROVE  /\ Tail(q) \in Seq(S) /\ Len(Tail(q)) = Len(q) - 1 /\ Len(q) \in Nat \ {0}
         /\ \A k \in 1 .. Len(Tail(q)) : Tail(q)[k] = q[k + 1]
         /\ Head(q) = q[1] /\ q[1] \in S
OBVIOUS

LEMMA Joined ==
  ASSUME NEW S, NEW a \in Seq(S), NEW b \in Seq(S)
  PROVE  /\ a \o b \in Seq(S) /\ Len(a \o b) = Len(a) + Len(b)
         /\ \A j \in 1 .. Len(a) : (a \o b)[j] = a[j]
         /\ \A j \in 1 .. Len(b) : (a \o b)[Len(a) + j] = b[j]
OBVIOUS

LEMMA Removed ==
  ASSUME NEW S, NEW q \in Seq(S), NEW k \in 1 .. Len(q)
  PROVE  /\ RemoveAt(q, k) \in Seq(S) /\ Len(RemoveAt(q, k)) = Len(q) - 1
         /\ \A j \in 1 .. Len(q) - 1 : RemoveAt(q, k)[j] = IF j < k THEN q[j] ELSE q[j + 1]
<1> DEFINE a == SubSeq(q, 1, k - 1)
           b == SubSeq(q, k + 1, Len(q))
<1>1. a \in Seq(S) /\ Len(a) = k - 1 /\ \A j \in 1 .. k - 1 : a[j] = q[j]
  OBVIOUS
<1>2. b \in Seq(S) /\ Len(b) = Len(q) - k /\ \A j \in 1 .. Len(q) - k : b[j] = q[k + j]
  OBVIOUS
<1>3. RemoveAt(q, k) = a \o b
  BY DEF RemoveAt
<1> HIDE DEF a, b
<1> DEFINE r == a \o b
<1>4. /\ r \in Seq(S) /\ Len(r) = Len(q) - 1
      /\ \A j \in 1 .. k - 1 : r[j] = q[j]
      /\ \A j \in 1 .. Len(q) - k : r[k - 1 + j] = q[k + j]
  <2>1. /\ r \in Seq(S) /\ Len(r) = Len(a) + Len(b)
        /\ \A j \in 1 .. Len(a) : r[j] = a[j]
        /\ \A j \in 1 .. Len(b) : r[Len(a) + j] = b[j]
    <3>1. a \in Seq(S) /\ b \in Seq(S)
      BY <1>1, <1>2
    <3>2. /\ a \o b \in Seq(S) /\ Len(a \o b) = Len(a) + Len(b)
          /\ \A j \in 1 .. Len(a) : (a \o b)[j] = a[j]
          /\ \A j \in 1 .. Len(b) : (a \o b)[Len(a) + j] = b[j]
      BY ONLY <3>1, Joined
    <3> QED BY <3>2
  <2> HIDE DEF r
  <2>2. Len(q) \in Nat /\ Len(a) = k - 1 /\ Len(b) = Len(q) - k
    BY <1>1, <1>2
  <2> QED BY <1>1, <1>2, <2>1, <2>2
<1> HIDE DEF r
<1>5. ASSUME NEW j \in 1 .. Len(q) - 1 PROVE r[j] = IF j < k THEN q[j] ELSE q[j + 1]
  <2>1. CASE j < k
    BY <1>4, <2>1
  <2>2. CASE ~(j < k)
    <3>1. j - k + 1 \in 1 .. Len(q) - k
      BY <2>2
    <3>2. r[k - 1 + (j - k + 1)] = q[k + (j - k + 1)]
      BY <1>4, <3>1
    <3> QED BY <2>2, <3>2
  <2> QED BY <2>1, <2>2
<1> QED BY <1>3, <1>4, <1>5 DEF r

LEMMA EndsAppended ==
  ASSUME NEW S, NEW q \in Seq(S), NEW x \in S, NEW d, NEW T, x \in T
  PROVE  Ends(Append(q, x), d, T)
BY Appended DEF Ends

LEMMA EndsPopped ==
  ASSUME NEW S, NEW q \in Seq(S), q # << >>, NEW d, NEW x, Ends(q, d, x)
  PROVE  Ends(Tail(q), Head(q), x)
<1>1. CASE Tail(q) = << >>
  <2>1. Len(q) \in Nat /\ Len(Tail(q)) = Len(q) - 1 /\ Head(q) = q[1]
    BY Popped
  <2>2. Len(q) = 1 /\ Head(q) = q[1]
    <3>1. \A t : t = << >> => Len(t) = 0
      OBVIOUS
    <3> QED BY <1>1, <2>1, <3>1
  <2> QED BY <1>1, <2>2 DEF Ends
<1>2. CASE Tail(q) # << >>
  <2>1. Len(Tail(q)) \in 1 .. Len(q) - 1 /\ Len(Tail(q)) + 1 = Len(q)
    BY <1>2, Popped
  <2> QED BY <1>2, <2>1, Popped DEF Ends
<1> QED BY <1>1, <1>2

\* The log grows, by nothing or by what a new write has.
LEMMA ChainedGrows ==
  ASSUME NEW q \in Seq(Op), NEW d, NEW l, NEW m, Chained(d, q, l), l \subseteq m
  PROVE  Chained(d, q, m)
BY DEF Chained

LEMMA ChainedAppended ==
  ASSUME NEW q \in Seq(Op), NEW d, NEW l, NEW m, Chained(d, q, l), l \subseteq m,
         NEW x \in Op, ~x.delete, x.v = m, x.for # NoEvent => x.for \in m
  PROVE  Chained(d, Append(q, x), m)
<1> DEFINE r == Append(q, x)
<1>1. /\ Len(r) = Len(q) + 1 /\ (\A k \in 1 .. Len(q) : r[k] = q[k]) /\ r[Len(q) + 1] = x
      /\ Len(q) \in Nat
  BY Appended
<1> HIDE DEF r
<1>2. ASSUME NEW k \in 1 .. Len(r)
      PROVE  /\ ~r[k].delete /\ d \subseteq r[k].v /\ r[k].v \subseteq m
             /\ r[k].for # NoEvent => r[k].for \in r[k].v
             /\ \A j \in 1 .. k : r[j].v \subseteq r[k].v
  <2>1. CASE k \in 1 .. Len(q)
    BY <1>1, <2>1 DEF Chained
  <2>2. CASE k = Len(q) + 1
    BY <1>1, <2>2 DEF Chained
  <2> QED BY <1>1, <2>1, <2>2
<1> QED BY <1>2 DEF Chained, r

\* The first write is carried out; none but the first may be.
LEMMA ChainedPopped ==
  ASSUME NEW q \in Seq(Op), NEW d, NEW l, Chained(d, q, l), NEW k \in 1 .. Len(q),
         \A j \in 1 .. k - 1 : q[k].delete
  PROVE  /\ ~q[k].delete /\ d \subseteq q[k].v /\ q[k].v \subseteq l
         /\ q[k].for # NoEvent => q[k].for \in q[k].v
         /\ Chained(q[k].v, RemoveAt(q, k), l) /\ Chained(d, RemoveAt(q, k), l)
         /\ Chained({}, RemoveAt(q, k), l)
<1>1. /\ ~q[k].delete /\ d \subseteq q[k].v /\ q[k].v \subseteq l
      /\ q[k].for # NoEvent => q[k].for \in q[k].v
  BY DEF Chained
<1>2. k = 1
  BY <1>1
<1> DEFINE r == RemoveAt(q, k)
<1>3. Len(r) = Len(q) - 1 /\ \A j \in 1 .. Len(r) : r[j] = q[j + 1] /\ j + 1 \in 1 .. Len(q)
  BY <1>2, Removed
<1> HIDE DEF r
<1>4. ASSUME NEW i \in 1 .. Len(r)
      PROVE  /\ ~r[i].delete /\ q[1].v \subseteq r[i].v /\ d \subseteq r[i].v /\ r[i].v \subseteq l
             /\ r[i].for # NoEvent => r[i].for \in r[i].v
             /\ \A j \in 1 .. i : r[j].v \subseteq r[i].v
  <2>1. i + 1 \in 1 .. Len(q) /\ r[i] = q[i + 1] /\ 1 \in 1 .. i + 1
    BY <1>3
  <2>2. \A j \in 1 .. i : r[j] = q[j + 1] /\ j + 1 \in 1 .. i + 1
    BY <1>3
  <2> QED BY <2>1, <2>2 DEF Chained
<1> QED BY <1>1, <1>2, <1>4 DEF Chained, r

-----------------------------------------------------------------------------
(* Types. *)

LEMMA Ops ==
  /\ DeleteLog \in Op /\ DeleteLog.delete /\ DeleteLog.v = {} /\ DeleteLog.for = NoEvent
  /\ \A l \in SUBSET Events, e \in Own \cup {NoEvent} :
       SaveLog(l, e) \in Op /\ ~SaveLog(l, e).delete /\ SaveLog(l, e).v = l /\ SaveLog(l, e).for = e
BY DEF Op, DeleteLog, SaveLog

\* An operation is asked for.
LEMMA Asked ==
  ASSUME Typed
  PROVE  /\ \A x \in Op :
              LET q == [io EXCEPT !.log = Append(@, x)]
              IN  /\ q \in [log : Seq(Op), marks : Seq(SUBSET Own), listed : Seq(BOOLEAN)]
                  /\ q.log = Append(io.log, x) /\ q.marks = io.marks /\ q.listed = io.listed
         /\ \A m \in SUBSET Own :
              LET q == MarksSaved(io, m)
              IN  /\ q \in [log : Seq(Op), marks : Seq(SUBSET Own), listed : Seq(BOOLEAN)]
                  /\ q.log = io.log /\ q.marks = Append(io.marks, m) /\ q.listed = io.listed
         /\ \A b \in BOOLEAN :
              LET q == [io EXCEPT !.listed = Append(@, b)]
              IN  /\ q \in [log : Seq(Op), marks : Seq(SUBSET Own), listed : Seq(BOOLEAN)]
                  /\ q.log = io.log /\ q.marks = io.marks /\ q.listed = Append(io.listed, b)
<1>1. io \in [log : Seq(Op), marks : Seq(SUBSET Own), listed : Seq(BOOLEAN)]
  BY DEF Typed
<1> HIDE DEF Op
<1> QED BY <1>1, Appended DEF MarksSaved

LEMMA Unmarked ==
  ASSUME Typed, NEW e, Unmark(e)
  PROVE  /\ marks' = marks \ {e} /\ marks' \in SUBSET Own
         /\ io' \in [log : Seq(Op), marks : Seq(SUBSET Own), listed : Seq(BOOLEAN)]
         /\ io'.log = io.log /\ io'.listed = io.listed
         /\ io'.marks = io.marks \/ io'.marks = Append(io.marks, marks')
<1>1. CASE e \in marks
  <2>1. marks' = marks \ {e} /\ io' = MarksSaved(io, marks')
    BY <1>1 DEF Unmark
  <2>2. marks' \in SUBSET Own
    BY <2>1 DEF Typed
  <2> QED BY <2>1, <2>2, Asked
<1>2. CASE e \notin marks
  BY <1>2 DEF Unmark, Typed
<1> QED BY <1>1, <1>2

\* What an operation on the log file does, carried out or failed; the rest is as it was.
LEMMA LogIoDoes ==
  ASSUME Typed, NEW k \in 1 .. Len(io.log), LogIo(k) \/ LogIoFails(k)
  PROVE  /\ \A j \in 1 .. k - 1 : io.log[k].delete
         /\ io.log[k] \in Op
         /\ io' \in [log : Seq(Op), marks : Seq(SUBSET Own), listed : Seq(BOOLEAN)]
         /\ io'.log = RemoveAt(io.log, k)
         /\ disk' \in [log : SUBSET Events, marks : SUBSET Own, listed : BOOLEAN]
         /\ disk'.marks = disk.marks /\ disk'.listed = disk.listed
         /\ \/ /\ disk'.log = io.log[k].v /\ unsaved' = unsaved
               /\ saved' = IF Awaited(k) THEN saved \cup {io.log[k].for} ELSE saved
            \/ /\ ~io.log[k].delete /\ disk'.log \in {disk.log, {}} /\ saved' = saved
               /\ unsaved' = unsaved \cup (Own \cap ((io.log[k].v \cup disk.log) \ disk'.log))
         /\ marks' \in SUBSET Own /\ saved' \in SUBSET Own /\ unsaved' \in SUBSET Own
         /\ own' \in [Own -> {"new", "sign", "save", "send", "over"}]
         /\ deletion' = IF io.log[k].delete /\ deletion = "file" THEN "sweep" ELSE deletion
         /\ IF Awaited(k)
            THEN /\ own' = [own EXCEPT ![io.log[k].for] = "send"]
                 /\ marks' = marks \cup {io.log[k].for}
                 /\ io'.marks = Append(io.marks, marks') /\ io'.listed = io.listed
            ELSE /\ own' = own /\ marks' = marks /\ io'.marks = io.marks
                 /\ io'.listed = IF io.log[k].delete /\ deletion = "file"
                                 THEN Append(io.listed, inList) ELSE io.listed
<1> DEFINE op == io.log[k]
           rest == [io EXCEPT !.log = RemoveAt(@, k)]
<1>1. /\ Next_up(k)
      /\ own' = IF Awaited(k) THEN [own EXCEPT ![op.for] = "send"] ELSE own
      /\ marks' = IF Awaited(k) THEN marks \cup {op.for} ELSE marks
      /\ deletion' = IF op.delete /\ deletion = "file" THEN "sweep" ELSE deletion
      /\ io' = IF Awaited(k) THEN MarksSaved(rest, marks \cup {op.for})
               ELSE IF op.delete /\ deletion = "file"
                    THEN [rest EXCEPT !.listed = Append(@, inList)] ELSE rest
  BY DEF LogIo, LogIoFails, GoesOn
<1>2. io \in [log : Seq(Op), marks : Seq(SUBSET Own), listed : Seq(BOOLEAN)] /\ inList \in BOOLEAN
  BY DEF Typed
<1>3. op \in Op /\ RemoveAt(io.log, k) \in Seq(Op)
  BY <1>2, Removed
<1>4. op.v \in SUBSET Events
  BY <1>3 DEF Op
<1>5. Awaited(k) => op.for \in Own
  BY DEF Awaited
<1>6. /\ rest \in [log : Seq(Op), marks : Seq(SUBSET Own), listed : Seq(BOOLEAN)]
      /\ rest.log = RemoveAt(io.log, k) /\ rest.marks = io.marks /\ rest.listed = io.listed
  BY <1>2, <1>3
<1>7. /\ disk' \in [log : SUBSET Events, marks : SUBSET Own, listed : BOOLEAN]
      /\ disk'.marks = disk.marks /\ disk'.listed = disk.listed
      /\ \/ /\ disk'.log = op.v /\ unsaved' = unsaved
            /\ saved' = IF Awaited(k) THEN saved \cup {op.for} ELSE saved
         \/ /\ ~op.delete /\ disk'.log \in {disk.log, {}} /\ saved' = saved
            /\ unsaved' = unsaved \cup (Own \cap ((op.v \cup disk.log) \ disk'.log))
  <2>1. CASE LogIo(k)
    <3>1. /\ disk' = [disk EXCEPT !.log = op.v] /\ unsaved' = unsaved
          /\ saved' = IF Awaited(k) THEN saved \cup {op.for} ELSE saved
      BY <2>1 DEF LogIo
    <3> HIDE DEF op
    <3> QED BY <1>4, <3>1 DEF Typed
  <2>2. CASE LogIoFails(k)
    <3>1. /\ ~op.delete /\ (disk' = disk \/ disk' = [disk EXCEPT !.log = {}]) /\ saved' = saved
          /\ unsaved' = unsaved \cup (Own \cap ((op.v \cup disk.log) \ disk'.log))
      BY <2>2 DEF LogIoFails
    <3> HIDE DEF op
    <3>2. CASE disk' = disk
      BY <3>1, <3>2 DEF Typed
    <3>3. CASE disk' = [disk EXCEPT !.log = {}]
      BY <3>1, <3>3 DEF Typed
    <3> QED BY <3>1, <3>2, <3>3
  <2> QED BY <2>1, <2>2
<1> HIDE DEF rest, op, Op
<1>8. saved' \in SUBSET Own /\ unsaved' \in SUBSET Own
  <2>1. saved \in SUBSET Own /\ unsaved \in SUBSET Own
    BY DEF Typed
  <2> QED BY <1>5, <1>7, <2>1
<1>9. CASE Awaited(k)
  <2> DEFINE m == marks \cup {op.for}
  <2>1. m \in SUBSET Own /\ Append(io.marks, m) \in Seq(SUBSET Own)
    BY <1>2, <1>5, <1>9 DEF Typed
  <2>2. io' = [rest EXCEPT !.marks = Append(io.marks, m)]
    BY <1>1, <1>6, <1>9 DEF MarksSaved
  <2>3. /\ io' \in [log : Seq(Op), marks : Seq(SUBSET Own), listed : Seq(BOOLEAN)]
        /\ io'.log = RemoveAt(io.log, k) /\ io'.marks = Append(io.marks, m) /\ io'.listed = io.listed
    BY <1>6, <2>1, <2>2
  <2>4. marks' = m
    BY <1>1, <1>9
  <2>5. own' \in [Own -> {"new", "sign", "save", "send", "over"}]
    BY <1>1, <1>5, <1>9 DEF Typed
  <2> QED BY <1>1, <1>3, <1>7, <1>8, <1>9, <2>1, <2>3, <2>4, <2>5 DEF op, Next_up
<1>10. CASE ~Awaited(k)
  <2>1. /\ io' \in [log : Seq(Op), marks : Seq(SUBSET Own), listed : Seq(BOOLEAN)]
        /\ io'.log = RemoveAt(io.log, k) /\ io'.marks = io.marks
        /\ io'.listed = IF op.delete /\ deletion = "file" THEN Append(io.listed, inList) ELSE io.listed
    <3>1. Append(io.listed, inList) \in Seq(BOOLEAN)
      BY <1>2, Appended
    <3> QED BY <1>1, <1>6, <1>10, <3>1
  <2>2. marks' \in SUBSET Own /\ own' \in [Own -> {"new", "sign", "save", "send", "over"}]
    BY <1>1, <1>10 DEF Typed
  <2> QED BY <1>1, <1>3, <1>7, <1>8, <1>10, <2>1, <2>2 DEF op, Next_up
<1> QED BY <1>9, <1>10

-----------------------------------------------------------------------------
(* The steps. *)

\* Only where the events and the joins are changes.
LEMMA OwnStep ==
  ASSUME Inv,
         UNCHANGED <<up, inList, log, timer, marks, deletion, disk, io, sent, guessed, saved, unsaved, cut, rejoined>>,
         started' \in BOOLEAN, measured' \in BOOLEAN,
         own' \in [Own -> {"new", "sign", "save", "send", "over"}],
         \A e \in Own : /\ own'[e] \in {"new", "over"} \/ inList
                        /\ own[e] = "save" => own'[e] = "save" \/ e \in marks,
         joins' \in [Callers -> {"none", "bind"}],
         \A c \in Callers : joins'[c] = "bind" =>
           up /\ ~inList /\ \A d \in Callers : joins'[d] = "bind" => d = c
  PROVE  Inv'
<1>1. Typed'
  BY DEF Inv, Typed
<1>2. Basics'
  BY DEF Inv, Basics, Deleting
<1>3. Kept'
  BY DEF Inv, Kept, Deleting
<1>4. Queued'
  BY DEF Inv, Queued, MarksOnDisk
<1>5. Gone'
  BY DEF Inv, Gone
<1> QED BY <1>1, <1>2, <1>3, <1>4, <1>5 DEF Inv

LEMMA QuietStep ==
  ASSUME Inv, \/ Connect \/ Measure \/ Resync
              \/ \E c \in Callers : Join(c) \/ JoinFails(c)
              \/ \E e \in Own : Author(e) \/ SignFails(e) \/ SendBuffered(e)
  PROVE  Inv'
<1> DEFINE Same == UNCHANGED <<up, inList, log, timer, marks, deletion, disk, io, sent, guessed, saved, unsaved, cut, rejoined>>
<1>0. /\ Typed /\ started \in BOOLEAN /\ measured \in BOOLEAN
      /\ own \in [Own -> {"new", "sign", "save", "send", "over"}]
      /\ joins \in [Callers -> {"none", "bind"}]
      /\ \A e \in Own : own[e] \in {"new", "over"} \/ inList
      /\ \A c \in Callers : joins[c] = "bind" =>
           up /\ ~inList /\ \A d \in Callers : joins[d] = "bind" => d = c
      /\ ~inList => log = {}
  BY DEF Inv, Typed, Basics
<1>1. CASE Connect \/ Measure
  <2>1. Same /\ started' \in BOOLEAN /\ measured' \in BOOLEAN /\ own' = own /\ joins' = joins
    BY <1>0, <1>1 DEF Connect, Measure, memory, node, history
  <2> QED BY <1>0, <2>1, OwnStep
<1>2. CASE Resync
  <2>1. /\ Same /\ started' = started /\ measured' = measured /\ joins' = joins
        /\ log # {} /\ own' = [e \in Own |-> IF e \in log \cap marks THEN "send" ELSE own[e]]
    BY <1>2 DEF Resync, node, history
  <2>2. inList
    BY <1>0, <2>1
  <2>3. own' \in [Own -> {"new", "sign", "save", "send", "over"}]
    BY <1>0, <2>1
  <2>4. \A e \in Own : own[e] = "save" => own'[e] = "save" \/ e \in marks
    BY <2>1
  <2> QED BY <1>0, <2>1, <2>2, <2>3, <2>4, OwnStep
<1>3. ASSUME NEW c \in Callers, Join(c) PROVE Inv'
  <2>1. /\ Same /\ started' = started /\ measured' = measured /\ own' = own /\ up /\ ~inList
        /\ (\A d \in Callers : joins[d] = "none") /\ joins' = [joins EXCEPT ![c] = "bind"]
    BY <1>3 DEF Join, MayJoin, node, history
  <2>2. /\ joins' \in [Callers -> {"none", "bind"}]
        /\ \A d \in Callers : joins'[d] = "bind" => d = c
    BY <1>0, <2>1
  <2> QED BY <1>0, <2>1, <2>2, OwnStep
<1>4. ASSUME NEW c \in Callers, JoinFails(c) PROVE Inv'
  <2>1. /\ Same /\ started' = started /\ measured' = measured
        /\ own' = own /\ joins' = [joins EXCEPT ![c] = "none"]
    BY <1>4 DEF JoinFails, node, history
  <2>2. /\ joins' \in [Callers -> {"none", "bind"}]
        /\ \A d \in Callers : joins'[d] = "bind" => joins[d] = "bind"
    BY <1>0, <2>1
  <2> QED BY <1>0, <2>1, <2>2, OwnStep
<1>5. ASSUME NEW e \in Own, Author(e) \/ SignFails(e) \/ SendBuffered(e) PROVE Inv'
  <2>1. /\ Same /\ started' = started /\ measured' = measured /\ joins' = joins /\ own[e] \in {"new", "sign", "send"}
        /\ \/ own' = [own EXCEPT ![e] = "sign"] /\ inList
           \/ own' = [own EXCEPT ![e] = "over"]
    BY <1>5 DEF Author, SignFails, SendBuffered, node, history
  <2>2. /\ own' \in [Own -> {"new", "sign", "save", "send", "over"}]
        /\ \A d \in Own : /\ own'[d] \in {"new", "over"} \/ inList
                          /\ own[d] = "save" => own'[d] = "save"
    BY <1>0, <2>1
  <2> QED BY <1>0, <2>1, <2>2, OwnStep
<1> QED BY <1>1, <1>2, <1>3, <1>4, <1>5

\* What is in memory does not outlive the room's place in the list.
LEMMA Lively ==
  ASSUME Inv
  PROVE  /\ timer => inList
         /\ \A e \in Own : own[e] \in {"sign", "save", "send"} => inList
         /\ inList => up /\ \A c \in Callers : joins[c] # "bind"
         /\ io # NoIo \/ Deleting => up
         /\ inList /\ rejoined # "early" => ~Deleting /\ Chained(disk.log, io.log, log)
         /\ inList /\ rejoined = "no" => deletion \in {"none", "cut"}
BY DEF Inv, Basics, Kept, Gone

\* The log's file is to be written.
LEMMA WriteStep ==
  ASSUME Inv, inList, NEW l \in SUBSET Events, log \subseteq l, NEW e \in Own \cup {NoEvent},
         e # NoEvent => e \in l,
         log' = l, timer' = FALSE, io' = [io EXCEPT !.log = Append(@, SaveLog(l, e))],
         own' \in [Own -> {"new", "sign", "save", "send", "over"}],
         \A x \in Own : \/ x \in log /\ (own[x] = "save" => own'[x] = "save")
                        \/ x \notin log /\ (x \in l => own'[x] = "save"),
         UNCHANGED <<up, started, measured, inList, joins, marks, deletion, disk, sent, guessed, saved, unsaved, cut, rejoined>>
  PROVE  Inv'
<1> DEFINE op == SaveLog(l, e)
<1>1. op \in Op /\ ~op.delete /\ op.v = l /\ op.for = e
  BY Ops
<1> HIDE DEF op
<1>2. /\ io' \in [log : Seq(Op), marks : Seq(SUBSET Own), listed : Seq(BOOLEAN)]
      /\ io'.log = Append(io.log, op) /\ io'.marks = io.marks /\ io'.listed = io.listed
  BY <1>1, Asked DEF Inv, op
<1>3. io.log \in Seq(Op)
  BY DEF Inv, Typed
<1>4. Typed'
  BY <1>2 DEF Inv, Typed
<1>5. up /\ \A c \in Callers : joins[c] # "bind"
  BY Lively
<1>6. \A k \in 1 .. Len(io'.log) : io'.log[k].delete => io'.log[k].v = {}
  <2>1. /\ Len(io'.log) = Len(io.log) + 1 /\ Len(io.log) \in Nat
        /\ \A k \in 1 .. Len(io.log) : io'.log[k] = io.log[k]
        /\ io'.log[Len(io.log) + 1] = op
    BY <1>1, <1>2, <1>3, Appended
  <2> QED BY <1>1, <2>1 DEF Inv, Basics
<1>7. Basics'
  BY <1>5, <1>6 DEF Inv, Basics
<1>8. rejoined # "early" => ~Deleting /\ Chained(disk.log, io'.log, l)
  BY <1>1, <1>2, <1>3, Lively, ChainedAppended
<1>9. Kept'
  BY <1>8 DEF Inv, Kept, Deleting
<1>10. Queued'
  BY DEF Inv, Queued
<1>11. Gone'
  BY <1>2, Lively DEF Inv, Gone
<1> QED BY <1>4, <1>7, <1>9, <1>10, <1>11 DEF Inv

LEMMA SignedStep ==
  ASSUME Inv, NEW e \in Own, Signed(e)
  PROVE  Inv'
<1>1. /\ own[e] = "sign" /\ own' = [own EXCEPT ![e] = "save"] /\ log' = log \cup {e} /\ timer' = FALSE
      /\ io' = [io EXCEPT !.log = Append(@, SaveLog(log \cup {e}, e))]
      /\ UNCHANGED <<up, started, measured, inList, joins, marks, deletion, disk, sent, guessed, saved, unsaved, cut, rejoined>>
  BY DEF Signed, node, history
<1>2. inList
  BY <1>1, Lively
<1>3. own \in [Own -> {"new", "sign", "save", "send", "over"}] /\ log \cup {e} \in SUBSET Events
  BY DEF Inv, Typed, Events
<1>4. own' \in [Own -> {"new", "sign", "save", "send", "over"}]
  BY <1>1, <1>3
<1>5. \A x \in Own : \/ x \in log /\ (own[x] = "save" => own'[x] = "save")
                     \/ x \notin log /\ (x \in log \cup {e} => own'[x] = "save")
  BY <1>1, <1>3
<1> QED BY <1>1, <1>2, <1>3, <1>4, <1>5, WriteStep

LEMMA TimerStep ==
  ASSUME Inv, TimerFires
  PROVE  Inv'
<1>1. /\ timer /\ timer' = FALSE /\ log' = log /\ own' = own
      /\ io' = [io EXCEPT !.log = Append(@, SaveLog(log, NoEvent))]
      /\ UNCHANGED <<up, started, measured, inList, joins, marks, deletion, disk, sent, guessed, saved, unsaved, cut, rejoined>>
  BY DEF TimerFires, node, history
<1>2. inList
  BY <1>1, Lively
<1>3. own \in [Own -> {"new", "sign", "save", "send", "over"}] /\ log \in SUBSET Events
  BY DEF Inv, Typed
<1> QED BY <1>1, <1>2, <1>3, WriteStep

\* A mark goes, of an event that a mesh has seen, or may have.
LEMMA UnmarkStep ==
  ASSUME Inv, inList, NEW e \in Events, Unmark(e), NEW t \in SUBSET Own, sent \subseteq t,
         NEW g \in SUBSET Own, guessed \subseteq g,
         e \in Own => e \in t \cup g, sent' = t, guessed' = g,
         log' = log \/ log' = log \cup {e}, timer' \in BOOLEAN,
         own' \in [Own -> {"new", "sign", "save", "send", "over"}],
         \A x \in Own : own[x] = "save" => own'[x] = "save",
         UNCHANGED <<up, started, measured, inList, joins, deletion, disk, saved, unsaved, cut, rejoined>>
  PROVE  Inv'
<1>1. /\ marks' = marks \ {e} /\ marks' \in SUBSET Own
      /\ io' \in [log : Seq(Op), marks : Seq(SUBSET Own), listed : Seq(BOOLEAN)]
      /\ io'.log = io.log /\ io'.listed = io.listed
      /\ io'.marks = io.marks \/ io'.marks = Append(io.marks, marks')
  BY Unmarked DEF Inv
<1>2. log' \in SUBSET Events /\ log \subseteq log' /\ log' \subseteq log \cup {e}
  BY DEF Inv, Typed
<1>3. Typed'
  BY <1>1, <1>2 DEF Inv, Typed
<1>4. up /\ \A c \in Callers : joins[c] # "bind"
  BY Lively
<1>5. Basics'
  BY <1>1, <1>4 DEF Inv, Basics
<1>6. rejoined # "early" => ~Deleting /\ Chained(disk.log, io.log, log')
  BY <1>2, Lively, ChainedGrows DEF Inv, Typed
<1>7. Kept'
  BY <1>1, <1>6 DEF Inv, Kept, Deleting
<1>8. Queued'
  BY <1>1, <1>2 DEF Inv, Queued
<1>9. Gone'
  <2> DEFINE D == disk.log \cup unsaved
  <2> SUFFICES ASSUME rejoined = "no", deletion = "none"
               PROVE  marks' \cup disk.marks \subseteq D /\ \A k \in 1 .. Len(io'.marks) : io'.marks[k] \subseteq D
    BY Lively DEF Gone
  <2>1. /\ marks \cup disk.marks \subseteq D
        /\ \A k \in 1 .. Len(io.marks) : io.marks[k] \subseteq D
        /\ io.marks \in Seq(SUBSET Own)
    BY DEF Inv, Gone, Typed
  <2> HIDE DEF D
  <2>2. CASE io'.marks = io.marks
    BY <1>1, <2>1, <2>2
  <2>3. CASE io'.marks = Append(io.marks, marks')
    <3>1. /\ Len(io'.marks) = Len(io.marks) + 1 /\ Len(io.marks) \in Nat
          /\ \A k \in 1 .. Len(io.marks) : io'.marks[k] = io.marks[k]
          /\ io'.marks[Len(io.marks) + 1] = marks'
      BY <1>1, <2>1, <2>3, Appended
    <3>2. marks' \subseteq D
      BY <1>1, <2>1
    <3>3. ASSUME NEW k \in 1 .. Len(io'.marks) PROVE io'.marks[k] \subseteq D
      <4>1. k \in 1 .. Len(io.marks) \/ k = Len(io.marks) + 1
        BY <3>1
      <4> QED BY <2>1, <3>1, <3>2, <4>1
    <3> QED BY <2>1, <3>2, <3>3
  <2> QED BY <1>1, <2>2, <2>3
<1> QED BY <1>3, <1>5, <1>7, <1>8, <1>9 DEF Inv

LEMMA SendStep ==
  ASSUME Inv, NEW e \in Own, SendLands(e) \/ SendUnmeasured(e)
  PROVE  Inv'
<1>1. /\ own[e] = "send" /\ own' = [own EXCEPT ![e] = "over"] /\ Unmark(e)
      /\ \/ sent' = sent \cup {e} /\ guessed' = guessed
         \/ sent' = sent /\ guessed' = guessed \cup {e}
      /\ UNCHANGED <<up, started, measured, inList, log, timer, joins, deletion, disk, saved, unsaved, cut,
                     rejoined>>
  BY DEF SendLands, SendUnmeasured, node
<1>2. /\ own \in [Own -> {"new", "sign", "save", "send", "over"}]
      /\ sent' \in SUBSET Own /\ guessed' \in SUBSET Own /\ sent \subseteq sent' /\ guessed \subseteq guessed'
      /\ e \in sent' \cup guessed' /\ timer \in BOOLEAN /\ e \in Events
  BY <1>1 DEF Inv, Typed, Events
<1>3. /\ own' \in [Own -> {"new", "sign", "save", "send", "over"}]
      /\ \A x \in Own : own[x] = "save" => own'[x] = "save"
  BY <1>1, <1>2
<1>4. inList
  BY <1>1, Lively
<1> QED BY <1>1, <1>2, <1>3, <1>4, UnmarkStep

LEMMA ReceiveStep ==
  ASSUME Inv, NEW e \in Events, Receive(e)
  PROVE  Inv'
<1>1. /\ inList /\ e \in Foreign \cup sent /\ Unmark(e)
      /\ log' = log \cup {e} /\ timer' = (timer \/ e \notin log)
      /\ UNCHANGED <<up, started, measured, inList, joins, own, deletion, disk, sent, guessed, saved, unsaved, cut, rejoined>>
  BY DEF Receive, node, history
<1>2. e \in Own => e \in sent
  BY <1>1, PhoneAssumption
<1>3. /\ sent \in SUBSET Own /\ guessed \in SUBSET Own /\ timer' \in BOOLEAN
      /\ own \in [Own -> {"new", "sign", "save", "send", "over"}]
  BY <1>1 DEF Inv, Typed
<1> QED BY <1>1, <1>2, <1>3, UnmarkStep

\* The files of the marks and of the registry.
LEMMA MarksIoStep ==
  ASSUME Inv, MarksIo \/ ListedIo
  PROVE  Inv'
<1>1. /\ io \in [log : Seq(Op), marks : Seq(SUBSET Own), listed : Seq(BOOLEAN)]
      /\ disk \in [log : SUBSET Events, marks : SUBSET Own, listed : BOOLEAN]
  BY DEF Inv, Typed
<1> HIDE DEF Op
<1>2. CASE MarksIo
  <2> DEFINE q == io.marks
  <2>1. /\ q # << >> /\ io' = [io EXCEPT !.marks = Tail(q)] /\ disk' = [disk EXCEPT !.marks = Head(q)]
        /\ UNCHANGED <<up, started, measured, inList, log, joins, own, timer, marks, deletion, sent, guessed, saved, unsaved, cut, rejoined>>
    BY <1>2 DEF MarksIo, memory, node, history
  <2>2. /\ q \in Seq(SUBSET Own) /\ Tail(q) \in Seq(SUBSET Own) /\ Len(Tail(q)) = Len(q) - 1
        /\ Len(q) \in Nat \ {0}
        /\ \A k \in 1 .. Len(Tail(q)) : Tail(q)[k] = q[k + 1]
        /\ Head(q) = q[1] /\ q[1] \in SUBSET Own
    BY <1>1, <2>1, Popped
  <2>3. Ends(q, disk.marks, SUBSET unsaved) => Ends(Tail(q), Head(q), SUBSET unsaved)
    BY <2>1, <2>2, EndsPopped
  <2>4. (\A k \in 1 .. Len(q) : q[k] \subseteq disk.log \cup unsaved) =>
          /\ Head(q) \subseteq disk.log \cup unsaved
          /\ \A k \in 1 .. Len(Tail(q)) : Tail(q)[k] \subseteq disk.log \cup unsaved
    BY <2>2
  <2> DEFINE r == Tail(q)
             h == Head(q)
  <2>5. r \in Seq(SUBSET Own) /\ h \in SUBSET Own
    BY <2>2
  <2>6. /\ io' = [io EXCEPT !.marks = r] /\ disk' = [disk EXCEPT !.marks = h]
        /\ Ends(io.marks, disk.marks, SUBSET unsaved) => Ends(r, h, SUBSET unsaved)
        /\ (\A k \in 1 .. Len(io.marks) : io.marks[k] \subseteq disk.log \cup unsaved) =>
             /\ h \subseteq disk.log \cup unsaved
             /\ \A k \in 1 .. Len(r) : r[k] \subseteq disk.log \cup unsaved
    BY <2>1, <2>3, <2>4
  <2>7. io # NoIo
    BY <2>1 DEF NoIo
  <2> HIDE DEF r, h, q
  <2>8. /\ io' \in [log : Seq(Op), marks : Seq(SUBSET Own), listed : Seq(BOOLEAN)]
        /\ io'.log = io.log /\ io'.marks = r /\ io'.listed = io.listed
        /\ disk' \in [log : SUBSET Events, marks : SUBSET Own, listed : BOOLEAN]
        /\ disk'.log = disk.log /\ disk'.marks = h /\ disk'.listed = disk.listed
    BY <1>1, <2>5, <2>6
  <2>9. up
    BY <2>7, Lively
  <2>10. Typed'
    BY <2>1, <2>8 DEF Inv, Typed
  <2>11. Basics'
    BY <2>1, <2>8, <2>9 DEF Inv, Basics, Deleting
  <2>12. Kept'
    BY <2>1, <2>8 DEF Inv, Kept, Deleting
  <2>13. Queued'
    BY <2>1, <2>8, <2>9 DEF Inv, Queued, MarksOnDisk
  <2>14. Gone'
    BY <2>1, <2>6, <2>8 DEF Inv, Gone
  <2> QED BY <2>10, <2>11, <2>12, <2>13, <2>14 DEF Inv
<1>3. CASE ListedIo
  <2>1. /\ io.listed # << >>
        /\ io' = [io EXCEPT !.listed = Tail(io.listed)] /\ disk' = [disk EXCEPT !.listed = Head(io.listed)]
        /\ UNCHANGED <<up, started, measured, inList, log, joins, own, timer, marks, deletion, sent, guessed, saved, unsaved, cut, rejoined>>
    BY <1>3 DEF ListedIo, memory, node, history
  <2> DEFINE r == Tail(io.listed)
             h == Head(io.listed)
  <2>2. r \in Seq(BOOLEAN) /\ h \in BOOLEAN
    BY <1>1, <2>1, Popped
  <2>3. Ends(io.listed, disk.listed, {FALSE}) => Ends(r, h, {FALSE})
    BY <1>1, <2>1, EndsPopped
  <2>4. io # NoIo
    BY <2>1 DEF NoIo
  <2>5. io' = [io EXCEPT !.listed = r] /\ disk' = [disk EXCEPT !.listed = h]
    BY <2>1
  <2> HIDE DEF r, h
  <2>6. /\ io' \in [log : Seq(Op), marks : Seq(SUBSET Own), listed : Seq(BOOLEAN)]
        /\ io'.log = io.log /\ io'.marks = io.marks /\ io'.listed = r
        /\ disk' \in [log : SUBSET Events, marks : SUBSET Own, listed : BOOLEAN]
        /\ disk'.log = disk.log /\ disk'.marks = disk.marks /\ disk'.listed = h
    BY <1>1, <2>2, <2>5
  <2>7. up
    BY <2>4, Lively
  <2>8. Typed'
    BY <2>1, <2>6 DEF Inv, Typed
  <2>9. Basics'
    BY <2>1, <2>6, <2>7 DEF Inv, Basics, Deleting
  <2>10. Kept'
    BY <2>1, <2>6 DEF Inv, Kept, Deleting
  <2>11. Queued'
    BY <2>1, <2>6, <2>7 DEF Inv, Queued, MarksOnDisk
  <2>12. Gone'
    BY <2>1, <2>3, <2>6 DEF Inv, Gone
  <2> QED BY <2>8, <2>9, <2>10, <2>11, <2>12 DEF Inv
<1> QED BY <1>2, <1>3

\* An operation on the log's file.
LEMMA LogIoStep ==
  ASSUME Inv, NEW k \in 1 .. Len(io.log), LogIo(k) \/ LogIoFails(k)
  PROVE  Inv'
<1> DEFINE op == io.log[k]
           r == RemoveAt(io.log, k)
<1>1. /\ \A j \in 1 .. k - 1 : op.delete
      /\ op \in Op
      /\ io' \in [log : Seq(Op), marks : Seq(SUBSET Own), listed : Seq(BOOLEAN)]
      /\ io'.log = r
      /\ disk' \in [log : SUBSET Events, marks : SUBSET Own, listed : BOOLEAN]
      /\ disk'.marks = disk.marks /\ disk'.listed = disk.listed
      /\ \/ /\ disk'.log = op.v /\ unsaved' = unsaved
            /\ saved' = IF Awaited(k) THEN saved \cup {op.for} ELSE saved
         \/ /\ ~op.delete /\ disk'.log \in {disk.log, {}} /\ saved' = saved
            /\ unsaved' = unsaved \cup (Own \cap ((op.v \cup disk.log) \ disk'.log))
      /\ marks' \in SUBSET Own /\ saved' \in SUBSET Own /\ unsaved' \in SUBSET Own
      /\ own' \in [Own -> {"new", "sign", "save", "send", "over"}]
      /\ deletion' = IF op.delete /\ deletion = "file" THEN "sweep" ELSE deletion
      /\ IF Awaited(k)
         THEN /\ own' = [own EXCEPT ![op.for] = "send"]
              /\ marks' = marks \cup {op.for}
              /\ io'.marks = Append(io.marks, marks') /\ io'.listed = io.listed
         ELSE /\ own' = own /\ marks' = marks /\ io'.marks = io.marks
              /\ io'.listed = IF op.delete /\ deletion = "file" THEN Append(io.listed, inList) ELSE io.listed
  BY LogIoDoes DEF Inv
<1>2. UNCHANGED <<up, started, measured, inList, log, joins, timer, sent, guessed, cut, rejoined>>
  BY DEF LogIo, LogIoFails, node
<1>3. io.log \in Seq(Op) /\ io.listed \in Seq(BOOLEAN) /\ io.marks \in Seq(SUBSET Own)
  BY DEF Inv, Typed
<1>4. io.log # << >>
  <2>1. \A t : t = << >> => Len(t) = 0
    OBVIOUS
  <2> QED BY <1>3, <2>1
<1>5. up
  BY <1>4, Lively DEF NoIo
<1>6. /\ Len(r) = Len(io.log) - 1 /\ Len(io.log) \in Nat
      /\ \A j \in 1 .. Len(io.log) - 1 : r[j] = IF j < k THEN io.log[j] ELSE io.log[j + 1]
  <2> DEFINE q == io.log
  <2>1. q \in Seq(Op) /\ k \in 1 .. Len(q)
    BY <1>3
  <2> HIDE DEF q
  <2>2. /\ Len(RemoveAt(q, k)) = Len(q) - 1 /\ Len(q) \in Nat
        /\ \A j \in 1 .. Len(q) - 1 : RemoveAt(q, k)[j] = IF j < k THEN q[j] ELSE q[j + 1]
    BY ONLY <2>1, Removed
  <2> QED BY <2>2 DEF q
<1>7. \A j \in 1 .. Len(r) : \E i \in 1 .. Len(io.log) : r[j] = io.log[i]
  <2> SUFFICES ASSUME NEW j \in 1 .. Len(r) PROVE \E i \in 1 .. Len(io.log) : r[j] = io.log[i]
    OBVIOUS
  <2>1. j \in 1 .. Len(io.log) /\ j + 1 \in 1 .. Len(io.log)
    BY <1>6
  <2> QED BY <1>6, <2>1
<1>8. op.delete => op.v = {}
  BY DEF Inv, Basics
<1>9. rejoined # "early" /\ inList =>
         /\ ~op.delete /\ disk.log \subseteq op.v /\ op.v \subseteq log
         /\ op.for # NoEvent => op.for \in op.v
         /\ Chained(disk'.log, r, log)
  <2>1. rejoined # "early" /\ inList =>
          /\ ~op.delete /\ disk.log \subseteq op.v /\ op.v \subseteq log
          /\ op.for # NoEvent => op.for \in op.v
          /\ Chained(op.v, r, log) /\ Chained(disk.log, r, log) /\ Chained({}, r, log)
    BY <1>1, <1>3, Lively, ChainedPopped
  <2> HIDE DEF op, r
  <2> QED BY <1>1, <2>1
<1> HIDE DEF op, r
<1>10. Typed'
  BY <1>1, <1>2 DEF Inv, Typed
<1>11. \A j \in 1 .. Len(io'.log) : io'.log[j].delete => io'.log[j].v = {}
  <2>1. io'.log = r
    BY <1>1
  <2>2. \A i \in 1 .. Len(io.log) : io.log[i].delete => io.log[i].v = {}
    BY DEF Inv, Basics
  <2> QED BY <1>7, <2>1, <2>2
<1>12. CASE ~inList
  <2>1. ~Awaited(k)
    BY <1>12 DEF Inv, Basics, Awaited
  <2>2. deletion # "none"
    BY <1>4, <1>12 DEF Inv, Basics
  <2>3. /\ own' = own /\ saved' = saved /\ marks' = marks /\ io'.marks = io.marks
        /\ unsaved \subseteq unsaved'
        /\ io'.listed = IF op.delete /\ deletion = "file" THEN Append(io.listed, FALSE) ELSE io.listed
    BY <1>1, <1>12, <2>1 DEF Inv, Typed
  <2>4. deletion' = deletion \/ (op.delete /\ deletion = "file" /\ deletion' = "sweep")
    BY <1>1
  <2>5. Basics'
    BY <1>2, <1>5, <1>11, <1>12, <2>2, <2>3, <2>4 DEF Inv, Basics
  <2>6. rejoined # "early" /\ deletion = "done" =>
          op.delete /\ \A j \in 1 .. Len(io'.log) : io'.log[j].delete
    <3>1. rejoined # "early" /\ deletion = "done" => \A j \in 1 .. Len(io.log) : io.log[j].delete
      BY <1>12 DEF Inv, Kept
    <3> QED BY <1>1, <1>7, <3>1 DEF op
  <2>7. rejoined # "early" => saved = {}
    BY <1>4, <1>12 DEF Inv, Kept
  <2>8. Kept'
    BY <1>2, <1>12, <2>3, <2>4, <2>6, <2>7 DEF Kept, Deleting
  <2>9. Queued'
    <3>1. log = {}
      BY <1>12 DEF Inv, Basics
    <3> QED BY <1>1, <1>2, <1>8, <2>2, <2>4, <2>6, <3>1 DEF Queued
  <2>10. Gone'
    <3> SUFFICES ASSUME rejoined = "no"
                 PROVE /\ deletion' \notin {"none", "cut"} =>
                            marks' \subseteq unsaved' /\ Ends(io'.marks, disk'.marks, SUBSET unsaved')
                       /\ deletion' \in {"sweep", "done"} => Ends(io'.listed, disk'.listed, {FALSE})
                       /\ deletion' = "done" => disk'.log = {}
                       /\ deletion' # "none"
      BY <1>2, <1>12 DEF Gone
    <3>1. /\ deletion \notin {"none", "cut"} =>
               marks \subseteq unsaved' /\ Ends(io.marks, disk.marks, SUBSET unsaved')
          /\ deletion \in {"sweep", "done"} => Ends(io.listed, disk.listed, {FALSE})
      BY <2>3 DEF Inv, Gone, Ends
    <3>2. Ends(Append(io.listed, FALSE), disk.listed, {FALSE})
      BY <1>3, EndsAppended
    <3>3. deletion' = "done" => disk'.log = {}
      BY <1>1, <1>8, <2>4, <2>6
    <3>4. deletion' \in {"sweep", "done"} => Ends(io'.listed, disk'.listed, {FALSE})
      BY <1>1, <2>3, <2>4, <3>1, <3>2
    <3> QED BY <1>1, <2>2, <2>3, <2>4, <3>1, <3>3, <3>4
  <2> QED BY <1>10, <2>5, <2>8, <2>9, <2>10 DEF Inv
<1>13. CASE inList
  <2>1. \A c \in Callers : joins[c] # "bind"
    BY <1>13, Lively
  <2>2. Basics'
    BY <1>2, <1>5, <1>11, <1>13, <2>1 DEF Basics
  <2>3. rejoined # "early" => ~Deleting /\ deletion' = deletion
    BY <1>1, <1>9, <1>13, Lively
  <2>4. Awaited(k) => op.for \in Own /\ op.for # NoEvent
    BY PhoneAssumption DEF Awaited, op
  <2> DEFINE D == disk'.log \cup unsaved'
  <2>5. rejoined # "early" =>
          /\ \A e \in Own : e \in disk.log \cup unsaved => e \in D
          /\ Awaited(k) => op.for \in D
    <3>1. rejoined # "early" => disk.log \subseteq op.v /\ (Awaited(k) => op.for \in op.v)
      BY <1>9, <1>13, <2>4
    <3> QED BY <1>1, <2>4, <3>1
  <2>5a. rejoined # "early" => saved' \ unsaved' \subseteq disk'.log
    <3>1. rejoined # "early" => \A e \in saved : e \in Own /\ e \in disk.log \cup unsaved
      BY DEF Inv, Kept, Typed
    <3>2. \A e \in saved' : e \in saved \/ (Awaited(k) /\ e = op.for)
      BY <1>1
    <3> QED BY <2>5, <3>1, <3>2
  <2>6. Kept'
    BY <1>1, <1>2, <1>9, <1>13, <2>3, <2>5a DEF Kept, Deleting
  <2>7. \A e \in Own : e \in marks \/ own[e] = "save" => e \in marks' \/ own'[e] = "save"
    <3>1. own \in [Own -> {"new", "sign", "save", "send", "over"}]
      BY DEF Inv, Typed
    <3> QED BY <1>1, <2>4, <3>1
  <2>8. Queued'
    BY <1>2, <1>13, <2>3, <2>7 DEF Inv, Queued
  <2>9. Gone'
    <3> SUFFICES ASSUME rejoined = "no", deletion = "none"
                 PROVE  /\ marks' \cup disk.marks \subseteq D
                        /\ \A j \in 1 .. Len(io'.marks) : io'.marks[j] \subseteq D
      BY <1>1, <1>2, <1>13, <2>3, Lively DEF Gone
    <3>1. /\ marks \cup disk.marks \subseteq D
          /\ \A j \in 1 .. Len(io.marks) : io.marks[j] \subseteq D
      <4>1. /\ marks \cup disk.marks \subseteq disk.log \cup unsaved
            /\ \A j \in 1 .. Len(io.marks) : io.marks[j] \subseteq disk.log \cup unsaved
        BY DEF Inv, Gone
      <4>2. /\ marks \in SUBSET Own /\ disk.marks \in SUBSET Own
            /\ \A j \in 1 .. Len(io.marks) : io.marks[j] \in SUBSET Own
        BY <1>3 DEF Inv, Typed
      <4> HIDE DEF D
      <4> QED BY <2>5, <4>1, <4>2
    <3>3. marks' \subseteq D
      BY <1>1, <2>5, <3>1
    <3> HIDE DEF D
    <3>4. CASE Awaited(k)
      <4>1. /\ Len(io'.marks) = Len(io.marks) + 1 /\ Len(io.marks) \in Nat
            /\ \A j \in 1 .. Len(io.marks) : io'.marks[j] = io.marks[j]
            /\ io'.marks[Len(io.marks) + 1] = marks'
        <5> DEFINE q == io.marks
                   m == marks'
        <5>1. q \in Seq(SUBSET Own) /\ m \in SUBSET Own /\ io'.marks = Append(q, m)
          BY <1>1, <1>3, <3>4
        <5> HIDE DEF q, m
        <5>2. /\ Len(Append(q, m)) = Len(q) + 1 /\ Len(q) \in Nat
              /\ \A j \in 1 .. Len(q) : Append(q, m)[j] = q[j]
              /\ Append(q, m)[Len(q) + 1] = m
          BY ONLY <5>1, Appended
        <5> QED BY <5>1, <5>2 DEF q, m
      <4>2. ASSUME NEW j \in 1 .. Len(io'.marks) PROVE io'.marks[j] \subseteq D
        <5>1. j \in 1 .. Len(io.marks) \/ j = Len(io.marks) + 1
          BY <4>1
        <5> QED BY <3>1, <3>3, <4>1, <5>1
      <4> QED BY <3>1, <3>3, <4>2
    <3>5. CASE ~Awaited(k)
      BY <1>1, <3>1, <3>3, <3>5
    <3> QED BY <3>4, <3>5
  <2> QED BY <1>10, <2>2, <2>6, <2>8, <2>9 DEF Inv
<1> QED BY <1>12, <1>13

-----------------------------------------------------------------------------
(* Deletion. *)

LEMMA DeleteStep ==
  ASSUME Inv, Delete
  PROVE  Inv'
<1> DEFINE m == marks \ log
<1>1. /\ inList /\ deletion = "none" /\ deletion' = "star"
      /\ inList' = FALSE /\ log' = {} /\ timer' = FALSE
      /\ own' = [e \in Own |-> IF own[e] = "new" THEN "new" ELSE "over"]
      /\ marks' = m /\ io' = MarksSaved(io, m) /\ saved' = {}
      /\ UNCHANGED <<up, started, measured, joins, disk, sent, guessed, unsaved, cut, rejoined>>
  BY DEF Delete, node
<1>2. m \in SUBSET Own
  BY DEF Inv, Typed
<1>3. rejoined = "no" => m \subseteq unsaved
  <2> SUFFICES ASSUME rejoined = "no" PROVE m \subseteq unsaved
    OBVIOUS
  <2>1. marks \subseteq disk.log \cup unsaved /\ disk.log \subseteq log
    BY <1>1, Lively DEF Inv, Gone, Chained
  <2> QED BY <2>1
<1> HIDE DEF m
<1>4. /\ io' \in [log : Seq(Op), marks : Seq(SUBSET Own), listed : Seq(BOOLEAN)]
      /\ io'.log = io.log /\ io'.marks = Append(io.marks, m) /\ io'.listed = io.listed
  BY <1>1, <1>2, Asked DEF Inv
<1>5. Typed'
  BY <1>1, <1>2, <1>4 DEF Inv, Typed
<1>6. up /\ \A c \in Callers : joins[c] # "bind"
  BY <1>1, Lively
<1>7. Basics'
  BY <1>1, <1>4, <1>6 DEF Inv, Basics
<1>8. Kept'
  BY <1>1, <1>4 DEF Inv, Kept
<1>9. Queued'
  BY <1>1 DEF Queued
<1>10. Gone'
  <2>1. io.marks \in Seq(SUBSET Own) /\ m \in SUBSET Own
    BY <1>2 DEF Inv, Typed
  <2>2. rejoined = "no" => Ends(Append(io.marks, m), disk.marks, SUBSET unsaved)
    BY <1>3, <2>1, EndsAppended
  <2> QED BY <1>1, <1>3, <1>4, <2>2 DEF Gone
<1> QED BY <1>5, <1>7, <1>8, <1>9, <1>10 DEF Inv

\* deleteRoom's deletion of the file, and the sweep.
LEMMA DeleteFileStep ==
  ASSUME Inv, DeleteFile \/ Sweep
  PROVE  Inv'
<1>1. /\ \/ deletion = "star" /\ deletion' = "file"
         \/ deletion = "sweep" /\ deletion' = "done" /\ io.log = << >>
      /\ io' = [io EXCEPT !.log = Append(@, DeleteLog)]
      /\ UNCHANGED <<up, started, measured, inList, log, joins, own, timer, marks, disk, sent, guessed, saved, unsaved, cut, rejoined>>
  BY DEF DeleteFile, Sweep, memory, node, history
<1> DEFINE d == DeleteLog
<1>2. d \in Op /\ d.delete /\ d.v = {}
  BY Ops
<1>3. /\ io' \in [log : Seq(Op), marks : Seq(SUBSET Own), listed : Seq(BOOLEAN)]
      /\ io'.log = Append(io.log, d) /\ io'.marks = io.marks /\ io'.listed = io.listed
  BY <1>1, <1>2, Asked DEF Inv
<1> HIDE DEF d
<1>4. io.log \in Seq(Op)
  BY DEF Inv, Typed
<1>5. /\ Len(io'.log) = Len(io.log) + 1 /\ Len(io.log) \in Nat /\ io'.log # << >>
      /\ \A k \in 1 .. Len(io.log) : io'.log[k] = io.log[k]
      /\ io'.log[Len(io.log) + 1] = d
  <2> DEFINE q == io.log
  <2>1. q \in Seq(Op) /\ d \in Op
    BY <1>2, <1>4
  <2> HIDE DEF q
  <2>2. /\ Len(Append(q, d)) = Len(q) + 1 /\ Len(q) \in Nat /\ Append(q, d) # << >>
        /\ \A k \in 1 .. Len(q) : Append(q, d)[k] = q[k]
        /\ Append(q, d)[Len(q) + 1] = d
    BY ONLY <2>1, Appended
  <2> QED BY <1>3, <2>2 DEF q
<1>6. Deleting /\ up
  BY <1>1, Lively DEF Deleting
<1>7. \A k \in 1 .. Len(io'.log) : k \in 1 .. Len(io.log) \/ k = Len(io.log) + 1
  BY <1>5
<1>8. \A k \in 1 .. Len(io'.log) : io'.log[k].delete => io'.log[k].v = {}
  BY <1>2, <1>5, <1>7 DEF Inv, Basics
<1>9. Typed'
  BY <1>1, <1>3 DEF Inv, Typed
<1>10. Basics'
  BY <1>1, <1>6, <1>8 DEF Inv, Basics
<1>11. deletion' = "done" => \A k \in 1 .. Len(io'.log) : io'.log[k].delete
  <2> SUFFICES ASSUME io.log = << >> PROVE \A k \in 1 .. Len(io'.log) : io'.log[k].delete
    BY <1>1
  <2>1. Len(io.log) = 0
    OBVIOUS
  <2> QED BY <1>2, <1>5, <1>7, <2>1
<1>12. Kept'
  BY <1>1, <1>6, <1>11 DEF Inv, Kept
<1>13. Queued'
  BY <1>1, <1>5 DEF Inv, Queued
<1>14. Gone'
  BY <1>1, <1>3, <1>5 DEF Inv, Gone
<1> QED BY <1>9, <1>10, <1>12, <1>13, <1>14 DEF Inv

-----------------------------------------------------------------------------
(* Crash, restart, and the room coming back. *)

LEMMA Nothing ==
  /\ NoIo \in [log : Seq(Op), marks : Seq(SUBSET Own), listed : Seq(BOOLEAN)]
  /\ NoIo.log = << >> /\ NoIo.marks = << >> /\ NoIo.listed = << >>
  /\ 1 .. Len(NoIo.log) = {} /\ 1 .. Len(NoIo.marks) = {}
<1>1. /\ NoIo.log = << >> /\ NoIo.marks = << >> /\ NoIo.listed = << >>
      /\ NoIo = [log |-> << >>, marks |-> << >>, listed |-> << >>]
  BY DEF NoIo
<1>2. \A t : t = << >> => 1 .. Len(t) = {}
  OBVIOUS
<1> HIDE DEF Op
<1>3. << >> \in Seq(Op) /\ << >> \in Seq(SUBSET Own) /\ << >> \in Seq(BOOLEAN)
  OBVIOUS
<1> QED BY <1>1, <1>2, <1>3

\* A file that is not being written is as it will be.
LEMMA NothingChained ==
  ASSUME NEW d, NEW q, 1 .. Len(q) = {}
  PROVE  Chained(d, q, d)
BY DEF Chained

LEMMA CrashStep ==
  ASSUME Inv, Crash
  PROVE  Inv'
<1>1. /\ up /\ up' = FALSE /\ started' = FALSE /\ measured' = FALSE
      /\ inList' = FALSE /\ log' = {} /\ timer' = FALSE /\ marks' = {}
      /\ joins' = [c \in Callers |-> "none"]
      /\ own' = [e \in Own |-> IF own[e] = "new" THEN "new" ELSE "over"]
      /\ unsaved' = unsaved \cup (Own \cap (disk.log \ disk'.log))
      /\ cut' = cut \cup {e \in Own : own[e] = "save"} \cup (marks \ disk'.marks)
      /\ io' = NoIo
      /\ deletion' = IF deletion = "none" \/ (deletion = "done" /\ io = NoIo) THEN deletion ELSE "cut"
      /\ UNCHANGED <<sent, guessed, saved, rejoined>>
  BY DEF Crash
<1>0. /\ disk' \in [log : SUBSET Events, marks : SUBSET Own, listed : BOOLEAN]
      /\ disk'.log \in {disk.log, {}} /\ disk'.marks \in {disk.marks, {}} /\ disk'.listed = disk.listed
  <2>1. PICK halved \in SUBSET {f \in {"log", "marks"} : Halvable(f)} :
          disk' = [disk EXCEPT !.log = IF "log" \in halved THEN {} ELSE @,
                               !.marks = IF "marks" \in halved THEN {} ELSE @]
    BY DEF Crash
  <2>2. disk \in [log : SUBSET Events, marks : SUBSET Own, listed : BOOLEAN]
    BY DEF Inv, Typed
  <2> QED BY <2>1, <2>2
<1>2. deletion' = "cut" \/ (deletion' = deletion /\ (deletion = "none" \/ (deletion = "done" /\ io = NoIo)))
  BY <1>1
<1>3. Typed'
  BY <1>0, <1>1, <1>2, Nothing DEF Inv, Typed
<1>4. Basics'
  BY <1>1, <1>2, Nothing DEF Basics, Deleting
<1>5. Kept'
  <2>1. rejoined # "early" => saved \ unsaved' \subseteq disk'.log
    BY <1>0, <1>1 DEF Inv, Kept, Typed
  <2> QED BY <1>1, <1>2, <2>1, Nothing DEF Inv, Kept, Deleting
<1>6. Queued'
  <2> SUFFICES ASSUME rejoined # "early", deletion' # "cut"
               PROVE  disk'.log \cap Own \subseteq sent \cup disk'.marks \cup guessed \cup cut'
    BY <1>1 DEF Queued, MarksOnDisk
  <2>0. disk'.log \subseteq disk.log
    BY <1>0
  <2>1. CASE inList
    <3>1. disk.log \subseteq log
      BY <2>1, Lively DEF Chained
    <3>2. \A e \in log \cap Own : e \in sent \cup marks \cup guessed \cup cut \/ own[e] = "save"
      BY <1>2 DEF Inv, Queued
    <3> QED BY <1>1, <2>0, <3>1, <3>2
  <2>2. CASE ~inList
    <3>1. io.log = << >>
      BY <1>2, <2>2, Nothing DEF Inv, Basics
    <3>2. disk.log \cap Own \subseteq sent \cup marks \cup guessed \cup cut
      BY <1>1, <1>2, <2>2, <3>1 DEF Inv, Queued, MarksOnDisk
    <3> QED BY <1>1, <2>0, <3>2
  <2> QED BY <2>1, <2>2
<1>7. Gone'
  <2> SUFFICES ASSUME rejoined = "no", deletion' # "cut"
               PROVE  /\ deletion = "done" => /\ disk'.marks \subseteq unsaved' /\ disk'.listed = FALSE
                                              /\ disk'.log = {}
                      /\ deletion = "none" => disk'.marks \subseteq disk'.log \cup unsaved'
    BY <1>1, <1>2, Nothing DEF Gone, Ends
  <2>1. CASE deletion = "done"
    <3>1. /\ disk.marks \subseteq unsaved /\ disk.listed = FALSE /\ disk.log = {}
      BY <1>1, <1>2, <2>1, Nothing DEF Inv, Gone, Ends
    <3> QED BY <1>0, <1>1, <2>1, <3>1
  <2>2. CASE deletion = "none"
    <3>1. disk.marks \subseteq disk.log \cup unsaved /\ disk.marks \subseteq Own
      BY <2>2 DEF Inv, Gone, Typed
    <3>2. disk'.marks \subseteq disk.marks
      BY <1>0
    <3> QED BY <1>0, <1>1, <2>2, <3>1, <3>2
  <2> QED BY <2>1, <2>2
<1> QED BY <1>3, <1>4, <1>5, <1>6, <1>7 DEF Inv

LEMMA StartStep ==
  ASSUME Inv, Start
  PROVE  Inv'
<1>1. /\ ~up /\ up' = TRUE /\ marks' = disk.marks /\ inList' = disk.listed
      /\ log' = IF disk.listed THEN disk.log ELSE {}
      /\ UNCHANGED <<started, measured, joins, own, timer, deletion, disk, io, sent, guessed, saved, unsaved, cut, rejoined>>
  BY DEF Start, node, history
<1>2. /\ io = NoIo /\ ~inList /\ ~Deleting /\ timer = FALSE
      /\ (\A c \in Callers : joins[c] = "none") /\ \A e \in Own : own[e] \in {"new", "over"}
  BY <1>1 DEF Inv, Typed, Basics
<1>3. Typed'
  BY <1>1 DEF Inv, Typed
<1>4. Basics'
  BY <1>1, <1>2, Nothing DEF Basics
<1>5. Kept'
  <2>1. Chained(disk.log, io.log, disk.log)
    BY <1>2, Nothing, NothingChained
  <2> QED BY <1>1, <1>2, <2>1, Nothing DEF Inv, Kept, Deleting
<1>6. Queued'
  <2>1. deletion # "cut" => deletion \in {"none", "done"}
    BY <1>2 DEF Inv, Typed, Deleting
  <2>2. rejoined # "early" /\ deletion # "cut" => disk.log \cap Own \subseteq sent \cup disk.marks \cup guessed \cup cut
    BY <1>1, <1>2, <2>1, Nothing DEF Inv, Queued, MarksOnDisk
  <2> QED BY <1>1, <2>2 DEF Queued, MarksOnDisk
<1>7. Gone'
  <2>1. rejoined = "no" /\ deletion \notin {"none", "cut"} => disk.listed = FALSE /\ disk.marks \subseteq unsaved
    BY <1>2, Nothing DEF Inv, Typed, Gone, Ends, Deleting
  <2> QED BY <1>1, <1>2, <2>1, Nothing DEF Inv, Gone
<1> QED BY <1>3, <1>4, <1>5, <1>6, <1>7 DEF Inv

LEMMA RegisterStep ==
  ASSUME Inv, NEW c \in Callers, Register(c)
  PROVE  Inv'
<1>1. /\ joins[c] = "bind" /\ joins' = [joins EXCEPT ![c] = "none"]
      /\ inList' = TRUE /\ log' = disk.log
      /\ io' = [io EXCEPT !.listed = Append(@, TRUE)]
      /\ rejoined' = CASE deletion = "none" -> rejoined
                       [] deletion = "done" /\ io.log = << >> /\ rejoined # "early" -> "late"
                       [] OTHER -> "early"
      /\ UNCHANGED <<up, started, measured, own, timer, marks, deletion, disk, sent, guessed, saved, unsaved, cut>>
  BY DEF Register, node
<1>2. /\ io' \in [log : Seq(Op), marks : Seq(SUBSET Own), listed : Seq(BOOLEAN)]
      /\ io'.log = io.log /\ io'.marks = io.marks /\ io'.listed = Append(io.listed, TRUE)
  BY <1>1, Asked DEF Inv
<1>3. up /\ ~inList /\ \A d \in Callers : joins[d] = "bind" => d = c
  BY <1>1 DEF Inv, Basics
<1>4. \/ deletion = "none" /\ rejoined' = rejoined
      \/ deletion = "done" /\ io.log = << >> /\ rejoined # "early" /\ rejoined' = "late"
      \/ rejoined' = "early"
  BY <1>1
<1>5. rejoined' # "early" => io.log = << >> /\ rejoined # "early" /\ deletion \in {"none", "done"}
  BY <1>3, <1>4 DEF Inv, Basics
<1>6. Typed'
  BY <1>1, <1>2, <1>4 DEF Inv, Typed
<1>7. \A d \in Callers : joins'[d] # "bind"
  BY <1>1, <1>3 DEF Inv, Typed
<1>8. Basics'
  BY <1>1, <1>2, <1>3, <1>7 DEF Inv, Basics
<1>9. Kept'
  <2>1. \A t : t = << >> => 1 .. Len(t) = {}
    OBVIOUS
  <2>2. rejoined' # "early" => Chained(disk.log, io.log, disk.log)
    BY <1>5, <2>1, NothingChained
  <2>3. rejoined' # "early" => ~Deleting'
    BY <1>1, <1>5 DEF Deleting
  <2> QED BY <1>1, <1>2, <1>5, <2>2, <2>3 DEF Inv, Kept
<1>10. Queued'
  <2>1. rejoined' # "early" => disk.log \cap Own \subseteq sent \cup marks \cup guessed \cup cut
    BY <1>3, <1>5 DEF Inv, Queued, MarksOnDisk
  <2> QED BY <1>1, <2>1 DEF Queued
<1>11. Gone'
  <2>1. rejoined' = "no" => deletion = "none" /\ rejoined = "no"
    BY <1>4
  <2> QED BY <1>1, <1>2, <2>1 DEF Inv, Gone
<1> QED BY <1>6, <1>8, <1>9, <1>10, <1>11 DEF Inv

LEMMA Starts == Init => Inv
<1> SUFFICES ASSUME Init PROVE Inv
  OBVIOUS
<1>1. /\ up = TRUE /\ started = FALSE /\ measured = FALSE /\ inList = FALSE /\ log = {} /\ joins = [c \in Callers |-> "none"]
      /\ own = [e \in Own |-> "new"] /\ timer = FALSE /\ deletion = "none" /\ marks = {}
      /\ disk = [log |-> {}, marks |-> {}, listed |-> FALSE] /\ io = NoIo
      /\ sent = {} /\ guessed = {} /\ saved = {} /\ unsaved = {} /\ cut = {} /\ rejoined = "no"
  BY DEF Init
<1>2. Typed
  BY <1>1, Nothing DEF Typed
<1>3. Basics
  BY <1>1, Nothing DEF Basics, Deleting
<1>4. Kept
  BY <1>1, Nothing DEF Kept, Deleting
<1>5. Queued
  BY <1>1 DEF Queued
<1>6. Gone
  BY <1>1, Nothing DEF Gone
<1> QED BY <1>2, <1>3, <1>4, <1>5, <1>6 DEF Inv

LEMMA Step ==
  ASSUME Inv, [Next]_vars
  PROVE  Inv'
<1>1. CASE UNCHANGED vars
  <2>1. UNCHANGED <<up, started, measured, inList, log, timer, marks, deletion, disk, io, sent, guessed, saved, unsaved, cut,
                   rejoined, own, joins>>
    BY <1>1 DEF vars, memory, node, history
  <2>2. /\ started \in BOOLEAN /\ measured \in BOOLEAN /\ own \in [Own -> {"new", "sign", "save", "send", "over"}]
        /\ joins \in [Callers -> {"none", "bind"}]
        /\ \A e \in Own : own[e] \in {"new", "over"} \/ inList
        /\ \A c \in Callers : joins[c] = "bind" =>
             up /\ ~inList /\ \A d \in Callers : joins[d] = "bind" => d = c
    BY DEF Inv, Typed, Basics
  <2> QED BY <2>1, <2>2, OwnStep
<1>2. CASE Next
  BY <1>2, QuietStep, SignedStep, TimerStep, SendStep, ReceiveStep, MarksIoStep, LogIoStep,
     DeleteStep, DeleteFileStep, CrashStep, StartStep, RegisterStep DEF Next
<1> QED BY <1>1, <1>2

\* The five parts hold together in every reachable state.
THEOREM PhoneInvariance == Safe => []Inv
BY Starts, Step, PTL DEF Safe

\* An event of ours is in the file from before its first send, whatever is saved,
\* joined or killed after it, until the room is deleted, unless a write of the file
\* failed or was cut in half (append, flushSave).
THEOREM OwnStaysOnDisk == Safe => []OwnIsOnDiskUnlessRejoined
<1>1. Inv => OwnIsOnDiskUnlessRejoined
  BY DEF Inv, Kept, OwnIsOnDiskUnlessRejoined, OwnIsOnDisk
<1> QED BY <1>1, PhoneInvariance, PTL

\* What no mesh has seen is shown as queued, also by an app that was killed or could not
\* write, unless its mark went before the mesh was counted, or a kill cut it off
\* (isPublished, saveUnconfirmed, trySend).
THEOREM UnsentStaysQueued == Safe => []UnsentIsQueued
<1>1. Inv => UnsentIsQueued
  BY DEF Inv, Queued, UnsentIsQueued
<1> QED BY <1>1, PhoneInvariance, PTL

\* After deleteRoom no save that was under way, and no registry, brings the room back.
THEOREM DeletedStaysGone == Safe => []DeletedIsGone
<1>1. Inv => DeletedIsGone
  BY DEF Inv, Gone, Ends, DeletedIsGone
<1> QED BY <1>1, PhoneInvariance, PTL
=============================================================================
