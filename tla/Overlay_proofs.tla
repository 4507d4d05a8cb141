---------------------------- MODULE Overlay_proofs ----------------------------
(***************************************************************************)
(* The shared directory and the overlay, for any number of instances, events,  *)
(* questions, ports and clicks.                                              *)
(*                                                                           *)
(* Until two saves overlap, a crash halves one or a destructor saves a dirty *)
(* room, nothing that was saved is clobbered.  The argument is that one      *)
(* instance at a time has the file open then, and while it has, its memory   *)
(* includes what the file held when it merged.                               *)
(*                                                                           *)
(* The overlay's page is what the host is told it is, and the instances with  *)
(* it still share log.json as DataDir says.                                  *)
(***************************************************************************)
EXTENDS Overlay, TLAPS

\* Undisturbed, at most one instance is between the start and the end of a save.
OneSaver ==
  ~disturbed => \A i, j \in Instances : op[i] \in Saving /\ op[j] \in Saving => i = j

\* Undisturbed, no destructor saves.
NoLastSave == ~disturbed => \A i \in Instances : op[i] \notin {"exit", "last"}

\* A save that has merged holds the file's events, and all that was saved is in one
\* place: the file, or the memory of its writer.
SavedInOnePlace ==
  /\ ~torn
  /\ \A i \in Instances : op[i] = "open" => file \subseteq mem[i]
  /\ \A i \in Instances : op[i] = "write" => saved \subseteq mem[i] /\ file = {}
  /\ (\A i \in Instances : op[i] # "write") => saved \subseteq file

Merging == ~disturbed => SavedInOnePlace

Inv == TypeOK /\ OneSaver /\ NoLastSave /\ Merging

\* Types are kept by every step.
LEMMA TypeStep == TypeOK /\ [Next]_vars => TypeOK'
<1> SUFFICES ASSUME TypeOK, [Next]_vars PROVE TypeOK'
  OBVIOUS
<1> USE DataDirAssumption DEF TypeOK, Ops
<1>1. ASSUME NEW i \in Instances, Start(i) PROVE TypeOK'
  BY <1>1 DEF Start
<1>2. ASSUME NEW i \in Instances, NEW e \in Events, CommitOwn(i, e) PROVE TypeOK'
  BY <1>2 DEF CommitOwn, Load
<1>3. ASSUME NEW i \in Instances, NEW e \in Events, Receive(i, e) PROVE TypeOK'
  BY <1>3 DEF Receive
<1>4. ASSUME NEW i \in Instances, Flush(i) PROVE TypeOK'
  BY <1>4 DEF Flush, Load
<1>5. ASSUME NEW i \in Instances, Exit(i) PROVE TypeOK'
  BY <1>5 DEF Exit
<1>6. ASSUME NEW i \in Instances, Truncate(i) PROVE TypeOK'
  BY <1>6 DEF Truncate
<1>7. ASSUME NEW i \in Instances, Write(i) PROVE TypeOK'
  BY <1>7 DEF Write
<1>8. ASSUME NEW i \in Instances, Crash(i) PROVE TypeOK'
  BY <1>8 DEF Crash
<1>9. CASE UNCHANGED vars
  BY <1>9 DEF vars
<1> QED BY <1>1, <1>2, <1>3, <1>4, <1>5, <1>6, <1>7, <1>8, <1>9 DEF Next

\* A disturbance is never forgotten.
LEMMA Latched == TypeOK /\ [Next]_vars /\ ~disturbed' => ~disturbed
BY DEF TypeOK, Next, Start, CommitOwn, Receive, Flush, Exit, Truncate, Write, Crash, vars

\* A save that begins while another is under way disturbs, and so does the destructor's.
LEMMA SaverStep ==
  TypeOK /\ OneSaver /\ NoLastSave /\ [Next]_vars => OneSaver' /\ NoLastSave'
<1> SUFFICES ASSUME TypeOK, OneSaver, NoLastSave, [Next]_vars, ~disturbed'
             PROVE  OneSaver' /\ NoLastSave'
  BY DEF OneSaver, NoLastSave
<1>0. ~disturbed
  BY Latched
<1> USE <1>0 DEF TypeOK, OneSaver, NoLastSave, Saving, OthersSave
<1>1. ASSUME NEW i \in Instances, Start(i) PROVE OneSaver' /\ NoLastSave'
  BY <1>1 DEF Start
<1>2. ASSUME NEW i \in Instances, NEW e \in Events, CommitOwn(i, e) PROVE OneSaver' /\ NoLastSave'
  BY <1>2 DEF CommitOwn
<1>3. ASSUME NEW i \in Instances, NEW e \in Events, Receive(i, e) PROVE OneSaver' /\ NoLastSave'
  BY <1>3 DEF Receive
<1>4. ASSUME NEW i \in Instances, Flush(i) PROVE OneSaver' /\ NoLastSave'
  BY <1>4 DEF Flush
<1>5. ASSUME NEW i \in Instances, Exit(i) PROVE OneSaver' /\ NoLastSave'
  <2>1. op' = [op EXCEPT ![i] = "down"]
    BY <1>5 DEF Exit
  <2> QED BY <2>1
<1>6. ASSUME NEW i \in Instances, Truncate(i) PROVE OneSaver' /\ NoLastSave'
  BY <1>6 DEF Truncate
<1>7. ASSUME NEW i \in Instances, Write(i) PROVE OneSaver' /\ NoLastSave'
  BY <1>7 DEF Write
<1>8. ASSUME NEW i \in Instances, Crash(i) PROVE OneSaver' /\ NoLastSave'
  BY <1>8 DEF Crash
<1>9. CASE UNCHANGED vars
  BY <1>9 DEF vars
<1> QED BY <1>1, <1>2, <1>3, <1>4, <1>5, <1>6, <1>7, <1>8, <1>9 DEF Next

\* What the saver merged stays in its memory until it has written it.
LEMMA MergeStep == TypeOK /\ OneSaver /\ NoLastSave /\ Merging /\ [Next]_vars => Merging'
<1> SUFFICES ASSUME TypeOK, OneSaver, NoLastSave, Merging, [Next]_vars, ~disturbed'
             PROVE  SavedInOnePlace'
  BY DEF Merging
<1>0. ~disturbed /\ SavedInOnePlace
  BY Latched DEF Merging
<1> USE <1>0 DEF TypeOK, OneSaver, NoLastSave, Saving, OthersSave, SavedInOnePlace
<1>1. ASSUME NEW i \in Instances, Start(i) PROVE SavedInOnePlace'
  BY <1>1 DEF Start
<1>2. ASSUME NEW i \in Instances, NEW e \in Events, CommitOwn(i, e) PROVE SavedInOnePlace'
  <2>1. /\ mem' = [mem EXCEPT ![i] = mem[i] \cup file \cup {e}] /\ op' = [op EXCEPT ![i] = "open"]
        /\ \A j \in Instances : op[j] \notin {"open", "write", "exit", "last"}
        /\ file' = file /\ saved' = saved /\ torn' = torn
    BY <1>2 DEF CommitOwn, Load
  <2> QED BY <2>1
<1>3. ASSUME NEW i \in Instances, NEW e \in Events, Receive(i, e) PROVE SavedInOnePlace'
  BY <1>3 DEF Receive
<1>4. ASSUME NEW i \in Instances, Flush(i) PROVE SavedInOnePlace'
  <2>1. /\ mem' = [mem EXCEPT ![i] = mem[i] \cup file] /\ op' = [op EXCEPT ![i] = "open"]
        /\ \A j \in Instances : op[j] \notin {"open", "write", "exit", "last"}
        /\ file' = file /\ saved' = saved /\ torn' = torn
    BY <1>4 DEF Flush, Load
  <2> QED BY <2>1
<1>5. ASSUME NEW i \in Instances, Exit(i) PROVE SavedInOnePlace'
  <2>1. /\ mem' = [mem EXCEPT ![i] = {}] /\ op' = [op EXCEPT ![i] = "down"] /\ op[i] = "idle"
        /\ file' = file /\ saved' = saved /\ torn' = torn
    BY <1>5 DEF Exit
  <2> QED BY <2>1
<1>6. ASSUME NEW i \in Instances, Truncate(i) PROVE SavedInOnePlace'
  <2>1. /\ op[i] = "open" /\ op' = [op EXCEPT ![i] = "write"] /\ file' = {} /\ torn' = FALSE
        /\ mem' = mem /\ saved' = saved
        /\ \A j \in Instances \ {i} : op[j] \notin {"open", "write", "exit", "last"}
    BY <1>6 DEF Truncate
  <2>2. saved \subseteq mem[i]
    BY <2>1
  <2> QED BY <2>1, <2>2
<1>7. ASSUME NEW i \in Instances, Write(i) PROVE SavedInOnePlace'
  <2>1. /\ op[i] = "write" /\ op' = [op EXCEPT ![i] = "idle"] /\ mem' = mem
        /\ file' = mem[i] /\ torn' = FALSE /\ saved' = saved \cup mem[i]
        /\ \A j \in Instances \ {i} : op[j] \notin {"open", "write", "exit", "last"}
    BY <1>7 DEF Write
  <2>2. saved \subseteq mem[i]
    BY <2>1
  <2> QED BY <2>1, <2>2
<1>8. ASSUME NEW i \in Instances, Crash(i) PROVE SavedInOnePlace'
  <2>1. /\ op' = [op EXCEPT ![i] = "down"] /\ mem' = [mem EXCEPT ![i] = {}]
        /\ op[i] \notin {"write", "exit", "last"}
        /\ file' = file /\ saved' = saved /\ torn' = torn
    BY <1>8 DEF Crash
  <2> QED BY <2>1
<1>9. CASE UNCHANGED vars
  BY <1>9 DEF vars
<1> QED BY <1>1, <1>2, <1>3, <1>4, <1>5, <1>6, <1>7, <1>8, <1>9 DEF Next

\* The four parts hold together in every reachable state.
THEOREM Invariance == Safe => []Inv
<1>1. Init => Inv
  <2> SUFFICES ASSUME Init PROVE Inv
    OBVIOUS
  <2>1. TypeOK
    <3>1. torn \in BOOLEAN /\ disturbed \in BOOLEAN /\ dirty \in [Instances -> BOOLEAN]
      BY DEF Init
    <3>2. /\ mem \in [Instances -> SUBSET Events] /\ op \in [Instances -> Ops]
          /\ file \in SUBSET Events /\ saved \in SUBSET Events /\ exits \in 0 .. MaxExits
      BY DataDirAssumption DEF Init, Ops
    <3> QED BY <3>1, <3>2 DEF TypeOK
  <2>2. OneSaver /\ NoLastSave
    BY DEF Init, OneSaver, NoLastSave, Saving
  <2>3. Merging
    BY DEF Init, Merging, SavedInOnePlace
  <2> QED BY <2>1, <2>2, <2>3 DEF Inv
<1>2. Inv /\ [Next]_vars => Inv'
  BY TypeStep, SaverStep, MergeStep DEF Inv
<1> QED BY <1>1, <1>2, PTL DEF Safe

\* The file, the memories and the steps of a save keep their types (Session, log.json).
THEOREM TypeCorrect == Safe => []TypeOK
BY Invariance, PTL DEF Inv

\* With saves interleaving and crashes anywhere: memory that is out of date clobbers no
\* other instance's events until two saves overlap, a crash halves one, or a destructor
\* saves a dirty room (loadPersistedLog).
THEOREM NoClobber == Safe => []KeptUnlessDisturbed
<1>1. Inv => KeptUnlessDisturbed
  BY DEF Inv, Merging, SavedInOnePlace, KeptUnlessDisturbed, NothingClobbered
<1> QED BY <1>1, Invariance, PTL

-----------------------------------------------------------------------------
(* The overlay. *)

OverlayTypeOK ==
  /\ setting \in Setting /\ conf \in [Instances -> Setting]
  /\ server \in [Instances -> Ports \cup {NoPort}]
  /\ failed \in [Instances -> BOOLEAN] /\ half \in [Instances -> BOOLEAN]
  /\ picked \in SUBSET Questions /\ onStream \in [Instances -> SUBSET Questions]

\* What i listens on is what its setting and its error say.
ServerAsTold(i) == server[i] = IF conf[i].on /\ ~failed[i] THEN conf[i].port ELSE NoPort

\* An instance that is not at work has nothing picked and nothing half done, so it
\* starts with what the files say.
Fresh(i) == onStream[i] = {} /\ half[i] = FALSE

OverlayInv ==
  /\ OverlayTypeOK
  /\ \A i \in Instances : Runs(i) /\ ~half[i] => ServerAsTold(i)
  /\ \A i \in Instances : ~Runs(i) => Fresh(i)
  /\ off \cap picked = {} /\ \A i \in Instances : off \cap onStream[i] = {}

-----------------------------------------------------------------------------
\* The overlay leaves the log to DataDir.
LEMMA OverlayIsDataDir ==
  ASSUME [OverlayNext]_<<vars, overlayVars, clicks>>
  PROVE  [Next]_vars
<1>1. CASE OverlayNext
  <2> PICK i \in Instances :
        \/ Begin(i) \/ End(i) \/ Work(i)
        \/ \E c \in Setting : SetOverlay(i, c)
        \/ \E on \in BOOLEAN : RefuseOverlay(i, on)
        \/ \E q \in Questions, on \in BOOLEAN : SetOnStream(i, q, on)
        \/ ClearOnStream(i)
    BY <1>1 DEF OverlayNext
  <2>1. CASE Begin(i) \/ End(i) \/ Work(i)
    BY <2>1 DEF Begin, End, Work, Next
  <2>2. CASE ~(Begin(i) \/ End(i) \/ Work(i))
    <3>1. Click(i)
      BY <2>2 DEF SetOverlay, RefuseOverlay, SetOnStream, ClearOnStream, Select
    <3> QED BY <3>1 DEF Click
  <2> QED BY <2>1, <2>2
<1>2. CASE UNCHANGED <<vars, overlayVars, clicks>>
  BY <1>2
<1> QED BY <1>1, <1>2

\* applyOverlayConfig: a server at the port, or an error.
LEMMA Applied ==
  ASSUME OverlayInv, NEW i \in Instances, NEW c \in Setting, Apply(i, c),
         conf' = [conf EXCEPT ![i] = c]
  PROVE  /\ server' \in [Instances -> Ports \cup {NoPort}] /\ failed' \in [Instances -> BOOLEAN]
         /\ conf' \in [Instances -> Setting]
         /\ ServerAsTold(i)'
         /\ \A j \in Instances \ {i} : ServerAsTold(j)' <=> ServerAsTold(j)
<1> DEFINE port == IF c.on THEN Listens(i, c) ELSE NoPort
<1>1. port \in {c.port, NoPort} /\ (~c.on => port = NoPort)
  BY DEF Listens
<1>2. c.on \in BOOLEAN /\ c.port \in Ports /\ c.port # NoPort
  BY OverlayAssumption DEF Setting
<1>3. server' = [server EXCEPT ![i] = port] /\ failed' = [failed EXCEPT ![i] = c.on /\ port = NoPort]
  BY DEF Apply
<1> HIDE DEF port
<1>4. /\ server' \in [Instances -> Ports \cup {NoPort}] /\ failed' \in [Instances -> BOOLEAN]
      /\ conf' \in [Instances -> Setting]
  BY <1>1, <1>2, <1>3 DEF OverlayInv, OverlayTypeOK
<1>5. server'[i] = port /\ failed'[i] = (c.on /\ port = NoPort) /\ conf'[i] = c
  BY <1>3 DEF OverlayInv, OverlayTypeOK
<1>6. \A j \in Instances \ {i} : server'[j] = server[j] /\ failed'[j] = failed[j] /\ conf'[j] = conf[j]
  BY <1>3 DEF OverlayInv, OverlayTypeOK
<1> QED BY <1>1, <1>2, <1>4, <1>5, <1>6 DEF ServerAsTold

LEMMA BeginStep ==
  ASSUME TypeOK, OverlayInv, NEW i \in Instances, Begin(i)
  PROVE  OverlayInv'
<1>1. /\ op[i] = "down" /\ op' = [op EXCEPT ![i] = "idle"]
      /\ conf' = [conf EXCEPT ![i] = setting] /\ onStream' = [onStream EXCEPT ![i] = picked]
      /\ Apply(i, setting) /\ UNCHANGED <<setting, picked, half, off>>
  BY DEF Begin, Start, LoadOnStream, LoadOverlayConfig
<1>2. setting \in Setting
  BY DEF OverlayInv, OverlayTypeOK
<1>3. /\ server' \in [Instances -> Ports \cup {NoPort}] /\ failed' \in [Instances -> BOOLEAN]
      /\ conf' \in [Instances -> Setting]
      /\ ServerAsTold(i)' /\ \A j \in Instances \ {i} : ServerAsTold(j)' <=> ServerAsTold(j)
  BY <1>1, <1>2, Applied
<1>4. \A j \in Instances : onStream'[j] = IF j = i THEN picked ELSE onStream[j]
  BY <1>1 DEF OverlayInv, OverlayTypeOK
<1>5. Runs(i)' /\ \A j \in Instances \ {i} : Runs(j)' <=> Runs(j)
  BY <1>1 DEF Runs, TypeOK
<1>6. OverlayTypeOK'
  BY <1>1, <1>3 DEF OverlayInv, OverlayTypeOK
<1>7. \A j \in Instances : Runs(j)' /\ ~half'[j] => ServerAsTold(j)'
  BY <1>1, <1>3, <1>5 DEF OverlayInv
<1>8. \A j \in Instances : ~Runs(j)' => onStream'[j] = {} /\ half'[j] = FALSE
  BY <1>1, <1>4, <1>5 DEF OverlayInv, Fresh
<1>9. off' \cap picked' = {} /\ \A j \in Instances : off' \cap onStream'[j] = {}
  BY <1>1, <1>4 DEF OverlayInv
<1> QED BY <1>6, <1>7, <1>8, <1>9 DEF OverlayInv, Fresh

LEMMA EndStep ==
  ASSUME TypeOK, OverlayInv, NEW i \in Instances, End(i)
  PROVE  OverlayInv'
<1>1. /\ conf' = [conf EXCEPT ![i] = Unset] /\ server' = [server EXCEPT ![i] = NoPort]
      /\ failed' = [failed EXCEPT ![i] = FALSE] /\ onStream' = [onStream EXCEPT ![i] = {}]
      /\ half' = [half EXCEPT ![i] = FALSE] /\ UNCHANGED <<setting, picked, off>>
  BY DEF End
<1>2. \E o \in {"exit", "down"} : op' = [op EXCEPT ![i] = o]
  BY DEF End, Exit, Crash
<1>3. ~Runs(i)' /\ \A j \in Instances \ {i} : Runs(j)' <=> Runs(j)
  BY <1>2 DEF Runs, TypeOK
<1>4. Unset \in Setting
  BY OverlayAssumption DEF Unset, Setting
<1>5. OverlayTypeOK'
  BY <1>1, <1>4 DEF OverlayInv, OverlayTypeOK
<1>6. \A j \in Instances \ {i} : /\ server'[j] = server[j] /\ conf'[j] = conf[j] /\ failed'[j] = failed[j]
                                 /\ half'[j] = half[j] /\ onStream'[j] = onStream[j]
  BY <1>1 DEF OverlayInv, OverlayTypeOK
<1>7. onStream'[i] = {} /\ half'[i] = FALSE
  BY <1>1 DEF OverlayInv, OverlayTypeOK
<1>8. \A j \in Instances : Runs(j)' /\ ~half'[j] => ServerAsTold(j)'
  BY <1>3, <1>6 DEF OverlayInv, ServerAsTold
<1>9. \A j \in Instances : ~Runs(j)' => Fresh(j)'
  BY <1>3, <1>6, <1>7 DEF OverlayInv, Fresh
<1>10. off' \cap picked' = {} /\ \A j \in Instances : off' \cap onStream'[j] = {}
  BY <1>1, <1>6, <1>7 DEF OverlayInv
<1> QED BY <1>5, <1>8, <1>9, <1>10 DEF OverlayInv

LEMMA WorkStep ==
  ASSUME TypeOK, OverlayInv, NEW i \in Instances, Work(i)
  PROVE  OverlayInv'
<1>1. UNCHANGED <<setting, conf, server, failed, picked, onStream, half, off>>
  BY DEF Work, overlayVars
<1>2. \A j \in Instances : Runs(j)' <=> Runs(j)
  <2>1. CASE \E e \in Events : CommitOwn(i, e) \/ Receive(i, e)
    BY <2>1 DEF CommitOwn, Receive, Runs, TypeOK
  <2>2. CASE Flush(i)
    BY <2>2 DEF Flush, Runs, TypeOK
  <2>3. CASE Truncate(i)
    BY <2>3 DEF Truncate, Runs, TypeOK
  <2>4. CASE Write(i)
    BY <2>4 DEF Write, Runs, TypeOK
  <2> QED BY <2>1, <2>2, <2>3, <2>4 DEF Work
<1> QED BY <1>1, <1>2 DEF OverlayInv, OverlayTypeOK, ServerAsTold, Fresh

LEMMA SetOverlayStep ==
  ASSUME TypeOK, OverlayInv, NEW i \in Instances, NEW c \in Setting, SetOverlay(i, c)
  PROVE  OverlayInv'
<1>1. /\ op[i] = "idle" /\ op' = op
      /\ conf' = [conf EXCEPT ![i] = c] /\ setting' = c
      /\ Apply(i, c) /\ half' = [half EXCEPT ![i] = FALSE]
      /\ UNCHANGED <<picked, onStream, off>>
  BY DEF SetOverlay, Click, vars
<1>2. /\ server' \in [Instances -> Ports \cup {NoPort}] /\ failed' \in [Instances -> BOOLEAN]
      /\ conf' \in [Instances -> Setting]
      /\ ServerAsTold(i)' /\ \A j \in Instances \ {i} : ServerAsTold(j)' <=> ServerAsTold(j)
  BY <1>1, Applied
<1>3. Runs(i)' /\ \A j \in Instances : Runs(j)' <=> Runs(j)
  BY <1>1 DEF Runs
<1>4. \A j \in Instances \ {i} : half'[j] = half[j]
  BY <1>1 DEF OverlayInv, OverlayTypeOK
<1>5. OverlayTypeOK'
  BY <1>1, <1>2 DEF OverlayInv, OverlayTypeOK
<1>6. \A j \in Instances : Runs(j)' /\ ~half'[j] => ServerAsTold(j)'
  BY <1>2, <1>3, <1>4 DEF OverlayInv
<1>7. \A j \in Instances : ~Runs(j)' => Fresh(j)'
  BY <1>1, <1>3, <1>4 DEF OverlayInv, Fresh
<1> QED BY <1>1, <1>5, <1>6, <1>7 DEF OverlayInv

\* A refusal changes what the host is told, and is marked.
LEMMA RefuseStep ==
  ASSUME TypeOK, OverlayInv, NEW i \in Instances, NEW on \in BOOLEAN, RefuseOverlay(i, on)
  PROVE  OverlayInv'
<1>1. /\ op[i] = "idle" /\ op' = op
      /\ conf' = [conf EXCEPT ![i].on = on] /\ half' = [half EXCEPT ![i] = TRUE]
      /\ UNCHANGED <<setting, server, failed, picked, onStream, off>>
  BY DEF RefuseOverlay, Click, vars
<1>2. conf' \in [Instances -> Setting] /\ half' \in [Instances -> BOOLEAN]
  BY <1>1 DEF OverlayInv, OverlayTypeOK, Setting
<1>3. half'[i] /\ \A j \in Instances \ {i} : half'[j] = half[j] /\ conf'[j] = conf[j]
  BY <1>1 DEF OverlayInv, OverlayTypeOK
<1>4. Runs(i) /\ \A j \in Instances : Runs(j)' <=> Runs(j)
  BY <1>1 DEF Runs
<1>5. OverlayTypeOK'
  BY <1>1, <1>2 DEF OverlayInv, OverlayTypeOK
<1>6. \A j \in Instances : Runs(j)' /\ ~half'[j] => ServerAsTold(j)'
  BY <1>1, <1>3, <1>4 DEF OverlayInv, ServerAsTold
<1>7. \A j \in Instances : ~Runs(j)' => Fresh(j)'
  BY <1>1, <1>3, <1>4 DEF OverlayInv, Fresh
<1> QED BY <1>1, <1>5, <1>6, <1>7 DEF OverlayInv

\* What the host takes off is off the page and off the file.
LEMMA SelectStep ==
  ASSUME TypeOK, OverlayInv, NEW i \in Instances, NEW qs \in SUBSET Questions, Select(i, qs)
  PROVE  OverlayInv'
<1>1. /\ op[i] = "idle" /\ op' = op
      /\ onStream' = [onStream EXCEPT ![i] = qs] /\ picked' = onStream'[i]
      /\ off' = (off \ qs) \cup
                IF \A j \in Instances \ {i} : op[j] = "down" THEN onStream[i] \ qs ELSE {}
      /\ UNCHANGED <<setting, conf, server, failed, half>>
  BY DEF Select, Click, vars, SavedStream
<1>2. onStream'[i] = qs /\ \A j \in Instances \ {i} : onStream'[j] = onStream[j]
  BY <1>1 DEF OverlayInv, OverlayTypeOK
<1>3. Runs(i) /\ \A j \in Instances : Runs(j)' <=> Runs(j)
  BY <1>1 DEF Runs
<1>4. OverlayTypeOK'
  BY <1>1, <1>2 DEF OverlayInv, OverlayTypeOK
<1>5. \A j \in Instances : Runs(j)' /\ ~half'[j] => ServerAsTold(j)'
  BY <1>1, <1>3 DEF OverlayInv, ServerAsTold
<1>6. \A j \in Instances : ~Runs(j)' => Fresh(j)'
  BY <1>1, <1>2, <1>3 DEF OverlayInv, Fresh
<1>7. off' \cap qs = {}
  BY <1>1
<1>8. ASSUME NEW j \in Instances \ {i} PROVE off' \cap onStream[j] = {}
  <2>1. CASE op[j] = "down"
    BY <2>1 DEF OverlayInv, Fresh, Runs
  <2>2. CASE op[j] # "down"
    BY <1>1, <2>2 DEF OverlayInv
  <2> QED BY <2>1, <2>2
<1> QED BY <1>1, <1>2, <1>4, <1>5, <1>6, <1>7, <1>8 DEF OverlayInv

LEMMA OverlayStep ==
  ASSUME TypeOK, OverlayInv, [OverlayNext]_<<vars, overlayVars, clicks>>
  PROVE  OverlayInv'
<1>1. ASSUME NEW i \in Instances, Begin(i) \/ End(i) \/ Work(i) PROVE OverlayInv'
  BY <1>1, BeginStep, EndStep, WorkStep
<1>2. ASSUME NEW i \in Instances, NEW c \in Setting, SetOverlay(i, c) PROVE OverlayInv'
  BY <1>2, SetOverlayStep
<1>3. ASSUME NEW i \in Instances, NEW on \in BOOLEAN, RefuseOverlay(i, on) PROVE OverlayInv'
  BY <1>3, RefuseStep
<1>4. ASSUME NEW i \in Instances, NEW q \in Questions, NEW on \in BOOLEAN, SetOnStream(i, q, on)
      PROVE  OverlayInv'
  <2> DEFINE qs == IF on THEN onStream[i] \cup {q} ELSE onStream[i] \ {q}
  <2>1. qs \in SUBSET Questions /\ Select(i, qs)
    BY <1>4 DEF SetOnStream, OverlayInv, OverlayTypeOK
  <2> HIDE DEF qs
  <2> QED BY <2>1, SelectStep
<1>5. ASSUME NEW i \in Instances, ClearOnStream(i) PROVE OverlayInv'
  BY <1>5, SelectStep DEF ClearOnStream
<1>6. CASE UNCHANGED <<vars, overlayVars, clicks>>
  BY <1>6 DEF vars, overlayVars, OverlayInv, OverlayTypeOK, ServerAsTold, Fresh, Runs
<1> QED BY <1>1, <1>2, <1>3, <1>4, <1>5, <1>6 DEF OverlayNext

LEMMA OverlayStarts == OverlayInit => OverlayInv
<1> SUFFICES ASSUME OverlayInit PROVE OverlayInv
  OBVIOUS
<1>1. Unset \in Setting
  BY OverlayAssumption DEF Unset, Setting
<1> QED BY <1>1 DEF OverlayInit, Init, OverlayInv, OverlayTypeOK, Fresh, Runs

\* The overlay's host shares log.json as DataDir says: whatever is clicked, started and
\* closed, nothing of the overlay touches the log (setOverlay, setOnStream).
THEOREM SharesTheLog == OverlaySpec => Safe
<1>1. OverlayInit => Init
  BY DEF OverlayInit
<1>2. [OverlayNext]_<<vars, overlayVars, clicks>> => [Next]_vars
  BY OverlayIsDataDir
<1> QED BY <1>1, <1>2, PTL DEF OverlaySpec, Safe

\* On without an error the page is at its port, off or with one at none, and what was
\* taken off the stream stays off it, through restarts and fights over a port
\* (applyOverlayConfig, setOverlay, saveOnStream).
THEOREM PageIsAsTold == OverlaySpec => []PageAsTold
<1>1. OverlaySpec => []TypeOK
  BY SharesTheLog, TypeCorrect, PTL
<1>2. OverlayInit => OverlayInv
  BY OverlayStarts
<1>3. TypeOK /\ OverlayInv /\ [OverlayNext]_<<vars, overlayVars, clicks>> => OverlayInv'
  BY OverlayStep
<1>4. OverlayInv => PageAsTold
  BY DEF OverlayInv, ServerAsTold, PageAsTold, Payload
<1> QED BY <1>1, <1>2, <1>3, <1>4, PTL DEF OverlaySpec
=============================================================================
