------------------------------- MODULE Overlay -------------------------------
(***************************************************************************)
(* The stream overlay of qaku_core: a page on a loopback port, with the      *)
(* questions the host has picked.  The instances of DataDir share            *)
(* overlay.json and onstream.json as they share log.json, and the ports of   *)
(* the machine: one of them has a port, the next one's listen fails, which   *)
(* it reports and does not try again.                                        *)
(*                                                                           *)
(* The setting is written without a merge, so the last instance to change it *)
(* wins; each goes on with what it has in memory.  overlay.json and          *)
(* onstream.json are not torn here.                                          *)
(***************************************************************************)
EXTENDS DataDir

CONSTANTS Questions,
          Ports, NoPort,  \* what setOverlay accepts; no port, and whatever it refuses
          Default,        \* the port of a new installation
          MaxClicks       \* bound on what the user does with the overlay

ASSUME OverlayAssumption == Default \in Ports /\ NoPort \notin Ports /\ MaxClicks \in Nat

VARIABLES
  setting,  \* overlay.json: enabled, port
  conf,     \* conf[i]: m_overlayEnabled, m_overlayPort
  server,   \* server[i]: the port m_overlay listens on
  failed,   \* failed[i]: m_overlayError is set
  picked,   \* onstream.json of the room
  onStream, \* onStream[i]: the same, in memory
  half,     \* half[i]: i's last setOverlay was refused with half of it done (history)
  off,      \* questions taken off the stream when there was one instance only (history)
  clicks

overlayVars == <<setting, conf, server, failed, picked, onStream, half, off>>

Setting == [on : BOOLEAN, port : Ports]

\* At work: the destructor closes the server before it saves (op "exit", "last").
Runs(i) == op[i] \in {"idle", "open", "write"}

-----------------------------------------------------------------------------
\* (Mutant: a server that runs is kept.)
Listens_still(i, c) ==
  IF server[i] # NoPort THEN server[i]
  ELSE IF \E j \in Instances \ {i} : server[j] = c.port THEN NoPort ELSE c.port

\* OverlayServer::start: the port of i's server is closed first; the new one may be taken.
Listens(i, c) ==
  IF \E j \in Instances \ {i} : server[j] = c.port THEN NoPort ELSE c.port

\* applyOverlayConfig, for the setting c.
Apply(i, c) ==
  LET port == IF c.on THEN Listens(i, c) ELSE NoPort
  IN  /\ server' = [server EXCEPT ![i] = port]
      /\ failed' = [failed EXCEPT ![i] = c.on /\ port = NoPort]

Unset == [on |-> FALSE, port |-> Default]

\* loadOverlayConfig, loadOnStream: the files at a start.
LoadOverlayConfig(i) == conf' = [conf EXCEPT ![i] = setting]
LoadOnStream(i) == onStream' = [onStream EXCEPT ![i] = picked]

\* overlayPayload: of the picked questions, those that are neither hidden nor deleted;
\* here all of them, which is the most it can be.  serve shows it while there is a server.
Payload(i) == onStream[i]

OverlayInit ==
  /\ Init
  /\ setting = Unset /\ conf = [i \in Instances |-> Unset]
  /\ server = [i \in Instances |-> NoPort]
  /\ failed = [i \in Instances |-> FALSE]
  /\ picked = {} /\ onStream = [i \in Instances |-> {}]
  /\ half = [i \in Instances |-> FALSE] /\ off = {}
  /\ clicks = 0

\* onContextReady: loadOnStream, loadOverlayConfig, applyOverlayConfig.
Begin(i) ==
  /\ Start(i)
  /\ LoadOnStream(i) /\ LoadOverlayConfig(i)
  /\ Apply(i, setting)
  /\ UNCHANGED <<setting, picked, half, off, clicks>>

\* The destructor, or the end of the process.
End(i) ==
  /\ Exit(i) \/ Crash(i)
  /\ conf' = [conf EXCEPT ![i] = Unset]
  /\ server' = [server EXCEPT ![i] = NoPort] /\ failed' = [failed EXCEPT ![i] = FALSE]
  /\ onStream' = [onStream EXCEPT ![i] = {}]
  /\ half' = [half EXCEPT ![i] = FALSE]
  /\ UNCHANGED <<setting, picked, off, clicks>>

Work(i) ==
  /\ \/ \E e \in Events : CommitOwn(i, e) \/ Receive(i, e)
     \/ Flush(i) \/ Truncate(i) \/ Write(i)
  /\ UNCHANGED <<overlayVars, clicks>>

-----------------------------------------------------------------------------
Click(i) ==
  /\ op[i] = "idle"
  /\ clicks < MaxClicks /\ clicks' = clicks + 1
  /\ UNCHANGED vars

\* setOverlay: the view sends both fields, from what it shows and what is typed.
SetOverlay(i, c) ==
  /\ Click(i)
  /\ conf' = [conf EXCEPT ![i] = c] /\ setting' = c
  /\ Apply(i, c)
  /\ half' = [half EXCEPT ![i] = FALSE]
  /\ UNCHANGED <<picked, onStream, off>>

\* The same with a port that is none: it returns when `enabled' is assigned.
RefuseOverlay(i, on) ==
  /\ Click(i)
  /\ conf' = [conf EXCEPT ![i].on = on]
  /\ half' = [half EXCEPT ![i] = TRUE]
  /\ UNCHANGED <<setting, server, failed, picked, onStream, off>>

\* (Mutant: the selection is not saved.)
Saved_not(i) == picked
\* saveOnStream
SavedStream(i) == onStream'[i]

\* setOnStream and, for all questions at once, clearOnStream.
Select(i, qs) ==
  /\ Click(i)
  /\ onStream' = [onStream EXCEPT ![i] = qs]
  /\ picked' = SavedStream(i)
  /\ off' = (off \ qs) \cup
            IF \A j \in Instances \ {i} : op[j] = "down" THEN onStream[i] \ qs ELSE {}
  /\ UNCHANGED <<setting, conf, server, failed, half>>

SetOnStream(i, q, on) == Select(i, IF on THEN onStream[i] \cup {q} ELSE onStream[i] \ {q})
ClearOnStream(i) == Select(i, {})

OverlayNext ==
  \E i \in Instances :
    \/ Begin(i) \/ End(i) \/ Work(i)
    \/ \E c \in Setting : SetOverlay(i, c)
    \/ \E on \in BOOLEAN : RefuseOverlay(i, on)
    \/ \E q \in Questions, on \in BOOLEAN : SetOnStream(i, q, on)
    \/ ClearOnStream(i)

OverlaySpec == OverlayInit /\ [][OverlayNext]_<<vars, overlayVars, clicks>> /\ Fairness

-----------------------------------------------------------------------------
\* What the host is told of the page is so.  On and without an error it is at that
\* port; off or with an error, at none: through every start, change of port and fight
\* over a port, but for a setting refused half way (publishState's overlay block;
\* CHANGELOG.md:51-52).  And a question taken off the stream is on nobody's page any
\* more, served now or later, also after a restart, until it is picked again; only
\* another instance that runs may bring it back (saveOnStream).
PageAsTold ==
  \A i \in Instances :
    /\ Runs(i) /\ ~half[i] =>
         server[i] = IF conf[i].on /\ ~failed[i] THEN conf[i].port ELSE NoPort
    /\ off \cap (picked \cup Payload(i)) = {}
=============================================================================
