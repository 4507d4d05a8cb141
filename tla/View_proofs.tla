------------------------------ MODULE View_proofs ------------------------------
(***************************************************************************)
(* The view for any rooms, buttons and number of moves: no call is out twice, *)
(* the code drawn is that of the room shown, and only a core whose last room  *)
(* is gone blanks the view.                                                   *)
(***************************************************************************)
EXTENDS View, TLAPS

Methods == {"snapshot", "shareQr"} \cup Mutations

IsCall(c) ==
  /\ c = [n |-> c.n, m |-> c.m, arg |-> c.arg, at |-> c.at, res |-> c.res]
  /\ c.m \in Methods /\ c.at \in {"core", "back", "late"}
  /\ c.at = "late" => c.m \in Mutations

IsFetch(f) == f \in [out : BOOLEAN, again : BOOLEAN, overdue : BOOLEAN]

IsCore(k) == k = [ready |-> k.ready, rooms |-> k.rooms, room |-> k.room, events |-> k.events]

Shape ==
  /\ \A c \in calls : IsCall(c)
  /\ IsFetch(fetch)
  /\ IsCore(core)

-----------------------------------------------------------------------------
(* What the handlers are built from. *)

\* A call just made.
IsNew(x, m, arg) == IsCall(x) /\ x.m = m /\ x.arg = arg /\ x.at = "core" /\ x.res = None

LEMMA SentAdds ==
  ASSUME NEW cs, NEW m \in Methods, NEW arg
  PROVE  \E x : IsNew(x, m, arg) /\ Sent(cs, m, arg) = cs \cup {x}
<1> DEFINE twins == {c \in cs : c.m = m /\ c.arg = arg /\ m # "shareQr"}
           k == Min(1 .. Cardinality(twins) + 1 \ {c.n : c \in twins})
           x == Call(k, m, arg)
<1>1. Sent(cs, m, arg) = cs \cup {x}
  BY DEF Sent
<1> HIDE DEF k
<1>2. IsNew(x, m, arg)
  BY DEF IsNew, IsCall, Call
<1> QED BY <1>1, <1>2

\* refresh makes a call only when none is out or the one that is out is overdue.
LEMMA RefreshAdds ==
  ASSUME IsFetch(fetch), NEW cs, Refresh(cs)
  PROVE  /\ IsFetch(fetch')
         /\ \/ calls' = cs /\ fetch'.out = fetch.out /\ fetch'.overdue = fetch.overdue
            \/ /\ MayFetch(fetch) /\ fetch'.out /\ ~fetch'.overdue
               /\ \E x : IsNew(x, "snapshot", None) /\ calls' = cs \cup {x}
<1>1. CASE MayFetch(fetch)
  <2>1. calls' = Sent(cs, "snapshot", None) /\ fetch' = [out |-> TRUE, again |-> FALSE, overdue |-> FALSE]
    BY <1>1 DEF Refresh
  <2>2. \E x : IsNew(x, "snapshot", None) /\ Sent(cs, "snapshot", None) = cs \cup {x}
    BY SentAdds DEF Methods
  <2> QED BY <1>1, <2>1, <2>2 DEF IsFetch
<1>2. CASE ~MayFetch(fetch)
  <2>1. calls' = cs /\ fetch' = [fetch EXCEPT !.again = TRUE]
    BY <1>2 DEF Refresh
  <2> QED BY <2>1 DEF IsFetch
<1> QED BY <1>1, <1>2

\* A call that the core has run.
Ran(c, res) == [c EXCEPT !.at = "back", !.res = res]

LEMMA RanCall ==
  ASSUME NEW c, IsCall(c), NEW res
  PROVE  /\ IsCall(Ran(c, res)) /\ Ran(c, res).m = c.m /\ Ran(c, res).arg = c.arg
         /\ Ran(c, res).at = "back" /\ Ran(c, res).res = res
<1>1. Ran(c, res) = [n |-> c.n, m |-> c.m, arg |-> c.arg, at |-> "back", res |-> res]
  <2> DEFINE f(i) == IF i = "at" THEN "back" ELSE IF i = "res" THEN res ELSE c[i]
  <2>1. DOMAIN c = {"n", "m", "arg", "at", "res"}
    BY DEF IsCall
  <2>2. Ran(c, res) = [i \in {"n", "m", "arg", "at", "res"} |-> f(i)]
    BY <2>1 DEF Ran
  <2> QED BY <2>2
<1>2. c.m \in Methods
  BY DEF IsCall
<1> QED BY <1>1, <1>2 DEF IsCall

LEMMA LateCall ==
  ASSUME NEW c, IsCall(c), c.m \in Mutations
  PROVE  /\ IsCall([c EXCEPT !.at = "late"]) /\ [c EXCEPT !.at = "late"].m = c.m
         /\ [c EXCEPT !.at = "late"].at = "late" /\ [c EXCEPT !.at = "late"].res = c.res
BY DEF IsCall

\* A handler that had the calls cs out, and may have made one for a snapshot.
Fetches(cs) ==
  \/ calls' = cs /\ fetch'.out = fetch.out /\ fetch'.overdue = fetch.overdue
  \/ /\ MayFetch(fetch) /\ fetch'.out /\ ~fetch'.overdue
     /\ \E x : IsNew(x, "snapshot", None) /\ calls' = cs \cup {x}

\* A push, whether it brings the state, makes the view fetch it, or is dropped.
LEMMA EmitFetches ==
  ASSUME IsFetch(fetch), NEW cs, Emit(cs)
  PROVE  /\ IsFetch(fetch') /\ Fetches(cs)
         /\ pending' = pending \/ pending' = State(core')
         /\ UNCHANGED <<shown, keys, due, qr, qrOf>>
<1>1. /\ \/ PushState(State(core')) /\ calls' = cs /\ UNCHANGED fetch
         \/ Refresh(cs) /\ UNCHANGED pending
         \/ calls' = cs /\ UNCHANGED <<pending, fetch>>
      /\ UNCHANGED <<shown, keys, due, qr, qrOf>>
  BY DEF Emit, qrVars
<1>2. PushState(State(core')) => pending' = pending \/ pending' = State(core')
  BY DEF PushState
<1> QED BY <1>1, <1>2, RefreshAdds DEF Fetches

-----------------------------------------------------------------------------
(* One of a kind. *)

\* Each mutation that is out has its key and no twin; and while the clock has not
\* jumped, the fetch that is out is the only one and is known of.
OneCall(cs, f, ks, sl) ==
  /\ \A c \in cs : c.m \in Mutations /\ c.at # "late" => <<c.m, c.arg>> \in ks
  /\ \A c, d \in cs : c.m \in Mutations /\ c.at # "late" /\ d.at # "late"
                      /\ d.m = c.m /\ d.arg = c.arg => c = d
  /\ ~sl => \A c, d \in cs : c.m = "snapshot" /\ d.m = "snapshot" => c = d
  /\ ~sl => \A c \in cs : c.m = "snapshot" => f.out /\ ~f.overdue

AreCalls(cs) == \A c \in cs : IsCall(c)

OneInv == Shape /\ OneCall(calls, fetch, keys, slept)

\* A fetch is made only where there is none, or the one that is out is overdue.
LEMMA FetchesOne ==
  ASSUME NEW cs, AreCalls(cs), NEW ks, NEW sl \in BOOLEAN, OneCall(cs, fetch, ks, sl), Fetches(cs)
  PROVE  AreCalls(calls') /\ OneCall(calls', fetch', ks, sl)
<1>1. CASE calls' = cs /\ fetch'.out = fetch.out /\ fetch'.overdue = fetch.overdue
  BY <1>1 DEF OneCall
<1>2. CASE /\ MayFetch(fetch) /\ fetch'.out /\ ~fetch'.overdue
           /\ \E x : IsNew(x, "snapshot", None) /\ calls' = cs \cup {x}
  <2>1. PICK x : IsCall(x) /\ x.m = "snapshot" /\ calls' = cs \cup {x}
    BY <1>2 DEF IsNew
  <2>2. ~sl => \A c \in cs : c.m # "snapshot"
    BY <1>2 DEF OneCall, MayFetch
  <2>3. x.m \notin Mutations
    BY <2>1 DEF Mutations
  <2> QED BY <1>2, <2>1, <2>2, <2>3 DEF OneCall, AreCalls
<1> QED BY <1>1, <1>2 DEF Fetches

\* A call leaves.
LEMMA LessOne ==
  ASSUME NEW cs, AreCalls(cs), NEW f, NEW ks, NEW sl \in BOOLEAN, OneCall(cs, f, ks, sl), NEW c
  PROVE  AreCalls(cs \ {c}) /\ OneCall(cs \ {c}, f, ks, sl)
BY DEF AreCalls, OneCall

\* A call is run.
LEMMA RanOne ==
  ASSUME NEW cs, AreCalls(cs), NEW f, NEW ks, NEW sl \in BOOLEAN, OneCall(cs, f, ks, sl),
         NEW c \in cs, c.at # "late", NEW res
  PROVE  AreCalls((cs \ {c}) \cup {Ran(c, res)}) /\ OneCall((cs \ {c}) \cup {Ran(c, res)}, f, ks, sl)
<1>1. c.at # "late"
  OBVIOUS
<1>2. /\ IsCall(Ran(c, res)) /\ Ran(c, res).m = c.m /\ Ran(c, res).arg = c.arg
      /\ Ran(c, res).at = "back"
  BY RanCall DEF AreCalls
<1> DEFINE x == Ran(c, res)
<1> HIDE DEF x
<1>3. ASSUME c.at # "late"
      PROVE  AreCalls((cs \ {c}) \cup {x}) /\ OneCall((cs \ {c}) \cup {x}, f, ks, sl)
  <2>1. IsCall(x) /\ x.m = c.m /\ x.arg = c.arg /\ x.at = "back"
    BY <1>2 DEF x
  <2>2. \A d \in cs \ {c} : c.m \in Mutations /\ d.at # "late" => ~(d.m = c.m /\ d.arg = c.arg)
    BY <1>3 DEF OneCall
  <2>3. ~sl => \A d \in cs \ {c} : c.m = "snapshot" => d.m # "snapshot"
    BY DEF OneCall
  <2>4. AreCalls((cs \ {c}) \cup {x})
    BY <2>1 DEF AreCalls
  <2>5. \A d \in (cs \ {c}) \cup {x} : d.m \in Mutations /\ d.at # "late" => <<d.m, d.arg>> \in ks
    BY <1>3, <2>1 DEF OneCall
  <2>6. \A d, e \in (cs \ {c}) \cup {x} : d.m \in Mutations /\ d.at # "late" /\ e.at # "late"
                      /\ e.m = d.m /\ e.arg = d.arg => d = e
    BY <2>1, <2>2 DEF OneCall
  <2>7. ~sl => \A d, e \in (cs \ {c}) \cup {x} : d.m = "snapshot" /\ e.m = "snapshot" => d = e
    BY <2>1, <2>3 DEF OneCall
  <2>8. ~sl => \A d \in (cs \ {c}) \cup {x} : d.m = "snapshot" => f.out /\ ~f.overdue
    BY <2>1 DEF OneCall
  <2> QED BY <2>4, <2>5, <2>6, <2>7, <2>8 DEF OneCall
<1> QED BY <1>1, <1>3 DEF x

\* A mutation is answered: its key goes, with the only call that had it.
LEMMA BackOne ==
  ASSUME NEW cs, AreCalls(cs), NEW f, NEW ks, NEW sl \in BOOLEAN, OneCall(cs, f, ks, sl),
         NEW c \in cs, c.at # "late", c.m \in Mutations,
         NEW rest, rest = cs \ {c} \/ rest = (cs \ {c}) \cup {[c EXCEPT !.at = "late"]}
  PROVE  AreCalls(rest) /\ OneCall(rest, f, ks \ {<<c.m, c.arg>>}, sl)
<1> DEFINE x == [c EXCEPT !.at = "late"]
<1>1. IsCall(x) /\ x.m = c.m /\ x.at = "late"
  BY LateCall DEF AreCalls
<1> HIDE DEF x
<1>2. rest = cs \ {c} \/ rest = (cs \ {c}) \cup {x}
  BY DEF x
<1>3. AreCalls(rest)
  BY <1>1, <1>2 DEF AreCalls
<1>4. \A d \in rest : d.at # "late" => d \in cs /\ d # c
  BY <1>1, <1>2
<1>5. \A d \in cs : d.at # "late" /\ d # c => ~(d.m = c.m /\ d.arg = c.arg)
  BY DEF OneCall
<1>6. \A d \in rest : d.m \in Mutations /\ d.at # "late" => <<d.m, d.arg>> \in ks \ {<<c.m, c.arg>>}
  BY <1>4, <1>5 DEF OneCall
<1>7. c.m # "snapshot" /\ x.m # "snapshot"
  BY <1>1 DEF Mutations
<1>8. \A d \in rest : d.m = "snapshot" => d \in cs
  BY <1>2, <1>7
<1> QED BY <1>3, <1>4, <1>6, <1>8 DEF OneCall

\* The callback of a call.
LEMMA CalledBackOne ==
  ASSUME OneInv, slept \in BOOLEAN, NEW c \in calls, c.at # "late", NEW res,
         NEW rest, \/ rest = calls \ {c}
                   \/ c.m \in Mutations /\ rest = (calls \ {c}) \cup {[c EXCEPT !.at = "late"]},
         CalledBack(c, rest, res)
  PROVE  AreCalls(calls') /\ IsFetch(fetch') /\ OneCall(calls', fetch', keys', slept)
<1>1. /\ AreCalls(calls) /\ IsFetch(fetch) /\ OneCall(calls, fetch, keys, slept)
      /\ c.m \in {"snapshot", "shareQr"} \cup Mutations
  BY DEF OneInv, Shape, AreCalls, IsCall, Methods
<1>2. AreCalls(calls \ {c}) /\ OneCall(calls \ {c}, fetch, keys, slept)
  BY <1>1 DEF AreCalls, OneCall
<1>3. CASE c.m = "snapshot"
  <2>1. /\ calls' = calls \ {c} /\ fetch' = [fetch EXCEPT !.out = FALSE, !.again = FALSE] /\ keys' = keys
    BY <1>3 DEF CalledBack, SnapshotBack, Mutations
  <2>2. IsFetch(fetch')
    BY <1>1, <2>1 DEF IsFetch
  <2>3. ~slept => \A d \in calls \ {c} : d.m # "snapshot"
    BY <1>1, <1>3 DEF OneCall
  <2> QED BY <1>2, <2>1, <2>2, <2>3 DEF OneCall
<1>4. CASE c.m = "shareQr"
  <2>1. rest = calls \ {c}
    BY <1>4 DEF Mutations
  <2>2. calls' = calls \ {c} /\ fetch' = fetch /\ keys' = keys
    BY <1>4, <2>1 DEF CalledBack, QrBack, Mutations
  <2> QED BY <1>1, <1>2, <2>2
<1>5. CASE c.m \in Mutations
  <2>1. keys' = keys \ {<<c.m, c.arg>>} /\ Refresh(rest)
    BY <1>5 DEF CalledBack, MutateBack, Mutations
  <2>2. AreCalls(rest) /\ OneCall(rest, fetch, keys', slept)
    BY <1>1, <1>5, <2>1, BackOne
  <2>3. Fetches(rest) /\ IsFetch(fetch')
    BY <1>1, <2>1, RefreshAdds DEF Fetches
  <2> QED BY <2>2, <2>3, FetchesOne
<1> QED BY <1>1, <1>3, <1>4, <1>5

\* Switching and deleting rooms.
LEMMA MutatedCore ==
  ASSUME NEW k, IsCore(k), NEW m, NEW id
  PROVE  /\ IsCore(Mutated(k, m, id)) /\ Mutated(k, m, id).rooms \subseteq k.rooms
         /\ Mutated(k, m, id).ready = k.ready
<1>1. CASE m = "switchSession"
  <2>1. Mutated(k, m, id) = [ready |-> k.ready, rooms |-> k.rooms, room |-> id, events |-> k.events]
    BY <1>1 DEF IsCore, Mutated
  <2> QED BY <2>1 DEF IsCore
<1>2. CASE m # "switchSession"
  <2> DEFINE left == k.rooms \ {id}
             to == IF left = {} \/ k.room = id THEN First(left) ELSE k.room
             f(i) == IF i = "rooms" THEN left ELSE IF i = "room" THEN to ELSE k[i]
  <2>1. DOMAIN k = {"ready", "rooms", "room", "events"}
    BY DEF IsCore
  <2>2. Mutated(k, m, id) = [i \in {"ready", "rooms", "room", "events"} |-> f(i)]
    BY <1>2, <2>1 DEF Mutated
  <2>3. Mutated(k, m, id) = [ready |-> k.ready, rooms |-> left, room |-> to, events |-> k.events]
    BY <2>2
  <2> HIDE DEF to
  <2> QED BY <2>3 DEF IsCore
<1> QED BY <1>1, <1>2

\* The core runs a call.
LEMMA CoreRunsOne ==
  ASSUME OneInv, slept \in BOOLEAN, NEW c \in calls, CoreRuns(c)
  PROVE  OneInv'
<1> DEFINE refused == c.m \in Mutations /\ (~core.ready \/ c.arg \notin core.rooms)
           res == IF refused THEN None
                  ELSE IF c.m = "shareQr" THEN ShareQr(core) ELSE State(core')
           rest == (calls \ {c}) \cup IF c.at = "late" THEN {} ELSE {[c EXCEPT !.at = "back", !.res = res]}
<1>1. /\ AreCalls(calls) /\ IsFetch(fetch) /\ OneCall(calls, fetch, keys, slept)
      /\ IsCore(core)
  BY DEF OneInv, Shape, AreCalls
<1>2. /\ core' = IF c.m \in Mutations /\ ~refused THEN Mutated(core, c.m, c.arg) ELSE core
      /\ (calls' = rest /\ UNCHANGED viewVars) \/ Emit(rest)
      /\ slept' = slept
  BY DEF CoreRuns
<1>3. IsCore(core')
  <2>1. core' = core \/ core' = Mutated(core, c.m, c.arg)
    BY <1>2
  <2> QED BY <1>1, <2>1, MutatedCore
<1> HIDE DEF res
<1>4. AreCalls(rest) /\ OneCall(rest, fetch, keys, slept)
  <2>1. CASE c.at = "late"
    <3>1. rest = calls \ {c}
      BY <2>1
    <3> HIDE DEF rest
    <3> QED BY <1>1, <3>1, LessOne
  <2>2. CASE c.at # "late"
    <3>1. rest = (calls \ {c}) \cup {Ran(c, res)}
      BY <2>2 DEF Ran
    <3> HIDE DEF rest
    <3> QED BY <1>1, <2>2, <3>1, RanOne
  <2> QED BY <2>1, <2>2
<1> HIDE DEF rest, refused
<1>5. CASE calls' = rest /\ UNCHANGED viewVars
  BY <1>1, <1>2, <1>3, <1>4, <1>5 DEF viewVars, OneInv, Shape, AreCalls
<1>6. CASE Emit(rest)
  <2>1. IsFetch(fetch') /\ Fetches(rest) /\ keys' = keys
    BY <1>1, <1>6, EmitFetches
  <2>2. AreCalls(calls') /\ OneCall(calls', fetch', keys, slept)
    BY <1>4, <2>1, FetchesOne
  <2> QED BY <1>2, <1>3, <2>1, <2>2 DEF OneInv, Shape, AreCalls
<1> QED BY <1>2, <1>5, <1>6

\* A click on a button whose call is not out.
LEMMA ClickOne ==
  ASSUME OneInv, slept \in BOOLEAN, NEW m \in Mutations, NEW id, Click(m, id)
  PROVE  OneInv'
<1>1. AreCalls(calls) /\ IsFetch(fetch) /\ OneCall(calls, fetch, keys, slept) /\ IsCore(core)
  BY DEF OneInv, Shape, AreCalls
<1>2. /\ <<m, id>> \notin keys /\ keys' = keys \cup {<<m, id>>}
      /\ calls' = Sent(calls, m, id)
      /\ core' = core /\ fetch' = fetch /\ slept' = slept
  BY DEF Click, MayMutate, history
<1>3. PICK x : IsNew(x, m, id) /\ calls' = calls \cup {x}
  BY <1>2, SentAdds DEF Methods
<1>4. IsCall(x) /\ x.m = m /\ x.arg = id
  BY <1>3 DEF IsNew
<1>5. m # "snapshot"
  BY DEF Mutations
<1>6. \A d \in calls : d.m \in Mutations /\ d.at # "late" => ~(d.m = m /\ d.arg = id)
  BY <1>1, <1>2 DEF OneCall
<1>7. AreCalls(calls')
  BY <1>1, <1>3, <1>4 DEF AreCalls
<1>8. \A d \in calls' : d.m \in Mutations /\ d.at # "late" => <<d.m, d.arg>> \in keys'
  BY <1>1, <1>2, <1>3, <1>4 DEF OneCall
<1>9. \A d, e \in calls' : d.m \in Mutations /\ d.at # "late" /\ e.at # "late"
                           /\ e.m = d.m /\ e.arg = d.arg => d = e
  BY <1>1, <1>3, <1>4, <1>6 DEF OneCall
<1>10. \A d \in calls' : d.m = "snapshot" => d \in calls
  BY <1>3, <1>4, <1>5
<1>11. OneCall(calls', fetch', keys', slept')
  BY <1>1, <1>2, <1>8, <1>9, <1>10 DEF OneCall
<1> QED BY <1>1, <1>2, <1>7, <1>11 DEF OneInv, Shape, AreCalls

\* What the core pushes by itself.
LEMMA EmitOne ==
  ASSUME OneInv, slept \in BOOLEAN, Emit(calls), IsCore(core'), slept' = slept
  PROVE  OneInv'
<1>1. AreCalls(calls) /\ IsFetch(fetch) /\ OneCall(calls, fetch, keys, slept)
  BY DEF OneInv, Shape, AreCalls
<1>2. IsFetch(fetch') /\ Fetches(calls) /\ keys' = keys
  BY <1>1, EmitFetches
<1> QED BY <1>1, <1>2, FetchesOne DEF OneInv, Shape, AreCalls

\* The timer, and the follow-up of a fetch.
LEMMA RefreshOne ==
  ASSUME OneInv, slept \in BOOLEAN, Refresh(calls), UNCHANGED <<core, keys, slept>>
  PROVE  OneInv'
<1>1. AreCalls(calls) /\ IsFetch(fetch) /\ OneCall(calls, fetch, keys, slept) /\ IsCore(core)
  BY DEF OneInv, Shape, AreCalls
<1>2. IsFetch(fetch') /\ Fetches(calls)
  BY <1>1, RefreshAdds DEF Fetches
<1> QED BY <1>1, <1>2, FetchesOne DEF OneInv, Shape, AreCalls

\* A fetch is overdue: none is out, or the clock has jumped.
LEMMA OverdueOne ==
  ASSUME OneInv, slept \in BOOLEAN, fetch' = [fetch EXCEPT !.overdue = TRUE],
         slept' \in BOOLEAN, slept => slept', UNCHANGED <<core, calls, keys>>,
         slept' \/ ~\E c \in calls : c.m = "snapshot"
  PROVE  OneInv'
<1>1. IsFetch(fetch')
  BY DEF OneInv, Shape, IsFetch
<1> QED BY <1>1 DEF OneInv, Shape, OneCall

\* The code is asked for.
LEMMA BuildOne ==
  ASSUME OneInv, slept \in BOOLEAN, BuildQr
  PROVE  OneInv'
<1>1. AreCalls(calls) /\ IsFetch(fetch) /\ OneCall(calls, fetch, keys, slept) /\ IsCore(core)
  BY DEF OneInv, Shape, AreCalls
<1>2. UNCHANGED <<core, fetch, keys, slept>> /\ (calls' = calls \/ calls' = Sent(calls, "shareQr", shown.room))
  BY DEF BuildQr, history
<1>3. CASE calls' = calls
  BY <1>1, <1>2, <1>3 DEF OneInv, Shape, AreCalls
<1>4. CASE calls' = Sent(calls, "shareQr", shown.room)
  <2>1. PICK x : IsNew(x, "shareQr", shown.room) /\ calls' = calls \cup {x}
    BY <1>4, SentAdds DEF Methods
  <2>2. IsCall(x) /\ x.m = "shareQr" /\ x.m \notin Mutations
    BY <2>1 DEF IsNew, Mutations
  <2>3. AreCalls(calls') /\ OneCall(calls', fetch, keys, slept)
    BY <1>1, <2>1, <2>2 DEF AreCalls, OneCall
  <2> QED BY <1>1, <1>2, <2>3 DEF OneInv, Shape, AreCalls
<1> QED BY <1>2, <1>3, <1>4

LEMMA OneInit == Init => OneInv /\ slept = FALSE
<1> SUFFICES ASSUME Init PROVE OneInv /\ slept = FALSE
  OBVIOUS
<1>1. PICK rs \in Lists : core = [Starting EXCEPT !.rooms = rs, !.room = First(rs)]
  BY DEF Init
<1>2. IsCore(core)
  <2> DEFINE to == First(rs)
  <2> HIDE DEF to
  <2>1. core = [ready |-> FALSE, rooms |-> rs, room |-> to, events |-> 0]
    BY <1>1 DEF Starting, to
  <2> QED BY <2>1 DEF IsCore
<1>3. /\ calls = {[n |-> 1, m |-> "snapshot", arg |-> None, at |-> "core", res |-> None]}
      /\ fetch = [out |-> TRUE, again |-> FALSE, overdue |-> FALSE] /\ keys = {} /\ slept = FALSE
  BY DEF Init, Call
<1> QED BY <1>2, <1>3 DEF OneInv, Shape, OneCall, IsCall, IsFetch, Methods, Mutations

LEMMA OneNext ==
  ASSUME ViewAssumption, OneInv, slept \in BOOLEAN, [Next]_vars
  PROVE  OneInv' /\ slept' \in BOOLEAN
<1>1. CASE CoreLoads
  <2>1. IsCore(core') /\ Emit(calls) /\ slept' = slept
    BY <1>1 DEF CoreLoads, history, OneInv, Shape, IsCore
  <2> QED BY <2>1, EmitOne
<1>2. CASE CoreReceives
  <2>1. IsCore(core') /\ Emit(calls) /\ slept' = slept
    BY <1>2 DEF CoreReceives, history, OneInv, Shape, IsCore
  <2> QED BY <2>1, EmitOne
<1>3. CASE CoreRestarts
  <2>1. IsCore(core') /\ UNCHANGED <<calls, fetch, keys, slept>>
    BY <1>3 DEF CoreRestarts, history, viewVars, OneInv, Shape, IsCore
  <2> QED BY <2>1 DEF OneInv, Shape
<1>4. ASSUME NEW c \in calls, CoreRuns(c) PROVE OneInv' /\ slept' \in BOOLEAN
  BY <1>4, CoreRunsOne DEF CoreRuns
<1>5. ASSUME NEW c \in calls, Answered(c) PROVE OneInv' /\ slept' \in BOOLEAN
  <2>1. c.at # "late" /\ CalledBack(c, calls \ {c}, c.res) /\ UNCHANGED <<core, slept>>
    BY <1>5 DEF Answered, history
  <2> QED BY <2>1, CalledBackOne DEF OneInv, Shape, AreCalls
<1>6. ASSUME NEW c \in calls, TimesOut(c) PROVE OneInv' /\ slept' \in BOOLEAN
  <2>1. /\ c.at # "late" /\ UNCHANGED <<core, slept>>
        /\ \/ CalledBack(c, calls \ {c}, None)
           \/ c.m \in Mutations /\ CalledBack(c, (calls \ {c}) \cup {[c EXCEPT !.at = "late"]}, None)
    BY <1>6 DEF TimesOut
  <2> QED BY <2>1, CalledBackOne DEF OneInv, Shape, AreCalls
<1>7. ASSUME NEW c \in calls, GoesLost(c) PROVE OneInv' /\ slept' \in BOOLEAN
  <2>1. calls' = calls \ {c} /\ UNCHANGED <<core, fetch, keys, slept>>
    BY <1>7 DEF GoesLost, viewVars
  <2> QED BY <2>1 DEF OneInv, Shape, OneCall
<1>8. ASSUME NEW b \in Buttons, Click(b[1], b[2]) PROVE OneInv' /\ slept' \in BOOLEAN
  <2>1. b[1] \in Mutations /\ slept' = slept
    BY <1>8 DEF ViewAssumption, Click, history
  <2> QED BY <1>8, <2>1, ClickOne
<1>9. CASE Poll
  BY <1>9, RefreshOne DEF Poll, history
<1>10. CASE Sleeps
  <2>1. slept' = TRUE /\ fetch' = [fetch EXCEPT !.overdue = TRUE] /\ UNCHANGED <<core, calls, keys>>
    BY <1>10 DEF Sleeps
  <2> QED BY <2>1, OverdueOne
<1>11. CASE Overdue
  <2>1. \A c \in calls : c.m = "snapshot" => c.at # "late"
    BY DEF OneInv, Shape, IsCall, Mutations
  <2>2. /\ slept' = slept /\ fetch' = [fetch EXCEPT !.overdue = TRUE] /\ UNCHANGED <<core, calls, keys>>
        /\ ~\E c \in calls : c.m = "snapshot" /\ c.at # "late"
    BY <1>11 DEF Overdue, history
  <2> QED BY <2>1, <2>2, OverdueOne
<1>12. CASE ApplyPending
  BY <1>12 DEF ApplyPending, history, OneInv, Shape
<1>13. CASE RefreshAgain
  BY <1>13, RefreshOne DEF RefreshAgain, history
<1>14. CASE BuildQr
  BY <1>14, BuildOne DEF BuildQr, history
<1>15. CASE UNCHANGED vars
  BY <1>15 DEF vars, viewVars, history, OneInv, Shape
<1> QED BY <1>1, <1>2, <1>3, <1>4, <1>5, <1>6, <1>7, <1>8, <1>9, <1>10, <1>11, <1>12, <1>13, <1>14, <1>15 DEF Next

\* No call is out twice, but for fetches after a jump of the clock, whatever
\* comes late, is lost, or is clicked again (refresh, mutate).
THEOREM OneCallOfAKind == Spec => []OneOfAKind
<1> DEFINE Inv == OneInv /\ slept \in BOOLEAN
<1>1. OneInv => OneOfAKind
  <2> SUFFICES ASSUME OneInv, NEW c \in calls, NEW d \in calls,
                      c # d, c.at # "late", d.at # "late", <<c.m, c.arg>> = <<d.m, d.arg>>, c.m # "shareQr"
               PROVE  c.m = "snapshot" /\ slept
    BY DEF OneOfAKind
  <2>1. c.m \in Methods /\ c.m = d.m /\ c.arg = d.arg
    BY DEF OneInv, Shape, IsCall
  <2> QED BY <2>1 DEF OneInv, OneCall, Methods
<1>2. ViewAssumption
  BY ViewAssumption
<1>3. Init => Inv
  BY OneInit
<1>4. Inv /\ [Next]_vars => Inv'
  BY <1>2, OneNext
<1>5. Inv => OneOfAKind
  BY <1>1
<1> HIDE DEF Inv
<1> QED BY <1>3, <1>4, <1>5, PTL DEF Spec

-----------------------------------------------------------------------------
(* Blank. *)

\* What says that no room is left, with the core loaded, is true and stays so.
Told(o, k) == o # None /\ o.ready /\ o.rooms = {} => k.rooms = {}

AreTold(cs, k) == \A c \in cs : c.m # "shareQr" => Told(c.res, k)

BlankInv == Told(pending, core) /\ AreTold(calls, core)

LEMMA StateTold ==
  ASSUME NEW k
  PROVE  Told(State(k), k)
BY DEF Told, State, Starting

\* Rooms are only deleted.
LEMMA StillTold ==
  ASSUME BlankInv, core'.rooms \subseteq core.rooms
  PROVE  Told(pending, core') /\ AreTold(calls, core')
BY DEF BlankInv, Told, AreTold

LEMMA FetchesTold ==
  ASSUME NEW cs, NEW k, AreTold(cs, k), Fetches(cs)
  PROVE  AreTold(calls', k)
<1>1. CASE calls' = cs
  BY <1>1
<1>2. CASE \E x : IsNew(x, "snapshot", None) /\ calls' = cs \cup {x}
  BY <1>2 DEF IsNew, AreTold, Told
<1> QED BY <1>1, <1>2 DEF Fetches

LEMMA EmitTold ==
  ASSUME IsFetch(fetch), NEW cs, AreTold(cs, core'), Told(pending, core'), Emit(cs)
  PROVE  BlankInv'
<1>1. Fetches(cs) /\ (pending' = pending \/ pending' = State(core'))
  BY EmitFetches
<1>2. AreTold(calls', core')
  BY <1>1, FetchesTold
<1>3. Told(pending', core')
  BY <1>1, StateTold
<1> QED BY <1>2, <1>3 DEF BlankInv

LEMMA CoreRunsTold ==
  ASSUME OneInv, BlankInv, NEW c \in calls, CoreRuns(c)
  PROVE  BlankInv'
<1> DEFINE refused == c.m \in Mutations /\ (~core.ready \/ c.arg \notin core.rooms)
           res == IF refused THEN None
                  ELSE IF c.m = "shareQr" THEN ShareQr(core) ELSE State(core')
           rest == (calls \ {c}) \cup IF c.at = "late" THEN {} ELSE {[c EXCEPT !.at = "back", !.res = res]}
<1>1. IsCall(c) /\ IsFetch(fetch) /\ IsCore(core)
  BY DEF OneInv, Shape
<1>2. /\ core' = IF c.m \in Mutations /\ ~refused THEN Mutated(core, c.m, c.arg) ELSE core
      /\ (calls' = rest /\ UNCHANGED viewVars) \/ Emit(rest)
  BY DEF CoreRuns
<1>3. core'.rooms \subseteq core.rooms
  <2>1. core' = core \/ core' = Mutated(core, c.m, c.arg)
    BY <1>2
  <2> QED BY <1>1, <2>1, MutatedCore
<1>4. Told(pending, core') /\ AreTold(calls, core')
  BY <1>3, StillTold
<1>5. c.m # "shareQr" => Told(res, core')
  BY StateTold DEF Told
<1> HIDE DEF res
<1>6. rest \subseteq calls \cup {Ran(c, res)}
  BY DEF Ran
<1>7. Ran(c, res).m = c.m /\ Ran(c, res).res = res
  BY <1>1, RanCall
<1> HIDE DEF rest, refused
<1>8. AreTold(rest, core')
  BY <1>4, <1>5, <1>6, <1>7 DEF AreTold
<1>9. CASE calls' = rest /\ UNCHANGED viewVars
  BY <1>4, <1>8, <1>9 DEF BlankInv, viewVars
<1>10. CASE Emit(rest)
  BY <1>1, <1>4, <1>8, <1>10, EmitTold
<1> QED BY <1>2, <1>9, <1>10

LEMMA CalledBackTold ==
  ASSUME OneInv, BlankInv, NEW c \in calls, NEW res, res = None \/ res = c.res,
         NEW rest, \/ rest = calls \ {c}
                   \/ c.m \in Mutations /\ rest = (calls \ {c}) \cup {[c EXCEPT !.at = "late"]},
         CalledBack(c, rest, res), core' = core
  PROVE  BlankInv'
<1>1. IsFetch(fetch) /\ IsCall(c) /\ c.m \in {"snapshot", "shareQr"} \cup Mutations
  BY DEF OneInv, Shape, IsCall, Methods
<1>2. AreTold(rest, core)
  <2>1. CASE rest = calls \ {c}
    BY <2>1 DEF BlankInv, AreTold
  <2>2. CASE c.m \in Mutations /\ rest = (calls \ {c}) \cup {[c EXCEPT !.at = "late"]}
    <3>1. [c EXCEPT !.at = "late"].m = c.m /\ [c EXCEPT !.at = "late"].res = c.res
      BY <1>1, <2>2, LateCall
    <3> DEFINE x == [c EXCEPT !.at = "late"]
    <3> HIDE DEF x
    <3>2. rest = (calls \ {c}) \cup {x} /\ x.m = c.m /\ x.res = c.res
      BY <2>2, <3>1 DEF x
    <3> QED BY <3>2 DEF BlankInv, AreTold
  <2> QED BY <2>1, <2>2
<1>3. c.m # "shareQr" => Told(res, core)
  BY DEF BlankInv, AreTold, Told
<1>4. PushState(res) /\ c.m # "shareQr" => Told(pending', core)
  BY <1>3 DEF PushState, BlankInv
<1>5. CASE c.m = "snapshot"
  <2>1. calls' = rest /\ PushState(res)
    BY <1>5 DEF CalledBack, SnapshotBack, Mutations
  <2> QED BY <1>2, <1>4, <1>5, <2>1 DEF BlankInv
<1>6. CASE c.m = "shareQr"
  <2>1. calls' = rest /\ pending' = pending
    BY <1>6 DEF CalledBack, QrBack, Mutations
  <2> QED BY <1>2, <2>1 DEF BlankInv
<1>7. CASE c.m \in Mutations
  <2>1. PushState(res) /\ Refresh(rest) /\ c.m # "shareQr"
    BY <1>7 DEF CalledBack, MutateBack, Mutations
  <2>2. Fetches(rest)
    BY <1>1, <2>1, RefreshAdds DEF Fetches
  <2>3. AreTold(calls', core)
    BY <1>2, <2>2, FetchesTold
  <2> QED BY <1>4, <2>1, <2>3 DEF BlankInv
<1> QED BY <1>1, <1>5, <1>6, <1>7

\* A call that has just been made says nothing yet.
LEMMA SentTold ==
  ASSUME BlankInv, NEW m \in Methods, NEW arg, calls' = Sent(calls, m, arg), UNCHANGED <<core, pending>>
  PROVE  BlankInv'
<1>1. PICK x : IsNew(x, m, arg) /\ calls' = calls \cup {x}
  BY SentAdds
<1> QED BY <1>1 DEF BlankInv, AreTold, Told, IsNew

LEMMA RefreshTold ==
  ASSUME OneInv, BlankInv, Refresh(calls), UNCHANGED <<core, pending>>
  PROVE  BlankInv'
<1>1. Fetches(calls)
  BY RefreshAdds DEF OneInv, Shape, Fetches
<1> QED BY <1>1, FetchesTold DEF BlankInv

LEMMA BlankNext ==
  ASSUME ViewAssumption, OneInv, BlankInv, [Next]_vars
  PROVE  BlankInv'
<1>0. IsFetch(fetch) /\ Told(pending, core) /\ AreTold(calls, core)
  BY DEF OneInv, Shape, BlankInv
<1>1. CASE CoreLoads \/ CoreReceives
  <2>1. core'.rooms \subseteq core.rooms /\ Emit(calls)
    BY <1>1 DEF CoreLoads, CoreReceives, OneInv, Shape, IsCore
  <2> QED BY <1>0, <2>1, StillTold, EmitTold
<1>2. CASE CoreRestarts
  <2>1. core'.rooms \subseteq core.rooms /\ UNCHANGED <<calls, pending>>
    BY <1>2 DEF CoreRestarts, viewVars, OneInv, Shape, IsCore
  <2> QED BY <2>1, StillTold DEF BlankInv
<1>3. ASSUME NEW c \in calls, CoreRuns(c) PROVE BlankInv'
  BY <1>3, CoreRunsTold
<1>4. ASSUME NEW c \in calls, Answered(c) PROVE BlankInv'
  <2>1. CalledBack(c, calls \ {c}, c.res) /\ core' = core
    BY <1>4 DEF Answered
  <2> QED BY <2>1, CalledBackTold
<1>5. ASSUME NEW c \in calls, TimesOut(c) PROVE BlankInv'
  <2>1. /\ core' = core
        /\ \/ CalledBack(c, calls \ {c}, None)
           \/ c.m \in Mutations /\ CalledBack(c, (calls \ {c}) \cup {[c EXCEPT !.at = "late"]}, None)
    BY <1>5 DEF TimesOut
  <2> QED BY <2>1, CalledBackTold
<1>6. ASSUME NEW c \in calls, GoesLost(c) PROVE BlankInv'
  BY <1>6 DEF GoesLost, viewVars, BlankInv, AreTold
<1>7. ASSUME NEW b \in Buttons, Click(b[1], b[2]) PROVE BlankInv'
  <2>1. b[1] \in Methods /\ calls' = Sent(calls, b[1], b[2]) /\ UNCHANGED <<core, pending>>
    BY <1>7 DEF ViewAssumption, Click, Methods
  <2> QED BY <2>1, SentTold
<1>8. CASE Poll \/ RefreshAgain
  BY <1>8, RefreshTold DEF Poll, RefreshAgain
<1>9. CASE Sleeps \/ Overdue
  BY <1>9 DEF Sleeps, Overdue, BlankInv
<1>10. CASE ApplyPending
  BY <1>0, <1>10 DEF ApplyPending, BlankInv, Told
<1>11. CASE BuildQr
  <2>1. /\ UNCHANGED <<core, pending>>
        /\ calls' = calls \/ calls' = Sent(calls, "shareQr", shown.room)
    BY <1>11 DEF BuildQr
  <2>2. "shareQr" \in Methods
    BY DEF Methods
  <2> QED BY <2>1, <2>2, SentTold DEF BlankInv
<1>12. CASE UNCHANGED vars
  BY <1>12 DEF vars, viewVars, BlankInv
<1> QED BY <1>1, <1>2, <1>3, <1>4, <1>5, <1>6, <1>7, <1>8, <1>9, <1>10, <1>11, <1>12 DEF Next

\* What is shown changes on the tick alone.
LEMMA ShownChanges ==
  ASSUME ViewAssumption, OneInv, [Next]_vars
  PROVE  shown' = shown \/ ApplyPending
<1>1. ASSUME NEW cs, Emit(cs) PROVE shown' = shown
  BY <1>1 DEF Emit
<1>2. CASE CoreLoads \/ CoreReceives
  BY <1>1, <1>2 DEF CoreLoads, CoreReceives
<1>3. ASSUME NEW c \in calls, CoreRuns(c) PROVE shown' = shown
  <2>1. UNCHANGED viewVars \/ \E cs : Emit(cs)
    BY <1>3 DEF CoreRuns
  <2> QED BY <1>1, <2>1 DEF viewVars
<1>4. ASSUME NEW c \in calls, Answered(c) PROVE shown' = shown
  BY <1>4 DEF Answered, CalledBack
<1>5. ASSUME NEW c \in calls, TimesOut(c) PROVE shown' = shown
  BY <1>5 DEF TimesOut, CalledBack
<1>6. ASSUME NEW c \in calls, GoesLost(c) PROVE shown' = shown
  BY <1>6 DEF GoesLost, viewVars
<1>7. ASSUME NEW b \in Buttons, Click(b[1], b[2]) PROVE shown' = shown
  BY <1>7 DEF Click
<1>8. CASE CoreRestarts \/ Poll \/ Sleeps \/ Overdue \/ RefreshAgain \/ BuildQr
  BY <1>8 DEF CoreRestarts, Poll, Sleeps, Overdue, RefreshAgain, BuildQr, viewVars
<1>9. CASE UNCHANGED vars
  BY <1>9 DEF vars, viewVars
<1> QED BY <1>2, <1>3, <1>4, <1>5, <1>6, <1>7, <1>8, <1>9 DEF Next

\* A core that is loading never blanks a view that has rooms, whatever it pushed
\* before, and in whatever order its answers come (apply).
THEOREM BlankedByTheCore == Spec => NoBlank
<1> DEFINE Inv == OneInv /\ slept \in BOOLEAN /\ BlankInv
<1>1. ViewAssumption
  BY ViewAssumption
<1>2. Init => Inv
  <2> SUFFICES ASSUME Init PROVE Inv
    OBVIOUS
  <2>1. pending = None /\ \A c \in calls : c.res = None
    BY DEF Init, Call
  <2>2. BlankInv
    BY <2>1 DEF BlankInv, Told, AreTold
  <2> QED BY <2>2, OneInit
<1>3. Inv /\ [Next]_vars => Inv'
  BY <1>1, OneNext, BlankNext
<1>4. Inv /\ [Next]_vars => [shown.rooms # {} /\ shown'.rooms = {} => core.rooms = {}]_vars
  <2> SUFFICES ASSUME Inv, [Next]_vars, shown.rooms # {}, shown'.rooms = {}
               PROVE  core.rooms = {}
    OBVIOUS
  <2>1. ApplyPending
    BY <1>1, ShownChanges
  <2>2. pending # None /\ Applies(pending) /\ pending.rooms = {}
    BY <2>1 DEF ApplyPending
  <2>3. pending.ready \/ ~pending.ready
    OBVIOUS
  <2> QED BY <2>2, <2>3 DEF Applies, BlankInv, Told
<1> HIDE DEF Inv
<1> QED BY <1>2, <1>3, <1>4, PTL DEF Spec, NoBlank

-----------------------------------------------------------------------------
(* The code that is drawn. *)

\* Unless one went wrong, what was asked for a room and has come is that room's,
\* and where the code drawn is not of the room shown, that is being seen to.
QrInv ==
  ~odd =>
    /\ qr = qrOf
    /\ \A c \in calls : c.m = "shareQr" => c.arg # None /\ (c.at = "back" => c.res = c.arg)
    /\ \/ "buildQr" \in due \/ qr = shown.room
       \/ \E c \in calls : c.m = "shareQr" /\ c.arg = shown.room

\* The same codes are being built.
SameBuilds(cs, ds) == \A c : c.m = "shareQr" => (c \in cs <=> c \in ds)

LEMMA QrKept ==
  ASSUME QrInv, SameBuilds(calls, calls'), odd => odd', UNCHANGED <<shown, qr, qrOf>>,
         "buildQr" \in due => "buildQr" \in due'
  PROVE  QrInv'
BY DEF QrInv, SameBuilds

LEMMA SentSame ==
  ASSUME NEW m \in Methods, m # "shareQr", NEW arg, NEW cs
  PROVE  SameBuilds(cs, Sent(cs, m, arg))
<1>1. PICK x : IsNew(x, m, arg) /\ Sent(cs, m, arg) = cs \cup {x}
  BY SentAdds
<1> QED BY <1>1 DEF SameBuilds, IsNew

LEMMA FetchesSame ==
  ASSUME NEW cs, Fetches(cs)
  PROVE  SameBuilds(cs, calls')
<1>1. CASE calls' = cs
  BY <1>1 DEF SameBuilds
<1>2. CASE \E x : IsNew(x, "snapshot", None) /\ calls' = cs \cup {x}
  BY <1>2 DEF IsNew, SameBuilds
<1> QED BY <1>1, <1>2 DEF Fetches

\* A fetch that the timer or an earlier one has made.
LEMMA RefreshQr ==
  ASSUME OneInv, QrInv, Refresh(calls), odd' = odd, UNCHANGED <<shown, qr, qrOf>>,
         "buildQr" \in due => "buildQr" \in due'
  PROVE  QrInv'
<1>1. Fetches(calls)
  BY RefreshAdds DEF OneInv, Shape, Fetches
<1>2. SameBuilds(calls, calls')
  BY <1>1, FetchesSame
<1> QED BY <1>2, QrKept

\* A code is as good as the core's session when it was asked.
LEMMA ShareQrRuns ==
  ASSUME OneInv, QrInv, NEW c \in calls, CoreRuns(c), c.m = "shareQr"
  PROVE  QrInv'
<1>1. IsCall(c) /\ c.at # "late"
  BY DEF OneInv, Shape, IsCall, Mutations
<1>2. c.m \notin Mutations
  BY DEF Mutations
<1> DEFINE x == Ran(c, ShareQr(core))
<1>3. /\ calls' = (calls \ {c}) \cup {x} /\ UNCHANGED viewVars
      /\ odd' = (odd \/ ShareQr(core) # c.arg)
  BY <1>1, <1>2 DEF CoreRuns, Ran
<1>4. x.m = c.m /\ x.arg = c.arg /\ x.res = ShareQr(core)
  BY <1>1, RanCall
<1> HIDE DEF x
<1>5. SUFFICES ASSUME ~odd' PROVE QrInv'
  BY DEF QrInv
<1>6. ~odd /\ x.res = x.arg
  BY <1>3, <1>4, <1>5
<1>7. UNCHANGED <<qr, qrOf, due, shown>>
  BY <1>3 DEF viewVars, qrVars
<1>8. \A d \in calls' : d.m = "shareQr" => d.arg # None /\ (d.at = "back" => d.res = d.arg)
  BY <1>3, <1>4, <1>6 DEF QrInv
<1>9. \A r : (\E d \in calls : d.m = "shareQr" /\ d.arg = r) => \E d \in calls' : d.m = "shareQr" /\ d.arg = r
  BY <1>3, <1>4
<1> QED BY <1>6, <1>7, <1>8, <1>9 DEF QrInv

LEMMA CoreRunsQr ==
  ASSUME OneInv, QrInv, NEW c \in calls, CoreRuns(c)
  PROVE  QrInv'
<1>1. SUFFICES ASSUME c.m # "shareQr" PROVE QrInv'
  BY ShareQrRuns
<1> DEFINE refused == c.m \in Mutations /\ (~core.ready \/ c.arg \notin core.rooms)
           res == IF refused THEN None
                  ELSE IF c.m = "shareQr" THEN ShareQr(core) ELSE State(core')
           rest == (calls \ {c}) \cup IF c.at = "late" THEN {} ELSE {[c EXCEPT !.at = "back", !.res = res]}
<1>2. IsCall(c) /\ IsFetch(fetch)
  BY DEF OneInv, Shape
<1>3. /\ (calls' = rest /\ UNCHANGED viewVars) \/ Emit(rest)
      /\ odd' = (odd \/ (c.m = "shareQr" /\ ShareQr(core) # c.arg))
  BY DEF CoreRuns
<1> HIDE DEF res
<1>4. rest = calls \ {c} \/ rest = (calls \ {c}) \cup {Ran(c, res)}
  BY DEF Ran
<1>5. Ran(c, res).m # "shareQr"
  BY <1>1, <1>2, RanCall
<1> HIDE DEF rest, refused
<1>6. SameBuilds(calls, rest)
  BY <1>1, <1>4, <1>5 DEF SameBuilds
<1>7. /\ UNCHANGED <<shown, due, qr, qrOf>>
      /\ SameBuilds(rest, calls')
  <2>1. CASE calls' = rest /\ UNCHANGED viewVars
    BY <2>1 DEF viewVars, qrVars, SameBuilds
  <2>2. CASE Emit(rest)
    BY <1>2, <2>2, EmitFetches, FetchesSame
  <2> QED BY <1>3, <2>1, <2>2
<1>8. SameBuilds(calls, calls')
  BY <1>6, <1>7 DEF SameBuilds
<1>9. odd => odd'
  BY <1>1, <1>3
<1> QED BY <1>7, <1>8, <1>9 DEF QrInv, SameBuilds

\* A code that comes is drawn if it is of the room shown.
LEMMA ShareQrBack ==
  ASSUME OneInv, QrInv, NEW c \in calls, c.m = "shareQr", c.at = "back",
         CalledBack(c, calls \ {c}, c.res), odd' = odd
  PROVE  QrInv'
<1>1. /\ calls' = calls \ {c} /\ UNCHANGED <<due, shown>>
      /\ IF c.arg = shown.room THEN qr' = c.res /\ qrOf' = IF c.res = None THEN qrOf ELSE c.arg
                               ELSE UNCHANGED <<qr, qrOf>>
  BY DEF CalledBack, QrBack, QrIsWanted, qrVars, Mutations
<1>2. SUFFICES ASSUME ~odd PROVE QrInv'
  BY DEF QrInv
<1>3. c.arg # None /\ c.res = c.arg
  BY <1>2 DEF QrInv
<1>4. CASE c.arg = shown.room
  BY <1>1, <1>2, <1>3, <1>4 DEF QrInv
<1>5. CASE c.arg # shown.room
  BY <1>1, <1>2, <1>3, <1>5 DEF QrInv
<1> QED BY <1>4, <1>5

LEMMA CalledBackQr ==
  ASSUME OneInv, QrInv, NEW c \in calls, c.m # "shareQr", NEW res,
         NEW rest, \/ rest = calls \ {c}
                   \/ c.m \in Mutations /\ rest = (calls \ {c}) \cup {[c EXCEPT !.at = "late"]},
         CalledBack(c, rest, res), odd => odd'
  PROVE  QrInv'
<1>1. IsFetch(fetch) /\ IsCall(c) /\ c.m \in {"snapshot"} \cup Mutations
  BY DEF OneInv, Shape, IsCall, Methods
<1>2. SameBuilds(calls, rest)
  <2>1. CASE rest = calls \ {c}
    BY <2>1 DEF SameBuilds
  <2>2. CASE c.m \in Mutations /\ rest = (calls \ {c}) \cup {[c EXCEPT !.at = "late"]}
    <3> DEFINE x == [c EXCEPT !.at = "late"]
    <3>1. x.m = c.m
      BY <1>1, <2>2, LateCall
    <3> HIDE DEF x
    <3>2. rest = (calls \ {c}) \cup {x}
      BY <2>2 DEF x
    <3> QED BY <3>1, <3>2 DEF SameBuilds
  <2> QED BY <2>1, <2>2
<1>3. SameBuilds(rest, calls') /\ UNCHANGED <<shown, qr, qrOf>> /\ ("buildQr" \in due => "buildQr" \in due')
  <2>1. CASE c.m = "snapshot"
    <3>1. calls' = rest /\ UNCHANGED <<shown, qr, qrOf>> /\ due' = IF fetch.again THEN due \cup {"refresh"} ELSE due
      BY <2>1 DEF CalledBack, SnapshotBack, qrVars, Mutations
    <3> QED BY <3>1 DEF SameBuilds
  <2>2. CASE c.m \in Mutations
    <3>1. Refresh(rest) /\ UNCHANGED <<shown, qr, qrOf, due>>
      BY <2>2 DEF CalledBack, MutateBack, qrVars, Mutations
    <3>2. Fetches(rest)
      BY <1>1, <3>1, RefreshAdds DEF Fetches
    <3> QED BY <3>1, <3>2, FetchesSame
  <2> QED BY <1>1, <2>1, <2>2
<1>4. SameBuilds(calls, calls')
  BY <1>2, <1>3 DEF SameBuilds
<1> QED BY <1>3, <1>4, QrKept

\* The room shown changes: its code is asked for, unless it is the one drawn.
LEMMA ApplyPendingQr ==
  ASSUME QrInv, ApplyPending
  PROVE  QrInv'
<1>1. /\ due' = IF shown'.room \notin {shown.room, qrOf} THEN due \cup {"buildQr"} ELSE due
      /\ UNCHANGED <<calls, qr, qrOf, odd>>
  BY DEF ApplyPending, qrVars, history
<1> HIDE DEF ApplyPending
<1> QED BY <1>1 DEF QrInv

LEMMA BuildQrQr ==
  ASSUME OneInv, QrInv, BuildQr
  PROVE  QrInv'
<1>1. UNCHANGED <<shown, odd>>
  BY DEF BuildQr, history
<1>2. CASE shown.room = None
  BY <1>1, <1>2 DEF BuildQr, QrInv
<1>3. CASE shown.room # None
  <2>1. calls' = Sent(calls, "shareQr", shown.room) /\ UNCHANGED <<qr, qrOf>>
    BY <1>3 DEF BuildQr, qrVars
  <2>2. PICK x : IsNew(x, "shareQr", shown.room) /\ calls' = calls \cup {x}
    BY <2>1, SentAdds DEF Methods
  <2>3. x.m = "shareQr" /\ x.arg = shown.room /\ x.at = "core"
    BY <2>2 DEF IsNew
  <2> QED BY <1>1, <1>3, <2>1, <2>2, <2>3 DEF QrInv
<1> QED BY <1>2, <1>3

LEMMA QrNext ==
  ASSUME ViewAssumption, OneInv, QrInv, [Next]_vars
  PROVE  QrInv'
<1>1. CASE CoreLoads \/ CoreReceives
  <2>1. Emit(calls) /\ odd' = odd
    BY <1>1 DEF CoreLoads, CoreReceives, history
  <2>2. Fetches(calls) /\ UNCHANGED <<shown, due, qr, qrOf>>
    BY <2>1, EmitFetches DEF OneInv, Shape
  <2> QED BY <2>1, <2>2, FetchesSame, QrKept
<1>2. ASSUME NEW c \in calls, CoreRuns(c) PROVE QrInv'
  BY <1>2, CoreRunsQr
<1>3. ASSUME NEW c \in calls, Answered(c) PROVE QrInv'
  <2>1. c.at = "back" /\ CalledBack(c, calls \ {c}, c.res) /\ odd' = odd
    BY <1>3 DEF Answered, history
  <2> QED BY <2>1, ShareQrBack, CalledBackQr
<1>4. ASSUME NEW c \in calls, TimesOut(c) PROVE QrInv'
  <2>1. /\ odd' = (odd \/ c.m = "shareQr")
        /\ \/ CalledBack(c, calls \ {c}, None)
           \/ c.m \in Mutations /\ CalledBack(c, (calls \ {c}) \cup {[c EXCEPT !.at = "late"]}, None)
    BY <1>4 DEF TimesOut
  <2>2. CASE c.m = "shareQr"
    BY <2>1, <2>2 DEF QrInv
  <2>3. CASE c.m # "shareQr"
    BY <2>1, <2>3, CalledBackQr
  <2> QED BY <2>1, <2>2, <2>3
<1>5. ASSUME NEW c \in calls, GoesLost(c) PROVE QrInv'
  BY <1>5 DEF GoesLost, viewVars, qrVars, QrInv
<1>6. ASSUME NEW b \in Buttons, Click(b[1], b[2]) PROVE QrInv'
  <2>1. /\ b[1] \in Methods /\ b[1] # "shareQr" /\ calls' = Sent(calls, b[1], b[2])
        /\ UNCHANGED <<shown, due, qr, qrOf, odd>>
    BY <1>6 DEF ViewAssumption, Click, Methods, Mutations, qrVars, history
  <2> QED BY <2>1, SentSame, QrKept
<1>7. CASE Poll \/ RefreshAgain
  BY <1>7, RefreshQr DEF Poll, RefreshAgain, qrVars, history
<1>8. CASE CoreRestarts \/ Sleeps \/ Overdue
  BY <1>8 DEF CoreRestarts, Sleeps, Overdue, viewVars, qrVars, history, QrInv
<1>9. CASE ApplyPending
  BY <1>9, ApplyPendingQr
<1>10. CASE BuildQr
  BY <1>10, BuildQrQr
<1>11. CASE UNCHANGED vars
  BY <1>11 DEF vars, viewVars, qrVars, history, QrInv
<1> QED BY <1>1, <1>2, <1>3, <1>4, <1>5, <1>6, <1>7, <1>8, <1>9, <1>10, <1>11 DEF Next

\* At rest the code drawn is that of the room shown, through every switch made
\* while one was being built (buildQr, onSecretChanged).
THEOREM CodeOfTheRoom == Spec => []QrIsOfRoom
<1> DEFINE Inv == OneInv /\ slept \in BOOLEAN /\ QrInv
<1>1. ViewAssumption
  BY ViewAssumption
<1>2. Init => Inv
  <2> SUFFICES ASSUME Init PROVE Inv
    OBVIOUS
  <2>1. qr = None /\ qrOf = None /\ shown.room = None /\ \A c \in calls : c.m # "shareQr"
    BY DEF Init, Call, Starting
  <2>2. QrInv
    BY <2>1 DEF QrInv
  <2> QED BY <2>2, OneInit
<1>3. Inv /\ [Next]_vars => Inv'
  BY <1>1, OneNext, QrNext
<1>4. Inv => QrIsOfRoom
  BY DEF QrInv, QrIsOfRoom
<1> HIDE DEF Inv
<1> QED BY <1>2, <1>3, <1>4, PTL DEF Spec
=============================================================================
