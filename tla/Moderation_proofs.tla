--------------------------- MODULE Moderation_proofs ---------------------------
(***************************************************************************)
(* For every number of devices, tickets, items and events: the six          *)
(* properties of Moderation.                                                *)
(*                                                                          *)
(* A fold is FoldLeft over the whole order of stamps, a recursive function  *)
(* over sets of places; RolesWalk and BoardPlay make it a walk, a function  *)
(* from the places 0 .. Len(order) that obeys RoleStep or BoardStep, and    *)
(* what holds along a walk is shown by induction over a bound               *)
(* (BoundedInduction).  IInv says that the order is Sorted (one             *)
(* session.create, an item's add before all that is said of it) and that a  *)
(* device shows the fold of its log.  Its one hard step: events are stamped *)
(* into the middle of the order, and FoldUnseen shows that one a log does   *)
(* not hold changes nothing of what the log folds to.                       *)
(*                                                                          *)
(* On top of IInv: the boards by the last places that mark an item          *)
(* (Marks), the roles of a growing log by a simulation (Under), and the     *)
(* last word on a role by what the walk says from its place on (Says).      *)
(***************************************************************************)
EXTENDS Moderation, FiniteSetTheorems, SequenceTheorems, WellFoundedInduction, TLAPS

\* A set of numbers has a least element, and a greatest one if it is bounded.
LEMMA Least ==
  ASSUME NEW T \in SUBSET Nat, T # {}
  PROVE  \E x \in T : \A y \in T : x <= y
<1> DEFINE R == OpToRel(<, Nat)
<1>1. IsWellFoundedOn(R, Nat)
  BY NatLessThanWellFounded DEF OpToRel
<1>2. PICK x \in T : \A y \in T : ~(<<y, x>> \in R)
  <2> HIDE DEF R
  <2> QED BY <1>1, WFMin
<1>3. \A y \in T : ~(y < x)
  BY <1>2 DEF OpToRel
<1> QED BY <1>3

LEMMA Greatest ==
  ASSUME NEW n \in Nat, NEW T \in SUBSET (0 .. n), T # {}
  PROVE  \E x \in T : \A y \in T : y <= x
<1> DEFINE D == {n - y : y \in T}
<1>1. D \in SUBSET Nat /\ D # {}
  <2>1. \A y \in T : n - y \in Nat
    OBVIOUS
  <2>2. PICK y \in T : TRUE
    OBVIOUS
  <2>3. n - y \in D
    OBVIOUS
  <2> QED BY <2>1, <2>3
<1>2. PICK d \in D : \A y \in D : d <= y
  <2> HIDE DEF D
  <2> QED BY <1>1, Least
<1>3. PICK x \in T : d = n - x
  OBVIOUS
<1>4. \A y \in T : n - x <= n - y
  BY <1>2, <1>3
<1> QED BY <1>4

\* Induction over the numbers up to a bound.
LEMMA BoundedInduction ==
  ASSUME NEW n \in Nat, NEW T, 0 \in T, \A k \in 1 .. n : k - 1 \in T => k \in T
  PROVE  \A k \in 0 .. n : k \in T
<1> SUFFICES ASSUME (0 .. n) \ T # {} PROVE FALSE
  OBVIOUS
<1>1. PICK x \in (0 .. n) \ T : \A y \in (0 .. n) \ T : x <= y
  <2>1. (0 .. n) \ T \in SUBSET Nat
    OBVIOUS
  <2> QED BY <2>1, Least
<1>2. x \in 1 .. n /\ x - 1 \in 0 .. n
  BY <1>1
<1>3. x - 1 \in T
  BY <1>1, <1>2
<1> QED BY <1>1, <1>2, <1>3

LEMMA MaxIs ==
  ASSUME NEW n \in Nat, NEW T \in SUBSET (0 .. n), T # {}
  PROVE  Max(T) \in T /\ \A y \in T : y <= Max(T)
<1>1. PICK x \in T : \A y \in T : x >= y
  BY Greatest
<1> QED BY <1>1 DEF Max

LEMMA MaxTop ==
  ASSUME NEW m \in Nat, NEW s \in SUBSET (1 .. m), m \in s
  PROVE  Max(s) = m
<1>1. m \in s /\ \A y \in s : m >= y
  OBVIOUS
<1>2. Max(s) \in s /\ \A y \in s : Max(s) >= y
  BY <1>1 DEF Max
<1>3. Max(s) \in 1 .. m
  BY <1>2
<1>4. Max(s) >= m
  BY <1>2
<1> QED BY <1>3, <1>4

LEMMA MinIs ==
  ASSUME NEW T \in SUBSET Nat, T # {}
  PROVE  Min(T) \in T /\ \A y \in T : Min(T) <= y
<1>1. PICK x \in T : \A y \in T : x <= y
  BY Least
<1> QED BY <1>1 DEF Min

-----------------------------------------------------------------------------
\* The fold of the roles, prefix by prefix.
IsWalk(g, L, ids, roomId) ==
  /\ g[0] = NoRoles(Owner(L, ids))
  /\ \A k \in 1 .. Len(L) :
       g[k] = IF L[k].id \in ids THEN RoleStep(roomId, g[k - 1], L[k]) ELSE g[k - 1]

\* The recursive function that a fold over a sequence stands for exists, and has
\* the values of the prefixes.
RoleMap(L, ids, roomId, n, f) ==
  f = [s \in SUBSET (1 .. n) |->
         IF s = {} THEN NoRoles(Owner(L, ids))
         ELSE IF L[Max(s)].id \in ids THEN RoleStep(roomId, f[s \ {Max(s)}], L[Max(s)])
              ELSE f[s \ {Max(s)}]]

LEMMA RoleMapExists ==
  ASSUME NEW L, NEW ids, NEW roomId, NEW n \in Nat
  PROVE  \E f : RoleMap(L, ids, roomId, n, f)
<1> DEFINE T == {m \in 0 .. n : \E f : RoleMap(L, ids, roomId, m, f)}
<1>1. 0 \in T
  <2> DEFINE f == [s \in SUBSET (1 .. 0) |-> NoRoles(Owner(L, ids))]
  <2>1. RoleMap(L, ids, roomId, 0, f)
    <3>1. \A s \in SUBSET (1 .. 0) : s = {}
      OBVIOUS
    <3> QED BY <3>1 DEF RoleMap
  <2> QED BY <2>1
<1>2. ASSUME NEW m \in 1 .. n, m - 1 \in T PROVE m \in T
  <2>1. PICK f : RoleMap(L, ids, roomId, m - 1, f)
    BY <1>2
  <2> DEFINE h == [s \in SUBSET (1 .. m) |->
                     IF m \notin s THEN f[s]
                     ELSE IF L[m].id \in ids THEN RoleStep(roomId, f[s \ {m}], L[m])
                          ELSE f[s \ {m}]]
             R(s) == IF s = {} THEN NoRoles(Owner(L, ids))
                     ELSE IF L[Max(s)].id \in ids
                          THEN RoleStep(roomId, h[s \ {Max(s)}], L[Max(s)])
                          ELSE h[s \ {Max(s)}]
  <2>2. ASSUME NEW s \in SUBSET (1 .. m) PROVE h[s] = R(s)
    <3>1. CASE m \in s
      <4>1. Max(s) = m
        <5> HIDE DEF h, R
        <5> QED BY <3>1, MaxTop
      <4>2. s \ {m} \in SUBSET (1 .. m) /\ m \notin s \ {m}
        OBVIOUS
      <4>3. h[s \ {m}] = f[s \ {m}]
        BY <4>2
      <4> QED BY <4>1, <4>3, <3>1
    <3>2. CASE m \notin s
      <4>1. s \in SUBSET (1 .. m - 1)
        BY <3>2
      <4>2. CASE s = {}
        BY <4>2, <2>1, <4>1 DEF RoleMap
      <4>3. CASE s # {}
        <5>1. s \ {Max(s)} \in SUBSET (1 .. m) /\ m \notin s \ {Max(s)}
          BY <3>2
        <5>2. h[s \ {Max(s)}] = f[s \ {Max(s)}]
          BY <5>1
        <5>3. f[s] = IF L[Max(s)].id \in ids
                     THEN RoleStep(roomId, f[s \ {Max(s)}], L[Max(s)])
                     ELSE f[s \ {Max(s)}]
          BY <2>1, <4>1, <4>3 DEF RoleMap
        <5> QED BY <5>2, <5>3, <3>2, <4>3
      <4> QED BY <4>2, <4>3
    <3> QED BY <3>1, <3>2
  <2>3. h = [s \in SUBSET (1 .. m) |-> R(s)]
    <3>1. h = [s \in SUBSET (1 .. m) |-> h[s]]
      OBVIOUS
    <3> HIDE DEF h, R
    <3> QED BY <3>1, <2>2
  <2>4. RoleMap(L, ids, roomId, m, h)
    BY <2>3 DEF RoleMap
  <2> HIDE DEF h
  <2> QED BY <2>4
<1>3. \A k \in 0 .. n : k \in T
  <2> HIDE DEF T
  <2> QED BY <1>1, <1>2, BoundedInduction
<1> QED BY <1>3

LEMMA RolesWalk ==
  ASSUME NEW L, NEW n \in Nat, DOMAIN L = 1 .. n, Len(L) = n, NEW ids, NEW roomId
  PROVE  \E g : IsWalk(g, L, ids, roomId) /\ Roles(L, ids, roomId) = g[Len(L)]
<1> DEFINE f == CHOOSE f : RoleMap(L, ids, roomId, n, f)
           g == [k \in 0 .. n |-> f[1 .. k]]
<1>1. RoleMap(L, ids, roomId, n, f)
  BY RoleMapExists
<1>2. Roles(L, ids, roomId) = f[1 .. n]
  BY DEF Roles, FoldLeft, MapThenFoldSet, RoleMap
<1>3. IsWalk(g, L, ids, roomId)
  <2> HIDE DEF f
  <2>1. 1 .. 0 = {}
    OBVIOUS
  <2>2. g[0] = NoRoles(Owner(L, ids))
    BY <1>1, <2>1 DEF RoleMap
  <2>3. ASSUME NEW k \in 1 .. n
        PROVE  g[k] = IF L[k].id \in ids THEN RoleStep(roomId, g[k - 1], L[k])
                      ELSE g[k - 1]
    <3>1. 1 .. k \in SUBSET (1 .. n) /\ 1 .. k # {}
      <4>1. k \in Nat /\ 1 <= k /\ k <= n
        OBVIOUS
      <4>2. \A x \in 1 .. k : x \in 1 .. n
        BY <4>1
      <4>3. k \in 1 .. k
        BY <4>1
      <4> QED BY <4>2, <4>3
    <3>2. Max(1 .. k) = k
      <4>1. 1 .. k \in SUBSET (1 .. k) /\ k \in 1 .. k /\ k \in Nat
        OBVIOUS
      <4> HIDE DEF g
      <4> QED BY <4>1, MaxTop
    <3>3. (1 .. k) \ {k} = 1 .. k - 1
      OBVIOUS
    <3>4. f[1 .. k] = IF L[k].id \in ids THEN RoleStep(roomId, f[1 .. k - 1], L[k])
                      ELSE f[1 .. k - 1]
      BY <1>1, <3>1, <3>2, <3>3 DEF RoleMap
    <3> QED BY <3>4
  <2> QED BY <2>2, <2>3 DEF IsWalk
<1> QED BY <1>2, <1>3
-----------------------------------------------------------------------------
\* The same for the board.
Counts(L, ids, r, k) == L[k].id \in ids /\ Admits(L, ids, r, L[k])

IsPlay(h, L, ids, r) ==
  /\ h[0] = EmptyBoard
  /\ \A k \in 1 .. Len(L) :
       h[k] = IF Counts(L, ids, r, k) THEN BoardStep(h[k - 1], L[k]) ELSE h[k - 1]

BoardMap(L, ids, r, n, f) ==
  f = [s \in SUBSET (1 .. n) |->
         IF s = {} THEN EmptyBoard
         ELSE IF Counts(L, ids, r, Max(s)) THEN BoardStep(f[s \ {Max(s)}], L[Max(s)])
              ELSE f[s \ {Max(s)}]]

LEMMA BoardMapExists ==
  ASSUME NEW L, NEW ids, NEW r, NEW n \in Nat
  PROVE  \E f : BoardMap(L, ids, r, n, f)
<1> DEFINE T == {m \in 0 .. n : \E f : BoardMap(L, ids, r, m, f)}
<1>1. 0 \in T
  <2> DEFINE f == [s \in SUBSET (1 .. 0) |-> EmptyBoard]
  <2>1. BoardMap(L, ids, r, 0, f)
    <3>1. \A s \in SUBSET (1 .. 0) : s = {}
      OBVIOUS
    <3> QED BY <3>1 DEF BoardMap
  <2> QED BY <2>1
<1>2. ASSUME NEW m \in 1 .. n, m - 1 \in T PROVE m \in T
  <2>1. PICK f : BoardMap(L, ids, r, m - 1, f)
    BY <1>2
  <2> DEFINE h == [s \in SUBSET (1 .. m) |->
                     IF m \notin s THEN f[s]
                     ELSE IF Counts(L, ids, r, m) THEN BoardStep(f[s \ {m}], L[m])
                          ELSE f[s \ {m}]]
             R(s) == IF s = {} THEN EmptyBoard
                     ELSE IF Counts(L, ids, r, Max(s))
                          THEN BoardStep(h[s \ {Max(s)}], L[Max(s)])
                          ELSE h[s \ {Max(s)}]
  <2>2. ASSUME NEW s \in SUBSET (1 .. m) PROVE h[s] = R(s)
    <3>1. CASE m \in s
      <4>1. Max(s) = m
        <5> HIDE DEF h, R
        <5> QED BY <3>1, MaxTop
      <4>2. s \ {m} \in SUBSET (1 .. m) /\ m \notin s \ {m}
        OBVIOUS
      <4>3. h[s \ {m}] = f[s \ {m}]
        BY <4>2
      <4> QED BY <4>1, <4>3, <3>1
    <3>2. CASE m \notin s
      <4>1. s \in SUBSET (1 .. m - 1)
        BY <3>2
      <4>2. CASE s = {}
        BY <4>2, <2>1, <4>1 DEF BoardMap
      <4>3. CASE s # {}
        <5>1. s \ {Max(s)} \in SUBSET (1 .. m) /\ m \notin s \ {Max(s)}
          BY <3>2
        <5>2. h[s \ {Max(s)}] = f[s \ {Max(s)}]
          BY <5>1
        <5>3. f[s] = IF Counts(L, ids, r, Max(s))
                     THEN BoardStep(f[s \ {Max(s)}], L[Max(s)])
                     ELSE f[s \ {Max(s)}]
          BY <2>1, <4>1, <4>3 DEF BoardMap
        <5> QED BY <5>2, <5>3, <3>2, <4>3
      <4> QED BY <4>2, <4>3
    <3> QED BY <3>1, <3>2
  <2>3. h = [s \in SUBSET (1 .. m) |-> R(s)]
    <3>1. h = [s \in SUBSET (1 .. m) |-> h[s]]
      OBVIOUS
    <3> HIDE DEF h, R
    <3> QED BY <3>1, <2>2
  <2>4. BoardMap(L, ids, r, m, h)
    BY <2>3 DEF BoardMap
  <2> HIDE DEF h
  <2> QED BY <2>4
<1>3. \A k \in 0 .. n : k \in T
  <2> HIDE DEF T
  <2> QED BY <1>1, <1>2, BoundedInduction
<1> QED BY <1>3

LEMMA BoardPlay ==
  ASSUME NEW L, NEW n \in Nat, DOMAIN L = 1 .. n, Len(L) = n, NEW ids, NEW r
  PROVE  \E g : IsPlay(g, L, ids, r) /\ Board(L, ids, r) = g[Len(L)]
<1> DEFINE f == CHOOSE f : BoardMap(L, ids, r, n, f)
           g == [k \in 0 .. n |-> f[1 .. k]]
<1>1. BoardMap(L, ids, r, n, f)
  BY BoardMapExists
<1>2. Board(L, ids, r) = f[1 .. n]
  BY DEF Board, Counts, FoldLeft, MapThenFoldSet, BoardMap
<1>3. IsPlay(g, L, ids, r)
  <2> HIDE DEF f
  <2>1. 1 .. 0 = {}
    OBVIOUS
  <2>2. g[0] = EmptyBoard
    BY <1>1, <2>1 DEF BoardMap
  <2>3. ASSUME NEW k \in 1 .. n
        PROVE  g[k] = IF Counts(L, ids, r, k) THEN BoardStep(g[k - 1], L[k])
                      ELSE g[k - 1]
    <3>1. 1 .. k \in SUBSET (1 .. n) /\ 1 .. k # {}
      <4>1. k \in Nat /\ 1 <= k /\ k <= n
        OBVIOUS
      <4>2. \A x \in 1 .. k : x \in 1 .. n
        BY <4>1
      <4>3. k \in 1 .. k
        BY <4>1
      <4> QED BY <4>2, <4>3
    <3>2. Max(1 .. k) = k
      <4>1. 1 .. k \in SUBSET (1 .. k) /\ k \in 1 .. k /\ k \in Nat
        OBVIOUS
      <4> HIDE DEF g
      <4> QED BY <4>1, MaxTop
    <3>3. (1 .. k) \ {k} = 1 .. k - 1
      OBVIOUS
    <3>4. f[1 .. k] = IF Counts(L, ids, r, k) THEN BoardStep(f[1 .. k - 1], L[k])
                      ELSE f[1 .. k - 1]
      BY <1>1, <3>1, <3>2, <3>3 DEF BoardMap
    <3> QED BY <3>4
  <2> QED BY <2>2, <2>3 DEF IsPlay
<1> QED BY <1>2, <1>3

-----------------------------------------------------------------------------
(* Where events go *)

LEMMA InsertIs ==
  ASSUME NEW L \in Seq(Events), NEW k \in 1 .. Len(L) + 1, NEW e \in Events
  PROVE  /\ InsertAt(L, k, e) \in Seq(Events)
         /\ Len(InsertAt(L, k, e)) = Len(L) + 1
         /\ DOMAIN InsertAt(L, k, e) = 1 .. Len(L) + 1
         /\ \A i \in 1 .. k - 1 : InsertAt(L, k, e)[i] = L[i]
         /\ InsertAt(L, k, e)[k] = e
         /\ \A i \in k + 1 .. Len(L) + 1 : InsertAt(L, k, e)[i] = L[i - 1]
<1> DEFINE A == SubSeq(L, 1, k - 1)
           B == SubSeq(L, k, Len(L))
<1>1. A \in Seq(Events) /\ Len(A) = k - 1 /\ \A i \in 1 .. k - 1 : A[i] = L[i]
  OBVIOUS
<1>2. /\ B \in Seq(Events) /\ Len(B) = Len(L) - k + 1
      /\ \A i \in 1 .. Len(L) - k + 1 : B[i] = L[k + i - 1]
  OBVIOUS
<1>3. InsertAt(L, k, e) = A \o <<e>> \o B
  BY DEF InsertAt
<1> HIDE DEF A, B
<1>4. /\ A \o <<e>> \in Seq(Events) /\ Len(A \o <<e>>) = k
      /\ \A i \in 1 .. k - 1 : (A \o <<e>>)[i] = L[i]
      /\ (A \o <<e>>)[k] = e
  BY <1>1
<1> DEFINE C == A \o <<e>>
<1> HIDE DEF C
<1>5. /\ C \o B \in Seq(Events) /\ Len(C \o B) = Len(L) + 1
      /\ \A i \in 1 .. k : (C \o B)[i] = C[i]
      /\ \A i \in k + 1 .. Len(L) + 1 : (C \o B)[i] = B[i - k]
  <2>1. C \in Seq(Events) /\ Len(C) = k
    BY <1>4 DEF C
  <2>2. C \o B \in Seq(Events) /\ Len(C \o B) = Len(L) + 1
    <3>1. C \in Seq(Events) /\ B \in Seq(Events)
      BY <2>1, <1>2
    <3>3. C \o B \in Seq(Events) /\ Len(C \o B) = Len(C) + Len(B)
      BY <3>1
    <3>2. Len(L) \in Nat
      OBVIOUS
    <3> QED BY <3>3, <3>2, <2>1, <1>2
  <2>3. \A i \in 1 .. k : (C \o B)[i] = C[i]
    BY <2>1, <1>2
  <2>4. \A i \in k + 1 .. Len(L) + 1 : (C \o B)[i] = B[i - k]
    BY <2>1, <1>2
  <2> QED BY <2>2, <2>3, <2>4
<1>6. \A i \in k + 1 .. Len(L) + 1 : B[i - k] = L[i - 1]
  <2> SUFFICES ASSUME NEW i \in k + 1 .. Len(L) + 1 PROVE B[i - k] = L[i - 1]
    OBVIOUS
  <2>1. i - k \in 1 .. Len(L) - k + 1 /\ k + (i - k) - 1 = i - 1
    OBVIOUS
  <2> QED BY <2>1, <1>2
<1>7. InsertAt(L, k, e) = C \o B
  BY <1>3 DEF C
<1>8. \A i \in 1 .. k - 1 : C[i] = L[i]
  BY <1>4 DEF C
<1>9. C[k] = e
  BY <1>4 DEF C
<1> QED BY <1>5, <1>6, <1>7, <1>8, <1>9

ItemTypes == {"add", "edit", "delete", "flag", "vote"}
LaterTypes == {"edit", "delete", "flag", "vote"}

\* What the stamps keep: one session.create, one "add" of an item, before all
\* that is said of it.
Sorted(L) ==
  /\ L \in Seq(Events)
  /\ \A i \in DOMAIN L : L[i].id \in 1 .. Len(L)
  /\ \A i, j \in DOMAIN L : L[i].id = L[j].id => i = j
  /\ \A i \in DOMAIN L : L[i].type \in ItemTypes => L[i].on \in Items
  /\ \A i \in DOMAIN L : L[i].type = "session.create" <=> L[i].id = 1
  /\ \E i \in DOMAIN L : L[i].id = 1
  /\ \A i \in DOMAIN L : L[i].id = 1 => L[i].dev = Founder
  /\ \A i, j \in DOMAIN L :
       L[i].type = "add" /\ L[j].type = "add" /\ L[i].on = L[j].on => i = j
  /\ \A i \in DOMAIN L : L[i].type \in LaterTypes =>
       \E j \in DOMAIN L : j < i /\ L[j].type = "add" /\ L[j].on = L[i].on

LEMMA SortedLen ==
  ASSUME NEW L, Sorted(L)
  PROVE  L \in Seq(Events) /\ Len(L) \in Nat /\ DOMAIN L = 1 .. Len(L)
BY DEF Sorted

LEMMA InsertSorted ==
  ASSUME NEW L, Sorted(L), NEW k \in 1 .. Len(L) + 1, NEW e \in Events,
         e.id = Len(L) + 1, e.type # "session.create",
         e.type \in ItemTypes => e.on \in Items,
         e.type = "add" => \A i \in DOMAIN L : L[i].on # e.on,
         e.type \in LaterTypes =>
           \E j \in DOMAIN L : j < k /\ L[j].type = "add" /\ L[j].on = e.on
  PROVE  Sorted(InsertAt(L, k, e))
<1> DEFINE n == Len(L)
           M == InsertAt(L, k, e)
           P(i) == IF i < k THEN i ELSE i - 1
           Q(i) == IF i < k THEN i ELSE i + 1
<1>1. L \in Seq(Events) /\ n \in Nat /\ DOMAIN L = 1 .. n
  BY DEF Sorted
<1>2. /\ M \in Seq(Events) /\ Len(M) = n + 1 /\ DOMAIN M = 1 .. n + 1
      /\ \A i \in 1 .. k - 1 : M[i] = L[i]
      /\ M[k] = e
      /\ \A i \in k + 1 .. n + 1 : M[i] = L[i - 1]
  <2>1. L \in Seq(Events) /\ k \in 1 .. Len(L) + 1 /\ e \in Events
    BY <1>1
  <2>2. /\ InsertAt(L, k, e) \in Seq(Events)
        /\ Len(InsertAt(L, k, e)) = Len(L) + 1
        /\ DOMAIN InsertAt(L, k, e) = 1 .. Len(L) + 1
        /\ \A i \in 1 .. k - 1 : InsertAt(L, k, e)[i] = L[i]
        /\ InsertAt(L, k, e)[k] = e
        /\ \A i \in k + 1 .. Len(L) + 1 : InsertAt(L, k, e)[i] = L[i - 1]
    BY <2>1, InsertIs, Zenon
  <2> QED BY <2>2
<1> HIDE DEF M
<1>3. ASSUME NEW i \in DOMAIN M, i # k PROVE P(i) \in DOMAIN L /\ M[i] = L[P(i)]
  <2>1. i \in Nat /\ 1 <= i /\ i <= n + 1
    <3>1. i \in 1 .. n + 1
      BY <1>2
    <3> QED BY <1>1, <3>1
  <2>2. CASE i < k
    <3>1. i \in 1 .. k - 1 /\ i \in 1 .. n
      BY <1>1, <2>1, <2>2
    <3> QED BY <1>1, <1>2, <2>2, <3>1
  <2>3. CASE i > k
    <3>1. i \in k + 1 .. n + 1 /\ i - 1 \in 1 .. n
      BY <1>1, <2>1, <2>3
    <3>2. P(i) = i - 1
      BY <2>1, <2>3
    <3>3. M[i] = L[i - 1]
      BY <1>2, <3>1
    <3> QED BY <1>1, <3>1, <3>2, <3>3
  <2> QED BY <1>3, <2>1, <2>2, <2>3
<1>4. \A i \in DOMAIN L : Q(i) \in DOMAIN M /\ Q(i) # k /\ M[Q(i)] = L[i]
  BY <1>1, <1>2
<1>5. \A i, j \in DOMAIN M : i # k /\ j # k /\ P(i) = P(j) => i = j
  BY <1>2
<1>6. \A i \in DOMAIN M, j \in DOMAIN L : i # k /\ j < P(i) => Q(j) < i
  BY <1>1, <1>2
<1>7. \A j \in DOMAIN L : j < k => Q(j) < k
  OBVIOUS
<1>8. k \in DOMAIN M
  BY <1>1, <1>2
<1> HIDE DEF P, Q
<1>9. \A i \in DOMAIN M : M[i].id \in 1 .. Len(M)
  <2> SUFFICES ASSUME NEW i \in DOMAIN M PROVE M[i].id \in 1 .. n + 1
    BY <1>2
  <2>1. CASE i = k
    BY <2>1, <1>2, <1>1
  <2>2. CASE i # k
    BY <2>2, <1>3, <1>1 DEF Sorted
  <2> QED BY <2>1, <2>2
<1>10. \A i, j \in DOMAIN M : M[i].id = M[j].id => i = j
  <2>1. \A i \in DOMAIN L : L[i].id # n + 1
    BY <1>1 DEF Sorted
  <2>2. \A i \in DOMAIN M : i # k => M[i].id # e.id
    BY <2>1, <1>3
  <2> SUFFICES ASSUME NEW i \in DOMAIN M, NEW j \in DOMAIN M, M[i].id = M[j].id, i # k, j # k
      PROVE i = j
    BY <2>2, <1>2
  <2> QED BY <1>3, <1>5 DEF Sorted
<1>11. \A i \in DOMAIN M : M[i].type \in ItemTypes => M[i].on \in Items
  BY <1>2, <1>3 DEF Sorted
<1>12. \A i \in DOMAIN M : M[i].type = "session.create" <=> M[i].id = 1
  <2>1. e.id # 1
    BY <1>1 DEF Sorted
  <2> QED BY <2>1, <1>2, <1>3 DEF Sorted
<1>13. \E i \in DOMAIN M : M[i].id = 1
  BY <1>4 DEF Sorted
<1>14. \A i \in DOMAIN M : M[i].id = 1 => M[i].dev = Founder
  <2>1. e.id # 1
    BY <1>1 DEF Sorted
  <2> QED BY <2>1, <1>2, <1>3 DEF Sorted
<1>15. \A i, j \in DOMAIN M :
         M[i].type = "add" /\ M[j].type = "add" /\ M[i].on = M[j].on => i = j
  <2> SUFFICES ASSUME NEW i \in DOMAIN M, NEW j \in DOMAIN M,
                      M[i].type = "add", M[j].type = "add", M[i].on = M[j].on
               PROVE  i = j
    OBVIOUS
  <2>1. CASE i # k /\ j # k
    BY <2>1, <1>3, <1>5 DEF Sorted
  <2>2. CASE i = k /\ j # k
    BY <2>2, <1>2, <1>3
  <2>3. CASE i # k /\ j = k
    BY <2>3, <1>2, <1>3
  <2> QED BY <2>1, <2>2, <2>3
<1>16. \A i \in DOMAIN M : M[i].type \in LaterTypes =>
         \E j \in DOMAIN M : j < i /\ M[j].type = "add" /\ M[j].on = M[i].on
  <2> SUFFICES ASSUME NEW i \in DOMAIN M, M[i].type \in LaterTypes
               PROVE  \E j \in DOMAIN M : j < i /\ M[j].type = "add" /\ M[j].on = M[i].on
    OBVIOUS
  <2>1. CASE i = k
    <3>1. PICK j \in DOMAIN L : j < k /\ L[j].type = "add" /\ L[j].on = e.on
      BY <2>1, <1>2
    <3> QED BY <3>1, <2>1, <1>2, <1>4, <1>7
  <2>2. CASE i # k
    <3>1. PICK j \in DOMAIN L : j < P(i) /\ L[j].type = "add" /\ L[j].on = L[P(i)].on
      BY <2>2, <1>3 DEF Sorted
    <3> QED BY <3>1, <2>2, <1>3, <1>4, <1>6
  <2> QED BY <2>1, <2>2
<1>17. Sorted(M)
  BY <1>2, <1>9, <1>10, <1>11, <1>12, <1>13, <1>14, <1>15, <1>16 DEF Sorted
<1> QED BY <1>17 DEF M

-----------------------------------------------------------------------------
(* Roles *)

Offers(r, e) == e.type = "member.invite" /\ e.on \notin r.claimed /\ e.dev \in r.admins
Redeems(roomId, r, e) == MayRedeem(roomId, r, e) /\ e.on \notin r.claimed
Raises(r, e) == e.type = "admin.add" /\ e.dev \in r.admins
Lowers(r, e) == e.type = "admin.remove" /\ e.dev \in r.admins /\ e.on # r.owner

IsRoles(r) ==
  r = [owner |-> r.owner, admins |-> r.admins, invites |-> r.invites,
       claimed |-> r.claimed, effective |-> r.effective]

LEMMA RoleStepIs ==
  ASSUME NEW r, IsRoles(r), NEW e, NEW roomId
  PROVE  /\ Offers(r, e) => RoleStep(roomId, r, e) =
              [owner |-> r.owner, admins |-> r.admins,
               invites |-> IF e.val THEN r.invites \cup {e.on} ELSE r.invites \ {e.on},
               claimed |-> r.claimed, effective |-> r.effective \cup {e.id}]
         /\ Redeems(roomId, r, e) => RoleStep(roomId, r, e) =
              [owner |-> r.owner, admins |-> r.admins \cup {e.dev},
               invites |-> r.invites \ {e.on}, claimed |-> r.claimed \cup {e.on},
               effective |-> r.effective \cup {e.id}]
         /\ Raises(r, e) => RoleStep(roomId, r, e) =
              [owner |-> r.owner, admins |-> r.admins \cup {e.on}, invites |-> r.invites,
               claimed |-> r.claimed, effective |-> r.effective]
         /\ Lowers(r, e) => RoleStep(roomId, r, e) =
              [owner |-> r.owner, admins |-> r.admins \ {e.on}, invites |-> r.invites,
               claimed |-> r.claimed, effective |-> r.effective]
         /\ (~Offers(r, e) /\ ~Redeems(roomId, r, e) /\ ~Raises(r, e) /\ ~Lowers(r, e))
              => RoleStep(roomId, r, e) = r
<1>1. CASE Offers(r, e)
  <2>1. RoleStep(roomId, r, e) = Offer(r, e)
    BY <1>1 DEF RoleStep, TicketStep, MayRedeem, Offers
  <2>2. ~Redeems(roomId, r, e) /\ ~Raises(r, e) /\ ~Lowers(r, e)
    BY <1>1 DEF Offers, Redeems, MayRedeem, Raises, Lowers
  <2> QED BY <1>1, <2>1, <2>2 DEF Offer, IsRoles
<1>2. CASE Redeems(roomId, r, e)
  <2>1. RoleStep(roomId, r, e) = Redeem(r, e)
    BY <1>2 DEF RoleStep, TicketStep, MayRedeem, Redeems
  <2>2. ~Offers(r, e) /\ ~Raises(r, e) /\ ~Lowers(r, e)
    BY <1>2 DEF Offers, Redeems, MayRedeem, Raises, Lowers
  <2> QED BY <1>2, <2>1, <2>2 DEF Redeem, IsRoles
<1>3. CASE Raises(r, e) \/ Lowers(r, e)
  <2>1. RoleStep(roomId, r, e) = MemberStep(r, e) /\ e.dev \in r.admins
    BY <1>3 DEF RoleStep, Raises, Lowers
  <2>2. ~Offers(r, e) /\ ~Redeems(roomId, r, e) /\ ~(Raises(r, e) /\ Lowers(r, e))
    BY <1>3 DEF Offers, Redeems, MayRedeem, Raises, Lowers
  <2>3. CASE Raises(r, e)
    BY <2>1, <2>2, <2>3 DEF MemberStep, Raises, IsRoles
  <2>4. CASE Lowers(r, e)
    BY <2>1, <2>2, <2>4 DEF MemberStep, Lowers, IsRoles
  <2> QED BY <2>3, <2>4, <1>3
<1>4. CASE ~Offers(r, e) /\ ~Redeems(roomId, r, e) /\ ~Raises(r, e) /\ ~Lowers(r, e)
  <2>1. CASE e.type \in {"member.invite", "member.claim"}
    BY <1>4, <2>1 DEF RoleStep, TicketStep, MayRedeem, Offers, Redeems
  <2>2. CASE e.type \notin {"member.invite", "member.claim"}
    BY <1>4, <2>2 DEF RoleStep, MemberStep, Raises, Lowers
  <2> QED BY <1>4, <2>1, <2>2
<1> QED BY <1>1, <1>2, <1>3, <1>4

LEMMA RoleStepKeeps ==
  ASSUME NEW r, IsRoles(r), NEW e, NEW roomId
  PROVE  IsRoles(RoleStep(roomId, r, e)) /\ RoleStep(roomId, r, e).owner = r.owner
BY RoleStepIs DEF IsRoles

\* In a room there is one session.create, and it is the founder's.
LEMMA FirstIs ==
  ASSUME NEW L, NEW n \in Nat, NEW places \in SUBSET (1 .. n), NEW p \in places,
         \A q \in places : q = p
  PROVE  FirstBy(L, places) = L[p].dev
<1>1. places # {} /\ places \in SUBSET Nat
  OBVIOUS
<1>2. Min(places) \in places
  BY <1>1, MinIs
<1> QED BY <1>1, <1>2 DEF FirstBy

LEMMA OwnerIs ==
  ASSUME NEW L, Sorted(L), NEW ids
  PROVE  Owner(L, ids) = IF 1 \in ids THEN Founder ELSE NoDevice
<1> DEFINE places == {i \in DOMAIN L : L[i].id \in ids /\ L[i].type = "session.create"}
<1>1. DOMAIN L = 1 .. Len(L) /\ Len(L) \in Nat
  BY DEF Sorted
<1>2. \A i \in places : L[i].id = 1
  BY DEF Sorted
<1>3. CASE 1 \in ids
  <2>1. PICK p \in DOMAIN L : L[p].id = 1
    BY DEF Sorted
  <2>2. p \in places /\ \A q \in places : q = p
    BY <2>1, <1>3, <1>2 DEF Sorted
  <2>3. places \in SUBSET (1 .. Len(L))
    BY <1>1
  <2>4. Owner(L, ids) = FirstBy(L, places)
    BY DEF Owner
  <2>5. L[p].dev = Founder
    BY <2>1 DEF Sorted
  <2> HIDE DEF places
  <2> QED BY <1>1, <2>2, <2>3, <2>4, <2>5, <1>3, FirstIs
<1>4. CASE 1 \notin ids
  <2>1. places = {}
    BY <1>4, <1>2
  <2> QED BY <2>1, <1>4 DEF Owner, FirstBy
<1> QED BY <1>3, <1>4

LEMMA WalkShape ==
  ASSUME NEW L, Sorted(L), NEW ids, NEW roomId, NEW g, IsWalk(g, L, ids, roomId)
  PROVE  \A k \in 0 .. Len(L) : IsRoles(g[k]) /\ g[k].owner = Owner(L, ids)
<1> DEFINE T == {k \in 0 .. Len(L) : IsRoles(g[k]) /\ g[k].owner = Owner(L, ids)}
<1>1. Len(L) \in Nat
  BY DEF Sorted
<1>2. 0 \in T
  BY <1>1 DEF IsWalk, NoRoles, IsRoles
<1>3. ASSUME NEW k \in 1 .. Len(L), k - 1 \in T PROVE k \in T
  BY <1>3, RoleStepKeeps DEF IsWalk
<1>4. \A k \in 0 .. Len(L) : k \in T
  <2> HIDE DEF T
  <2> QED BY <1>1, <1>2, <1>3, BoundedInduction
<1> QED BY <1>4

\* Nobody but the founder is an admin while the founder lets nobody in.
LEMMA WalkAlone ==
  ASSUME NEW L, Sorted(L), NEW ids, NEW roomId, NEW g, IsWalk(g, L, ids, roomId),
         \A i \in DOMAIN L : L[i].type \in Grants => L[i].dev # Founder
  PROVE  \A k \in 0 .. Len(L) : g[k].admins \subseteq {Founder} /\ g[k].invites = {}
<1> DEFINE T == {k \in 0 .. Len(L) : g[k].admins \subseteq {Founder} /\ g[k].invites = {}}
<1>1. Len(L) \in Nat /\ DOMAIN L = 1 .. Len(L)
  BY DEF Sorted
<1>2. 0 \in T
  <2>1. g[0].admins \subseteq {Owner(L, ids)} \ {NoDevice} /\ g[0].invites = {}
    BY DEF IsWalk, NoRoles
  <2> QED BY <2>1, <1>1, OwnerIs
<1>3. ASSUME NEW k \in 1 .. Len(L), k - 1 \in T PROVE k \in T
  <2>1. IsRoles(g[k - 1]) /\ g[k - 1].admins \subseteq {Founder} /\ g[k - 1].invites = {}
    BY <1>1, <1>3, WalkShape
  <2>2. L[k].type \in Grants => L[k].dev # Founder
    BY <1>1
  <2>3. /\ ~Offers(g[k - 1], L[k]) /\ ~Redeems(roomId, g[k - 1], L[k])
        /\ ~Raises(g[k - 1], L[k])
    BY <2>1, <2>2 DEF Offers, Redeems, Raises, MayRedeem, Grants
  <2>4. /\ RoleStep(roomId, g[k - 1], L[k]).admins \subseteq {Founder}
        /\ RoleStep(roomId, g[k - 1], L[k]).invites = {}
    <3>1. CASE Lowers(g[k - 1], L[k])
      BY <3>1, <2>1, RoleStepIs
    <3>2. CASE ~Lowers(g[k - 1], L[k])
      BY <3>2, <2>1, <2>3, RoleStepIs
    <3> QED BY <3>1, <3>2
  <2>5. g[k] = IF L[k].id \in ids THEN RoleStep(roomId, g[k - 1], L[k]) ELSE g[k - 1]
    BY DEF IsWalk
  <2>6. g[k].admins \subseteq {Founder} /\ g[k].invites = {}
    <3>1. CASE L[k].id \in ids
      BY <3>1, <2>4, <2>5
    <3>2. CASE L[k].id \notin ids
      BY <3>2, <2>1, <2>5
    <3> QED BY <3>1, <3>2
  <2>7. k \in 0 .. Len(L)
    BY <1>1
  <2> QED BY <2>6, <2>7
<1>4. \A k \in 0 .. Len(L) : k \in T
  <2> HIDE DEF T
  <2> QED BY <1>1, <1>2, <1>3, BoundedInduction
<1> QED BY <1>4

\* Of the claims of a ticket one has had effect, and then the ticket is used up.
OneClaim(L, r, k) ==
  /\ r.claimed \cap r.invites = {}
  /\ \A i \in DOMAIN L : L[i].type = "member.claim" /\ L[i].id \in r.effective =>
       i <= k /\ L[i].on \in r.claimed
  /\ \A i, j \in DOMAIN L :
       /\ L[i].type = "member.claim" /\ L[i].id \in r.effective
       /\ L[j].type = "member.claim" /\ L[j].id \in r.effective
       /\ L[i].on = L[j].on
       => i = j

LEMMA WalkClaims ==
  ASSUME NEW L, Sorted(L), NEW ids, NEW roomId, NEW g, IsWalk(g, L, ids, roomId)
  PROVE  \A k \in 0 .. Len(L) : OneClaim(L, g[k], k)
<1> DEFINE T == {k \in 0 .. Len(L) : OneClaim(L, g[k], k)}
<1>1. Len(L) \in Nat /\ DOMAIN L = 1 .. Len(L)
  BY DEF Sorted
<1>2. 0 \in T
  BY <1>1 DEF IsWalk, NoRoles, OneClaim
<1>3. ASSUME NEW k \in 1 .. Len(L), k - 1 \in T PROVE k \in T
  <2> DEFINE r == g[k - 1]
             e == L[k]
             q == RoleStep(roomId, r, e)
  <2>1. IsRoles(r) /\ OneClaim(L, r, k - 1)
    BY <1>1, <1>3, WalkShape
  <2>2. k \in DOMAIN L /\ \A i \in DOMAIN L : i <= k - 1 => i <= k
    BY <1>1
  <2>3. \A i \in DOMAIN L : L[i].id = e.id => i = k
    BY <2>2 DEF Sorted
  <2>4. OneClaim(L, r, k)
    BY <2>1, <2>2 DEF OneClaim
  <2>5. OneClaim(L, q, k)
    <3> HIDE DEF q
    <3>1. CASE Offers(r, e)
      <4>1. /\ q.claimed = r.claimed /\ q.effective = r.effective \cup {e.id}
            /\ q.invites \subseteq r.invites \cup {e.on}
        BY <3>1, <2>1, RoleStepIs DEF q
      <4>2. e.on \notin r.claimed /\ e.type # "member.claim"
        BY <3>1 DEF Offers
      <4>3. \A i \in DOMAIN L : L[i].type = "member.claim" /\ L[i].id \in q.effective
              => L[i].id \in r.effective
        BY <4>1, <4>2, <2>3
      <4> HIDE DEF r, e
      <4> QED BY <4>1, <4>2, <4>3, <2>4 DEF OneClaim
    <3>2. CASE Redeems(roomId, r, e)
      <4>1. /\ q.claimed = r.claimed \cup {e.on} /\ q.effective = r.effective \cup {e.id}
            /\ q.invites = r.invites \ {e.on}
        BY <3>2, <2>1, RoleStepIs DEF q
      <4>2. e.on \notin r.claimed
        BY <3>2 DEF Redeems
      <4>3. \A i \in DOMAIN L : L[i].type = "member.claim" /\ L[i].id \in q.effective
              => i = k \/ L[i].id \in r.effective
        BY <4>1, <2>3
      <4>4. \A i \in DOMAIN L : L[i].type = "member.claim" /\ L[i].id \in r.effective
              => L[i].on # e.on
        BY <4>2, <2>4 DEF OneClaim
      <4>5. L[k] = e
        OBVIOUS
      <4>6. k <= k
        BY <1>1
      <4>7. q.claimed \cap q.invites = {}
        BY <4>1, <2>4 DEF OneClaim
      <4>8. \A i \in DOMAIN L : L[i].type = "member.claim" /\ L[i].id \in q.effective =>
              i <= k /\ L[i].on \in q.claimed
        <5> HIDE DEF r, e
        <5> QED BY <4>1, <4>3, <4>5, <4>6, <2>4 DEF OneClaim
      <4>9. \A i, j \in DOMAIN L :
              /\ L[i].type = "member.claim" /\ L[i].id \in q.effective
              /\ L[j].type = "member.claim" /\ L[j].id \in q.effective
              /\ L[i].on = L[j].on
              => i = j
        <5> HIDE DEF r, e
        <5> QED BY <4>3, <4>4, <4>5, <2>4 DEF OneClaim
      <4> HIDE DEF r, e
      <4> QED BY <4>7, <4>8, <4>9 DEF OneClaim
    <3>3. CASE ~Offers(r, e) /\ ~Redeems(roomId, r, e)
      <4>1. q.claimed = r.claimed /\ q.effective = r.effective /\ q.invites = r.invites
        BY <3>3, <2>1, RoleStepIs DEF q
      <4> HIDE DEF r, e
      <4> QED BY <4>1, <2>4 DEF OneClaim
    <3> QED BY <3>1, <3>2, <3>3
  <2>6. g[k] = IF L[k].id \in ids THEN q ELSE r
    BY DEF IsWalk
  <2> QED BY <2>4, <2>5, <2>6, <1>1
<1>4. \A k \in 0 .. Len(L) : k \in T
  <2> HIDE DEF T
  <2> QED BY <1>1, <1>2, <1>3, BoundedInduction
<1> QED BY <1>4

-----------------------------------------------------------------------------
(* The board *)

IsItem(x) ==
  x = [content |-> x.content, author |-> x.author, flag |-> x.flag, deleted |-> x.deleted]
IsBoard(b) ==
  /\ b = [title |-> b.title, items |-> b.items, accepted |-> b.accepted, votes |-> b.votes]
  /\ b.items = [x \in DOMAIN b.items |-> b.items[x]]
  /\ \A x \in DOMAIN b.items : IsItem(b.items[x])
  /\ b.votes = [i \in Items |-> b.votes[i]]

\* What an event does to the title, to the items and to the votes.
TitleAfter(b, e) ==
  CASE e.type = "session.create" /\ b.title = NoDevice -> TRUE
    [] e.type = "session.config" /\ b.title # NoDevice -> e.val
    [] OTHER -> b.title
ItemAfter(item, x, e) ==
  [content |-> IF e.type = "edit" /\ e.on = x THEN e.id ELSE item.content,
   author |-> item.author,
   flag |-> IF e.type = "flag" /\ e.on = x THEN e.val ELSE item.flag,
   deleted |-> IF e.type = "delete" /\ e.on = x THEN TRUE ELSE item.deleted]
Adds(b, e) == e.type = "add" /\ ~Has(b, e.on)
ItemsAfter(b, e) ==
  [x \in (IF Adds(b, e) THEN DOMAIN b.items \cup {e.on} ELSE DOMAIN b.items) |->
     IF x \in DOMAIN b.items THEN ItemAfter(b.items[x], x, e)
     ELSE [content |-> e.id, author |-> e.dev, flag |-> e.val, deleted |-> FALSE]]
VotesAfter(b, e) ==
  [i \in Items |->
     IF e.type = "vote" /\ e.on = i /\ (i \in Polls => Has(b, i) /\ b.items[i].flag)
     THEN With(b.votes[i], e.dev, e.val) ELSE b.votes[i]]

LEMMA BoardStepIs ==
  ASSUME NEW b, IsBoard(b), NEW e, e.type \in ItemTypes => e.on \in Items
  PROVE  /\ BoardStep(b, e) = [title |-> TitleAfter(b, e), items |-> ItemsAfter(b, e),
                               accepted |-> BoardStep(b, e).accepted,
                               votes |-> VotesAfter(b, e)]
         /\ IsBoard(BoardStep(b, e))
<1> DEFINE c == BoardStep(b, e)
<1>1. /\ e.type \notin {"session.create", "session.config"} => TitleAfter(b, e) = b.title
      /\ e.type \notin {"add", "edit", "flag", "delete"} => ItemsAfter(b, e) = b.items
      /\ e.type # "vote" => VotesAfter(b, e) = b.votes
  <2>1. ASSUME e.type \notin {"session.create", "session.config"}
        PROVE  TitleAfter(b, e) = b.title
    BY <2>1 DEF TitleAfter
  <2>2. ASSUME e.type \notin {"add", "edit", "flag", "delete"}
        PROVE  ItemsAfter(b, e) = b.items
    <3>1. \A x \in DOMAIN b.items : ItemAfter(b.items[x], x, e) = b.items[x]
      BY <2>2 DEF ItemAfter, IsBoard, IsItem
    <3> QED BY <2>2, <3>1 DEF ItemsAfter, Adds, IsBoard
  <2>3. ASSUME e.type # "vote" PROVE VotesAfter(b, e) = b.votes
    BY <2>3 DEF VotesAfter, IsBoard
  <2> QED BY <2>1, <2>2, <2>3
<1>2. IsBoard([title |-> TitleAfter(b, e), items |-> ItemsAfter(b, e),
               accepted |-> c.accepted, votes |-> VotesAfter(b, e)])
  <2>1. \A x \in DOMAIN ItemsAfter(b, e) : IsItem(ItemsAfter(b, e)[x])
    BY DEF ItemsAfter, ItemAfter, IsItem
  <2>2. ItemsAfter(b, e) = [x \in DOMAIN ItemsAfter(b, e) |-> ItemsAfter(b, e)[x]]
    BY DEF ItemsAfter
  <2>3. VotesAfter(b, e) = [i \in Items |-> VotesAfter(b, e)[i]]
    BY DEF VotesAfter
  <2> QED BY <2>1, <2>2, <2>3 DEF IsBoard
<1>3. c = [title |-> TitleAfter(b, e), items |-> ItemsAfter(b, e),
           accepted |-> c.accepted, votes |-> VotesAfter(b, e)]
  <2>1. CASE e.type \in {"session.create", "session.config"}
    BY <2>1, <1>1 DEF BoardStep, TitleAfter, IsBoard
  <2>2. CASE e.type = "add"
    <3>1. CASE Has(b, e.on)
      <4>1. ItemsAfter(b, e) = b.items
        <5>1. \A x \in DOMAIN b.items : ItemAfter(b.items[x], x, e) = b.items[x]
          BY <2>2 DEF ItemAfter, IsBoard, IsItem
        <5> QED BY <3>1, <5>1 DEF ItemsAfter, Adds, IsBoard
      <4> QED BY <2>2, <3>1, <4>1, <1>1 DEF BoardStep, IsBoard
    <3>2. CASE ~Has(b, e.on)
      <4> DEFINE new == [content |-> e.id, author |-> e.dev, flag |-> e.val, deleted |-> FALSE]
      <4>1. ItemsAfter(b, e) = With(b.items, e.on, new)
        <5>1. \A x \in DOMAIN b.items : ItemAfter(b.items[x], x, e) = b.items[x]
          BY <2>2 DEF ItemAfter, IsBoard, IsItem
        <5>2. e.on \notin DOMAIN b.items
          BY <3>2 DEF Has
        <5> HIDE DEF new
        <5>3. ItemsAfter(b, e) = [x \in DOMAIN b.items \cup {e.on} |->
                IF x \in DOMAIN b.items THEN ItemAfter(b.items[x], x, e) ELSE new]
          BY <2>2, <3>2 DEF ItemsAfter, Adds, new
        <5> QED BY <5>1, <5>2, <5>3 DEF With
      <4>2. c = [b EXCEPT !.items = With(@, e.on, new)]
        BY <2>2, <3>2 DEF BoardStep
      <4> HIDE DEF new, c
      <4> QED BY <4>1, <4>2, <2>2, <1>1 DEF IsBoard
    <3> QED BY <3>1, <3>2
  <2>3. CASE e.type \in {"edit", "delete"}
    <3>1. CASE Has(b, e.on)
      <4>1. ItemsAfter(b, e) = [b.items EXCEPT ![e.on] = ItemAfter(b.items[e.on], e.on, e)]
        <5>1. \A x \in DOMAIN b.items : x # e.on => ItemAfter(b.items[x], x, e) = b.items[x]
          BY <2>3 DEF ItemAfter, IsBoard, IsItem
        <5>2. ItemsAfter(b, e) = [x \in DOMAIN b.items |-> ItemAfter(b.items[x], x, e)]
          BY <2>3 DEF ItemsAfter, Adds
        <5> QED BY <5>1, <5>2, <3>1 DEF IsBoard, Has
      <4>2. IsItem(b.items[e.on])
        BY <3>1 DEF IsBoard, Has
      <4>3. c = [b EXCEPT !.items[e.on] = ItemAfter(b.items[e.on], e.on, e)]
        <5>1. CASE e.type = "edit"
          <6>1. c = [b EXCEPT !.items[e.on].content = e.id]
            BY <5>1, <3>1 DEF BoardStep
          <6>2. ItemAfter(b.items[e.on], e.on, e) = [b.items[e.on] EXCEPT !.content = e.id]
            BY <5>1, <4>2 DEF IsItem, ItemAfter
          <6> QED BY <6>1, <6>2
        <5>2. CASE e.type = "delete"
          <6>1. c = [b EXCEPT !.items[e.on].deleted = TRUE]
            BY <5>2, <3>1 DEF BoardStep
          <6>2. ItemAfter(b.items[e.on], e.on, e) = [b.items[e.on] EXCEPT !.deleted = TRUE]
            <7> DEFINE it == b.items[e.on]
            <7> HIDE DEF it
            <7>1. ItemAfter(it, e.on, e) = [content |-> it.content, author |-> it.author,
                                            flag |-> it.flag, deleted |-> TRUE]
              BY <5>2 DEF ItemAfter
            <7>2. IsItem(it)
              BY <4>2 DEF it
            <7>3. \A v : [it EXCEPT !.deleted = v]
                           = [content |-> it.content, author |-> it.author,
                              flag |-> it.flag, deleted |-> v]
              BY <7>2 DEF IsItem
            <7> QED BY <7>1, <7>3 DEF it
          <6> QED BY <6>1, <6>2
        <5> QED BY <5>1, <5>2, <2>3
      <4> HIDE DEF c
      <4> QED BY <4>1, <4>3, <2>3, <1>1 DEF IsBoard
    <3>2. CASE ~Has(b, e.on)
      <4>1. ItemsAfter(b, e) = b.items
        <5>1. \A x \in DOMAIN b.items : ItemAfter(b.items[x], x, e) = b.items[x]
          BY <3>2, <2>3 DEF ItemAfter, IsBoard, IsItem, Has
        <5> QED BY <2>3, <5>1 DEF ItemsAfter, Adds, IsBoard
      <4> QED BY <2>3, <3>2, <4>1, <1>1 DEF BoardStep, IsBoard
    <3> QED BY <3>1, <3>2
  <2>4. CASE e.type = "flag"
    <3> DEFINE m == IF Has(b, e.on) THEN [b EXCEPT !.items[e.on].flag = e.val] ELSE b
    <3>1. m = [title |-> b.title, items |-> ItemsAfter(b, e), accepted |-> b.accepted,
               votes |-> b.votes]
      <4>1. CASE Has(b, e.on)
        <5>1. ItemsAfter(b, e) = [b.items EXCEPT ![e.on] = ItemAfter(b.items[e.on], e.on, e)]
          <6>1. \A x \in DOMAIN b.items :
                  x # e.on => ItemAfter(b.items[x], x, e) = b.items[x]
            BY <2>4 DEF ItemAfter, IsBoard, IsItem
          <6>2. ItemsAfter(b, e) = [x \in DOMAIN b.items |-> ItemAfter(b.items[x], x, e)]
            BY <2>4 DEF ItemsAfter, Adds
          <6> QED BY <6>1, <6>2, <4>1 DEF IsBoard, Has
        <5>2. IsItem(b.items[e.on])
          BY <4>1 DEF IsBoard, Has
        <5>3. m = [b EXCEPT !.items[e.on] = ItemAfter(b.items[e.on], e.on, e)]
          BY <2>4, <4>1, <5>2 DEF IsBoard, IsItem, ItemAfter
        <5> HIDE DEF m
        <5> QED BY <5>1, <5>3 DEF IsBoard
      <4>2. CASE ~Has(b, e.on)
        <5>1. \A x \in DOMAIN b.items : ItemAfter(b.items[x], x, e) = b.items[x]
          BY <4>2, <2>4 DEF ItemAfter, IsBoard, IsItem, Has
        <5>2. ItemsAfter(b, e) = b.items
          BY <2>4, <5>1 DEF ItemsAfter, Adds, IsBoard
        <5> QED BY <4>2, <5>2 DEF IsBoard
      <4> QED BY <4>1, <4>2
    <3>2. c = [m EXCEPT !.accepted = c.accepted]
      <4>1. CASE e.on \in Answers
        <5>1. c = Accept(b, e)
          BY <2>4, <4>1 DEF BoardStep
        <5>2. CASE ~Has(b, e.on[1])
          <6>1. c = m
            BY <5>1, <5>2 DEF Accept
          <6> HIDE DEF c, m
          <6> QED BY <6>1, <3>1
        <5>3. CASE Has(b, e.on[1])
          <6>1. c = [m EXCEPT !.accepted[e.on[1]] =
                       CASE e.val -> e.on
                         [] ~e.val /\ @ = e.on -> NoDevice
                         [] OTHER -> @]
            BY <5>1, <5>3 DEF Accept
          <6> HIDE DEF c, m
          <6> QED BY <6>1, <3>1
        <5> QED BY <5>2, <5>3
      <4>2. CASE e.on \notin Answers /\ Has(b, e.on)
        <5>1. c = m
          BY <2>4, <4>2 DEF BoardStep
        <5> HIDE DEF c, m
        <5> QED BY <5>1, <3>1
      <4>3. CASE e.on \notin Answers /\ ~Has(b, e.on)
        <5>1. c = m
          BY <2>4, <4>3 DEF BoardStep
        <5> HIDE DEF c, m
        <5> QED BY <5>1, <3>1
      <4> QED BY <4>1, <4>2, <4>3
    <3> HIDE DEF c, m
    <3> QED BY <3>1, <3>2, <2>4, <1>1
  <2>5. CASE e.type = "vote"
    <3>1. c = Vote(b, e) /\ e.on \in Items
      BY <2>5 DEF BoardStep, ItemTypes
    <3>2. CASE e.on \in Polls /\ ~(Has(b, e.on) /\ b.items[e.on].flag)
      <4>1. VotesAfter(b, e) = b.votes
        BY <3>2 DEF VotesAfter, IsBoard
      <4>2. c = b
        BY <3>1, <3>2 DEF Vote
      <4> HIDE DEF c
      <4> QED BY <4>1, <4>2, <2>5, <1>1 DEF IsBoard
    <3>3. CASE ~(e.on \in Polls /\ ~(Has(b, e.on) /\ b.items[e.on].flag))
      <4>1. VotesAfter(b, e)
              = [b.votes EXCEPT ![e.on] = With(b.votes[e.on], e.dev, e.val)]
        BY <3>1, <3>3, <2>5 DEF VotesAfter, IsBoard
      <4>2. c = [b EXCEPT !.votes[e.on] = With(b.votes[e.on], e.dev, e.val)]
        BY <3>1, <3>3 DEF Vote, Cast
      <4> HIDE DEF c
      <4> QED BY <4>1, <4>2, <2>5, <1>1 DEF IsBoard
    <3> QED BY <3>2, <3>3
  <2>6. CASE e.type \notin {"session.create", "session.config", "add", "edit", "delete",
                            "flag", "vote"}
    <3>1. c = b
      BY <2>6 DEF BoardStep
    <3> QED BY <3>1, <2>6, <1>1 DEF IsBoard
  <2> QED BY <2>1, <2>2, <2>3, <2>4, <2>5, <2>6
<1> HIDE DEF c
<1>4. IsBoard(c)
  BY <1>2, <1>3
<1> QED BY <1>3, <1>4 DEF c

\* The items of the board are those whose "add" is in the log and counts.
PlayOK(L, ids, r, b, k) ==
  /\ IsBoard(b)
  /\ \A x : x \in DOMAIN b.items <=>
       \E j \in 1 .. k : Counts(L, ids, r, j) /\ L[j].type = "add" /\ L[j].on = x

LEMMA PlayShape ==
  ASSUME NEW L, Sorted(L), NEW ids, NEW r, NEW h, IsPlay(h, L, ids, r)
  PROVE  \A k \in 0 .. Len(L) : PlayOK(L, ids, r, h[k], k)
<1> DEFINE T == {k \in 0 .. Len(L) : PlayOK(L, ids, r, h[k], k)}
<1>1. Len(L) \in Nat /\ DOMAIN L = 1 .. Len(L)
  BY DEF Sorted
<1>2. 0 \in T
  <2>1. h[0] = EmptyBoard
    BY DEF IsPlay
  <2>2. IsBoard(EmptyBoard) /\ DOMAIN EmptyBoard.items = {}
    BY DEF EmptyBoard, IsBoard
  <2>3. 1 .. 0 = {}
    OBVIOUS
  <2> QED BY <1>1, <2>1, <2>2, <2>3 DEF PlayOK
<1>3. ASSUME NEW k \in 1 .. Len(L), k - 1 \in T PROVE k \in T
  <2> DEFINE b == h[k - 1]
             e == L[k]
             c == BoardStep(b, e)
  <2>1. PlayOK(L, ids, r, b, k - 1)
    BY <1>3
  <2>2. 1 .. k = (1 .. k - 1) \cup {k}
    BY <1>1
  <2>3. CASE Counts(L, ids, r, k)
    <3>1. h[k] = c
      BY <2>3 DEF IsPlay
    <3>2. e.type \in ItemTypes => e.on \in Items
      BY <1>1 DEF Sorted
    <3>3. IsBoard(c) /\ DOMAIN c.items = DOMAIN ItemsAfter(b, e)
      <4>1. IsBoard(b)
        BY <2>1 DEF PlayOK
      <4> HIDE DEF b, e
      <4> QED BY <4>1, <3>2, BoardStepIs
    <3>4. DOMAIN c.items = IF e.type = "add" THEN DOMAIN b.items \cup {e.on} ELSE DOMAIN b.items
      <4>1. DOMAIN ItemsAfter(b, e)
              = IF Adds(b, e) THEN DOMAIN b.items \cup {e.on} ELSE DOMAIN b.items
        BY DEF ItemsAfter
      <4> HIDE DEF b, e, c
      <4> QED BY <3>3, <4>1 DEF Adds, Has
    <3>5. ASSUME NEW x
          PROVE  x \in DOMAIN c.items <=>
                   \E j \in 1 .. k : Counts(L, ids, r, j) /\ L[j].type = "add" /\ L[j].on = x
      <4>1. x \in DOMAIN b.items <=>
              \E j \in 1 .. k - 1 : Counts(L, ids, r, j) /\ L[j].type = "add" /\ L[j].on = x
        BY <2>1 DEF PlayOK
      <4>2. e.type = L[k].type /\ e.on = L[k].on
        OBVIOUS
      <4> HIDE DEF b, e, c
      <4> QED BY <4>1, <4>2, <3>4, <2>2, <2>3
    <3> HIDE DEF c
    <3> QED BY <3>1, <3>3, <3>5 DEF PlayOK
  <2>4. CASE ~Counts(L, ids, r, k)
    <3>1. h[k] = b
      BY <2>4 DEF IsPlay
    <3> HIDE DEF b
    <3> QED BY <3>1, <2>1, <2>2, <2>4 DEF PlayOK
  <2> QED BY <2>3, <2>4
<1>4. \A k \in 0 .. Len(L) : k \in T
  <2> HIDE DEF T
  <2> QED BY <1>1, <1>2, <1>3, BoundedInduction
<1> QED BY <1>4

LEMMA CreatorIs ==
  ASSUME NEW L, Sorted(L), NEW ids, NEW x
  PROVE  /\ \A j \in DOMAIN L : L[j].id \in ids /\ L[j].type = "add" /\ L[j].on = x
              => Creator(L, ids, x) = L[j].dev
         /\ (\A j \in DOMAIN L : ~(L[j].id \in ids /\ L[j].type = "add" /\ L[j].on = x))
              => Creator(L, ids, x) = NoDevice
<1> DEFINE places == {i \in DOMAIN L : L[i].id \in ids /\ L[i].type = "add" /\ L[i].on = x}
<1>1. DOMAIN L = 1 .. Len(L) /\ Len(L) \in Nat
  BY DEF Sorted
<1>2. Creator(L, ids, x) = FirstBy(L, places)
  BY DEF Creator
<1>3. ASSUME NEW j \in places PROVE FirstBy(L, places) = L[j].dev
  <2>1. \A q \in places : q = j
    BY <1>3 DEF Sorted
  <2>2. places \in SUBSET (1 .. Len(L))
    BY <1>1
  <2> HIDE DEF places
  <2> QED BY <1>1, <1>3, <2>1, <2>2, FirstIs
<1>4. places = {} => FirstBy(L, places) = NoDevice
  BY DEF FirstBy
<1> QED BY <1>2, <1>3, <1>4

\* An event that a log does not hold changes nothing of what the log folds to.
LEMMA FoldUnseen ==
  ASSUME NEW L, Sorted(L), NEW k \in 1 .. Len(L) + 1, NEW e \in Events,
         Sorted(InsertAt(L, k, e)), NEW ids, e.id \notin ids, NEW roomId
  PROVE  Fold(InsertAt(L, k, e), ids, roomId) = Fold(L, ids, roomId)
<1> DEFINE n == Len(L)
           M == InsertAt(L, k, e)
           P(i) == IF i < k THEN i ELSE i - 1
           Q(i) == IF i < k THEN i ELSE i + 1
<1>1. L \in Seq(Events) /\ n \in Nat /\ DOMAIN L = 1 .. n
  BY DEF Sorted
<1>2. /\ M \in Seq(Events) /\ Len(M) = n + 1 /\ DOMAIN M = 1 .. n + 1
      /\ \A i \in 1 .. k - 1 : M[i] = L[i]
      /\ M[k] = e
      /\ \A i \in k + 1 .. n + 1 : M[i] = L[i - 1]
  <2>1. L \in Seq(Events)
    BY <1>1
  <2> QED BY <2>1, InsertIs
<1>3. Sorted(M)
  OBVIOUS
<1> HIDE DEF M
<1>4. \A i \in 1 .. n + 1 : i # k => P(i) \in 1 .. n /\ M[i] = L[P(i)]
  BY <1>1, <1>2
<1>5. \A i \in DOMAIN L : Q(i) \in DOMAIN M /\ M[Q(i)] = L[i]
  BY <1>1, <1>2
<1>6. /\ P(0) = 0 /\ P(k) = k - 1 /\ P(k - 1) = k - 1 /\ P(n + 1) = n
      /\ \A i \in 1 .. n + 1 : i # k => P(i - 1) = P(i) - 1
      /\ k \in 1 .. n + 1
  <2>1. k \in 1 .. n + 1 /\ k \in Nat /\ 0 < k
    BY <1>1
  <2>2. P(0) = 0 /\ P(k) = k - 1 /\ P(k - 1) = k - 1
    BY <2>1
  <2>3. P(n + 1) = n
    <3> HIDE DEF n
    <3>1. ~(n + 1 < k) /\ (n + 1) - 1 = n
      BY <2>1, <1>1
    <3> QED BY <3>1
  <2>4. \A i \in 1 .. n + 1 : i # k => P(i - 1) = P(i) - 1
    BY <2>1, <1>1
  <2> QED BY <2>1, <2>2, <2>3, <2>4
<1> HIDE DEF P, Q, n
<1>7. Owner(M, ids) = Owner(L, ids)
  BY <1>3, OwnerIs
<1>8. Roles(M, ids, roomId) = Roles(L, ids, roomId)
  <2>1. PICK g : IsWalk(g, L, ids, roomId) /\ Roles(L, ids, roomId) = g[n]
    <3>1. \E g : IsWalk(g, L, ids, roomId) /\ Roles(L, ids, roomId) = g[Len(L)]
      BY <1>1, RolesWalk DEF n
    <3> QED BY <3>1 DEF n
  <2>2. PICK f : IsWalk(f, M, ids, roomId) /\ Roles(M, ids, roomId) = f[n + 1]
    <3>1. n + 1 \in Nat
      BY <1>1
    <3>2. \E f : IsWalk(f, M, ids, roomId) /\ Roles(M, ids, roomId) = f[Len(M)]
      BY <1>2, <3>1, RolesWalk
    <3> QED BY <3>2, <1>2
  <2> DEFINE T == {i \in 0 .. n + 1 : f[i] = g[P(i)]}
  <2>3. 0 \in T
    BY <2>1, <2>2, <1>1, <1>6, <1>7 DEF IsWalk
  <2>4. ASSUME NEW i \in 1 .. n + 1, i - 1 \in T PROVE i \in T
    <3>1. f[i - 1] = g[P(i - 1)]
      BY <2>4
    <3>2. f[i] = IF M[i].id \in ids THEN RoleStep(roomId, f[i - 1], M[i]) ELSE f[i - 1]
      BY <2>2, <1>2 DEF IsWalk
    <3>3. CASE i = k
      <4>1. f[i] = f[i - 1]
        BY <3>2, <3>3, <1>2
      <4>2. P(i - 1) = P(i)
        BY <3>3, <1>6
      <4> QED BY <4>1, <4>2, <3>1, <1>1
    <3>4. CASE i # k
      <4>1. P(i) \in 1 .. n /\ M[i] = L[P(i)] /\ P(i - 1) = P(i) - 1
        BY <3>4, <1>4, <1>6
      <4>2. g[P(i)] = IF L[P(i)].id \in ids THEN RoleStep(roomId, g[P(i) - 1], L[P(i)])
                      ELSE g[P(i) - 1]
        BY <2>1, <4>1 DEF IsWalk, n
      <4> QED BY <3>1, <3>2, <4>1, <4>2, <1>1
    <3> QED BY <3>3, <3>4
  <2>5. \A i \in 0 .. n + 1 : i \in T
    <3>1. n + 1 \in Nat
      BY <1>1
    <3> HIDE DEF T
    <3> QED BY <3>1, <2>3, <2>4, BoundedInduction
  <2>6. f[n + 1] = g[P(n + 1)]
    BY <2>5, <1>1
  <2> QED BY <2>1, <2>2, <2>6, <1>6
<1>9. \A x : Creator(M, ids, x) = Creator(L, ids, x)
  <2> SUFFICES ASSUME NEW x PROVE Creator(M, ids, x) = Creator(L, ids, x)
    OBVIOUS
  <2>1. CASE \E j \in DOMAIN L : L[j].id \in ids /\ L[j].type = "add" /\ L[j].on = x
    <3>1. PICK j \in DOMAIN L : L[j].id \in ids /\ L[j].type = "add" /\ L[j].on = x
      BY <2>1
    <3>2. Creator(L, ids, x) = L[j].dev
      BY <3>1, CreatorIs
    <3>3. Creator(M, ids, x) = M[Q(j)].dev
      BY <3>1, <1>5, <1>3, CreatorIs
    <3> QED BY <3>2, <3>3, <1>5
  <2>2. CASE \A j \in DOMAIN L : ~(L[j].id \in ids /\ L[j].type = "add" /\ L[j].on = x)
    <3>1. \A j \in DOMAIN M : ~(M[j].id \in ids /\ M[j].type = "add" /\ M[j].on = x)
      BY <2>2, <1>1, <1>2, <1>4
    <3> QED BY <2>2, <3>1, <1>3, CreatorIs
  <2> QED BY <2>1, <2>2
<1>10. ASSUME NEW r PROVE Board(M, ids, r) = Board(L, ids, r)
  <2>1. PICK g : IsPlay(g, L, ids, r) /\ Board(L, ids, r) = g[n]
    <3>1. \E g : IsPlay(g, L, ids, r) /\ Board(L, ids, r) = g[Len(L)]
      BY <1>1, BoardPlay DEF n
    <3> QED BY <3>1 DEF n
  <2>2. PICK f : IsPlay(f, M, ids, r) /\ Board(M, ids, r) = f[n + 1]
    <3>1. n + 1 \in Nat
      BY <1>1
    <3>2. \E f : IsPlay(f, M, ids, r) /\ Board(M, ids, r) = f[Len(M)]
      BY <1>2, <3>1, BoardPlay
    <3> QED BY <3>2, <1>2
  <2>3. /\ ~Counts(M, ids, r, k)
        /\ \A i \in 1 .. n + 1 : i # k => Counts(M, ids, r, i) = Counts(L, ids, r, P(i))
    <3>1. ~Counts(M, ids, r, k)
      BY <1>2 DEF Counts
    <3>2. ASSUME NEW i \in 1 .. n + 1, i # k
          PROVE  Counts(M, ids, r, i) = Counts(L, ids, r, P(i))
      <4>1. M[i] = L[P(i)]
        BY <3>2, <1>4
      <4>2. OwnQuestion(M, ids, M[i]) = OwnQuestion(L, ids, M[i])
        BY <1>9 DEF OwnQuestion
      <4> QED BY <4>1, <4>2 DEF Counts, Admits
    <3> QED BY <3>1, <3>2
  <2> DEFINE T == {i \in 0 .. n + 1 : f[i] = g[P(i)]}
  <2>4. 0 \in T
    BY <2>1, <2>2, <1>1, <1>6 DEF IsPlay
  <2>5. ASSUME NEW i \in 1 .. n + 1, i - 1 \in T PROVE i \in T
    <3>1. f[i - 1] = g[P(i - 1)]
      BY <2>5
    <3>2. f[i] = IF Counts(M, ids, r, i) THEN BoardStep(f[i - 1], M[i]) ELSE f[i - 1]
      BY <2>2, <1>2 DEF IsPlay
    <3>3. CASE i = k
      <4>1. f[i] = f[i - 1]
        BY <3>2, <3>3, <2>3
      <4>2. P(i - 1) = P(i)
        BY <3>3, <1>6
      <4> QED BY <4>1, <4>2, <3>1, <1>1
    <3>4. CASE i # k
      <4>1. P(i) \in 1 .. n /\ M[i] = L[P(i)] /\ P(i - 1) = P(i) - 1
        BY <3>4, <1>4, <1>6
      <4>2. g[P(i)] = IF Counts(L, ids, r, P(i)) THEN BoardStep(g[P(i) - 1], L[P(i)])
                      ELSE g[P(i) - 1]
        BY <2>1, <4>1 DEF IsPlay, n
      <4>3. Counts(M, ids, r, i) = Counts(L, ids, r, P(i))
        BY <2>3, <3>4
      <4> QED BY <3>1, <3>2, <4>1, <4>2, <4>3, <1>1
    <3> QED BY <3>3, <3>4
  <2>6. \A i \in 0 .. n + 1 : i \in T
    <3>1. n + 1 \in Nat
      BY <1>1
    <3> HIDE DEF T
    <3> QED BY <3>1, <2>4, <2>5, BoundedInduction
  <2>7. f[n + 1] = g[P(n + 1)]
    BY <2>6, <1>1
  <2> QED BY <2>1, <2>2, <2>7, <1>6
<1>11. Fold(M, ids, roomId) = Fold(L, ids, roomId)
  BY <1>8, <1>10 DEF Fold
<1> QED BY <1>11 DEF M

-----------------------------------------------------------------------------
(* The invariant *)

Ons == Devices \cup Tickets \cup Items \cup {NoDevice}

LEMMA WalkOns ==
  ASSUME NEW L, Sorted(L), NEW ids, NEW roomId, NEW g, IsWalk(g, L, ids, roomId)
  PROVE  \A k \in 0 .. Len(L) : g[k].admins \subseteq Ons /\ g[k].invites \subseteq Ons
<1> DEFINE T == {k \in 0 .. Len(L) : g[k].admins \subseteq Ons /\ g[k].invites \subseteq Ons}
<1>1. Len(L) \in Nat /\ DOMAIN L = 1 .. Len(L)
  BY DEF Sorted
<1>2. 0 \in T
  <2>1. g[0].admins \subseteq {Owner(L, ids)} \ {NoDevice} /\ g[0].invites = {}
    BY DEF IsWalk, NoRoles
  <2> QED BY <2>1, <1>1, OwnerIs, ModerationAssumption DEF Ons
<1>3. ASSUME NEW k \in 1 .. Len(L), k - 1 \in T PROVE k \in T
  <2> DEFINE r == g[k - 1]
             e == L[k]
             q == RoleStep(roomId, r, e)
  <2>1. IsRoles(r) /\ r.admins \subseteq Ons /\ r.invites \subseteq Ons
    BY <1>1, <1>3, WalkShape
  <2>2. e.dev \in Ons /\ e.on \in Ons
    <3>1. L[k] \in Events
      BY <1>1, SortedLen
    <3> QED BY <3>1 DEF Events, Ons
  <2>3. q.admins \subseteq r.admins \cup {e.dev, e.on} /\ q.invites \subseteq r.invites \cup {e.on}
    <3> HIDE DEF r, e
    <3>1. CASE Offers(r, e)
      BY <3>1, <2>1, RoleStepIs
    <3>2. CASE Redeems(roomId, r, e)
      BY <3>2, <2>1, RoleStepIs
    <3>3. CASE Raises(r, e)
      BY <3>3, <2>1, RoleStepIs
    <3>4. CASE Lowers(r, e)
      BY <3>4, <2>1, RoleStepIs
    <3>5. CASE ~Offers(r, e) /\ ~Redeems(roomId, r, e) /\ ~Raises(r, e) /\ ~Lowers(r, e)
      BY <3>5, <2>1, RoleStepIs
    <3> QED BY <3>1, <3>2, <3>3, <3>4, <3>5
  <2>4. g[k] = q \/ g[k] = r
    BY DEF IsWalk
  <2> HIDE DEF q, r, e
  <2> QED BY <2>1, <2>2, <2>3, <2>4, <1>1
<1>4. \A k \in 0 .. Len(L) : k \in T
  <2> HIDE DEF T
  <2> QED BY <1>1, <1>2, <1>3, BoundedInduction
<1> QED BY <1>4

\* The outboxes w hold ids up to n.
Outboxes(w, n) ==
  /\ w \in [Devices -> Seq(Nat)]
  /\ \A d \in Devices : \A i \in 1 .. Len(w[d]) : w[d][i] \in 1 .. n

IInv ==
  /\ room \in Rooms
  /\ Sorted(order)
  /\ Outboxes(waiting, Len(order))
  /\ log \in [Devices -> SUBSET (1 .. Len(order))]
  /\ fold = [d \in Devices |-> Fold(order, log[d], "its own")]

LEMMA OrderIs ==
  ASSUME IInv
  PROVE  /\ order \in Seq(Events) /\ Len(order) \in Nat /\ DOMAIN order = 1 .. Len(order)
         /\ Len(order) \in 0 .. Len(order) /\ Sorted(order)
<1>1. Sorted(order)
  BY DEF IInv
<1> QED BY <1>1, SortedLen

\* The fold of a device, as walks over the order.
LEMMA FoldIs ==
  ASSUME IInv, NEW d \in Devices
  PROVE  /\ \E g : /\ IsWalk(g, order, log[d], "its own")
                   /\ fold[d].roles = g[Len(order)]
         /\ \E h : /\ IsPlay(h, order, log[d], fold[d].roles)
                   /\ fold[d].board = h[Len(order)]
<1>1. DOMAIN order = 1 .. Len(order) /\ Len(order) \in Nat
  BY OrderIs
<1>2. /\ fold[d].roles = Roles(order, log[d], "its own")
      /\ fold[d].board = Board(order, log[d], fold[d].roles)
  BY DEF IInv, Fold
<1>3. \E g : /\ IsWalk(g, order, log[d], "its own")
             /\ Roles(order, log[d], "its own") = g[Len(order)]
  BY <1>1, RolesWalk
<1>4. \E h : /\ IsPlay(h, order, log[d], fold[d].roles)
             /\ Board(order, log[d], fold[d].roles) = h[Len(order)]
  BY <1>1, BoardPlay
<1> QED BY <1>2, <1>3, <1>4

\* Who sees an item has its "add".
LEMMA SeesAdd ==
  ASSUME IInv, NEW d \in Devices, NEW x, Sees(d, x)
  PROVE  \E j \in DOMAIN order :
           order[j].id \in log[d] /\ order[j].type = "add" /\ order[j].on = x
<1>1. PICK h : IsPlay(h, order, log[d], fold[d].roles) /\ fold[d].board = h[Len(order)]
  BY FoldIs
<1>2. Len(order) \in 0 .. Len(order) /\ DOMAIN order = 1 .. Len(order) /\ Sorted(order)
  BY OrderIs
<1>3. PlayOK(order, log[d], fold[d].roles, fold[d].board, Len(order))
  BY <1>1, <1>2, PlayShape
<1>4. x \in DOMAIN fold[d].board.items
  BY DEF Sees, Shown, Has
<1> QED BY <1>2, <1>3, <1>4 DEF PlayOK, Counts

LEMMA RolesOns ==
  ASSUME IInv, NEW d \in Devices
  PROVE  Admins(d) \subseteq Ons /\ Pending(d) \subseteq Ons
<1>1. PICK g : IsWalk(g, order, log[d], "its own") /\ fold[d].roles = g[Len(order)]
  BY FoldIs
<1>2. Len(order) \in 0 .. Len(order) /\ Sorted(order)
  BY OrderIs
<1> QED BY <1>1, <1>2, WalkOns DEF Admins, Pending

\* Every operation that writes is a Write of an event with these fields.
Writable(d, type, on, val) ==
  /\ type \in Types \ {"session.create"} /\ on \in Ons /\ val \in BOOLEAN
  /\ type \in ItemTypes => on \in Items
  /\ type = "add" => Unused(on)
  /\ type = "member.invite" => Unused(on) \/ on \in Pending(d)
  /\ type \in LaterTypes => Sees(d, on)

Writes(d) == \E type, on, val : Writable(d, type, on, val) /\ Write(d, type, on, val)

LEMMA NextWrites ==
  ASSUME IInv, Next
  PROVE  \E d \in Devices : \/ Writes(d)
                         \/ BindDevice(d) \/ BindLoam(d) \/ SignAnswered(d) \/ Receive(d)
<1>1. PICK d \in room.who :
        \/ SetConfig(d) \/ AddAdmin(d) \/ RemoveAdmin(d)
        \/ CreateInvite(d) \/ RevokeInvite(d) \/ RedeemInvite(d)
        \/ AddQuestion(d) \/ EditQuestion(d) \/ DeleteQuestion(d)
        \/ PostAnswer(d) \/ CreatePoll(d) \/ DeletePoll(d) \/ SetFlag(d) \/ CastVote(d)
        \/ BindDevice(d) \/ BindLoam(d) \/ SignAnswered(d) \/ Receive(d)
  BY DEF Next
<1>2. d \in Devices
  BY ModerationAssumption DEF IInv
<1>3. Admins(d) \subseteq Ons /\ Pending(d) \subseteq Ons
  BY <1>2, RolesOns
<1> SUFFICES ASSUME ~(BindDevice(d) \/ BindLoam(d) \/ SignAnswered(d) \/ Receive(d))
             PROVE  Writes(d)
  BY <1>2
<1>4. CASE SetConfig(d)
  <2>1. PICK b \in BOOLEAN : Write(d, "session.config", NoDevice, b)
    BY <1>4 DEF SetConfig
  <2>2. Writable(d, "session.config", NoDevice, b)
    BY <2>1, <1>3 DEF Writable, Ons, Types, ItemTypes, LaterTypes, Items
  <2> QED BY <2>1, <2>2 DEF Writes
<1>5. CASE AddAdmin(d)
  <2>1. PICK x \in Devices \ Admins(d) : Write(d, "admin.add", x, TRUE)
    BY <1>5 DEF AddAdmin
  <2>2. Writable(d, "admin.add", x, TRUE)
    BY <2>1, <1>3 DEF Writable, Ons, Types, ItemTypes, LaterTypes, Items
  <2> QED BY <2>1, <2>2 DEF Writes
<1>6. CASE RemoveAdmin(d)
  <2>1. PICK x \in Admins(d) : Write(d, "admin.remove", x, TRUE)
    BY <1>6 DEF RemoveAdmin
  <2>2. Writable(d, "admin.remove", x, TRUE)
    BY <2>1, <1>3 DEF Writable, Ons, Types, ItemTypes, LaterTypes, Items
  <2> QED BY <2>1, <2>2 DEF Writes
<1>7. CASE CreateInvite(d)
  <2>1. PICK x \in Tickets : Unused(x) /\ Write(d, "member.invite", x, TRUE)
    BY <1>7 DEF CreateInvite
  <2>2. Writable(d, "member.invite", x, TRUE)
    BY <2>1, <1>3 DEF Writable, Ons, Types, ItemTypes, LaterTypes, Items
  <2> QED BY <2>1, <2>2 DEF Writes
<1>8. CASE RevokeInvite(d)
  <2>1. PICK x \in Pending(d) : Write(d, "member.invite", x, FALSE)
    BY <1>8 DEF RevokeInvite
  <2>2. Writable(d, "member.invite", x, FALSE)
    BY <2>1, <1>3 DEF Writable, Ons, Types, ItemTypes, LaterTypes, Items
  <2> QED BY <2>1, <2>2 DEF Writes
<1>9. CASE RedeemInvite(d)
  <2>1. PICK x \in Tickets : Write(d, "member.claim", x, TRUE)
    BY <1>9 DEF RedeemInvite
  <2>2. Writable(d, "member.claim", x, TRUE)
    BY <2>1, <1>3 DEF Writable, Ons, Types, ItemTypes, LaterTypes, Items
  <2> QED BY <2>1, <2>2 DEF Writes
<1>10. CASE AddQuestion(d)
  <2>1. PICK x \in Questions : Unused(x) /\ Write(d, "add", x, FALSE)
    BY <1>10 DEF AddQuestion
  <2>2. Writable(d, "add", x, FALSE)
    BY <2>1, <1>3 DEF Writable, Ons, Types, ItemTypes, LaterTypes, Items
  <2> QED BY <2>1, <2>2 DEF Writes
<1>11. CASE EditQuestion(d)
  <2>1. PICK x \in Questions : Sees(d, x) /\ Write(d, "edit", x, TRUE)
    BY <1>11 DEF EditQuestion
  <2>2. Writable(d, "edit", x, TRUE)
    BY <2>1, <1>3 DEF Writable, Ons, Types, ItemTypes, LaterTypes, Items
  <2> QED BY <2>1, <2>2 DEF Writes
<1>12. CASE DeleteQuestion(d)
  <2>1. PICK x \in Questions : Sees(d, x) /\ Write(d, "delete", x, TRUE)
    BY <1>12 DEF DeleteQuestion
  <2>2. Writable(d, "delete", x, TRUE)
    BY <2>1, <1>3 DEF Writable, Ons, Types, ItemTypes, LaterTypes, Items
  <2> QED BY <2>1, <2>2 DEF Writes
<1>13. CASE PostAnswer(d)
  <2>1. PICK x \in Answers : Unused(x) /\ Write(d, "add", x, FALSE)
    BY <1>13 DEF PostAnswer
  <2>2. Writable(d, "add", x, FALSE)
    BY <2>1, <1>3 DEF Writable, Ons, Types, ItemTypes, LaterTypes, Items
  <2> QED BY <2>1, <2>2 DEF Writes
<1>14. CASE CreatePoll(d)
  <2>1. PICK x \in Polls, b \in BOOLEAN : Unused(x) /\ Write(d, "add", x, b)
    BY <1>14 DEF CreatePoll
  <2>2. Writable(d, "add", x, b)
    BY <2>1, <1>3 DEF Writable, Ons, Types, ItemTypes, LaterTypes, Items
  <2> QED BY <2>1, <2>2 DEF Writes
<1>15. CASE DeletePoll(d)
  <2>1. PICK x \in Polls : Sees(d, x) /\ Write(d, "delete", x, TRUE)
    BY <1>15 DEF DeletePoll
  <2>2. Writable(d, "delete", x, TRUE)
    BY <2>1, <1>3 DEF Writable, Ons, Types, ItemTypes, LaterTypes, Items
  <2> QED BY <2>1, <2>2 DEF Writes
<1>16. CASE SetFlag(d)
  <2>1. PICK x \in Items, b \in BOOLEAN : Sees(d, x) /\ Write(d, "flag", x, b)
    BY <1>16 DEF SetFlag
  <2>2. Writable(d, "flag", x, b)
    BY <2>1, <1>3 DEF Writable, Ons, Types, ItemTypes, LaterTypes, Items
  <2> QED BY <2>1, <2>2 DEF Writes
<1>17. CASE CastVote(d)
  <2>1. PICK x \in Items, b \in BOOLEAN : Sees(d, x) /\ Write(d, "vote", x, b)
    BY <1>17 DEF CastVote
  <2>2. Writable(d, "vote", x, b)
    BY <2>1, <1>3 DEF Writable, Ons, Types, ItemTypes, LaterTypes, Items
  <2> QED BY <2>1, <2>2 DEF Writes
<1> QED BY <1>1, <1>2, <1>4, <1>5, <1>6, <1>7, <1>8, <1>9, <1>10, <1>11, <1>12, <1>13,
           <1>14, <1>15, <1>16, <1>17

\* What a write does: the new event sorts after all that its author has, and goes into
\* its log or into its outbox.
Written(d, k, e) ==
  /\ k \in 1 .. Len(order) + 1
  /\ e \in Events /\ e.id = Len(order) + 1 /\ e.dev = d
  /\ Writable(d, e.type, e.on, e.val)
  /\ \A i \in DOMAIN order : order[i].id \in log[d] => i < k
  /\ order' = InsertAt(order, k, e)
  /\ \/ Enter(d, {e.id}) /\ waiting' = waiting
     \/ waiting' = [waiting EXCEPT ![d] = Append(@, e.id)] /\ UNCHANGED <<log, fold>>
  /\ room' = room

LEMMA WritesIs ==
  ASSUME IInv, NEW d \in Devices, Writes(d)
  PROVE  \E k, e : Written(d, k, e)
<1>1. PICK type, on, val : Writable(d, type, on, val) /\ Write(d, type, on, val)
  BY DEF Writes
<1> DEFINE e == Event(d, type, on, val)
<1>2. PICK k \in 1 .. Len(order) + 1 :
        /\ \A i \in DOMAIN order : order[i].id \in log[d] \cup ToSet(waiting[d]) => i < k
        /\ order' = InsertAt(order, k, e)
  BY <1>1 DEF Write
<1>3. Len(order) + 1 \in Nat
  BY OrderIs
<1>4. /\ e \in Events /\ e.id = Len(order) + 1 /\ e.dev = d
      /\ e.type = type /\ e.on = on /\ e.val = val
  <2>1. type \in Types /\ on \in Ons /\ val \in BOOLEAN
    BY <1>1 DEF Writable
  <2> QED BY <1>3, <2>1 DEF Event, Events, Ons
<1>5. /\ \/ Enter(d, {Len(order) + 1}) /\ waiting' = waiting
         \/ /\ waiting' = [waiting EXCEPT ![d] = Append(@, Len(order) + 1)]
            /\ UNCHANGED <<log, fold>>
      /\ room' = room
  BY <1>1 DEF Write, PushEvent
<1> HIDE DEF e
<1>6. Written(d, k, e)
  BY <1>1, <1>2, <1>4, <1>5 DEF Written
<1> QED BY <1>6

LEMMA WrittenSorted ==
  ASSUME IInv, NEW d \in Devices, NEW k, NEW e, Written(d, k, e)
  PROVE  /\ Sorted(order) /\ Sorted(order') /\ order' = InsertAt(order, k, e)
         /\ Len(order') = Len(order) + 1
<1>1. Sorted(order) /\ order \in Seq(Events)
  BY DEF IInv, Sorted
<1>2. /\ k \in 1 .. Len(order) + 1
      /\ e \in Events /\ e.id = Len(order) + 1
      /\ Writable(d, e.type, e.on, e.val)
      /\ \A i \in DOMAIN order : order[i].id \in log[d] => i < k
      /\ order' = InsertAt(order, k, e)
  BY DEF Written
<1>3. e.type # "session.create" /\ (e.type \in ItemTypes => e.on \in Items)
  BY <1>2 DEF Writable
<1>4. e.type = "add" => \A i \in DOMAIN order : order[i].on # e.on
  BY <1>2 DEF Writable, Unused
<1>5. e.type \in LaterTypes =>
        \E j \in DOMAIN order : j < k /\ order[j].type = "add" /\ order[j].on = e.on
  BY <1>2, SeesAdd DEF Writable
<1>6. Sorted(order')
  BY <1>1, <1>2, <1>3, <1>4, <1>5, InsertSorted
<1>7. Len(order') = Len(order) + 1
  BY <1>1, <1>2, InsertIs
<1> QED BY <1>1, <1>2, <1>6, <1>7

\* A device shows afterwards what its log folds to.
LEMMA EnterFolds ==
  ASSUME IInv, NEW d \in Devices, NEW ids, Enter(d, ids)
  PROVE  /\ log'[d] = log[d] \cup ids /\ fold'[d] = Fold(order', log'[d], "its own")
         /\ \A c \in Devices \ {d} : log'[c] = log[c] /\ fold'[c] = fold[c]
         /\ DOMAIN log' = Devices /\ DOMAIN fold' = Devices
         /\ fold' = [c \in Devices |-> fold'[c]] /\ log' = [c \in Devices |-> log'[c]]
BY DEF IInv, Enter

LEMMA WrittenInv ==
  ASSUME IInv, NEW d \in Devices, NEW k, NEW e, Written(d, k, e)
  PROVE  IInv'
<1>1. /\ Sorted(order) /\ Sorted(order') /\ order' = InsertAt(order, k, e)
      /\ Len(order') = Len(order) + 1
  BY WrittenSorted
<1>2. /\ k \in 1 .. Len(order) + 1 /\ e \in Events /\ e.id = Len(order) + 1
      /\ \/ Enter(d, {e.id}) /\ waiting' = waiting
         \/ waiting' = [waiting EXCEPT ![d] = Append(@, e.id)] /\ UNCHANGED <<log, fold>>
      /\ room' = room
  BY DEF Written
<1>3. /\ Len(order) \in Nat /\ e.id \in 1 .. Len(order')
      /\ 1 .. Len(order) \subseteq 1 .. Len(order')
  BY <1>1, <1>2, OrderIs
<1>4. log' \in [Devices -> SUBSET (1 .. Len(order'))]
  <2>1. log \in [Devices -> SUBSET (1 .. Len(order'))]
    BY <1>3 DEF IInv
  <2>2. CASE log' = [log EXCEPT ![d] = @ \cup {e.id}]
    BY <2>1, <2>2, <1>3
  <2>3. CASE log' = log
    BY <2>1, <2>3
  <2> QED BY <2>2, <2>3, <1>2 DEF Enter
<1>5. Outboxes(waiting', Len(order'))
  <2>1. Outboxes(waiting, Len(order'))
    BY <1>3 DEF IInv, Outboxes
  <2>2. CASE waiting' = waiting
    BY <2>1, <2>2
  <2>3. CASE waiting' = [waiting EXCEPT ![d] = Append(@, e.id)]
    <3>1. waiting[d] \in Seq(Nat) /\ Len(waiting[d]) \in Nat /\ e.id \in Nat
      BY <2>1, <1>3 DEF Outboxes
    <3>2. waiting' \in [Devices -> Seq(Nat)]
      BY <2>1, <2>3, <3>1 DEF Outboxes
    <3>3. ASSUME NEW c \in Devices, NEW i \in 1 .. Len(waiting'[c])
          PROVE  waiting'[c][i] \in 1 .. Len(order')
      <4>1. CASE c # d
        BY <4>1, <2>1, <2>3, <3>3 DEF Outboxes
      <4>2. CASE c = d
        <5>1. waiting'[d] = Append(waiting[d], e.id)
          BY <2>1, <2>3 DEF Outboxes
        <5>2. i \in 1 .. Len(waiting[d]) \/ i = Len(waiting[d]) + 1
          BY <3>1, <3>3, <4>2, <5>1
        <5>3. CASE i \in 1 .. Len(waiting[d])
          <6>1. waiting'[d][i] = waiting[d][i]
            BY <3>1, <5>1, <5>3
          <6> QED BY <6>1, <5>3, <4>2, <2>1 DEF Outboxes
        <5>4. CASE i = Len(waiting[d]) + 1
          <6>1. waiting'[d][i] = e.id
            BY <3>1, <5>1, <5>4
          <6> QED BY <6>1, <4>2, <1>3
        <5> QED BY <5>2, <5>3, <5>4
      <4> QED BY <4>1, <4>2
    <3> QED BY <3>2, <3>3 DEF Outboxes
  <2> QED BY <1>2, <2>2, <2>3
<1>6. ASSUME NEW c \in Devices PROVE Fold(order', log[c], "its own") = fold[c]
  <2>1. e.id \notin log[c]
    <3>1. log[c] \subseteq 1 .. Len(order)
      BY DEF IInv
    <3> QED BY <3>1, <1>2, <1>3
  <2>2. Sorted(order) /\ Sorted(InsertAt(order, k, e))
    BY <1>1
  <2>3. k \in 1 .. Len(order) + 1 /\ e \in Events
    BY <1>2
  <2>4. \A r : Fold(InsertAt(order, k, e), log[c], r) = Fold(order, log[c], r)
    BY <2>1, <2>2, <2>3, FoldUnseen
  <2>5. fold[c] = Fold(order, log[c], "its own")
    BY DEF IInv
  <2> QED BY <2>4, <2>5, <1>1
<1>7. fold' = [c \in Devices |-> Fold(order', log'[c], "its own")]
  <2>1. CASE Enter(d, {e.id})
    <3>1. \A c \in Devices : fold'[c] = Fold(order', log'[c], "its own")
      BY <2>1, <1>6, EnterFolds
    <3>2. fold' = [c \in Devices |-> fold'[c]]
      BY <2>1, EnterFolds
    <3> QED BY <3>1, <3>2
  <2>2. CASE UNCHANGED <<log, fold>>
    <3>1. \A c \in Devices : fold'[c] = Fold(order', log'[c], "its own")
      BY <2>2, <1>6
    <3>2. fold' = [c \in Devices |-> fold'[c]]
      BY <2>2 DEF IInv
    <3> QED BY <3>1, <3>2
  <2> QED BY <1>2, <2>1, <2>2
<1> QED BY <1>1, <1>2, <1>4, <1>5, <1>7 DEF IInv

\* What every other step does: events of the order enter a log, or none.
Entered(d, ids) ==
  /\ ids \subseteq 1 .. Len(order)
  /\ order' = order /\ room' = room
  /\ Outboxes(waiting', Len(order))
  /\ Enter(d, ids) \/ UNCHANGED <<log, fold>>

LEMMA EnteredInv ==
  ASSUME IInv, NEW d \in Devices, NEW ids, Entered(d, ids)
  PROVE  IInv'
<1>1. ids \subseteq 1 .. Len(order) /\ order' = order /\ room' = room
  BY DEF Entered
<1>2. log' \in [Devices -> SUBSET (1 .. Len(order'))]
  <2>1. log \in [Devices -> SUBSET (1 .. Len(order))]
    BY DEF IInv
  <2> QED BY <2>1, <1>1 DEF Entered, Enter
<1>3. fold' = [c \in Devices |-> Fold(order', log'[c], "its own")]
  <2>1. CASE Enter(d, ids)
    <3>1. \A c \in Devices : fold'[c] = Fold(order', log'[c], "its own")
      BY <2>1, <1>1, EnterFolds DEF IInv
    <3>2. fold' = [c \in Devices |-> fold'[c]]
      BY <2>1, EnterFolds
    <3> QED BY <3>1, <3>2
  <2>2. CASE UNCHANGED <<log, fold>>
    BY <2>2, <1>1 DEF IInv
  <2> QED BY <2>1, <2>2 DEF Entered
<1> QED BY <1>1, <1>2, <1>3 DEF IInv, Entered

LEMMA NextIs ==
  ASSUME IInv, Next
  PROVE  \E d \in Devices : (\E k, e : Written(d, k, e)) \/ (\E ids : Entered(d, ids))
<1>1. PICK d \in Devices :
        Writes(d) \/ BindDevice(d) \/ BindLoam(d) \/ SignAnswered(d) \/ Receive(d)
  BY NextWrites
<1>2. /\ Outboxes(waiting, Len(order)) /\ waiting[d] \in Seq(Nat) /\ Len(waiting[d]) \in Nat
      /\ \A i \in 1 .. Len(waiting[d]) : waiting[d][i] \in 1 .. Len(order)
  <2>1. Outboxes(waiting, Len(order))
    BY DEF IInv
  <2> QED BY <2>1 DEF Outboxes
<1>3. CASE Writes(d)
  BY <1>3, WritesIs
<1>4. CASE BindDevice(d)
  <2>1. ToSet(waiting[d]) \subseteq 1 .. Len(order)
    BY <1>2 DEF ToSet
  <2>2. /\ waiting' = [waiting EXCEPT ![d] = << >>]
        /\ order' = order /\ room' = room /\ Enter(d, ToSet(waiting[d]))
    BY <1>4 DEF BindDevice
  <2>3. Outboxes(waiting', Len(order))
    BY <2>2, <1>2 DEF Outboxes
  <2>4. Entered(d, ToSet(waiting[d]))
    BY <2>1, <2>2, <2>3 DEF Entered
  <2> QED BY <2>4
<1>5. CASE BindLoam(d)
  <2>1. order' = order /\ room' = room /\ waiting' = waiting /\ UNCHANGED <<log, fold>>
    BY <1>5 DEF BindLoam
  <2>2. Entered(d, {})
    BY <2>1, <1>2 DEF Entered
  <2> QED BY <2>2
<1>6. CASE SignAnswered(d)
  <2>1. /\ waiting[d] # << >> /\ waiting' = [waiting EXCEPT ![d] = Tail(@)]
        /\ order' = order /\ room' = room /\ Enter(d, {Head(waiting[d])})
    BY <1>6 DEF SignAnswered
  <2>2. Head(waiting[d]) \in 1 .. Len(order)
    BY <2>1, <1>2
  <2>3. Outboxes(waiting', Len(order))
    <3>1. /\ Tail(waiting[d]) \in Seq(Nat)
          /\ \A i \in 1 .. Len(Tail(waiting[d])) : Tail(waiting[d])[i] \in 1 .. Len(order)
      BY <2>1, <1>2
    <3> QED BY <3>1, <2>1, <1>2 DEF Outboxes
  <2>4. Entered(d, {Head(waiting[d])})
    BY <2>1, <2>2, <2>3 DEF Entered
  <2> QED BY <2>4
<1>7. CASE Receive(d)
  <2>1. PICK i \in DOMAIN order :
          UNCHANGED <<room, order, mode, waiting>> /\ Enter(d, {order[i].id})
    BY <1>7 DEF Receive
  <2>2. order[i].id \in 1 .. Len(order)
    BY <2>1 DEF IInv, Sorted
  <2>3. Entered(d, {order[i].id})
    BY <2>1, <2>2, <1>2 DEF Entered
  <2> QED BY <2>3
<1> QED BY <1>1, <1>3, <1>4, <1>5, <1>6, <1>7

LEMMA InitInv == Init => IInv
<1> SUFFICES ASSUME Init PROVE IInv
  OBVIOUS
<1> DEFINE e == [id |-> 1, dev |-> Founder, type |-> "session.create",
                 on |-> NoDevice, val |-> TRUE]
<1>1. order = <<e>> /\ Len(order) = 1 /\ DOMAIN order = {1} /\ order[1] = e
  <2>1. order = <<e>>
    BY DEF Init
  <2> HIDE DEF e
  <2> QED BY <2>1
<1>2. e \in Events
  BY ModerationAssumption DEF Events, Types
<1>3. order \in Seq(Events)
  <2> HIDE DEF e
  <2> QED BY <1>1, <1>2
<1>4. Sorted(order)
  <2>1. /\ e.id = 1 /\ e.dev = Founder /\ e.type = "session.create"
        /\ e.type \notin ItemTypes /\ e.type \notin LaterTypes /\ e.type # "add"
    BY DEF ItemTypes, LaterTypes
  <2>2. 1 \in 1 .. Len(order)
    BY <1>1
  <2> HIDE DEF e
  <2> QED BY <1>1, <1>3, <2>1, <2>2 DEF Sorted
<1>5. 1 \in 1 .. Len(order)
  BY <1>1
<1>6. log \in [Devices -> SUBSET (1 .. Len(order))]
  <2>1. log = [d \in Devices |-> IF d = Founder /\ mode[d] # "" THEN {1} ELSE {}]
    BY DEF Init
  <2> HIDE DEF e
  <2> QED BY <2>1, <1>5
<1>7. Outboxes(waiting, Len(order))
  <2>1. waiting = [d \in Devices |-> IF d = Founder /\ mode[d] = "" THEN <<1>> ELSE << >>]
    BY DEF Init
  <2>2. \A d \in Devices : waiting[d] = <<1>> \/ waiting[d] = << >>
    BY <2>1, Zenon
  <2>3. waiting = [d \in Devices |-> waiting[d]]
    BY <2>1, Zenon
  <2>4. <<1>> \in Seq(Nat) /\ << >> \in Seq(Nat) /\ Len(<<1>>) = 1 /\ Len(<< >>) = 0 /\ <<1>>[1] = 1
    OBVIOUS
  <2> HIDE DEF e
  <2>5. \A d \in Devices : waiting[d] \in Seq(Nat)
    BY <2>2, <2>4
  <2>6. \A d \in Devices : \A i \in 1 .. Len(waiting[d]) : waiting[d][i] \in 1 .. Len(order)
    BY <2>2, <2>4, <1>5
  <2>7. waiting \in [Devices -> Seq(Nat)]
    BY <2>3, <2>5
  <2> QED BY <2>6, <2>7 DEF Outboxes
<1> QED BY <1>4, <1>6, <1>7 DEF Init, IInv

\* The invariant of the room: the order of the stamps is well formed, and what a
\* device shows is what its log folds to.
THEOREM Invariance == Spec => []IInv
<1>1. Init => IInv
  BY InitInv
<1>2. IInv /\ [Next]_vars => IInv'
  <2> SUFFICES ASSUME IInv, [Next]_vars PROVE IInv'
    OBVIOUS
  <2>1. CASE Next
    BY <2>1, NextIs, WrittenInv, EnteredInv
  <2>2. CASE UNCHANGED vars
    BY <2>2 DEF vars, IInv
  <2> QED BY <2>1, <2>2
<1> QED BY <1>1, <1>2, PTL DEF Spec

\* AdminsComeFromOwner (admitEvents): whatever was written by devices that did not
\* know the session yet, while the founder lets nobody in there is no other admin.
THEOREM AdminsOnlyFromOwner == Spec => []AdminsComeFromOwner
<1>1. IInv => AdminsComeFromOwner
  <2> SUFFICES ASSUME IInv, NEW d \in Devices,
                      \A i \in DOMAIN order : order[i].type \in Grants => order[i].dev # Founder
               PROVE  Admins(d) \subseteq {Founder}
    BY DEF AdminsComeFromOwner
  <2>1. PICK g, own : IsWalk(g, order, log[d], own) /\ fold[d].roles = g[Len(order)]
    BY FoldIs
  <2>2. Len(order) \in 0 .. Len(order) /\ Sorted(order)
    BY OrderIs
  <2> QED BY <2>1, <2>2, WalkAlone DEF Admins
<1> QED BY <1>1, Invariance, PTL

\* TicketOnce (admitEvents): of the claims of one ticket at most one has effect in
\* a log, and a ticket that was redeemed is not pending any more.
THEOREM OneAdminPerTicket == Spec => []TicketOnce
<1>1. IInv => TicketOnce
  <2> SUFFICES ASSUME IInv, NEW d \in Devices, NEW t \in Tickets
               PROVE  /\ Cardinality(ClaimsOf(d, t)) <= 1
                      /\ ClaimsOf(d, t) # {} => t \notin Pending(d)
    BY DEF TicketOnce
  <2>1. PICK g : IsWalk(g, order, log[d], "its own") /\ fold[d].roles = g[Len(order)]
    BY FoldIs
  <2>2. Len(order) \in 0 .. Len(order) /\ Sorted(order)
    BY OrderIs
  <2>3. OneClaim(order, fold[d].roles, Len(order))
    BY <2>1, <2>2, WalkClaims
  <2>4. \A i, j \in ClaimsOf(d, t) : i = j
    BY <2>3 DEF OneClaim, ClaimsOf
  <2>5. Cardinality(ClaimsOf(d, t)) <= 1
    <3>1. CASE ClaimsOf(d, t) = {}
      BY <3>1, FS_EmptySet
    <3>2. CASE ClaimsOf(d, t) # {}
      <4>1. PICK i : ClaimsOf(d, t) = {i}
        BY <3>2, <2>4
      <4> QED BY <4>1, FS_Singleton
    <3> QED BY <3>1, <3>2
  <2>6. ClaimsOf(d, t) # {} => t \notin Pending(d)
    BY <2>3 DEF OneClaim, ClaimsOf, Pending
  <2> QED BY <2>5, <2>6
<1> QED BY <1>1, Invariance, PTL

-----------------------------------------------------------------------------
(* Deleted questions *)

\* Whatever the roles are, from the author's delete on the question is deleted on
\* every board that has it.
LEMMA DeleteHolds ==
  ASSUME NEW L, Sorted(L), NEW ids, NEW r, NEW h, IsPlay(h, L, ids, r),
         NEW p \in DOMAIN L, L[p].type = "delete", L[p].id \in ids, L[p].on \in Questions,
         Creator(L, 1 .. Len(L), L[p].on) = L[p].dev
  PROVE  \A k \in 0 .. Len(L) :
           k >= p /\ L[p].on \in DOMAIN h[k].items => h[k].items[L[p].on].deleted = TRUE
<1> DEFINE x == L[p].on
           T == {k \in 0 .. Len(L) :
                   k >= p /\ x \in DOMAIN h[k].items => h[k].items[x].deleted = TRUE}
<1>1. Len(L) \in Nat /\ DOMAIN L = 1 .. Len(L)
  BY SortedLen
<1>2. PICK j \in DOMAIN L : j < p /\ L[j].type = "add" /\ L[j].on = x
  BY DEF Sorted, LaterTypes
<1>3. \A i \in DOMAIN L : L[i].type = "add" /\ L[i].on = x => i = j
  BY <1>2 DEF Sorted
<1>4. \A k \in 0 .. Len(L) : PlayOK(L, ids, r, h[k], k)
  BY PlayShape
<1>5. CASE L[j].id \notin ids
  <2>1. ASSUME NEW k \in 0 .. Len(L) PROVE x \notin DOMAIN h[k].items
    <3>1. \A i \in 1 .. k : ~(Counts(L, ids, r, i) /\ L[i].type = "add" /\ L[i].on = x)
      BY <1>1, <1>3, <1>5 DEF Counts
    <3> HIDE DEF x
    <3> QED BY <3>1, <1>4 DEF PlayOK
  <2> QED BY <2>1
<1>6. CASE L[j].id \in ids
  <2>1. Creator(L, ids, x) = L[j].dev
    BY <1>2, <1>6, CreatorIs
  <2>2. Creator(L, 1 .. Len(L), x) = L[j].dev
    <3>1. L[j].id \in 1 .. Len(L)
      BY DEF Sorted
    <3> QED BY <3>1, <1>2, CreatorIs
  <2>3. Counts(L, ids, r, p)
    BY <2>1, <2>2 DEF Counts, Admits, OwnQuestion
  <2>4. 0 \in T
    BY <1>1
  <2>5. ASSUME NEW k \in 1 .. Len(L), k - 1 \in T PROVE k \in T
    <3> DEFINE b == h[k - 1]
               e == L[k]
    <3>1. CASE k < p
      BY <3>1, <1>1
    <3>2. CASE k >= p
      <4>1. IsBoard(b) /\ (e.type \in ItemTypes => e.on \in Items)
        <5>1. PlayOK(L, ids, r, b, k - 1)
          BY <1>1, <1>4
        <5> QED BY <5>1, <1>1 DEF PlayOK, Sorted
      <4>2. k - 1 >= p /\ x \in DOMAIN b.items => b.items[x].deleted = TRUE
        BY <2>5
      <4>3. ~(e.type = "add" /\ e.on = x)
        BY <3>2, <1>1, <1>2, <1>3
      <4>4. CASE ~Counts(L, ids, r, k)
        <5>1. h[k] = b /\ k # p
          BY <4>4, <2>3 DEF IsPlay
        <5>2. k - 1 >= p
          BY <5>1, <3>2, <1>1
        <5> HIDE DEF b, x
        <5> QED BY <5>1, <5>2, <4>2
      <4>5. CASE Counts(L, ids, r, k)
        <5>1. h[k].items = ItemsAfter(b, e)
          <6>1. h[k] = BoardStep(b, e)
            BY <4>5 DEF IsPlay
          <6> HIDE DEF b, e
          <6> QED BY <6>1, <4>1, BoardStepIs
        <5>2. x \in DOMAIN h[k].items => x \in DOMAIN b.items
          <6> HIDE DEF b, e, x
          <6> QED BY <5>1, <4>3 DEF ItemsAfter, Adds
        <5>3. x \in DOMAIN b.items => h[k].items[x] = ItemAfter(b.items[x], x, e)
          <6> HIDE DEF b, e, x
          <6> QED BY <5>1 DEF ItemsAfter
        <5>4. x \in DOMAIN b.items => ItemAfter(b.items[x], x, e).deleted = TRUE
          <6>1. CASE k = p
            BY <6>1 DEF ItemAfter
          <6>2. CASE k # p
            <7>1. k - 1 >= p
              BY <6>2, <3>2, <1>1
            <7> HIDE DEF b, e, x
            <7> QED BY <7>1, <4>2 DEF ItemAfter
          <6> QED BY <6>1, <6>2
        <5> HIDE DEF b, e, x
        <5> QED BY <5>2, <5>3, <5>4
      <4> QED BY <4>4, <4>5
    <3>3. k < p \/ k >= p
      BY <1>1
    <3> HIDE DEF T
    <3> QED BY <3>1, <3>2, <3>3
  <2>6. \A k \in 0 .. Len(L) : k \in T
    <3> HIDE DEF T
    <3> QED BY <1>1, <2>4, <2>5, BoundedInduction
  <2> QED BY <2>6
<1> QED BY <1>5, <1>6

LEMMA DeletedIsHidden ==
  ASSUME NEW L, Sorted(L), NEW ids, NEW r,
         NEW p \in DOMAIN L, L[p].type = "delete", L[p].id \in ids, L[p].on \in Questions,
         Creator(L, 1 .. Len(L), L[p].on) = L[p].dev
  PROVE  ~Shown(Board(L, ids, r), L[p].on)
<1>1. DOMAIN L = 1 .. Len(L) /\ Len(L) \in Nat /\ Len(L) \in 0 .. Len(L) /\ Len(L) >= p
  BY SortedLen
<1>2. PICK h : IsPlay(h, L, ids, r) /\ Board(L, ids, r) = h[Len(L)]
  BY <1>1, BoardPlay
<1>3. L[p].on \in DOMAIN h[Len(L)].items => h[Len(L)].items[L[p].on].deleted = TRUE
  BY <1>1, <1>2, DeleteHolds
<1> QED BY <1>2, <1>3 DEF Shown, Has

\* AuthorsDeleteIsTerminal (admitEvents, computeState, overlayPayload): a question its
\* author deleted is shown by nobody who has the delete, on the board or on the
\* stream, whatever else has arrived.
THEOREM DeleteIsTerminal == Spec => []AuthorsDeleteIsTerminal
<1>1. IInv => AuthorsDeleteIsTerminal
  <2> SUFFICES ASSUME IInv, NEW d \in Devices, NEW i \in DOMAIN order,
                      order[i].type = "delete", order[i].id \in log[d],
                      order[i].on \in Questions,
                      Creator(order, 1 .. Len(order), order[i].on) = order[i].dev
               PROVE  ~Sees(d, order[i].on) /\ order[i].on \notin Page(d)
    BY DEF AuthorsDeleteIsTerminal
  <2>1. \A r : ~Shown(Board(order, log[d], r), order[i].on)
    BY OrderIs, DeletedIsHidden
  <2>2. fold[d].board = Board(order, log[d], fold[d].roles)
    BY DEF IInv, Fold
  <2>3. Fold(order, log[d], "").board = Board(order, log[d], Roles(order, log[d], ""))
    BY DEF Fold
  <2> QED BY <2>1, <2>2, <2>3 DEF Sees, Page
<1> QED BY <1>1, Invariance, PTL

-----------------------------------------------------------------------------
(* Last writes *)

\* Place k of the log says something of x that counts.
SaidAt(L, ids, r, x, types, k) ==
  Counts(L, ids, r, k) /\ L[k].on = x /\ L[k].type \in types

\* What a place of the order does to an item and to the votes.
ItemStep(L, ids, r, x, k, before, after) ==
  /\ SaidAt(L, ids, r, x, {"add", "edit"}, k) => after[x].content = L[k].id
  /\ ~SaidAt(L, ids, r, x, {"add", "edit"}, k) => after[x].content = before[x].content
  /\ SaidAt(L, ids, r, x, {"add", "flag"}, k) => after[x].flag = L[k].val
  /\ ~SaidAt(L, ids, r, x, {"add", "flag"}, k) => after[x].flag = before[x].flag
  /\ SaidAt(L, ids, r, x, {"delete"}, k) => after[x].deleted = TRUE
  /\ SaidAt(L, ids, r, x, {"add"}, k) => after[x].deleted = FALSE
  /\ ~SaidAt(L, ids, r, x, {"add", "delete"}, k) => after[x].deleted = before[x].deleted
  /\ ~SaidAt(L, ids, r, x, {"add"}, k) => x \in DOMAIN before

LEMMA ItemAfterIs ==
  ASSUME NEW y, NEW x, NEW e
  PROVE  /\ ItemAfter(y, x, e).content = IF e.type = "edit" /\ e.on = x THEN e.id ELSE y.content
         /\ ItemAfter(y, x, e).flag = IF e.type = "flag" /\ e.on = x THEN e.val ELSE y.flag
         /\ e.type = "delete" /\ e.on = x => ItemAfter(y, x, e).deleted = TRUE
         /\ ~(e.type = "delete" /\ e.on = x) => ItemAfter(y, x, e).deleted = y.deleted
<1>1. /\ ItemAfter(y, x, e).content = IF e.type = "edit" /\ e.on = x THEN e.id ELSE y.content
      /\ ItemAfter(y, x, e).flag = IF e.type = "flag" /\ e.on = x THEN e.val ELSE y.flag
  BY DEF ItemAfter
<1>2. e.type = "delete" /\ e.on = x => ItemAfter(y, x, e).deleted = TRUE
  BY DEF ItemAfter
<1>3. ~(e.type = "delete" /\ e.on = x) => ItemAfter(y, x, e).deleted = y.deleted
  BY DEF ItemAfter
<1> QED BY <1>1, <1>2, <1>3

LEMMA PlayStep ==
  ASSUME NEW L, Sorted(L), NEW ids, NEW r, NEW h, IsPlay(h, L, ids, r),
         NEW k \in 1 .. Len(L)
  PROVE  /\ ~Counts(L, ids, r, k) => h[k] = h[k - 1]
         /\ Counts(L, ids, r, k) => h[k].votes = VotesAfter(h[k - 1], L[k])
         /\ Counts(L, ids, r, k) => h[k].title = TitleAfter(h[k - 1], L[k])
         /\ \A x \in DOMAIN h[k].items :
              ItemStep(L, ids, r, x, k, h[k - 1].items, h[k].items)
<1> DEFINE b == h[k - 1]
           e == L[k]
<1>1. Len(L) \in Nat /\ DOMAIN L = 1 .. Len(L)
  BY SortedLen
<1>2. PlayOK(L, ids, r, b, k - 1)
  BY <1>1, PlayShape
<1>3. ASSUME NEW x, x \in DOMAIN b.items PROVE ~(e.type = "add" /\ e.on = x)
  <2>1. PICK i \in 1 .. k - 1 : L[i].type = "add" /\ L[i].on = x
    BY <1>2, <1>3 DEF PlayOK
  <2>2. i \in DOMAIN L /\ k \in DOMAIN L /\ i # k
    BY <1>1
  <2> QED BY <2>1, <2>2 DEF Sorted
<1>4. CASE ~Counts(L, ids, r, k)
  <2>1. h[k] = b
    BY <1>4 DEF IsPlay
  <2>2. \A x, types : ~SaidAt(L, ids, r, x, types, k)
    BY <1>4 DEF SaidAt
  <2>3. \A x \in DOMAIN b.items : ItemStep(L, ids, r, x, k, b.items, b.items)
    BY <2>2 DEF ItemStep
  <2> QED BY <1>4, <2>1, <2>3
<1>5. CASE Counts(L, ids, r, k)
  <2>1. h[k] = BoardStep(b, e)
    BY <1>5 DEF IsPlay
  <2>2. IsBoard(b) /\ (e.type \in ItemTypes => e.on \in Items)
    BY <1>1, <1>2 DEF PlayOK, Sorted
  <2>3. /\ h[k].title = TitleAfter(b, e) /\ h[k].items = ItemsAfter(b, e)
        /\ h[k].votes = VotesAfter(b, e)
    <3> HIDE DEF b, e
    <3> QED BY <2>1, <2>2, BoardStepIs
  <2>4. ASSUME NEW x \in DOMAIN h[k].items
        PROVE  ItemStep(L, ids, r, x, k, b.items, h[k].items)
    <3> DEFINE y == b.items[x]
               z == h[k].items[x]
    <3>1. \A types : SaidAt(L, ids, r, x, types, k) <=> e.on = x /\ e.type \in types
      BY <1>5 DEF SaidAt
    <3>2. CASE x \in DOMAIN b.items
      <4>1. z = ItemAfter(y, x, e)
        BY <2>3, <3>2 DEF ItemsAfter
      <4>2. ~(e.on = x /\ e.type = "add")
        BY <3>2, <1>3
      <4> HIDE DEF b, e, y, z
      <4>3. /\ z.content = IF e.type = "edit" /\ e.on = x THEN e.id ELSE y.content
            /\ z.flag = IF e.type = "flag" /\ e.on = x THEN e.val ELSE y.flag
            /\ e.type = "delete" /\ e.on = x => z.deleted = TRUE
            /\ ~(e.type = "delete" /\ e.on = x) => z.deleted = y.deleted
        <5>1. z.content = IF e.type = "edit" /\ e.on = x THEN e.id ELSE y.content
          <6>1. ItemAfter(y, x, e).content = IF e.type = "edit" /\ e.on = x THEN e.id ELSE y.content
            BY DEF ItemAfter
          <6> QED BY <6>1, <4>1
        <5>2. z.flag = IF e.type = "flag" /\ e.on = x THEN e.val ELSE y.flag
          <6>1. ItemAfter(y, x, e).flag = IF e.type = "flag" /\ e.on = x THEN e.val ELSE y.flag
            BY DEF ItemAfter
          <6> QED BY <6>1, <4>1
        <5>3. e.type = "delete" /\ e.on = x => z.deleted = TRUE
          <6>1. e.type = "delete" /\ e.on = x => ItemAfter(y, x, e).deleted = TRUE
            BY ItemAfterIs
          <6> QED BY <6>1, <4>1, Zenon
        <5>4. ~(e.type = "delete" /\ e.on = x) => z.deleted = y.deleted
          <6>1. ~(e.type = "delete" /\ e.on = x) => ItemAfter(y, x, e).deleted = y.deleted
            BY ItemAfterIs
          <6> QED BY <6>1, <4>1, Zenon
        <5> QED BY <5>1, <5>2, <5>3, <5>4
      <4>4. /\ SaidAt(L, ids, r, x, {"add", "edit"}, k) => z.content = e.id
            /\ ~SaidAt(L, ids, r, x, {"add", "edit"}, k) => z.content = y.content
        BY <3>1, <4>2, <4>3
      <4>5. /\ SaidAt(L, ids, r, x, {"add", "flag"}, k) => z.flag = e.val
            /\ ~SaidAt(L, ids, r, x, {"add", "flag"}, k) => z.flag = y.flag
        BY <3>1, <4>2, <4>3
      <4>6. /\ SaidAt(L, ids, r, x, {"delete"}, k) => z.deleted = TRUE
            /\ ~SaidAt(L, ids, r, x, {"add"}, k)
            /\ ~SaidAt(L, ids, r, x, {"add", "delete"}, k) => z.deleted = y.deleted
        BY <3>1, <4>2, <4>3
      <4> QED BY <4>4, <4>5, <4>6, <3>2 DEF ItemStep, b, e, y, z
    <3>3. CASE x \notin DOMAIN b.items
      <4>1. e.type = "add" /\ e.on = x
        BY <2>3, <3>3 DEF ItemsAfter, Adds
      <4>2. z = [content |-> e.id, author |-> e.dev, flag |-> e.val, deleted |-> FALSE]
        BY <2>3, <3>3 DEF ItemsAfter
      <4>3. z.content = e.id /\ z.flag = e.val /\ z.deleted = FALSE
        <5> HIDE DEF z, e
        <5> QED BY <4>2
      <4>4. /\ SaidAt(L, ids, r, x, {"add", "edit"}, k)
            /\ SaidAt(L, ids, r, x, {"add", "flag"}, k)
            /\ SaidAt(L, ids, r, x, {"add"}, k)
            /\ ~SaidAt(L, ids, r, x, {"delete"}, k)
            /\ SaidAt(L, ids, r, x, {"add", "delete"}, k)
        BY <3>1, <4>1
      <4> HIDE DEF b, e, z
      <4> QED BY <4>3, <4>4 DEF ItemStep, e, z
    <3> QED BY <3>2, <3>3
  <2> HIDE DEF b, e
  <2> QED BY <1>5, <2>3, <2>4 DEF b, e
<1> QED BY <1>4, <1>5

\* The places up to k where something that counts is said of x.
Marks(L, ids, r, x, types, k) ==
  {q \in 1 .. k : SaidAt(L, ids, r, x, types, q)}
IsLast(m, S) == m \in S /\ \A q \in S : q <= m

LEMMA MarksStep ==
  ASSUME NEW L, NEW ids, NEW r, NEW x, NEW types, NEW k \in Nat \ {0}
  PROVE  /\ ~SaidAt(L, ids, r, x, types, k) =>
              Marks(L, ids, r, x, types, k) = Marks(L, ids, r, x, types, k - 1)
         /\ SaidAt(L, ids, r, x, types, k) => IsLast(k, Marks(L, ids, r, x, types, k))
<1>1. 1 .. k = (1 .. k - 1) \cup {k}
  OBVIOUS
<1>2. \A q \in 1 .. k : q <= k
  OBVIOUS
<1> QED BY <1>1, <1>2 DEF Marks, IsLast, SaidAt

LEMMA LastIsMax ==
  ASSUME NEW S \in SUBSET Nat, NEW m, IsLast(m, S)
  PROVE  Max(S) = m
<1>1. m \in S /\ \A q \in S : m >= q
  BY DEF IsLast
<1>2. Max(S) \in S /\ \A q \in S : Max(S) >= q
  BY <1>1 DEF Max
<1>3. Max(S) >= m /\ m >= Max(S) /\ Max(S) \in Nat /\ m \in Nat
  BY <1>1, <1>2
<1> QED BY <1>3

\* The content of an item is its last edit.
LEMMA ContentIsLast ==
  ASSUME NEW L, Sorted(L), NEW ids, NEW r, NEW h, IsPlay(h, L, ids, r)
  PROVE  \A k \in 0 .. Len(L) : \A x \in DOMAIN h[k].items :
           \E m : /\ IsLast(m, Marks(L, ids, r, x, {"add", "edit"}, k))
                  /\ h[k].items[x].content = L[m].id
<1> DEFINE P(k, x) == \E m : /\ IsLast(m, Marks(L, ids, r, x, {"add", "edit"}, k))
                             /\ h[k].items[x].content = L[m].id
           T == {k \in 0 .. Len(L) : \A x \in DOMAIN h[k].items : P(k, x)}
<1>1. Len(L) \in Nat /\ DOMAIN L = 1 .. Len(L)
  BY SortedLen
<1>2. 0 \in T
  <2>1. DOMAIN h[0].items = {}
    BY DEF IsPlay, EmptyBoard
  <2> QED BY <2>1, <1>1
<1>3. ASSUME NEW k \in 1 .. Len(L), k - 1 \in T PROVE k \in T
  <2>1. ASSUME NEW x \in DOMAIN h[k].items PROVE P(k, x)
    <3>1. ItemStep(L, ids, r, x, k, h[k - 1].items, h[k].items)
      BY PlayStep
    <3>2. CASE SaidAt(L, ids, r, x, {"add", "edit"}, k)
      <4>1. IsLast(k, Marks(L, ids, r, x, {"add", "edit"}, k))
        BY <3>2, MarksStep
      <4>2. h[k].items[x].content = L[k].id
        BY <3>1, <3>2 DEF ItemStep
      <4> QED BY <4>1, <4>2
    <3>3. CASE ~SaidAt(L, ids, r, x, {"add", "edit"}, k)
      <4>1. Marks(L, ids, r, x, {"add", "edit"}, k) = Marks(L, ids, r, x, {"add", "edit"}, k - 1)
        BY <3>3, MarksStep
      <4>2. h[k].items[x].content = h[k - 1].items[x].content
        BY <3>1, <3>3 DEF ItemStep
      <4>3. x \in DOMAIN h[k - 1].items
        BY <3>1, <3>3 DEF ItemStep, SaidAt
      <4>4. P(k - 1, x)
        <5> HIDE DEF P
        <5> QED BY <4>3, <1>3
      <4> QED BY <4>1, <4>2, <4>4
    <3> QED BY <3>2, <3>3
  <2> HIDE DEF P
  <2> QED BY <2>1, <1>1
<1>4. \A k \in 0 .. Len(L) : k \in T
  <2> HIDE DEF T
  <2> QED BY <1>1, <1>2, <1>3, BoundedInduction
<1> QED BY <1>4

\* Its flag is the last one set.
LEMMA FlagIsLast ==
  ASSUME NEW L, Sorted(L), NEW ids, NEW r, NEW h, IsPlay(h, L, ids, r)
  PROVE  \A k \in 0 .. Len(L) : \A x \in DOMAIN h[k].items :
           \E m : /\ IsLast(m, Marks(L, ids, r, x, {"add", "flag"}, k))
                  /\ h[k].items[x].flag = L[m].val
<1> DEFINE P(k, x) == \E m : /\ IsLast(m, Marks(L, ids, r, x, {"add", "flag"}, k))
                             /\ h[k].items[x].flag = L[m].val
           T == {k \in 0 .. Len(L) : \A x \in DOMAIN h[k].items : P(k, x)}
<1>1. Len(L) \in Nat /\ DOMAIN L = 1 .. Len(L)
  BY SortedLen
<1>2. 0 \in T
  <2>1. DOMAIN h[0].items = {}
    BY DEF IsPlay, EmptyBoard
  <2> QED BY <2>1, <1>1
<1>3. ASSUME NEW k \in 1 .. Len(L), k - 1 \in T PROVE k \in T
  <2>1. ASSUME NEW x \in DOMAIN h[k].items PROVE P(k, x)
    <3>1. ItemStep(L, ids, r, x, k, h[k - 1].items, h[k].items)
      BY PlayStep
    <3>2. CASE SaidAt(L, ids, r, x, {"add", "flag"}, k)
      <4>1. IsLast(k, Marks(L, ids, r, x, {"add", "flag"}, k))
        BY <3>2, MarksStep
      <4>2. h[k].items[x].flag = L[k].val
        BY <3>1, <3>2 DEF ItemStep
      <4> QED BY <4>1, <4>2
    <3>3. CASE ~SaidAt(L, ids, r, x, {"add", "flag"}, k)
      <4>1. Marks(L, ids, r, x, {"add", "flag"}, k) = Marks(L, ids, r, x, {"add", "flag"}, k - 1)
        BY <3>3, MarksStep
      <4>2. h[k].items[x].flag = h[k - 1].items[x].flag
        BY <3>1, <3>3 DEF ItemStep
      <4>3. x \in DOMAIN h[k - 1].items
        BY <3>1, <3>3 DEF ItemStep, SaidAt
      <4>4. P(k - 1, x)
        <5> HIDE DEF P
        <5> QED BY <4>3, <1>3
      <4> QED BY <4>1, <4>2, <4>4
    <3> QED BY <3>2, <3>3
  <2> HIDE DEF P
  <2> QED BY <2>1, <1>1
<1>4. \A k \in 0 .. Len(L) : k \in T
  <2> HIDE DEF T
  <2> QED BY <1>1, <1>2, <1>3, BoundedInduction
<1> QED BY <1>4

\* It is deleted when a delete of it counts, as its "add" is before all of them.
LEMMA DeletedIsLast ==
  ASSUME NEW L, Sorted(L), NEW ids, NEW r, NEW h, IsPlay(h, L, ids, r)
  PROVE  \A x \in DOMAIN h[Len(L)].items :
           h[Len(L)].items[x].deleted <=> Marks(L, ids, r, x, {"delete"}, Len(L)) # {}
<1> DEFINE P(k, x) == \/ h[k].items[x].deleted = TRUE /\ Marks(L, ids, r, x, {"delete"}, k) # {}
                      \/ h[k].items[x].deleted = FALSE /\ Marks(L, ids, r, x, {"delete"}, k) = {}
           T == {k \in 0 .. Len(L) : \A x \in DOMAIN h[k].items : P(k, x)}
<1>1. Len(L) \in Nat /\ DOMAIN L = 1 .. Len(L)
  BY SortedLen
<1>2. 0 \in T
  <2>1. DOMAIN h[0].items = {}
    BY DEF IsPlay, EmptyBoard
  <2> QED BY <2>1, <1>1
<1>3. ASSUME NEW k \in 1 .. Len(L), k - 1 \in T PROVE k \in T
  <2>1. ASSUME NEW x \in DOMAIN h[k].items PROVE P(k, x)
    <3>1. ItemStep(L, ids, r, x, k, h[k - 1].items, h[k].items)
      BY PlayStep
    <3> DEFINE D(i) == Marks(L, ids, r, x, {"delete"}, i)
    <3>2. CASE SaidAt(L, ids, r, x, {"add"}, k)
      <4>1. \A q \in 1 .. k : ~(L[q].on = x /\ L[q].type = "delete")
        <5> SUFFICES ASSUME NEW q \in 1 .. k, L[q].on = x, L[q].type = "delete" PROVE FALSE
          OBVIOUS
        <5>1. q \in DOMAIN L /\ k \in DOMAIN L /\ q <= k
          BY <1>1
        <5>2. PICK i \in DOMAIN L : i < q /\ L[i].type = "add" /\ L[i].on = x
          BY <5>1 DEF Sorted, LaterTypes
        <5>3. i = k
          BY <5>1, <5>2, <3>2 DEF Sorted, SaidAt
        <5> QED BY <5>1, <5>2, <5>3, <1>1
      <4>2. D(k) = {}
        BY <4>1 DEF Marks, SaidAt
      <4>3. h[k].items[x].deleted = FALSE
        BY <3>1, <3>2 DEF ItemStep
      <4> QED BY <4>2, <4>3
    <3>3. CASE SaidAt(L, ids, r, x, {"delete"}, k)
      <4>1. D(k) # {}
        BY <3>3, MarksStep DEF IsLast, SaidAt
      <4>2. h[k].items[x].deleted = TRUE
        BY <3>1, <3>3 DEF ItemStep
      <4> QED BY <4>1, <4>2
    <3>4. CASE ~SaidAt(L, ids, r, x, {"add", "delete"}, k)
      <4>1. ~SaidAt(L, ids, r, x, {"add"}, k) /\ ~SaidAt(L, ids, r, x, {"delete"}, k)
        BY <3>4 DEF SaidAt
      <4>2. D(k) = D(k - 1)
        BY <4>1, MarksStep DEF SaidAt
      <4>3. h[k].items[x].deleted = h[k - 1].items[x].deleted
        BY <3>1, <3>4 DEF ItemStep
      <4>4. x \in DOMAIN h[k - 1].items
        BY <3>1, <4>1 DEF ItemStep
      <4>5. P(k - 1, x)
        <5> HIDE DEF P
        <5> QED BY <4>4, <1>3
      <4> QED BY <4>2, <4>3, <4>5
    <3> QED BY <3>2, <3>3, <3>4 DEF SaidAt
  <2> HIDE DEF P
  <2> QED BY <2>1, <1>1
<1>4. \A k \in 0 .. Len(L) : k \in T
  <2> HIDE DEF T
  <2> QED BY <1>1, <1>2, <1>3, BoundedInduction
<1>5. \A x \in DOMAIN h[Len(L)].items : P(Len(L), x)
  <2> HIDE DEF P
  <2> QED BY <1>1, <1>4
<1> QED BY <1>5, Zenon

\* Poll p was active at place j; the votes of v on i up to place k that were cast
\* in time.
Active(L, ids, r, p, j) ==
  /\ \E q \in Marks(L, ids, r, p, {"add", "flag"}, j) : L[q].type = "add"
  /\ L[Max(Marks(L, ids, r, p, {"add", "flag"}, j))].val
InTime(L, ids, r, i, v, q) ==
  SaidAt(L, ids, r, i, {"vote"}, q) /\ L[q].dev = v /\ (i \in Polls => Active(L, ids, r, i, q))
Casts(L, ids, r, i, v, k) == {q \in 1 .. k : InTime(L, ids, r, i, v, q)}

\* The board's flag of a poll says whether the poll was active.
LEMMA FlagIsActive ==
  ASSUME NEW L, Sorted(L), NEW ids, NEW r, NEW h, IsPlay(h, L, ids, r),
         NEW k \in 1 .. Len(L), L[k].type = "vote", NEW i
  PROVE  (Has(h[k - 1], i) /\ h[k - 1].items[i].flag) <=> Active(L, ids, r, i, k)
<1> DEFINE M(j) == Marks(L, ids, r, i, {"add", "flag"}, j)
           b == h[k - 1]
<1>1. Len(L) \in Nat /\ DOMAIN L = 1 .. Len(L) /\ k - 1 \in 0 .. Len(L) /\ k \in Nat \ {0}
  BY SortedLen
<1>2. M(k) = M(k - 1)
  BY <1>1, MarksStep DEF SaidAt
<1>3. Has(b, i) <=> \E q \in M(k - 1) : L[q].type = "add"
  <2>1. PlayOK(L, ids, r, b, k - 1)
    BY <1>1, PlayShape
  <2>2. Has(b, i) <=> \E q \in 1 .. k - 1 : Counts(L, ids, r, q) /\ L[q].type = "add" /\ L[q].on = i
    BY <2>1 DEF PlayOK, Has
  <2> HIDE DEF b
  <2> QED BY <2>2 DEF Marks, SaidAt
<1>4. ASSUME Has(b, i) PROVE b.items[i].flag = L[Max(M(k - 1))].val
  <2>1. PICK m : IsLast(m, M(k - 1)) /\ b.items[i].flag = L[m].val
    BY <1>1, <1>4, FlagIsLast DEF Has
  <2>2. M(k - 1) \in SUBSET Nat
    BY DEF Marks
  <2>3. Max(M(k - 1)) = m
    <3> HIDE DEF M
    <3> QED BY <2>1, <2>2, LastIsMax
  <2> HIDE DEF M, b
  <2> QED BY <2>1, <2>3
<1>5. Active(L, ids, r, i, k) <=> (\E q \in M(k) : L[q].type = "add") /\ L[Max(M(k))].val
  BY Zenon DEF Active
<1>6. Active(L, ids, r, i, k) <=> Has(b, i) /\ L[Max(M(k - 1))].val
  <2> HIDE DEF M, b
  <2> QED BY <1>2, <1>3, <1>5, Zenon
<1> HIDE DEF M
<1> QED BY <1>4, <1>6, Zenon

\* The vote of a voter is the last that counts and was cast in time.
LEMMA VotesAreLast ==
  ASSUME NEW L, Sorted(L), NEW ids, NEW r, NEW h, IsPlay(h, L, ids, r)
  PROVE  \A k \in 0 .. Len(L) : \A i \in Items, v \in Devices :
           IF Casts(L, ids, r, i, v, k) = {} THEN v \notin DOMAIN h[k].votes[i]
           ELSE \E m : /\ IsLast(m, Casts(L, ids, r, i, v, k))
                       /\ v \in DOMAIN h[k].votes[i] /\ h[k].votes[i][v] = L[m].val
<1> DEFINE C(i, v, k) == Casts(L, ids, r, i, v, k)
           P(k, i, v) == IF C(i, v, k) = {} THEN v \notin DOMAIN h[k].votes[i]
                         ELSE \E m : /\ IsLast(m, C(i, v, k))
                                     /\ v \in DOMAIN h[k].votes[i]
                                     /\ h[k].votes[i][v] = L[m].val
           T == {k \in 0 .. Len(L) : \A i \in Items, v \in Devices : P(k, i, v)}
<1>1. Len(L) \in Nat /\ DOMAIN L = 1 .. Len(L)
  BY SortedLen
<1>2. 0 \in T
  <2>1. ASSUME NEW i \in Items, NEW v \in Devices PROVE P(0, i, v)
    <3>1. DOMAIN h[0].votes[i] = {}
      BY DEF IsPlay, EmptyBoard
    <3>2. C(i, v, 0) = {}
      BY DEF Casts
    <3> QED BY <3>1, <3>2
  <2> HIDE DEF P
  <2> QED BY <2>1, <1>1
<1>3. ASSUME NEW k \in 1 .. Len(L), k - 1 \in T PROVE k \in T
  <2>1. ASSUME NEW i \in Items, NEW v \in Devices PROVE P(k, i, v)
    <3> DEFINE f == h[k - 1].votes[i]
               g == h[k].votes[i]
               e == L[k]
    <3>1. P(k - 1, i, v)
      <4> HIDE DEF P
      <4> QED BY <1>3
    <3>2. k \in Nat \ {0} /\ 1 .. k = (1 .. k - 1) \cup {k} /\ \A q \in 1 .. k : q <= k
      BY <1>1
    <3>3. Counts(L, ids, r, k) =>
            g = IF /\ e.type = "vote" /\ e.on = i
                   /\ (i \in Polls => Has(h[k - 1], i) /\ h[k - 1].items[i].flag)
                THEN With(f, e.dev, e.val) ELSE f
      <4>1. Counts(L, ids, r, k) => h[k].votes = VotesAfter(h[k - 1], L[k])
        BY PlayStep
      <4> QED BY <4>1 DEF VotesAfter
    <3>4. CASE InTime(L, ids, r, i, v, k)
      <4>1. IsLast(k, C(i, v, k))
        BY <3>2, <3>4 DEF Casts, IsLast
      <4>2. Counts(L, ids, r, k) /\ e.type = "vote" /\ e.on = i /\ e.dev = v
            /\ (i \in Polls => Active(L, ids, r, i, k))
        BY <3>4 DEF InTime, SaidAt
      <4>3. i \in Polls => Has(h[k - 1], i) /\ h[k - 1].items[i].flag
        BY <4>2, FlagIsActive
      <4>4. g = With(f, v, e.val)
        <5> HIDE DEF f, g, e
        <5> QED BY <3>3, <4>2, <4>3
      <4>5. v \in DOMAIN g /\ g[v] = e.val
        <5> HIDE DEF f, g, e
        <5> QED BY <4>4 DEF With
      <4>6. C(i, v, k) # {}
        BY <4>1 DEF IsLast
      <4> HIDE DEF C
      <4> QED BY <4>1, <4>5, <4>6
    <3>5. CASE ~InTime(L, ids, r, i, v, k)
      <4>1. C(i, v, k) = C(i, v, k - 1)
        BY <3>2, <3>5 DEF Casts
      <4>2. g = f \/ (\E w, y : w # v /\ g = With(f, w, y))
        <5>1. CASE ~Counts(L, ids, r, k)
          BY <5>1, PlayStep
        <5>2. CASE Counts(L, ids, r, k) /\ ~(e.type = "vote" /\ e.on = i)
          <6> HIDE DEF f, g, e
          <6> QED BY <5>2, <3>3
        <5>3. CASE Counts(L, ids, r, k) /\ e.type = "vote" /\ e.on = i /\ e.dev # v
          <6> HIDE DEF f, g, e
          <6> QED BY <5>3, <3>3
        <5>4. CASE Counts(L, ids, r, k) /\ e.type = "vote" /\ e.on = i /\ e.dev = v
          <6>1. ~(i \in Polls => Active(L, ids, r, i, k))
            BY <5>4, <3>5 DEF InTime, SaidAt
          <6>2. ~(i \in Polls => Has(h[k - 1], i) /\ h[k - 1].items[i].flag)
            BY <6>1, <5>4, FlagIsActive
          <6> HIDE DEF f, g, e
          <6> QED BY <6>2, <5>4, <3>3
        <5> QED BY <5>1, <5>2, <5>3, <5>4
      <4>3. /\ v \in DOMAIN g <=> v \in DOMAIN f
            /\ v \in DOMAIN f => g[v] = f[v]
        <5> HIDE DEF f, g
        <5> QED BY <4>2 DEF With
      <4> HIDE DEF C
      <4> QED BY <4>1, <4>3, <3>1
    <3> QED BY <3>4, <3>5
  <2> HIDE DEF P
  <2> QED BY <2>1, <1>1
<1>4. \A k \in 0 .. Len(L) : k \in T
  <2> HIDE DEF T
  <2> QED BY <1>1, <1>2, <1>3, BoundedInduction
<1> QED BY <1>4

\* BoardIsLastWrites (admitEvents, computeState, foldUpvotes): every device shows the
\* last write of what counts in its log, and of each voter the last vote in time.
THEOREM BoardShowsLastWrites == Spec => []BoardIsLastWrites
<1>1. IInv => BoardIsLastWrites
  <2> SUFFICES ASSUME IInv, NEW d \in Devices
               PROVE  LET A == Counting(d)
                          b == fold[d].board
                          On(i, types) == {k \in A : order[k].on = i /\ order[k].type \in types}
                      IN /\ \A i \in DOMAIN b.items :
                              /\ b.items[i].content = order[Max(On(i, {"add", "edit"}))].id
                              /\ b.items[i].flag = order[Max(On(i, {"add", "flag"}))].val
                              /\ b.items[i].deleted <=> On(i, {"delete"}) # {}
                         /\ \A i \in Items, v \in Devices :
                              LET cast == {k \in On(i, {"vote"}) :
                                             order[k].dev = v /\ (i \in Polls => ActiveAt(A, i, k))}
                              IN IF cast = {} THEN v \notin DOMAIN b.votes[i]
                                 ELSE b.votes[i][v] = order[Max(cast)].val
    BY DEF BoardIsLastWrites
  <2> DEFINE A == Counting(d)
             b == fold[d].board
             r == fold[d].roles
             n == Len(order)
             On(i, types) == {k \in A : order[k].on = i /\ order[k].type \in types}
             Said(i, types) == Marks(order, log[d], r, i, types, n)
             cast(i, v) == {k \in On(i, {"vote"}) :
                              order[k].dev = v /\ (i \in Polls => ActiveAt(A, i, k))}
  <2>1. n \in Nat /\ DOMAIN order = 1 .. n /\ n \in 0 .. n /\ Sorted(order)
    BY OrderIs
  <2>2. PICK h : IsPlay(h, order, log[d], r) /\ b = h[n]
    BY FoldIs
  <2>3. A = {k \in 1 .. n : Counts(order, log[d], r, k)}
    BY <2>1 DEF Counting, Counts
  <2>4. ASSUME NEW i, NEW types PROVE On(i, types) = Said(i, types)
    <3> HIDE DEF A
    <3> QED BY <2>3 DEF Marks, SaidAt
  <2>5. ASSUME NEW i, NEW types, NEW m, IsLast(m, Said(i, types))
        PROVE  Max(On(i, types)) = m
    <3>1. Said(i, types) \in SUBSET Nat
      BY DEF Marks
    <3> HIDE DEF Said, On
    <3> QED BY <3>1, <2>4, <2>5, LastIsMax
  <2>6. ASSUME NEW i \in DOMAIN b.items
        PROVE  /\ b.items[i].content = order[Max(On(i, {"add", "edit"}))].id
               /\ b.items[i].flag = order[Max(On(i, {"add", "flag"}))].val
               /\ b.items[i].deleted <=> On(i, {"delete"}) # {}
    <3>1. b.items[i].content = order[Max(On(i, {"add", "edit"}))].id
      <4>1. PICK m : IsLast(m, Said(i, {"add", "edit"})) /\ b.items[i].content = order[m].id
        BY <2>1, <2>2, <2>6, ContentIsLast
      <4>2. Max(On(i, {"add", "edit"})) = m
        <5> HIDE DEF On, Said
        <5> QED BY <4>1, <2>5
      <4> HIDE DEF On, b
      <4> QED BY <4>1, <4>2
    <3>2. b.items[i].flag = order[Max(On(i, {"add", "flag"}))].val
      <4>1. PICK m : IsLast(m, Said(i, {"add", "flag"})) /\ b.items[i].flag = order[m].val
        BY <2>1, <2>2, <2>6, FlagIsLast
      <4>2. Max(On(i, {"add", "flag"})) = m
        <5> HIDE DEF On, Said
        <5> QED BY <4>1, <2>5
      <4> HIDE DEF On, b
      <4> QED BY <4>1, <4>2
    <3>3. b.items[i].deleted <=> On(i, {"delete"}) # {}
      <4>1. b.items[i].deleted <=> Said(i, {"delete"}) # {}
        <5>1. \A x \in DOMAIN h[n].items : h[n].items[x].deleted <=> Said(x, {"delete"}) # {}
          BY <2>1, <2>2, DeletedIsLast
        <5> HIDE DEF Said
        <5> QED BY <5>1, <2>2, <2>6, Zenon
      <4>2. On(i, {"delete"}) = Said(i, {"delete"})
        BY <2>4
      <4> HIDE DEF On, Said, b
      <4> QED BY <4>1, <4>2, Zenon
    <3> QED BY <3>1, <3>2, <3>3
  <2>7. ASSUME NEW i, NEW k \in 1 .. n
        PROVE  ActiveAt(A, i, k) <=> Active(order, log[d], r, i, k)
    <3> DEFINE said == {q \in A : q <= k /\ order[q].on = i /\ order[q].type \in {"add", "flag"}}
    <3>1. said = Marks(order, log[d], r, i, {"add", "flag"}, k)
      <4>1. \A q : q \in 1 .. n /\ q <= k <=> q \in 1 .. k
        BY <2>1
      <4> HIDE DEF A
      <4> QED BY <4>1, <2>3 DEF Marks, SaidAt
    <3>2. ActiveAt(A, i, k) <=> (\E q \in said : order[q].type = "add") /\ order[Max(said)].val
      BY Zenon DEF ActiveAt
    <3> HIDE DEF said, A
    <3> QED BY <3>1, <3>2, Zenon DEF Active
  <2>8. ASSUME NEW i \in Items, NEW v \in Devices
        PROVE  IF cast(i, v) = {} THEN v \notin DOMAIN b.votes[i]
               ELSE b.votes[i][v] = order[Max(cast(i, v))].val
    <3>1. cast(i, v) = Casts(order, log[d], r, i, v, n)
      <4>1. \A k : k \in On(i, {"vote"}) <=> k \in 1 .. n /\ SaidAt(order, log[d], r, i, {"vote"}, k)
        <5>1. On(i, {"vote"}) = Said(i, {"vote"})
          BY <2>4
        <5>2. \A k : k \in Said(i, {"vote"}) <=> k \in 1 .. n /\ SaidAt(order, log[d], r, i, {"vote"}, k)
          BY DEF Marks
        <5> HIDE DEF On, Said
        <5> QED BY <5>1, <5>2
      <4> HIDE DEF On, A, n
      <4> QED BY <4>1, <2>7 DEF Casts, InTime
    <3>2. IF Casts(order, log[d], r, i, v, n) = {} THEN v \notin DOMAIN b.votes[i]
          ELSE \E m : /\ IsLast(m, Casts(order, log[d], r, i, v, n))
                      /\ v \in DOMAIN b.votes[i] /\ b.votes[i][v] = order[m].val
      BY <2>1, <2>2, VotesAreLast
    <3>3. Casts(order, log[d], r, i, v, n) \in SUBSET Nat
      BY DEF Casts
    <3> HIDE DEF cast, b, r
    <3> QED BY <3>1, <3>2, <3>3, LastIsMax
  <2> QED BY <2>6, <2>8, Zenon
<1> QED BY <1>1, Invariance, PTL

-----------------------------------------------------------------------------
(* Roles of a growing log *)

\* Everybody let in at a is let in at b, or his ticket is used up there.
Under(a, b) ==
  a.owner = b.owner /\ a.admins \subseteq b.admins /\ a.invites \subseteq b.invites \cup b.claimed

\* Takes no role away by itself.
Gives(e) == e.type # "admin.remove" /\ (e.type = "member.invite" => e.val)

LEMMA StepAbove ==
  ASSUME NEW a, NEW b, IsRoles(b), Under(a, b), NEW e, Gives(e), NEW own
  PROVE  Under(a, RoleStep(own, b, e))
<1>1. CASE Offers(b, e)
  <2>1. e.val
    BY <1>1 DEF Offers, Gives
  <2> QED BY <1>1, <2>1, RoleStepIs DEF Under
<1>2. CASE Redeems(own, b, e)
  BY <1>2, RoleStepIs DEF Under
<1>3. CASE Raises(b, e)
  BY <1>3, RoleStepIs DEF Under
<1>4. ~Lowers(b, e)
  BY DEF Lowers, Gives
<1>5. CASE ~Offers(b, e) /\ ~Redeems(own, b, e) /\ ~Raises(b, e)
  <2>1. RoleStep(own, b, e) = b
    BY <1>4, <1>5, RoleStepIs
  <2> QED BY <2>1
<1> QED BY <1>1, <1>2, <1>3, <1>5

LEMMA StepBoth ==
  ASSUME NEW a, IsRoles(a), NEW b, IsRoles(b), Under(a, b), NEW e, Gives(e),
         e.type = "member.claim" => e.on \notin b.claimed, NEW own
  PROVE  Under(RoleStep(own, a, e), RoleStep(own, b, e))
<1>1. CASE Offers(a, e)
  <2>1. e.val /\ e.type = "member.invite" /\ e.dev \in b.admins
    BY <1>1 DEF Offers, Gives, Under
  <2>2. /\ RoleStep(own, a, e).owner = a.owner /\ RoleStep(own, a, e).admins = a.admins
        /\ RoleStep(own, a, e).invites = a.invites \cup {e.on}
    BY <1>1, <2>1, RoleStepIs
  <2>3. CASE e.on \in b.claimed
    <3>1. ~Offers(b, e) /\ ~Redeems(own, b, e) /\ ~Raises(b, e) /\ ~Lowers(b, e)
      BY <2>1, <2>3 DEF Offers, Redeems, Raises, Lowers
    <3>2. RoleStep(own, b, e) = b
      BY <3>1, RoleStepIs
    <3> QED BY <2>2, <2>3, <3>2 DEF Under
  <2>4. CASE e.on \notin b.claimed
    <3>1. Offers(b, e)
      BY <2>1, <2>4 DEF Offers
    <3>2. /\ RoleStep(own, b, e).owner = b.owner /\ RoleStep(own, b, e).admins = b.admins
          /\ RoleStep(own, b, e).invites = b.invites \cup {e.on}
          /\ RoleStep(own, b, e).claimed = b.claimed
      BY <2>1, <3>1, RoleStepIs
    <3> QED BY <2>2, <3>2 DEF Under
  <2> QED BY <2>3, <2>4
<1>2. CASE Redeems(own, a, e)
  <2>1. e.type = "member.claim" /\ e.dev # a.owner /\ e.on \in a.invites /\ own # ""
    BY <1>2 DEF Redeems, MayRedeem
  <2>2. Redeems(own, b, e)
    BY <2>1 DEF Redeems, MayRedeem, Under
  <2>3. /\ RoleStep(own, a, e).owner = a.owner
        /\ RoleStep(own, a, e).admins = a.admins \cup {e.dev}
        /\ RoleStep(own, a, e).invites = a.invites \ {e.on}
    BY <1>2, RoleStepIs
  <2>4. /\ RoleStep(own, b, e).owner = b.owner
        /\ RoleStep(own, b, e).admins = b.admins \cup {e.dev}
        /\ RoleStep(own, b, e).invites = b.invites \ {e.on}
        /\ RoleStep(own, b, e).claimed = b.claimed \cup {e.on}
    BY <2>2, RoleStepIs
  <2> QED BY <2>3, <2>4 DEF Under
<1>3. CASE Raises(a, e)
  <2>1. Raises(b, e)
    BY <1>3 DEF Raises, Under
  <2>2. /\ RoleStep(own, a, e).owner = a.owner
        /\ RoleStep(own, a, e).admins = a.admins \cup {e.on}
        /\ RoleStep(own, a, e).invites = a.invites
    BY <1>3, RoleStepIs
  <2>3. /\ RoleStep(own, b, e).owner = b.owner
        /\ RoleStep(own, b, e).admins = b.admins \cup {e.on}
        /\ RoleStep(own, b, e).invites = b.invites
        /\ RoleStep(own, b, e).claimed = b.claimed
    BY <2>1, RoleStepIs
  <2> QED BY <2>2, <2>3 DEF Under
<1>4. CASE ~Offers(a, e) /\ ~Redeems(own, a, e) /\ ~Raises(a, e)
  <2>1. ~Lowers(a, e)
    BY DEF Lowers, Gives
  <2>2. RoleStep(own, a, e) = a
    BY <1>4, <2>1, RoleStepIs
  <2> QED BY <2>2, StepAbove
<1> QED BY <1>1, <1>2, <1>3, <1>4

LEMMA StepClaimed ==
  ASSUME NEW b, IsRoles(b), NEW e, NEW own
  PROVE  \A t \in RoleStep(own, b, e).claimed :
           t \in b.claimed \/ (e.type = "member.claim" /\ t = e.on)
<1>1. CASE Redeems(own, b, e)
  <2>1. RoleStep(own, b, e).claimed = b.claimed \cup {e.on}
    BY <1>1, RoleStepIs
  <2>2. e.type = "member.claim"
    BY <1>1 DEF Redeems, MayRedeem
  <2> QED BY <2>1, <2>2
<1>2. CASE ~Redeems(own, b, e)
  <2>1. RoleStep(own, b, e).claimed = b.claimed
    BY <1>2, RoleStepIs
  <2> QED BY <2>1
<1> QED BY <1>1, <1>2

\* Nothing in the log may cost a role.
NoCost(L, ids) ==
  \A i, j \in DOMAIN L : L[i].id \in ids /\ L[j].id \in ids => ~MayCost(L[i], L[j])

\* Without an owner nobody is an admin.
LEMMA WalkUnowned ==
  ASSUME NEW L, Sorted(L), NEW ids, 1 \notin ids, NEW own, NEW g, IsWalk(g, L, ids, own)
  PROVE  \A k \in 0 .. Len(L) : g[k].admins = {} /\ g[k].invites = {}
<1> DEFINE T == {k \in 0 .. Len(L) : g[k].admins = {} /\ g[k].invites = {}}
<1>1. Len(L) \in Nat /\ DOMAIN L = 1 .. Len(L)
  BY SortedLen
<1>2. 0 \in T
  <2>1. g[0].admins = {Owner(L, ids)} \ {NoDevice} /\ g[0].invites = {}
    BY DEF IsWalk, NoRoles
  <2> QED BY <2>1, <1>1, OwnerIs
<1>3. ASSUME NEW k \in 1 .. Len(L), k - 1 \in T PROVE k \in T
  <2>1. IsRoles(g[k - 1]) /\ g[k - 1].admins = {} /\ g[k - 1].invites = {}
    BY <1>1, <1>3, WalkShape
  <2>2. /\ ~Offers(g[k - 1], L[k]) /\ ~Redeems(own, g[k - 1], L[k])
        /\ ~Raises(g[k - 1], L[k]) /\ ~Lowers(g[k - 1], L[k])
    BY <2>1 DEF Offers, Redeems, Raises, Lowers, MayRedeem
  <2>3. RoleStep(own, g[k - 1], L[k]) = g[k - 1]
    BY <2>1, <2>2, RoleStepIs
  <2> QED BY <2>1, <2>3 DEF IsWalk
<1>4. \A k \in 0 .. Len(L) : k \in T
  <2> HIDE DEF T
  <2> QED BY <1>1, <1>2, <1>3, BoundedInduction
<1> QED BY <1>4

\* Of two logs the larger one lets in everybody that the smaller one lets in,
\* if nothing in it may cost a role.
LEMMA RolesGrow ==
  ASSUME NEW L, Sorted(L), NEW ids, NEW more, ids \subseteq more, NoCost(L, more), NEW own,
         NEW g, IsWalk(g, L, ids, own), NEW f, IsWalk(f, L, more, own)
  PROVE  \A k \in 0 .. Len(L) : g[k].admins \subseteq f[k].admins
<1>1. Len(L) \in Nat /\ DOMAIN L = 1 .. Len(L)
  BY SortedLen
<1>2. CASE 1 \notin ids
  <2>1. \A k \in 0 .. Len(L) : g[k].admins = {}
    BY <1>2, WalkUnowned
  <2> QED BY <2>1
<1>3. CASE 1 \in ids
  <2> DEFINE Seen(k) == \A t \in f[k].claimed : \E i \in 1 .. k :
                          L[i].id \in more /\ L[i].type = "member.claim" /\ L[i].on = t
             T == {k \in 0 .. Len(L) : Under(g[k], f[k]) /\ Seen(k)}
  <2>1. 0 \in T
    <3>1. g[0] = NoRoles(Founder) /\ f[0] = NoRoles(Founder)
      BY <1>3, OwnerIs DEF IsWalk
    <3>2. f[0].claimed = {}
      BY <3>1 DEF NoRoles
    <3> QED BY <3>1, <3>2, <1>1 DEF Under
  <2>2. ASSUME NEW k \in 1 .. Len(L), k - 1 \in T PROVE k \in T
    <3> DEFINE a == g[k - 1]
               b == f[k - 1]
               e == L[k]
    <3>1. k - 1 \in 0 .. Len(L) /\ 1 .. k = (1 .. k - 1) \cup {k} /\ k \in DOMAIN L
      BY <1>1
    <3>2. IsRoles(a) /\ IsRoles(b)
      BY <3>1, WalkShape
    <3>3. Under(a, b) /\ Seen(k - 1)
      <4> HIDE DEF Seen
      <4> QED BY <2>2
    <3>4. CASE e.id \notin more
      <4>1. g[k] = a /\ f[k] = b
        BY <3>4 DEF IsWalk
      <4>2. Seen(k)
        BY <4>1, <3>1, <3>3
      <4> HIDE DEF Seen, a, b
      <4> QED BY <4>1, <4>2, <3>3
    <3>5. CASE e.id \in more
      <4>1. Gives(e)
        BY <3>1, <3>5 DEF NoCost, MayCost, Gives
      <4>2. e.type = "member.claim" => e.on \notin b.claimed
        <5> SUFFICES ASSUME e.type = "member.claim", e.on \in b.claimed PROVE FALSE
          OBVIOUS
        <5>1. PICK i \in 1 .. k - 1 :
                L[i].id \in more /\ L[i].type = "member.claim" /\ L[i].on = e.on
          BY <3>3
        <5>2. i \in DOMAIN L /\ i # k
          BY <3>1, <1>1
        <5>3. L[i].id # e.id
          BY <5>2, <3>1 DEF Sorted
        <5> QED BY <5>1, <5>2, <5>3, <3>1, <3>5 DEF NoCost, MayCost
      <4>3. f[k] = RoleStep(own, b, e)
        BY <3>5 DEF IsWalk
      <4>4. g[k] = a \/ g[k] = RoleStep(own, a, e)
        BY DEF IsWalk
      <4>5. Under(g[k], f[k])
        <5> HIDE DEF Seen, a, b, e
        <5>1. Under(a, RoleStep(own, b, e))
          BY <3>2, <3>3, <4>1, StepAbove
        <5>2. Under(RoleStep(own, a, e), RoleStep(own, b, e))
          BY <3>2, <3>3, <4>1, <4>2, StepBoth
        <5> QED BY <5>1, <5>2, <4>3, <4>4
      <4>6. \A t \in f[k].claimed : t \in b.claimed \/ (e.type = "member.claim" /\ t = e.on)
        <5> HIDE DEF Seen, a, b, e
        <5> QED BY <3>2, <4>3, StepClaimed
      <4>7. Seen(k)
        BY <4>6, <3>1, <3>3, <3>5
      <4> HIDE DEF Seen
      <4> QED BY <4>5, <4>7
    <3> QED BY <3>4, <3>5
  <2>3. \A k \in 0 .. Len(L) : k \in T
    <3> HIDE DEF T
    <3> QED BY <1>1, <2>1, <2>2, BoundedInduction
  <2> QED BY <2>3 DEF Under
<1> QED BY <1>2, <1>3

LEMMA MoreRoles ==
  ASSUME NEW L, Sorted(L), NEW ids, NEW more, ids \subseteq more, NoCost(L, more), NEW own
  PROVE  Roles(L, ids, own).admins \subseteq Roles(L, more, own).admins
<1>1. Len(L) \in Nat /\ DOMAIN L = 1 .. Len(L) /\ Len(L) \in 0 .. Len(L)
  BY SortedLen
<1>2. PICK g : IsWalk(g, L, ids, own) /\ Roles(L, ids, own) = g[Len(L)]
  BY <1>1, RolesWalk
<1>3. PICK f : IsWalk(f, L, more, own) /\ Roles(L, more, own) = f[Len(L)]
  BY <1>1, RolesWalk
<1>4. \A k \in 0 .. Len(L) : g[k].admins \subseteq f[k].admins
  BY <1>2, <1>3, RolesGrow
<1> QED BY <1>1, <1>2, <1>3, <1>4

\* The parts of a fold.
LEMMA FoldParts ==
  ASSUME NEW L, NEW ids
  PROVE  \A own : /\ Fold(L, ids, own).roles = Roles(L, ids, own)
                  /\ Fold(L, ids, own).board = Board(L, ids, Roles(L, ids, own))
BY DEF Fold

\* What a step leaves: a device keeps its log, and that log still folds to what
\* the device showed, whatever was inserted into the order.
LEMMA StepGrows ==
  ASSUME IInv, Next, NEW d \in Devices
  PROVE  /\ IInv' /\ log[d] \subseteq log'[d]
         /\ fold[d] = Fold(order', log[d], "its own")
<1>1. fold[d] = Fold(order, log[d], "its own")
  BY DEF IInv
<1>2. \A c \in Devices : \A ids : Enter(c, ids) => log[d] \subseteq log'[d]
  BY EnterFolds
<1>3. ASSUME NEW c \in Devices, NEW k, NEW e, Written(c, k, e)
      PROVE  /\ IInv' /\ log[d] \subseteq log'[d]
             /\ fold[d] = Fold(order', log[d], "its own")
  <2>1. /\ Sorted(order) /\ Sorted(order') /\ order' = InsertAt(order, k, e)
    BY <1>3, WrittenSorted
  <2>2. /\ k \in 1 .. Len(order) + 1 /\ e \in Events /\ e.id = Len(order) + 1
        /\ Enter(c, {e.id}) \/ UNCHANGED <<log, fold>>
    BY <1>3 DEF Written
  <2>3. e.id \notin log[d]
    <3>1. log[d] \subseteq 1 .. Len(order) /\ Len(order) \in Nat
      BY OrderIs DEF IInv
    <3> QED BY <3>1, <2>2
  <2>4. Fold(order', log[d], "its own") = Fold(order, log[d], "its own")
    <3>1. Sorted(InsertAt(order, k, e))
      BY <2>1
    <3>2. \A r : Fold(InsertAt(order, k, e), log[d], r) = Fold(order, log[d], r)
      BY <2>1, <2>2, <2>3, <3>1, FoldUnseen
    <3> QED BY <3>2, <2>1
  <2>5. log[d] \subseteq log'[d]
    BY <2>2, <1>2
  <2>6. IInv'
    BY <1>3, WrittenInv
  <2> QED BY <2>4, <2>5, <2>6, <1>1
<1>4. ASSUME NEW c \in Devices, NEW ids, Entered(c, ids)
      PROVE  /\ IInv' /\ log[d] \subseteq log'[d]
             /\ fold[d] = Fold(order', log[d], "its own")
  <2>1. IInv'
    BY <1>4, EnteredInv
  <2>2. log[d] \subseteq log'[d]
    BY <1>2, <1>4 DEF Entered
  <2>3. order' = order
    BY <1>4 DEF Entered
  <2> QED BY <2>1, <2>2, <2>3, <1>1
<1> QED BY <1>3, <1>4, NextIs

\* RolesAreKept (admitEvents): events that arrive late and sort earlier take no role
\* away, unless one of them removes, revokes, or claims a ticket again.
THEOREM LateEventsKeepRoles == Spec => RolesAreKept
<1> DEFINE Kept(d) == \/ Admins(d) \subseteq Admins(d)'
                      \/ \E i, j \in DOMAIN order' :
                           /\ {order'[i].id, order'[j].id} \subseteq log'[d]
                           /\ MayCost(order'[i], order'[j])
<1>1. ASSUME IInv, [Next]_vars, NEW d \in Devices PROVE Kept(d)
  <2>1. CASE Next
    <3> SUFFICES ASSUME NoCost(order', log'[d]) PROVE Admins(d) \subseteq Admins(d)'
      BY DEF NoCost
    <3>1. /\ log[d] \subseteq log'[d]
          /\ fold[d] = Fold(order', log[d], "its own")
      BY <1>1, <2>1, StepGrows
    <3>2. Sorted(order') /\ fold'[d] = Fold(order', log'[d], "its own")
      <4>1. IInv'
        BY <1>1, <2>1, StepGrows
      <4> QED BY <4>1 DEF IInv
    <3>3. \A own : Roles(order', log[d], own).admins \subseteq Roles(order', log'[d], own).admins
      BY <3>1, <3>2, MoreRoles
    <3>4. fold[d].roles = Roles(order', log[d], "its own")
      BY <3>1, FoldParts
    <3>5. fold'[d].roles = Roles(order', log'[d], "its own")
      BY <3>2, FoldParts
    <3> QED BY <3>3, <3>4, <3>5 DEF Admins
  <2>2. CASE UNCHANGED vars
    BY <2>2 DEF vars, Admins
  <2> QED BY <1>1, <2>1, <2>2
<1>2. IInv /\ [Next]_vars => [\A d \in Devices : Kept(d)]_vars
  <2> HIDE DEF Kept
  <2> QED BY <1>1
<1> QED BY <1>2, Invariance, PTL DEF Spec, RolesAreKept

-----------------------------------------------------------------------------
(* Last words *)

\* The owner is an admin, and a ticket was redeemed by somebody's claim.
LEMMA WalkOwner ==
  ASSUME NEW L, Sorted(L), NEW ids, NEW own, NEW g, IsWalk(g, L, ids, own)
  PROVE  \A k \in 0 .. Len(L) :
           /\ Owner(L, ids) # NoDevice => Owner(L, ids) \in g[k].admins
           /\ \A t \in g[k].claimed : \E i \in DOMAIN L : L[i].on = t
<1> DEFINE T == {k \in 0 .. Len(L) :
                   /\ Owner(L, ids) # NoDevice => Owner(L, ids) \in g[k].admins
                   /\ \A t \in g[k].claimed : \E i \in DOMAIN L : L[i].on = t}
<1>1. Len(L) \in Nat /\ DOMAIN L = 1 .. Len(L)
  BY SortedLen
<1>2. 0 \in T
  <2>1. g[0].admins = {Owner(L, ids)} \ {NoDevice} /\ g[0].claimed = {}
    BY DEF IsWalk, NoRoles
  <2> QED BY <2>1, <1>1
<1>3. ASSUME NEW k \in 1 .. Len(L), k - 1 \in T PROVE k \in T
  <2> DEFINE r == g[k - 1]
             e == L[k]
             q == RoleStep(own, r, e)
  <2>1. IsRoles(r) /\ r.owner = Owner(L, ids) /\ k \in DOMAIN L
    BY <1>1, WalkShape
  <2>2. \A x \in r.admins : x = r.owner => x \in q.admins
    <3> HIDE DEF r, e
    <3>1. CASE Offers(r, e)
      BY <3>1, <2>1, RoleStepIs
    <3>2. CASE Redeems(own, r, e)
      BY <3>2, <2>1, RoleStepIs
    <3>3. CASE Raises(r, e)
      BY <3>3, <2>1, RoleStepIs
    <3>4. CASE Lowers(r, e)
      <4>1. q.admins = r.admins \ {e.on}
        BY <3>4, <2>1, RoleStepIs
      <4> QED BY <4>1, <3>4 DEF Lowers
    <3>5. CASE ~Offers(r, e) /\ ~Redeems(own, r, e) /\ ~Raises(r, e) /\ ~Lowers(r, e)
      BY <3>5, <2>1, RoleStepIs
    <3> QED BY <3>1, <3>2, <3>3, <3>4, <3>5
  <2>3. \A t \in q.claimed : t \in r.claimed \/ t = e.on
    <3> HIDE DEF r, e
    <3> QED BY <2>1, StepClaimed
  <2>4. g[k] = q \/ g[k] = r
    BY DEF IsWalk
  <2> HIDE DEF q, r
  <2> QED BY <2>1, <2>2, <2>3, <2>4, <1>1, <1>3 DEF r
<1>4. \A k \in 0 .. Len(L) : k \in T
  <2> HIDE DEF T
  <2> QED BY <1>1, <1>2, <1>3, BoundedInduction
<1> QED BY <1>4

\* Once the session.create is in, the session has a title.
LEMMA PlayTitle ==
  ASSUME NEW L, Sorted(L), NEW ids, NEW r, NEW h, IsPlay(h, L, ids, r),
         NEW p \in DOMAIN L, L[p].id = 1, 1 \in ids
  PROVE  \A k \in 0 .. Len(L) : p <= k => h[k].title # NoDevice
<1> DEFINE T == {k \in 0 .. Len(L) : p <= k => h[k].title # NoDevice}
<1>1. Len(L) \in Nat /\ DOMAIN L = 1 .. Len(L) /\ p \in Nat /\ 0 < p
  BY SortedLen
<1>2. 0 \in T
  BY <1>1
<1>3. ASSUME NEW k \in 1 .. Len(L), k - 1 \in T PROVE k \in T
  <2> DEFINE b == h[k - 1]
             e == L[k]
  <2>1. k - 1 \in 0 .. Len(L) /\ k \in DOMAIN L
    BY <1>1
  <2>2. e.val # NoDevice /\ TRUE # NoDevice
    <3>1. e \in Events
      BY <2>1, SortedLen
    <3>2. e.val \in BOOLEAN
      <4> HIDE DEF e
      <4> QED BY <3>1 DEF Events
    <3> QED BY <3>2, NoDeviceAssumption
  <2>3. ~Counts(L, ids, r, k) => h[k].title = b.title
    BY PlayStep
  <2>4. Counts(L, ids, r, k) => h[k].title = TitleAfter(b, e)
    BY PlayStep
  <2>5. b.title # NoDevice => h[k].title # NoDevice
    <3>1. b.title # NoDevice => TitleAfter(b, e) # NoDevice
      <4> HIDE DEF b, e
      <4> QED BY <2>2 DEF TitleAfter
    <3> HIDE DEF b, e
    <3> QED BY <2>3, <2>4, <3>1
  <2>6. k = p => h[k].title # NoDevice
    <3> SUFFICES ASSUME k = p PROVE h[k].title # NoDevice
      OBVIOUS
    <3>1. e.type = "session.create" /\ e.id \in ids
      BY <2>1 DEF Sorted
    <3>2. Counts(L, ids, r, k)
      BY <3>1 DEF Counts, Admits
    <3>3. b.title = NoDevice => TitleAfter(b, e) # NoDevice
      <4> HIDE DEF b, e
      <4> QED BY <3>1, <2>2 DEF TitleAfter
    <3> HIDE DEF b, e
    <3> QED BY <3>2, <3>3, <2>4, <2>5
  <2>7. p <= k => k = p \/ p <= k - 1
    BY <1>1
  <2> HIDE DEF b
  <2> QED BY <2>5, <2>6, <2>7, <1>3 DEF b
<1>4. \A k \in 0 .. Len(L) : k \in T
  <2> HIDE DEF T
  <2> QED BY <1>1, <1>2, <1>3, BoundedInduction
<1> QED BY <1>4

\* The places before i, and that of the session.create.
Early(L, i) ==
  {L[j].id : j \in {k \in DOMAIN L : k < i \/ L[k].type = "session.create"}}

\* What the part of a log before a place folds to is where the walk stands there.
LEMMA PlaceRoles ==
  ASSUME NEW L, Sorted(L), NEW ids, NEW own, NEW g, IsWalk(g, L, ids, own),
         NEW i \in DOMAIN L
  PROVE  Roles(L, Early(L, i) \cap ids, own) = g[i - 1]
<1> DEFINE n == Len(L)
           low == Early(L, i) \cap ids
<1>1. DOMAIN L = 1 .. n /\ n \in Nat /\ n \in 0 .. n /\ i \in 1 .. n
  BY SortedLen
<1>2. /\ \A k \in 1 .. n : k < i => (L[k].id \in low <=> L[k].id \in ids)
      /\ \A k \in 1 .. n : ~(k < i) /\ L[k].id \in low => L[k].type = "session.create"
  <2>1. ASSUME NEW k \in 1 .. n, k < i PROVE L[k].id \in low <=> L[k].id \in ids
    BY <2>1, <1>1 DEF Early
  <2>2. ASSUME NEW k \in 1 .. n, ~(k < i), L[k].id \in low
        PROVE  L[k].type = "session.create"
    <3>1. PICK j \in DOMAIN L : (j < i \/ L[j].type = "session.create") /\ L[k].id = L[j].id
      BY <2>2 DEF Early
    <3>2. j = k
      BY <3>1, <1>1 DEF Sorted
    <3> QED BY <3>1, <3>2, <2>2
  <2> QED BY <2>1, <2>2
<1>3. 1 \in low <=> 1 \in ids
  <2>1. PICK p \in DOMAIN L : L[p].id = 1 /\ L[p].type = "session.create"
    BY DEF Sorted
  <2> QED BY <2>1 DEF Early
<1> HIDE DEF low
<1>4. PICK f : IsWalk(f, L, low, own) /\ Roles(L, low, own) = f[n]
  BY <1>1, RolesWalk
<1> DEFINE J(k) == IF k < i THEN f[k] = g[k] ELSE f[k] = g[i - 1]
           T == {k \in 0 .. n : J(k)}
<1>5. 0 \in T
  <2>1. f[0] = g[0]
    BY <1>3, <1>4, OwnerIs DEF IsWalk
  <2> QED BY <2>1, <1>1
<1>6. ASSUME NEW k \in 1 .. n, k - 1 \in T PROVE k \in T
  <2>1. f[k] = IF L[k].id \in low THEN RoleStep(own, f[k - 1], L[k]) ELSE f[k - 1]
    BY <1>4 DEF IsWalk
  <2>2. g[k] = IF L[k].id \in ids THEN RoleStep(own, g[k - 1], L[k]) ELSE g[k - 1]
    BY DEF IsWalk
  <2>3. J(k - 1)
    BY <1>6
  <2>4. CASE k < i
    <3>1. f[k - 1] = g[k - 1]
      BY <2>3, <2>4, <1>1
    <3>2. f[k] = g[k]
      BY <3>1, <2>1, <2>2, <2>4, <1>2
    <3> QED BY <3>2, <2>4
  <2>5. CASE ~(k < i)
    <3>1. f[k - 1] = g[i - 1]
      <4>1. CASE k = i
        <5>1. k - 1 < i
          BY <4>1, <1>1
        <5> QED BY <5>1, <2>3, <4>1
      <4>2. CASE k # i
        <5>1. ~(k - 1 < i)
          BY <4>2, <2>5, <1>1
        <5> QED BY <5>1, <2>3
      <4> QED BY <4>1, <4>2
    <3>2. L[k].type = "session.create" => RoleStep(own, f[k - 1], L[k]) = f[k - 1]
      <4>1. IsRoles(f[k - 1])
        BY <1>1, <1>4, WalkShape
      <4>2. L[k].type = "session.create" =>
              /\ ~Offers(f[k - 1], L[k]) /\ ~Redeems(own, f[k - 1], L[k])
              /\ ~Raises(f[k - 1], L[k]) /\ ~Lowers(f[k - 1], L[k])
        BY DEF Offers, Redeems, MayRedeem, Raises, Lowers
      <4> QED BY <4>1, <4>2, RoleStepIs
    <3>3. f[k] = f[k - 1]
      BY <3>2, <2>1, <2>5, <1>2
    <3> QED BY <3>1, <3>3, <2>5
  <2> QED BY <2>4, <2>5
<1>7. \A k \in 0 .. n : k \in T
  <2> HIDE DEF T, n
  <2> QED BY <1>1, <1>5, <1>6, BoundedInduction
<1>8. J(n)
  <2> HIDE DEF J
  <2> QED BY <1>1, <1>7
<1>9. f[n] = g[i - 1]
  BY <1>8, <1>1
<1> QED BY <1>4, <1>9 DEF low

\* Event e has its say in the roles r.
Says(r, e) ==
  CASE e.type = "admin.add" -> e.on \in r.admins
    [] e.type = "admin.remove" -> (e.on \in r.admins <=> e.on = r.owner)
    [] e.type = "member.invite" -> (e.on \in r.invites <=> e.val)
    [] e.type = "member.claim" -> e.dev \in r.admins
    [] OTHER -> TRUE
MaySay(r, e) ==
  CASE e.type \in {"admin.add", "admin.remove"} -> e.dev \in r.admins
    [] e.type = "member.invite" -> e.dev \in r.admins /\ e.on \notin r.claimed
    [] e.type = "member.claim" -> e.on \in r.invites
    [] OTHER -> FALSE

\* The fold names the room.
Named(own) == own # ""

\* It has it at its place,
LEMMA SaysAtOnce ==
  ASSUME NEW r, IsRoles(r), NEW own, Named(own), NEW e, MaySay(r, e),
         r.claimed \cap r.invites = {},
         r.admins # {} \/ r.invites # {} => r.owner \in r.admins
  PROVE  Says(RoleStep(own, r, e), e)
<1> DEFINE q == RoleStep(own, r, e)
<1>1. CASE e.type = "admin.add"
  <2>1. Raises(r, e)
    BY <1>1 DEF MaySay, Raises
  <2>2. q.admins = r.admins \cup {e.on}
    BY <2>1, RoleStepIs
  <2>3. e.on \in q.admins
    BY <2>2
  <2> QED BY <2>3, <1>1 DEF Says
<1>2. CASE e.type = "admin.remove"
  <2>1. e.dev \in r.admins /\ r.owner \in r.admins
    BY <1>2 DEF MaySay
  <2>2. CASE e.on # r.owner
    <3>1. Lowers(r, e)
      BY <1>2, <2>1, <2>2 DEF Lowers
    <3>2. q.admins = r.admins \ {e.on} /\ q.owner = r.owner
      BY <3>1, RoleStepIs
    <3>3. e.on \in q.admins <=> e.on = q.owner
      BY <3>2, <2>2
    <3> QED BY <3>3, <1>2 DEF Says
  <2>3. CASE e.on = r.owner
    <3>1. ~Offers(r, e) /\ ~Redeems(own, r, e) /\ ~Raises(r, e) /\ ~Lowers(r, e)
      BY <1>2, <2>3 DEF Offers, Redeems, MayRedeem, Raises, Lowers
    <3>2. q = r
      BY <3>1, RoleStepIs
    <3>3. e.on \in q.admins <=> e.on = q.owner
      BY <3>2, <2>1, <2>3
    <3> QED BY <3>3, <1>2 DEF Says
  <2> QED BY <2>2, <2>3
<1>3. CASE e.type = "member.invite"
  <2>1. Offers(r, e)
    BY <1>3 DEF MaySay, Offers
  <2>2. ASSUME e.val PROVE e.on \in q.invites <=> e.val
    <3>1. q.invites = r.invites \cup {e.on}
      BY <2>1, <2>2, RoleStepIs
    <3>2. e.on \in q.invites
      BY <3>1
    <3> HIDE DEF q
    <3> QED BY <3>2, <2>2, Zenon
  <2>3. ASSUME ~e.val PROVE e.on \in q.invites <=> e.val
    <3>1. q.invites = r.invites \ {e.on}
      BY <2>1, <2>3, RoleStepIs
    <3>2. ~(e.on \in q.invites)
      BY <3>1
    <3> HIDE DEF q
    <3> QED BY <3>2, <2>3, Zenon
  <2>4. e.on \in q.invites <=> e.val
    <3> HIDE DEF q
    <3> QED BY <2>2, <2>3, Zenon
  <2> QED BY <2>4, <1>3 DEF Says
<1>4. CASE e.type = "member.claim"
  <2>1. e.on \in r.invites /\ e.on \notin r.claimed /\ r.owner \in r.admins
    BY <1>4 DEF MaySay
  <2>2. CASE e.dev # r.owner
    <3>1. MayRedeem(own, r, e)
      BY <1>4, <2>1, <2>2, Zenon DEF MayRedeem, Named
    <3>2. Redeems(own, r, e)
      BY <3>1, <2>1 DEF Redeems
    <3>3. q.admins = r.admins \cup {e.dev}
      BY <3>2, RoleStepIs
    <3>4. e.dev \in q.admins
      BY <3>3
    <3> QED BY <3>4, <1>4 DEF Says
  <2>3. CASE e.dev = r.owner
    <3>1. ~Offers(r, e) /\ ~Raises(r, e) /\ ~Lowers(r, e)
      BY <1>4 DEF Offers, Raises, Lowers
    <3>2. ~MayRedeem(own, r, e)
      BY <2>3, Zenon DEF MayRedeem
    <3>3. q = r
      BY <3>1, <3>2, RoleStepIs DEF Redeems
    <3>4. e.dev \in q.admins
      BY <3>3, <2>1, <2>3
    <3> QED BY <3>4, <1>4 DEF Says
  <2> QED BY <2>2, <2>3
<1> QED BY <1>1, <1>2, <1>3, <1>4 DEF MaySay

\* and keeps it past every event that does not override it.
LEMMA SaysOn ==
  ASSUME NEW r, IsRoles(r), NEW own, NEW e, Says(r, e), NEW f, ~Overrides(f, e)
  PROVE  Says(RoleStep(own, r, f), e)
<1> DEFINE q == RoleStep(own, r, f)
<1>1. IsRoles(q) /\ q.owner = r.owner
  BY RoleStepKeeps
<1>2. \/ q.admins = r.admins
      \/ f.type = "admin.add" /\ q.admins = r.admins \cup {f.on}
      \/ f.type = "admin.remove" /\ f.on # r.owner /\ q.admins = r.admins \ {f.on}
      \/ f.type = "member.claim" /\ q.admins = r.admins \cup {f.dev}
  <2>1. Redeems(own, r, f) => f.type = "member.claim"
    BY Zenon DEF Redeems, MayRedeem
  <2> QED BY <2>1, RoleStepIs DEF Offers, Raises, Lowers
<1>3. q.invites = r.invites \/ q.invites = r.invites \cup {f.on} \/ q.invites = r.invites \ {f.on}
  BY RoleStepIs
<1> HIDE DEF q
<1>4. CASE e.type = "admin.add"
  <2>1. e.on \in r.admins /\ f.on # e.on
    BY <1>4 DEF Says, Overrides
  <2>2. e.on \in q.admins
    BY <2>1, <1>2
  <2> QED BY <2>2, <1>4 DEF Says, q
<1>5. CASE e.type = "admin.remove"
  <2>1. /\ e.on \in r.admins <=> e.on = r.owner
        /\ f.on # e.on /\ (f.type = "member.claim" => f.dev # e.on)
    BY <1>5 DEF Says, Overrides
  <2>2. e.on \in q.admins <=> e.on = q.owner
    BY <2>1, <1>1, <1>2
  <2> QED BY <2>2, <1>5 DEF Says, q
<1>6. CASE e.type = "member.invite"
  <2>1. f.on # e.on
    BY <1>6 DEF Overrides
  <2>2. e.on \in q.invites <=> e.on \in r.invites
    BY <2>1, <1>3
  <2>3. e.on \in r.invites <=> e.val
    BY <1>6 DEF Says
  <2>4. e.on \in q.invites <=> e.val
    BY <2>2, <2>3
  <2> QED BY <2>4, <1>6 DEF Says, q
<1>7. CASE e.type = "member.claim"
  <2>1. e.dev \in r.admins /\ f.on # e.dev
    BY <1>7 DEF Says, Overrides
  <2>2. e.dev \in q.admins
    BY <2>1, <1>2
  <2> QED BY <2>2, <1>7 DEF Says, q
<1>8. CASE e.type \notin {"admin.add", "admin.remove", "member.invite", "member.claim"}
  BY <1>8 DEF Says
<1> QED BY <1>4, <1>5, <1>6, <1>7, <1>8

\* From its place to the end of the log.
LEMMA SaysAtEnd ==
  ASSUME NEW L, Sorted(L), NEW ids, NEW own, Named(own), NEW g, IsWalk(g, L, ids, own),
         NEW i \in DOMAIN L, L[i].id \in ids, MaySay(g[i - 1], L[i]),
         \A j \in DOMAIN L : i < j /\ L[j].id \in ids => ~Overrides(L[j], L[i])
  PROVE  Says(g[Len(L)], L[i])
<1> DEFINE n == Len(L)
           r == g[i - 1]
           e == L[i]
           T == {k \in 0 .. n : i <= k => Says(g[k], e)}
<1>1. DOMAIN L = 1 .. n /\ n \in Nat /\ n \in 0 .. n /\ i \in 1 .. n /\ i - 1 \in 0 .. n
  BY SortedLen
<1>2. IsRoles(r) /\ r.owner = Owner(L, ids) /\ r.claimed \cap r.invites = {}
  BY <1>1, WalkShape, WalkClaims DEF OneClaim
<1>3. r.admins # {} \/ r.invites # {} => r.owner \in r.admins
  <2>1. CASE 1 \notin ids
    <3>1. r.admins = {} /\ r.invites = {}
      BY <2>1, <1>1, WalkUnowned
    <3> QED BY <3>1
  <2>2. CASE 1 \in ids
    <3>1. Owner(L, ids) # NoDevice
      BY <2>2, OwnerIs, ModerationAssumption, NoDeviceAssumption
    <3>2. Owner(L, ids) \in r.admins
      BY <3>1, <1>1, WalkOwner
    <3> QED BY <3>2, <1>2
  <2> QED BY <2>1, <2>2
<1>4. 0 \in T
  BY <1>1
<1>5. ASSUME NEW k \in 1 .. n, k - 1 \in T PROVE k \in T
  <2>1. g[k] = IF L[k].id \in ids THEN RoleStep(own, g[k - 1], L[k]) ELSE g[k - 1]
    BY DEF IsWalk
  <2>2. CASE k = i
    <3>1. g[k] = RoleStep(own, r, e)
      BY <2>1, <2>2
    <3>2. Says(RoleStep(own, r, e), e)
      <4> HIDE DEF r, e
      <4> QED BY <1>2, <1>3, SaysAtOnce DEF r, e
    <3> QED BY <3>1, <3>2
  <2>3. CASE i < k
    <3>1. Says(g[k - 1], e) /\ IsRoles(g[k - 1])
      BY <2>3, <1>1, <1>5, WalkShape
    <3>2. L[k].id \in ids => Says(RoleStep(own, g[k - 1], L[k]), e)
      BY <3>1, <2>3, <1>1, SaysOn
    <3> QED BY <3>1, <3>2, <2>1
  <2>4. CASE k < i
    BY <2>4, <1>1
  <2> QED BY <2>2, <2>3, <2>4, <1>1
<1>6. \A k \in 0 .. n : k \in T
  <2> HIDE DEF T, n
  <2> QED BY <1>1, <1>4, <1>5, BoundedInduction
<1> QED BY <1>1, <1>6

\* The same for the title.
LEMMA TitleAtEnd ==
  ASSUME NEW L, Sorted(L), NEW ids, 1 \in ids, NEW r, NEW h, IsPlay(h, L, ids, r),
         NEW i \in DOMAIN L, L[i].type = "session.config", Counts(L, ids, r, i),
         \A j \in DOMAIN L : i < j /\ L[j].id \in ids =>
           L[j].type \notin {"session.create", "session.config"}
  PROVE  h[Len(L)].title = L[i].val
<1> DEFINE n == Len(L)
           T == {k \in 0 .. n : i <= k => h[k].title = L[i].val}
<1>1. DOMAIN L = 1 .. n /\ n \in Nat /\ n \in 0 .. n /\ i \in 1 .. n /\ i - 1 \in 0 .. n
  BY SortedLen
<1>2. h[i - 1].title # NoDevice
  <2>1. PICK p \in DOMAIN L : L[p].id = 1 /\ L[p].type = "session.create"
    BY DEF Sorted
  <2>2. p <= i - 1
    <3>1. p # i /\ ~(i < p)
      BY <2>1
    <3> QED BY <3>1, <2>1, <1>1
  <2> QED BY <2>1, <2>2, <1>1, PlayTitle
<1>3. 0 \in T
  BY <1>1
<1>4. ASSUME NEW k \in 1 .. n, k - 1 \in T PROVE k \in T
  <2>1. /\ ~Counts(L, ids, r, k) => h[k] = h[k - 1]
        /\ Counts(L, ids, r, k) => h[k].title = TitleAfter(h[k - 1], L[k])
    BY PlayStep
  <2>2. CASE k = i
    <3>1. TitleAfter(h[i - 1], L[i]) = L[i].val
      BY <1>2 DEF TitleAfter
    <3> QED BY <3>1, <2>1, <2>2
  <2>3. CASE i < k
    <3>1. h[k - 1].title = L[i].val
      BY <2>3, <1>1, <1>4
    <3>2. Counts(L, ids, r, k) => TitleAfter(h[k - 1], L[k]) = h[k - 1].title
      BY <2>3, <1>1 DEF Counts, TitleAfter
    <3> QED BY <3>1, <3>2, <2>1
  <2>4. CASE k < i
    BY <2>4, <1>1
  <2> QED BY <2>2, <2>3, <2>4, <1>1
<1>5. \A k \in 0 .. n : k \in T
  <2> HIDE DEF T, n
  <2> QED BY <1>1, <1>3, <1>4, BoundedInduction
<1> QED BY <1>1, <1>5

\* LastWordStands (adminGuard, pushEvent, foldOf, admitEvents): what is said last of a
\* device, a ticket or the title by somebody entitled to it stands, whenever it was
\* signed and entered the log and whatever entered before and after.
THEOREM LastWordHolds == Spec => []LastWordStands
<1>1. ASSUME IInv, NEW d \in Devices, NEW i \in DOMAIN order, order[i].id \in log[d],
             \A j \in DOMAIN order :
               i < j /\ order[j].id \in log[d] => ~Overrides(order[j], order[i]),
             Entitled(d, i)
      PROVE  Stands(fold[d], order[i])
  <2> DEFINE e == order[i]
             roles == {"admin.add", "admin.remove", "member.invite", "member.claim"}
  <2>1. DOMAIN order = 1 .. Len(order) /\ Len(order) \in 0 .. Len(order) /\ Sorted(order)
    BY <1>1, OrderIs
  <2>2. PICK own, g : /\ Named(own) /\ IsWalk(g, order, log[d], own)
                      /\ fold[d].roles = g[Len(order)]
                      /\ At(d, i) = Roles(order, Before(i) \cap log[d], own)
    <3>1. PICK g : IsWalk(g, order, log[d], "its own") /\ fold[d].roles = g[Len(order)]
      BY <1>1, FoldIs
    <3>2. Named("its own")
      BY Zenon DEF Named
    <3>3. At(d, i) = Roles(order, Before(i) \cap log[d], "its own")
      BY DEF At
    <3> QED BY <3>1, <3>2, <3>3, Zenon
  <2>3. At(d, i) = g[i - 1]
    <3>1. Before(i) = Early(order, i)
      BY DEF Before, Early
    <3> QED BY <3>1, <2>1, <2>2, PlaceRoles
  <2>4. CASE e.type \in roles
    <3>1. MaySay(g[i - 1], e)
      BY <1>1, <2>3, <2>4 DEF Entitled, MaySay
    <3>2. Says(g[Len(order)], e)
      BY <1>1, <2>1, <2>2, <3>1, SaysAtEnd
    <3> QED BY <3>2, <2>2, <2>4 DEF Says, Stands
  <2>5. CASE e.type \notin roles
    <3>1. e.type = "session.config" /\ e.dev \in Admins(d)
      BY <1>1, <2>5 DEF Entitled
    <3>2. PICK h : /\ IsPlay(h, order, log[d], fold[d].roles)
                   /\ fold[d].board = h[Len(order)]
      BY <1>1, FoldIs
    <3>3. 1 \in log[d]
      <4>1. g[Len(order)].admins # {}
        BY <3>1, <2>2 DEF Admins
      <4> QED BY <4>1, <2>1, <2>2, WalkUnowned
    <3>4. Counts(order, log[d], fold[d].roles, i)
      BY <1>1, <3>1 DEF Counts, Admits, Admins
    <3>5. \A j \in DOMAIN order : i < j /\ order[j].id \in log[d] =>
            order[j].type \notin {"session.create", "session.config"}
      BY <1>1, <3>1 DEF Overrides
    <3>6. fold[d].board.title = e.val
      BY <1>1, <2>1, <3>1, <3>2, <3>3, <3>4, <3>5, TitleAtEnd
    <3> QED BY <3>1, <3>6 DEF Stands
  <2> QED BY <2>4, <2>5
<1>2. IInv => LastWordStands
  BY <1>1 DEF LastWordStands
<1> QED BY <1>2, Invariance, PTL
=============================================================================
