---------------------------- MODULE CpoolGpProofs ----------------------------
(***************************************************************************)
(* The groups that are searched for tasks are those that have some:        *)
(* FirstEntries is an invariant of CpoolGp.  What is shown of its actions  *)
(* on the way serves CpoolGpCountProofs and CpoolGpWaitProofs.             *)
(***************************************************************************)
EXTENDS CpoolGp, FunctionTheorems, FiniteSetTheorems, SequenceTheorems, TLAPS

(***************************************************************************)
(* Induction and folds.  The induction theorems of the library have an     *)
(* operator as parameter, which the provers cannot find; over a set of     *)
(* numbers they can.                                                       *)
(***************************************************************************)

\* Induction over the naturals, for sets of them.
LEMMA NatSetInduction ==
  ASSUME NEW P, 0 \in P, \A n \in Nat : n \in P => n + 1 \in P
  PROVE  Nat \subseteq P
<1> SUFFICES ASSUME Nat \ P # {} PROVE FALSE
  OBVIOUS
<1>1. PICK n \in Nat \ P : \A m \in Nat \ P : <<m, n>> \notin OpToRel(<, Nat)
  BY NatLessThanWellFounded, WFMin, Nat \ P \subseteq Nat, Zenon
<1>2. n \in Nat /\ n # 0
  BY <1>1
<1>3. n - 1 \in Nat /\ <<n - 1, n>> \in OpToRel(<, Nat)
  BY <1>2 DEF OpToRel
<1>4. n - 1 \in P
  BY <1>1, <1>3
<1>5. (n - 1) + 1 = n
  BY <1>2
<1> QED
  BY <1>1, <1>3, <1>4, <1>5

LEMMA MaxIs ==
  ASSUME NEW k \in Nat, NEW s \in SUBSET (1 .. (k + 1)), k + 1 \in s
  PROVE  Max(s) = k + 1
<1>1. \A y \in s : k + 1 >= y
  OBVIOUS
<1>2. \A x \in s : (\A y \in s : x >= y) => x = k + 1
  BY SMT
<1> QED
  BY <1>1, <1>2 DEF Max

\* f gives what a fold makes of any part of a sequence of n elements.
FoldedBy(f, n, b, step) ==
    f = [s \in SUBSET (1 .. n) |->
            IF s = {} THEN b ELSE step[<<f[s \ {Max(s)}], Max(s)>>]]

LEMMA FoldExists ==
  ASSUME NEW n \in Nat, NEW S, NEW b \in S, NEW step \in [S \X (1 .. n) -> S]
  PROVE  \E f \in [SUBSET (1 .. n) -> S] : FoldedBy(f, n, b, step)
<1> DEFINE P == {k \in Nat : k <= n =>
                        \E f \in [SUBSET (1 .. k) -> S] : FoldedBy(f, k, b, step)}
<1>1. 0 \in P
  <2>1. [s \in SUBSET (1 .. 0) |-> b] \in [SUBSET (1 .. 0) -> S]
    OBVIOUS
  <2>2. \A s \in SUBSET (1 .. 0) : s = {}
    <3>1. \A x : x \notin 1 .. 0
      BY SMT
    <3> QED
      BY <3>1, Zenon
  <2>3. FoldedBy([s \in SUBSET (1 .. 0) |-> b], 0, b, step)
    BY <2>2 DEF FoldedBy
  <2> QED
    BY <2>1, <2>3
<1>2. ASSUME NEW k \in Nat, k \in P PROVE k + 1 \in P
  <2>0. k + 1 \in Nat
    OBVIOUS
  <2> SUFFICES ASSUME k + 1 <= n
               PROVE  \E f \in [SUBSET (1 .. (k + 1)) -> S] : FoldedBy(f, k + 1, b, step)
    BY <2>0, Zenon
  <2>1. k <= n
    BY SMT
  <2>2. PICK f \in [SUBSET (1 .. k) -> S] : FoldedBy(f, k, b, step)
    BY <1>2, <2>1
  <2> HIDE DEF P
  <2> DEFINE g == [s \in SUBSET (1 .. (k + 1)) |->
                    IF k + 1 \in s THEN step[<<f[s \ {k + 1}], k + 1>>] ELSE f[s]]
  <2>3. ASSUME NEW s \in SUBSET (1 .. (k + 1)), k + 1 \notin s
        PROVE  s \in SUBSET (1 .. k)
    BY <2>3, SMT
  <2>4. ASSUME NEW s \in SUBSET (1 .. (k + 1))
        PROVE  s \ {k + 1} \in SUBSET (1 .. k)
    BY <2>4, SMT
  <2>5. g \in [SUBSET (1 .. (k + 1)) -> S]
    <3>1. ASSUME NEW s \in SUBSET (1 .. (k + 1)), k + 1 \in s
          PROVE  step[<<f[s \ {k + 1}], k + 1>>] \in S
      <4>1. f[s \ {k + 1}] \in S
        BY <2>4
      <4>2. k + 1 \in 1 .. n
        BY SMT
      <4> QED
        BY <4>1, <4>2
    <3> QED
      BY <2>3, <3>1
  <2>6. ASSUME NEW s \in SUBSET (1 .. (k + 1))
        PROVE  g[s] = IF s = {} THEN b ELSE step[<<g[s \ {Max(s)}], Max(s)>>]
    <3>1. CASE k + 1 \in s
      <4>1. Max(s) = k + 1
        BY <3>1, MaxIs
      <4>2. g[s \ {k + 1}] = f[s \ {k + 1}]
        BY <2>4
      <4> QED
        BY <3>1, <4>1, <4>2
    <3>2. CASE k + 1 \notin s
      <4>1. s \in SUBSET (1 .. k)
        BY <2>3, <3>2
      <4>2. g[s] = f[s] /\ g[s \ {Max(s)}] = f[s \ {Max(s)}]
        BY <3>2, <4>1
      <4>3. f[s] = IF s = {} THEN b ELSE step[<<f[s \ {Max(s)}], Max(s)>>]
        BY <2>2, <4>1, Zenon DEF FoldedBy
      <4> QED
        BY <4>2, <4>3
    <3> QED
      BY <3>1, <3>2
  <2>7. FoldedBy(g, k + 1, b, step)
    BY <2>6 DEF FoldedBy
  <2> HIDE DEF g
  <2> QED
    BY <2>5, <2>7
<1>3. n \in P
  <2> HIDE DEF P
  <2> QED
    BY <1>1, <1>2, NatSetInduction
<1>4. n <= n
  OBVIOUS
<1> QED
  BY <1>3, <1>4, Zenon

LEMMA MaxIn ==
  ASSUME NEW n \in Nat, NEW z \in SUBSET (1 .. n), z # {}
  PROVE  Max(z) \in z
<1>1. \E x \in z : \A y \in z : x >= y
  <2> DEFINE P == {k \in Nat : \A w \in SUBSET (1 .. k) : w # {} =>
                                  \E x \in w : \A y \in w : x >= y}
  <2>1. 0 \in P
    <3>1. \A x : x \notin 1 .. 0
      BY SMT
    <3>2. \A w \in SUBSET (1 .. 0) : w = {}
      BY <3>1, Zenon
    <3> QED
      BY <3>2
  <2>2. ASSUME NEW k \in Nat, k \in P PROVE k + 1 \in P
    <3> SUFFICES ASSUME NEW w \in SUBSET (1 .. (k + 1)), w # {}
                 PROVE  \E x \in w : \A y \in w : x >= y
      OBVIOUS
    <3>1. CASE k + 1 \in w
      BY <3>1, SMT
    <3>2. CASE k + 1 \notin w
      <4>1. w \in SUBSET (1 .. k)
        BY <3>2, SMT
      <4> QED
        BY <2>2, <4>1
    <3> QED
      BY <3>1, <3>2
  <2> HIDE DEF P
  <2>3. n \in P
    BY <2>1, <2>2, NatSetInduction
  <2> QED
    BY <2>3 DEF P
<1> QED
  BY <1>1, Zenon DEF Max

\* What holds of the first value and goes from one to the next holds of the last.
LEMMA SeqInduction ==
  ASSUME NEW n \in Nat, NEW h, NEW P, h[0] \in P,
         \A i \in 1 .. n : h[i - 1] \in P => h[i] \in P
  PROVE  h[n] \in P
<1> DEFINE Q == {k \in Nat : k <= n => h[k] \in P}
<1>1. 0 \in Q
  OBVIOUS
<1>2. ASSUME NEW k \in Nat, k \in Q PROVE k + 1 \in Q
  <2> SUFFICES ASSUME k + 1 <= n PROVE h[k + 1] \in P
    OBVIOUS
  <2>1. k + 1 \in 1 .. n /\ (k + 1) - 1 = k /\ k <= n
    BY SMT
  <2>2. h[k] \in P
    BY <1>2, <2>1
  <2> QED
    BY <2>1, <2>2
<1> HIDE DEF Q
<1>3. n \in Q
  BY <1>1, <1>2, NatSetInduction
<1> QED
  BY <1>3 DEF Q

LEMMA MaxInterval ==
  ASSUME NEW i \in Nat \ {0}
  PROVE  /\ 1 .. i # {} /\ Max(1 .. i) = i
         /\ (1 .. i) \ {i} = 1 .. (i - 1)
<1>1. i - 1 \in Nat /\ (i - 1) + 1 = i
  OBVIOUS
<1>2. Max(1 .. i) = i
  <2>1. 1 .. i \in SUBSET (1 .. ((i - 1) + 1)) /\ (i - 1) + 1 \in 1 .. i
    BY <1>1
  <2> QED
    BY <1>1, <2>1, MaxIs
<1> QED
  BY <1>2, SMT

-----------------------------------------------------------------------------
(***************************************************************************)
(* The shape of the state.  Counters may be any numbers here: that they    *)
(* are natural ones, and which, is GroupCounts.                            *)
(***************************************************************************)

EntryShape ==
    [ used : {"free", "valid", "destroying"}, throttle : BOOLEAN,
      active : BOOLEAN, paused : BOOLEAN, limit_paralle_tasks : Int,
      limit_tasks : Int, receive_benifits : BOOLEAN, npendings_eff : Int,
      nrunnings : Int, ndispatchings : Int, queue : Seq(Tasks) ]

GpShape ==
    [ entry : [Ids -> EntryShape], num : 0 .. MaxNum, actentry : [Ids -> Ids],
      active_idx : Int, nactives_ok : Int, npendings : Int, effective : Int,
      ndispatchings : Int, paused : BOOLEAN, destroying : BOOLEAN,
      throttle_on : BOOLEAN, maxthreads : MaxThreads,
      stat : [Tasks -> TaskStats], wpending : SUBSET Tasks,
      gid : [Tasks -> Ids], thread : [Tasks -> Threads \cup {NoThread}],
      order : Seq(Tasks), dispatch_q : Seq(Tasks), spinning : BOOLEAN ]

\* s and p differ in their lists and counters only.
Alike(s, p) ==
    /\ p.stat = s.stat /\ p.wpending = s.wpending /\ p.gid = s.gid
    /\ p.dispatch_q = s.dispatch_q /\ p.num = s.num /\ p.paused = s.paused
    /\ p.destroying = s.destroying /\ p.throttle_on = s.throttle_on
    /\ \A g \in Ids : /\ p.entry[g].used = s.entry[g].used
                      /\ p.entry[g].throttle = s.entry[g].throttle
                      /\ p.entry[g].paused = s.entry[g].paused
                      /\ p.entry[g].queue = s.entry[g].queue

\* ... in their counters only.
Listed(s, p) ==
    /\ Alike(s, p)
    /\ p.actentry = s.actentry /\ p.active_idx = s.active_idx
    /\ p.nactives_ok = s.nactives_ok
    /\ \A g \in Ids : p.entry[g].active = s.entry[g].active

Actives(s) == {g \in Ids : s.entry[g].active}
First(s) == {s.actentry[i] : i \in 0 .. (s.active_idx - 1)}

\* Each entry has one place in actentry.
OnePlaceEach(s) ==
    /\ \A i, j \in Ids : s.actentry[i] = s.actentry[j] => i = j
    /\ \A g \in Ids : \E i \in Ids : s.actentry[i] = g

\* The list of active entries, and what it counts.
ListSound(s) ==
    /\ s.active_idx \in 0 .. MaxNum
    /\ s.nactives_ok = Cardinality(Actives(s))
    /\ OnePlaceEach(s)
    /\ Actives(s) \subseteq First(s)

\* p is s with the places i and j exchanged.
Swapped(s, p, i, j) ==
    /\ p \in GpShape /\ Alike(s, p) /\ p.entry = s.entry
    /\ p.active_idx = s.active_idx /\ p.nactives_ok = s.nactives_ok
    /\ \A k \in Ids : p.actentry[k] = IF k = i THEN s.actentry[j]
                                      ELSE IF k = j THEN s.actentry[i]
                                      ELSE s.actentry[k]
    /\ OnePlaceEach(p)

LEMMA IdsFinite == MaxNum \in Nat /\ 0 \in Ids /\ IsFiniteSet(Ids) /\ Ids \subseteq Int
<1>1. MaxNum \in Nat /\ 0 \in Ids /\ Ids \subseteq Int
  BY GpAssumption DEF Ids
<1> QED
  BY <1>1, FS_Interval, GpAssumption DEF Ids

LEMMA ListedSound ==
  ASSUME NEW s, NEW p, ListSound(s), Listed(s, p)
  PROVE  ListSound(p) /\ Actives(p) = Actives(s) /\ First(p) = First(s)
<1>1. Actives(p) = Actives(s) /\ First(p) = First(s)
  BY DEF Listed, Actives, First
<1> QED
  BY <1>1 DEF Listed, ListSound, OnePlaceEach

LEMMA IndexIs ==
  ASSUME NEW s, ListSound(s), NEW g \in Ids
  PROVE  Index(s, g) \in Ids /\ s.actentry[Index(s, g)] = g
BY DEF Index, ListSound, OnePlaceEach

LEMMA SwapKeeps ==
  ASSUME NEW s \in GpShape, NEW i \in Ids, NEW j \in Ids, OnePlaceEach(s)
  PROVE  Swapped(s, Swap(s, i, j), i, j)
<1> DEFINE p == Swap(s, i, j)
<1>1. p \in GpShape
  BY DEF Swap, GpShape
<1>2. p.actentry = [s.actentry EXCEPT ![i] = s.actentry[j], ![j] = s.actentry[i]]
  BY DEF Swap, GpShape
<1>3. /\ p.entry = s.entry /\ p.active_idx = s.active_idx
      /\ p.nactives_ok = s.nactives_ok /\ Alike(s, p)
  BY DEF Swap, GpShape, Alike
<1>4. s.actentry \in [Ids -> Ids]
  BY DEF GpShape
<1> HIDE DEF p
<1>5. \A k \in Ids : p.actentry[k] = IF k = i THEN s.actentry[j]
                                     ELSE IF k = j THEN s.actentry[i]
                                     ELSE s.actentry[k]
  BY <1>2, <1>4
<1>6. \A k, l \in Ids : p.actentry[k] = p.actentry[l] => k = l
  BY <1>4, <1>5 DEF OnePlaceEach
<1>7. \A g \in Ids : \E k \in Ids : p.actentry[k] = g
  <2> TAKE g \in Ids
  <2>1. PICK k \in Ids : s.actentry[k] = g
    BY DEF OnePlaceEach
  <2>2. CASE k = i
    BY <1>5, <2>1, <2>2
  <2>3. CASE k = j
    BY <1>5, <2>1, <2>3
  <2>4. CASE k # i /\ k # j
    BY <1>5, <2>1, <2>4
  <2> QED
    BY <2>2, <2>3, <2>4
<1>8. Swapped(s, p, i, j)
  BY <1>1, <1>3, <1>5, <1>6, <1>7 DEF Swapped, OnePlaceEach
<1> QED
  BY <1>8 DEF p

LEMMA ActivateKeeps ==
  ASSUME NEW s \in GpShape, ListSound(s), NEW g \in Ids, ~s.entry[g].active
  PROVE  LET p == Activate(s, g)
         IN  /\ p \in GpShape /\ ListSound(p) /\ Alike(s, p)
             /\ Actives(p) = Actives(s) \cup {g}
             /\ First(p) \subseteq First(s) \cup {g}
<1> DEFINE joined == [s EXCEPT !.entry[g].active = TRUE, !.nactives_ok = @ + 1]
           p == Activate(s, g)
<1>1. /\ joined \in GpShape /\ Alike(s, joined)
      /\ joined.actentry = s.actentry /\ joined.active_idx = s.active_idx
      /\ joined.nactives_ok = s.nactives_ok + 1
      /\ \A h \in Ids : joined.entry[h].active <=> (h = g \/ s.entry[h].active)
  <2> DEFINE e == [s.entry[g] EXCEPT !.active = TRUE]
             E == [s.entry EXCEPT ![g] = e]
  <2>1. s.entry[g] \in EntryShape /\ s.entry \in [Ids -> EntryShape]
    BY DEF GpShape
  <2>2. /\ e \in EntryShape /\ e.active = TRUE /\ e.used = s.entry[g].used
        /\ e.throttle = s.entry[g].throttle /\ e.paused = s.entry[g].paused
        /\ e.queue = s.entry[g].queue
    BY <2>1 DEF EntryShape
  <2>3. s.nactives_ok + 1 \in Int
    BY DEF GpShape
  <2>4. joined = [s EXCEPT !.entry = E, !.nactives_ok = s.nactives_ok + 1]
    BY DEF GpShape
  <2> HIDE DEF e, joined
  <2>5. E \in [Ids -> EntryShape]
    BY <2>1, <2>2
  <2> HIDE DEF E
  <2>6. /\ joined \in GpShape /\ joined.entry = E
        /\ joined.actentry = s.actentry /\ joined.active_idx = s.active_idx
        /\ joined.nactives_ok = s.nactives_ok + 1
        /\ joined.stat = s.stat /\ joined.wpending = s.wpending /\ joined.gid = s.gid
        /\ joined.dispatch_q = s.dispatch_q /\ joined.num = s.num
        /\ joined.paused = s.paused /\ joined.destroying = s.destroying
        /\ joined.throttle_on = s.throttle_on
    BY <2>3, <2>4, <2>5 DEF GpShape
  <2>7. \A h \in Ids : E[h] = IF h = g THEN e ELSE s.entry[h]
    BY <2>1 DEF E
  <2> QED
    BY <2>2, <2>6, <2>7 DEF Alike
<1>2. /\ Actives(s) \subseteq Ids /\ g \notin Actives(s)
      /\ Actives(joined) = Actives(s) \cup {g}
  BY <1>1 DEF Actives
<1>3. joined.nactives_ok = Cardinality(Actives(joined)) /\ Cardinality(Actives(s)) \in Nat
  <2>1. IsFiniteSet(Actives(s))
    BY <1>2, IdsFinite, FS_Subset
  <2>2. Cardinality(Actives(s) \cup {g}) = Cardinality(Actives(s)) + 1
    BY <1>2, <2>1, FS_AddElement
  <2> QED
    BY <1>1, <1>2, <2>1, <2>2, FS_CardinalityType DEF ListSound
<1>4. /\ OnePlaceEach(joined) /\ OnePlaceEach(s)
      /\ s.actentry \in [Ids -> Ids] /\ s.active_idx \in 0 .. MaxNum
      /\ Actives(s) \subseteq First(s)
  BY <1>1 DEF ListSound, GpShape, OnePlaceEach
<1>5. /\ Index(joined, g) \in Ids /\ joined.actentry[Index(joined, g)] = g
  BY <1>4 DEF Index, OnePlaceEach
<1> DEFINE x == Index(joined, g)
<1>6. p = IF joined.nactives_ok = 1
          THEN [Swap(joined, 0, Index(s, g)) EXCEPT !.active_idx = 1]
          ELSE IF s.active_idx <= Index(s, g)
          THEN [Swap(joined, s.active_idx, Index(s, g)) EXCEPT !.active_idx = @ + 1]
          ELSE joined
  BY <1>1 DEF Activate
<1>7. Index(s, g) = x
  BY <1>1 DEF Index
<1> HIDE DEF joined, p, x
<1>8. x \in Ids /\ s.actentry[x] = g /\ x \in Nat /\ x < MaxNum /\ 0 \in Ids /\ MaxNum \in Nat
  BY <1>1, <1>5, IdsFinite DEF x, Ids
<1>9. CASE joined.nactives_ok = 1
  <2> DEFINE w == Swap(joined, 0, x)
  <2>1. p = [w EXCEPT !.active_idx = 1]
    BY <1>6, <1>7, <1>9
  <2>2. Swapped(joined, w, 0, x)
    BY <1>1, <1>4, <1>8, SwapKeeps
  <2> HIDE DEF w
  <2>3. /\ p \in GpShape /\ Alike(w, p) /\ p.entry = w.entry /\ p.active_idx = 1
        /\ p.actentry = w.actentry /\ p.nactives_ok = w.nactives_ok
    <3>1. w \in GpShape /\ 1 \in Int
      BY <2>2 DEF Swapped
    <3>2. p \in GpShape
      BY <2>1, <3>1 DEF GpShape
    <3> QED
      BY <2>1, <3>1, <3>2 DEF GpShape, Alike
  <2>4. p.actentry[0] = g
    BY <1>1, <1>8, <2>2, <2>3 DEF Swapped
  <2>5. First(p) = {g}
    <3>1. 0 .. (p.active_idx - 1) = {0}
      BY <2>3
    <3> QED
      BY <2>4, <3>1 DEF First
  <2>6. Actives(p) = Actives(joined)
    BY <2>2, <2>3 DEF Actives, Swapped
  <2>7. Actives(s) = {}
    <3>1. Cardinality(Actives(s)) = 0
      BY <1>1, <1>3, <1>9 DEF ListSound
    <3> QED
      BY <1>2, <3>1, IdsFinite, FS_Subset, FS_EmptySet
  <2>8. 1 \in 0 .. MaxNum
    BY <1>8
  <2>9. OnePlaceEach(p)
    BY <2>2, <2>3 DEF Swapped, OnePlaceEach
  <2>10. ListSound(p)
    BY <1>2, <1>3, <2>2, <2>3, <2>5, <2>6, <2>7, <2>8, <2>9 DEF ListSound, Swapped
  <2> QED
    BY <1>1, <1>2, <2>2, <2>3, <2>5, <2>6, <2>10 DEF Alike, Swapped, p
<1>10. CASE joined.nactives_ok # 1 /\ s.active_idx <= x
  <2> DEFINE a == s.active_idx
             w == Swap(joined, a, x)
  <2>2. a \in Nat /\ a < MaxNum /\ a \in Ids
    <3>1. a \in Nat /\ a < MaxNum
      BY <1>4, <1>8, <1>10
    <3> QED
      BY <1>8, <3>1 DEF Ids
  <2>3. Swapped(joined, w, a, x)
    BY <1>1, <1>4, <1>8, <2>2, SwapKeeps
  <2>1. p = [w EXCEPT !.active_idx = a + 1]
    <3>1. w \in GpShape /\ w.active_idx = a
      BY <1>1, <2>3 DEF Swapped
    <3>2. p = [w EXCEPT !.active_idx = @ + 1]
      BY <1>6, <1>7, <1>10
    <3> QED
      BY <3>1, <3>2 DEF GpShape
  <2> HIDE DEF w, a
  <2>4. a + 1 \in Int /\ a + 1 \in 0 .. MaxNum
    BY <1>8, <2>2
  <2>5. /\ p \in GpShape /\ Alike(w, p) /\ p.entry = w.entry /\ p.active_idx = a + 1
        /\ p.actentry = w.actentry /\ p.nactives_ok = w.nactives_ok
    <3>1. w \in GpShape
      BY <2>3 DEF Swapped
    <3> QED
      BY <2>1, <2>4, <3>1 DEF GpShape, Alike
  <2>6. First(p) = First(s) \cup {g}
    <3>1. ASSUME NEW i \in 0 .. (a - 1)
          PROVE  i \in Ids /\ p.actentry[i] = s.actentry[i]
      <4>1. i \in Nat /\ i < a /\ i # a /\ i # x /\ i < MaxNum
        BY <1>8, <1>10, <2>2 DEF a
      <4>2. i \in Ids
        BY <1>8, <4>1 DEF Ids
      <4> QED
        BY <1>1, <2>3, <2>5, <4>1, <4>2 DEF Swapped
    <3>2. p.actentry[a] = g
      BY <1>1, <1>8, <2>2, <2>3, <2>5 DEF Swapped
    <3>3. 0 .. (p.active_idx - 1) = (0 .. (a - 1)) \cup {a}
      BY <2>2, <2>5
    <3> QED
      BY <3>1, <3>2, <3>3 DEF First, a
  <2>7. Actives(p) = Actives(joined)
    BY <2>3, <2>5 DEF Actives, Swapped
  <2>8. OnePlaceEach(p)
    BY <2>3, <2>5 DEF Swapped, OnePlaceEach
  <2>9. ListSound(p)
    BY <1>2, <1>3, <1>4, <2>3, <2>4, <2>5, <2>6, <2>7, <2>8 DEF ListSound, Swapped
  <2> QED
    BY <1>1, <1>2, <2>3, <2>5, <2>6, <2>7, <2>9 DEF Alike, Swapped, p
<1>11. CASE joined.nactives_ok # 1 /\ ~(s.active_idx <= x)
  <2>1. p = joined
    BY <1>6, <1>7, <1>11
  <2>2. First(p) = First(s)
    BY <1>1, <2>1 DEF First
  <2>3. g \in First(s)
    BY <1>4, <1>8, <1>11 DEF First
  <2>4. ListSound(p)
    BY <1>1, <1>2, <1>3, <1>4, <2>1, <2>2, <2>3 DEF ListSound
  <2> QED
    BY <1>1, <1>2, <2>1, <2>2, <2>4 DEF p
<1> QED
  BY <1>9, <1>10, <1>11

\* F gives in S what a fold makes of any part of a sequence of n elements ...
Folds(F, n, S, b, step) ==
    /\ F[{}] = b
    /\ \A z \in SUBSET (1 .. n) : (z # {} /\ F[z \ {Max(z)}] \in S) =>
            F[z] = step[<<F[z \ {Max(z)}], Max(z)>>]

\* ... and h the results it goes through, from the first to the last.
StepsTo(h, n, b, step, last) ==
    /\ h[0] = b /\ h[n] = last
    /\ \A i \in 1 .. n : h[i] = step[<<h[i - 1], i>>]

LEMMA FoldSteps ==
  ASSUME NEW n \in Nat, NEW S, NEW b \in S, NEW step \in [S \X (1 .. n) -> S], NEW F,
         Folds(F, n, S, b, step)
  PROVE  \E h \in [0 .. n -> S] : StepsTo(h, n, b, step, F[1 .. n])
<1>1. ASSUME NEW i \in 1 .. n, F[1 .. (i - 1)] \in S
      PROVE  F[1 .. i] = step[<<F[1 .. (i - 1)], i>>] /\ F[1 .. i] \in S
  <2>1. i \in Nat \ {0} /\ 1 .. i \in SUBSET (1 .. n)
    BY SMT
  <2>2. /\ 1 .. i # {} /\ Max(1 .. i) = i
        /\ (1 .. i) \ {i} = 1 .. (i - 1)
    BY <2>1, MaxInterval
  <2>3. F[(1 .. i) \ {Max(1 .. i)}] \in S
    BY <1>1, <2>2
  <2>4. F[1 .. i] = step[<<F[(1 .. i) \ {Max(1 .. i)}], Max(1 .. i)>>]
    BY <2>1, <2>2, <2>3, Zenon DEF Folds
  <2>5. F[1 .. i] = step[<<F[1 .. (i - 1)], i>>]
    BY <2>2, <2>4
  <2> QED
    BY <1>1, <2>5
<1> DEFINE h == [i \in 0 .. n |-> F[1 .. i]]
<1>2. h[0] = b
  <2>1. 1 .. 0 = {} /\ 0 \in 0 .. n
    OBVIOUS
  <2> QED
    BY <2>1 DEF Folds
<1>3. \A i \in 1 .. n : h[i - 1] = F[1 .. (i - 1)] /\ h[i] = F[1 .. i]
  OBVIOUS
<1>4. \A k \in 0 .. n : h[k] \in S
  <2> TAKE k \in 0 .. n
  <2>1. k \in Nat /\ \A i \in 1 .. k : i \in 1 .. n
    OBVIOUS
  <2>2. \A i \in 1 .. k : h[i - 1] \in S => h[i] \in S
    BY <1>1, <1>3, <2>1
  <2> HIDE DEF h
  <2> QED
    BY <1>2, <2>1, <2>2, SeqInduction
<1>5. \A i \in 1 .. n : h[i] = step[<<h[i - 1], i>>]
  <2> TAKE i \in 1 .. n
  <2>1. i - 1 \in 0 .. n
    OBVIOUS
  <2> QED
    BY <1>1, <1>3, <1>4, <2>1
<1>6. h \in [0 .. n -> S]
  BY <1>4
<1>7. h[n] = F[1 .. n]
  OBVIOUS
<1> HIDE DEF h
<1>8. StepsTo(h, n, b, step, F[1 .. n])
  BY <1>2, <1>5, <1>7 DEF StepsTo
<1> QED
  BY <1>6, <1>8, Zenon

\* The steps of __cpool_gp_entry_shrink.
FillAll(s, n) == FoldLeft(Fill, s, Places(n))

FillsOf(h, n, b) ==
    /\ h[0] = b /\ h[n] = FillAll(b, n)
    /\ \A i \in 1 .. n : h[i] = Fill(h[i - 1], i - 1)

LEMMA FillSteps ==
  ASSUME NEW n \in Nat, NEW S, NEW b \in S,
         \A p \in S, i \in 0 .. (n - 1) : Fill(p, i) \in S
  PROVE  \E h \in [0 .. n -> S] : FillsOf(h, n, b)
<1> DEFINE seq == Places(n)
           Is(f) == f = [z \in SUBSET (1 .. n) |->
                    IF z = {} THEN b ELSE Fill(f[z \ {Max(z)}], seq[Max(z)])]
           F == CHOOSE f : Is(f)
           step == [x \in S \X (1 .. n) |-> Fill(x[1], seq[x[2]])]
<1>1. FillAll(b, n) = F[1 .. n]
  <2>1. DOMAIN seq = 1 .. n
    BY DEF Places
  <2> QED
    BY <2>1, Zenon DEF FillAll, FoldLeft, MapThenFoldSet
<1>2. \A i \in 1 .. n : seq[i] = i - 1 /\ i - 1 \in 0 .. (n - 1)
  BY DEF Places
<1>3. step \in [S \X (1 .. n) -> S]
  BY <1>2
<1> HIDE DEF seq
<1>4. Is(F)
  <2>1. PICK f \in [SUBSET (1 .. n) -> S] : FoldedBy(f, n, b, step)
    <3> HIDE DEF step
    <3> QED
      BY <1>3, FoldExists
  <2>2. \A z \in SUBSET (1 .. n) : z # {} => Max(z) \in 1 .. n
    BY MaxIn
  <2>3. Is(f)
    BY <2>1, <2>2 DEF FoldedBy
  <2> HIDE DEF Is
  <2> QED
    BY <2>3, Zenon
<1>5. Folds(F, n, S, b, step)
  <2> HIDE DEF F
  <2>1. {} \in SUBSET (1 .. n)
    OBVIOUS
  <2>2. F[{}] = b
    BY <1>4, <2>1, Zenon
  <2>3. ASSUME NEW z \in SUBSET (1 .. n), z # {}, F[z \ {Max(z)}] \in S
        PROVE  F[z] = step[<<F[z \ {Max(z)}], Max(z)>>]
    BY <1>4, <2>3, MaxIn
  <2> HIDE DEF step
  <2> QED
    BY <2>2, <2>3 DEF Folds
<1>6. PICK h \in [0 .. n -> S] : StepsTo(h, n, b, step, F[1 .. n])
  <2> HIDE DEF F, step
  <2> QED
    BY <1>3, <1>5, FoldSteps
<1>7. h[0] = b /\ h[n] = FillAll(b, n)
  BY <1>1, <1>6, Zenon DEF StepsTo
<1>8. ASSUME NEW i \in 1 .. n PROVE h[i] = Fill(h[i - 1], i - 1)
  <2>1. h[i] = step[<<h[i - 1], i>>]
    BY <1>6, Zenon DEF StepsTo
  <2>2. h[i - 1] \in S
    <3>1. i - 1 \in 0 .. n
      OBVIOUS
    <3> QED
      BY <3>1, Zenon
  <2>3. <<h[i - 1], i>> \in S \X (1 .. n)
    BY <2>2
  <2> QED
    BY <1>2, <2>1, <2>3
<1> QED
  BY <1>7, <1>8, Zenon DEF FillsOf

LEMMA FoldEnds ==
  ASSUME NEW n \in Nat, NEW S, NEW b \in S, NEW step \in [S \X (1 .. n) -> S], NEW F,
         Folds(F, n, S, b, step)
  PROVE  F[1 .. n] \in S
<1>1. PICK h \in [0 .. n -> S] : StepsTo(h, n, b, step, F[1 .. n])
  BY FoldSteps
<1>2. n \in 0 .. n
  OBVIOUS
<1> QED
  BY <1>1, <1>2, Zenon DEF StepsTo

LEMMA StepInduction ==
  ASSUME NEW n \in Nat, NEW h, NEW P, h[0] \in P[0],
         \A i \in 1 .. n : h[i - 1] \in P[i - 1] => h[i] \in P[i]
  PROVE  h[n] \in P[n]
<1> DEFINE Q == {k \in Nat : k <= n => h[k] \in P[k]}
<1>1. 0 \in Q
  OBVIOUS
<1>2. ASSUME NEW k \in Nat, k \in Q PROVE k + 1 \in Q
  <2> SUFFICES ASSUME k + 1 <= n PROVE h[k + 1] \in P[k + 1]
    OBVIOUS
  <2>1. k + 1 \in 1 .. n /\ (k + 1) - 1 = k /\ k <= n
    BY SMT
  <2>2. h[k] \in P[k]
    BY <1>2, <2>1
  <2> QED
    BY <2>1, <2>2
<1> HIDE DEF Q
<1>3. n \in Q
  BY <1>1, <1>2, NatSetInduction
<1> QED
  BY <1>3 DEF Q

\* p is s with the first places exchanged among each other.
Reordered(s, p) ==
    /\ p \in GpShape /\ Alike(s, p) /\ p.entry = s.entry
    /\ p.active_idx = s.active_idx /\ p.nactives_ok = s.nactives_ok
    /\ OnePlaceEach(p) /\ First(p) = First(s)

LEMMA SwapReorders ==
  ASSUME NEW s, NEW p, NEW i \in Ids, NEW j \in Ids, Swapped(s, p, i, j),
         s.active_idx \in 0 .. MaxNum, i < s.active_idx, j < s.active_idx
  PROVE  Reordered(s, p)
<1> DEFINE I == 0 .. (s.active_idx - 1)
<1>1. i \in I /\ j \in I /\ I \subseteq Ids /\ p.active_idx = s.active_idx
  BY IdsFinite DEF Ids, Swapped
<1> HIDE DEF I
<1>2. \A k \in I : p.actentry[k] = IF k = i THEN s.actentry[j]
                                   ELSE IF k = j THEN s.actentry[i]
                                   ELSE s.actentry[k]
  BY <1>1 DEF Swapped
<1>3. {p.actentry[k] : k \in I} = {s.actentry[k] : k \in I}
  BY <1>1, <1>2
<1> QED
  BY <1>1, <1>3 DEF Reordered, Swapped, First, I

\* What Fill does for a place.
LEMMA FillKeeps ==
  ASSUME NEW s \in GpShape, OnePlaceEach(s), s.active_idx \in 0 .. MaxNum,
         NEW i \in 0 .. (s.active_idx - 1)
  PROVE  LET p == Fill(s, i)
         IN  /\ Reordered(s, p)
             /\ \A j \in 0 .. (i - 1) : p.actentry[j] = s.actentry[j]
             /\ IsActive(p, i) \/ \A j \in i .. (s.active_idx - 1) : ~IsActive(p, j)
             /\ (\A j \in i .. (s.active_idx - 1) : ~IsActive(s, j)) =>
                    \A j \in i .. (s.active_idx - 1) : ~IsActive(p, j)
<1> DEFINE a == s.active_idx
           later == {j \in (i + 1) .. (a - 1) : IsActive(s, j)}
           p == Fill(s, i)
<1>1. /\ MaxNum \in Nat /\ a \in Nat /\ i \in Nat /\ i < a /\ i \in Ids
      /\ \A j \in (i + 1) .. (a - 1) : j \in Ids /\ j < a /\ j # i /\ j \in i .. (a - 1)
      /\ \A j \in 0 .. (i - 1) : j \in Ids /\ j # i /\ j \notin (i + 1) .. (a - 1)
      /\ \A j \in i .. (a - 1) : j = i \/ j \in (i + 1) .. (a - 1)
  BY IdsFinite DEF Ids
<1>2. CASE IsActive(s, i) \/ later = {}
  <2>1. p = s
    BY <1>2 DEF Fill
  <2>2. Reordered(s, s)
    BY DEF Reordered, Alike
  <2>3. IsActive(s, i) \/ \A j \in i .. (a - 1) : ~IsActive(s, j)
    BY <1>1, <1>2
  <2> HIDE DEF p
  <2> QED
    BY <2>1, <2>2, <2>3 DEF p
<1>3. CASE ~(IsActive(s, i) \/ later = {})
  <2>1. PICK l \in later : l = (CHOOSE j \in later : \A k \in later : j <= k)
    <3>1. later \subseteq Nat /\ later # {}
      BY <1>1, <1>3
    <3>2. \E j \in later : \A k \in later : j <= k
      <4>1. PICK j \in later : \A k \in later : <<k, j>> \notin OpToRel(<, Nat)
        BY <3>1, NatLessThanWellFounded, WFMin, Zenon
      <4>2. \A k \in later : ~(k < j)
        BY <3>1, <4>1 DEF OpToRel
      <4> HIDE DEF later
      <4>3. \A k \in later : j <= k
        <5> TAKE k \in later
        <5>1. k \in Nat /\ j \in Nat /\ ~(k < j)
          BY <3>1, <4>1, <4>2
        <5> QED
          BY <5>1
      <4> QED
        BY <4>1, <4>3
    <3> QED
      BY <3>2, Zenon
  <2>2. p = Swap(s, i, l)
    BY <1>3, <2>1 DEF Fill
  <2>3. l \in Ids /\ l < a /\ l # i /\ IsActive(s, l) /\ l \in i .. (a - 1)
    BY <1>1, <2>1
  <2>4. Swapped(s, p, i, l)
    BY <1>1, <2>2, <2>3, SwapKeeps
  <2> HIDE DEF p, later
  <2>5. Reordered(s, p)
    BY <1>1, <2>3, <2>4, SwapReorders
  <2>6. IsActive(p, i)
    BY <1>1, <2>3, <2>4 DEF IsActive, Swapped
  <2>7. \A j \in 0 .. (i - 1) : p.actentry[j] = s.actentry[j]
    <3> TAKE j \in 0 .. (i - 1)
    <3>1. j # l
      BY <1>1, <2>1 DEF later
    <3> QED
      BY <1>1, <2>4, <3>1 DEF Swapped
  <2>8. ~(\A j \in i .. (s.active_idx - 1) : ~IsActive(s, j))
    BY <2>3
  <2> QED
    BY <2>5, <2>6, <2>7, <2>8 DEF p
<1> QED
  BY <1>2, <1>3

LEMMA FirstCounted ==
  ASSUME NEW s \in GpShape, OnePlaceEach(s), NEW n \in 0 .. MaxNum
  PROVE  LET F == {s.actentry[i] : i \in 0 .. (n - 1)}
         IN  F \subseteq Ids /\ IsFiniteSet(F) /\ Cardinality(F) = n
<1> DEFINE I == 0 .. (n - 1)
           F == {s.actentry[i] : i \in I}
           f == [i \in I |-> s.actentry[i]]
<1>1. I \subseteq Ids /\ IsFiniteSet(I) /\ Cardinality(I) = n
  <2>1. MaxNum \in Nat /\ n \in Nat /\ 0 \in Int /\ n - 1 \in Int
    BY IdsFinite
  <2>2. I \subseteq Ids
    BY <2>1 DEF Ids
  <2>3. Cardinality(I) = IF 0 > n - 1 THEN 0 ELSE (n - 1) - 0 + 1
    BY <2>1, FS_Interval
  <2>4. Cardinality(I) = n
    BY <2>1, <2>3
  <2>5. IsFiniteSet(I)
    BY <2>1, FS_Interval
  <2> QED
    BY <2>2, <2>4, <2>5
<1>2. F \subseteq Ids
  BY <1>1 DEF GpShape
<1> HIDE DEF I
<1>3. f \in Bijection(I, F)
  <2>1. f \in [I -> F]
    OBVIOUS
  <2>2. \A i, j \in I : f[i] = f[j] => i = j
    BY <1>1 DEF OnePlaceEach
  <2>3. \A x \in F : \E i \in I : f[i] = x
    OBVIOUS
  <2> QED
    BY <2>1, <2>2, <2>3, Fun_IsBij, Zenon
<1> HIDE DEF F, f
<1>4. Cardinality(I) = Cardinality(F) /\ IsFiniteSet(F)
  BY <1>1, <1>3, FS_Bijection DEF ExistsBijection
<1> QED
  BY <1>1, <1>2, <1>4 DEF F, I

LEMMA SameSize ==
  ASSUME NEW A, NEW B, IsFiniteSet(B), A \subseteq B, Cardinality(A) = Cardinality(B)
  PROVE  A = B
BY FS_Subset, Zenon

LEMMA ShrinkKeeps ==
  ASSUME NEW s \in GpShape, ListSound(s)
  PROVE  LET p == Shrink(s)
         IN  /\ p \in GpShape /\ ListSound(p) /\ Alike(s, p)
             /\ Actives(p) = Actives(s) /\ First(p) = Actives(s)
             /\ p.entry = s.entry
<1> DEFINE n == s.nactives_ok
           a == s.active_idx
           A == Actives(s)
           S == {p \in GpShape : Reordered(s, p)}
           Done(i) == {p \in S : \/ \A j \in 0 .. (i - 1) : IsActive(p, j)
                                 \/ \A j \in i .. (a - 1) : ~IsActive(p, j)}
           P == [i \in 0 .. n |-> Done(i)]
<1>1. /\ a \in 0 .. MaxNum /\ MaxNum \in Nat /\ OnePlaceEach(s) /\ A \subseteq First(s)
      /\ n = Cardinality(A) /\ A \subseteq Ids /\ IsFiniteSet(A)
  <2>1. /\ a \in 0 .. MaxNum /\ MaxNum \in Nat /\ OnePlaceEach(s) /\ A \subseteq First(s)
        /\ n = Cardinality(A) /\ A \subseteq Ids
    BY IdsFinite DEF ListSound, Actives
  <2> HIDE DEF n, a, A
  <2> QED
    BY <2>1, IdsFinite, FS_Subset
<1>2. n \in Nat /\ n <= a
  <2>1. IsFiniteSet(First(s)) /\ Cardinality(First(s)) = a
    BY <1>1, FirstCounted DEF First
  <2> HIDE DEF n, a, A
  <2> QED
    BY <1>1, <2>1, FS_Subset, FS_CardinalityType
<1>3. s \in S /\ \A p \in S : p \in GpShape /\ Reordered(s, p)
  BY <1>1 DEF Reordered, Alike
<1>4. ASSUME NEW p \in S, NEW i \in 0 .. (n - 1)
      PROVE  Fill(p, i) \in S /\ (p \in Done(i) => Fill(p, i) \in Done(i + 1))
  <2> DEFINE q == Fill(p, i)
  <2>1. /\ p \in GpShape /\ OnePlaceEach(p) /\ p.active_idx = a /\ i \in 0 .. (p.active_idx - 1)
        /\ Reordered(s, p) /\ i \in Nat
    BY <1>1, <1>2, <1>3 DEF Reordered
  <2> HIDE DEF S, a, n
  <2>2. /\ Reordered(p, q)
        /\ \A j \in 0 .. (i - 1) : q.actentry[j] = p.actentry[j]
        /\ IsActive(q, i) \/ \A j \in i .. (a - 1) : ~IsActive(q, j)
        /\ (\A j \in i .. (a - 1) : ~IsActive(p, j)) =>
                \A j \in i .. (a - 1) : ~IsActive(q, j)
    BY <1>1, <2>1, FillKeeps
  <2> HIDE DEF q
  <2>3. Reordered(s, q)
    BY <2>1, <2>2 DEF Reordered, Alike
  <2>4. q \in S
    BY <2>3 DEF S, Reordered
  <2>5. ASSUME p \in Done(i) PROVE q \in Done(i + 1)
    <3>1. ASSUME \A j \in i .. (a - 1) : ~IsActive(q, j) PROVE q \in Done(i + 1)
      <4>1. \A j \in (i + 1) .. (a - 1) : j \in i .. (a - 1)
        BY <1>1, <2>1 DEF a
      <4> QED
        BY <2>4, <3>1, <4>1
    <3>2. ASSUME \A j \in 0 .. (i - 1) : IsActive(p, j), IsActive(q, i)
          PROVE  q \in Done(i + 1)
      <4>1. \A j \in 0 .. ((i + 1) - 1) : j = i \/ j \in 0 .. (i - 1)
        BY <2>1
      <4>2. \A j \in 0 .. (i - 1) : IsActive(q, j)
        BY <2>2, <3>2 DEF IsActive, Reordered
      <4> QED
        BY <2>4, <3>2, <4>1, <4>2
    <3> QED
      BY <2>2, <2>5, <3>1, <3>2
  <2> QED
    BY <2>4, <2>5 DEF q
<1> HIDE DEF S, Done, n, a, A
<1>5. PICK h \in [0 .. n -> S] : FillsOf(h, n, s)
  <2>1. \A p \in S, i \in 0 .. (n - 1) : Fill(p, i) \in S
    BY <1>4
  <2> QED
    BY <1>2, <1>3, <2>1, FillSteps
<1>6. h[n] \in Done(n)
  <2>1. 0 \in 0 .. n /\ n \in 0 .. n /\ \A i \in 1 .. n : i - 1 \in 0 .. n /\ i \in 0 .. n
                 /\ i - 1 \in 0 .. (n - 1) /\ (i - 1) + 1 = i
    BY <1>2
  <2>2. h[0] \in P[0]
    <3>1. \A j : j \notin 0 .. (0 - 1)
      BY SMT
    <3> QED
      BY <1>3, <1>5, <2>1, <3>1 DEF Done, FillsOf
  <2>3. \A i \in 1 .. n : h[i - 1] \in P[i - 1] => h[i] \in P[i]
    <3> TAKE i \in 1 .. n
    <3>1. h[i - 1] \in S /\ h[i] = Fill(h[i - 1], i - 1)
      BY <1>5, <2>1 DEF FillsOf
    <3>2. h[i - 1] \in Done(i - 1) => h[i] \in Done((i - 1) + 1)
      BY <1>4, <2>1, <3>1
    <3> QED
      BY <2>1, <3>2
  <2> HIDE DEF P
  <2>4. h[n] \in P[n]
    BY <1>2, <2>2, <2>3, StepInduction
  <2> QED
    BY <2>1, <2>4 DEF P
<1> DEFINE w == h[n]
           F == {w.actentry[i] : i \in 0 .. (n - 1)}
           p == Shrink(s)
<1>7. Reordered(s, w) /\ w \in GpShape
  BY <1>3, <1>6 DEF Done
<1>8. /\ \/ \A j \in 0 .. (n - 1) : IsActive(w, j)
         \/ \A j \in n .. (a - 1) : ~IsActive(w, j)
  BY <1>6 DEF Done
<1>9. p = [w EXCEPT !.active_idx = n]
  BY <1>5 DEF Shrink, n, FillsOf, FillAll
<1> HIDE DEF w, p
<1>10. F \subseteq Ids /\ IsFiniteSet(F) /\ Cardinality(F) = n
  <2>1. n \in 0 .. MaxNum /\ OnePlaceEach(w)
    BY <1>1, <1>2, <1>7 DEF Reordered
  <2> QED
    BY <1>7, <2>1, FirstCounted
<1>11. F = A
  <2>1. CASE \A j \in 0 .. (n - 1) : IsActive(w, j)
    <3>1. F \subseteq A
      BY <1>7, <1>10, <2>1 DEF IsActive, Reordered, A, Actives
    <3> QED
      BY <1>1, <1>10, <3>1, SameSize
  <2>2. CASE \A j \in n .. (a - 1) : ~IsActive(w, j)
    <3>1. A \subseteq F
      <4> SUFFICES ASSUME NEW g \in A PROVE g \in F
        OBVIOUS
      <4>1. PICK j \in 0 .. (a - 1) : w.actentry[j] = g
        BY <1>1, <1>7 DEF Reordered, First, a
      <4>2. IsActive(w, j)
        BY <1>7, <4>1 DEF IsActive, Reordered, A, Actives
      <4>3. j \in 0 .. (n - 1)
        BY <1>1, <1>2, <2>2, <4>2
      <4> QED
        BY <4>1, <4>3
    <3> QED
      BY <1>1, <1>10, <3>1, SameSize
  <2> QED
    BY <1>8, <2>1, <2>2
<1>12. /\ p \in GpShape /\ Alike(w, p) /\ p.entry = w.entry /\ p.active_idx = n
       /\ p.actentry = w.actentry /\ p.nactives_ok = w.nactives_ok
  <2>1. n \in Int
    BY <1>2
  <2>2. p \in GpShape
    BY <1>7, <1>9, <2>1 DEF GpShape
  <2> QED
    BY <1>7, <1>9, <2>1, <2>2 DEF GpShape, Alike
<1>13. First(p) = F
  BY <1>12 DEF First
<1>14. Actives(p) = A /\ p.entry = s.entry /\ Alike(s, p)
  BY <1>7, <1>12 DEF Reordered, Actives, A, Alike
<1>15. ListSound(p)
  <2>1. n \in 0 .. MaxNum
    BY <1>1, <1>2
  <2>2. OnePlaceEach(p)
    BY <1>7, <1>12 DEF OnePlaceEach, Reordered
  <2>3. p.nactives_ok = n
    BY <1>7, <1>12 DEF Reordered, n
  <2>4. p.active_idx \in 0 .. MaxNum /\ p.nactives_ok = Cardinality(Actives(p))
    BY <1>1, <1>12, <1>14, <2>1, <2>3
  <2> QED
    BY <1>11, <1>13, <1>14, <2>2, <2>4 DEF ListSound
<1> QED
  BY <1>11, <1>12, <1>13, <1>14, <1>15 DEF p, A

LEMMA InactivateKeeps ==
  ASSUME NEW s \in GpShape, ListSound(s), NEW g \in Ids, s.entry[g].active
  PROVE  LET p == Inactivate(s, g)
         IN  /\ p \in GpShape /\ ListSound(p) /\ Alike(s, p)
             /\ Actives(p) = Actives(s) \ {g} /\ First(p) \subseteq First(s)
             /\ s.entry[g].paused => First(p) = Actives(p)
<1> DEFINE left == [s EXCEPT !.entry[g].active = FALSE, !.nactives_ok = @ - 1]
           none == [left EXCEPT !.active_idx = 0]
           p == Inactivate(s, g)
<1>1. /\ left \in GpShape /\ Alike(s, left)
      /\ left.actentry = s.actentry /\ left.active_idx = s.active_idx
      /\ left.nactives_ok = s.nactives_ok - 1
      /\ \A h \in Ids : left.entry[h].active <=> (h # g /\ s.entry[h].active)
  <2> DEFINE e == [s.entry[g] EXCEPT !.active = FALSE]
             E == [s.entry EXCEPT ![g] = e]
  <2>1. s.entry[g] \in EntryShape /\ s.entry \in [Ids -> EntryShape]
    BY DEF GpShape
  <2>2. /\ e \in EntryShape /\ e.active = FALSE /\ e.used = s.entry[g].used
        /\ e.throttle = s.entry[g].throttle /\ e.paused = s.entry[g].paused
        /\ e.queue = s.entry[g].queue
    BY <2>1 DEF EntryShape
  <2>3. s.nactives_ok - 1 \in Int
    BY DEF GpShape
  <2>4. left = [s EXCEPT !.entry = E, !.nactives_ok = s.nactives_ok - 1]
    BY DEF GpShape
  <2> HIDE DEF e, left
  <2>5. E \in [Ids -> EntryShape]
    BY <2>1, <2>2
  <2> HIDE DEF E
  <2>6. /\ left \in GpShape /\ left.entry = E
        /\ left.actentry = s.actentry /\ left.active_idx = s.active_idx
        /\ left.nactives_ok = s.nactives_ok - 1
        /\ left.stat = s.stat /\ left.wpending = s.wpending /\ left.gid = s.gid
        /\ left.dispatch_q = s.dispatch_q /\ left.num = s.num
        /\ left.paused = s.paused /\ left.destroying = s.destroying
        /\ left.throttle_on = s.throttle_on
    BY <2>3, <2>4, <2>5 DEF GpShape
  <2>7. \A h \in Ids : E[h] = IF h = g THEN e ELSE s.entry[h]
    BY <2>1 DEF E
  <2> QED
    BY <2>2, <2>6, <2>7 DEF Alike
<1>2. /\ Actives(s) \subseteq Ids /\ g \in Actives(s)
      /\ Actives(left) = Actives(s) \ {g} /\ First(left) = First(s)
  BY <1>1 DEF Actives, First
<1>3. ListSound(left)
  <2>1. IsFiniteSet(Actives(s))
    BY <1>2, IdsFinite, FS_Subset
  <2>2. Cardinality(Actives(s) \ {g}) = Cardinality(Actives(s)) - 1
    BY <1>2, <2>1, FS_RemoveElement
  <2> QED
    BY <1>1, <1>2, <2>2 DEF ListSound, OnePlaceEach
<1>4. p = IF left.nactives_ok = 0 THEN none
          ELSE IF s.entry[g].paused \/ left.nactives_ok + 2 < left.active_idx
          THEN Shrink(left)
          ELSE left
  BY DEF Inactivate
<1> HIDE DEF left, none, p
<1>5. CASE left.nactives_ok = 0
  <2>1. p = [left EXCEPT !.active_idx = 0]
    BY <1>4, <1>5 DEF none
  <2>2. /\ p \in GpShape /\ Alike(left, p) /\ p.entry = left.entry /\ p.active_idx = 0
        /\ p.actentry = left.actentry /\ p.nactives_ok = left.nactives_ok
    <3>1. p \in GpShape
      <4>1. 0 \in Int
        OBVIOUS
      <4> QED
        BY <1>1, <2>1, <4>1 DEF GpShape
    <3> QED
      BY <1>1, <2>1, <3>1 DEF GpShape, Alike
  <2>3. Actives(p) = Actives(left) /\ Actives(left) = {}
    <3>1. Actives(p) = Actives(left) /\ IsFiniteSet(Actives(left))
      BY <1>2, <2>2, IdsFinite, FS_Subset DEF Actives
    <3>2. Cardinality(Actives(left)) = 0
      BY <1>3, <1>5 DEF ListSound
    <3> QED
      BY <3>1, <3>2, FS_EmptySet
  <2>4. First(p) = {}
    <3>1. \A i : i \notin 0 .. (0 - 1)
      BY SMT
    <3> QED
      BY <2>2, <3>1 DEF First
  <2>5. 0 \in 0 .. MaxNum
    BY IdsFinite
  <2>6. ListSound(p)
    BY <1>3, <2>2, <2>3, <2>4, <2>5 DEF ListSound, OnePlaceEach
  <2> QED
    BY <1>1, <1>2, <2>2, <2>3, <2>4, <2>6 DEF Alike, p
<1>6. CASE left.nactives_ok # 0
        /\ (s.entry[g].paused \/ left.nactives_ok + 2 < left.active_idx)
  <2>1. p = Shrink(left)
    BY <1>4, <1>6
  <2>2. /\ p \in GpShape /\ ListSound(p) /\ Alike(left, p)
        /\ Actives(p) = Actives(left) /\ First(p) = Actives(left)
    BY <1>1, <1>3, <2>1, ShrinkKeeps
  <2>3. Actives(left) \subseteq First(s)
    BY <1>2, <1>3 DEF ListSound
  <2> QED
    BY <1>1, <1>2, <2>2, <2>3 DEF Alike, p
<1>7. CASE left.nactives_ok # 0
        /\ ~(s.entry[g].paused \/ left.nactives_ok + 2 < left.active_idx)
  <2>1. p = left
    BY <1>4, <1>7
  <2> QED
    BY <1>1, <1>2, <1>3, <1>7, <2>1 DEF p
<1> QED
  BY <1>5, <1>6, <1>7

-----------------------------------------------------------------------------
(***************************************************************************)
(* Queues as sets                                                          *)
(***************************************************************************)

Once(q) == \A i, j \in 1 .. Len(q) : q[i] = q[j] => i = j

\* r is q with e put in at the place k.
PutIn(q, k, e, r) ==
    /\ Len(r) = Len(q) + 1 /\ r[k] = e
    /\ \A j \in 1 .. (k - 1) : r[j] = q[j]
    /\ \A j \in (k + 1) .. (Len(q) + 1) : r[j] = q[j - 1]

\* r has the task t and those of q.
OneMore(q, t, r) ==
    /\ q \in Seq(Tasks) /\ r \in Seq(Tasks) /\ Len(r) = Len(q) + 1
    /\ Range(r) = Range(q) \cup {t}
    /\ Once(r) <=> (Once(q) /\ t \notin Range(q))

LEMMA PutInIsOneMore ==
  ASSUME NEW q \in Seq(Tasks), NEW r \in Seq(Tasks), NEW t,
         NEW k \in 1 .. (Len(q) + 1), PutIn(q, k, t, r)
  PROVE  OneMore(q, t, r)
<1>1. Len(q) \in Nat /\ DOMAIN q = 1 .. Len(q) /\ DOMAIN r = 1 .. (Len(q) + 1)
      /\ Len(r) = Len(q) + 1 /\ k \in Nat /\ k \in 1 .. Len(r) /\ r[k] = t
  BY LenProperties DEF PutIn
<1> DEFINE at(j) == IF j < k THEN j ELSE j + 1
<1>2. \A j \in 1 .. Len(q) : at(j) \in 1 .. Len(r) /\ at(j) # k /\ r[at(j)] = q[j]
  <2> TAKE j \in 1 .. Len(q)
  <2>1. CASE j < k
    BY <1>1, <2>1 DEF PutIn
  <2>2. CASE ~(j < k)
    <3>1. j + 1 \in (k + 1) .. (Len(q) + 1) /\ (j + 1) - 1 = j
      BY <1>1, <2>2
    <3>2. r[j + 1] = q[(j + 1) - 1]
      BY <3>1 DEF PutIn
    <3>3. q[(j + 1) - 1] = q[j] /\ at(j) = j + 1
      BY <2>2, <3>1
    <3>4. at(j) \in 1 .. Len(r) /\ at(j) # k
      BY <1>1, <2>2
    <3> QED
      BY <3>2, <3>3, <3>4
  <2> QED
    BY <2>1, <2>2
<1>3. \A i \in 1 .. Len(r) : i # k => \E j \in 1 .. Len(q) : i = at(j)
  <2> SUFFICES ASSUME NEW i \in 1 .. Len(r), i # k
               PROVE  \E j \in 1 .. Len(q) : i = at(j)
    OBVIOUS
  <2>1. CASE i < k
    <3>1. i \in 1 .. Len(q) /\ i = at(i)
      BY <1>1, <2>1
    <3> QED
      BY <3>1
  <2>2. CASE ~(i < k)
    <3>1. i - 1 \in 1 .. Len(q) /\ i = at(i - 1)
      BY <1>1, <2>2
    <3> QED
      BY <3>1
  <2> QED
    BY <2>1, <2>2
<1>4. \A i, j \in 1 .. Len(q) : at(i) = at(j) => i = j
  BY <1>1
<1> HIDE DEF at
<1>5. Range(r) = Range(q) \cup {t}
  <2>1. Range(r) = {r[i] : i \in 1 .. Len(r)} /\ Range(q) = {q[i] : i \in 1 .. Len(q)}
    BY <1>1 DEF Range
  <2>2. ASSUME NEW i \in 1 .. Len(r) PROVE r[i] \in {q[j] : j \in 1 .. Len(q)} \cup {t}
    BY <1>1, <1>2, <1>3
  <2>3. ASSUME NEW j \in 1 .. Len(q) PROVE q[j] \in {r[i] : i \in 1 .. Len(r)}
    BY <1>2
  <2>4. t \in {r[i] : i \in 1 .. Len(r)}
    BY <1>1
  <2> QED
    BY <2>1, <2>2, <2>3, <2>4
<1>6. ASSUME Once(r) PROVE Once(q) /\ t \notin Range(q)
  BY <1>1, <1>2, <1>4, <1>6 DEF Once, Range
<1>7. ASSUME Once(q), t \notin Range(q) PROVE Once(r)
  <2> SUFFICES ASSUME NEW i \in 1 .. Len(r), NEW j \in 1 .. Len(r), r[i] = r[j]
               PROVE  i = j
    BY DEF Once
  <2>1. ASSUME NEW x \in 1 .. Len(r), x # k PROVE r[x] # t
    BY <1>1, <1>2, <1>3, <1>7, <2>1 DEF Range
  <2>2. CASE i = k \/ j = k
    BY <1>1, <2>1, <2>2
  <2>3. CASE i # k /\ j # k
    <3>1. PICK a \in 1 .. Len(q), b \in 1 .. Len(q) : i = at(a) /\ j = at(b)
      BY <1>3, <2>3
    <3>2. q[a] = q[b]
      BY <1>2, <3>1
    <3> QED
      BY <1>7, <3>1, <3>2 DEF Once
  <2> QED
    BY <2>2, <2>3
<1> QED
  BY <1>1, <1>5, <1>6, <1>7 DEF OneMore

LEMMA AppendIsOneMore ==
  ASSUME NEW q \in Seq(Tasks), NEW t \in Tasks
  PROVE  OneMore(q, t, Append(q, t))
<1>1. Len(q) \in Nat
  BY LenProperties
<1>2. Append(q, t) \in Seq(Tasks) /\ PutIn(q, Len(q) + 1, t, Append(q, t))
  BY <1>1, AppendProperties DEF PutIn
<1>3. Len(q) + 1 \in 1 .. (Len(q) + 1)
  BY <1>1
<1> QED
  BY <1>2, <1>3, PutInIsOneMore

LEMMA InsertIsOneMore ==
  ASSUME NEW q \in Seq(Tasks), NEW t \in Tasks, NEW k \in 1 .. (Len(q) + 1)
  PROVE  OneMore(q, t, InsertAt(q, k, t))
<1> DEFINE front == SubSeq(q, 1, k - 1)
           back == SubSeq(q, k, Len(q))
           r == InsertAt(q, k, t)
<1>1. Len(q) \in Nat /\ \A j \in 1 .. Len(q) : q[j] \in Tasks
  BY LenProperties, ElementOfSeq
<1>2. /\ front \in Seq(Tasks) /\ Len(front) = k - 1
      /\ \A j \in 1 .. (k - 1) : front[j] = q[j]
  <2>1. \A j \in 1 .. (k - 1) : q[j] \in Tasks
    BY <1>1
  <2> QED
    BY <1>1, <2>1, SubSeqProperties
<1>3. /\ back \in Seq(Tasks) /\ Len(back) = Len(q) - k + 1
      /\ \A j \in 1 .. (Len(q) - k + 1) : back[j] = q[k + j - 1]
  <2>1. \A j \in k .. Len(q) : q[j] \in Tasks
    BY <1>1
  <2> QED
    BY <1>1, <2>1, SubSeqProperties
<1>4. r = (front \o <<t>>) \o back
  BY DEF InsertAt
<1> HIDE DEF front, back, r
<1>5. /\ r \in Seq(Tasks) /\ Len(r) = Len(q) + 1 /\ r[k] = t
      /\ \A j \in 1 .. (k - 1) : r[j] = q[j]
      /\ \A j \in (k + 1) .. (Len(q) + 1) : r[j] = back[j - k]
  BY <1>1, <1>2, <1>3, <1>4
<1>6. \A j \in (k + 1) .. (Len(q) + 1) : r[j] = q[j - 1]
  <2> TAKE j \in (k + 1) .. (Len(q) + 1)
  <2>1. j - k \in 1 .. (Len(q) - k + 1) /\ k + (j - k) - 1 = j - 1
    BY <1>1
  <2>2. back[j - k] = q[k + (j - k) - 1]
    BY <1>3, <2>1
  <2> QED
    BY <1>5, <2>1, <2>2
<1>7. OneMore(q, t, r)
  BY <1>5, <1>6, PutInIsOneMore DEF PutIn
<1> QED
  BY <1>7 DEF r

LEMMA TailIsOneLess ==
  ASSUME NEW q \in Seq(Tasks), q # <<>>
  PROVE  OneMore(Tail(q), q[1], q) /\ q[1] \in Tasks
<1>1. Len(q) \in Nat \ {0}
  BY LenProperties, EmptySeq
<1>2. /\ Tail(q) \in Seq(Tasks) /\ Len(Tail(q)) = Len(q) - 1
      /\ \A j \in 1 .. (Len(q) - 1) : Tail(q)[j] = q[j + 1]
  BY HeadTailProperties
<1>3. PutIn(Tail(q), 1, q[1], q)
  <2>1. \A j \in 2 .. Len(q) : q[j] = Tail(q)[j - 1]
    <3> TAKE j \in 2 .. Len(q)
    <3>1. j - 1 \in 1 .. (Len(q) - 1) /\ (j - 1) + 1 = j
      BY <1>1
    <3> QED
      BY <1>2, <3>1
  <2> QED
    BY <1>1, <1>2, <2>1 DEF PutIn
<1>4. 1 \in 1 .. (Len(Tail(q)) + 1) /\ 1 \in 1 .. Len(q)
  BY <1>1, <1>2
<1>5. q[1] \in Tasks
  BY <1>4, ElementOfSeq
<1>6. OneMore(Tail(q), q[1], q)
  BY <1>2, <1>3, <1>4, PutInIsOneMore
<1> QED
  BY <1>5, <1>6

LEMMA RemoveAtIsOneLess ==
  ASSUME NEW q \in Seq(Tasks), NEW k \in 1 .. Len(q)
  PROVE  OneMore(RemoveAt(q, k), q[k], q)
<1> DEFINE front == SubSeq(q, 1, k - 1)
           back == SubSeq(q, k + 1, Len(q))
           r == RemoveAt(q, k)
<1>1. Len(q) \in Nat /\ k \in Nat /\ k >= 1 /\ k <= Len(q)
      /\ \A j \in 1 .. Len(q) : q[j] \in Tasks
  BY LenProperties, ElementOfSeq
<1>2. /\ front \in Seq(Tasks) /\ Len(front) = k - 1
      /\ \A j \in 1 .. (k - 1) : front[j] = q[j]
  <2>1. \A j \in 1 .. (k - 1) : q[j] \in Tasks
    BY <1>1
  <2> QED
    BY <1>1, <2>1, SubSeqProperties
<1>3. /\ back \in Seq(Tasks) /\ Len(back) = Len(q) - k
      /\ \A j \in 1 .. (Len(q) - k) : back[j] = q[j + k]
  <2>1. \A j \in (k + 1) .. Len(q) : q[j] \in Tasks
    BY <1>1
  <2>2. \A j \in Int : (k + 1) + j - 1 = j + k
    BY <1>1
  <2> QED
    BY <1>1, <2>1, <2>2, SubSeqProperties
<1>4. r = front \o back
  BY DEF RemoveAt
<1> HIDE DEF front, back, r
<1>5. /\ r \in Seq(Tasks) /\ Len(r) = Len(q) - 1
      /\ \A j \in 1 .. (k - 1) : r[j] = front[j]
      /\ \A j \in k .. (Len(q) - 1) : r[j] = back[j - (k - 1)]
  <2>1. /\ r \in Seq(Tasks) /\ Len(r) = Len(front) + Len(back)
        /\ \A j \in 1 .. (Len(front) + Len(back)) :
             r[j] = IF j <= Len(front) THEN front[j] ELSE back[j - Len(front)]
    BY <1>2, <1>3, <1>4, ConcatProperties
  <2>2. Len(front) + Len(back) = Len(q) - 1
    BY <1>1, <1>2, <1>3
  <2>3. \A j \in 1 .. (k - 1) : j \in 1 .. (Len(q) - 1) /\ j <= k - 1
    BY <1>1
  <2>4. \A j \in k .. (Len(q) - 1) : j \in 1 .. (Len(q) - 1) /\ ~(j <= k - 1)
    BY <1>1
  <2> QED
    BY <1>2, <2>1, <2>2, <2>3, <2>4
<1>6. \A j \in (k + 1) .. (Len(r) + 1) : q[j] = r[j - 1]
  <2> TAKE j \in (k + 1) .. (Len(r) + 1)
  <2>1. /\ j - 1 \in k .. (Len(q) - 1) /\ (j - 1) - (k - 1) = j - k
        /\ j - k \in 1 .. (Len(q) - k) /\ (j - k) + k = j
    BY <1>1, <1>5
  <2>2. r[j - 1] = back[(j - 1) - (k - 1)] /\ back[j - k] = q[(j - k) + k]
    BY <1>3, <1>5, <2>1
  <2> QED
    BY <2>1, <2>2
<1>7. PutIn(r, k, q[k], q) /\ k \in 1 .. (Len(r) + 1)
  BY <1>1, <1>2, <1>5, <1>6 DEF PutIn
<1>8. OneMore(r, q[k], q)
  BY <1>5, <1>7, PutInIsOneMore
<1> QED
  BY <1>8 DEF r

LEMMA RemoveIsOneLess ==
  ASSUME NEW q \in Seq(Tasks), NEW t
  PROVE  /\ RemoveFirst(q, t) \in Seq(Tasks)
         /\ t \in Range(q) => OneMore(RemoveFirst(q, t), t, q)
<1> DEFINE I == {i \in 1 .. Len(q) : q[i] = t}
           k == SelectInSeq(q, LAMBDA v : v = t)
<1>1. t \in Range(q) <=> I # {}
  <2>1. DOMAIN q = 1 .. Len(q)
    BY LenProperties
  <2> QED
    BY <2>1 DEF Range
<1>2. CASE I = {}
  BY <1>1, <1>2 DEF RemoveFirst
<1>3. CASE I # {}
  <2>1. k = CHOOSE x \in I : \A y \in I : x <= y
    BY <1>3 DEF SelectInSeq, Min
  <2>2. \E x \in I : \A y \in I : x <= y
    <3>1. I \subseteq Nat
      OBVIOUS
    <3>2. PICK x \in I : \A y \in I : <<y, x>> \notin OpToRel(<, Nat)
      BY <1>3, <3>1, NatLessThanWellFounded, WFMin, Zenon
    <3>3. \A y \in I : ~(y < x)
      BY <3>1, <3>2 DEF OpToRel
    <3> HIDE DEF I
    <3>4. \A y \in I : x <= y
      <4> TAKE y \in I
      <4>1. x \in Nat /\ y \in Nat /\ ~(y < x)
        BY <3>1, <3>2, <3>3
      <4> QED
        BY <4>1
    <3> QED
      BY <3>2, <3>4
  <2>3. RemoveFirst(q, t) = RemoveAt(q, k)
    BY <1>3 DEF RemoveFirst
  <2> HIDE DEF k
  <2>4. k \in I
    <3> HIDE DEF I
    <3> QED
      BY <2>1, <2>2, Zenon
  <2>5. k \in 1 .. Len(q) /\ q[k] = t
    BY <2>4
  <2>6. OneMore(RemoveAt(q, k), q[k], q)
    BY <2>5, RemoveAtIsOneLess
  <2> QED
    BY <2>3, <2>5, <2>6 DEF OneMore
<1> QED
  BY <1>2, <1>3

LEMMA InsertedIsOneMore ==
  ASSUME NEW q \in Seq(Tasks), NEW t \in Tasks
  PROVE  OneMore(q, t, Inserted(q, t))
<1>1. CASE q = <<>> \/ (Pri[t] = 0 /\ Policy[t] = "BACK")
  BY <1>1, AppendIsOneMore DEF Inserted
<1>2. CASE ~(q = <<>> \/ (Pri[t] = 0 /\ Policy[t] = "BACK"))
  <2>1. Len(q) \in Nat \ {0}
    BY <1>2, LenProperties, EmptySeq
  <2>2. 1 \in 1 .. (Len(q) + 1) /\ 2 \in 1 .. (Len(q) + 1)
    BY <2>1
  <2>3. Inserted(q, t) = InsertAt(q, 1, t) \/ Inserted(q, t) = InsertAt(q, 2, t)
    BY <1>2 DEF Inserted
  <2> QED
    BY <2>2, <2>3, InsertIsOneMore
<1> QED
  BY <1>1, <1>2

-----------------------------------------------------------------------------
(***************************************************************************)
(* The inductive invariant of the pool                                     *)
(***************************************************************************)

\* The tasks of the pool s are where they say: each one that waits, once, in the
\* queue of its group; and none is in a group that is free.
TaskSound(s) ==
    /\ \A g \in Ids : /\ Once(s.entry[g].queue)
                      /\ Range(s.entry[g].queue) =
                            {t \in Tasks : s.stat[t] = "waiting" /\ s.gid[t] = g}
    /\ Once(s.dispatch_q)
    /\ \A t \in Range(s.dispatch_q) : s.stat[t] = "dispatching"
    /\ \A t \in s.wpending : s.stat[t] \in {"scheduling", "dispatching"}
    /\ \A t \in Tasks : s.stat[t] # "idle" =>
            s.gid[t] < s.num /\ s.entry[s.gid[t]].used # "free"

\* The groups that are searched are those with tasks, none of them suspended.
GroupSound(s) ==
    /\ ListSound(s)
    /\ Actives(s) = ReadyGroups(s)
    /\ \A g \in First(s) : ~s.entry[g].paused

PoolSound(s) == s \in GpShape /\ TaskSound(s) /\ GroupSound(s)

\* The tasks that x still has to say the end of: it has for the first one when
\* that is detached.
Live(x) == IF x.detached THEN Range(Tail(x.q)) ELSE Range(x.q)

\* What threads and users have in hand is run or dispatched by nobody else.
HandSound(s, h) ==
    /\ \A r \in Runners :
        /\ Once(h[r].q)
        /\ h[r].detached \/ h[r].leaving # NoTask => h[r].q # <<>>
        /\ \A t \in Live(h[r]) :
            s.stat[t] \in {"scheduling", "dispatching"} /\ t \notin Range(s.dispatch_q)
    /\ \A r1, r2 \in Runners : r1 # r2 => Live(h[r1]) \cap Live(h[r2]) = {}

Held(s, h) == PoolSound(s) /\ h \in [Runners -> RunType] /\ HandSound(s, h)

SameTasks(s, p) ==
    /\ p.stat = s.stat /\ p.wpending = s.wpending /\ p.gid = s.gid
    /\ p.dispatch_q = s.dispatch_q

SameGroups(s, p) ==
    /\ p.num = s.num /\ p.paused = s.paused
    /\ p.destroying = s.destroying /\ p.throttle_on = s.throttle_on
    /\ \A g \in Ids : /\ p.entry[g].used = s.entry[g].used
                      /\ p.entry[g].throttle = s.entry[g].throttle

\* The pool and its groups, but for g.
SameOthers(s, p, g) ==
    /\ p.destroying = s.destroying /\ p.throttle_on = s.throttle_on
    /\ \A h \in Ids : h # g => /\ p.entry[h].used = s.entry[h].used
                              /\ p.entry[h].throttle = s.entry[h].throttle

LEMMA AlikeSame ==
  ASSUME NEW s, NEW p, Alike(s, p)
  PROVE  SameTasks(s, p) /\ SameGroups(s, p) /\ ReadyGroups(p) = ReadyGroups(s)
<1>1. ReadyGroups(p) = ReadyGroups(s)
  BY DEF Alike, ReadyGroups, Ready
<1> QED
  BY <1>1 DEF Alike, SameTasks, SameGroups

LEMMA SameTrans ==
  ASSUME NEW s, NEW p, NEW q
  PROVE  /\ SameTasks(s, p) /\ SameTasks(p, q) => SameTasks(s, q)
         /\ SameGroups(s, p) /\ SameGroups(p, q) => SameGroups(s, q)
         /\ Alike(s, p) /\ Alike(p, q) => Alike(s, q)
         /\ Listed(s, p) /\ Listed(p, q) => Listed(s, q)
         /\ SameTasks(s, s) /\ SameGroups(s, s) /\ Alike(s, s) /\ Listed(s, s)
BY DEF SameTasks, SameGroups, Alike, Listed

LEMMA AlikeTasks ==
  ASSUME NEW s, NEW p, TaskSound(s), Alike(s, p), s \in GpShape
  PROVE  TaskSound(p)
<1>1. \A t \in Tasks : s.gid[t] \in Ids
  BY DEF GpShape
<1> QED
  BY <1>1 DEF Alike, TaskSound

LEMMA FirstIn ==
  ASSUME NEW s \in GpShape, ListSound(s)
  PROVE  First(s) \subseteq Ids /\ \A i \in 0 .. (s.active_idx - 1) : i \in Ids
<1>1. s.active_idx \in 0 .. MaxNum /\ MaxNum \in Nat /\ s.actentry \in [Ids -> Ids]
  BY IdsFinite DEF ListSound, GpShape
<1>2. \A i \in 0 .. (s.active_idx - 1) : i \in Ids
  BY <1>1 DEF Ids
<1> QED
  BY <1>1, <1>2 DEF First

LEMMA ListedKeeps ==
  ASSUME NEW s, NEW p \in GpShape, PoolSound(s), Listed(s, p)
  PROVE  PoolSound(p) /\ SameTasks(s, p) /\ SameGroups(s, p)
<1>1. ListSound(p) /\ Actives(p) = Actives(s) /\ First(p) = First(s)
  BY ListedSound DEF PoolSound, GroupSound
<1>2. Alike(s, p) /\ \A g \in Ids : p.entry[g].paused = s.entry[g].paused
  BY DEF Listed, Alike
<1>3. First(s) \subseteq Ids
  BY FirstIn DEF PoolSound, GroupSound
<1>4. GroupSound(p)
  BY <1>1, <1>2, <1>3, AlikeSame DEF PoolSound, GroupSound
<1> QED
  BY <1>2, <1>4, AlikeSame, AlikeTasks DEF PoolSound

-----------------------------------------------------------------------------
(***************************************************************************)
(* Counters: what changes nothing else                                     *)
(***************************************************************************)

LikeEntry(e, f) ==
    /\ f \in EntryShape /\ f.used = e.used /\ f.throttle = e.throttle
    /\ f.active = e.active /\ f.paused = e.paused /\ f.queue = e.queue

Recount(s, g, e, n, eff, nd) ==
    [s EXCEPT !.entry = [s.entry EXCEPT ![g] = e], !.npendings = n,
              !.effective = eff, !.ndispatchings = nd]

LEMMA RecountIs ==
  ASSUME NEW s \in GpShape, NEW g \in Ids, NEW e \in EntryShape,
         NEW n \in Int, NEW eff \in Int, NEW nd \in Int
  PROVE  LET p == Recount(s, g, e, n, eff, nd)
         IN  /\ p \in GpShape /\ p.entry[g] = e
             /\ \A h \in Ids : h # g => p.entry[h] = s.entry[h]
             /\ p.actentry = s.actentry /\ p.active_idx = s.active_idx
             /\ p.nactives_ok = s.nactives_ok /\ SameTasks(s, p) /\ p.num = s.num
             /\ p.paused = s.paused /\ p.destroying = s.destroying
             /\ p.throttle_on = s.throttle_on
             /\ LikeEntry(s.entry[g], e) => Listed(s, p)
<1> DEFINE E == [s.entry EXCEPT ![g] = e]
           p == Recount(s, g, e, n, eff, nd)
<1>1. /\ E \in [Ids -> EntryShape] /\ E[g] = e
      /\ \A h \in Ids : h # g => E[h] = s.entry[h]
  BY DEF GpShape
<1>2. p = [s EXCEPT !.entry = E, !.npendings = n, !.effective = eff, !.ndispatchings = nd]
  BY DEF Recount
<1> HIDE DEF E, p
<1>3. /\ p \in GpShape /\ p.entry = E
      /\ p.actentry = s.actentry /\ p.active_idx = s.active_idx
      /\ p.nactives_ok = s.nactives_ok /\ p.num = s.num
      /\ p.paused = s.paused /\ p.destroying = s.destroying
      /\ p.throttle_on = s.throttle_on
      /\ p.stat = s.stat /\ p.wpending = s.wpending /\ p.gid = s.gid
      /\ p.dispatch_q = s.dispatch_q
  BY <1>1, <1>2 DEF GpShape
<1> QED
  BY <1>1, <1>3 DEF p, SameTasks, LikeEntry, Listed, Alike

LEMMA EntryIn ==
  ASSUME NEW s \in GpShape, NEW g \in Ids
  PROVE  /\ s.entry[g] \in EntryShape /\ s.npendings \in Int /\ s.effective \in Int
         /\ s.ndispatchings \in Int /\ s.entry[g].queue \in Seq(Tasks)
         /\ Num(s.entry[g]) \in Int /\ s.entry[g].npendings_eff \in Int
         /\ s.entry[g].nrunnings \in Int /\ s.entry[g].limit_tasks \in Int
         /\ s.entry[g].receive_benifits \in BOOLEAN /\ Share(s.entry[g]) \in Int
<1>1. s.entry[g] \in EntryShape
  BY DEF GpShape
<1>2. s.entry[g].queue \in Seq(Tasks)
  BY <1>1 DEF EntryShape
<1>3. Num(s.entry[g]) \in Int
  BY <1>2, LenProperties DEF Num
<1> QED
  BY <1>1, <1>2, <1>3 DEF EntryShape, GpShape, Share

LEMMA RecountOthers ==
  ASSUME NEW s \in GpShape, NEW g \in Ids, NEW e \in EntryShape, NEW p,
         p = Recount(s, g, e, s.npendings, s.effective, s.ndispatchings)
  PROVE  /\ p \in GpShape /\ p.entry[g] = e /\ p.num = s.num /\ SameOthers(s, p, g)
<1> DEFINE n == s.npendings
           eff == s.effective
           nd == s.ndispatchings
           q == Recount(s, g, e, n, eff, nd)
<1>1. n \in Int /\ eff \in Int /\ nd \in Int
  BY EntryIn
<1>2. p = q
  OBVIOUS
<1> HIDE DEF n, eff, nd
<1>3. /\ q \in GpShape /\ q.entry[g] = e /\ q.num = s.num
      /\ q.destroying = s.destroying /\ q.throttle_on = s.throttle_on
      /\ \A h \in Ids : h # g => q.entry[h] = s.entry[h]
  BY <1>1, RecountIs
<1> HIDE DEF q
<1> QED
  BY <1>2, <1>3 DEF SameOthers

LEMMA FilledListed ==
  ASSUME NEW s \in GpShape, NEW g \in Ids
  PROVE  Filled(s, g) \in GpShape /\ Listed(s, Filled(s, g))
<1> DEFINE e == [s.entry[g] EXCEPT !.npendings_eff = @ + 1]
           p == [s EXCEPT !.effective = @ + 1, !.entry[g].npendings_eff = @ + 1]
<1>1. p = Recount(s, g, e, s.npendings, s.effective + 1, s.ndispatchings)
  BY DEF GpShape, Recount
<1>2. e \in EntryShape /\ LikeEntry(s.entry[g], e)
  <2>1. s.entry[g].npendings_eff + 1 \in Int
    BY EntryIn
  <2> QED
    BY <2>1, EntryIn DEF EntryShape, LikeEntry
<1> HIDE DEF e, p
<1>3. p \in GpShape /\ Listed(s, p)
  <2>1. s.effective + 1 \in Int
    BY EntryIn
  <2> QED
    BY <1>1, <1>2, <2>1, EntryIn, RecountIs
<1>4. Filled(s, g) \in {s, p}
  BY DEF Filled, p
<1> QED
  BY <1>3, <1>4, SameTrans

LEMMA RanListed ==
  ASSUME NEW s \in GpShape, NEW t \in Tasks
  PROVE  Ran(s, t) \in GpShape /\ Listed(s, Ran(s, t))
<1> DEFINE g == s.gid[t]
           e == [s.entry[g] EXCEPT !.nrunnings = @ - 1]
           p == [s EXCEPT !.entry[g].nrunnings = @ - 1]
<1>1. g \in Ids
  BY DEF GpShape
<1>2. p = Recount(s, g, e, s.npendings, s.effective, s.ndispatchings)
  BY <1>1 DEF GpShape, Recount
<1>3. Ran(s, t) = Filled(p, g)
  BY DEF Ran
<1> HIDE DEF g
<1>5. e \in EntryShape /\ LikeEntry(s.entry[g], e)
  <2>1. s.entry[g].nrunnings - 1 \in Int
    BY <1>1, EntryIn
  <2> QED
    BY <1>1, <2>1, EntryIn DEF EntryShape, LikeEntry
<1> HIDE DEF e, p
<1>6. p \in GpShape /\ Listed(s, p)
  BY <1>1, <1>2, <1>5, EntryIn, RecountIs
<1> QED
  BY <1>1, <1>3, <1>6, FilledListed, SameTrans

LEMMA DispatchedListed ==
  ASSUME NEW s \in GpShape, NEW t \in Tasks
  PROVE  Dispatched(s, t) \in GpShape /\ Listed(s, Dispatched(s, t))
<1> DEFINE g == s.gid[t]
           e == [s.entry[g] EXCEPT !.ndispatchings = @ - 1]
           p == Dispatched(s, t)
<1>1. g \in Ids
  BY DEF GpShape
<1>2. p = Recount(s, g, e, s.npendings, s.effective, s.ndispatchings - 1)
  BY <1>1 DEF GpShape, Recount, Dispatched
<1> HIDE DEF g
<1>3. e \in EntryShape /\ LikeEntry(s.entry[g], e)
  <2>1. s.entry[g].ndispatchings - 1 \in Int
    BY <1>1, EntryIn DEF EntryShape
  <2> QED
    BY <1>1, <2>1, EntryIn DEF EntryShape, LikeEntry
<1> HIDE DEF e
<1>4. s.ndispatchings - 1 \in Int
  BY <1>1, EntryIn
<1> QED
  BY <1>1, <1>2, <1>3, <1>4, EntryIn, RecountIs

LEMMA CountedAgainListed ==
  ASSUME NEW s \in GpShape, NEW g \in Ids
  PROVE  CountedAgain(s, g) \in GpShape /\ Listed(s, CountedAgain(s, g))
<1> DEFINE eff == IF s.entry[g].receive_benifits THEN s.entry[g].npendings_eff
                  ELSE MinOf(s.entry[g].limit_tasks, Num(s.entry[g]))
           e == [s.entry[g] EXCEPT !.npendings_eff = eff]
           p == [s EXCEPT !.entry[g].npendings_eff = eff]
           n == s.effective + Share(e)
<1>1. p = Recount(s, g, e, s.npendings, s.effective, s.ndispatchings)
  BY DEF GpShape, Recount
<1>2. eff \in Int
  BY EntryIn DEF MinOf
<1>3. CountedAgain(s, g) = [p EXCEPT !.effective = @ + Share(p.entry[g])]
  BY DEF CountedAgain
<1> HIDE DEF eff, p
<1>4. e \in EntryShape /\ LikeEntry(s.entry[g], e)
  BY <1>2, EntryIn DEF EntryShape, LikeEntry
<1> HIDE DEF e
<1>5. p \in GpShape /\ Listed(s, p) /\ p.entry[g] = e
  BY <1>1, <1>4, EntryIn, RecountIs
<1>6. n \in Int
  BY <1>5, EntryIn
<1>7. CountedAgain(s, g) = Recount(s, g, e, s.npendings, n, s.ndispatchings)
  <2>1. p = [s EXCEPT !.entry = [s.entry EXCEPT ![g] = e], !.npendings = s.npendings,
                      !.effective = s.effective, !.ndispatchings = s.ndispatchings]
    BY <1>1 DEF Recount
  <2> DEFINE E == [s.entry EXCEPT ![g] = e]
  <2> HIDE DEF E
  <2>2. p = [s EXCEPT !.entry = E]
    BY <2>1 DEF GpShape, E
  <2>3. CountedAgain(s, g) = [s EXCEPT !.entry = E, !.effective = n]
    BY <1>3, <1>5, <2>2 DEF GpShape
  <2> QED
    BY <2>3 DEF GpShape, Recount, E
<1> HIDE DEF n
<1> QED
  BY <1>4, <1>6, <1>7, EntryIn, RecountIs

LEMMA SetAttrListed ==
  ASSUME NEW s \in GpShape, NEW g \in Ids, NEW limit \in Int, NEW benefits \in BOOLEAN
  PROVE  SetAttr(s, g, limit, benefits) \in GpShape
         /\ Listed(s, SetAttr(s, g, limit, benefits))
<1> DEFINE lim == IF s.maxthreads <= limit THEN s.maxthreads
                  ELSE IF limit <= 0 THEN 0 ELSE limit
           e == [s.entry[g] EXCEPT !.limit_paralle_tasks = limit, !.limit_tasks = lim,
                                   !.receive_benifits = benefits \/ lim = 0]
           p == [s EXCEPT !.entry[g].limit_paralle_tasks = limit,
                          !.entry[g].limit_tasks = lim,
                          !.entry[g].receive_benifits = benefits \/ lim = 0]
           q == [p EXCEPT !.effective = @ - Share(s.entry[g])]
<1>1. lim \in Int
  <2>1. s.maxthreads \in MaxThreads
    BY DEF GpShape
  <2>2. \A x \in MaxThreads : x \in Int
    BY GpAssumption
  <2>3. s.maxthreads \in Int
    BY <2>1, <2>2, Zenon
  <2> QED
    BY <2>3
<1>2. SetAttr(s, g, limit, benefits) \in {p, CountedAgain(q, g)}
  BY DEF SetAttr
<1> HIDE DEF lim
<1>3. p = Recount(s, g, e, s.npendings, s.effective, s.ndispatchings)
  BY DEF GpShape, Recount
<1>4. q = Recount(s, g, e, s.npendings, s.effective - Share(s.entry[g]), s.ndispatchings)
  BY <1>3 DEF GpShape, Recount
<1>5. e \in EntryShape /\ LikeEntry(s.entry[g], e)
  BY <1>1, EntryIn DEF EntryShape, LikeEntry
<1> HIDE DEF e, p, q
<1>6. p \in GpShape /\ Listed(s, p)
  BY <1>3, <1>5, EntryIn, RecountIs
<1>7. q \in GpShape /\ Listed(s, q)
  <2>1. s.effective - Share(s.entry[g]) \in Int
    BY EntryIn
  <2> QED
    BY <1>4, <1>5, <2>1, EntryIn, RecountIs
<1>8. CountedAgain(q, g) \in GpShape /\ Listed(s, CountedAgain(q, g))
  BY <1>7, CountedAgainListed, SameTrans
<1> QED
  BY <1>2, <1>6, <1>8

-----------------------------------------------------------------------------
(***************************************************************************)
(* Queues and lists                                                        *)
(***************************************************************************)

\* p differs from s in what its tasks are doing, in its queues and counters.
Rearranged(s, p) ==
    /\ p \in GpShape /\ SameGroups(s, p) /\ p.gid = s.gid
    /\ p.actentry = s.actentry /\ p.active_idx = s.active_idx
    /\ p.nactives_ok = s.nactives_ok
    /\ \A g \in Ids : /\ p.entry[g].active = s.entry[g].active
                      /\ p.entry[g].paused = s.entry[g].paused

LEMMA RearrangedList ==
  ASSUME NEW s, NEW p, ListSound(s), Rearranged(s, p)
  PROVE  /\ ListSound(p) /\ Actives(p) = Actives(s) /\ First(p) = First(s)
         /\ \A g \in Ids : Ready(p, g) <=>
                /\ g < s.num /\ s.entry[g].used # "free" /\ ~s.entry[g].paused
                /\ p.entry[g].queue # <<>>
<1>1. Actives(p) = Actives(s) /\ First(p) = First(s)
  BY DEF Rearranged, Actives, First
<1>2. ListSound(p)
  BY <1>1 DEF Rearranged, ListSound, OnePlaceEach
<1>3. \A g \in Ids : Ready(p, g) <=>
                /\ g < s.num /\ s.entry[g].used # "free" /\ ~s.entry[g].paused
                /\ p.entry[g].queue # <<>>
  BY DEF Rearranged, Ready, SameGroups
<1> QED
  BY <1>1, <1>2, <1>3

LEMMA ListedRearranged ==
  ASSUME NEW s, NEW p, NEW q \in GpShape, Rearranged(s, p), Listed(p, q)
  PROVE  Rearranged(s, q)
BY DEF Rearranged, Listed, Alike, SameGroups

\* A group whose queue has become longer or shorter, and the list after it.
LEMMA ReadyNow ==
  ASSUME NEW s \in GpShape, GroupSound(s), NEW p, Rearranged(s, p), NEW g \in Ids,
         \A h \in Ids : h # g => p.entry[h].queue = s.entry[h].queue
  PROVE  /\ ReadyGroups(p) \ {g} = Actives(p) \ {g}
         /\ g \in Actives(p) <=> Ready(s, g)
         /\ \A h \in First(p) : ~p.entry[h].paused
<1>1. /\ ListSound(p) /\ Actives(p) = Actives(s) /\ First(p) = First(s)
      /\ \A h \in Ids : Ready(p, h) <=>
                /\ h < s.num /\ s.entry[h].used # "free" /\ ~s.entry[h].paused
                /\ p.entry[h].queue # <<>>
  BY RearrangedList DEF GroupSound
<1>2. First(s) \subseteq Ids
  BY FirstIn DEF GroupSound
<1>3. Actives(s) = ReadyGroups(s) /\ \A h \in First(s) : ~s.entry[h].paused
  BY DEF GroupSound
<1>4. \A h \in First(p) : ~p.entry[h].paused
  BY <1>1, <1>2, <1>3 DEF Rearranged
<1>5. \A h \in Ids : h # g => (Ready(p, h) <=> Ready(s, h))
  BY <1>1 DEF Ready
<1> QED
  BY <1>1, <1>3, <1>4, <1>5 DEF ReadyGroups

\* The list is right again.
LEMMA NowSound ==
  ASSUME NEW s \in GpShape, GroupSound(s), NEW p, Rearranged(s, p), NEW g \in Ids,
         \A h \in Ids : h # g => p.entry[h].queue = s.entry[h].queue,
         Ready(p, g) <=> Ready(s, g)
  PROVE  GroupSound(p)
<1>1. ListSound(p)
  BY RearrangedList DEF GroupSound
<1> QED
  BY <1>1, ReadyNow DEF GroupSound, ReadyGroups, Actives

LEMMA PriQueueIs ==
  ASSUME NEW s \in GpShape, NEW t \in Tasks
  PROVE  LET p == PriQueue(s, t)
         IN  /\ Rearranged(s, p)
             /\ p.stat = [s.stat EXCEPT ![t] = "waiting"]
             /\ p.wpending = s.wpending \ {t} /\ p.dispatch_q = s.dispatch_q
             /\ \A h \in Ids : p.entry[h].queue =
                    IF h = s.gid[t] THEN Inserted(s.entry[h].queue, t)
                    ELSE s.entry[h].queue
<1> DEFINE g == s.gid[t]
           q == Inserted(s.entry[g].queue, t)
           e == [s.entry[g] EXCEPT !.queue = q]
           E == [s.entry EXCEPT ![g] = e]
           st == [s.stat EXCEPT ![t] = "waiting"]
           o == Append(s.order, t)
           p == PriQueue(s, t)
<1>1. g \in Ids /\ s.entry \in [Ids -> EntryShape]
  BY DEF GpShape
<1>2. p = [s EXCEPT !.stat = st, !.wpending = s.wpending \ {t}, !.order = o, !.entry = E]
  BY <1>1 DEF GpShape, PriQueue
<1>3. st \in [Tasks -> TaskStats] /\ o \in Seq(Tasks) /\ s.wpending \ {t} \in SUBSET Tasks
  BY DEF GpShape, TaskStats
<1> HIDE DEF g, p, st, o
<1>4. q \in Seq(Tasks)
  BY <1>1, EntryIn, InsertedIsOneMore DEF OneMore
<1> HIDE DEF q
<1>5. /\ e \in EntryShape /\ e.queue = q /\ e.used = s.entry[g].used
      /\ e.throttle = s.entry[g].throttle /\ e.active = s.entry[g].active
      /\ e.paused = s.entry[g].paused
  BY <1>1, <1>4, EntryIn DEF EntryShape
<1> HIDE DEF e
<1>6. /\ E \in [Ids -> EntryShape] /\ E[g] = e
      /\ \A h \in Ids : h # g => E[h] = s.entry[h]
  BY <1>1, <1>5
<1> HIDE DEF E
<1>7. /\ p \in GpShape /\ p.entry = E /\ p.stat = st /\ p.wpending = s.wpending \ {t}
      /\ p.actentry = s.actentry /\ p.active_idx = s.active_idx
      /\ p.nactives_ok = s.nactives_ok /\ p.num = s.num
      /\ p.paused = s.paused /\ p.destroying = s.destroying
      /\ p.throttle_on = s.throttle_on /\ p.gid = s.gid
      /\ p.dispatch_q = s.dispatch_q
  BY <1>2, <1>3, <1>6 DEF GpShape
<1>8. Rearranged(s, p)
  BY <1>5, <1>6, <1>7 DEF Rearranged, SameGroups
<1>9. \A h \in Ids : p.entry[h].queue = IF h = g THEN q ELSE s.entry[h].queue
  BY <1>5, <1>6, <1>7
<1> QED
  BY <1>7, <1>8, <1>9 DEF p, st, q, g

\* A task may be put into the queue of its group.
Homed(s, t) ==
    /\ s.gid[t] < s.num /\ s.entry[s.gid[t]].used # "free"
    /\ s.stat[t] # "waiting" /\ t \notin Range(s.dispatch_q)

LEMMA PriQueueTasks ==
  ASSUME NEW s, PoolSound(s), NEW t \in Tasks, Homed(s, t)
  PROVE  TaskSound(PriQueue(s, t))
<1> DEFINE g == s.gid[t]
           p == PriQueue(s, t)
<1>1. /\ Rearranged(s, p)
      /\ p.stat = [s.stat EXCEPT ![t] = "waiting"]
      /\ p.wpending = s.wpending \ {t} /\ p.dispatch_q = s.dispatch_q
      /\ \A h \in Ids : p.entry[h].queue = IF h = g THEN Inserted(s.entry[h].queue, t)
                                           ELSE s.entry[h].queue
  BY PriQueueIs DEF PoolSound
<1>2. /\ g \in Ids /\ s.stat \in [Tasks -> TaskStats] /\ s.gid \in [Tasks -> Ids]
      /\ s.entry[g].queue \in Seq(Tasks)
  BY EntryIn DEF PoolSound, GpShape
<1> HIDE DEF p, g
<1>3. OneMore(s.entry[g].queue, t, p.entry[g].queue)
  BY <1>1, <1>2, InsertedIsOneMore
<1>4. \A u \in Tasks : p.stat[u] = IF u = t THEN "waiting" ELSE s.stat[u]
  BY <1>1, <1>2
<1>5. p.gid = s.gid /\ p.num = s.num /\ \A h \in Ids : p.entry[h].used = s.entry[h].used
  BY <1>1 DEF Rearranged, SameGroups
<1>6. ASSUME NEW h \in Ids
      PROVE  /\ Once(p.entry[h].queue)
             /\ Range(p.entry[h].queue) =
                    {u \in Tasks : p.stat[u] = "waiting" /\ p.gid[u] = h}
  <2>1. /\ Once(s.entry[h].queue)
        /\ Range(s.entry[h].queue) = {u \in Tasks : s.stat[u] = "waiting" /\ s.gid[u] = h}
    BY DEF PoolSound, TaskSound
  <2>2. CASE h = g
    <3>1. t \notin Range(s.entry[h].queue) /\ s.gid[t] = h
      BY <2>1, <2>2 DEF Homed, g
    <3>2. Once(p.entry[h].queue) /\ Range(p.entry[h].queue) = Range(s.entry[h].queue) \cup {t}
      BY <1>3, <2>1, <2>2, <3>1 DEF OneMore
    <3> QED
      BY <1>4, <1>5, <2>1, <3>1, <3>2
  <2>3. CASE h # g
    <3>1. p.entry[h].queue = s.entry[h].queue /\ s.gid[t] # h
      BY <1>1, <2>3 DEF g
    <3> QED
      BY <1>4, <1>5, <2>1, <3>1
  <2> QED
    BY <2>2, <2>3
<1>7. Once(p.dispatch_q) /\ \A u \in Range(p.dispatch_q) : p.stat[u] = "dispatching"
  <2>1. s.dispatch_q \in Seq(Tasks)
    BY DEF PoolSound, GpShape
  <2>2. \A u \in Range(s.dispatch_q) : u \in Tasks /\ u # t /\ s.stat[u] = "dispatching"
    BY <2>1, LenProperties, ElementOfSeq DEF Range, PoolSound, TaskSound, Homed
  <2> QED
    BY <1>1, <1>4, <2>2 DEF PoolSound, TaskSound
<1>8. \A u \in p.wpending : p.stat[u] \in {"scheduling", "dispatching"}
  BY <1>1, <1>4 DEF PoolSound, TaskSound, GpShape
<1>9. \A u \in Tasks : p.stat[u] # "idle" =>
            p.gid[u] < p.num /\ p.entry[p.gid[u]].used # "free"
  BY <1>2, <1>4, <1>5 DEF PoolSound, TaskSound, Homed, g
<1>10. TaskSound(p)
  BY <1>6, <1>7, <1>8, <1>9 DEF TaskSound
<1> QED
  BY <1>10 DEF p

LEMMA QueuedKeeps ==
  ASSUME NEW s, PoolSound(s), NEW t \in Tasks, Homed(s, t)
  PROVE  LET p == Queued(s, t)
         IN  /\ PoolSound(p) /\ SameGroups(s, p)
             /\ p.stat = [s.stat EXCEPT ![t] = "waiting"] /\ p.gid = s.gid
             /\ p.wpending = s.wpending \ {t} /\ p.dispatch_q = s.dispatch_q
<1> DEFINE g == s.gid[t]
           q == PriQueue(s, t)
           p == Queued(s, t)
           e == q.entry[g]
           counts == \/ e.receive_benifits
                     \/ /\ e.nrunnings + e.npendings_eff < e.limit_tasks
                        /\ q.npendings + 1 > e.npendings_eff
           eff == IF counts THEN q.effective + 1 ELSE q.effective
           n == q.npendings + 1
           f == IF counts /\ ~e.receive_benifits
                THEN [e EXCEPT !.npendings_eff = @ + 1] ELSE e
           added == [q EXCEPT !.npendings = @ + 1,
                              !.effective = IF counts THEN @ + 1 ELSE @,
                              !.entry[g].npendings_eff =
                                    IF counts /\ ~e.receive_benifits THEN @ + 1 ELSE @]
<1>1. /\ Rearranged(s, q) /\ TaskSound(q)
      /\ q.stat = [s.stat EXCEPT ![t] = "waiting"]
      /\ q.wpending = s.wpending \ {t} /\ q.dispatch_q = s.dispatch_q
      /\ \A h \in Ids : q.entry[h].queue = IF h = g THEN Inserted(s.entry[h].queue, t)
                                           ELSE s.entry[h].queue
  BY PriQueueIs, PriQueueTasks DEF PoolSound
<1>2. g \in Ids /\ s.entry[g].queue \in Seq(Tasks) /\ q \in GpShape /\ s \in GpShape
  BY <1>1, EntryIn DEF PoolSound, GpShape, Rearranged
<1>3. p = IF s.entry[g].paused THEN q
          ELSE IF Num(e) = 1 THEN Activate(added, g) ELSE added
  BY DEF Queued, EntryOf, ConsumerNotify
<1>4. added = Recount(q, g, f, n, eff, q.ndispatchings)
  <2> DEFINE more == counts /\ ~e.receive_benifits
             w == IF more THEN e.npendings_eff + 1 ELSE e.npendings_eff
  <2> HIDE DEF counts, q
  <2>1. q.entry \in [Ids -> EntryShape] /\ e \in EntryShape
    BY <1>2, EntryIn DEF GpShape
  <2>2. added = [q EXCEPT !.npendings = n, !.effective = eff,
                          !.entry = [q.entry EXCEPT ![g] = [e EXCEPT !.npendings_eff = w]]]
    BY <1>2 DEF GpShape
  <2>3. f = [e EXCEPT !.npendings_eff = w]
    <3> HIDE DEF e
    <3> QED
      BY <2>1 DEF EntryShape
  <2> HIDE DEF added, f, e, n, eff, more
  <2> QED
    BY <1>2, <2>2, <2>3 DEF GpShape, Recount
<1> HIDE DEF g, q, p, counts, added
<1>5. f \in EntryShape /\ LikeEntry(e, f) /\ n \in Int /\ eff \in Int
  <2>1. e.npendings_eff + 1 \in Int /\ e \in EntryShape
    BY <1>2, EntryIn
  <2>2. n \in Int /\ eff \in Int
    BY <1>2, EntryIn
  <2> HIDE DEF e, n, eff
  <2>3. [e EXCEPT !.npendings_eff = @ + 1] \in EntryShape
        /\ LikeEntry(e, [e EXCEPT !.npendings_eff = @ + 1])
    BY <2>1 DEF EntryShape, LikeEntry
  <2>4. LikeEntry(e, e)
    BY <2>1 DEF LikeEntry
  <2> QED
    BY <2>1, <2>2, <2>3, <2>4
<1> HIDE DEF f, n, eff
<1>6. added \in GpShape /\ Listed(q, added) /\ TaskSound(added) /\ Rearranged(s, added)
  <2>1. added \in GpShape /\ Listed(q, added)
    BY <1>2, <1>4, <1>5, EntryIn, RecountIs
  <2>2. Alike(q, added)
    BY <2>1 DEF Listed
  <2> QED
    BY <1>1, <1>2, <2>1, <2>2, AlikeTasks, ListedRearranged
<1>7. OneMore(s.entry[g].queue, t, e.queue)
  BY <1>1, <1>2, InsertedIsOneMore
<1>8. /\ Num(e) \in Nat \ {0} /\ e.queue # <<>>
      /\ Num(e) = 1 <=> s.entry[g].queue = <<>>
  BY <1>2, <1>7, LenProperties, EmptySeq DEF OneMore, Num
<1>9. /\ g < s.num /\ s.entry[g].used # "free"
  BY DEF Homed, g
<1>10. CASE s.entry[g].paused
  <2>1. Ready(q, g) <=> Ready(s, g)
    BY <1>1, <1>2, <1>10 DEF Ready, Rearranged
  <2>2. GroupSound(q)
    BY <1>1, <1>2, <2>1, NowSound DEF PoolSound
  <2> QED
    BY <1>1, <1>2, <1>3, <1>10, <2>2 DEF PoolSound, Rearranged, p
<1>11. CASE ~s.entry[g].paused /\ Num(e) # 1
  <2>1. p = added
    BY <1>3, <1>11
  <2>2. \A h \in Ids : added.entry[h].queue = q.entry[h].queue
    BY <1>6 DEF Listed, Alike
  <2>3. Ready(added, g) <=> Ready(s, g)
    BY <1>2, <1>6, <1>8, <1>9, <1>11, <2>2 DEF Ready, Rearranged, SameGroups
  <2>4. GroupSound(added)
    BY <1>1, <1>2, <1>6, <2>2, <2>3, NowSound DEF PoolSound
  <2> QED
    BY <1>1, <1>6, <2>1, <2>4 DEF PoolSound, Rearranged, Listed, Alike, p
<1>12. CASE ~s.entry[g].paused /\ Num(e) = 1
  <2>1. p = Activate(added, g)
    BY <1>3, <1>12
  <2>2. \A h \in Ids : added.entry[h].queue = q.entry[h].queue
    BY <1>6 DEF Listed, Alike
  <2>3. \A h \in Ids : h # g => added.entry[h].queue = s.entry[h].queue
    BY <1>1, <2>2
  <2>4. /\ ReadyGroups(added) \ {g} = Actives(added) \ {g}
        /\ g \in Actives(added) <=> Ready(s, g)
        /\ \A h \in First(added) : ~added.entry[h].paused
    BY <1>2, <1>6, <2>3, ReadyNow DEF PoolSound
  <2>5. ~Ready(s, g)
    BY <1>8, <1>12 DEF Ready
  <2>6. Ready(added, g)
    BY <1>2, <1>6, <1>8, <1>9, <1>12, <2>2 DEF Ready, Rearranged, SameGroups
  <2>7. ListSound(added) /\ ~added.entry[g].active
    BY <1>2, <1>6, <2>4, <2>5, RearrangedList DEF PoolSound, GroupSound, Actives
  <2>8. /\ p \in GpShape /\ ListSound(p) /\ Alike(added, p)
        /\ Actives(p) = Actives(added) \cup {g}
        /\ First(p) \subseteq First(added) \cup {g}
    BY <1>2, <1>6, <2>1, <2>7, ActivateKeeps
  <2>9. ReadyGroups(p) = ReadyGroups(added) /\ TaskSound(p)
    BY <1>6, <2>8, AlikeSame, AlikeTasks
  <2>10. Actives(p) = ReadyGroups(p)
    BY <1>2, <2>4, <2>5, <2>6, <2>8, <2>9 DEF ReadyGroups
  <2>11. \A h \in First(p) : ~p.entry[h].paused
    <3>1. First(added) \subseteq Ids
      BY <1>6, <2>7, FirstIn
    <3>2. ~added.entry[g].paused
      BY <1>2, <1>6, <1>12 DEF Rearranged
    <3>3. \A h \in Ids : p.entry[h].paused = added.entry[h].paused
      BY <2>8 DEF Alike
    <3> QED
      BY <1>2, <2>4, <2>8, <3>1, <3>2, <3>3
  <2> QED
    BY <1>1, <1>6, <2>8, <2>9, <2>10, <2>11
       DEF PoolSound, GroupSound, Rearranged, Listed, Alike, SameGroups, p
<1> QED
  BY <1>10, <1>11, <1>12

-----------------------------------------------------------------------------
(***************************************************************************)
(* The ends of tasks                                                       *)
(***************************************************************************)

LEMMA UntracedKeeps ==
  ASSUME NEW s, PoolSound(s), NEW t \in Tasks, s.stat[t] # "waiting",
         t \notin Range(s.dispatch_q)
  PROVE  LET p == Untraced(s, t)
         IN  /\ PoolSound(p) /\ SameGroups(s, p) /\ p.entry = s.entry
             /\ p.stat = [s.stat EXCEPT ![t] = "idle"] /\ p.gid = s.gid
             /\ p.wpending = s.wpending \ {t} /\ p.dispatch_q = s.dispatch_q
<1> DEFINE st == [s.stat EXCEPT ![t] = "idle"]
           p == Untraced(s, t)
<1>1. s \in GpShape /\ TaskSound(s)
  BY DEF PoolSound
<1>2. st \in [Tasks -> TaskStats] /\ s.wpending \ {t} \in SUBSET Tasks
      /\ \A u \in Tasks : st[u] = IF u = t THEN "idle" ELSE s.stat[u]
  BY <1>1 DEF GpShape, TaskStats
<1>3. p = [s EXCEPT !.stat = st, !.wpending = s.wpending \ {t}]
  BY <1>1 DEF GpShape, Untraced
<1> HIDE DEF p, st
<1>4. /\ p \in GpShape /\ p.entry = s.entry /\ p.stat = st
      /\ p.wpending = s.wpending \ {t} /\ p.gid = s.gid
      /\ p.actentry = s.actentry /\ p.active_idx = s.active_idx
      /\ p.nactives_ok = s.nactives_ok /\ p.num = s.num
      /\ p.paused = s.paused /\ p.destroying = s.destroying
      /\ p.throttle_on = s.throttle_on /\ p.dispatch_q = s.dispatch_q
  BY <1>1, <1>2, <1>3 DEF GpShape
<1>5. Rearranged(s, p)
  BY <1>4 DEF Rearranged, SameGroups
<1>6. GroupSound(p)
  <2>1. Ready(p, 0) <=> Ready(s, 0)
    BY <1>4 DEF Ready
  <2> QED
    BY <1>1, <1>4, <1>5, <2>1, IdsFinite, NowSound DEF PoolSound
<1>7. TaskSound(p)
  <2>1. \A u \in Range(s.dispatch_q) : u \in Tasks
    <3>1. s.dispatch_q \in Seq(Tasks)
      BY <1>1 DEF GpShape
    <3> QED
      BY <3>1, LenProperties, ElementOfSeq DEF Range
  <2>2. \A g \in Ids : {u \in Tasks : p.stat[u] = "waiting" /\ p.gid[u] = g} =
                       {u \in Tasks : s.stat[u] = "waiting" /\ s.gid[u] = g}
    BY <1>2, <1>4
  <2>3. \A u \in p.wpending : p.stat[u] \in {"scheduling", "dispatching"}
    BY <1>1, <1>2, <1>4 DEF TaskSound, GpShape
  <2>4. \A u \in Range(p.dispatch_q) : p.stat[u] = "dispatching"
    BY <1>1, <1>2, <1>4, <2>1 DEF TaskSound
  <2>5. \A u \in Tasks : p.stat[u] # "idle" =>
            p.gid[u] < p.num /\ p.entry[p.gid[u]].used # "free"
    BY <1>1, <1>2, <1>4 DEF TaskSound
  <2> QED
    BY <1>1, <1>4, <2>2, <2>3, <2>4, <2>5 DEF TaskSound
<1> QED
  BY <1>4, <1>5, <1>6, <1>7 DEF PoolSound, Rearranged, p, st

LEMMA DoneWithKeeps ==
  ASSUME NEW s, PoolSound(s), NEW t \in Tasks,
         s.stat[t] \in {"scheduling", "dispatching"}, t \notin Range(s.dispatch_q)
  PROVE  LET p == DoneWith(s, t)
         IN  /\ PoolSound(p) /\ SameGroups(s, p)
             /\ p.stat = [s.stat EXCEPT ![t] = IF t \in s.wpending THEN "waiting"
                                               ELSE "idle"]
             /\ p.gid = s.gid /\ p.wpending = s.wpending \ {t}
             /\ p.dispatch_q = s.dispatch_q
<1>1. Homed(s, t)
  BY DEF Homed, PoolSound, TaskSound
<1>2. CASE t \in s.wpending
  BY <1>1, <1>2, QueuedKeeps DEF DoneWith
<1>3. CASE t \notin s.wpending
  BY <1>3, UntracedKeeps DEF DoneWith
<1> QED
  BY <1>2, <1>3

-----------------------------------------------------------------------------
(***************************************************************************)
(* Taking a task                                                           *)
(***************************************************************************)

\* The tasks a search finds: first ones of the groups it looks at.
Tops(s) == {s.entry[g].queue[1] : g \in {h \in First(s) : s.entry[h].queue # <<>>}}

LEMMA SearchFinds ==
  ASSUME NEW s \in GpShape, ListSound(s), NEW second
  PROVE  Search(s, second) \in Tops(s) \cup {NoTask}
<1> DEFINE n == s.active_idx
           seq == Places(n)
           S == Tops(s) \cup {NoTask}
           b == NoTask
           best(t, i) == Better(s, second, t, i)
           Is(f) == f = [z \in SUBSET (1 .. n) |->
                    IF z = {} THEN b ELSE best(f[z \ {Max(z)}], seq[Max(z)])]
           F == CHOOSE f : Is(f)
           step == [x \in S \X (1 .. n) |-> best(x[1], seq[x[2]])]
<1>1. n \in Nat
  BY DEF ListSound
<1>2. Search(s, second) = F[1 .. n]
  <2>1. DOMAIN seq = 1 .. n
    BY DEF Places
  <2> QED
    BY <2>1, Zenon DEF Search, FoldLeft, MapThenFoldSet
<1>3. ASSUME NEW t \in S, NEW i \in 1 .. n
      PROVE  best(t, seq[i]) \in S
  <2>1. seq[i] = i - 1 /\ i - 1 \in 0 .. (s.active_idx - 1)
    BY <1>1 DEF Places
  <2>2. s.actentry[i - 1] \in First(s)
    BY <2>1 DEF First
  <2> QED
    BY <1>3, <2>1, <2>2 DEF Better, Candidate, Tops
<1>4. step \in [S \X (1 .. n) -> S]
  BY <1>3
<1> HIDE DEF seq, best, S, b
<1>5. b \in S
  BY DEF b, S
<1>6. Is(F)
  <2>1. PICK f \in [SUBSET (1 .. n) -> S] : FoldedBy(f, n, b, step)
    <3> HIDE DEF step, n
    <3> QED
      BY <1>1, <1>4, <1>5, FoldExists
  <2>2. \A z \in SUBSET (1 .. n) : z # {} => Max(z) \in 1 .. n
    BY <1>1, MaxIn
  <2>3. Is(f)
    BY <2>1, <2>2 DEF FoldedBy
  <2> HIDE DEF Is
  <2> QED
    BY <2>3, Zenon
<1>7. Folds(F, n, S, b, step)
  <2> HIDE DEF F, n
  <2>1. {} \in SUBSET (1 .. n)
    OBVIOUS
  <2>2. F[{}] = b
    BY <1>6, <2>1, Zenon
  <2>3. ASSUME NEW z \in SUBSET (1 .. n), z # {}, F[z \ {Max(z)}] \in S
        PROVE  F[z] = step[<<F[z \ {Max(z)}], Max(z)>>]
    BY <1>1, <1>6, <2>3, MaxIn
  <2> HIDE DEF step
  <2> QED
    BY <2>2, <2>3 DEF Folds
<1>8. F[1 .. n] \in S
  <2> HIDE DEF F, step, n
  <2> QED
    BY <1>1, <1>4, <1>5, <1>7, FoldEnds
<1> QED
  BY <1>2, <1>8 DEF S

\* t has left the queue of its group, whose tasks are fewer by it.
Fewer(s, p, t) ==
    /\ \A h \in Ids : h # s.gid[t] => p.entry[h].queue = s.entry[h].queue
    /\ OneMore(p.entry[s.gid[t]].queue, t, s.entry[s.gid[t]].queue)

\* The list of active groups after that.
LEMMA Emptied ==
  ASSUME NEW s, PoolSound(s), NEW t \in Tasks, NEW left, Rearranged(s, left),
         Fewer(s, left, t), Ready(s, s.gid[t]), NEW p,
         p = IF Num(s.entry[s.gid[t]]) = 1 THEN Inactivate(left, s.gid[t]) ELSE left
  PROVE  /\ p \in GpShape /\ GroupSound(p) /\ Alike(left, p)
<1> DEFINE g == s.gid[t]
<1>1. /\ g \in Ids /\ s \in GpShape /\ GroupSound(s) /\ left \in GpShape
      /\ left.entry[g].queue \in Seq(Tasks) /\ s.entry[g].queue \in Seq(Tasks)
      /\ Num(s.entry[g]) = Len(s.entry[g].queue)
      /\ Ready(s, g) /\ OneMore(left.entry[g].queue, t, s.entry[g].queue)
      /\ \A h \in Ids : h # g => left.entry[h].queue = s.entry[h].queue
  BY EntryIn DEF PoolSound, GpShape, Rearranged, Num, Fewer
<1>2. p = IF Num(s.entry[g]) = 1 THEN Inactivate(left, g) ELSE left
  OBVIOUS
<1> HIDE DEF g
<1>3. Len(left.entry[g].queue) \in Nat /\ Num(s.entry[g]) = Len(left.entry[g].queue) + 1
  BY <1>1, LenProperties DEF OneMore
<1>4. /\ ReadyGroups(left) \ {g} = Actives(left) \ {g} /\ g \in Actives(left)
      /\ \A h \in First(left) : ~left.entry[h].paused
  BY <1>1, ReadyNow
<1>5. ListSound(left)
  BY <1>1, RearrangedList DEF GroupSound
<1>6. CASE Num(s.entry[g]) # 1
  <2>1. left.entry[g].queue # <<>>
    BY <1>1, <1>3, <1>6, EmptySeq
  <2>2. Ready(left, g) <=> Ready(s, g)
    BY <1>1, <2>1 DEF Ready, Rearranged, SameGroups
  <2>3. GroupSound(left)
    BY <1>1, <2>2, NowSound
  <2>4. p = left
    BY <1>2, <1>6
  <2> QED
    BY <1>1, <2>3, <2>4, SameTrans
<1>7. CASE Num(s.entry[g]) = 1
  <2>1. left.entry[g].queue = <<>>
    BY <1>1, <1>3, <1>7, EmptySeq
  <2>2. g \notin ReadyGroups(left)
    BY <2>1 DEF Ready, ReadyGroups
  <2>3. /\ p \in GpShape /\ ListSound(p) /\ Alike(left, p)
        /\ Actives(p) = Actives(left) \ {g} /\ First(p) \subseteq First(left)
    <3>1. left.entry[g].active
      BY <1>4 DEF Actives
    <3> QED
      BY <1>1, <1>2, <1>5, <1>7, <3>1, InactivateKeeps
  <2>4. Actives(p) = ReadyGroups(p)
    BY <1>4, <2>2, <2>3, AlikeSame
  <2>5. \A h \in First(p) : ~p.entry[h].paused
    <3>1. First(left) \subseteq Ids
      BY <1>1, <1>5, FirstIn
    <3> QED
      BY <1>4, <2>3, <3>1 DEF Alike
  <2> QED
    BY <2>3, <2>4, <2>5 DEF GroupSound
<1> QED
  BY <1>6, <1>7

\* The tasks after that.
LEMMA LeftQueue ==
  ASSUME NEW s, PoolSound(s), NEW t \in Tasks, s.stat[t] = "waiting",
         NEW p, SameGroups(s, p), p.gid = s.gid, p.wpending = s.wpending, Fewer(s, p, t),
         NEW v \in {"idle", "scheduling", "dispatching"},
         p.stat = [s.stat EXCEPT ![t] = v],
         \/ p.dispatch_q = s.dispatch_q
         \/ v = "dispatching" /\ p.dispatch_q = Append(s.dispatch_q, t)
  PROVE  TaskSound(p)
<1> DEFINE g == s.gid[t]
<1>1. /\ g \in Ids /\ s.gid \in [Tasks -> Ids] /\ s.stat \in [Tasks -> TaskStats]
      /\ s.dispatch_q \in Seq(Tasks) /\ s.wpending \subseteq Tasks /\ TaskSound(s)
      /\ OneMore(p.entry[g].queue, t, s.entry[g].queue)
      /\ \A h \in Ids : h # g => p.entry[h].queue = s.entry[h].queue
  BY DEF PoolSound, GpShape, Fewer
<1>2. \A u \in Tasks : p.stat[u] = IF u = t THEN v ELSE s.stat[u]
  BY <1>1
<1>3. \A u \in Tasks : s.gid[u] = g <=> (s.gid[u] = s.gid[t])
  OBVIOUS
<1>4. t \in Tasks /\ s.gid[t] = g
  OBVIOUS
<1> HIDE DEF g
<1>5. ASSUME NEW h \in Ids
      PROVE  /\ Once(p.entry[h].queue)
             /\ Range(p.entry[h].queue) =
                    {u \in Tasks : p.stat[u] = "waiting" /\ p.gid[u] = h}
  <2>1. /\ Once(s.entry[h].queue)
        /\ Range(s.entry[h].queue) = {u \in Tasks : s.stat[u] = "waiting" /\ s.gid[u] = h}
    BY <1>1 DEF TaskSound
  <2>2. CASE h = g
    <3>1. /\ Range(s.entry[h].queue) = Range(p.entry[h].queue) \cup {t}
          /\ Once(p.entry[h].queue) /\ t \notin Range(p.entry[h].queue)
      BY <1>1, <2>1, <2>2 DEF OneMore
    <3> QED
      BY <1>2, <1>4, <2>1, <2>2, <3>1
  <2>3. CASE h # g
    <3>1. p.entry[h].queue = s.entry[h].queue /\ s.gid[t] # h
      BY <1>1, <1>4, <2>3
    <3> QED
      BY <1>2, <2>1, <3>1
  <2> QED
    BY <2>2, <2>3
<1>6. t \notin Range(s.dispatch_q) /\ t \notin s.wpending
      /\ \A u \in Range(s.dispatch_q) : u \in Tasks
  BY <1>1, LenProperties, ElementOfSeq DEF TaskSound, Range
<1>7. /\ Once(p.dispatch_q) /\ \A u \in Range(p.dispatch_q) : p.stat[u] = "dispatching"
  <2>1. CASE p.dispatch_q = s.dispatch_q
    BY <1>1, <1>2, <1>6, <2>1 DEF TaskSound
  <2>2. CASE v = "dispatching" /\ p.dispatch_q = Append(s.dispatch_q, t)
    <3>1. OneMore(s.dispatch_q, t, p.dispatch_q)
      BY <1>1, <2>2, AppendIsOneMore
    <3>2. Once(p.dispatch_q) /\ Range(p.dispatch_q) = Range(s.dispatch_q) \cup {t}
      BY <1>1, <1>6, <3>1 DEF OneMore, TaskSound
    <3> QED
      BY <1>1, <1>2, <1>6, <2>2, <3>2 DEF TaskSound
  <2> QED
    BY <2>1, <2>2
<1>8. \A u \in p.wpending : p.stat[u] \in {"scheduling", "dispatching"}
  BY <1>1, <1>2, <1>6 DEF TaskSound
<1>9. \A u \in Tasks : p.stat[u] # "idle" =>
            p.gid[u] < p.num /\ p.entry[p.gid[u]].used # "free"
  BY <1>1, <1>2 DEF TaskSound, SameGroups
<1> QED
  BY <1>5, <1>7, <1>8, <1>9 DEF TaskSound

Taken(s, t, th) ==
    [Unqueued(s, t) EXCEPT !.stat[t] = "scheduling", !.thread[t] = th,
                           !.entry[Unqueued(s, t).gid[t]].nrunnings = @ + 1]

LEMMA TakenKeeps ==
  ASSUME NEW s, PoolSound(s), NEW t \in Tops(s), NEW th \in Threads
  PROVE  LET p == Taken(s, t, th)
         IN  /\ t \in Tasks /\ s.stat[t] = "waiting"
             /\ PoolSound(p) /\ SameGroups(s, p)
             /\ p.stat = [s.stat EXCEPT ![t] = "scheduling"] /\ p.gid = s.gid
             /\ p.wpending = s.wpending /\ p.dispatch_q = s.dispatch_q
<1>1. s \in GpShape /\ TaskSound(s) /\ GroupSound(s) /\ First(s) \subseteq Ids
  BY FirstIn DEF PoolSound, GroupSound
<1>2. PICK g \in First(s) : s.entry[g].queue # <<>> /\ t = s.entry[g].queue[1]
  BY DEF Tops
<1> DEFINE q == s.entry[g].queue
<1>3. g \in Ids /\ q \in Seq(Tasks) /\ q # <<>> /\ t = q[1]
  BY <1>1, <1>2, EntryIn
<1>4. t \in Tasks /\ OneMore(Tail(q), t, q) /\ Tail(q) \in Seq(Tasks)
  BY <1>3, TailIsOneLess DEF OneMore
<1>5. s.stat[t] = "waiting" /\ s.gid[t] = g
  <2>1. t \in Range(q)
    BY <1>4 DEF OneMore
  <2> QED
    BY <1>1, <1>3, <2>1 DEF TaskSound
<1>6. Ready(s, g)
  BY <1>1, <1>2, <1>3, <1>4, <1>5 DEF Ready, GroupSound, TaskSound
<1> DEFINE eff == IF s.entry[g].receive_benifits THEN s.entry[g].npendings_eff
                  ELSE IF Num(s.entry[g]) = 1 THEN 0 ELSE s.entry[g].npendings_eff - 1
           e == [s.entry[g] EXCEPT !.queue = Tail(q), !.npendings_eff = eff]
           E == [s.entry EXCEPT ![g] = e]
           o == RemoveFirst(s.order, t)
           left == [s EXCEPT !.entry[g].queue = Tail(@),
                             !.entry[g].npendings_eff =
                                IF s.entry[g].receive_benifits THEN @
                                ELSE IF Num(s.entry[g]) = 1 THEN 0 ELSE @ - 1,
                             !.effective = @ - 1, !.npendings = @ - 1,
                             !.order = RemoveFirst(@, t)]
           u == Unqueued(s, t)
<1>7. u = IF Num(s.entry[g]) = 1 THEN Inactivate(left, g) ELSE left
  BY <1>5 DEF Unqueued
<1>8. left = [s EXCEPT !.entry = E, !.effective = s.effective - 1,
                       !.npendings = s.npendings - 1, !.order = o]
  <2> DEFINE x == s.entry[g]
             y == [x EXCEPT !.queue = Tail(q)]
             z == [y EXCEPT !.npendings_eff = eff]
             E1 == [s.entry EXCEPT ![g] = y]
             E2 == [E1 EXCEPT ![g] = z]
  <2>1. s.entry \in [Ids -> EntryShape] /\ x \in EntryShape
    BY <1>1 DEF GpShape
  <2>2. y.npendings_eff = x.npendings_eff /\ z = e
    BY <2>1 DEF EntryShape
  <2>3. E1[g] = y /\ E2 = E
    BY <1>3, <2>1, <2>2
  <2>4. [s.entry EXCEPT ![g].queue = Tail(@)] = E1
    BY <1>3, <2>1
  <2>5. [E1 EXCEPT ![g].npendings_eff =
                IF s.entry[g].receive_benifits THEN @
                ELSE IF Num(s.entry[g]) = 1 THEN 0 ELSE @ - 1] = E2
    BY <1>3, <2>1, <2>2, <2>3
  <2> DEFINE E0 == [s.entry EXCEPT ![g].queue = Tail(@),
                        ![g].npendings_eff =
                                IF s.entry[g].receive_benifits THEN @
                                ELSE IF Num(s.entry[g]) = 1 THEN 0 ELSE @ - 1]
  <2>6. E0 = E
    BY <2>3, <2>4, <2>5
  <2>7. left = [s EXCEPT !.entry = E0, !.effective = s.effective - 1,
                         !.npendings = s.npendings - 1, !.order = o]
    <3> HIDE DEF E, eff, q, e, y, z, E1, E2
    <3> QED
      BY <1>1, <1>3 DEF GpShape
  <2> HIDE DEF E0, left
  <2> QED
    BY <2>6, <2>7
<1>9. eff \in Int /\ s.effective - 1 \in Int /\ s.npendings - 1 \in Int /\ o \in Seq(Tasks)
  <2>1. s.order \in Seq(Tasks)
    BY <1>1 DEF GpShape
  <2>2. o \in Seq(Tasks)
    BY <2>1, RemoveIsOneLess
  <2> HIDE DEF o
  <2> QED
    BY <1>1, <1>3, <2>2, EntryIn
<1> HIDE DEF eff, o, left, u, q
<1>10. /\ e \in EntryShape /\ e.queue = Tail(q) /\ e.used = s.entry[g].used
       /\ e.throttle = s.entry[g].throttle /\ e.active = s.entry[g].active
       /\ e.paused = s.entry[g].paused
  BY <1>1, <1>3, <1>4, <1>9, EntryIn DEF EntryShape
<1> HIDE DEF e
<1>11. /\ E \in [Ids -> EntryShape] /\ E[g] = e
       /\ \A h \in Ids : h # g => E[h] = s.entry[h]
  BY <1>1, <1>3, <1>10 DEF GpShape
<1> HIDE DEF E
<1>12. /\ left \in GpShape /\ left.entry = E /\ left.stat = s.stat
       /\ left.wpending = s.wpending /\ left.gid = s.gid
       /\ left.actentry = s.actentry /\ left.active_idx = s.active_idx
       /\ left.nactives_ok = s.nactives_ok /\ left.num = s.num
       /\ left.paused = s.paused /\ left.destroying = s.destroying
       /\ left.throttle_on = s.throttle_on /\ left.dispatch_q = s.dispatch_q
  BY <1>1, <1>8, <1>9, <1>11 DEF GpShape
<1>13. Rearranged(s, left) /\ Fewer(s, left, t)
  BY <1>4, <1>5, <1>10, <1>11, <1>12 DEF Rearranged, SameGroups, Fewer, q
<1>14. u \in GpShape /\ GroupSound(u) /\ Alike(left, u)
  BY <1>4, <1>5, <1>6, <1>7, <1>13, Emptied
<1> DEFINE p == Taken(s, t, th)
           f == [u.entry[g] EXCEPT !.nrunnings = @ + 1]
           G == [u.entry EXCEPT ![g] = f]
           st == [u.stat EXCEPT ![t] = "scheduling"]
           thr == [u.thread EXCEPT ![t] = th]
<1>15. p = [u EXCEPT !.stat = st, !.thread = thr, !.entry = G]
  <2>1. u.gid[t] = g
    BY <1>5, <1>12, <1>14 DEF Alike
  <2> QED
    BY <1>3, <1>14, <2>1 DEF Taken, GpShape, u
<1>16. /\ st \in [Tasks -> TaskStats] /\ thr \in [Tasks -> Threads \cup {NoThread}]
       /\ st = [s.stat EXCEPT ![t] = "scheduling"]
  BY <1>4, <1>12, <1>14 DEF GpShape, TaskStats, Alike
<1>17. f \in EntryShape /\ LikeEntry(u.entry[g], f)
  <2>1. u.entry[g] \in EntryShape /\ u.entry[g].nrunnings + 1 \in Int
    BY <1>3, <1>14, EntryIn
  <2> QED
    BY <2>1 DEF EntryShape, LikeEntry
<1> HIDE DEF f, st, thr, p
<1>18. /\ G \in [Ids -> EntryShape] /\ G[g] = f
       /\ \A h \in Ids : h # g => G[h] = u.entry[h]
  BY <1>3, <1>14, <1>17 DEF GpShape
<1> HIDE DEF G
<1>19. /\ p \in GpShape /\ p.entry = G /\ p.stat = st
       /\ p.wpending = u.wpending /\ p.gid = u.gid
       /\ p.actentry = u.actentry /\ p.active_idx = u.active_idx
       /\ p.nactives_ok = u.nactives_ok /\ p.num = u.num
       /\ p.paused = u.paused /\ p.destroying = u.destroying
       /\ p.throttle_on = u.throttle_on /\ p.dispatch_q = u.dispatch_q
  BY <1>14, <1>15, <1>16, <1>18 DEF GpShape
<1>20. Rearranged(u, p) /\ \A h \in Ids : p.entry[h].queue = u.entry[h].queue
  BY <1>17, <1>18, <1>19 DEF Rearranged, SameGroups, LikeEntry
<1>21. GroupSound(p)
  <2>1. Ready(p, g) <=> Ready(u, g)
    BY <1>3, <1>20 DEF Ready, Rearranged, SameGroups
  <2> QED
    BY <1>3, <1>14, <1>20, <2>1, NowSound
<1>22. /\ SameGroups(s, p) /\ p.gid = s.gid /\ p.wpending = s.wpending
       /\ p.dispatch_q = s.dispatch_q /\ p.stat = [s.stat EXCEPT ![t] = "scheduling"]
       /\ Fewer(s, p, t)
  <2>1. SameGroups(s, p)
    BY <1>13, <1>14, <1>20 DEF Rearranged, Alike, SameGroups
  <2>2. Fewer(s, p, t)
    BY <1>3, <1>5, <1>13, <1>14, <1>20 DEF Fewer, Alike
  <2> QED
    BY <1>12, <1>14, <1>16, <1>19, <2>1, <2>2 DEF Alike
<1>23. TaskSound(p)
  BY <1>4, <1>5, <1>22, LeftQueue
<1> QED
  BY <1>4, <1>5, <1>19, <1>21, <1>22, <1>23 DEF PoolSound, p

-----------------------------------------------------------------------------
(***************************************************************************)
(* Removing tasks                                                          *)
(***************************************************************************)

LEMMA HandledIs ==
  ASSUME NEW s, PoolSound(s), NEW t \in Tasks, s.stat[t] = "waiting",
         NEW bypool \in BOOLEAN
  PROVE  LET p == Handled(s, t, bypool)
         IN  /\ Rearranged(s, p) /\ p.wpending = s.wpending /\ p.order = s.order
             /\ p.stat = [s.stat EXCEPT ![t] = IF t \in Handlers THEN "dispatching"
                                               ELSE "idle"]
             /\ p.dispatch_q = IF bypool /\ t \in Handlers THEN Append(s.dispatch_q, t)
                               ELSE s.dispatch_q
             /\ \A h \in Ids : p.entry[h].queue = s.entry[h].queue
<1> DEFINE p == Handled(s, t, bypool)
           g == s.gid[t]
<1>1. s \in GpShape /\ g \in Ids /\ t \notin s.wpending
  BY DEF PoolSound, GpShape, TaskSound
<1>2. CASE t \notin Handlers
  <2> DEFINE st == [s.stat EXCEPT ![t] = "idle"]
  <2>1. st \in [Tasks -> TaskStats] /\ s.wpending \ {t} = s.wpending
    BY <1>1 DEF GpShape, TaskStats
  <2>2. p = [s EXCEPT !.stat = st, !.wpending = s.wpending \ {t}]
    BY <1>1, <1>2 DEF GpShape, Handled, Untraced
  <2> HIDE DEF p, st
  <2>3. p \in GpShape /\ p.stat = st /\ p.wpending = s.wpending /\ p.entry = s.entry
        /\ p.dispatch_q = s.dispatch_q /\ p.order = s.order /\ p.gid = s.gid
        /\ p.actentry = s.actentry /\ p.active_idx = s.active_idx
        /\ p.nactives_ok = s.nactives_ok /\ p.num = s.num
        /\ p.paused = s.paused /\ p.destroying = s.destroying
        /\ p.throttle_on = s.throttle_on
    BY <1>1, <2>1, <2>2 DEF GpShape
  <2>4. Rearranged(s, p)
    BY <2>3 DEF Rearranged, SameGroups
  <2> QED
    BY <1>2, <2>3, <2>4 DEF p, st
<1>3. CASE t \in Handlers
  <2> DEFINE st == [s.stat EXCEPT ![t] = "dispatching"]
             dq == IF bypool THEN Append(s.dispatch_q, t) ELSE s.dispatch_q
             nd == IF bypool THEN s.ndispatchings ELSE s.ndispatchings + 1
             e == [s.entry[g] EXCEPT !.ndispatchings = @ + 1]
             E == [s.entry EXCEPT ![g] = e]
  <2>1. s.entry \in [Ids -> EntryShape] /\ s.entry[g].ndispatchings + 1 \in Int
    BY <1>1, EntryIn DEF GpShape, EntryShape
  <2>2. /\ st \in [Tasks -> TaskStats] /\ dq \in Seq(Tasks) /\ nd \in Int
    BY <1>1 DEF GpShape, TaskStats
  <2>3. p = [s EXCEPT !.stat = st, !.dispatch_q = dq, !.ndispatchings = nd, !.entry = E]
    BY <1>1, <1>3 DEF GpShape, Handled
  <2> HIDE DEF p, st, dq, nd, g
  <2>4. e \in EntryShape /\ LikeEntry(s.entry[g], e)
    BY <1>1, <2>1 DEF EntryShape, LikeEntry
  <2> HIDE DEF e
  <2>5. /\ E \in [Ids -> EntryShape] /\ E[g] = e
        /\ \A h \in Ids : h # g => E[h] = s.entry[h]
    BY <1>1, <2>1, <2>4
  <2> HIDE DEF E
  <2>6. p \in GpShape /\ p.stat = st /\ p.wpending = s.wpending /\ p.entry = E
        /\ p.dispatch_q = dq /\ p.order = s.order /\ p.gid = s.gid
        /\ p.actentry = s.actentry /\ p.active_idx = s.active_idx
        /\ p.nactives_ok = s.nactives_ok /\ p.num = s.num
        /\ p.paused = s.paused /\ p.destroying = s.destroying
        /\ p.throttle_on = s.throttle_on
    BY <1>1, <2>2, <2>3, <2>5 DEF GpShape
  <2>7. Rearranged(s, p) /\ \A h \in Ids : p.entry[h].queue = s.entry[h].queue
    BY <2>4, <2>5, <2>6 DEF Rearranged, SameGroups, LikeEntry
  <2> QED
    BY <1>3, <2>6, <2>7 DEF p, st, dq
<1> QED
  BY <1>2, <1>3

\* What has become of the tasks of X, which are removed from s.
MarkedFrom(s, p, X, bypool) ==
    /\ SameGroups(s, p) /\ p.gid = s.gid /\ p.wpending = s.wpending \ X
    /\ \A t \in Tasks : p.stat[t] =
            IF t \in X /\ s.stat[t] = "waiting"
            THEN IF t \in Handlers THEN "dispatching" ELSE "idle"
            ELSE s.stat[t]
    /\ Range(p.dispatch_q) = Range(s.dispatch_q) \cup
            {t \in X \cap Handlers : bypool /\ s.stat[t] = "waiting"}

LEMMA RemovedKeeps ==
  ASSUME NEW s, PoolSound(s), NEW t \in Tasks, s.stat[t] = "waiting",
         NEW bypool \in BOOLEAN
  PROVE  LET p == Removed(s, t, bypool)
         IN  PoolSound(p) /\ MarkedFrom(s, p, {t}, bypool)
<1> DEFINE g == s.gid[t]
           k == Handled(s, t, bypool)
           left == [k EXCEPT !.entry[g].queue = RemoveFirst(@, t),
                             !.order = RemoveFirst(@, t)]
           uncounted == \/ s.entry[g].receive_benifits
                        \/ s.entry[g].npendings_eff > Num(s.entry[g]) - 1
           less == uncounted /\ ~s.entry[g].receive_benifits
           counted == [left EXCEPT
                    !.npendings = @ - 1,
                    !.effective = IF uncounted THEN @ - 1 ELSE @,
                    !.entry[g].npendings_eff =
                        IF uncounted /\ ~s.entry[g].receive_benifits THEN @ - 1 ELSE @]
           p == Removed(s, t, bypool)
           v == IF t \in Handlers THEN "dispatching" ELSE "idle"
<1>1. /\ s \in GpShape /\ g \in Ids /\ t \notin s.wpending /\ TaskSound(s)
      /\ GroupSound(s) /\ s.entry[g].queue \in Seq(Tasks)
      /\ t \in Range(s.entry[g].queue)
  <2>1. s \in GpShape /\ TaskSound(s) /\ GroupSound(s)
    BY DEF PoolSound
  <2>2. g \in Ids
    BY <2>1 DEF GpShape
  <2> HIDE DEF g
  <2>3. s.entry[g].queue \in Seq(Tasks)
    BY <2>1, <2>2, EntryIn
  <2>4. t \notin s.wpending
    BY <2>1 DEF TaskSound
  <2>5. Range(s.entry[g].queue) = {u \in Tasks : s.stat[u] = "waiting" /\ s.gid[u] = g}
    BY <2>1, <2>2 DEF TaskSound
  <2> QED
    BY <2>1, <2>2, <2>3, <2>4, <2>5 DEF g
<1>2. /\ Rearranged(s, k) /\ k.wpending = s.wpending /\ k.order = s.order
      /\ k.stat = [s.stat EXCEPT ![t] = v] /\ k \in GpShape
      /\ k.dispatch_q = IF bypool /\ t \in Handlers THEN Append(s.dispatch_q, t)
                        ELSE s.dispatch_q
      /\ \A h \in Ids : k.entry[h].queue = s.entry[h].queue
  BY HandledIs DEF Rearranged
<1>3. p = IF s.entry[g].paused THEN left
          ELSE IF Num(s.entry[g]) = 1 THEN Inactivate(counted, g) ELSE counted
  BY DEF Removed
<1> HIDE DEF k, p, g
<1> DEFINE q == RemoveFirst(k.entry[g].queue, t)
           e == [k.entry[g] EXCEPT !.queue = q]
           E == [k.entry EXCEPT ![g] = e]
           o == RemoveFirst(k.order, t)
<1>4. left = [k EXCEPT !.entry = E, !.order = o]
  BY <1>1, <1>2 DEF GpShape
<1> HIDE DEF left
<1>5. OneMore(q, t, s.entry[g].queue) /\ q \in Seq(Tasks) /\ o \in Seq(Tasks)
  <2>1. k.order \in Seq(Tasks) /\ k.entry[g].queue = s.entry[g].queue
    BY <1>1, <1>2 DEF GpShape
  <2> QED
    BY <1>1, <2>1, RemoveIsOneLess DEF OneMore
<1> HIDE DEF q, o
<1>6. /\ e \in EntryShape /\ e.queue = q /\ e.used = k.entry[g].used
      /\ e.throttle = k.entry[g].throttle /\ e.active = k.entry[g].active
      /\ e.paused = k.entry[g].paused
  <2>1. k.entry[g] \in EntryShape
    BY <1>1, <1>2, EntryIn
  <2> QED
    BY <1>5, <2>1 DEF EntryShape
<1> HIDE DEF e
<1>7. /\ E \in [Ids -> EntryShape] /\ E[g] = e
      /\ \A h \in Ids : h # g => E[h] = k.entry[h]
  BY <1>1, <1>2, <1>6 DEF GpShape
<1> HIDE DEF E
<1>8. /\ left \in GpShape /\ left.entry = E /\ left.stat = k.stat
      /\ left.wpending = k.wpending /\ left.gid = k.gid
      /\ left.actentry = k.actentry /\ left.active_idx = k.active_idx
      /\ left.nactives_ok = k.nactives_ok /\ left.num = k.num
      /\ left.paused = k.paused /\ left.destroying = k.destroying
      /\ left.throttle_on = k.throttle_on /\ left.dispatch_q = k.dispatch_q
  BY <1>2, <1>4, <1>5, <1>7 DEF GpShape
<1>9. Rearranged(s, left) /\ Fewer(s, left, t)
  <2>1. Rearranged(s, left)
    BY <1>2, <1>6, <1>7, <1>8 DEF Rearranged, SameGroups
  <2> QED
    BY <1>2, <1>5, <1>6, <1>7, <1>8, <2>1 DEF Fewer, g
<1>10. counted \in GpShape /\ Listed(left, counted)
  <2> DEFINE n == left.npendings - 1
             eff == IF uncounted THEN left.effective - 1 ELSE left.effective
             w == IF less THEN left.entry[g].npendings_eff - 1
                  ELSE left.entry[g].npendings_eff
             f == [left.entry[g] EXCEPT !.npendings_eff = w]
  <2> HIDE DEF uncounted
  <2>1. left.entry \in [Ids -> EntryShape] /\ left.entry[g] \in EntryShape
    BY <1>1, <1>8, EntryIn DEF GpShape
  <2>2. counted = [left EXCEPT !.npendings = n, !.effective = eff,
                               !.entry = [left.entry EXCEPT ![g] = f]]
    BY <1>1, <1>8 DEF GpShape
  <2>3. n \in Int /\ eff \in Int /\ w \in Int
    BY <1>1, <1>8, EntryIn
  <2> HIDE DEF counted, n, eff, w
  <2>4. f \in EntryShape /\ LikeEntry(left.entry[g], f)
    BY <2>1, <2>3 DEF EntryShape, LikeEntry
  <2> HIDE DEF f
  <2>5. counted = Recount(left, g, f, n, eff, left.ndispatchings)
    BY <1>8, <2>2 DEF GpShape, Recount
  <2> QED
    BY <1>1, <1>8, <2>3, <2>4, <2>5, EntryIn, RecountIs
<1> HIDE DEF counted
<1>11. /\ Rearranged(s, counted) /\ Fewer(s, counted, t) /\ Alike(left, counted)
  BY <1>1, <1>9, <1>10, ListedRearranged DEF Fewer, Listed, Alike, g
<1>12. p \in GpShape /\ GroupSound(p) /\ Alike(left, p)
  <2>1. CASE s.entry[g].paused
    <3>1. Ready(left, g) <=> Ready(s, g)
      BY <1>1, <1>9, <2>1 DEF Ready, Rearranged
    <3>2. \A h \in Ids : h # g => left.entry[h].queue = s.entry[h].queue
      BY <1>9 DEF Fewer, g
    <3>3. GroupSound(left)
      BY <1>1, <1>9, <3>1, <3>2, NowSound
    <3> QED
      BY <1>3, <1>8, <2>1, <3>3, SameTrans
  <2>2. CASE ~s.entry[g].paused
    <3>1. Ready(s, g)
      <4>1. s.entry[g].queue # <<>>
        BY <1>1 DEF Range
      <4>2. g < s.num /\ s.entry[g].used # "free"
        BY <1>1 DEF TaskSound, g
      <4> QED
        BY <2>2, <4>1, <4>2 DEF Ready
    <3>2. p = IF Num(s.entry[g]) = 1 THEN Inactivate(counted, g) ELSE counted
      BY <1>3, <2>2
    <3>3. p \in GpShape /\ GroupSound(p) /\ Alike(counted, p)
      BY <1>11, <3>1, <3>2, Emptied DEF g
    <3> QED
      BY <1>11, <3>3, SameTrans
  <2> QED
    BY <2>1, <2>2
<1>13. /\ SameGroups(s, p) /\ p.gid = s.gid /\ p.wpending = s.wpending
       /\ p.stat = [s.stat EXCEPT ![t] = v] /\ p.dispatch_q = k.dispatch_q
       /\ Fewer(s, p, t)
  <2>1. SameGroups(s, p)
    BY <1>9, <1>12 DEF Rearranged, Alike, SameGroups
  <2>2. Fewer(s, p, t)
    BY <1>1, <1>9, <1>12 DEF Fewer, Alike, g
  <2>3. p.gid = s.gid
    BY <1>9, <1>12 DEF Rearranged, Alike
  <2> QED
    BY <1>2, <1>8, <1>12, <2>1, <2>2, <2>3 DEF Alike
<1>14. /\ v \in {"idle", "scheduling", "dispatching"}
       /\ \/ p.dispatch_q = s.dispatch_q
          \/ v = "dispatching" /\ p.dispatch_q = Append(s.dispatch_q, t)
  BY <1>2, <1>13
<1> HIDE DEF v
<1>15. TaskSound(p)
  BY <1>13, <1>14, LeftQueue
<1>16. Range(Append(s.dispatch_q, t)) = Range(s.dispatch_q) \cup {t}
  <2>1. s.dispatch_q \in Seq(Tasks)
    BY <1>1 DEF GpShape
  <2> QED
    BY <2>1, AppendIsOneMore DEF OneMore
<1>17. Range(p.dispatch_q) = Range(s.dispatch_q) \cup
            {u \in {t} \cap Handlers : bypool /\ s.stat[u] = "waiting"}
  BY <1>2, <1>13, <1>16
<1>18. \A u \in Tasks : p.stat[u] = IF u = t THEN v ELSE s.stat[u]
  BY <1>1, <1>13 DEF GpShape
<1>19. MarkedFrom(s, p, {t}, bypool)
  BY <1>1, <1>13, <1>17, <1>18 DEF MarkedFrom, v
<1> QED
  BY <1>12, <1>15, <1>19 DEF PoolSound, p

\* p differs from s in nothing the lists and queues depend on.
SameLists(s, p) ==
    /\ p.entry = s.entry /\ p.actentry = s.actentry /\ p.active_idx = s.active_idx
    /\ p.nactives_ok = s.nactives_ok /\ p.num = s.num /\ p.stat = s.stat
    /\ p.gid = s.gid

LEMMA SideKeeps ==
  ASSUME NEW s, PoolSound(s), NEW p \in GpShape, SameLists(s, p),
         p.dispatch_q = s.dispatch_q,
         \A t \in p.wpending : s.stat[t] \in {"scheduling", "dispatching"}
  PROVE  PoolSound(p)
<1>1. Actives(p) = Actives(s) /\ First(p) = First(s) /\ ReadyGroups(p) = ReadyGroups(s)
  BY DEF SameLists, Actives, First, ReadyGroups, Ready
<1>2. ListSound(p)
  BY <1>1 DEF PoolSound, GroupSound, ListSound, OnePlaceEach, SameLists
<1>3. GroupSound(p)
  BY <1>1, <1>2 DEF PoolSound, GroupSound, SameLists
<1>4. TaskSound(p)
  BY DEF PoolSound, TaskSound, SameLists
<1> QED
  BY <1>3, <1>4 DEF PoolSound

LEMMA MarkKeeps ==
  ASSUME NEW s, PoolSound(s), NEW p, PoolSound(p), NEW X, NEW bypool \in BOOLEAN,
         MarkedFrom(s, p, X, bypool), NEW t \in Tasks
  PROVE  LET r == Mark(p, t, bypool)
         IN  PoolSound(r) /\ MarkedFrom(s, r, X \cup {t}, bypool)
<1> DEFINE r == Mark(p, t, bypool)
<1>1. /\ p \in GpShape /\ TaskSound(p) /\ s \in GpShape /\ TaskSound(s)
      /\ s.wpending \subseteq Tasks /\ p.wpending = s.wpending \ X
  BY DEF PoolSound, GpShape, MarkedFrom
<1>2. \A u \in Tasks : p.stat[u] = IF u \in X /\ s.stat[u] = "waiting"
                                   THEN IF u \in Handlers THEN "dispatching" ELSE "idle"
                                   ELSE s.stat[u]
  BY DEF MarkedFrom
<1>3. CASE t \in p.wpending
  <2>1. r = [p EXCEPT !.wpending = p.wpending \ {t}]
    BY <1>1, <1>3 DEF Mark, GpShape
  <2>2. p.wpending \ {t} \in SUBSET Tasks
    BY <1>1
  <2> HIDE DEF r
  <2>3. /\ r \in GpShape /\ SameLists(p, r) /\ r.dispatch_q = p.dispatch_q
        /\ r.wpending = p.wpending \ {t} /\ SameGroups(p, r)
    BY <1>1, <2>1, <2>2 DEF GpShape, SameLists, SameGroups
  <2>4. \A u \in r.wpending : p.stat[u] \in {"scheduling", "dispatching"}
    BY <1>1, <2>3 DEF TaskSound
  <2>5. PoolSound(r)
    BY <2>3, <2>4, SideKeeps
  <2>6. t \notin X /\ s.stat[t] # "waiting"
    BY <1>1, <1>3 DEF TaskSound
  <2>7. SameGroups(s, r)
    BY <2>3, SameTrans DEF MarkedFrom
  <2>8. MarkedFrom(s, r, X \cup {t}, bypool)
    <3>1. \A u \in Tasks : r.stat[u] =
            IF u \in X \cup {t} /\ s.stat[u] = "waiting"
            THEN IF u \in Handlers THEN "dispatching" ELSE "idle"
            ELSE s.stat[u]
      BY <1>2, <2>3, <2>6 DEF SameLists
    <3>2. Range(r.dispatch_q) = Range(s.dispatch_q) \cup
            {u \in (X \cup {t}) \cap Handlers : bypool /\ s.stat[u] = "waiting"}
      BY <2>3, <2>6 DEF MarkedFrom
    <3>3. r.gid = s.gid /\ r.wpending = s.wpending \ (X \cup {t})
      BY <1>1, <2>3 DEF MarkedFrom, SameLists
    <3> QED
      BY <2>7, <3>1, <3>2, <3>3 DEF MarkedFrom
  <2> QED
    BY <2>5, <2>8 DEF r
<1>4. CASE t \notin p.wpending /\ p.stat[t] = "waiting"
  <2>1. r = Removed(p, t, bypool)
    BY <1>4 DEF Mark
  <2> HIDE DEF r
  <2>2. PoolSound(r) /\ MarkedFrom(p, r, {t}, bypool)
    BY <1>4, <2>1, RemovedKeeps
  <2>3. t \notin X /\ s.stat[t] = "waiting"
    BY <1>2, <1>4
  <2>4. SameGroups(s, r)
    BY <2>2, SameTrans DEF MarkedFrom
  <2>5. \A u \in Tasks : r.stat[u] =
            IF u \in X \cup {t} /\ s.stat[u] = "waiting"
            THEN IF u \in Handlers THEN "dispatching" ELSE "idle"
            ELSE s.stat[u]
    BY <1>2, <1>4, <2>2, <2>3 DEF MarkedFrom
  <2>6. Range(r.dispatch_q) = Range(s.dispatch_q) \cup
            {u \in (X \cup {t}) \cap Handlers : bypool /\ s.stat[u] = "waiting"}
    BY <1>4, <2>2, <2>3 DEF MarkedFrom
  <2>7. r.gid = s.gid /\ r.wpending = s.wpending \ (X \cup {t})
    BY <1>1, <2>2 DEF MarkedFrom
  <2>8. MarkedFrom(s, r, X \cup {t}, bypool)
    BY <2>4, <2>5, <2>6, <2>7 DEF MarkedFrom
  <2> QED
    BY <2>2, <2>8 DEF r
<1>5. CASE t \notin p.wpending /\ p.stat[t] # "waiting"
  <2>1. r = p
    BY <1>5 DEF Mark
  <2>2. t \in X \/ s.stat[t] # "waiting"
    BY <1>2, <1>5
  <2>3. \A u \in Tasks : p.stat[u] =
            IF u \in X \cup {t} /\ s.stat[u] = "waiting"
            THEN IF u \in Handlers THEN "dispatching" ELSE "idle"
            ELSE s.stat[u]
    BY <1>2, <2>2
  <2>4. Range(p.dispatch_q) = Range(s.dispatch_q) \cup
            {u \in (X \cup {t}) \cap Handlers : bypool /\ s.stat[u] = "waiting"}
    BY <2>2 DEF MarkedFrom
  <2>5. p.wpending = s.wpending \ (X \cup {t})
    BY <1>1, <1>5
  <2> QED
    BY <2>1, <2>3, <2>4, <2>5 DEF MarkedFrom
<1> QED
  BY <1>3, <1>4, <1>5

\* A finite set as a sequence.
LEMMA SetAsSeq ==
  ASSUME NEW X, IsFiniteSet(X)
  PROVE  LET seq == SetToSeq(X)
         IN  /\ Cardinality(X) \in Nat /\ seq \in [1 .. Cardinality(X) -> X]
             /\ X = {seq[i] : i \in 1 .. Cardinality(X)}
             /\ \A i, j \in 1 .. Cardinality(X) : seq[i] = seq[j] => i = j
<1> DEFINE n == Cardinality(X)
           seq == SetToSeq(X)
           R == {seq[i] : i \in 1 .. n}
<1>1. n \in Nat
  BY FS_CardinalityType
<1>2. \E f \in [1 .. n -> X] : IsInjective(f)
  <2>1. PICK m \in Nat : ExistsBijection(1 .. m, X)
    BY FS_NatBijection
  <2>2. m = n
    BY <2>1, FS_CountingElements
  <2>3. PICK f : f \in Bijection(1 .. n, X)
    BY <2>1, <2>2 DEF ExistsBijection
  <2>4. f \in [1 .. n -> X] /\ IsInjective(f)
    BY <2>3 DEF Bijection, Injection, IsInjective
  <2> QED
    BY <2>4
<1>3. seq \in [1 .. n -> X] /\ IsInjective(seq)
  BY <1>2, Zenon DEF SetToSeq
<1> HIDE DEF seq
<1>4. \A i, j \in 1 .. n : seq[i] = seq[j] => i = j
  BY <1>3 DEF IsInjective
<1>5. seq \in Bijection(1 .. n, R)
  <2>1. seq \in [1 .. n -> R]
    BY <1>3
  <2>2. \A y \in R : \E i \in 1 .. n : seq[i] = y
    OBVIOUS
  <2> HIDE DEF R, n
  <2> QED
    BY <1>4, <2>1, <2>2, Fun_IsBij, Zenon
<1>6. R \subseteq X
  BY <1>3
<1>7. Cardinality(R) = Cardinality(X)
  <2> HIDE DEF R
  <2>1. ExistsBijection(1 .. n, R)
    BY <1>5 DEF ExistsBijection
  <2> QED
    BY <1>1, <2>1, FS_CountingElements DEF n
<1>8. R = X
  <2> HIDE DEF R
  <2> QED
    BY <1>6, <1>7, SameSize
<1> QED
  BY <1>1, <1>3, <1>4, <1>8 DEF seq

LEMMA MarkedSame ==
  ASSUME NEW s, NEW bypool
  PROVE  MarkedFrom(s, s, {}, bypool)
BY SameTrans DEF MarkedFrom

LEMMA MarkedKeeps ==
  ASSUME NEW s, PoolSound(s), NEW X \in SUBSET Tasks, NEW bypool \in BOOLEAN
  PROVE  LET p == Marked(s, X, bypool)
         IN  PoolSound(p) /\ MarkedFrom(s, p, X, bypool)
<1> DEFINE n == Cardinality(X)
           seq == SetToSeq(X)
           S == {p \in GpShape : PoolSound(p)}
           mark(p, t) == Mark(p, t, bypool)
           Is(f) == f = [z \in SUBSET (1 .. n) |->
                    IF z = {} THEN s ELSE mark(f[z \ {Max(z)}], seq[Max(z)])]
           F == CHOOSE f : Is(f)
           step == [x \in S \X (1 .. n) |-> mark(x[1], seq[x[2]])]
<1>1. /\ n \in Nat /\ seq \in [1 .. n -> X]
      /\ X = {seq[i] : i \in 1 .. n}
  <2>1. IsFiniteSet(X)
    BY FS_Subset, GpAssumption
  <2> QED
    BY <2>1, SetAsSeq
<1>2. Marked(s, X, bypool) = F[1 .. n]
  <2>1. DOMAIN seq = 1 .. n
    BY <1>1
  <2> QED
    BY <2>1, Zenon DEF Marked, FoldLeft, MapThenFoldSet
<1> HIDE DEF seq, n
<1>3. ASSUME NEW p \in S, NEW i \in 1 .. n
      PROVE  mark(p, seq[i]) \in S
  <2>1. PoolSound(p) /\ seq[i] \in Tasks
    BY <1>1
  <2>2. PoolSound(mark(p, seq[i]))
    BY <2>1, MarkedSame, MarkKeeps
  <2> QED
    BY <2>2 DEF PoolSound
<1>4. step \in [S \X (1 .. n) -> S]
  BY <1>3
<1>5. s \in S /\ \A p \in S : PoolSound(p)
  BY DEF PoolSound
<1> HIDE DEF S
<1>6. Is(F)
  <2> HIDE DEF mark
  <2>1. PICK f \in [SUBSET (1 .. n) -> S] : FoldedBy(f, n, s, step)
    <3> HIDE DEF step
    <3> QED
      BY <1>1, <1>4, <1>5, FoldExists
  <2>2. \A z \in SUBSET (1 .. n) : z # {} => Max(z) \in 1 .. n
    BY <1>1, MaxIn
  <2>3. Is(f)
    BY <2>1, <2>2 DEF FoldedBy
  <2> HIDE DEF Is
  <2> QED
    BY <2>3, Zenon
<1>7. Folds(F, n, S, s, step)
  <2> HIDE DEF F, mark
  <2>1. {} \in SUBSET (1 .. n)
    OBVIOUS
  <2>2. F[{}] = s
    BY <1>6, <2>1, Zenon
  <2>3. ASSUME NEW z \in SUBSET (1 .. n), z # {}, F[z \ {Max(z)}] \in S
        PROVE  F[z] = step[<<F[z \ {Max(z)}], Max(z)>>]
    BY <1>1, <1>6, <2>3, MaxIn
  <2> HIDE DEF step
  <2> QED
    BY <2>2, <2>3 DEF Folds
<1>8. PICK h \in [0 .. n -> S] : StepsTo(h, n, s, step, F[1 .. n])
  <2> HIDE DEF F, step
  <2> QED
    BY <1>1, <1>4, <1>5, <1>7, FoldSteps
<1> DEFINE sofar(i) == {seq[j] : j \in 1 .. i}
           P == [i \in 0 .. n |-> {p \in S : MarkedFrom(s, p, sofar(i), bypool)}]
<1>9. h[0] \in P[0]
  <2>1. h[0] = s /\ sofar(0) = {} /\ 0 \in 0 .. n
    BY <1>1, <1>8 DEF StepsTo
  <2>2. MarkedFrom(s, h[0], sofar(0), bypool)
    <3> HIDE DEF sofar
    <3> QED
      BY <2>1, MarkedSame
  <2> QED
    BY <1>5, <2>1, <2>2
<1>10. ASSUME NEW i \in 1 .. n, h[i - 1] \in P[i - 1] PROVE h[i] \in P[i]
  <2>1. i - 1 \in 0 .. n /\ i \in 0 .. n /\ seq[i] \in Tasks
    BY <1>1
  <2>2. h[i - 1] \in S /\ h[i] \in S /\ MarkedFrom(s, h[i - 1], sofar(i - 1), bypool)
    BY <1>10, <2>1
  <2>3. h[i] = mark(h[i - 1], seq[i])
    <3>1. h[i] = step[<<h[i - 1], i>>]
      BY <1>8, Zenon DEF StepsTo
    <3>2. <<h[i - 1], i>> \in S \X (1 .. n)
      BY <2>2
    <3> HIDE DEF mark
    <3> QED
      BY <3>1, <3>2
  <2>4. sofar(i) = sofar(i - 1) \cup {seq[i]}
    <3>1. 1 .. i = (1 .. (i - 1)) \cup {i}
      BY <1>1
    <3> QED
      BY <3>1
  <2> HIDE DEF sofar
  <2>5. MarkedFrom(s, h[i], sofar(i), bypool)
    BY <1>5, <2>1, <2>2, <2>3, <2>4, MarkKeeps
  <2> QED
    BY <2>1, <2>2, <2>5
<1>11. h[n] \in P[n]
  <2> HIDE DEF P
  <2> QED
    BY <1>1, <1>9, <1>10, StepInduction
<1>12. h[n] = F[1 .. n] /\ n \in 0 .. n /\ sofar(n) = X
  BY <1>1, <1>8 DEF StepsTo
<1> HIDE DEF sofar, F
<1>13. PoolSound(F[1 .. n]) /\ MarkedFrom(s, F[1 .. n], X, bypool)
  BY <1>5, <1>11, <1>12
<1> QED
  BY <1>2, <1>13

LEMMA UpdateAllEnvListed ==
  ASSUME NEW s \in GpShape
  PROVE  UpdateAllEnv(s) \in GpShape /\ Listed(s, UpdateAllEnv(s))
<1> DEFINE n == s.num
           seq == Places(n)
           S == {p \in GpShape : Listed(s, p)}
           Is(f) == f = [z \in SUBSET (1 .. n) |->
                    IF z = {} THEN s ELSE UpdateEnv(f[z \ {Max(z)}], seq[Max(z)])]
           F == CHOOSE f : Is(f)
           step == [x \in S \X (1 .. n) |-> UpdateEnv(x[1], seq[x[2]])]
<1>1. n \in Nat /\ n <= MaxNum /\ MaxNum \in Nat
  BY IdsFinite DEF GpShape
<1>2. UpdateAllEnv(s) = F[1 .. n]
  <2>1. DOMAIN seq = 1 .. n
    BY DEF Places
  <2> QED
    BY <2>1, Zenon DEF UpdateAllEnv, FoldLeft, MapThenFoldSet
<1>3. ASSUME NEW p \in S, NEW i \in 1 .. n
      PROVE  UpdateEnv(p, seq[i]) \in S
  <2>1. seq[i] \in Ids
    BY <1>1 DEF Places, Ids
  <2> DEFINE g == seq[i]
  <2> HIDE DEF g
  <2>2. /\ p.entry[g] \in EntryShape /\ g \in Ids
    BY <2>1, EntryIn DEF g
  <2>3. /\ p.entry[g].limit_paralle_tasks \in Int
        /\ p.entry[g].receive_benifits \in BOOLEAN
    BY <2>2 DEF EntryShape
  <2>4. UpdateEnv(p, g) \in GpShape /\ Listed(p, UpdateEnv(p, g))
    BY <2>2, <2>3, SetAttrListed, SameTrans DEF UpdateEnv
  <2> QED
    BY <2>4, SameTrans DEF g
<1>4. step \in [S \X (1 .. n) -> S]
  BY <1>3
<1>5. s \in S
  BY SameTrans
<1> HIDE DEF seq
<1>6. Is(F)
  <2> HIDE DEF S
  <2>1. PICK f \in [SUBSET (1 .. n) -> S] : FoldedBy(f, n, s, step)
    <3> HIDE DEF step, n
    <3> QED
      BY <1>1, <1>4, <1>5, FoldExists
  <2>2. \A z \in SUBSET (1 .. n) : z # {} => Max(z) \in 1 .. n
    BY <1>1, MaxIn
  <2>3. Is(f)
    BY <2>1, <2>2 DEF FoldedBy
  <2> HIDE DEF Is
  <2> QED
    BY <2>3, Zenon
<1>7. Folds(F, n, S, s, step)
  <2> HIDE DEF F, n, S
  <2>1. {} \in SUBSET (1 .. n)
    OBVIOUS
  <2>2. F[{}] = s
    BY <1>6, <2>1, Zenon
  <2>3. ASSUME NEW z \in SUBSET (1 .. n), z # {}, F[z \ {Max(z)}] \in S
        PROVE  F[z] = step[<<F[z \ {Max(z)}], Max(z)>>]
    BY <1>1, <1>6, <2>3, MaxIn
  <2> HIDE DEF step
  <2> QED
    BY <2>2, <2>3 DEF Folds
<1>8. F[1 .. n] \in S
  <2> HIDE DEF F, step, n, S
  <2> QED
    BY <1>1, <1>4, <1>5, <1>7, FoldEnds
<1> QED
  BY <1>2, <1>8

-----------------------------------------------------------------------------
(***************************************************************************)
(* Groups                                                                  *)
(***************************************************************************)

\* A group nobody runs has no tasks in its queue.
LEMMA EmptyQueue ==
  ASSUME NEW s, PoolSound(s), NEW g \in Ids,
         \A t \in Tasks : s.gid[t] = g => s.stat[t] # "waiting"
  PROVE  s.entry[g].queue = <<>> /\ ~Ready(s, g) /\ ~s.entry[g].active
<1>1. /\ s.entry[g].queue \in Seq(Tasks)
      /\ Range(s.entry[g].queue) = {t \in Tasks : s.stat[t] = "waiting" /\ s.gid[t] = g}
  BY EntryIn DEF PoolSound, TaskSound
<1>2. Range(s.entry[g].queue) = {}
  BY <1>1
<1>3. s.entry[g].queue = <<>>
  <2> SUFFICES ASSUME s.entry[g].queue # <<>> PROVE FALSE
    OBVIOUS
  <2>1. s.entry[g].queue[1] \in Range(s.entry[g].queue)
    BY <1>1, LenProperties, EmptySeq DEF Range
  <2> QED
    BY <1>2, <2>1
<1>4. ~Ready(s, g)
  BY <1>3 DEF Ready
<1>5. g \notin Actives(s)
  BY <1>4 DEF PoolSound, GroupSound, ReadyGroups
<1> QED
  BY <1>3, <1>4, <1>5 DEF Actives

\* A group is given other flags or numbers.
LEMMA EntrySet ==
  ASSUME NEW s, PoolSound(s), NEW g \in Ids, NEW e \in EntryShape,
         e.active = s.entry[g].active, e.queue = s.entry[g].queue,
         NEW p, p = Recount(s, g, e, s.npendings, s.effective, s.ndispatchings),
         Ready(p, g) <=> Ready(s, g), g \in First(s) => ~e.paused,
         e.used = "free" => \A t \in Tasks : s.gid[t] = g => s.stat[t] = "idle"
  PROVE  PoolSound(p) /\ SameTasks(s, p)
<1>1. s \in GpShape /\ TaskSound(s) /\ GroupSound(s) /\ ListSound(s)
  BY DEF PoolSound, GroupSound
<1>2. /\ p \in GpShape /\ p.entry[g] = e
      /\ \A h \in Ids : h # g => p.entry[h] = s.entry[h]
      /\ p.actentry = s.actentry /\ p.active_idx = s.active_idx
      /\ p.nactives_ok = s.nactives_ok /\ SameTasks(s, p) /\ p.num = s.num
  BY <1>1, EntryIn, RecountIs
<1>3. Actives(p) = Actives(s) /\ First(p) = First(s)
  BY <1>2 DEF Actives, First
<1>4. ListSound(p)
  BY <1>1, <1>2, <1>3 DEF ListSound, OnePlaceEach
<1>5. ReadyGroups(p) = ReadyGroups(s)
  <2>1. \A h \in Ids : Ready(p, h) <=> Ready(s, h)
    BY <1>2 DEF Ready
  <2> QED
    BY <2>1 DEF ReadyGroups
<1>6. \A h \in First(p) : ~p.entry[h].paused
  <2>1. First(s) \subseteq Ids
    BY <1>1, FirstIn
  <2> QED
    BY <1>1, <1>2, <1>3, <2>1 DEF GroupSound
<1>7. GroupSound(p)
  BY <1>1, <1>3, <1>4, <1>5, <1>6 DEF GroupSound
<1>8. TaskSound(p)
  <2>1. \A h \in Ids : p.entry[h].queue = s.entry[h].queue
    BY <1>2
  <2>2. \A t \in Tasks : p.stat[t] # "idle" =>
            p.gid[t] < p.num /\ p.entry[p.gid[t]].used # "free"
    <3>1. \A t \in Tasks : s.gid[t] \in Ids
      BY <1>1 DEF GpShape
    <3> QED
      BY <1>1, <1>2, <3>1 DEF TaskSound, SameTasks
  <2> QED
    BY <1>1, <1>2, <2>1, <2>2 DEF TaskSound, SameTasks
<1> QED
  BY <1>2, <1>7, <1>8 DEF PoolSound

Paused(s, g, b) == [s EXCEPT !.entry[g].paused = b]

LEMMA PausedIs ==
  ASSUME NEW s \in GpShape, NEW g \in Ids, NEW b \in BOOLEAN
  PROVE  LET p == Paused(s, g, b)
             e == [s.entry[g] EXCEPT !.paused = b]
         IN  /\ p = Recount(s, g, e, s.npendings, s.effective, s.ndispatchings)
             /\ e \in EntryShape /\ e.active = s.entry[g].active
             /\ e.queue = s.entry[g].queue /\ e.used = s.entry[g].used /\ e.paused = b
             /\ p \in GpShape /\ p.entry[g] = e
             /\ \A h \in Ids : h # g => p.entry[h] = s.entry[h]
             /\ p.actentry = s.actentry /\ p.active_idx = s.active_idx
             /\ p.nactives_ok = s.nactives_ok /\ SameTasks(s, p)
             /\ SameGroups(s, p)
<1> DEFINE p == Paused(s, g, b)
           e == [s.entry[g] EXCEPT !.paused = b]
<1>1. p = Recount(s, g, e, s.npendings, s.effective, s.ndispatchings)
  BY DEF Paused, GpShape, Recount
<1>2. /\ e \in EntryShape /\ e.active = s.entry[g].active
      /\ e.queue = s.entry[g].queue /\ e.used = s.entry[g].used /\ e.paused = b
      /\ e.throttle = s.entry[g].throttle
  BY EntryIn DEF EntryShape
<1> HIDE DEF p, e
<1>3. /\ p \in GpShape /\ p.entry[g] = e
      /\ \A h \in Ids : h # g => p.entry[h] = s.entry[h]
      /\ p.actentry = s.actentry /\ p.active_idx = s.active_idx
      /\ p.nactives_ok = s.nactives_ok /\ SameTasks(s, p) /\ p.num = s.num
      /\ p.paused = s.paused /\ p.destroying = s.destroying
      /\ p.throttle_on = s.throttle_on
  BY <1>1, <1>2, EntryIn, RecountIs
<1>4. SameGroups(s, p)
  BY <1>2, <1>3 DEF SameGroups
<1> QED
  BY <1>1, <1>2, <1>3, <1>4 DEF p, e

LEMMA SuspendedKeeps ==
  ASSUME NEW s, PoolSound(s), NEW g \in Ids, IsValid(s, g)
  PROVE  LET p == SuspendedGroup(s, g)
         IN  PoolSound(p) /\ SameTasks(s, p) /\ SameGroups(s, p)
<1> DEFINE p == SuspendedGroup(s, g)
           e == s.entry[g]
           off == Paused(s, g, TRUE)
<1>1. /\ s \in GpShape /\ TaskSound(s) /\ GroupSound(s) /\ ListSound(s)
      /\ e.queue \in Seq(Tasks) /\ Num(e) \in Int /\ Share(e) \in Int
  BY EntryIn DEF PoolSound, GroupSound
<1>2. p = IF e.paused THEN s
          ELSE IF e.queue = <<>>
          THEN IF s.active_idx # s.nactives_ok THEN Shrink(off) ELSE off
          ELSE [Inactivate(off, g) EXCEPT
                    !.npendings = @ - Num(e), !.effective = @ - Share(e),
                    !.entry[g].npendings_eff = IF e.receive_benifits THEN @ ELSE 0]
  BY DEF SuspendedGroup, Paused
<1>3. /\ off \in GpShape /\ off.entry[g].paused = TRUE
      /\ off.entry[g].active = e.active /\ off.entry[g].queue = e.queue
      /\ \A h \in Ids : h # g => off.entry[h] = s.entry[h]
      /\ off.actentry = s.actentry /\ off.active_idx = s.active_idx
      /\ off.nactives_ok = s.nactives_ok /\ SameTasks(s, off) /\ SameGroups(s, off)
      /\ \A h \in Ids : off.entry[h].queue = s.entry[h].queue
      /\ \A h \in Ids : off.entry[h].active = s.entry[h].active
      /\ \A h \in Ids : off.entry[h].used = s.entry[h].used
  <2> DEFINE f == [s.entry[g] EXCEPT !.paused = TRUE]
  <2>1. /\ f.active = e.active /\ f.queue = e.queue /\ f.used = e.used /\ f.paused = TRUE
        /\ off \in GpShape /\ off.entry[g] = f
        /\ \A h \in Ids : h # g => off.entry[h] = s.entry[h]
        /\ off.actentry = s.actentry /\ off.active_idx = s.active_idx
        /\ off.nactives_ok = s.nactives_ok /\ SameTasks(s, off) /\ SameGroups(s, off)
    BY <1>1, PausedIs
  <2> HIDE DEF f, off
  <2>2. \A h \in Ids : /\ off.entry[h].queue = s.entry[h].queue
                       /\ off.entry[h].active = s.entry[h].active
                       /\ off.entry[h].used = s.entry[h].used
    BY <2>1
  <2> QED
    BY <2>1, <2>2
<1> HIDE DEF off, p, e
<1>4. Actives(off) = Actives(s) /\ First(off) = First(s) /\ ListSound(off) /\ TaskSound(off)
  <2>1. Actives(off) = Actives(s) /\ First(off) = First(s)
    BY <1>3 DEF Actives, First
  <2>2. ListSound(off)
    BY <1>1, <1>3, <2>1 DEF ListSound, OnePlaceEach
  <2>3. TaskSound(off)
    <3>1. \A t \in Tasks : s.gid[t] \in Ids
      BY <1>1 DEF GpShape
    <3>2. \A t \in Tasks : off.stat[t] # "idle" =>
            off.gid[t] < off.num /\ off.entry[off.gid[t]].used # "free"
      BY <1>1, <1>3, <3>1 DEF TaskSound, SameTasks, SameGroups
    <3> QED
      BY <1>1, <1>3, <3>2 DEF TaskSound, SameTasks
  <2> QED
    BY <2>1, <2>2, <2>3
<1>5. ReadyGroups(off) = Actives(s) \ {g}
  <2>1. ~Ready(off, g)
    BY <1>3 DEF Ready
  <2>2. \A h \in Ids : h # g => (Ready(off, h) <=> Ready(s, h))
    BY <1>3 DEF Ready, SameGroups
  <2> QED
    BY <1>1, <2>1, <2>2 DEF ReadyGroups, GroupSound
<1>6. ASSUME NEW q \in GpShape, ListSound(q), Alike(off, q), Actives(q) = Actives(s) \ {g},
             First(q) = Actives(q)
      PROVE  PoolSound(q) /\ SameTasks(s, q) /\ SameGroups(s, q)
  <2>1. ReadyGroups(q) = ReadyGroups(off) /\ SameTasks(off, q) /\ SameGroups(off, q)
        /\ TaskSound(q)
    BY <1>3, <1>4, <1>6, AlikeSame, AlikeTasks
  <2>2. Actives(q) = ReadyGroups(q)
    BY <1>5, <1>6, <2>1
  <2>3. \A h \in First(q) : ~q.entry[h].paused
    BY <1>6, <2>2 DEF ReadyGroups, Ready
  <2> QED
    BY <1>3, <1>6, <2>1, <2>2, <2>3, SameTrans DEF PoolSound, GroupSound
<1>7. CASE e.paused
  BY <1>2, <1>7, SameTrans DEF p
<1>8. CASE ~e.paused /\ e.queue = <<>>
  <2>1. g \notin Actives(s)
    BY <1>1, <1>8 DEF GroupSound, ReadyGroups, Ready, e
  <2>2. CASE s.active_idx # s.nactives_ok
    <3>1. p = Shrink(off)
      BY <1>2, <1>8, <2>2
    <3>2. /\ p \in GpShape /\ ListSound(p) /\ Alike(off, p)
          /\ Actives(p) = Actives(off) /\ First(p) = Actives(off)
      BY <1>3, <1>4, <3>1, ShrinkKeeps
    <3> QED
      BY <1>4, <1>6, <2>1, <3>2 DEF p
  <2>3. CASE s.active_idx = s.nactives_ok
    <3>1. p = off
      BY <1>2, <1>8, <2>3
    <3>2. First(s) = Actives(s)
      <4>1. /\ First(s) \subseteq Ids /\ IsFiniteSet(First(s))
            /\ Cardinality(First(s)) = s.active_idx
        BY <1>1, FirstCounted DEF First, ListSound
      <4> QED
        BY <1>1, <2>3, <4>1, SameSize DEF ListSound
    <3> QED
      BY <1>3, <1>4, <1>6, <2>1, <3>1, <3>2, SameTrans DEF p
  <2> QED
    BY <2>2, <2>3
<1>9. CASE ~e.paused /\ e.queue # <<>>
  <2> DEFINE q == Inactivate(off, g)
             n == q.npendings - Num(e)
             eff == q.effective - Share(e)
             w == IF e.receive_benifits THEN q.entry[g].npendings_eff ELSE 0
             f == [q.entry[g] EXCEPT !.npendings_eff = w]
  <2>1. g \in Actives(s)
    BY <1>1, <1>9 DEF GroupSound, ReadyGroups, Ready, IsValid, e
  <2>2. /\ q \in GpShape /\ ListSound(q) /\ Alike(off, q)
        /\ Actives(q) = Actives(off) \ {g} /\ First(q) = Actives(q)
    <3>1. off.entry[g].active
      BY <1>3, <2>1 DEF Actives, e
    <3> QED
      BY <1>3, <1>4, <3>1, InactivateKeeps
  <2>3. PoolSound(q) /\ SameTasks(s, q) /\ SameGroups(s, q)
    BY <1>4, <1>6, <2>2
  <2>4. p = [q EXCEPT !.npendings = @ - Num(e), !.effective = @ - Share(e),
                      !.entry[g].npendings_eff = IF e.receive_benifits THEN @ ELSE 0]
    BY <1>2, <1>9
  <2> HIDE DEF q
  <2>5. p = [q EXCEPT !.npendings = n, !.effective = eff,
                      !.entry = [q.entry EXCEPT ![g] = f]]
    BY <2>2, <2>4 DEF GpShape
  <2>6. /\ n \in Int /\ eff \in Int /\ w \in Int /\ q.entry[g] \in EntryShape
    BY <1>1, <2>2, EntryIn
  <2> HIDE DEF n, eff, w
  <2>7. f \in EntryShape /\ LikeEntry(q.entry[g], f)
    BY <2>6 DEF EntryShape, LikeEntry
  <2> HIDE DEF f
  <2>8. p = Recount(q, g, f, n, eff, q.ndispatchings)
    BY <2>2, <2>5 DEF GpShape, Recount
  <2>9. p \in GpShape /\ Listed(q, p)
    BY <2>2, <2>6, <2>7, <2>8, EntryIn, RecountIs
  <2>10. PoolSound(p) /\ SameTasks(q, p) /\ SameGroups(q, p)
    BY <2>3, <2>9, ListedKeeps
  <2> QED
    BY <2>3, <2>10, SameTrans DEF p
<1> QED
  BY <1>7, <1>8, <1>9

LEMMA ResumedKeeps ==
  ASSUME NEW s, PoolSound(s), NEW g \in Ids, IsValid(s, g)
  PROVE  LET p == ResumedGroup(s, g)
         IN  PoolSound(p) /\ SameTasks(s, p) /\ SameGroups(s, p)
<1> DEFINE p == ResumedGroup(s, g)
           e == s.entry[g]
           on == Paused(s, g, FALSE)
           more == [on EXCEPT !.npendings = @ + Num(e)]
<1>1. /\ s \in GpShape /\ TaskSound(s) /\ GroupSound(s) /\ ListSound(s)
      /\ e.queue \in Seq(Tasks) /\ Num(e) \in Int
  BY EntryIn DEF PoolSound, GroupSound
<1>2. p = IF ~e.paused \/ e.queue = <<>> THEN on
          ELSE Activate(CountedAgain(more, g), g)
  BY DEF ResumedGroup, Paused
<1> DEFINE f == [s.entry[g] EXCEPT !.paused = FALSE]
<1>3. /\ on = Recount(s, g, f, s.npendings, s.effective, s.ndispatchings)
      /\ f \in EntryShape /\ f.active = e.active /\ f.queue = e.queue
      /\ f.used = e.used /\ f.paused = FALSE
      /\ on \in GpShape /\ on.entry[g] = f
      /\ \A h \in Ids : h # g => on.entry[h] = s.entry[h]
      /\ on.actentry = s.actentry /\ on.active_idx = s.active_idx
      /\ on.nactives_ok = s.nactives_ok /\ SameTasks(s, on) /\ SameGroups(s, on)
  BY <1>1, PausedIs
<1>4. more \in GpShape /\ Listed(on, more)
  <2> HIDE DEF on, e
  <2>1. on.npendings + Num(e) \in Int
    <3>1. on.npendings \in Int
      BY <1>3 DEF GpShape
    <3> QED
      BY <1>1, <3>1
  <2> QED
    BY <1>3, <2>1 DEF GpShape, Listed, Alike
<1> HIDE DEF p, on, e, f, more
<1>5. CASE ~e.paused \/ e.queue = <<>>
  <2>1. p = on
    BY <1>2, <1>5
  <2>2. Ready(on, g) <=> Ready(s, g)
    BY <1>3, <1>5 DEF Ready, SameGroups, e
  <2>3. g \in First(s) => ~f.paused
    BY <1>3
  <2>4. f.used # "free"
    BY <1>3 DEF IsValid, e
  <2>5. PoolSound(on)
    BY <1>3, <2>2, <2>3, <2>4, EntrySet DEF e
  <2> QED
    BY <1>3, <2>1, <2>5 DEF p
<1>6. CASE e.paused /\ e.queue # <<>>
  <2> DEFINE w == CountedAgain(more, g)
  <2>1. p = Activate(w, g)
    BY <1>2, <1>6
  <2>2. w \in GpShape /\ Listed(on, w)
    BY <1>4, CountedAgainListed, SameTrans
  <2> HIDE DEF w
  <2>3. /\ Actives(on) = Actives(s) /\ First(on) = First(s) /\ ListSound(on)
        /\ TaskSound(on)
    <3>1. Actives(on) = Actives(s) /\ First(on) = First(s)
      BY <1>3 DEF Actives, First, e
    <3>2. ListSound(on)
      BY <1>1, <1>3, <3>1 DEF ListSound, OnePlaceEach
    <3>3. \A h \in Ids : on.entry[h].queue = s.entry[h].queue
      BY <1>3 DEF e
    <3>4. \A t \in Tasks : on.stat[t] # "idle" =>
            on.gid[t] < on.num /\ on.entry[on.gid[t]].used # "free"
      <4>1. \A t \in Tasks : s.gid[t] \in Ids
        BY <1>1 DEF GpShape
      <4> QED
        BY <1>1, <1>3, <4>1 DEF TaskSound, SameTasks, SameGroups
    <3>5. TaskSound(on)
      BY <1>1, <1>3, <3>3, <3>4 DEF TaskSound, SameTasks
    <3> QED
      BY <3>1, <3>2, <3>5
  <2>4. /\ ListSound(w) /\ Actives(w) = Actives(s) /\ First(w) = First(s)
        /\ Alike(on, w)
    BY <2>2, <2>3, ListedSound DEF Listed
  <2>5. g \notin Actives(s)
    BY <1>1, <1>6 DEF GroupSound, ReadyGroups, Ready, e
  <2>6. /\ p \in GpShape /\ ListSound(p) /\ Alike(w, p)
        /\ Actives(p) = Actives(w) \cup {g}
        /\ First(p) \subseteq First(w) \cup {g}
    <3>1. ~w.entry[g].active
      BY <2>4, <2>5 DEF Actives
    <3> QED
      BY <2>1, <2>2, <2>4, <3>1, ActivateKeeps
  <2>7. Alike(on, p)
    BY <2>4, <2>6, SameTrans
  <2>8. /\ ReadyGroups(p) = ReadyGroups(on) /\ SameTasks(s, p) /\ SameGroups(s, p)
        /\ TaskSound(p)
    BY <1>3, <2>3, <2>7, AlikeSame, AlikeTasks, SameTrans
  <2>9. ReadyGroups(on) = Actives(s) \cup {g}
    <3>1. Ready(on, g)
      BY <1>3, <1>6 DEF Ready, IsValid, SameGroups, e
    <3>2. \A h \in Ids : h # g => (Ready(on, h) <=> Ready(s, h))
      BY <1>3 DEF Ready, SameGroups
    <3> QED
      BY <1>1, <3>1, <3>2 DEF ReadyGroups, GroupSound
  <2>10. \A h \in First(p) : ~p.entry[h].paused
    <3>1. First(s) \subseteq Ids
      BY <1>1, FirstIn
    <3>2. \A h \in First(s) \cup {g} : ~on.entry[h].paused
      BY <1>1, <1>3, <3>1 DEF GroupSound
    <3> QED
      BY <2>4, <2>6, <2>7, <3>1, <3>2 DEF Alike
  <2> QED
    BY <2>4, <2>6, <2>8, <2>9, <2>10 DEF PoolSound, GroupSound, p
<1> QED
  BY <1>5, <1>6

LEMMA SuspendedAllKeeps ==
  ASSUME NEW s, PoolSound(s)
  PROVE  LET p == SuspendedAll(s)
         IN  PoolSound(p) /\ SameTasks(s, p) /\ SameGroups(s, p)
<1> DEFINE n == s.num
           seq == Places(n)
           S == {p \in GpShape : PoolSound(p) /\ SameTasks(s, p) /\ SameGroups(s, p)}
           turn(p, g) == IF IsValid(p, g) THEN SuspendedGroup(p, g) ELSE p
           Is(f) == f = [z \in SUBSET (1 .. n) |->
                    IF z = {} THEN s ELSE turn(f[z \ {Max(z)}], seq[Max(z)])]
           F == CHOOSE f : Is(f)
           step == [x \in S \X (1 .. n) |-> turn(x[1], seq[x[2]])]
<1>1. n \in Nat /\ n <= MaxNum /\ MaxNum \in Nat
  BY IdsFinite DEF PoolSound, GpShape
<1>2. SuspendedAll(s) = F[1 .. n]
  <2>1. DOMAIN seq = 1 .. n
    BY DEF Places
  <2> QED
    BY <2>1, Zenon DEF SuspendedAll, FoldLeft, MapThenFoldSet
<1>3. ASSUME NEW p \in S, NEW i \in 1 .. n
      PROVE  turn(p, seq[i]) \in S
  <2>1. seq[i] \in Ids
    BY <1>1 DEF Places, Ids
  <2> DEFINE g == seq[i]
             q == turn(p, g)
  <2> HIDE DEF g
  <2>2. PoolSound(q) /\ SameTasks(p, q) /\ SameGroups(p, q)
    BY <2>1, SuspendedKeeps, SameTrans DEF g
  <2> HIDE DEF q
  <2>3. q \in GpShape /\ SameTasks(s, q) /\ SameGroups(s, q)
    BY <2>2, SameTrans DEF PoolSound
  <2> QED
    BY <2>2, <2>3 DEF q, g
<1>4. step \in [S \X (1 .. n) -> S]
  BY <1>3
<1>5. s \in S
  BY SameTrans DEF PoolSound
<1> HIDE DEF seq
<1>6. Is(F)
  <2> HIDE DEF S, turn
  <2>1. PICK f \in [SUBSET (1 .. n) -> S] : FoldedBy(f, n, s, step)
    <3> HIDE DEF step, n
    <3> QED
      BY <1>1, <1>4, <1>5, FoldExists
  <2>2. \A z \in SUBSET (1 .. n) : z # {} => Max(z) \in 1 .. n
    BY <1>1, MaxIn
  <2>3. Is(f)
    BY <2>1, <2>2 DEF FoldedBy
  <2> HIDE DEF Is
  <2> QED
    BY <2>3, Zenon
<1>7. Folds(F, n, S, s, step)
  <2> HIDE DEF F, n, S, turn
  <2>1. {} \in SUBSET (1 .. n)
    OBVIOUS
  <2>2. F[{}] = s
    BY <1>6, <2>1, Zenon
  <2>3. ASSUME NEW z \in SUBSET (1 .. n), z # {}, F[z \ {Max(z)}] \in S
        PROVE  F[z] = step[<<F[z \ {Max(z)}], Max(z)>>]
    BY <1>1, <1>6, <2>3, MaxIn
  <2> HIDE DEF step
  <2> QED
    BY <2>2, <2>3 DEF Folds
<1>8. F[1 .. n] \in S
  <2> HIDE DEF F, step, n, S
  <2> QED
    BY <1>1, <1>4, <1>5, <1>7, FoldEnds
<1> QED
  BY <1>2, <1>8

LEMMA ResumedAllKeeps ==
  ASSUME NEW s, PoolSound(s)
  PROVE  LET p == ResumedAll(s)
         IN  PoolSound(p) /\ SameTasks(s, p) /\ SameGroups(s, p)
<1> DEFINE n == s.num
           seq == Places(n)
           S == {p \in GpShape : PoolSound(p) /\ SameTasks(s, p) /\ SameGroups(s, p)}
           turn(p, g) == IF IsValid(p, g) THEN ResumedGroup(p, g) ELSE p
           Is(f) == f = [z \in SUBSET (1 .. n) |->
                    IF z = {} THEN s ELSE turn(f[z \ {Max(z)}], seq[Max(z)])]
           F == CHOOSE f : Is(f)
           step == [x \in S \X (1 .. n) |-> turn(x[1], seq[x[2]])]
<1>1. n \in Nat /\ n <= MaxNum /\ MaxNum \in Nat
  BY IdsFinite DEF PoolSound, GpShape
<1>2. ResumedAll(s) = F[1 .. n]
  <2>1. DOMAIN seq = 1 .. n
    BY DEF Places
  <2> QED
    BY <2>1, Zenon DEF ResumedAll, FoldLeft, MapThenFoldSet
<1>3. ASSUME NEW p \in S, NEW i \in 1 .. n
      PROVE  turn(p, seq[i]) \in S
  <2>1. seq[i] \in Ids
    BY <1>1 DEF Places, Ids
  <2> DEFINE g == seq[i]
             q == turn(p, g)
  <2> HIDE DEF g
  <2>2. PoolSound(q) /\ SameTasks(p, q) /\ SameGroups(p, q)
    BY <2>1, ResumedKeeps, SameTrans DEF g
  <2> HIDE DEF q
  <2>3. q \in GpShape /\ SameTasks(s, q) /\ SameGroups(s, q)
    BY <2>2, SameTrans DEF PoolSound
  <2> QED
    BY <2>2, <2>3 DEF q, g
<1>4. step \in [S \X (1 .. n) -> S]
  BY <1>3
<1>5. s \in S
  BY SameTrans DEF PoolSound
<1> HIDE DEF seq
<1>6. Is(F)
  <2> HIDE DEF S, turn
  <2>1. PICK f \in [SUBSET (1 .. n) -> S] : FoldedBy(f, n, s, step)
    <3> HIDE DEF step, n
    <3> QED
      BY <1>1, <1>4, <1>5, FoldExists
  <2>2. \A z \in SUBSET (1 .. n) : z # {} => Max(z) \in 1 .. n
    BY <1>1, MaxIn
  <2>3. Is(f)
    BY <2>1, <2>2 DEF FoldedBy
  <2> HIDE DEF Is
  <2> QED
    BY <2>3, Zenon
<1>7. Folds(F, n, S, s, step)
  <2> HIDE DEF F, n, S, turn
  <2>1. {} \in SUBSET (1 .. n)
    OBVIOUS
  <2>2. F[{}] = s
    BY <1>6, <2>1, Zenon
  <2>3. ASSUME NEW z \in SUBSET (1 .. n), z # {}, F[z \ {Max(z)}] \in S
        PROVE  F[z] = step[<<F[z \ {Max(z)}], Max(z)>>]
    BY <1>1, <1>6, <2>3, MaxIn
  <2> HIDE DEF step
  <2> QED
    BY <2>2, <2>3 DEF Folds
<1>8. F[1 .. n] \in S
  <2> HIDE DEF F, step, n, S
  <2> QED
    BY <1>1, <1>4, <1>5, <1>7, FoldEnds
<1> QED
  BY <1>2, <1>8

\* The table has more places; nothing else changes.
LEMMA GrownKeeps ==
  ASSUME NEW s, PoolSound(s), Grown(s).num <= MaxNum
  PROVE  LET p == Grown(s)
         IN  /\ PoolSound(p) /\ SameTasks(s, p) /\ p.entry = s.entry
             /\ p.destroying = s.destroying /\ p.throttle_on = s.throttle_on
<1> DEFINE p == Grown(s)
           r == [s EXCEPT !.num = s.num + Inc]
<1>1. /\ s \in GpShape /\ TaskSound(s) /\ GroupSound(s) /\ ListSound(s)
      /\ s.num \in Nat /\ s.num <= MaxNum
  BY IdsFinite DEF PoolSound, GroupSound, GpShape
<1>2. MaxNum \in Nat /\ Inc \in Nat /\ Inc > 0
  BY GpAssumption
<1>3. p = s \/ (p = r /\ r.num <= MaxNum)
  BY <1>1 DEF Grown, GpShape
<1>4. ASSUME r.num <= MaxNum
      PROVE  /\ PoolSound(r) /\ SameTasks(s, r) /\ r.entry = s.entry
             /\ r.destroying = s.destroying /\ r.throttle_on = s.throttle_on
  <2>1. r.num = s.num + Inc
    BY <1>1 DEF GpShape
  <2>2. r.num \in 0 .. MaxNum
    BY <1>1, <1>2, <1>4, <2>1
  <2> DEFINE n == s.num + Inc
  <2> HIDE DEF n
  <2>3. /\ r \in GpShape /\ r.entry = s.entry /\ r.actentry = s.actentry
        /\ r.active_idx = s.active_idx /\ r.nactives_ok = s.nactives_ok
        /\ SameTasks(s, r) /\ r.destroying = s.destroying
        /\ r.throttle_on = s.throttle_on
    BY <1>1, <2>1, <2>2 DEF GpShape, SameTasks, n
  <2> HIDE DEF r
  <2>4. Actives(r) = Actives(s) /\ First(r) = First(s)
    BY <2>3 DEF Actives, First
  <2>5. ListSound(r)
    BY <1>1, <2>3, <2>4 DEF ListSound, OnePlaceEach
  <2>6. ReadyGroups(r) = ReadyGroups(s)
    <3>1. ASSUME NEW g \in Ids, ~(g < s.num)
          PROVE  ~Ready(s, g) /\ s.entry[g].queue = <<>>
      <4>1. \A t \in Tasks : s.gid[t] = g => s.stat[t] # "waiting"
        BY <1>1, <3>1 DEF TaskSound
      <4> QED
        BY <4>1, EmptyQueue
    <3>2. ASSUME NEW g \in Ids, g < s.num
          PROVE  g < r.num
      <4>1. g \in Int
        BY IdsFinite
      <4> QED
        BY <1>1, <1>2, <2>1, <3>2, <4>1 DEF r
    <3>3. \A g \in Ids : Ready(r, g) <=> Ready(s, g)
      BY <2>3, <3>1, <3>2 DEF Ready
    <3> QED
      BY <3>3 DEF ReadyGroups
  <2>7. GroupSound(r)
    BY <1>1, <2>3, <2>4, <2>5, <2>6 DEF GroupSound
  <2>8. TaskSound(r)
    <3>1. ASSUME NEW t \in Tasks, s.stat[t] # "idle"
          PROVE  s.gid[t] < r.num /\ s.entry[s.gid[t]].used # "free"
      <4>1. /\ s.gid[t] < s.num /\ s.entry[s.gid[t]].used # "free"
            /\ s.gid[t] \in Ids
        BY <1>1, <3>1 DEF TaskSound, GpShape
      <4>2. s.gid[t] \in Int
        BY <4>1, IdsFinite
      <4> QED
        BY <1>1, <1>2, <2>1, <4>1, <4>2 DEF r
    <3> QED
      BY <1>1, <2>3, <3>1 DEF TaskSound, SameTasks
  <2> QED
    BY <2>3, <2>7, <2>8 DEF PoolSound
<1> HIDE DEF p, r
<1>5. /\ PoolSound(p) /\ SameTasks(s, p) /\ p.entry = s.entry
      /\ p.destroying = s.destroying /\ p.throttle_on = s.throttle_on
  BY <1>3, <1>4, SameTrans
<1> QED
  BY <1>5 DEF p

LEMMA CreatedKeeps ==
  ASSUME NEW s, PoolSound(s), NEW g \in Free(s)
  PROVE  LET p == Created(s, g, FALSE)
         IN  g \in Ids /\ PoolSound(p) /\ SameTasks(s, p) /\ SameOthers(s, p, g)
<1> DEFINE e == [s.entry[g] EXCEPT !.used = "valid", !.paused = FALSE]
           r == [s EXCEPT !.entry[g].used = "valid", !.entry[g].paused = FALSE]
           p == Created(s, g, FALSE)
<1>1. s \in GpShape /\ TaskSound(s) /\ g \in Ids /\ s.entry[g].used = "free"
  <2>1. s \in GpShape /\ TaskSound(s)
    BY DEF PoolSound
  <2>2. g \in 0 .. (s.num - 1) /\ s.entry[g].used = "free"
    BY DEF Free
  <2>3. s.num \in 0 .. MaxNum /\ MaxNum \in Nat
    BY <2>1, IdsFinite DEF GpShape
  <2>4. g \in Ids
    BY <2>2, <2>3 DEF Ids
  <2> QED
    BY <2>1, <2>2, <2>4
<1>2. r = Recount(s, g, e, s.npendings, s.effective, s.ndispatchings)
  BY <1>1 DEF GpShape, Recount
<1>3. p = SetAttr(r, g, r.maxthreads, TRUE)
  BY <1>1 DEF Created, GpShape
<1>4. /\ e \in EntryShape /\ e.active = s.entry[g].active
      /\ e.queue = s.entry[g].queue /\ e.paused = FALSE /\ e.used = "valid"
  <2>1. s.entry[g] \in EntryShape
    BY <1>1, EntryIn
  <2> QED
    BY <2>1 DEF EntryShape
<1> HIDE DEF e, r, p
<1>5. s.entry[g].queue = <<>> /\ ~Ready(s, g)
  <2>1. \A t \in Tasks : s.gid[t] = g => s.stat[t] # "waiting"
    BY <1>1 DEF TaskSound
  <2> QED
    BY <1>1, <2>1, EmptyQueue
<1>6. r \in GpShape /\ r.entry[g] = e /\ SameOthers(s, r, g)
  BY <1>1, <1>2, <1>4, RecountOthers
<1>7. PoolSound(r) /\ SameTasks(s, r)
  <2>1. ~Ready(r, g)
    BY <1>4, <1>5, <1>6 DEF Ready
  <2> QED
    BY <1>1, <1>2, <1>4, <1>5, <2>1, EntrySet
<1>8. r.maxthreads \in Int
  <2>1. r.maxthreads \in MaxThreads
    BY <1>6 DEF GpShape
  <2>2. \A x \in MaxThreads : x \in Int
    BY GpAssumption
  <2> QED
    BY <2>1, <2>2, Zenon
<1>9. p \in GpShape /\ Listed(r, p)
  BY <1>1, <1>3, <1>6, <1>8, SetAttrListed
<1>10. PoolSound(p) /\ SameTasks(r, p) /\ SameGroups(r, p)
  BY <1>7, <1>9, ListedKeeps
<1>11. SameOthers(s, p, g)
  BY <1>6, <1>10 DEF SameOthers, SameGroups
<1> QED
  BY <1>1, <1>7, <1>10, <1>11, SameTrans DEF p

\* A group is being deleted ...
Deleting(s, g) == [s EXCEPT !.entry[g].used = "destroying"]

LEMMA DeletingKeeps ==
  ASSUME NEW s, PoolSound(s), NEW g \in Ids, IsValid(s, g)
  PROVE  LET p == Deleting(s, g)
         IN  /\ PoolSound(p) /\ SameTasks(s, p) /\ SameOthers(s, p, g)
             /\ p.entry[g].used = "destroying"
             /\ p.entry[g].throttle = s.entry[g].throttle
<1> DEFINE e == [s.entry[g] EXCEPT !.used = "destroying"]
           p == Deleting(s, g)
<1>1. s \in GpShape /\ GroupSound(s)
  BY DEF PoolSound
<1>2. p = Recount(s, g, e, s.npendings, s.effective, s.ndispatchings)
  BY <1>1 DEF GpShape, Recount, Deleting
<1>3. /\ e \in EntryShape /\ e.active = s.entry[g].active
      /\ e.queue = s.entry[g].queue /\ e.paused = s.entry[g].paused
      /\ e.used = "destroying" /\ e.throttle = s.entry[g].throttle
  <2>1. s.entry[g] \in EntryShape
    BY <1>1, EntryIn
  <2> QED
    BY <2>1 DEF EntryShape
<1> HIDE DEF e, p
<1>4. p \in GpShape /\ p.entry[g] = e /\ p.num = s.num /\ SameOthers(s, p, g)
  BY <1>1, <1>2, <1>3, RecountOthers
<1>5. Ready(p, g) <=> Ready(s, g)
  BY <1>3, <1>4 DEF Ready, IsValid
<1>6. g \in First(s) => ~e.paused
  BY <1>1, <1>3 DEF GroupSound
<1>7. PoolSound(p) /\ SameTasks(s, p)
  BY <1>2, <1>3, <1>5, <1>6, EntrySet
<1> QED
  BY <1>3, <1>4, <1>7 DEF p

\* ... and is free.
Freed(s, g) ==
    [s EXCEPT !.entry[g].used = "free", !.entry[g].throttle = FALSE,
              !.entry[g].active = FALSE]

LEMMA FreedKeeps ==
  ASSUME NEW s, PoolSound(s), NEW g \in Ids, Traced(s, g) = {}
  PROVE  LET p == Freed(s, g)
         IN  PoolSound(p) /\ SameTasks(s, p) /\ SameOthers(s, p, g)
<1> DEFINE e == [s.entry[g] EXCEPT !.used = "free", !.throttle = FALSE, !.active = FALSE]
           p == Freed(s, g)
<1>1. s \in GpShape /\ GroupSound(s)
  BY DEF PoolSound
<1>2. p = Recount(s, g, e, s.npendings, s.effective, s.ndispatchings)
  BY <1>1 DEF GpShape, Recount, Freed
<1>3. \A t \in Tasks : s.gid[t] = g => s.stat[t] = "idle"
  BY DEF Traced, OfGroup
<1>4. s.entry[g].queue = <<>> /\ ~Ready(s, g) /\ ~s.entry[g].active
  BY <1>3, EmptyQueue
<1>5. /\ e \in EntryShape /\ e.active = s.entry[g].active
      /\ e.queue = s.entry[g].queue /\ e.paused = s.entry[g].paused
      /\ e.used = "free"
  <2>1. s.entry[g] \in EntryShape
    BY <1>1, EntryIn
  <2> QED
    BY <1>4, <2>1 DEF EntryShape
<1> HIDE DEF e, p
<1>6. p \in GpShape /\ p.entry[g] = e /\ SameOthers(s, p, g)
  BY <1>1, <1>2, <1>5, RecountOthers
<1>7. ~Ready(p, g)
  BY <1>5, <1>6 DEF Ready
<1>8. g \in First(s) => ~e.paused
  BY <1>1, <1>5 DEF GroupSound
<1>9. PoolSound(p) /\ SameTasks(s, p)
  BY <1>2, <1>3, <1>4, <1>5, <1>7, <1>8, EntrySet
<1> QED
  BY <1>6, <1>9 DEF p

-----------------------------------------------------------------------------
(***************************************************************************)
(* What threads and users have in hand                                     *)
(***************************************************************************)

LEMMA SameHeld ==
  ASSUME NEW s, NEW h, Held(s, h), NEW p, PoolSound(p), SameTasks(s, p)
  PROVE  Held(p, h)
BY DEF Held, HandSound, SameTasks

LEMMA LiveIn ==
  ASSUME NEW s, NEW h \in [Runners -> RunType], HandSound(s, h), NEW x \in Runners
  PROVE  Live(h[x]) \subseteq Tasks
<1>1. h[x].q \in Seq(Tasks)
  BY DEF RunType
<1>2. Range(h[x].q) \subseteq Tasks
  BY <1>1, LenProperties, ElementOfSeq DEF Range
<1>3. h[x].q # <<>> => Range(Tail(h[x].q)) \subseteq Tasks
  BY <1>1, <1>2, TailIsOneLess DEF OneMore
<1>4. h[x].detached => h[x].q # <<>>
  BY DEF HandSound
<1> QED
  BY <1>2, <1>3, <1>4 DEF Live

\* r goes on with w, nothing of which it had not in hand before: it has done t.
GoesOn(h, r, w, t) ==
    /\ Live(w) \subseteq Live(h[r]) \ {t}
    /\ \A x \in Runners : x # r => t \notin Live(h[x])

SameBut(s, p, t) ==
    p.dispatch_q = s.dispatch_q /\ \A u \in Tasks : u # t => p.stat[u] = s.stat[u]

\* Others have what they had.
LEMMA HandNext ==
  ASSUME NEW s, NEW h, Held(s, h), NEW r \in Runners, NEW w \in RunType,
         Once(w.q), w.detached \/ w.leaving # NoTask => w.q # <<>>,
         NEW t, GoesOn(h, r, w, t),
         NEW p, PoolSound(p), SameBut(s, p, t),
         NEW k, k = [h EXCEPT ![r] = w]
  PROVE  Held(p, k)
<1>1. /\ h \in [Runners -> RunType] /\ HandSound(s, h)
      /\ k \in [Runners -> RunType] /\ k[r] = w
      /\ \A x \in Runners : x # r => k[x] = h[x]
      /\ p.dispatch_q = s.dispatch_q
      /\ \A u \in Tasks : u # t => p.stat[u] = s.stat[u]
  BY DEF Held, SameBut
<1>2. \A x \in Runners : Live(k[x]) \subseteq Live(h[x]) \ {t}
  BY <1>1 DEF GoesOn
<1>3. \A x \in Runners : Live(h[x]) \subseteq Tasks
  BY <1>1, LiveIn
<1>4. ASSUME NEW x \in Runners
      PROVE  /\ Once(k[x].q)
             /\ k[x].detached \/ k[x].leaving # NoTask => k[x].q # <<>>
             /\ \A u \in Live(k[x]) :
                    p.stat[u] \in {"scheduling", "dispatching"} /\ u \notin Range(p.dispatch_q)
  <2>1. /\ Once(k[x].q)
        /\ k[x].detached \/ k[x].leaving # NoTask => k[x].q # <<>>
    BY <1>1 DEF HandSound
  <2>2. \A u \in Live(k[x]) : u \in Live(h[x]) /\ u # t /\ u \in Tasks
    BY <1>2, <1>3
  <2>3. \A u \in Live(h[x]) :
            s.stat[u] \in {"scheduling", "dispatching"} /\ u \notin Range(s.dispatch_q)
    BY <1>1 DEF HandSound
  <2> QED
    BY <1>1, <2>1, <2>2, <2>3
<1>5. \A x, y \in Runners : x # y => Live(k[x]) \cap Live(k[y]) = {}
  BY <1>1, <1>2 DEF HandSound
<1>6. HandSound(p, k)
  BY <1>4, <1>5 DEF HandSound
<1> QED
  BY <1>1, <1>6 DEF Held

\* The first task in hand.
LEMMA HandFirst ==
  ASSUME NEW s, NEW h, Held(s, h), NEW r \in Runners, h[r].q # <<>>, ~h[r].detached
  PROVE  LET t == h[r].q[1]
         IN  /\ t \in Tasks /\ t \in Live(h[r])
             /\ s.stat[t] \in {"scheduling", "dispatching"}
             /\ t \notin Range(s.dispatch_q)
             /\ Range(Tail(h[r].q)) = Live(h[r]) \ {t} /\ Once(Tail(h[r].q))
             /\ \A x \in Runners : x # r => t \notin Live(h[x])
<1> DEFINE q == h[r].q
           t == q[1]
<1>1. q \in Seq(Tasks) /\ Once(q) /\ HandSound(s, h)
  BY DEF Held, HandSound, RunType
<1>2. Live(h[r]) = Range(q)
  BY DEF Live
<1> HIDE DEF q
<1>3. OneMore(Tail(q), t, q) /\ t \in Tasks
  <2>1. q # <<>>
    BY DEF q
  <2> QED
    BY <1>1, <2>1, TailIsOneLess
<1>4. /\ Once(Tail(q)) /\ t \notin Range(Tail(q)) /\ Range(q) = Range(Tail(q)) \cup {t}
  BY <1>1, <1>3 DEF OneMore
<1>5. t \in Live(h[r]) /\ Range(Tail(q)) = Live(h[r]) \ {t}
  BY <1>2, <1>4
<1>6. s.stat[t] \in {"scheduling", "dispatching"} /\ t \notin Range(s.dispatch_q)
  BY <1>1, <1>5 DEF HandSound
<1>7. \A x \in Runners : x # r => t \notin Live(h[x])
  BY <1>1, <1>5 DEF HandSound
<1> QED
  BY <1>3, <1>4, <1>5, <1>6, <1>7 DEF q

\* A task is taken out of the queues into the hand of r, who has nothing.
LEMMA HandTakes ==
  ASSUME NEW s, NEW h, Held(s, h), NEW r \in Runners, h[r].q = <<>>,
         NEW w \in RunType, Once(w.q), w.detached = h[r].detached,
         w.leaving = h[r].leaving, NEW p, PoolSound(p),
         \A x \in Runners : x # r => Live(h[x]) \cap Range(w.q) = {},
         \A u \in Range(w.q) : p.stat[u] \in {"scheduling", "dispatching"}
                               /\ u \notin Range(p.dispatch_q),
         \A u \in Tasks : (s.stat[u] \in {"scheduling", "dispatching"}
                           /\ u \notin Range(s.dispatch_q)) =>
                p.stat[u] = s.stat[u] /\ u \notin Range(p.dispatch_q),
         NEW k, k = [h EXCEPT ![r] = w]
  PROVE  Held(p, k)
<1>1. /\ h \in [Runners -> RunType] /\ HandSound(s, h)
      /\ k \in [Runners -> RunType] /\ k[r] = w
      /\ \A x \in Runners : x # r => k[x] = h[x]
  BY DEF Held
<1>2. ~w.detached /\ w.leaving = NoTask /\ Live(w) = Range(w.q)
  <2>1. ~h[r].detached /\ h[r].leaving = NoTask
    BY <1>1 DEF HandSound, RunType
  <2> QED
    BY <2>1 DEF Live
<1>3. \A x \in Runners : Live(h[x]) \subseteq Tasks
  BY <1>1, LiveIn
<1>4. ASSUME NEW x \in Runners
      PROVE  /\ Once(k[x].q)
             /\ k[x].detached \/ k[x].leaving # NoTask => k[x].q # <<>>
             /\ \A u \in Live(k[x]) :
                    p.stat[u] \in {"scheduling", "dispatching"} /\ u \notin Range(p.dispatch_q)
  <2>1. CASE x = r
    BY <1>1, <1>2, <2>1
  <2>2. CASE x # r
    <3>1. \A u \in Live(h[x]) : u \in Tasks /\
              s.stat[u] \in {"scheduling", "dispatching"} /\ u \notin Range(s.dispatch_q)
      BY <1>1, <1>3 DEF HandSound
    <3> QED
      BY <1>1, <2>2, <3>1 DEF HandSound
  <2> QED
    BY <2>1, <2>2
<1>5. \A x, y \in Runners : x # y => Live(k[x]) \cap Live(k[y]) = {}
  BY <1>1, <1>2 DEF HandSound
<1>6. HandSound(p, k)
  BY <1>4, <1>5 DEF HandSound
<1> QED
  BY <1>1, <1>6 DEF Held

-----------------------------------------------------------------------------
(***************************************************************************)
(* The steps of CpoolGp                                                    *)
(***************************************************************************)

\* The task t is pending, or will be, in the group g; nothing else is different.
QueuedFrom(s, p, t, g) ==
    /\ SameGroups(s, p) /\ p.stat[t] # "idle" /\ p.gid[t] = g
    /\ \A u \in Tasks : u # t => p.stat[u] = s.stat[u] /\ p.gid[u] = s.gid[u]
    /\ s.stat[t] # "idle" => s.gid[t] = g

LEMMA QueueHeld ==
  ASSUME Held(gp, run), NEW t \in Tasks, NEW g \in Ids, Queue(t, g)
  PROVE  Held(gp', run') /\ run' = run /\ QueuedFrom(gp, gp', t, g)
<1>1. /\ gp \in GpShape /\ TaskSound(gp) /\ PoolSound(gp)
      /\ run \in [Runners -> RunType] /\ HandSound(gp, run)
  BY DEF Held, PoolSound
<1>2. IsValid(gp, g) /\ run' = run
  BY DEF Queue
<1>3. CASE gp.stat[t] = "idle" /\ gp' = Queued([gp EXCEPT !.gid[t] = g], t)
  <2> DEFINE s == [gp EXCEPT !.gid[t] = g]
             G == [gp.gid EXCEPT ![t] = g]
  <2>1. G \in [Tasks -> Ids] /\ \A u \in Tasks : G[u] = IF u = t THEN g ELSE gp.gid[u]
    BY <1>1 DEF GpShape
  <2>2. s = [gp EXCEPT !.gid = G]
    BY <1>1 DEF GpShape
  <2> HIDE DEF s, G
  <2>3. /\ s \in GpShape /\ s.gid = G /\ s.entry = gp.entry /\ s.stat = gp.stat
        /\ s.actentry = gp.actentry /\ s.active_idx = gp.active_idx
        /\ s.nactives_ok = gp.nactives_ok /\ s.num = gp.num
        /\ s.wpending = gp.wpending /\ s.dispatch_q = gp.dispatch_q
        /\ SameGroups(gp, s)
    BY <1>1, <2>1, <2>2 DEF GpShape, SameGroups
  <2>4. GroupSound(s)
    <3>1. Actives(s) = Actives(gp) /\ First(s) = First(gp)
          /\ ReadyGroups(s) = ReadyGroups(gp)
      BY <2>3 DEF Actives, First, ReadyGroups, Ready
    <3>2. ListSound(s)
      BY <1>1, <2>3, <3>1 DEF PoolSound, GroupSound, ListSound, OnePlaceEach
    <3> QED
      BY <1>1, <2>3, <3>1, <3>2 DEF PoolSound, GroupSound
  <2>5. TaskSound(s)
    <3>1. \A h \in Ids : {u \in Tasks : s.stat[u] = "waiting" /\ s.gid[u] = h} =
                         {u \in Tasks : gp.stat[u] = "waiting" /\ gp.gid[u] = h}
      BY <1>3, <2>1, <2>3
    <3>2. \A u \in Tasks : s.stat[u] # "idle" =>
            s.gid[u] < s.num /\ s.entry[s.gid[u]].used # "free"
      BY <1>1, <1>3, <2>1, <2>3 DEF TaskSound
    <3> QED
      BY <1>1, <2>3, <3>1, <3>2 DEF TaskSound
  <2>6. Homed(s, t)
    <3>1. s.gid[t] = g
      BY <2>1, <2>3
    <3>2. t \notin Range(gp.dispatch_q)
      BY <1>1, <1>3 DEF TaskSound
    <3> QED
      BY <1>2, <1>3, <2>3, <3>1, <3>2 DEF Homed, IsValid
  <2>7. /\ PoolSound(gp') /\ gp'.stat = [s.stat EXCEPT ![t] = "waiting"]
        /\ gp'.dispatch_q = s.dispatch_q /\ SameGroups(s, gp') /\ gp'.gid = G
    <3>1. gp' = Queued(s, t)
      BY <1>3 DEF s
    <3> QED
      BY <2>3, <2>4, <2>5, <2>6, <3>1, QueuedKeeps DEF PoolSound
  <2>8. gp'.stat[t] = "waiting" /\ \A u \in Tasks : u # t => gp'.stat[u] = gp.stat[u]
    BY <1>1, <2>3, <2>7 DEF GpShape
  <2>9. HandSound(gp', run)
    <3>1. \A r \in Runners : \A u \in Live(run[r]) : u \in Tasks /\ u # t
      BY <1>1, <1>3, LiveIn DEF HandSound
    <3> QED
      BY <1>1, <2>3, <2>7, <2>8, <3>1 DEF HandSound
  <2>10. QueuedFrom(gp, gp', t, g)
    BY <1>3, <2>1, <2>3, <2>7, <2>8, SameTrans DEF QueuedFrom
  <2> QED
    BY <1>1, <1>2, <2>7, <2>9, <2>10 DEF Held
<1>4. CASE /\ gp.stat[t] \in {"scheduling", "dispatching"} /\ gp.gid[t] = g
           /\ gp' = [gp EXCEPT !.wpending = @ \cup {t}]
  <2>1. /\ gp' \in GpShape /\ SameLists(gp, gp') /\ gp'.dispatch_q = gp.dispatch_q
        /\ gp'.wpending = gp.wpending \cup {t} /\ SameGroups(gp, gp')
    BY <1>1, <1>4 DEF GpShape, SameLists, SameGroups
  <2>2. PoolSound(gp')
    <3>1. \A u \in gp'.wpending : gp.stat[u] \in {"scheduling", "dispatching"}
      BY <1>1, <1>4, <2>1 DEF TaskSound
    <3> QED
      BY <1>1, <2>1, <3>1, SideKeeps
  <2>3. HandSound(gp', run)
    BY <1>1, <2>1 DEF HandSound, SameLists
  <2>4. QueuedFrom(gp, gp', t, g)
    BY <1>4, <2>1 DEF QueuedFrom, SameLists
  <2> QED
    BY <1>1, <1>2, <2>2, <2>3, <2>4 DEF Held
<1> QED
  BY <1>3, <1>4 DEF Queue

\* Tasks are removed from s, which the pool has become: the caller has their
\* error handlers to run, or the pool.
LEMMA RemovesHeld ==
  ASSUME NEW s, NEW h, Held(s, h), NEW u \in Runners, h[u].q = <<>>,
         NEW X \in SUBSET Tasks, NEW bypool \in BOOLEAN, NEW w \in RunType,
         w.q = IF bypool THEN <<>>
               ELSE SetToSeq({t \in X \cap Handlers : s.stat[t] = "waiting"}),
         w.detached = h[u].detached, w.leaving = h[u].leaving,
         NEW p, p = Marked(s, X, bypool), NEW k, k = [h EXCEPT ![u] = w]
  PROVE  Held(p, k) /\ MarkedFrom(s, p, X, bypool)
<1> DEFINE D == {t \in X \cap Handlers : s.stat[t] = "waiting"}
<1>1. PoolSound(s) /\ PoolSound(p) /\ MarkedFrom(s, p, X, bypool)
  BY MarkedKeeps DEF Held
<1>2. IsFiniteSet(D) /\ D \subseteq Tasks
  BY FS_Subset, GpAssumption
<1>3. Once(w.q) /\ Range(w.q) = IF bypool THEN {} ELSE D
  <2>1. CASE bypool
    BY <2>1 DEF Once, Range
  <2>2. CASE ~bypool
    <3> DEFINE n == Cardinality(D)
               seq == SetToSeq(D)
    <3>1. w.q = seq
      BY <2>2
    <3> HIDE DEF D
    <3>2. /\ n \in Nat /\ seq \in [1 .. n -> D]
          /\ D = {seq[i] : i \in 1 .. n}
          /\ \A i, j \in 1 .. n : seq[i] = seq[j] => i = j
      BY <1>2, SetAsSeq
    <3> HIDE DEF n, seq
    <3>3. Len(seq) = n
      BY <3>2
    <3>4. Once(seq)
      BY <3>2, <3>3 DEF Once
    <3>5. Range(seq) = D
      BY <3>2 DEF Range
    <3> QED
      BY <2>2, <3>1, <3>4, <3>5
  <2> QED
    BY <2>1, <2>2
<1>4. /\ \A t \in Tasks : p.stat[t] = IF t \in X /\ s.stat[t] = "waiting"
                                      THEN IF t \in Handlers THEN "dispatching" ELSE "idle"
                                      ELSE s.stat[t]
      /\ Range(p.dispatch_q) = Range(s.dispatch_q) \cup (IF bypool THEN D ELSE {})
  BY <1>1 DEF MarkedFrom
<1>5. \A t \in Range(s.dispatch_q) : s.stat[t] = "dispatching"
  BY <1>1 DEF PoolSound, TaskSound
<1>6. \A t \in Range(w.q) : p.stat[t] \in {"scheduling", "dispatching"}
                            /\ t \notin Range(p.dispatch_q)
  BY <1>2, <1>3, <1>4, <1>5
<1>7. \A x \in Runners : x # u => Live(h[x]) \cap Range(w.q) = {}
  BY <1>3 DEF Held, HandSound
<1>8. \A t \in Tasks : (s.stat[t] \in {"scheduling", "dispatching"}
                        /\ t \notin Range(s.dispatch_q)) =>
                p.stat[t] = s.stat[t] /\ t \notin Range(p.dispatch_q)
  BY <1>4
<1>9. Held(p, k)
  BY <1>1, <1>3, <1>6, <1>7, <1>8, HandTakes
<1> QED
  BY <1>1, <1>9

LEMMA SetSeqIn ==
  ASSUME NEW D \in SUBSET Tasks
  PROVE  SetToSeq(D) \in Seq(Tasks)
<1> DEFINE n == Cardinality(D)
           seq == SetToSeq(D)
<1>1. IsFiniteSet(D)
  BY FS_Subset, GpAssumption
<1>2. n \in Nat /\ seq \in [1 .. n -> D]
  BY <1>1, SetAsSeq
<1> HIDE DEF n, seq
<1>3. seq \in [1 .. n -> Tasks]
  BY <1>2
<1>4. seq \in Seq(Tasks)
  BY <1>2, <1>3, SeqDef
<1> QED
  BY <1>4 DEF seq

LEMMA RemoveTheseHeld ==
  ASSUME Held(gp, run), NEW u \in Runners, IdleUser(u), NEW X \in SUBSET Tasks,
         NEW bypool \in BOOLEAN, RemoveThese(u, X, bypool)
  PROVE  Held(gp', run') /\ MarkedFrom(gp, gp', X, bypool)
<1> DEFINE D == {t \in X \cap Handlers : gp.stat[t] = "waiting"}
           q == IF bypool THEN <<>> ELSE SetToSeq(D)
           w == [run[u] EXCEPT !.q = q]
<1>1. run[u] \in RunType /\ run \in [Runners -> RunType]
  BY DEF Held
<1>2. q \in Seq(Tasks)
  <2>1. D \in SUBSET Tasks
    OBVIOUS
  <2> HIDE DEF D
  <2>2. SetToSeq(D) \in Seq(Tasks)
    BY <2>1, SetSeqIn
  <2> QED
    BY <2>2, EmptySeq
<1>3. run' = [run EXCEPT ![u] = w] /\ gp' = Marked(gp, X, bypool) /\ run[u].q = <<>>
  BY <1>1 DEF RemoveThese, Rmq, IdleUser
<1>4. w.q = IF bypool THEN <<>>
            ELSE SetToSeq({t \in X \cap Handlers : gp.stat[t] = "waiting"})
  BY <1>1 DEF RunType
<1> HIDE DEF q
<1>5. w \in RunType /\ w.detached = run[u].detached /\ w.leaving = run[u].leaving
  BY <1>1, <1>2 DEF RunType
<1> HIDE DEF w
<1> QED
  BY <1>3, <1>4, <1>5, RemovesHeld

LEMMA DeleteGroupHeld ==
  ASSUME Held(gp, run), NEW u \in Users, NEW g \in Ids, DeleteGroup(u, g)
  PROVE  /\ Held(gp', run')
         /\ MarkedFrom(Deleting(gp, g), gp', Traced(gp, g), FALSE)
<1> DEFINE s == Deleting(gp, g)
           X == Traced(gp, g)
           D == {t \in X \cap Handlers : gp.stat[t] = "waiting"}
           q == SetToSeq(D)
           w == [run[u] EXCEPT !.q = q, !.deleting = g]
<1>1. run[u] \in RunType /\ run \in [Runners -> RunType] /\ u \in Runners
  BY DEF Held, Runners
<1>2. q \in Seq(Tasks) /\ X \in SUBSET Tasks
  <2>1. D \in SUBSET Tasks /\ X \in SUBSET Tasks
    BY DEF Traced, OfGroup
  <2> HIDE DEF D
  <2> QED
    BY <2>1, SetSeqIn
<1>3. /\ run' = [run EXCEPT ![u] = w] /\ gp' = Marked(s, X, FALSE)
      /\ run[u].q = <<>> /\ IsValid(gp, g)
  BY <1>1 DEF DeleteGroup, Deleting, Rmq, IdleUser
<1>4. PoolSound(s) /\ SameTasks(gp, s)
  BY <1>3, DeletingKeeps DEF Held
<1>5. w.q = IF FALSE THEN <<>>
            ELSE SetToSeq({t \in X \cap Handlers : s.stat[t] = "waiting"})
  BY <1>1, <1>4 DEF RunType, SameTasks
<1> HIDE DEF q, X, s
<1>6. w \in RunType /\ w.detached = run[u].detached /\ w.leaving = run[u].leaving
  BY <1>1, <1>2 DEF RunType
<1>7. Held(s, run)
  BY <1>4, SameHeld
<1> HIDE DEF w
<1>8. Held(gp', run') /\ MarkedFrom(s, gp', X, FALSE)
  BY <1>1, <1>2, <1>3, <1>5, <1>6, <1>7, RemovesHeld
<1> QED
  BY <1>8 DEF s, X

LEMMA GroupFreedHeld ==
  ASSUME Held(gp, run), NEW u \in Users, GroupFreed(u)
  PROVE  LET g == run[u].deleting
         IN  /\ Held(gp', run') /\ SameTasks(gp, gp') /\ g \in Ids
             /\ SameOthers(gp, gp', g)
             /\ run' = [run EXCEPT ![u].deleting = NoGroup]
<1> DEFINE g == run[u].deleting
           w == [run[u] EXCEPT !.deleting = NoGroup]
<1>1. /\ run[u] \in RunType /\ run \in [Runners -> RunType] /\ u \in Runners
      /\ HandSound(gp, run)
  BY DEF Held, Runners
<1>2. /\ g \in Ids /\ Traced(gp, g) = {} /\ gp' = Freed(gp, g)
      /\ run' = [run EXCEPT ![u] = w] /\ run' = [run EXCEPT ![u].deleting = NoGroup]
  BY <1>1 DEF GroupFreed, GroupDone, Freed, RunType
<1>3. /\ w \in RunType /\ w.q = run[u].q /\ w.detached = run[u].detached
      /\ w.leaving = run[u].leaving
  BY <1>1 DEF RunType
<1> HIDE DEF g, w
<1>4. PoolSound(gp') /\ SameTasks(gp, gp') /\ SameOthers(gp, gp', g)
  BY <1>2, FreedKeeps DEF Held
<1>5. \A x \in Runners : /\ run'[x] \in RunType /\ run'[x].q = run[x].q
                         /\ run'[x].detached = run[x].detached
                         /\ run'[x].leaving = run[x].leaving
  BY <1>1, <1>2, <1>3
<1>6. \A x \in Runners : Live(run'[x]) = Live(run[x])
  BY <1>5 DEF Live
<1>7. HandSound(gp', run')
  BY <1>1, <1>4, <1>5, <1>6 DEF HandSound, SameTasks
<1>8. run' \in [Runners -> RunType]
  BY <1>1, <1>2, <1>3
<1> QED
  BY <1>2, <1>4, <1>7, <1>8 DEF Held, g

LEMMA FoundIs ==
  ASSUME NEW s, PoolSound(s)
  PROVE  Found(s) \in Tops(s) \cup {NoTask}
BY SearchFinds DEF Found, PoolSound, GroupSound

LEMMA TakeHeld ==
  ASSUME Held(gp, run), NEW th \in Threads, Take(th)
  PROVE  /\ Held(gp', run') /\ gp'.wpending = gp.wpending /\ SameGroups(gp, gp')
         /\ gp'.gid = gp.gid
         /\ \A t \in Tasks : gp'.stat[t] # gp.stat[t] =>
                gp.stat[t] = "waiting" /\ gp'.stat[t] = "scheduling"
<1> DEFINE t == Found(gp)
           w == [run[th] EXCEPT !.q = <<t>>, !.normal = TRUE]
<1>1. /\ gp \in GpShape /\ PoolSound(gp) /\ TaskSound(gp) /\ th \in Runners
      /\ run[th] \in RunType /\ run \in [Runners -> RunType] /\ HandSound(gp, run)
  BY DEF Held, PoolSound, Runners
<1>2. t \in Tops(gp) \cup {NoTask}
  BY <1>1, FoundIs
<1>3. run[th].q = <<>> /\ run[th].leaving = NoTask
  BY DEF Take, MayTake
<1>4. CASE t = NoTask
  <2>1. gp' = [gp EXCEPT !.spinning = TRUE] /\ run' = run
    BY <1>4 DEF Take
  <2>2. gp' \in GpShape /\ SameLists(gp, gp') /\ SameTasks(gp, gp') /\ SameGroups(gp, gp')
    BY <1>1, <2>1 DEF GpShape, SameLists, SameTasks, SameGroups
  <2>3. \A u \in gp'.wpending : gp.stat[u] \in {"scheduling", "dispatching"}
    BY <1>1, <2>2 DEF TaskSound, SameTasks
  <2>4. PoolSound(gp')
    BY <1>1, <2>2, <2>3, SideKeeps DEF SameTasks
  <2> QED
    BY <2>1, <2>2, <2>4, SameHeld DEF SameTasks
<1>5. CASE t # NoTask
  <2>1. t \in Tops(gp)
    BY <1>2, <1>5
  <2>2. gp' = Taken(gp, t, th) /\ run' = [run EXCEPT ![th] = w]
    BY <1>1, <1>5 DEF Take, Taken
  <2> HIDE DEF t
  <2>3. /\ t \in Tasks /\ gp.stat[t] = "waiting" /\ PoolSound(gp')
        /\ SameGroups(gp, gp') /\ gp'.stat = [gp.stat EXCEPT ![t] = "scheduling"]
        /\ gp'.gid = gp.gid /\ gp'.wpending = gp.wpending
        /\ gp'.dispatch_q = gp.dispatch_q
    BY <1>1, <2>1, <2>2, TakenKeeps
  <2>4. /\ w \in RunType /\ w.q = <<t>> /\ w.detached = run[th].detached
        /\ w.leaving = run[th].leaving
    <3> DEFINE q == <<t>>
    <3>1. q \in Seq(Tasks)
      BY <2>3
    <3> HIDE DEF q
    <3>2. [run[th] EXCEPT !.q = q, !.normal = TRUE] \in RunType
      BY <1>1, <3>1 DEF RunType
    <3> QED
      BY <1>1, <3>2 DEF RunType, q
  <2> HIDE DEF w
  <2>5. Once(w.q) /\ Range(w.q) = {t}
    BY <2>4 DEF Once, Range
  <2>6. \A x \in Runners : t \notin Live(run[x])
    BY <1>1, <2>3 DEF HandSound
  <2>7. t \notin Range(gp.dispatch_q)
    BY <1>1, <2>3 DEF TaskSound
  <2>8. \A u \in Tasks : gp'.stat[u] = IF u = t THEN "scheduling" ELSE gp.stat[u]
    BY <1>1, <2>3 DEF GpShape
  <2>9. Held(gp', run')
    <3>1. \A x \in Runners : x # th => Live(run[x]) \cap Range(w.q) = {}
      BY <2>5, <2>6
    <3>2. \A u \in Range(w.q) : gp'.stat[u] \in {"scheduling", "dispatching"}
                                /\ u \notin Range(gp'.dispatch_q)
      BY <2>3, <2>5, <2>7, <2>8
    <3>3. \A u \in Tasks : (gp.stat[u] \in {"scheduling", "dispatching"}
                            /\ u \notin Range(gp.dispatch_q)) =>
                gp'.stat[u] = gp.stat[u] /\ u \notin Range(gp'.dispatch_q)
      BY <2>3, <2>8
    <3> QED
      BY <1>1, <1>3, <2>2, <2>3, <2>4, <2>5, <3>1, <3>2, <3>3, HandTakes
  <2> QED
    BY <2>3, <2>8, <2>9
<1> QED
  BY <1>4, <1>5

LEMMA SplitSeq ==
  ASSUME NEW q \in Seq(Tasks), NEW n \in Nat, n <= Len(q)
  PROVE  LET a == SubSeq(q, 1, n)
             b == SubSeq(q, n + 1, Len(q))
         IN  /\ a \in Seq(Tasks) /\ b \in Seq(Tasks)
             /\ Range(a) \subseteq Range(q) /\ Range(b) \subseteq Range(q)
             /\ Once(q) => Once(a) /\ Once(b) /\ Range(a) \cap Range(b) = {}
<1> DEFINE a == SubSeq(q, 1, n)
           b == SubSeq(q, n + 1, Len(q))
<1>1. Len(q) \in Nat /\ \A i \in 1 .. Len(q) : q[i] \in Tasks
  BY LenProperties, ElementOfSeq
<1>2. a \in Seq(Tasks) /\ Len(a) = n /\ \A i \in 1 .. n : a[i] = q[i]
  <2>1. \A i \in 1 .. n : q[i] \in Tasks
    BY <1>1
  <2> QED
    BY <2>1, SubSeqProperties
<1>3. /\ b \in Seq(Tasks) /\ Len(b) = Len(q) - n
      /\ \A i \in 1 .. (Len(q) - n) : b[i] = q[n + i]
  <2>1. /\ \A i \in (n + 1) .. Len(q) : q[i] \in Tasks
        /\ n + 1 \in Int /\ Len(q) \in Int
    BY <1>1
  <2> QED
    BY <1>1, <2>1, SubSeqProperties
<1> HIDE DEF a, b
<1>4. DOMAIN q = 1 .. Len(q) /\ DOMAIN a = 1 .. n /\ DOMAIN b = 1 .. (Len(q) - n)
  BY <1>2, <1>3, LenProperties
<1>5. Range(a) \subseteq Range(q) /\ Range(b) \subseteq Range(q)
  <2>1. \A i \in 1 .. n : i \in 1 .. Len(q)
    BY <1>1
  <2>2. \A i \in 1 .. (Len(q) - n) : n + i \in 1 .. Len(q)
    BY <1>1
  <2>3. Range(a) \subseteq Range(q)
    BY <1>2, <1>4, <2>1 DEF Range
  <2>4. Range(b) \subseteq Range(q)
    BY <1>3, <1>4, <2>2 DEF Range
  <2> QED
    BY <2>3, <2>4
<1>6. ASSUME Once(q)
      PROVE  Once(a) /\ Once(b) /\ Range(a) \cap Range(b) = {}
  <2>1. Once(a)
    BY <1>1, <1>2, <1>6 DEF Once
  <2>2. Once(b)
    <3> SUFFICES ASSUME NEW i \in 1 .. (Len(q) - n), NEW j \in 1 .. (Len(q) - n),
                        b[i] = b[j]
                 PROVE  i = j
      BY <1>3 DEF Once
    <3>1. n + i \in 1 .. Len(q) /\ n + j \in 1 .. Len(q) /\ q[n + i] = q[n + j]
      BY <1>1, <1>3
    <3>2. n + i = n + j
      BY <1>6, <3>1 DEF Once
    <3> QED
      BY <1>1, <3>2
  <2>3. ASSUME NEW i \in 1 .. n, NEW j \in 1 .. (Len(q) - n)
        PROVE  a[i] # b[j]
    <3>1. i \in 1 .. Len(q) /\ n + j \in 1 .. Len(q) /\ i # n + j
      BY <1>1
    <3> QED
      BY <1>2, <1>3, <1>6, <3>1 DEF Once
  <2> QED
    BY <1>4, <2>1, <2>2, <2>3 DEF Range
<1> QED
  BY <1>2, <1>3, <1>5, <1>6 DEF a, b

LEMMA TakeRemovedHeld ==
  ASSUME Held(gp, run), NEW th \in Threads, TakeRemoved(th)
  PROVE  /\ Held(gp', run') /\ gp'.wpending = gp.wpending /\ SameGroups(gp, gp')
         /\ gp'.gid = gp.gid /\ gp'.stat = gp.stat
<1> DEFINE q == gp.dispatch_q
           n == MinOf(Batch, Len(q))
           a == SubSeq(q, 1, n)
           b == SubSeq(q, n + 1, Len(q))
           T == [t \in Tasks |-> IF t \in Range(a) THEN th ELSE gp.thread[t]]
           w == [run[th] EXCEPT !.q = a, !.normal = FALSE]
<1>1. /\ gp \in GpShape /\ PoolSound(gp) /\ TaskSound(gp) /\ GroupSound(gp)
      /\ th \in Runners
      /\ run[th] \in RunType /\ run \in [Runners -> RunType] /\ HandSound(gp, run)
  BY DEF Held, PoolSound, Runners
<1>2. run[th].q = <<>> /\ run[th].leaving = NoTask
  BY DEF TakeRemoved
<1>3. run' = [run EXCEPT ![th] = w]
  BY <1>1 DEF TakeRemoved
<1>4. gp' = [gp EXCEPT !.dispatch_q = b, !.ndispatchings = @ + n, !.thread = T]
  BY <1>1 DEF TakeRemoved
<1>5. q \in Seq(Tasks) /\ Once(q) /\ n \in Nat /\ n <= Len(q)
  <2>1. q \in Seq(Tasks) /\ Once(q)
    BY <1>1 DEF GpShape, TaskSound
  <2>2. Len(q) \in Nat
    BY <2>1, LenProperties
  <2> QED
    BY <2>1, <2>2, GpAssumption DEF MinOf
<1> HIDE DEF q, n
<1>6. /\ a \in Seq(Tasks) /\ b \in Seq(Tasks) /\ Once(a) /\ Once(b)
      /\ Range(a) \subseteq Range(q) /\ Range(b) \subseteq Range(q)
      /\ Range(a) \cap Range(b) = {}
  BY <1>5, SplitSeq
<1> HIDE DEF a, b
<1>7. T \in [Tasks -> Threads \cup {NoThread}]
  BY <1>1 DEF GpShape
<1> HIDE DEF T
<1>8. gp.ndispatchings + n \in Int
  <2>1. gp.ndispatchings \in Int
    BY <1>1 DEF GpShape
  <2> QED
    BY <1>5, <2>1
<1>9. /\ gp' \in GpShape /\ SameLists(gp, gp') /\ gp'.wpending = gp.wpending
      /\ SameGroups(gp, gp') /\ gp'.dispatch_q = b
  BY <1>1, <1>4, <1>6, <1>7, <1>8 DEF GpShape, SameLists, SameGroups
<1>10. PoolSound(gp')
  <2>1. Actives(gp') = Actives(gp) /\ First(gp') = First(gp)
        /\ ReadyGroups(gp') = ReadyGroups(gp)
    BY <1>9 DEF SameLists, Actives, First, ReadyGroups, Ready
  <2>2. ListSound(gp')
    BY <1>1, <1>9, <2>1 DEF GroupSound, ListSound, OnePlaceEach, SameLists
  <2>3. GroupSound(gp')
    BY <1>1, <1>9, <2>1, <2>2 DEF GroupSound, SameLists
  <2>4. TaskSound(gp')
    BY <1>1, <1>6, <1>9 DEF TaskSound, SameLists, q
  <2> QED
    BY <1>9, <2>3, <2>4 DEF PoolSound
<1>11. /\ w \in RunType /\ w.q = a /\ w.detached = run[th].detached
       /\ w.leaving = run[th].leaving
  BY <1>1, <1>6 DEF RunType
<1> HIDE DEF w
<1>12. Held(gp', run')
  <2>1. \A x \in Runners : Live(run[x]) \cap Range(w.q) = {}
    BY <1>1, <1>6, <1>11 DEF HandSound, q
  <2>2. \A u \in Range(w.q) : gp'.stat[u] \in {"scheduling", "dispatching"}
                              /\ u \notin Range(gp'.dispatch_q)
    BY <1>1, <1>6, <1>9, <1>11 DEF TaskSound, SameLists, q
  <2>3. \A u \in Tasks : (gp.stat[u] \in {"scheduling", "dispatching"}
                          /\ u \notin Range(gp.dispatch_q)) =>
                gp'.stat[u] = gp.stat[u] /\ u \notin Range(gp'.dispatch_q)
    BY <1>6, <1>9 DEF SameLists, q
  <2> QED
    BY <1>1, <1>2, <1>3, <1>6, <1>10, <1>11, <2>1, <2>2, <2>3, HandTakes
<1> QED
  BY <1>9, <1>12 DEF SameLists

\* From s to p a task that was run has ended, or its error handler.
EndOf(s, p, t) ==
    /\ t \in Tasks /\ s.stat[t] \in {"scheduling", "dispatching"}
    /\ SameGroups(s, p) /\ p.gid = s.gid /\ p.wpending = s.wpending \ {t}
    /\ p.dispatch_q = s.dispatch_q
    /\ p.stat = [s.stat EXCEPT ![t] = IF t \in s.wpending THEN "waiting" ELSE "idle"]

\* The first task in hand has ended: r goes on with the next one.
LEMMA EndHeld ==
  ASSUME NEW s, NEW h, Held(s, h), NEW r \in Runners, h[r].q # <<>>,
         h[r].leaving = NoTask, ~h[r].detached, NEW t, t = h[r].q[1],
         NEW b, PoolSound(b), SameTasks(s, b), SameGroups(s, b),
         NEW p, p = DoneWith(b, t),
         NEW k, k = [h EXCEPT ![r].q = Tail(@), ![r].detached = FALSE]
  PROVE  Held(p, k) /\ EndOf(s, p, t)
<1> DEFINE q == h[r].q
           w == [h[r] EXCEPT !.q = Tail(@), !.detached = FALSE]
<1>1. /\ h[r] \in RunType /\ h \in [Runners -> RunType] /\ k = [h EXCEPT ![r] = w]
      /\ q \in Seq(Tasks)
  BY DEF Held, RunType
<1>2. /\ t \in Tasks /\ t \in Live(h[r])
      /\ s.stat[t] \in {"scheduling", "dispatching"} /\ t \notin Range(s.dispatch_q)
      /\ Range(Tail(q)) = Live(h[r]) \ {t} /\ Once(Tail(q))
      /\ \A x \in Runners : x # r => t \notin Live(h[x])
  BY HandFirst
<1>3. Tail(q) \in Seq(Tasks)
  BY <1>1, TailIsOneLess DEF OneMore
<1>4. w \in RunType /\ w.q = Tail(q) /\ ~w.detached /\ w.leaving = NoTask
  <2> DEFINE v == Tail(q)
  <2>1. w = [h[r] EXCEPT !.q = v, !.detached = FALSE]
    OBVIOUS
  <2> HIDE DEF v
  <2> QED
    BY <1>1, <1>3, <2>1 DEF RunType, v
<1> HIDE DEF q, w
<1>5. Live(w) = Live(h[r]) \ {t}
  BY <1>2, <1>4 DEF Live
<1>6. /\ PoolSound(p) /\ SameGroups(b, p)
      /\ p.stat = [s.stat EXCEPT ![t] = IF t \in s.wpending THEN "waiting" ELSE "idle"]
      /\ p.gid = s.gid /\ p.wpending = s.wpending \ {t} /\ p.dispatch_q = s.dispatch_q
  BY <1>2, DoneWithKeeps DEF SameTasks
<1>7. s.stat \in [Tasks -> TaskStats]
  BY DEF Held, PoolSound, GpShape
<1>8. \A u \in Tasks : u # t => p.stat[u] = s.stat[u]
  BY <1>6, <1>7
<1>9. Held(p, k)
  <2>1. Once(w.q) /\ (w.detached \/ w.leaving # NoTask => w.q # <<>>)
    BY <1>2, <1>4
  <2>2. GoesOn(h, r, w, t)
    BY <1>2, <1>5 DEF GoesOn
  <2> DEFINE k1 == [h EXCEPT ![r] = w]
  <2>3. k1 = [h EXCEPT ![r] = w] /\ k = k1
    BY <1>1
  <2> HIDE DEF k1
  <2>4. w \in RunType /\ PoolSound(p) /\ SameBut(s, p, t)
    BY <1>4, <1>6, <1>8 DEF SameBut
  <2>5. Held(p, k1)
    BY <2>1, <2>2, <2>3, <2>4, HandNext
  <2> QED
    BY <2>3, <2>5
<1> QED
  BY <1>2, <1>6, <1>9, SameTrans DEF EndOf

\* The same when the task was detached.
LEMMA DetachedHeld ==
  ASSUME NEW s, NEW h, Held(s, h), NEW r \in Runners, h[r].q # <<>>,
         h[r].leaving = NoTask, h[r].detached,
         NEW k, k = [h EXCEPT ![r].q = Tail(@), ![r].detached = FALSE]
  PROVE  Held(s, k)
<1> DEFINE q == h[r].q
           w == [h[r] EXCEPT !.q = Tail(@), !.detached = FALSE]
<1>1. /\ h[r] \in RunType /\ h \in [Runners -> RunType] /\ k = [h EXCEPT ![r] = w]
      /\ q \in Seq(Tasks) /\ HandSound(s, h) /\ PoolSound(s)
  BY DEF Held, RunType
<1>2. Tail(q) \in Seq(Tasks) /\ Once(Tail(q))
  BY <1>1, TailIsOneLess DEF OneMore, HandSound
<1>3. w \in RunType /\ w.q = Tail(q) /\ ~w.detached /\ w.leaving = NoTask
  <2> DEFINE v == Tail(q)
  <2>1. w = [h[r] EXCEPT !.q = v, !.detached = FALSE]
    OBVIOUS
  <2> HIDE DEF v
  <2> QED
    BY <1>1, <1>2, <2>1 DEF RunType, v
<1>4. Live(h[r]) = Range(Tail(q))
  BY DEF Live
<1> HIDE DEF q, w
<1>5. Live(w) = Live(h[r])
  BY <1>3, <1>4 DEF Live
<1>6. \A x \in Runners : NoTask \notin Live(h[x])
  BY <1>1, LiveIn, GpAssumption
<1>7. GoesOn(h, r, w, NoTask)
  BY <1>5, <1>6 DEF GoesOn
<1>8. Once(w.q) /\ (w.detached \/ w.leaving # NoTask => w.q # <<>>)
  BY <1>2, <1>3
<1> DEFINE k1 == [h EXCEPT ![r] = w]
<1>9. k1 = [h EXCEPT ![r] = w] /\ k = k1
  BY <1>1
<1> HIDE DEF k1
<1>10. SameBut(s, s, NoTask)
  BY DEF SameBut
<1>11. Held(s, k1)
  BY <1>1, <1>3, <1>7, <1>8, <1>9, <1>10, HandNext
<1> QED
  BY <1>9, <1>11

LEMMA ThreadKeeps ==
  ASSUME NEW s, PoolSound(s), NEW t \in Tasks
  PROVE  LET p == [s EXCEPT !.thread[t] = NoThread]
         IN  PoolSound(p) /\ SameTasks(s, p) /\ SameGroups(s, p)
<1> DEFINE T == [s.thread EXCEPT ![t] = NoThread]
           p == [s EXCEPT !.thread[t] = NoThread]
<1>1. s \in GpShape /\ TaskSound(s)
  BY DEF PoolSound
<1>2. T \in [Tasks -> Threads \cup {NoThread}] /\ p = [s EXCEPT !.thread = T]
  BY <1>1 DEF GpShape
<1> HIDE DEF T, p
<1>3. /\ p \in GpShape /\ SameLists(s, p) /\ p.dispatch_q = s.dispatch_q
      /\ p.wpending = s.wpending /\ SameTasks(s, p) /\ SameGroups(s, p)
  BY <1>1, <1>2 DEF GpShape, SameLists, SameTasks, SameGroups
<1>4. \A u \in p.wpending : s.stat[u] \in {"scheduling", "dispatching"}
  BY <1>1, <1>3 DEF TaskSound
<1>5. PoolSound(p)
  BY <1>3, <1>4, SideKeeps
<1> QED
  BY <1>3, <1>5 DEF p

LEMMA FinishedHeld ==
  ASSUME Held(gp, run), NEW th \in Threads, Finished(th)
  PROVE  /\ Held(gp', run')
         /\ run[th].detached => gp' = gp
         /\ ~run[th].detached => EndOf(gp, gp', run[th].q[1])
<1> DEFINE t == run[th].q[1]
           s == [gp EXCEPT !.thread[t] = NoThread]
<1>1. /\ th \in Runners /\ run[th].q # <<>> /\ run[th].leaving = NoTask
      /\ run' = [run EXCEPT ![th].q = Tail(@), ![th].detached = FALSE]
  BY DEF Finished, NextInQ, Runners
<1>2. CASE run[th].detached
  <2>1. gp' = gp
    BY <1>2 DEF Finished
  <2> QED
    BY <1>1, <1>2, <2>1, DetachedHeld
<1>3. CASE ~run[th].detached
  <2> DEFINE b == IF run[th].normal THEN Ran(s, t) ELSE Dispatched(s, t)
  <2>1. gp' = DoneWith(b, t)
    BY <1>3 DEF Finished
  <2>2. t \in Tasks /\ PoolSound(gp)
    BY <1>1, <1>3, HandFirst DEF Held
  <2>3. PoolSound(s) /\ SameTasks(gp, s) /\ SameGroups(gp, s)
    BY <2>2, ThreadKeeps
  <2> HIDE DEF s
  <2>4. b \in GpShape /\ Listed(s, b)
    BY <2>2, <2>3, RanListed, DispatchedListed DEF PoolSound
  <2> HIDE DEF b
  <2>5. PoolSound(b) /\ SameTasks(gp, b) /\ SameGroups(gp, b)
    BY <2>3, <2>4, ListedKeeps, SameTrans
  <2> HIDE DEF t
  <2>6. Held(gp', run') /\ EndOf(gp, gp', t)
    <3>1. t = run[th].q[1]
      BY DEF t
    <3> QED
      BY <1>1, <1>3, <2>1, <2>5, <3>1, EndHeld
  <2> QED
    BY <1>3, <2>6 DEF t
<1> QED
  BY <1>2, <1>3

LEMMA DispatchNextHeld ==
  ASSUME Held(gp, run), NEW u \in Users, DispatchNext(u)
  PROVE  /\ Held(gp', run')
         /\ run[u].detached => gp' = gp
         /\ ~run[u].detached => EndOf(gp, gp', run[u].q[1])
<1> DEFINE t == run[u].q[1]
           b == Dispatched(gp, t)
<1>1. /\ u \in Runners /\ run[u].q # <<>> /\ run[u].leaving = NoTask
      /\ run' = [run EXCEPT ![u].q = Tail(@), ![u].detached = FALSE]
  BY DEF DispatchNext, NextInQ, Runners
<1>2. CASE run[u].detached
  <2>1. gp' = gp
    BY <1>2 DEF DispatchNext
  <2> QED
    BY <1>1, <1>2, <2>1, DetachedHeld
<1>3. CASE ~run[u].detached
  <2>1. gp' = DoneWith(b, t)
    BY <1>3 DEF DispatchNext
  <2>2. t \in Tasks /\ PoolSound(gp) /\ gp \in GpShape
    BY <1>1, <1>3, HandFirst DEF Held, PoolSound
  <2>3. b \in GpShape /\ Listed(gp, b)
    BY <2>2, DispatchedListed
  <2> HIDE DEF b
  <2>4. PoolSound(b) /\ SameTasks(gp, b) /\ SameGroups(gp, b)
    BY <2>2, <2>3, ListedKeeps
  <2> HIDE DEF t
  <2>5. Held(gp', run') /\ EndOf(gp, gp', t)
    <3>1. t = run[u].q[1]
      BY DEF t
    <3> QED
      BY <1>1, <1>3, <2>1, <2>4, <3>1, EndHeld
  <2> QED
    BY <1>3, <2>5 DEF t
<1> QED
  BY <1>2, <1>3

\* The calls that change groups, and no tasks.
LEMMA CreateGroupHeld ==
  ASSUME Held(gp, run), NEW g \in Ids, CreateGroup(g, FALSE)
  PROVE  /\ Held(gp', run') /\ run' = run /\ SameTasks(gp, gp') /\ g \in Ids
         /\ SameOthers(gp, gp', g) /\ gp.entry[g].used = "free"
<1> DEFINE s == Grown(gp)
<1>1. PoolSound(gp) /\ s.num <= MaxNum /\ g \in Free(s) /\ gp' = Created(s, g, FALSE)
      /\ run' = run /\ s.entry[g].used = "free"
  BY DEF CreateGroup, Held, Free
<1>2. /\ PoolSound(s) /\ SameTasks(gp, s) /\ s.entry = gp.entry
      /\ s.destroying = gp.destroying /\ s.throttle_on = gp.throttle_on
  BY <1>1, GrownKeeps
<1> HIDE DEF s
<1>3. PoolSound(gp') /\ SameTasks(s, gp') /\ SameOthers(s, gp', g) /\ g \in Ids
  BY <1>1, <1>2, CreatedKeeps
<1>4. SameTasks(gp, gp')
  BY <1>2, <1>3, SameTrans
<1>5. SameOthers(gp, gp', g)
  BY <1>2, <1>3 DEF SameOthers
<1> QED
  BY <1>1, <1>2, <1>3, <1>4, <1>5, SameHeld

LEMMA SuspendGroupHeld ==
  ASSUME Held(gp, run), NEW g \in Ids, SuspendGroup(g) \/ ResumeGroup(g)
  PROVE  Held(gp', run') /\ SameTasks(gp, gp') /\ SameGroups(gp, gp')
<1>1. PoolSound(gp) /\ IsValid(gp, g) /\ run' = run
      /\ gp' \in {SuspendedGroup(gp, g), ResumedGroup(gp, g)}
  BY DEF SuspendGroup, ResumeGroup, Held
<1>2. PoolSound(gp') /\ SameTasks(gp, gp') /\ SameGroups(gp, gp')
  BY <1>1, SuspendedKeeps, ResumedKeeps
<1> QED
  BY <1>1, <1>2, SameHeld

LEMMA SuspendAllHeld ==
  ASSUME Held(gp, run), SuspendAllGroups \/ ResumeAllGroups
  PROVE  Held(gp', run') /\ SameTasks(gp, gp') /\ SameGroups(gp, gp')
<1>1. PoolSound(gp) /\ run' = run /\ gp' \in {SuspendedAll(gp), ResumedAll(gp)}
  BY DEF SuspendAllGroups, ResumeAllGroups, Held
<1>2. PoolSound(gp') /\ SameTasks(gp, gp') /\ SameGroups(gp, gp')
  BY <1>1, SuspendedAllKeeps, ResumedAllKeeps
<1> QED
  BY <1>1, <1>2, SameHeld

LEMMA SetAttributesHeld ==
  ASSUME Held(gp, run), NEW g \in Ids, NEW attr \in Attrs, SetAttributes(g, attr)
  PROVE  Held(gp', run') /\ SameTasks(gp, gp') /\ SameGroups(gp, gp')
<1>1. attr[1] \in Int /\ attr[2] \in BOOLEAN
  BY GpAssumption
<1>2. PoolSound(gp) /\ gp \in GpShape /\ run' = run
      /\ gp' = SetAttr(gp, g, attr[1], attr[2])
  BY DEF SetAttributes, Held, PoolSound
<1>3. gp' \in GpShape /\ Listed(gp, gp')
  BY <1>1, <1>2, SetAttrListed
<1>4. PoolSound(gp') /\ SameTasks(gp, gp') /\ SameGroups(gp, gp')
  BY <1>2, <1>3, ListedKeeps
<1> QED
  BY <1>2, <1>4, SameHeld

LEMMA SetThreadsHeld ==
  ASSUME Held(gp, run), NEW max \in MaxThreads, SetThreads(max)
  PROVE  Held(gp', run') /\ SameTasks(gp, gp') /\ SameGroups(gp, gp')
<1> DEFINE s == [gp EXCEPT !.maxthreads = max]
<1>1. PoolSound(gp) /\ gp \in GpShape /\ TaskSound(gp) /\ run' = run
      /\ gp' = UpdateAllEnv(s)
  BY DEF SetThreads, Held, PoolSound
<1>2. s \in GpShape /\ Listed(gp, s)
  BY <1>1 DEF GpShape, Listed, Alike
<1> HIDE DEF s
<1>3. gp' \in GpShape /\ Listed(gp, gp')
  BY <1>1, <1>2, UpdateAllEnvListed, SameTrans
<1>4. PoolSound(gp') /\ SameTasks(gp, gp') /\ SameGroups(gp, gp')
  BY <1>1, <1>3, ListedKeeps
<1> QED
  BY <1>1, <1>4, SameHeld

\* An entry that has never been a group.
Unused(e) ==
    /\ e.used = "free" /\ ~e.paused /\ e.queue = <<>> /\ ~e.active
    /\ e.limit_tasks = 0 /\ e.npendings_eff = 0 /\ e.nrunnings = 0
    /\ e.ndispatchings = 0 /\ ~e.receive_benifits

\* The table before its first group is created.
LEMMA EmptyTable ==
  ASSUME GpInit
  PROVE  \E b : /\ PoolSound(b) /\ 0 \in Free(b) /\ gp = Created(b, 0, FALSE)
                /\ b.stat = [t \in Tasks |-> "idle"] /\ b.wpending = {}
                /\ b.dispatch_q = <<>> /\ b.order = <<>>
                /\ b.npendings = 0 /\ b.effective = 0 /\ b.ndispatchings = 0
                /\ ~b.spinning /\ \A g \in Ids : Unused(b.entry[g])
<1> DEFINE free == [ used |-> "free", throttle |-> FALSE, active |-> FALSE,
                     paused |-> FALSE, limit_paralle_tasks |-> 0,
                     limit_tasks |-> 0, receive_benifits |-> FALSE,
                     npendings_eff |-> 0, nrunnings |-> 0, ndispatchings |-> 0,
                     queue |-> <<>> ]
           none(max) ==
                   [ entry |-> [g \in Ids |-> free], num |-> 0,
                     actentry |-> [i \in Ids |-> i], active_idx |-> 0,
                     nactives_ok |-> 0, npendings |-> 0, effective |-> 0,
                     ndispatchings |-> 0, paused |-> FALSE,
                     destroying |-> FALSE, throttle_on |-> FALSE,
                     maxthreads |-> max, stat |-> [t \in Tasks |-> "idle"],
                     wpending |-> {}, gid |-> [t \in Tasks |-> 0],
                     thread |-> [t \in Tasks |-> NoThread], order |-> <<>>,
                     dispatch_q |-> <<>>, spinning |-> FALSE ]
<1>1. PICK max \in MaxThreads : gp = Created(Grown(none(max)), 0, FALSE)
  BY DEF GpInit
<1> DEFINE s == none(max)
<1>2. /\ s.num = 0 /\ s.actentry = [i \in Ids |-> i]
      /\ s.active_idx = 0 /\ s.nactives_ok = 0 /\ s.stat = [t \in Tasks |-> "idle"]
      /\ s.wpending = {} /\ s.dispatch_q = <<>> /\ s.order = <<>>
      /\ s.npendings = 0 /\ s.effective = 0 /\ s.ndispatchings = 0 /\ ~s.spinning
  OBVIOUS
<1>3. s \in GpShape
  <2>1. free \in EntryShape
    BY EmptySeq DEF EntryShape
  <2> HIDE DEF free
  <2>2. [g \in Ids |-> free] \in [Ids -> EntryShape]
    BY <2>1
  <2>3. /\ [i \in Ids |-> i] \in [Ids -> Ids] /\ 0 \in 0 .. MaxNum
        /\ [t \in Tasks |-> "idle"] \in [Tasks -> TaskStats]
        /\ [t \in Tasks |-> 0] \in [Tasks -> Ids]
        /\ [t \in Tasks |-> NoThread] \in [Tasks -> Threads \cup {NoThread}]
    BY IdsFinite DEF TaskStats
  <2>4. <<>> \in Seq(Tasks)
    BY EmptySeq
  <2> QED
    BY <2>2, <2>3, <2>4 DEF GpShape
<1>4. \A g \in Ids : Unused(s.entry[g])
  BY DEF Unused
<1> HIDE DEF s
<1>5. \A g \in Ids : s.entry[g].used = "free" /\ ~s.entry[g].active
                     /\ s.entry[g].queue = <<>>
  BY <1>4 DEF Unused
<1>6. Range(<<>>) = {} /\ Once(<<>>)
  BY DEF Range, Once
<1>7. TaskSound(s)
  BY <1>2, <1>5, <1>6 DEF TaskSound
<1>8. Actives(s) = {} /\ First(s) = {} /\ ReadyGroups(s) = {}
  <2>1. 0 .. (0 - 1) = {}
    BY SMT
  <2> QED
    BY <1>2, <1>5, <2>1 DEF Actives, First, ReadyGroups, Ready
<1>9. GroupSound(s)
  <2>1. OnePlaceEach(s)
    BY <1>2 DEF OnePlaceEach
  <2>2. 0 = Cardinality({}) /\ 0 \in 0 .. MaxNum
    BY FS_EmptySet, IdsFinite
  <2> QED
    BY <1>2, <1>8, <2>1, <2>2 DEF GroupSound, ListSound
<1>10. PoolSound(s)
  BY <1>3, <1>7, <1>9 DEF PoolSound
<1> DEFINE b == Grown(s)
<1>11. b = [s EXCEPT !.num = 0 + Inc]
  <2>1. Free(s) = {}
    BY <1>2 DEF Free
  <2> QED
    BY <1>2, <2>1 DEF Grown
<1>12. /\ b.num = Inc /\ b.entry = s.entry /\ b.npendings = 0 /\ b.effective = 0
       /\ b.ndispatchings = 0 /\ ~b.spinning /\ b.order = <<>>
  BY <1>2, <1>3, <1>11, GpAssumption DEF GpShape
<1>13. 0 \in Free(b) /\ b.num <= MaxNum
  BY <1>5, <1>12, GpAssumption, IdsFinite DEF Free
<1>14. PoolSound(b) /\ SameTasks(s, b)
  BY <1>10, <1>13, GrownKeeps
<1>15. gp = Created(b, 0, FALSE)
  BY <1>1 DEF s
<1> HIDE DEF b
<1>16. /\ b.stat = [t \in Tasks |-> "idle"] /\ b.wpending = {} /\ b.dispatch_q = <<>>
       /\ \A g \in Ids : Unused(b.entry[g])
  BY <1>2, <1>4, <1>12, <1>14 DEF SameTasks
<1> QED
  BY <1>12, <1>13, <1>14, <1>15, <1>16

LEMMA EmptyHeld ==
  ASSUME GpInit
  PROVE  /\ Held(gp, run) /\ run = [r \in Runners |->
                [ q |-> <<>>, normal |-> FALSE, detached |-> FALSE, leaving |-> NoTask,
                  deleting |-> NoGroup ]]
         /\ gp.stat = [t \in Tasks |-> "idle"] /\ gp.dispatch_q = <<>>
<1> DEFINE x == [ q |-> <<>>, normal |-> FALSE, detached |-> FALSE, leaving |-> NoTask,
                  deleting |-> NoGroup ]
<1>1. run = [r \in Runners |-> x]
  BY DEF GpInit
<1>2. PICK b : /\ PoolSound(b) /\ 0 \in Free(b) /\ gp = Created(b, 0, FALSE)
               /\ b.stat = [t \in Tasks |-> "idle"] /\ b.dispatch_q = <<>>
  BY EmptyTable
<1>3. PoolSound(gp) /\ SameTasks(b, gp)
  BY <1>2, CreatedKeeps
<1>4. x \in RunType /\ x.q = <<>> /\ ~x.detached /\ x.leaving = NoTask
  BY EmptySeq DEF RunType
<1> HIDE DEF x
<1>5. \A r \in Runners : run[r] = x
  BY <1>1
<1>6. Range(<<>>) = {} /\ Once(<<>>)
  BY DEF Range, Once
<1>7. Live(x) = {}
  BY <1>4, <1>6 DEF Live
<1>8. HandSound(gp, run)
  BY <1>4, <1>5, <1>6, <1>7 DEF HandSound
<1>9. run \in [Runners -> RunType]
  BY <1>1, <1>4
<1> QED
  BY <1>1, <1>2, <1>3, <1>8, <1>9 DEF Held, SameTasks, x

-----------------------------------------------------------------------------
(***************************************************************************)
(* The groups that are searched                                            *)
(***************************************************************************)

LEMMA HeldFirst ==
  ASSUME Held(gp, run)
  PROVE  FirstEntries
<1>1. /\ gp \in GpShape /\ TaskSound(gp) /\ GroupSound(gp) /\ ListSound(gp)
      /\ OnePlaceEach(gp)
  BY DEF Held, PoolSound, GroupSound, ListSound
<1>2. Actives(gp) = ReadyGroups(gp) /\ Actives(gp) \subseteq First(gp)
      /\ gp.nactives_ok = Cardinality(Actives(gp))
      /\ \A g \in First(gp) : ~gp.entry[g].paused
  BY <1>1 DEF GroupSound, ListSound
<1>3. {gp.actentry[i] : i \in Ids} = Ids
  <2>1. gp.actentry \in [Ids -> Ids]
    BY <1>1 DEF GpShape
  <2> QED
    BY <1>1, <2>1 DEF OnePlaceEach
<1> QED
  BY <1>2, <1>3 DEF FirstEntries, Actives, First

LEMMA UserRemovesHeld ==
  ASSUME Held(gp, run), NEW u \in Users,
         \/ \E t \in Tasks, bypool \in BOOLEAN : RemoveTask(u, t, bypool)
         \/ \E bypool \in BOOLEAN : MarkCb(u, bypool)
         \/ \E g \in Ids, bypool \in BOOLEAN : EntryMarkCb(u, g, bypool)
  PROVE  Held(gp', run')
<1>1. ASSUME NEW t \in Tasks, NEW bypool \in BOOLEAN, RemoveTask(u, t, bypool)
      PROVE  Held(gp', run')
  <2>1. /\ u \in Runners /\ IdleUser(u) /\ {t} \in SUBSET Tasks
        /\ RemoveThese(u, {t}, bypool)
    BY <1>1 DEF RemoveTask, Runners
  <2> QED
    BY <2>1, RemoveTheseHeld
<1>2. ASSUME NEW bypool \in BOOLEAN, MarkCb(u, bypool)
      PROVE  Held(gp', run')
  <2>1. PICK X \in SUBSET Removable(gp) : RemoveThese(u, X, bypool)
    BY <1>2 DEF MarkCb
  <2>2. u \in Runners /\ IdleUser(u) /\ X \in SUBSET Tasks
    BY <1>2 DEF MarkCb, Runners, Removable
  <2> QED
    BY <2>1, <2>2, RemoveTheseHeld
<1>3. ASSUME NEW g \in Ids, NEW bypool \in BOOLEAN, EntryMarkCb(u, g, bypool)
      PROVE  Held(gp', run')
  <2>1. PICK X \in SUBSET (Removable(gp) \cap OfGroup(gp, g)) : RemoveThese(u, X, bypool)
    BY <1>3 DEF EntryMarkCb
  <2>2. u \in Runners /\ IdleUser(u) /\ X \in SUBSET Tasks
    BY <1>3 DEF EntryMarkCb, Runners, Removable
  <2> QED
    BY <2>1, <2>2, RemoveTheseHeld
<1> QED
  BY <1>1, <1>2, <1>3

LEMMA GpHeld ==
  ASSUME TRUE \notin Suspended, Held(gp, run), [GpNext]_gpvars
  PROVE  Held(gp', run')
<1>1. ASSUME NEW th \in Threads, Serve(th)
      PROVE  Held(gp', run')
  BY <1>1, TakeHeld, TakeRemovedHeld, FinishedHeld DEF Serve
<1>2. ASSUME NEW u \in Users, UserStep(u)
      PROVE  Held(gp', run')
  <2>1. CASE DispatchNext(u)
    BY <2>1, DispatchNextHeld
  <2>2. CASE \/ \E t \in Tasks, bypool \in BOOLEAN : RemoveTask(u, t, bypool)
             \/ \E bypool \in BOOLEAN : MarkCb(u, bypool)
             \/ \E g \in Ids, bypool \in BOOLEAN : EntryMarkCb(u, g, bypool)
    BY <2>2, UserRemovesHeld
  <2>3. ASSUME NEW g \in Ids, DeleteGroup(u, g)
        PROVE  Held(gp', run')
    BY <2>3, DeleteGroupHeld
  <2>4. CASE GroupFreed(u)
    BY <2>4, GroupFreedHeld
  <2> QED
    BY <1>2, <2>1, <2>2, <2>3, <2>4 DEF UserStep
<1>3. CASE GroupCall
  <2>1. ASSUME NEW t \in Tasks, NEW g \in Ids, Queue(t, g)
        PROVE  Held(gp', run')
    BY <2>1, QueueHeld
  <2>2. ASSUME NEW g \in Ids, NEW suspend \in Suspended, CreateGroup(g, suspend)
        PROVE  Held(gp', run')
    <3>1. suspend = FALSE
      BY GpAssumption
    <3> QED
      BY <2>2, <3>1, CreateGroupHeld
  <2>3. ASSUME NEW g \in Ids, SuspendGroup(g) \/ ResumeGroup(g)
        PROVE  Held(gp', run')
    BY <2>3, SuspendGroupHeld
  <2>4. CASE SuspendAllGroups \/ ResumeAllGroups
    BY <2>4, SuspendAllHeld
  <2>5. ASSUME NEW g \in Ids, NEW attr \in Attrs, SetAttributes(g, attr)
        PROVE  Held(gp', run')
    BY <2>5, SetAttributesHeld
  <2>6. ASSUME NEW max \in MaxThreads, SetThreads(max)
        PROVE  Held(gp', run')
    BY <2>6, SetThreadsHeld
  <2> QED
    BY <1>3, <2>1, <2>2, <2>3, <2>4, <2>5, <2>6 DEF GroupCall
<1>4. CASE UNCHANGED gpvars
  BY <1>4 DEF gpvars
<1> QED
  BY <1>1, <1>2, <1>3, <1>4 DEF GpNext

\* Whatever groups are created, suspended, resumed, emptied and deleted, and tasks
\* queued, taken, removed and finished meanwhile: the entries get_pending_task
\* looks at are all those with tasks to take and no suspended ones.  No group is
\* created suspended: one that is destroys this (run GpPaused).
THEOREM FirstEntriesAlways ==
  ASSUME TRUE \notin Suspended
  PROVE  GpSpec => []FirstEntries
<1>1. GpInit => Held(gp, run)
  BY EmptyHeld
<1>2. Held(gp, run) /\ [GpNext]_gpvars => Held(gp, run)'
  BY GpHeld
<1>3. Held(gp, run) => FirstEntries
  BY HeldFirst
<1> QED
  BY <1>1, <1>2, <1>3, PTL DEF GpSpec
=============================================================================
