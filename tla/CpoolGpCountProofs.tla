-------------------------- MODULE CpoolGpCountProofs --------------------------
(***************************************************************************)
(* What the group pool counts is right, whatever its users do: GroupCounts *)
(* is an invariant of CpoolGp, no thread searches for ever (NoSpinning),   *)
(* and it takes the task that goes first (TakesFirst).                     *)
(*                                                                         *)
(* The counters change by one at each call, and by whole groups when these *)
(* are suspended or resumed: so they are related to sums over the entries, *)
(* of which a step changes one term, and to the numbers of tasks that are  *)
(* in hand.  Held, the invariant of CpoolGpProofs, goes with them.         *)
(***************************************************************************)
EXTENDS CpoolGpProofs

-----------------------------------------------------------------------------
(***************************************************************************)
(* Sums                                                                    *)
(***************************************************************************)

\* Induction over the parts of a finite set.
LEMMA SubsetInduction ==
  ASSUME NEW D, IsFiniteSet(D), NEW P, {} \in P,
         \A s \in SUBSET D : \A x \in D \ s : s \in P => s \cup {x} \in P
  PROVE  SUBSET D \subseteq P
<1> DEFINE Q == {n \in Nat : \A s \in SUBSET D : Cardinality(s) = n => s \in P}
<1>1. \A s \in SUBSET D : IsFiniteSet(s) /\ Cardinality(s) \in Nat
  BY FS_Subset, FS_CardinalityType
<1>2. 0 \in Q
  BY <1>1, FS_EmptySet
<1>3. ASSUME NEW n \in Nat, n \in Q PROVE n + 1 \in Q
  <2> SUFFICES ASSUME NEW s \in SUBSET D, Cardinality(s) = n + 1 PROVE s \in P
    OBVIOUS
  <2>1. s # {}
    <3>1. Cardinality({}) = 0
      BY FS_EmptySet
    <3> QED
      BY <3>1
  <2>2. PICK x \in s : TRUE
    BY <2>1
  <2>3. Cardinality(s \ {x}) = n
    <3>1. Cardinality(s \ {x}) = Cardinality(s) - 1
      BY <1>1, <2>2, FS_RemoveElement
    <3> QED
      BY <3>1
  <2>4. s \ {x} \in P
    BY <1>3, <2>3
  <2>5. s = (s \ {x}) \cup {x} /\ x \in D \ (s \ {x}) /\ s \ {x} \in SUBSET D
    BY <2>2
  <2> QED
    BY <2>4, <2>5
<1> HIDE DEF Q
<1>4. Nat \subseteq Q
  BY <1>2, <1>3, NatSetInduction
<1> QED
  BY <1>1, <1>4 DEF Q

\* Which term the sum takes first.
One(s) == CHOOSE x \in s : TRUE

\* The sum for s from those for smaller sets.
SumAt(f, h, s) == IF s = {} THEN 0 ELSE f[One(s)] + h[s \ {One(s)}]

\* h has the sum of f over every part of D.
SumsOf(h, f, D) == h = [s \in SUBSET D |-> SumAt(f, h, s)]

\* The sums that SumFunctionOnSet chooses exist.
LEMMA SumExists ==
  ASSUME NEW E, NEW f \in [E -> Int], NEW D \in SUBSET E, IsFiniteSet(D)
  PROVE  \E h \in [SUBSET D -> Int] : SumsOf(h, f, D)
<1> DEFINE Upto(n) == {s \in SUBSET D : Cardinality(s) <= n}
           Q == {n \in Nat : \E h \in [Upto(n) -> Int] :
                                \A s \in Upto(n) : h[s] = SumAt(f, h, s)}
<1>1. \A s \in SUBSET D : IsFiniteSet(s) /\ Cardinality(s) \in Nat
  BY FS_Subset, FS_CardinalityType
<1>2. 0 \in Q
  <2> DEFINE h == [s \in Upto(0) |-> 0]
  <2>1. \A s \in Upto(0) : s = {}
    BY <1>1, FS_EmptySet
  <2>2. h \in [Upto(0) -> Int] /\ \A s \in Upto(0) : h[s] = SumAt(f, h, s)
    BY <2>1 DEF SumAt
  <2> QED
    BY <2>2
<1>3. ASSUME NEW n \in Nat, n \in Q PROVE n + 1 \in Q
  <2>1. PICK h \in [Upto(n) -> Int] : \A s \in Upto(n) : h[s] = SumAt(f, h, s)
    BY <1>3
  <2> DEFINE k == [s \in Upto(n + 1) |-> SumAt(f, h, s)]
  <2>2. ASSUME NEW s \in Upto(n + 1), s # {}
        PROVE  One(s) \in s /\ s \ {One(s)} \in Upto(n)
    <3>1. One(s) \in s
      BY <2>2 DEF One
    <3>2. Cardinality(s \ {One(s)}) = Cardinality(s) - 1
      BY <1>1, <3>1, FS_RemoveElement
    <3> QED
      BY <1>1, <3>1, <3>2
  <2>3. k \in [Upto(n + 1) -> Int]
    BY <2>2 DEF SumAt
  <2>4. Upto(n) \subseteq Upto(n + 1)
    BY <1>1
  <2>5. \A s \in Upto(n) : k[s] = h[s]
    BY <2>1, <2>4
  <2>6. \A s \in Upto(n + 1) : k[s] = SumAt(f, k, s)
    BY <2>2, <2>5 DEF SumAt
  <2>7. n + 1 \in Nat
    OBVIOUS
  <2> HIDE DEF k
  <2> QED
    BY <2>3, <2>6, <2>7, Zenon
<1>4. Cardinality(D) \in Q
  <2> HIDE DEF Q
  <2> QED
    BY <1>1, <1>2, <1>3, NatSetInduction
<1>5. Upto(Cardinality(D)) = SUBSET D
  BY FS_Subset
<1>6. PICK h \in [SUBSET D -> Int] : \A s \in SUBSET D : h[s] = SumAt(f, h, s)
  BY <1>4, <1>5
<1>7. SumsOf(h, f, D)
  BY <1>6 DEF SumsOf
<1> QED
  BY <1>6, <1>7

LEMMA SumChosen ==
  ASSUME NEW f, NEW D
  PROVE  SumFunctionOnSet(f, D) = (CHOOSE h : SumsOf(h, f, D))[D]
BY DEF SumFunctionOnSet, FoldFunctionOnSet, MapThenFoldSet, SumsOf, SumAt, One

\* h has the sum of f over each part of D, in whatever order it is taken.
IsSum(h, f, D) ==
    /\ h \in [SUBSET D -> Int] /\ h[{}] = 0
    /\ \A s \in SUBSET D : \A x \in s : h[s] = f[x] + h[s \ {x}]

\* What they are.
LEMMA SumIs ==
  ASSUME NEW E, NEW f \in [E -> Int], NEW D \in SUBSET E, IsFiniteSet(D)
  PROVE  \E h : IsSum(h, f, D) /\ SumFunctionOnSet(f, D) = h[D]
<1> DEFINE h == CHOOSE g : SumsOf(g, f, D)
<1>1. SumsOf(h, f, D)
  BY SumExists
<1>2. SumFunctionOnSet(f, D) = h[D]
  BY SumChosen
<1> HIDE DEF h
<1>3. h \in [SUBSET D -> Int]
  <2>1. PICK k \in [SUBSET D -> Int] : SumsOf(k, f, D)
    BY SumExists
  <2> DEFINE P == {s \in SUBSET D : h[s] = k[s]}
  <2>2. {} \in P
    BY <1>1, <2>1 DEF SumsOf, SumAt
  <2>3. \A s \in SUBSET D : h[s] = k[s]
    <3> DEFINE Q == {n \in Nat : \A s \in SUBSET D : Cardinality(s) = n => h[s] = k[s]}
    <3>1. \A s \in SUBSET D : IsFiniteSet(s) /\ Cardinality(s) \in Nat
      BY FS_Subset, FS_CardinalityType
    <3>2. 0 \in Q
      BY <2>2, <3>1, FS_EmptySet
    <3>3. ASSUME NEW n \in Nat, n \in Q PROVE n + 1 \in Q
      <4> SUFFICES ASSUME NEW s \in SUBSET D, Cardinality(s) = n + 1 PROVE h[s] = k[s]
        OBVIOUS
      <4>1. s # {}
        <5>1. Cardinality({}) = 0 /\ n + 1 # 0
          BY FS_EmptySet
        <5> QED
          BY <5>1
      <4>2. One(s) \in s
        BY <4>1 DEF One
      <4>3. Cardinality(s \ {One(s)}) = n
        <5>1. Cardinality(s \ {One(s)}) = Cardinality(s) - 1
          BY <3>1, <4>2, FS_RemoveElement
        <5> QED
          BY <5>1
      <4>4. h[s \ {One(s)}] = k[s \ {One(s)}]
        BY <3>3, <4>3
      <4> QED
        BY <1>1, <2>1, <4>1, <4>4 DEF SumsOf, SumAt
    <3> HIDE DEF Q
    <3>4. Nat \subseteq Q
      BY <3>2, <3>3, NatSetInduction
    <3> QED
      BY <3>1, <3>4 DEF Q
  <2>4. h = [s \in SUBSET D |-> h[s]]
    BY <1>1 DEF SumsOf
  <2> QED
    BY <2>1, <2>3, <2>4
<1>4. h[{}] = 0
  BY <1>1 DEF SumsOf, SumAt
<1>5. \A s \in SUBSET D : s # {} => One(s) \in s /\ h[s] = f[One(s)] + h[s \ {One(s)}]
  BY <1>1 DEF SumsOf, SumAt, One
<1> DEFINE P == {s \in SUBSET D : \A x \in s : h[s] = f[x] + h[s \ {x}]}
           Q == {n \in Nat : \A s \in SUBSET D : Cardinality(s) = n => s \in P}
<1>6. \A s \in SUBSET D : IsFiniteSet(s) /\ Cardinality(s) \in Nat
  BY FS_Subset, FS_CardinalityType
<1>7. 0 \in Q
  BY <1>6, FS_EmptySet
<1>8. ASSUME NEW n \in Nat, n \in Q PROVE n + 1 \in Q
  <2> SUFFICES ASSUME NEW s \in SUBSET D, Cardinality(s) = n + 1, NEW x \in s
               PROVE  h[s] = f[x] + h[s \ {x}]
    OBVIOUS
  <2> DEFINE y == One(s)
  <2>1. y \in s /\ h[s] = f[y] + h[s \ {y}]
    BY <1>5
  <2> HIDE DEF y
  <2>2. CASE x = y
    BY <2>1, <2>2
  <2>3. CASE x # y
    <3>1. Cardinality(s \ {x}) = n /\ Cardinality(s \ {y}) = n
      <4>1. Cardinality(s \ {x}) = Cardinality(s) - 1 /\ Cardinality(s \ {y}) = Cardinality(s) - 1
        BY <1>6, <2>1, FS_RemoveElement
      <4> QED
        BY <4>1
    <3>2. s \ {x} \in P /\ s \ {y} \in P
      BY <1>8, <3>1
    <3>3. h[s \ {y}] = f[x] + h[(s \ {y}) \ {x}] /\ h[s \ {x}] = f[y] + h[(s \ {x}) \ {y}]
      BY <2>1, <2>3, <3>2
    <3>4. (s \ {y}) \ {x} = (s \ {x}) \ {y}
      OBVIOUS
    <3>5. x \in E /\ y \in E /\ (s \ {x}) \ {y} \in SUBSET D
      BY <2>1
    <3>6. f[x] \in Int /\ f[y] \in Int /\ h[(s \ {x}) \ {y}] \in Int
      BY <1>3, <3>5
    <3> DEFINE a == h[(s \ {x}) \ {y}]
    <3>7. h[s] = f[y] + (f[x] + a) /\ h[s \ {x}] = f[y] + a
      BY <2>1, <3>3, <3>4
    <3> HIDE DEF a
    <3>8. f[y] + (f[x] + a) = f[x] + (f[y] + a)
      BY <3>6 DEF a
    <3> QED
      BY <3>7, <3>8
  <2> QED
    BY <2>2, <2>3
<1> HIDE DEF Q
<1>9. Nat \subseteq Q
  BY <1>7, <1>8, NatSetInduction
<1>10. \A s \in SUBSET D : s \in P
  BY <1>6, <1>9 DEF Q
<1>11. IsSum(h, f, D)
  BY <1>3, <1>4, <1>10 DEF IsSum
<1> QED
  BY <1>2, <1>11

\* One term changes.
LEMMA SumChanges ==
  ASSUME NEW D, IsFiniteSet(D), NEW f \in [D -> Int], NEW f2 \in [D -> Int], NEW g \in D,
         \A x \in D : x # g => f2[x] = f[x]
  PROVE  /\ SumFunctionOnSet(f, D) \in Int
         /\ SumFunctionOnSet(f2, D) = SumFunctionOnSet(f, D) + (f2[g] - f[g])
<1>0. D \in SUBSET D
  OBVIOUS
<1>1. PICK h : IsSum(h, f, D) /\ SumFunctionOnSet(f, D) = h[D]
  BY <1>0, SumIs
<1>2. PICK k : IsSum(k, f2, D) /\ SumFunctionOnSet(f2, D) = k[D]
  BY <1>0, SumIs
<1> DEFINE C == D \ {g}
<1>3. C \in SUBSET D /\ IsFiniteSet(C)
  BY FS_Subset
<1> DEFINE P == {s \in SUBSET C : k[s] = h[s]}
<1>4. {} \in P
  BY <1>1, <1>2 DEF IsSum
<1>5. ASSUME NEW s \in SUBSET C, NEW x \in C \ s, s \in P
      PROVE  s \cup {x} \in P
  <2> DEFINE u == s \cup {x}
  <2>1. u \in SUBSET D /\ x \in u /\ u \ {x} = s
    BY <1>5
  <2> HIDE DEF u
  <2>2. h[u] = f[x] + h[s] /\ k[u] = f2[x] + k[s]
    BY <1>1, <1>2, <2>1 DEF IsSum
  <2>3. k[u] = h[u] /\ u \in SUBSET C
    BY <1>5, <2>2 DEF u
  <2> QED
    BY <2>3 DEF u
<1>6. C \in P
  <2> HIDE DEF P, C
  <2>1. SUBSET C \subseteq P
    BY <1>3, <1>4, <1>5, SubsetInduction
  <2> QED
    BY <2>1
<1>7. h[D] = f[g] + h[D \ {g}] /\ k[D] = f2[g] + h[D \ {g}]
  BY <1>0, <1>1, <1>2, <1>6, ZenonT(40) DEF IsSum
<1>8. h[D \ {g}] \in Int /\ f[g] \in Int /\ f2[g] \in Int /\ h[D] \in Int
  BY <1>0, <1>1, <1>3 DEF IsSum
<1> QED
  BY <1>1, <1>2, <1>7, <1>8

\* Terms that are zero can be left out.
LEMMA SumOfPart ==
  ASSUME NEW D, IsFiniteSet(D), NEW f \in [D -> Int], NEW f2 \in [D -> Int],
         NEW R \in SUBSET D, \A x \in R : f2[x] = f[x], \A x \in D \ R : f2[x] = 0
  PROVE  SumFunctionOnSet(f, R) = SumFunctionOnSet(f2, D)
<1>0. D \in SUBSET D /\ IsFiniteSet(R)
  BY FS_Subset
<1>1. PICK h : IsSum(h, f, R) /\ SumFunctionOnSet(f, R) = h[R]
  BY <1>0, SumIs
<1>2. PICK k : IsSum(k, f2, D) /\ SumFunctionOnSet(f2, D) = k[D]
  BY <1>0, SumIs
<1> DEFINE P == {s \in SUBSET D : k[s] = h[s \cap R]}
<1>4. {} \in P
  BY <1>1, <1>2 DEF IsSum
<1>5. ASSUME NEW s \in SUBSET D, NEW x \in D \ s, s \in P
      PROVE  s \cup {x} \in P
  <2> DEFINE u == s \cup {x}
  <2>1. u \in SUBSET D /\ x \in u /\ u \ {x} = s
    BY <1>5
  <2> HIDE DEF u
  <2>2. k[u] = f2[x] + k[s] /\ k[s] = h[s \cap R]
    BY <1>2, <1>5, <2>1 DEF IsSum
  <2>3. x \in D /\ s \in SUBSET D /\ x \notin s /\ u = s \cup {x}
    BY <1>5 DEF u
  <2>4. k[u] = h[u \cap R]
    <3>1. CASE x \in R
      <4>1. u \cap R \in SUBSET R /\ x \in u \cap R
        BY <2>1, <3>1
      <4>2. (u \cap R) \ {x} = s \cap R
        BY <2>1
      <4> DEFINE w == u \cap R
      <4>3. w \in SUBSET R /\ x \in w /\ w \ {x} = s \cap R
        BY <4>1, <4>2
      <4> HIDE DEF w
      <4>4. h[w] = f[x] + h[w \ {x}]
        BY <1>1, <4>3 DEF IsSum
      <4>5. h[u \cap R] = f[x] + h[s \cap R]
        BY <4>3, <4>4 DEF w
      <4> QED
        BY <2>2, <3>1, <4>5
    <3>2. CASE x \notin R
      <4>1. u \cap R = s \cap R /\ s \cap R \in SUBSET R
        BY <2>3, <3>2
      <4>2. f2[x] = 0
        BY <2>3, <3>2
      <4>3. h[s \cap R] \in Int
        BY <1>1, <4>1 DEF IsSum
      <4> QED
        BY <2>2, <4>1, <4>2, <4>3
    <3> QED
      BY <3>1, <3>2
  <2> QED
    BY <2>1, <2>4 DEF u
<1>6. D \in P
  <2> HIDE DEF P
  <2>1. SUBSET D \subseteq P
    BY <1>4, <1>5, SubsetInduction
  <2> QED
    BY <2>1
<1>7. D \cap R = R
  OBVIOUS
<1> QED
  BY <1>1, <1>2, <1>6, <1>7

\* Sums of natural numbers.
LEMMA SumOfNats ==
  ASSUME NEW D, IsFiniteSet(D), NEW f \in [D -> Nat]
  PROVE  /\ SumFunctionOnSet(f, D) \in Nat
         /\ \A g \in D : f[g] <= SumFunctionOnSet(f, D)
         /\ SumFunctionOnSet(f, D) # 0 => \E g \in D : f[g] # 0
<1>0. D \in SUBSET D /\ f \in [D -> Int]
  OBVIOUS
<1>1. PICK h : IsSum(h, f, D) /\ SumFunctionOnSet(f, D) = h[D]
  BY <1>0, SumIs
<1> DEFINE P == {s \in SUBSET D : h[s] \in Nat /\ (h[s] # 0 => \E g \in D : f[g] # 0)}
<1>4. {} \in P
  BY <1>1 DEF IsSum
<1>5. ASSUME NEW s \in SUBSET D, NEW x \in D \ s, s \in P
      PROVE  s \cup {x} \in P
  <2> DEFINE u == s \cup {x}
  <2>1. u \in SUBSET D /\ x \in u /\ u \ {x} = s
    BY <1>5
  <2> HIDE DEF u
  <2>2. h[u] = f[x] + h[s] /\ h[s] \in Nat /\ f[x] \in Nat
    BY <1>1, <1>5, <2>1 DEF IsSum
  <2>3. h[u] \in Nat /\ (h[u] # 0 => f[x] # 0 \/ h[s] # 0)
    BY <2>2
  <2> QED
    BY <1>5, <2>1, <2>3 DEF u
<1>6. SUBSET D \subseteq P
  <2> HIDE DEF P
  <2> QED
    BY <1>4, <1>5, SubsetInduction
<1>7. h[D] \in Nat /\ (h[D] # 0 => \E g \in D : f[g] # 0)
  BY <1>0, <1>6
<1>8. ASSUME NEW g \in D PROVE f[g] <= h[D]
  <2>1. h[D] = f[g] + h[D \ {g}]
    BY <1>0, <1>1 DEF IsSum
  <2>2. D \ {g} \in SUBSET D
    OBVIOUS
  <2>3. h[D \ {g}] \in Nat /\ f[g] \in Nat
    BY <1>6, <2>2
  <2> QED
    BY <2>1, <2>3
<1> QED
  BY <1>1, <1>7, <1>8

-----------------------------------------------------------------------------
(***************************************************************************)
(* What the pool counts: the list of active entries does not change it     *)
(***************************************************************************)

\* f counts what e does.
SameNums(e, f) ==
    /\ f.used = e.used /\ f.paused = e.paused /\ f.queue = e.queue
    /\ f.limit_paralle_tasks = e.limit_paralle_tasks
    /\ f.limit_tasks = e.limit_tasks /\ f.receive_benifits = e.receive_benifits
    /\ f.npendings_eff = e.npendings_eff
    /\ f.nrunnings = e.nrunnings /\ f.ndispatchings = e.ndispatchings

\* What counts no pending tasks.
SameRest(s, p) ==
    /\ p.ndispatchings = s.ndispatchings /\ p.maxthreads = s.maxthreads
    /\ p.spinning = s.spinning

\* p counts what s does.
SameCounts(s, p) ==
    /\ p.npendings = s.npendings /\ p.effective = s.effective
    /\ p.order = s.order /\ SameRest(s, p)
    /\ \A g \in Ids : SameNums(s.entry[g], p.entry[g])

LEMMA SameCountsTrans ==
  ASSUME NEW s, NEW p, NEW q, SameCounts(s, p), SameCounts(p, q)
  PROVE  SameCounts(s, q)
BY DEF SameCounts, SameRest, SameNums

\* Entries change places, or leave and join the active ones: nothing is counted anew.
LEMMA SwapCounts ==
  ASSUME NEW s \in GpShape, NEW i \in Ids, NEW j \in Ids
  PROVE  SameCounts(s, Swap(s, i, j))
BY DEF Swap, GpShape, SameCounts, SameRest, SameNums

LEMMA FillCounts ==
  ASSUME NEW s \in GpShape, s.active_idx \in 0 .. MaxNum,
         NEW i \in 0 .. (s.active_idx - 1)
  PROVE  SameCounts(s, Fill(s, i))
<1> DEFINE later == {j \in (i + 1) .. (s.active_idx - 1) : IsActive(s, j)}
           m == CHOOSE j \in later : \A k \in later : j <= k
<1>1. Fill(s, i) = IF IsActive(s, i) \/ later = {} THEN s ELSE Swap(s, i, m)
  BY DEF Fill
<1>2. i \in Ids /\ later \subseteq Ids /\ later \subseteq Nat
  BY IdsFinite DEF Ids
<1>3. later # {} => m \in later
  <2>1. ASSUME later # {} PROVE \E j \in later : \A k \in later : j <= k
    <3>1. PICK j \in later : \A k \in later : <<k, j>> \notin OpToRel(<, Nat)
      BY <1>2, <2>1, NatLessThanWellFounded, WFMin, Zenon
    <3>2. \A k \in later : k \in Nat /\ j \in Nat /\ ~(k < j)
      BY <1>2, <3>1 DEF OpToRel
    <3> HIDE DEF later
    <3>3. \A k \in later : j <= k
      BY <3>2
    <3> QED
      BY <3>3
  <2> QED
    BY <2>1
<1> HIDE DEF later, m
<1>4. SameCounts(s, s)
  BY DEF SameCounts, SameRest, SameNums
<1> QED
  BY <1>1, <1>2, <1>3, <1>4, SwapCounts

LEMMA ShrinkCounts ==
  ASSUME NEW s \in GpShape, ListSound(s)
  PROVE  SameCounts(s, Shrink(s))
<1> DEFINE n == s.nactives_ok
           S == {p \in GpShape : Reordered(s, p) /\ SameCounts(s, p)}
<1>1. /\ s.active_idx \in 0 .. MaxNum /\ OnePlaceEach(s) /\ n \in Nat
      /\ n <= s.active_idx
  <2>1. /\ IsFiniteSet(First(s)) /\ Cardinality(First(s)) = s.active_idx
        /\ Actives(s) \subseteq First(s) /\ n = Cardinality(Actives(s))
    BY FirstCounted DEF First, ListSound
  <2> HIDE DEF n
  <2> QED
    BY <2>1, FS_Subset, FS_CardinalityType DEF ListSound
<1>2. s \in S
  BY <1>1 DEF Reordered, Alike, SameCounts, SameRest, SameNums
<1>3. \A p \in S, i \in 0 .. (n - 1) : Fill(p, i) \in S
  <2> SUFFICES ASSUME NEW p \in S, NEW i \in 0 .. (n - 1) PROVE Fill(p, i) \in S
    OBVIOUS
  <2>1. /\ p \in GpShape /\ OnePlaceEach(p) /\ p.active_idx = s.active_idx
        /\ Reordered(s, p) /\ SameCounts(s, p)
    BY DEF Reordered
  <2>2. p.active_idx \in 0 .. MaxNum /\ i \in 0 .. (p.active_idx - 1)
    <3> HIDE DEF n
    <3> QED
      BY <1>1, <2>1, IdsFinite
  <2>3. Reordered(p, Fill(p, i)) /\ SameCounts(p, Fill(p, i))
    BY <2>1, <2>2, FillKeeps, FillCounts
  <2> DEFINE q == Fill(p, i)
  <2> HIDE DEF q
  <2>4. Reordered(s, q) /\ SameCounts(s, q)
    BY <2>1, <2>3, SameCountsTrans DEF Reordered, Alike, q
  <2> QED
    BY <2>4 DEF q, Reordered
<1> HIDE DEF S, n
<1>4. PICK h \in [0 .. n -> S] : FillsOf(h, n, s)
  BY <1>1, <1>2, <1>3, FillSteps
<1>5. h[n] \in S /\ Shrink(s) = [h[n] EXCEPT !.active_idx = n]
  BY <1>1, <1>4 DEF Shrink, n, FillsOf, FillAll
<1>6. h[n] \in GpShape /\ SameCounts(s, h[n])
  BY <1>5 DEF S
<1>7. SameCounts(h[n], [h[n] EXCEPT !.active_idx = n])
  BY <1>6 DEF GpShape, SameCounts, SameRest, SameNums
<1> QED
  BY <1>5, <1>6, <1>7, SameCountsTrans

\* The bit active of an entry and the places of the list count nothing.
LEMMA PlacesCount ==
  ASSUME NEW s \in GpShape, NEW g \in Ids, NEW b \in BOOLEAN, NEW n \in Int
  PROVE  LET p == [s EXCEPT !.entry[g].active = b, !.nactives_ok = n]
         IN  p \in GpShape /\ SameCounts(s, p)
<1> DEFINE e == [s.entry[g] EXCEPT !.active = b]
           E == [s.entry EXCEPT ![g] = e]
           p == [s EXCEPT !.entry[g].active = b, !.nactives_ok = n]
<1>1. s.entry[g] \in EntryShape /\ s.entry \in [Ids -> EntryShape]
  BY DEF GpShape
<1>2. e \in EntryShape /\ SameNums(s.entry[g], e)
  BY <1>1 DEF EntryShape, SameNums
<1>3. p = [s EXCEPT !.entry = E, !.nactives_ok = n]
  BY DEF GpShape
<1> HIDE DEF e, p
<1>4. E \in [Ids -> EntryShape] /\ \A h \in Ids : SameNums(s.entry[h], E[h])
  BY <1>1, <1>2 DEF SameNums
<1> HIDE DEF E
<1>5. p \in GpShape /\ SameCounts(s, p)
  BY <1>3, <1>4 DEF GpShape, SameCounts, SameRest
<1> QED
  BY <1>5 DEF p

LEMMA FrontCounts ==
  ASSUME NEW s \in GpShape, NEW n \in Int
  PROVE  SameCounts(s, [s EXCEPT !.active_idx = n])
BY DEF GpShape, SameCounts, SameRest, SameNums

LEMMA ActivateCounts ==
  ASSUME NEW s \in GpShape, ListSound(s), NEW g \in Ids
  PROVE  SameCounts(s, Activate(s, g))
<1> DEFINE joined == [s EXCEPT !.entry[g].active = TRUE, !.nactives_ok = @ + 1]
           x == Index(s, g)
           p == Activate(s, g)
<1>1. joined \in GpShape /\ SameCounts(s, joined)
  <2>1. s.nactives_ok + 1 \in Int
    BY DEF GpShape
  <2>2. joined = [s EXCEPT !.entry[g].active = TRUE, !.nactives_ok = s.nactives_ok + 1]
    OBVIOUS
  <2> HIDE DEF joined
  <2> QED
    BY <2>1, <2>2, PlacesCount
<1>2. x \in Ids /\ x < MaxNum /\ x \in Nat /\ OnePlaceEach(joined) /\ s.active_idx \in 0 .. MaxNum
      /\ joined.actentry = s.actentry /\ joined.active_idx = s.active_idx
  <2>1. joined.actentry = s.actentry /\ joined.active_idx = s.active_idx
    BY DEF GpShape
  <2>2. x \in Ids
    BY IndexIs
  <2> HIDE DEF joined, x
  <2>3. x < MaxNum /\ x \in Nat
    BY <2>2, IdsFinite DEF Ids
  <2>4. OnePlaceEach(joined)
    BY <2>1 DEF ListSound, OnePlaceEach
  <2>5. s.active_idx \in 0 .. MaxNum
    BY DEF ListSound
  <2> QED
    BY <2>1, <2>2, <2>3, <2>4, <2>5
<1>3. p = IF joined.nactives_ok = 1 THEN [Swap(joined, 0, x) EXCEPT !.active_idx = 1]
          ELSE IF s.active_idx <= x
          THEN [Swap(joined, s.active_idx, x) EXCEPT !.active_idx = @ + 1]
          ELSE joined
  BY DEF Activate
<1> HIDE DEF joined, x, p
<1>4. ASSUME NEW i \in Ids, NEW n \in Int
      PROVE  /\ Swap(joined, i, x) \in GpShape
             /\ SameCounts(s, [Swap(joined, i, x) EXCEPT !.active_idx = n])
  <2>1. Swap(joined, i, x) \in GpShape
    BY <1>1, <1>2, SwapKeeps DEF Swapped
  <2>2. SameCounts(s, Swap(joined, i, x))
    BY <1>1, <1>2, SwapCounts, SameCountsTrans
  <2> QED
    BY <2>1, <2>2, FrontCounts, SameCountsTrans
<1>5. CASE joined.nactives_ok = 1
  BY <1>3, <1>4, <1>5, IdsFinite DEF p
<1>6. CASE joined.nactives_ok # 1 /\ s.active_idx <= x
  <2>1. s.active_idx \in Ids
    BY <1>2, <1>6, IdsFinite DEF Ids
  <2> DEFINE w == Swap(joined, s.active_idx, x)
             n == w.active_idx + 1
  <2>2. w \in GpShape
    <3>1. 0 \in Int
      OBVIOUS
    <3> QED
      BY <1>4, <2>1, <3>1
  <2>3. p = [w EXCEPT !.active_idx = n]
    BY <1>3, <1>6
  <2>4. n \in Int
    <3> HIDE DEF w
    <3> QED
      BY <2>2 DEF GpShape
  <2> HIDE DEF n
  <2>5. SameCounts(s, [w EXCEPT !.active_idx = n])
    BY <1>4, <2>1, <2>4
  <2> QED
    BY <2>3, <2>5 DEF p
<1>7. CASE joined.nactives_ok # 1 /\ ~(s.active_idx <= x)
  BY <1>1, <1>3, <1>7 DEF p
<1> QED
  BY <1>5, <1>6, <1>7

LEMMA InactivateCounts ==
  ASSUME NEW s \in GpShape, ListSound(s), NEW g \in Ids, s.entry[g].active
  PROVE  SameCounts(s, Inactivate(s, g))
<1> DEFINE left == [s EXCEPT !.entry[g].active = FALSE, !.nactives_ok = @ - 1]
           p == Inactivate(s, g)
<1>1. left \in GpShape /\ SameCounts(s, left)
  <2>1. s.nactives_ok - 1 \in Int
    BY DEF GpShape
  <2>2. left = [s EXCEPT !.entry[g].active = FALSE, !.nactives_ok = s.nactives_ok - 1]
    OBVIOUS
  <2> HIDE DEF left
  <2> QED
    BY <2>1, <2>2, PlacesCount
<1>2. ListSound(left)
  <2>1. /\ left.actentry = s.actentry /\ left.active_idx = s.active_idx
        /\ left.nactives_ok = s.nactives_ok - 1
    BY DEF GpShape
  <2>2. \A h \in Ids : left.entry[h].active <=> (h # g /\ s.entry[h].active)
    BY DEF GpShape, EntryShape
  <2> HIDE DEF left
  <2>3. /\ Actives(s) \subseteq Ids /\ g \in Actives(s)
        /\ Actives(left) = Actives(s) \ {g} /\ First(left) = First(s)
    BY <2>1, <2>2 DEF Actives, First
  <2>4. IsFiniteSet(Actives(s))
    BY <2>3, IdsFinite, FS_Subset
  <2>5. Cardinality(Actives(s) \ {g}) = Cardinality(Actives(s)) - 1
    BY <2>3, <2>4, FS_RemoveElement
  <2> QED
    BY <2>1, <2>3, <2>5 DEF ListSound, OnePlaceEach
<1>3. p \in {left, [left EXCEPT !.active_idx = 0], Shrink(left)}
  BY DEF Inactivate
<1> HIDE DEF left, p
<1>4. SameCounts(s, [left EXCEPT !.active_idx = 0]) /\ SameCounts(s, Shrink(left))
  <2>1. 0 \in Int
    OBVIOUS
  <2>2. SameCounts(left, [left EXCEPT !.active_idx = 0]) /\ SameCounts(left, Shrink(left))
    BY <1>1, <1>2, <2>1, FrontCounts, ShrinkCounts
  <2> QED
    BY <1>1, <2>2, SameCountsTrans
<1> QED
  BY <1>1, <1>3, <1>4 DEF p

-----------------------------------------------------------------------------
(***************************************************************************)
(* What the pool counts is what its entries have                           *)
(***************************************************************************)

\* What an entry adds to npendings and to effective.
Load(e) == IF e.paused THEN 0 ELSE Num(e)

\* ... to effective: the entry is counted as far as its limit goes.
Part(e) == IF e.paused THEN 0 ELSE Share(e)

\* What npendings_eff of a group with a limit has to be.
EffOf(e) == IF e.receive_benifits \/ e.paused \/ e.nrunnings >= e.limit_tasks THEN 0
            ELSE MinOf(e.limit_tasks - e.nrunnings, Num(e))

\* Its limits, and how many of its tasks threads may take.
EntryCount(e) ==
    /\ e.limit_tasks \in Nat
    /\ e.used # "free" /\ ~e.receive_benifits => e.limit_paralle_tasks > 0
    /\ e.npendings_eff = EffOf(e)

Loads(s) == [g \in Ids |-> Load(s.entry[g])]
Parts(s) == [g \in Ids |-> Part(s.entry[g])]

\* npendings and effective are the sums over the entries.
SumSound(s) ==
    /\ s.npendings = SumFunctionOnSet(Loads(s), Ids)
    /\ s.effective = SumFunctionOnSet(Parts(s), Ids)
    /\ \A g \in Ids : EntryCount(s.entry[g])

\* p is s with other numbers in the entry g, counted.
Moved(s, p, g) ==
    /\ \A h \in Ids : h # g => SameNums(s.entry[h], p.entry[h])
    /\ p.npendings = s.npendings + (Load(p.entry[g]) - Load(s.entry[g]))
    /\ p.effective = s.effective + (Part(p.entry[g]) - Part(s.entry[g]))
    /\ EntryCount(p.entry[g])

LEMMA LoadsIn ==
  ASSUME NEW s \in GpShape
  PROVE  Loads(s) \in [Ids -> Int] /\ Parts(s) \in [Ids -> Int]
<1>1. \A g \in Ids : Load(s.entry[g]) \in Int /\ Part(s.entry[g]) \in Int
  BY EntryIn DEF Load, Part
<1> QED
  BY <1>1 DEF Loads, Parts

LEMMA SameNumsCount ==
  ASSUME NEW e, NEW f, SameNums(e, f)
  PROVE  /\ Load(f) = Load(e) /\ Part(f) = Part(e) /\ EffOf(f) = EffOf(e)
         /\ EntryCount(e) => EntryCount(f)
BY DEF SameNums, Load, Part, EffOf, EntryCount, Num, Share, MinOf

\* Then they still are the sums.
LEMMA MovedSound ==
  ASSUME NEW s \in GpShape, NEW p \in GpShape, NEW g \in Ids, SumSound(s), Moved(s, p, g)
  PROVE  SumSound(p)
<1>1. \A h \in Ids : h # g => /\ Loads(p)[h] = Loads(s)[h] /\ Parts(p)[h] = Parts(s)[h]
                             /\ EntryCount(p.entry[h])
  BY SameNumsCount DEF Moved, Loads, Parts, SumSound
<1>2. /\ SumFunctionOnSet(Loads(p), Ids) =
            SumFunctionOnSet(Loads(s), Ids) + (Loads(p)[g] - Loads(s)[g])
      /\ SumFunctionOnSet(Parts(p), Ids) =
            SumFunctionOnSet(Parts(s), Ids) + (Parts(p)[g] - Parts(s)[g])
  <2> DEFINE a == Loads(s)
             b == Loads(p)
             c == Parts(s)
             d == Parts(p)
  <2>1. /\ a \in [Ids -> Int] /\ b \in [Ids -> Int] /\ c \in [Ids -> Int]
        /\ d \in [Ids -> Int] /\ IsFiniteSet(Ids)
        /\ \A h \in Ids : h # g => b[h] = a[h] /\ d[h] = c[h]
    BY <1>1, LoadsIn, IdsFinite
  <2> HIDE DEF a, b, c, d
  <2>2. SumFunctionOnSet(b, Ids) = SumFunctionOnSet(a, Ids) + (b[g] - a[g])
    BY <2>1, SumChanges
  <2>3. SumFunctionOnSet(d, Ids) = SumFunctionOnSet(c, Ids) + (d[g] - c[g])
    BY <2>1, SumChanges
  <2> QED
    BY <2>2, <2>3 DEF a, b, c, d
<1> QED
  BY <1>1, <1>2 DEF SumSound, Moved, Loads, Parts

LEMMA CountsSound ==
  ASSUME NEW s \in GpShape, NEW p \in GpShape, SumSound(s), SameCounts(s, p)
  PROVE  SumSound(p)
<1>1. \A h \in Ids : /\ Load(p.entry[h]) = Load(s.entry[h])
                     /\ Part(p.entry[h]) = Part(s.entry[h])
                     /\ EntryCount(p.entry[h])
  BY SameNumsCount DEF SameCounts, SumSound
<1>2. Loads(p) = Loads(s) /\ Parts(p) = Parts(s)
  BY <1>1 DEF Loads, Parts
<1> QED
  BY <1>1, <1>2 DEF SumSound, SameCounts

LEMMA LenIn ==
  ASSUME NEW q \in Seq(Tasks)
  PROVE  Len(q) \in Nat /\ (Len(q) = 0 <=> q = <<>>)
BY LenProperties, EmptySeq

\* The parts of an entry, as numbers.
LEMMA NumbersIn ==
  ASSUME NEW s \in GpShape, NEW g \in Ids
  PROVE  LET e == s.entry[g]
         IN  /\ e \in EntryShape /\ Num(e) \in Nat /\ (Num(e) = 0 <=> e.queue = <<>>)
             /\ e.npendings_eff \in Int /\ e.nrunnings \in Int /\ e.limit_tasks \in Int
             /\ e.ndispatchings \in Int /\ e.limit_paralle_tasks \in Int
             /\ e.receive_benifits \in BOOLEAN /\ e.paused \in BOOLEAN
             /\ e.queue \in Seq(Tasks)
             /\ Load(e) \in Int /\ Part(e) \in Int
BY LenIn, EntryIn DEF EntryShape, Num, Load, Part

\* None of them is negative, and whoever is counted has something.
LEMMA SumsBound ==
  ASSUME NEW s \in GpShape, SumSound(s)
  PROVE  /\ s.npendings \in Nat /\ s.effective \in Nat
         /\ \A g \in Ids : /\ Load(s.entry[g]) <= s.npendings
                           /\ s.entry[g].npendings_eff \in Nat
         /\ s.effective # 0 => \E g \in Ids : Part(s.entry[g]) # 0
<1>1. ASSUME NEW g \in Ids
      PROVE  /\ s.entry[g].npendings_eff \in Nat
             /\ Load(s.entry[g]) \in Nat /\ Part(s.entry[g]) \in Nat
  <2> DEFINE e == s.entry[g]
  <2>1. /\ Num(e) \in Nat /\ e.nrunnings \in Int /\ e.limit_tasks \in Nat
        /\ e.npendings_eff = EffOf(e)
    BY NumbersIn DEF SumSound, EntryCount
  <2> HIDE DEF e
  <2>2. EffOf(e) \in Nat
    BY <2>1 DEF EffOf, MinOf
  <2> QED
    BY <2>1, <2>2 DEF Load, Part, Share, e
<1>2. Loads(s) \in [Ids -> Nat] /\ Parts(s) \in [Ids -> Nat]
  BY <1>1 DEF Loads, Parts
<1>3. /\ SumFunctionOnSet(Loads(s), Ids) \in Nat
      /\ SumFunctionOnSet(Parts(s), Ids) \in Nat
      /\ \A g \in Ids : Loads(s)[g] <= SumFunctionOnSet(Loads(s), Ids)
      /\ SumFunctionOnSet(Parts(s), Ids) # 0 => \E g \in Ids : Parts(s)[g] # 0
  BY <1>2, IdsFinite, SumOfNats
<1> QED
  BY <1>1, <1>3 DEF SumSound, Loads, Parts

LEMMA RecountCounts ==
  ASSUME NEW s \in GpShape, NEW g \in Ids, NEW e \in EntryShape,
         NEW n \in Int, NEW eff \in Int, NEW nd \in Int
  PROVE  LET p == Recount(s, g, e, n, eff, nd)
         IN  /\ p \in GpShape /\ p.entry[g] = e
             /\ \A h \in Ids : h # g => p.entry[h] = s.entry[h]
             /\ p.npendings = n /\ p.effective = eff /\ p.ndispatchings = nd
             /\ p.order = s.order /\ p.maxthreads = s.maxthreads
             /\ p.spinning = s.spinning
<1>1. Recount(s, g, e, n, eff, nd) \in GpShape
  BY RecountIs
<1> QED
  BY <1>1 DEF Recount, GpShape

\* Nothing about what is run changes.
SameRuns(s, p) ==
    /\ SameRest(s, p)
    /\ \A h \in Ids : /\ p.entry[h].nrunnings = s.entry[h].nrunnings
                      /\ p.entry[h].ndispatchings = s.entry[h].ndispatchings
                      /\ p.entry[h].limit_paralle_tasks = s.entry[h].limit_paralle_tasks
                      /\ p.entry[h].limit_tasks = s.entry[h].limit_tasks
                      /\ p.entry[h].receive_benifits = s.entry[h].receive_benifits

LEMMA SameRunsTrans ==
  ASSUME NEW s, NEW p, NEW q
  PROVE  /\ SameRuns(s, s) /\ SameCounts(s, s)
         /\ SameRuns(s, p) /\ SameRuns(p, q) => SameRuns(s, q)
         /\ SameCounts(s, p) => SameRuns(s, p) /\ p.order = s.order
BY DEF SameRuns, SameRest, SameCounts, SameNums

\* A task that its group can take is counted, or left to its limit.
LEMMA OneMoreCounts ==
  ASSUME NEW x \in EntryShape, EntryCount(x), NEW f \in EntryShape, ~x.paused,
         f.paused = x.paused, f.used = x.used, f.limit_tasks = x.limit_tasks,
         f.limit_paralle_tasks = x.limit_paralle_tasks,
         f.receive_benifits = x.receive_benifits, f.nrunnings = x.nrunnings,
         Num(f) = Num(x) + 1, Num(x) \in Nat, NEW n \in Nat, Num(x) <= n,
         NEW c, c = IF \/ x.receive_benifits
                       \/ /\ x.nrunnings + x.npendings_eff < x.limit_tasks
                          /\ n + 1 > x.npendings_eff
                    THEN 1 ELSE 0,
         f.npendings_eff = IF x.receive_benifits THEN x.npendings_eff
                           ELSE x.npendings_eff + c
  PROVE  EntryCount(f) /\ Load(f) = Load(x) + 1 /\ Part(f) = Part(x) + c
<1>2. /\ x.npendings_eff \in Int /\ x.nrunnings \in Int /\ x.limit_tasks \in Nat
      /\ x.receive_benifits \in BOOLEAN /\ x.npendings_eff = EffOf(x)
  BY DEF EntryShape, EntryCount
<1>3. f.npendings_eff = EffOf(f)
  <2>1. CASE x.receive_benifits
    BY <1>2, <2>1 DEF EffOf
  <2>2. CASE ~x.receive_benifits /\ x.nrunnings >= x.limit_tasks
    BY <1>2, <2>2 DEF EffOf
  <2>3. CASE ~x.receive_benifits /\ x.nrunnings < x.limit_tasks
    BY <1>2, <2>3 DEF EffOf, MinOf
  <2> QED
    BY <1>2, <2>1, <2>2, <2>3
<1>4. EntryCount(f)
  BY <1>2, <1>3 DEF EntryCount
<1> QED
  BY <1>2, <1>4 DEF Load, Part, Share

-----------------------------------------------------------------------------
(***************************************************************************)
(* Tasks that are queued and that end                                      *)
(***************************************************************************)

\* A task is queued.
LEMMA QueuedCounts ==
  ASSUME NEW s, PoolSound(s), SumSound(s), NEW t \in Tasks, Homed(s, t)
  PROVE  LET p == Queued(s, t)
         IN  SumSound(p) /\ SameRuns(s, p) /\ p.order = Append(s.order, t)
<1> DEFINE g == s.gid[t]
           x == s.entry[g]
           q == PriQueue(s, t)
           p == Queued(s, t)
           e == [x EXCEPT !.queue = Inserted(@, t)]
           counts == \/ e.receive_benifits
                     \/ /\ e.nrunnings + e.npendings_eff < e.limit_tasks
                        /\ s.npendings + 1 > e.npendings_eff
           f == IF counts /\ ~e.receive_benifits
                THEN [e EXCEPT !.npendings_eff = @ + 1] ELSE e
           n == s.npendings + 1
           eff == IF counts THEN s.effective + 1 ELSE s.effective
           added == [q EXCEPT !.npendings = @ + 1,
                              !.effective = IF counts THEN @ + 1 ELSE @,
                              !.entry[g].npendings_eff =
                                    IF counts /\ ~e.receive_benifits THEN @ + 1 ELSE @]
<1>1. /\ s \in GpShape /\ g \in Ids /\ x \in EntryShape /\ ListSound(s)
      /\ s.npendings \in Nat /\ s.effective \in Nat /\ Load(x) <= s.npendings
      /\ Num(x) \in Nat /\ p \in GpShape /\ EntryCount(x) /\ x.paused \in BOOLEAN
  <2>1. s \in GpShape /\ g \in Ids /\ ListSound(s) /\ p \in GpShape
    BY QueuedKeeps DEF PoolSound, GpShape, GroupSound
  <2> HIDE DEF g
  <2> QED
    BY <2>1, NumbersIn, SumsBound DEF SumSound
<1>2. OneMore(x.queue, t, Inserted(x.queue, t)) /\ Inserted(x.queue, t) \in Seq(Tasks)
  BY <1>1, NumbersIn, InsertedIsOneMore DEF OneMore
<1>3. /\ e \in EntryShape /\ Num(e) = Num(x) + 1 /\ e.paused = x.paused
      /\ e.used = x.used /\ e.limit_tasks = x.limit_tasks
      /\ e.limit_paralle_tasks = x.limit_paralle_tasks
      /\ e.receive_benifits = x.receive_benifits /\ e.nrunnings = x.nrunnings
      /\ e.npendings_eff = x.npendings_eff /\ e.ndispatchings = x.ndispatchings
  BY <1>1, <1>2 DEF EntryShape, Num, OneMore
<1>4. /\ Rearranged(s, q) /\ q \in GpShape /\ q.entry[g] = e
      /\ \A h \in Ids : h # g => q.entry[h] = s.entry[h]
      /\ q.npendings = s.npendings /\ q.effective = s.effective
      /\ q.order = Append(s.order, t) /\ SameRest(s, q)
  <2>1. Rearranged(s, q) /\ q \in GpShape
    BY <1>1, PriQueueIs, ZenonT(40) DEF Rearranged
  <2>2. /\ q.npendings = s.npendings /\ q.effective = s.effective
        /\ q.order = Append(s.order, t) /\ SameRest(s, q)
        /\ q.entry = [s.entry EXCEPT ![g].queue = Inserted(@, t)]
    BY <1>1 DEF PriQueue, GpShape, SameRest
  <2> HIDE DEF g, x, q
  <2> QED
    BY <1>1, <2>1, <2>2 DEF GpShape, x
<1>5. p = IF x.paused THEN q
          ELSE IF Num(e) = 1 THEN Activate(added, g) ELSE added
  <2> HIDE DEF g
  <2> QED
    BY <1>4 DEF Queued, EntryOf, ConsumerNotify, g
<1>6. added = Recount(q, g, f, n, eff, q.ndispatchings)
  <2> DEFINE more == counts /\ ~e.receive_benifits
             w == IF more THEN e.npendings_eff + 1 ELSE e.npendings_eff
  <2> HIDE DEF counts, q, e, g
  <2>1. added = [q EXCEPT !.npendings = n, !.effective = eff,
                          !.entry = [q.entry EXCEPT ![g] = [e EXCEPT !.npendings_eff = w]]]
    BY <1>1, <1>4 DEF GpShape
  <2>2. f = [e EXCEPT !.npendings_eff = w]
    BY <1>3 DEF EntryShape
  <2> HIDE DEF added, f, n, eff, more
  <2> QED
    BY <1>4, <2>1, <2>2 DEF GpShape, Recount
<1>7. f \in EntryShape
  <2> HIDE DEF e, counts
  <2>1. e.npendings_eff + 1 \in Int
    BY <1>3 DEF EntryShape
  <2> QED
    BY <1>3, <2>1 DEF EntryShape
<1> HIDE DEF g, q, p, added, x, e
<1>8. n \in Int /\ eff \in Int
  BY <1>1
<1>9. CASE x.paused
  <2>1. p = q
    BY <1>5, <1>9
  <2>2. Moved(s, q, g)
    <3>1. EntryCount(e)
      BY <1>1, <1>3, <1>9 DEF EntryCount, EffOf
    <3>2. Load(e) = 0 /\ Load(x) = 0 /\ Part(e) = 0 /\ Part(x) = 0
      BY <1>3, <1>9 DEF Load, Part
    <3> QED
      BY <1>1, <1>4, <3>1, <3>2 DEF Moved, SameNums, x
  <2>3. SumSound(q)
    BY <1>1, <1>4, <2>2, MovedSound
  <2>4. SameRuns(s, q)
    BY <1>1, <1>3, <1>4 DEF SameRuns, x
  <2> QED
    BY <1>4, <2>1, <2>3, <2>4 DEF p
<1>10. CASE ~x.paused
  <2>1. EntryCount(f) /\ Load(f) = Load(x) + 1
        /\ Part(f) = Part(x) + (IF counts THEN 1 ELSE 0)
    <3>1. Num(x) <= s.npendings
      BY <1>1, <1>10 DEF Load
    <3> DEFINE c == IF counts THEN 1 ELSE 0
    <3>2. /\ f.npendings_eff = IF x.receive_benifits THEN x.npendings_eff
                               ELSE x.npendings_eff + c
          /\ f.paused = x.paused /\ f.used = x.used /\ f.limit_tasks = x.limit_tasks
          /\ f.limit_paralle_tasks = x.limit_paralle_tasks
          /\ f.receive_benifits = x.receive_benifits /\ f.nrunnings = x.nrunnings
          /\ Num(f) = Num(x) + 1
      <4>1. x.npendings_eff \in Int
        BY <1>1 DEF EntryShape
      <4> HIDE DEF counts
      <4> QED
        BY <1>3, <4>1 DEF EntryShape, Num
    <3>3. c = IF \/ x.receive_benifits
                 \/ /\ x.nrunnings + x.npendings_eff < x.limit_tasks
                    /\ s.npendings + 1 > x.npendings_eff
              THEN 1 ELSE 0
      BY <1>3
    <3> HIDE DEF f, c
    <3>4. EntryCount(f) /\ Load(f) = Load(x) + 1 /\ Part(f) = Part(x) + c
      BY <1>1, <1>7, <1>10, <3>1, <3>2, <3>3, OneMoreCounts
    <3> QED
      BY <3>4 DEF c
  <2>2. /\ f.nrunnings = x.nrunnings /\ f.ndispatchings = x.ndispatchings
        /\ f.limit_paralle_tasks = x.limit_paralle_tasks /\ f.limit_tasks = x.limit_tasks
        /\ f.receive_benifits = x.receive_benifits
    <3> HIDE DEF counts
    <3> QED
      BY <1>3 DEF EntryShape
  <2>3. eff = s.effective + (IF counts THEN 1 ELSE 0)
    <3> HIDE DEF counts
    <3> QED
      BY <1>1
  <2> HIDE DEF f, n, eff, counts
  <2>4. /\ added \in GpShape /\ added.entry[g] = f
        /\ \A h \in Ids : h # g => added.entry[h] = q.entry[h]
        /\ added.npendings = n /\ added.effective = eff
        /\ added.order = q.order /\ SameRest(q, added)
    <3>1. q.ndispatchings \in Int
      BY <1>1, <1>4, EntryIn
    <3> DEFINE nd == q.ndispatchings
    <3>2. added = Recount(q, g, f, n, eff, nd) /\ nd \in Int
      BY <1>6, <3>1
    <3> HIDE DEF nd
    <3>3. /\ added \in GpShape /\ added.entry[g] = f
          /\ \A h \in Ids : h # g => added.entry[h] = q.entry[h]
          /\ added.npendings = n /\ added.effective = eff
          /\ added.order = q.order /\ added.ndispatchings = nd
          /\ added.maxthreads = q.maxthreads /\ added.spinning = q.spinning
      BY <1>1, <1>4, <1>7, <1>8, <3>2, RecountCounts
    <3> QED
      BY <3>3 DEF SameRest, nd
  <2>5. Moved(s, added, g)
    <3>1. n = s.npendings + (Load(f) - Load(x)) /\ eff = s.effective + (Part(f) - Part(x))
      <4>1. Load(x) \in Int /\ Part(x) \in Int
        BY <1>1, NumbersIn DEF x
      <4> QED
        BY <1>1, <2>1, <2>3, <4>1 DEF n
    <3> QED
      BY <1>1, <1>4, <2>1, <2>4, <3>1 DEF Moved, SameNums, x
  <2>6. SumSound(added)
    BY <1>1, <2>4, <2>5, MovedSound
  <2>7. SameRuns(s, added) /\ added.order = Append(s.order, t)
    BY <1>1, <1>4, <2>2, <2>4 DEF SameRuns, SameRest, x
  <2>8. CASE Num(e) # 1
    BY <1>5, <1>10, <2>6, <2>7, <2>8 DEF p
  <2>9. CASE Num(e) = 1
    <3>1. p = Activate(added, g)
      BY <1>5, <1>10, <2>9
    <3>2. f.active = e.active /\ f.paused = e.paused
      BY <1>3 DEF f, EntryShape
    <3>3. added \in GpShape /\ Listed(q, added)
      <4>1. LikeEntry(e, f)
        BY <1>3, <1>7 DEF f, EntryShape, LikeEntry
      <4> QED
        BY <1>1, <1>4, <1>6, <1>7, <1>8, <4>1, EntryIn, RecountIs
    <3>4. ListSound(added)
      BY <1>1, <1>4, <3>3, ListedRearranged, RearrangedList
    <3>5. SameCounts(added, p)
      BY <1>1, <3>1, <3>3, <3>4, ActivateCounts
    <3> QED
      BY <1>1, <2>6, <2>7, <3>3, <3>5, CountsSound, SameRunsTrans DEF p
  <2> QED
    BY <2>8, <2>9
<1> QED
  BY <1>1, <1>9, <1>10

\* There is room for one more: it is counted.
LEMMA FilledCounts ==
  ASSUME NEW s \in GpShape, NEW g \in Ids, NEW x \in EntryShape, EntryCount(x),
         NEW e, e = s.entry[g], e.nrunnings = x.nrunnings - 1, e.used = x.used,
         e.paused = x.paused, e.queue = x.queue, e.limit_tasks = x.limit_tasks,
         e.limit_paralle_tasks = x.limit_paralle_tasks,
         e.receive_benifits = x.receive_benifits, e.npendings_eff = x.npendings_eff
  PROVE  LET p == Filled(s, g)
         IN  /\ EntryCount(p.entry[g]) /\ Load(p.entry[g]) = Load(x)
             /\ p.effective = s.effective + (Part(p.entry[g]) - Part(x))
             /\ p.npendings = s.npendings /\ p.order = s.order
             /\ SameRuns(s, p)
             /\ \A h \in Ids : h # g => p.entry[h] = s.entry[h]
<1> DEFINE f == [e EXCEPT !.npendings_eff = @ + 1]
           more == [s EXCEPT !.effective = @ + 1, !.entry[g].npendings_eff = @ + 1]
           grows == /\ ~e.receive_benifits /\ ~e.paused
                    /\ e.npendings_eff + e.nrunnings < e.limit_tasks
                    /\ e.npendings_eff < Num(e)
           p == Filled(s, g)
<1>1. /\ e \in EntryShape /\ Num(e) \in Nat /\ Num(x) = Num(e)
      /\ x.npendings_eff \in Int /\ x.nrunnings \in Int /\ x.limit_tasks \in Nat
      /\ x.receive_benifits \in BOOLEAN /\ x.npendings_eff = EffOf(x)
      /\ x.paused \in BOOLEAN
      /\ s.effective \in Int /\ s.npendings \in Int /\ s.ndispatchings \in Int
  BY NumbersIn, EntryIn DEF EntryShape, EntryCount, Num
<1>2. p = IF grows THEN more ELSE s
  BY DEF Filled
<1>3. more = Recount(s, g, f, s.npendings, s.effective + 1, s.ndispatchings)
  BY DEF GpShape, Recount
<1> HIDE DEF p, more
<1>4. CASE ~grows
  <2>1. e.npendings_eff = EffOf(e)
    BY <1>1, <1>4 DEF EffOf, MinOf
  <2>2. EntryCount(e) /\ Load(e) = Load(x) /\ Part(e) = Part(x)
    BY <1>1, <2>1 DEF EntryCount, Load, Part, Share
  <2>3. Part(x) \in Int
    BY <1>1 DEF Part, Share
  <2>4. p = s /\ p.entry[g] = e
    BY <1>2, <1>4
  <2>5. SameRuns(s, p)
    BY <2>4, SameRunsTrans
  <2> QED
    BY <1>1, <2>2, <2>3, <2>4, <2>5 DEF p
<1>5. CASE grows
  <2>1. e.npendings_eff + 1 \in Int
    BY <1>1
  <2>2. /\ f \in EntryShape /\ f.npendings_eff = e.npendings_eff + 1 /\ f.used = e.used
        /\ f.paused = e.paused /\ f.queue = e.queue /\ f.limit_tasks = e.limit_tasks
        /\ f.limit_paralle_tasks = e.limit_paralle_tasks
        /\ f.receive_benifits = e.receive_benifits /\ f.nrunnings = e.nrunnings
        /\ f.ndispatchings = e.ndispatchings
    BY <1>1, <2>1 DEF EntryShape
  <2> HIDE DEF f
  <2>3. Num(f) = Num(e)
    BY <2>2 DEF Num
  <2>4. f.npendings_eff = EffOf(f)
    BY <1>1, <1>5, <2>2, <2>3 DEF EffOf, MinOf
  <2>5. EntryCount(f) /\ Load(f) = Load(x) /\ Part(f) = Part(x) + 1
    BY <1>1, <1>5, <2>2, <2>3, <2>4 DEF EntryCount, Load, Part, Share
  <2>6. /\ p = more /\ s.effective + 1 \in Int
    BY <1>1, <1>2, <1>5
  <2>7. /\ p.entry[g] = f /\ \A h \in Ids : h # g => p.entry[h] = s.entry[h]
        /\ p.npendings = s.npendings /\ p.effective = s.effective + 1
        /\ SameRest(s, p) /\ p.order = s.order
    BY <1>1, <1>3, <2>2, <2>6, RecountCounts DEF SameRest
  <2>8. SameRuns(s, p)
    BY <2>2, <2>7 DEF SameRuns
  <2>9. Part(x) \in Int
    BY <1>1 DEF Part, Share
  <2> QED
    BY <1>1, <2>5, <2>7, <2>8, <2>9 DEF p
<1> QED
  BY <1>4, <1>5

\* A task of the group has been run.
LEMMA RanCounts ==
  ASSUME NEW s, PoolSound(s), SumSound(s), NEW t \in Tasks
  PROVE  LET p == Ran(s, t)
         IN  /\ SumSound(p) /\ p.order = s.order /\ SameRest(s, p)
             /\ \A h \in Ids : /\ p.entry[h].nrunnings = s.entry[h].nrunnings
                                    - (IF h = s.gid[t] THEN 1 ELSE 0)
                               /\ p.entry[h].ndispatchings = s.entry[h].ndispatchings
<1> DEFINE g == s.gid[t]
           x == s.entry[g]
           e == [x EXCEPT !.nrunnings = @ - 1]
           b == [s EXCEPT !.entry[g].nrunnings = @ - 1]
           p == Ran(s, t)
<1>1. /\ s \in GpShape /\ g \in Ids /\ x \in EntryShape /\ p \in GpShape
      /\ EntryCount(x) /\ x.nrunnings \in Int /\ Part(x) \in Int
      /\ s.npendings \in Int /\ s.effective \in Int /\ s.ndispatchings \in Int
      /\ \A h \in Ids : s.entry[h].nrunnings \in Int
  <2>1. s \in GpShape /\ g \in Ids /\ p \in GpShape
    BY RanListed DEF PoolSound, GpShape
  <2> HIDE DEF g
  <2> QED
    BY <2>1, NumbersIn, EntryIn DEF SumSound
<1>2. /\ e \in EntryShape /\ e.nrunnings = x.nrunnings - 1 /\ e.used = x.used
      /\ e.paused = x.paused /\ e.queue = x.queue /\ e.limit_tasks = x.limit_tasks
      /\ e.limit_paralle_tasks = x.limit_paralle_tasks
      /\ e.receive_benifits = x.receive_benifits /\ e.npendings_eff = x.npendings_eff
      /\ e.ndispatchings = x.ndispatchings
  <2>1. x.nrunnings - 1 \in Int
    BY <1>1
  <2> QED
    BY <1>1, <2>1 DEF EntryShape
<1>3. b = Recount(s, g, e, s.npendings, s.effective, s.ndispatchings)
  BY <1>1 DEF GpShape, Recount
<1>4. p = Filled(b, g)
  BY DEF Ran
<1> HIDE DEF g, x, e, b, p
<1>5. /\ b \in GpShape /\ b.entry[g] = e
      /\ \A h \in Ids : h # g => b.entry[h] = s.entry[h]
      /\ b.npendings = s.npendings /\ b.effective = s.effective /\ b.order = s.order
      /\ SameRest(s, b)
  BY <1>1, <1>2, <1>3, RecountCounts DEF SameRest
<1>6. /\ EntryCount(p.entry[g]) /\ Load(p.entry[g]) = Load(x)
      /\ p.effective = b.effective + (Part(p.entry[g]) - Part(x))
      /\ p.npendings = b.npendings /\ p.order = b.order
      /\ SameRuns(b, p)
      /\ \A h \in Ids : h # g => p.entry[h] = b.entry[h]
  BY <1>1, <1>2, <1>4, <1>5, FilledCounts
<1>7. Moved(s, p, g)
  <2>1. Load(x) \in Int
    BY <1>1, NumbersIn DEF x
  <2> QED
    BY <1>1, <1>5, <1>6, <2>1 DEF Moved, SameNums, x
<1>8. SumSound(p)
  BY <1>1, <1>7, MovedSound
<1>9. SameRest(s, p)
  BY <1>5, <1>6 DEF SameRest, SameRuns
<1>10. ASSUME NEW h \in Ids
       PROVE  /\ p.entry[h].nrunnings = s.entry[h].nrunnings - (IF h = g THEN 1 ELSE 0)
              /\ p.entry[h].ndispatchings = s.entry[h].ndispatchings
  <2>1. /\ p.entry[h].nrunnings = b.entry[h].nrunnings
        /\ p.entry[h].ndispatchings = b.entry[h].ndispatchings
        /\ s.entry[h].nrunnings \in Int
    BY <1>1, <1>6 DEF SameRuns
  <2>2. CASE h = g
    BY <1>2, <1>5, <2>1, <2>2 DEF x
  <2>3. CASE h # g
    BY <1>5, <2>1, <2>3
  <2> QED
    BY <2>2, <2>3
<1> QED
  BY <1>5, <1>6, <1>8, <1>9, <1>10 DEF p, g

LEMMA DispatchedCounts ==
  ASSUME NEW s, PoolSound(s), SumSound(s), NEW t \in Tasks
  PROVE  LET p == Dispatched(s, t)
         IN  /\ SumSound(p) /\ p.order = s.order /\ p.maxthreads = s.maxthreads
             /\ p.spinning = s.spinning /\ p.ndispatchings = s.ndispatchings - 1
             /\ \A h \in Ids : /\ p.entry[h].nrunnings = s.entry[h].nrunnings
                               /\ p.entry[h].ndispatchings = s.entry[h].ndispatchings
                                    - (IF h = s.gid[t] THEN 1 ELSE 0)
<1> DEFINE g == s.gid[t]
           x == s.entry[g]
           e == [x EXCEPT !.ndispatchings = @ - 1]
           n == s.ndispatchings - 1
           p == Dispatched(s, t)
<1>1. /\ s \in GpShape /\ g \in Ids /\ x \in EntryShape /\ p \in GpShape
      /\ EntryCount(x) /\ x.ndispatchings \in Int
      /\ s.npendings \in Int /\ s.effective \in Int /\ n \in Int
      /\ \A h \in Ids : s.entry[h].ndispatchings \in Int
      /\ Load(x) \in Int /\ Part(x) \in Int
  <2>1. s \in GpShape /\ g \in Ids /\ p \in GpShape
    BY DispatchedListed DEF PoolSound, GpShape
  <2> HIDE DEF g
  <2> QED
    BY <2>1, NumbersIn, EntryIn, SMTT(30) DEF SumSound
<1>2. /\ e \in EntryShape /\ e.ndispatchings = x.ndispatchings - 1 /\ e.used = x.used
      /\ e.paused = x.paused /\ e.queue = x.queue /\ e.limit_tasks = x.limit_tasks
      /\ e.limit_paralle_tasks = x.limit_paralle_tasks
      /\ e.receive_benifits = x.receive_benifits /\ e.npendings_eff = x.npendings_eff
      /\ e.nrunnings = x.nrunnings
  <2>1. x.ndispatchings - 1 \in Int
    BY <1>1
  <2> QED
    BY <1>1, <2>1 DEF EntryShape
<1>3. p = Recount(s, g, e, s.npendings, s.effective, n)
  BY <1>1 DEF GpShape, Recount, Dispatched
<1> HIDE DEF g, x, e, n, p
<1>4. /\ p \in GpShape /\ p.entry[g] = e
      /\ \A h \in Ids : h # g => p.entry[h] = s.entry[h]
      /\ p.npendings = s.npendings /\ p.effective = s.effective /\ p.order = s.order
      /\ p.ndispatchings = n /\ p.maxthreads = s.maxthreads /\ p.spinning = s.spinning
  BY <1>1, <1>2, <1>3, RecountCounts
<1>5. /\ EntryCount(e) /\ Load(e) = Load(x) /\ Part(e) = Part(x)
  BY <1>1, <1>2 DEF EntryCount, EffOf, Load, Part, Share, Num
<1>6. Moved(s, p, g)
  BY <1>1, <1>4, <1>5 DEF Moved, SameNums, x
<1>7. SumSound(p)
  BY <1>1, <1>6, MovedSound
<1>8. ASSUME NEW h \in Ids
       PROVE  /\ p.entry[h].nrunnings = s.entry[h].nrunnings
              /\ p.entry[h].ndispatchings = s.entry[h].ndispatchings
                    - (IF h = g THEN 1 ELSE 0)
  <2>1. s.entry[h].ndispatchings \in Int
    BY <1>1
  <2>2. CASE h = g
    BY <1>2, <1>4, <2>1, <2>2 DEF x
  <2>3. CASE h # g
    BY <1>4, <2>1, <2>3
  <2> QED
    BY <2>2, <2>3
<1> QED
  BY <1>4, <1>7, <1>8 DEF p, g, n

\* order has the pending tasks.
OrderSound(s) ==
    Once(s.order) /\ Range(s.order) = {t \in Tasks : s.stat[t] = "waiting"}

LEMMA UntracedCounts ==
  ASSUME NEW s \in GpShape, NEW t \in Tasks
  PROVE  LET p == Untraced(s, t)
         IN  SameCounts(s, p) /\ p.order = s.order
BY DEF Untraced, GpShape, SameCounts, SameRest, SameNums

\* The task is queued again, or done.
LEMMA DoneWithCounts ==
  ASSUME NEW s, PoolSound(s), SumSound(s), OrderSound(s), NEW t \in Tasks,
         s.stat[t] \in {"scheduling", "dispatching"}, t \notin Range(s.dispatch_q)
  PROVE  LET p == DoneWith(s, t)
         IN  SumSound(p) /\ SameRuns(s, p) /\ OrderSound(p)
<1> DEFINE p == DoneWith(s, t)
<1>1. Homed(s, t) /\ s \in GpShape
  BY DEF Homed, PoolSound, TaskSound
<1>2. /\ p \in GpShape /\ p.stat = [s.stat EXCEPT ![t] = IF t \in s.wpending THEN "waiting"
                                                         ELSE "idle"]
  BY DoneWithKeeps DEF PoolSound
<1>3. s.order \in Seq(Tasks) /\ s.stat \in [Tasks -> TaskStats]
  BY <1>1 DEF GpShape
<1>4. CASE t \in s.wpending
  <2>1. p = Queued(s, t)
    BY <1>4 DEF DoneWith
  <2>2. SumSound(p) /\ SameRuns(s, p) /\ p.order = Append(s.order, t)
    BY <1>1, <2>1, QueuedCounts
  <2>3. OneMore(s.order, t, p.order)
    BY <1>3, <2>2, AppendIsOneMore
  <2> HIDE DEF p
  <2>4. p.stat = [s.stat EXCEPT ![t] = "waiting"]
    BY <1>2, <1>4
  <2>5. OrderSound(p)
    BY <1>3, <2>3, <2>4 DEF OrderSound, OneMore
  <2> QED
    BY <2>2, <2>5 DEF p
<1>5. CASE t \notin s.wpending
  <2>1. p = Untraced(s, t)
    BY <1>5 DEF DoneWith
  <2> HIDE DEF p
  <2>2. SameCounts(s, p) /\ p.order = s.order
    BY <1>1, <2>1, UntracedCounts
  <2>3. SumSound(p) /\ SameRuns(s, p)
    BY <1>1, <1>2, <2>2, CountsSound, SameRunsTrans
  <2>4. p.stat = [s.stat EXCEPT ![t] = "idle"]
    BY <1>2, <1>5
  <2>5. OrderSound(p)
    BY <1>3, <2>2, <2>4 DEF OrderSound
  <2> QED
    BY <2>3, <2>5 DEF p
<1> QED
  BY <1>4, <1>5

-----------------------------------------------------------------------------
(***************************************************************************)
(* Groups: attributes and limits                                           *)
(***************************************************************************)

LEMMA CountedAgainIs ==
  ASSUME NEW s \in GpShape, NEW g \in Ids, NEW e, e = s.entry[g]
  PROVE  LET eff == IF e.receive_benifits THEN e.npendings_eff
                    ELSE MinOf(e.limit_tasks, Num(e))
             f == [e EXCEPT !.npendings_eff = eff]
         IN  /\ f \in EntryShape /\ s.effective + Share(f) \in Int /\ eff \in Int
             /\ CountedAgain(s, g) = Recount(s, g, f, s.npendings, s.effective + Share(f),
                                             s.ndispatchings)
<1> DEFINE eff == IF e.receive_benifits THEN e.npendings_eff
                  ELSE MinOf(e.limit_tasks, Num(e))
           f == [e EXCEPT !.npendings_eff = eff]
           p == [s EXCEPT !.entry[g].npendings_eff = eff]
           n == s.effective + Share(f)
<1>1. p = Recount(s, g, f, s.npendings, s.effective, s.ndispatchings)
  BY DEF GpShape, Recount
<1>2. eff \in Int /\ e \in EntryShape
  BY EntryIn DEF MinOf
<1>3. CountedAgain(s, g) = [p EXCEPT !.effective = @ + Share(p.entry[g])]
  BY DEF CountedAgain
<1> HIDE DEF eff, p
<1>4. f \in EntryShape
  BY <1>2 DEF EntryShape
<1> HIDE DEF f
<1>5. p \in GpShape /\ p.entry[g] = f
  BY <1>1, <1>4, EntryIn, RecountIs
<1>6. n \in Int
  BY <1>5, EntryIn
<1>7. CountedAgain(s, g) = Recount(s, g, f, s.npendings, n, s.ndispatchings)
  <2>1. p = [s EXCEPT !.entry = [s.entry EXCEPT ![g] = f], !.npendings = s.npendings,
                      !.effective = s.effective, !.ndispatchings = s.ndispatchings]
    BY <1>1 DEF Recount
  <2> DEFINE E == [s.entry EXCEPT ![g] = f]
  <2> HIDE DEF E
  <2>2. p = [s EXCEPT !.entry = E]
    BY <2>1 DEF GpShape, E
  <2>3. CountedAgain(s, g) = [s EXCEPT !.entry = E, !.effective = n]
    BY <1>3, <1>5, <2>2 DEF GpShape
  <2> QED
    BY <2>3 DEF GpShape, Recount, E
<1> QED
  BY <1>2, <1>4, <1>6, <1>7 DEF f, eff

\* Nobody runs anything else.
SameHands(s, p) ==
    /\ SameRest(s, p)
    /\ \A h \in Ids : /\ p.entry[h].nrunnings = s.entry[h].nrunnings
                      /\ p.entry[h].ndispatchings = s.entry[h].ndispatchings

LEMMA SameHandsTrans ==
  ASSUME NEW s, NEW p, NEW q
  PROVE  /\ SameHands(s, s)
         /\ SameHands(s, p) /\ SameHands(p, q) => SameHands(s, q)
         /\ SameRuns(s, p) => SameHands(s, p)
BY DEF SameHands, SameRuns, SameRest

LEMMA MaxThreadsIn ==
  ASSUME NEW s \in GpShape
  PROVE  s.maxthreads \in Nat /\ s.maxthreads > 0
<1>1. s.maxthreads \in MaxThreads
  BY DEF GpShape
<1>2. \A x \in MaxThreads : x \in Nat /\ x > 0
  BY GpAssumption
<1> QED
  BY <1>1, <1>2, Zenon

\* A group may have other attributes while it has no pending tasks, or none that
\* count, and when it has the same right as before and runs nothing.
Fits(e, limit, benefits) ==
    \/ e.queue = <<>> \/ e.paused
    \/ e.receive_benifits /\ benefits
    \/ ~e.receive_benifits /\ ~benefits /\ limit > 0 /\ e.nrunnings = 0

LEMMA AttrFields ==
  ASSUME NEW x \in EntryShape, NEW limit \in Int, NEW lim \in Int, NEW b \in BOOLEAN,
         NEW e, e = [x EXCEPT !.limit_paralle_tasks = limit, !.limit_tasks = lim,
                              !.receive_benifits = b]
  PROVE  /\ e \in EntryShape /\ e.limit_paralle_tasks = limit /\ e.limit_tasks = lim
         /\ e.receive_benifits = b /\ e.used = x.used
         /\ e.paused = x.paused /\ e.queue = x.queue /\ e.nrunnings = x.nrunnings
         /\ e.ndispatchings = x.ndispatchings /\ e.npendings_eff = x.npendings_eff
BY DEF EntryShape

LEMMA EffFields ==
  ASSUME NEW x \in EntryShape, NEW n \in Int
  PROVE  LET e == [x EXCEPT !.npendings_eff = n]
         IN  /\ e \in EntryShape /\ e.limit_paralle_tasks = x.limit_paralle_tasks
             /\ e.limit_tasks = x.limit_tasks
             /\ e.receive_benifits = x.receive_benifits /\ e.used = x.used
             /\ e.paused = x.paused /\ e.queue = x.queue /\ e.nrunnings = x.nrunnings
             /\ e.ndispatchings = x.ndispatchings /\ e.npendings_eff = n
BY DEF EntryShape

\* The groups with no tasks that count, and the others.
LEMMA IdleAttr ==
  ASSUME NEW x \in EntryShape, NEW e \in EntryShape, x.npendings_eff = EffOf(x),
         x.paused \/ Num(x) = 0, Num(e) = Num(x), Num(x) \in Nat,
         e.paused = x.paused, e.npendings_eff = x.npendings_eff,
         e.limit_tasks \in Nat, ~e.receive_benifits => e.limit_paralle_tasks > 0
  PROVE  EntryCount(e) /\ Load(e) = Load(x) /\ Part(e) = 0 /\ Part(x) = 0
<1>1. /\ x.paused \in BOOLEAN /\ x.nrunnings \in Int /\ x.limit_tasks \in Int
      /\ e.nrunnings \in Int /\ x.receive_benifits \in BOOLEAN
      /\ e.receive_benifits \in BOOLEAN
  BY DEF EntryShape
<1>2. EffOf(x) = 0
  BY <1>1 DEF EffOf, MinOf
<1>3. EffOf(e) = 0
  BY <1>1 DEF EffOf, MinOf
<1>4. EntryCount(e)
  BY <1>2, <1>3 DEF EntryCount
<1>5. Load(e) = Load(x)
  BY DEF Load
<1>6. Part(e) = 0 /\ Part(x) = 0
  BY <1>1, <1>2 DEF Part, Share
<1> QED
  BY <1>4, <1>5, <1>6

\* A group whose pending tasks are counted is counted by its new attributes.
LEMMA BusyAttr ==
  ASSUME NEW x \in EntryShape, NEW f \in EntryShape, x.npendings_eff = EffOf(x),
         ~x.paused, Num(f) = Num(x), Num(x) \in Nat,
         f.paused = x.paused, f.nrunnings = x.nrunnings,
         f.limit_tasks \in Nat, ~f.receive_benifits => f.limit_paralle_tasks > 0,
         f.npendings_eff = IF f.receive_benifits THEN x.npendings_eff
                           ELSE MinOf(f.limit_tasks, Num(x)),
         \/ x.receive_benifits /\ f.receive_benifits
         \/ ~x.receive_benifits /\ ~f.receive_benifits /\ x.nrunnings = 0
                /\ f.limit_tasks > 0
  PROVE  EntryCount(f) /\ Load(f) = Load(x) /\ Part(f) = Share(f) /\ Part(x) = Share(x)
<1>1. CASE x.receive_benifits /\ f.receive_benifits
  <2>1. EffOf(x) = 0 /\ EffOf(f) = 0
    BY <1>1 DEF EffOf
  <2> QED
    BY <1>1, <2>1 DEF EntryCount, Load, Part
<1>2. CASE ~x.receive_benifits /\ ~f.receive_benifits /\ x.nrunnings = 0 /\ f.limit_tasks > 0
  <2>1. EffOf(f) = MinOf(f.limit_tasks, Num(x))
    BY <1>2 DEF EffOf
  <2> QED
    BY <1>2, <2>1 DEF EntryCount, Load, Part
<1> QED
  BY <1>1, <1>2

\* The group has its new attributes.
LEMMA SetAttrCounts ==
  ASSUME NEW s \in GpShape, NEW g \in Ids, NEW limit \in Int, NEW benefits \in BOOLEAN,
         s.entry[g].npendings_eff = EffOf(s.entry[g]), Fits(s.entry[g], limit, benefits)
  PROVE  LET p == SetAttr(s, g, limit, benefits)
         IN  /\ Moved(s, p, g) /\ SameHands(s, p) /\ p.order = s.order
             /\ p.entry[g].used = s.entry[g].used /\ p.entry[g].paused = s.entry[g].paused
             /\ p.entry[g].queue = s.entry[g].queue
             /\ benefits => p.entry[g].receive_benifits
             /\ \A h \in Ids : h # g => p.entry[h] = s.entry[h]
<1> DEFINE x == s.entry[g]
           lim == IF s.maxthreads <= limit THEN s.maxthreads
                  ELSE IF limit <= 0 THEN 0 ELSE limit
           b == benefits \/ lim = 0
           e == [x EXCEPT !.limit_paralle_tasks = limit, !.limit_tasks = lim,
                          !.receive_benifits = b]
           set == [s EXCEPT !.entry[g].limit_paralle_tasks = limit,
                            !.entry[g].limit_tasks = lim,
                            !.entry[g].receive_benifits = b]
           less == [set EXCEPT !.effective = @ - Share(x)]
           p == SetAttr(s, g, limit, benefits)
<1>1. lim \in Nat /\ (lim # 0 => limit > 0) /\ (limit > 0 => lim # 0)
  BY MaxThreadsIn
<1>2. p = IF x.paused \/ x.queue = <<>> THEN set ELSE CountedAgain(less, g)
  BY DEF SetAttr
<1> HIDE DEF lim
<1>5. b \in BOOLEAN /\ (~b => limit > 0) /\ (benefits => b)
      /\ (~benefits /\ limit > 0 => ~b)
  BY <1>1
<1>6. /\ x \in EntryShape /\ Num(x) \in Nat /\ (Num(x) = 0 <=> x.queue = <<>>)
      /\ s.npendings \in Int /\ s.effective \in Int /\ s.ndispatchings \in Int
      /\ Share(x) \in Int /\ Load(x) \in Int /\ Part(x) \in Int
  BY NumbersIn, EntryIn
<1> HIDE DEF b
<1>3. set = Recount(s, g, e, s.npendings, s.effective, s.ndispatchings)
  BY ZenonT(40) DEF GpShape, Recount
<1>4. less = Recount(s, g, e, s.npendings, s.effective - Share(x), s.ndispatchings)
  BY <1>3 DEF GpShape, Recount
<1> HIDE DEF x
<1>7. /\ e \in EntryShape /\ e.limit_paralle_tasks = limit /\ e.limit_tasks = lim
      /\ e.receive_benifits = b /\ e.used = x.used
      /\ e.paused = x.paused /\ e.queue = x.queue /\ e.nrunnings = x.nrunnings
      /\ e.ndispatchings = x.ndispatchings /\ e.npendings_eff = x.npendings_eff
  <2>1. lim \in Int /\ b \in BOOLEAN /\ x \in EntryShape
    BY <1>1, <1>5, <1>6
  <2>2. e = [x EXCEPT !.limit_paralle_tasks = limit, !.limit_tasks = lim,
                      !.receive_benifits = b]
    OBVIOUS
  <2> HIDE DEF e, set, less, p
  <2>3. ASSUME NEW bb \in BOOLEAN, bb = b, NEW ll \in Int, ll = lim
        PROVE  /\ e \in EntryShape /\ e.limit_paralle_tasks = limit /\ e.limit_tasks = ll
               /\ e.receive_benifits = bb /\ e.used = x.used
               /\ e.paused = x.paused /\ e.queue = x.queue /\ e.nrunnings = x.nrunnings
               /\ e.ndispatchings = x.ndispatchings /\ e.npendings_eff = x.npendings_eff
    <3>1. e = [x EXCEPT !.limit_paralle_tasks = limit, !.limit_tasks = ll,
                        !.receive_benifits = bb]
      BY <2>2, <2>3
    <3> QED
      BY <2>1, <2>3, <3>1 DEF EntryShape
  <2> QED
    BY <2>1, <2>3
<1>70. x.npendings_eff = EffOf(x) /\ Fits(x, limit, benefits)
  BY DEF x
<1> HIDE DEF e, set, less, p
<1>8. Num(e) = Num(x) /\ e.limit_tasks \in Nat
      /\ (~e.receive_benifits => e.limit_paralle_tasks > 0)
      /\ (benefits => e.receive_benifits)
      /\ (~benefits /\ limit > 0 => ~e.receive_benifits)
  <2>1. e.receive_benifits <=> b
    BY <1>7, Zenon
  <2>2. Num(e) = Num(x)
    BY <1>7 DEF Num
  <2>3. ~b => e.limit_paralle_tasks > 0
    BY <1>5, <1>7
  <2>4. e.limit_tasks \in Nat
    BY <1>1, <1>7
  <2> QED
    BY <1>5, <2>1, <2>2, <2>3, <2>4, Zenon
<1>9. CASE x.paused \/ x.queue = <<>>
  <2>1. p = set
    BY <1>2, <1>9
  <2>2. /\ p.entry[g] = e /\ \A h \in Ids : h # g => p.entry[h] = s.entry[h]
        /\ p.npendings = s.npendings /\ p.effective = s.effective
        /\ p.order = s.order /\ SameRest(s, p)
    BY <1>3, <1>6, <1>7, <2>1, RecountCounts DEF SameRest
  <2>3. EntryCount(e) /\ Load(e) = Load(x) /\ Part(e) = 0 /\ Part(x) = 0
    <3>1. x.paused \/ Num(x) = 0
      BY <1>6, <1>9
    <3> QED
      BY <1>6, <1>7, <1>8, <1>70, <3>1, IdleAttr
  <2>4. \A h \in Ids : h # g => SameNums(s.entry[h], p.entry[h])
    BY <2>2 DEF SameNums
  <2>5. Moved(s, p, g)
    BY <1>6, <2>2, <2>3, <2>4 DEF Moved, x
  <2>6. SameHands(s, p)
    BY <1>7, <2>2 DEF SameHands, x
  <2>7. benefits => p.entry[g].receive_benifits
    BY <1>8, <2>2, Zenon
  <2>8. /\ p.entry[g].used = x.used /\ p.entry[g].paused = x.paused
        /\ p.entry[g].queue = x.queue
    BY <1>7, <2>2
  <2> QED
    BY <2>2, <2>5, <2>6, <2>7, <2>8 DEF p, x
<1>10. CASE ~x.paused /\ x.queue # <<>>
  <2> DEFINE eff == IF e.receive_benifits THEN e.npendings_eff
                    ELSE MinOf(e.limit_tasks, Num(e))
             f == [e EXCEPT !.npendings_eff = eff]
             n == less.effective + Share(f)
  <2>1. p = CountedAgain(less, g)
    BY <1>2, <1>10
  <2>2. /\ less \in GpShape /\ less.entry[g] = e
        /\ \A h \in Ids : h # g => less.entry[h] = s.entry[h]
        /\ less.npendings = s.npendings /\ less.effective = s.effective - Share(x)
        /\ less.order = s.order /\ SameRest(s, less)
    <3>1. s.effective - Share(x) \in Int
      BY <1>6
    <3> QED
      BY <1>4, <1>6, <1>7, <3>1, RecountCounts DEF SameRest
  <2>3. /\ f \in EntryShape /\ n \in Int /\ eff \in Int
        /\ p = Recount(less, g, f, less.npendings, n, less.ndispatchings)
    BY <2>1, <2>2, CountedAgainIs
  <2>30. eff = IF e.receive_benifits THEN x.npendings_eff ELSE MinOf(e.limit_tasks, Num(x))
    BY <1>7, <1>8, Zenon
  <2> HIDE DEF eff
  <2>4. /\ f.limit_paralle_tasks = e.limit_paralle_tasks /\ f.limit_tasks = e.limit_tasks
        /\ f.receive_benifits = e.receive_benifits /\ f.used = e.used
        /\ f.paused = e.paused /\ f.queue = e.queue /\ f.nrunnings = e.nrunnings
        /\ f.ndispatchings = e.ndispatchings /\ f.npendings_eff = eff
    BY <1>7, <2>3, EffFields
  <2>5. less.npendings \in Int /\ less.ndispatchings \in Int
    BY <2>2, EntryIn
  <2> HIDE DEF f
  <2>50. n = s.effective - Share(x) + Share(f)
    BY <2>2
  <2> HIDE DEF n
  <2>6. /\ p.entry[g] = f /\ \A h \in Ids : h # g => p.entry[h] = less.entry[h]
        /\ p.npendings = less.npendings /\ p.effective = n
        /\ p.order = less.order /\ SameRest(less, p)
    BY <2>2, <2>3, <2>5, RecountCounts DEF SameRest
  <2>7. Num(f) = Num(x)
    BY <1>7, <2>4 DEF Num
  <2>8. \/ x.receive_benifits /\ f.receive_benifits
        \/ ~x.receive_benifits /\ ~f.receive_benifits /\ x.nrunnings = 0
                /\ f.limit_tasks > 0
    <3>1. CASE x.receive_benifits /\ benefits
      BY <1>8, <2>4, <3>1, Zenon
    <3>2. CASE ~x.receive_benifits /\ ~benefits /\ limit > 0 /\ x.nrunnings = 0
      <4>1. f.limit_tasks > 0
        BY <1>1, <1>7, <2>4, <3>2
      <4> QED
        BY <1>8, <2>4, <3>2, <4>1, Zenon
    <3> QED
      BY <1>10, <1>70, <3>1, <3>2 DEF Fits
  <2>80. f.npendings_eff = IF f.receive_benifits THEN x.npendings_eff
                           ELSE MinOf(f.limit_tasks, Num(x))
    BY <2>4, <2>30, Zenon
  <2>81. ~f.receive_benifits => f.limit_paralle_tasks > 0
    BY <1>8, <2>4, Zenon
  <2>82. f.limit_tasks \in Nat /\ f.paused = x.paused /\ f.nrunnings = x.nrunnings
    BY <1>7, <1>8, <2>4, Zenon
  <2>9. EntryCount(f) /\ Load(f) = Load(x) /\ Part(f) = Share(f) /\ Part(x) = Share(x)
    BY <1>6, <1>10, <1>70, <2>3, <2>7, <2>8, <2>80, <2>81, <2>82, BusyAttr
  <2>10. \A h \in Ids : h # g => p.entry[h] = s.entry[h]
    BY <2>2, <2>6
  <2>11. \A h \in Ids : h # g => SameNums(s.entry[h], p.entry[h])
    BY <2>10 DEF SameNums
  <2>110. Share(f) \in Int
    <3>1. f.npendings_eff \in Int /\ f.receive_benifits \in BOOLEAN
      BY <2>3 DEF EntryShape
    <3> QED
      BY <1>6, <2>7, <3>1 DEF Share
  <2>12. p.effective = s.effective + (Part(p.entry[g]) - Part(s.entry[g]))
    BY <1>6, <2>6, <2>9, <2>50, <2>110 DEF x
  <2>120. p.npendings = s.npendings + (Load(p.entry[g]) - Load(s.entry[g]))
    BY <1>6, <2>2, <2>6, <2>9 DEF x
  <2>13. Moved(s, p, g)
    BY <2>6, <2>9, <2>11, <2>12, <2>120 DEF Moved
  <2>14. SameHands(s, p)
    BY <1>7, <2>2, <2>4, <2>6 DEF SameHands, SameRest, x
  <2>15. benefits => p.entry[g].receive_benifits
    BY <1>8, <2>4, <2>6, Zenon
  <2>16. /\ p.entry[g].used = x.used /\ p.entry[g].paused = x.paused
         /\ p.entry[g].queue = x.queue /\ p.order = s.order
    BY <1>7, <2>2, <2>4, <2>6
  <2> QED
    BY <2>10, <2>13, <2>14, <2>15, <2>16 DEF p, x
<1> QED
  BY <1>9, <1>10

\* A group is created.
LEMMA CreatedCounts ==
  ASSUME NEW s, PoolSound(s), SumSound(s), NEW g \in Free(s)
  PROVE  LET p == Created(s, g, FALSE)
         IN  SumSound(p) /\ SameHands(s, p) /\ p.order = s.order
<1> DEFINE x == s.entry[g]
           e == [s.entry[g] EXCEPT !.used = "valid", !.paused = FALSE]
           r == [s EXCEPT !.entry[g].used = "valid", !.entry[g].paused = FALSE]
           p == Created(s, g, FALSE)
<1>1. /\ s \in GpShape /\ g \in Ids /\ p \in GpShape /\ TaskSound(s)
      /\ s.entry[g].used = "free"
  BY CreatedKeeps DEF PoolSound, Free
<1>2. r = Recount(s, g, e, s.npendings, s.effective, s.ndispatchings)
  BY <1>1 DEF GpShape, Recount
<1>3. p = SetAttr(r, g, r.maxthreads, TRUE)
  BY <1>1 DEF Created, GpShape
<1>4. /\ x \in EntryShape /\ Num(x) \in Nat /\ (Num(x) = 0 <=> x.queue = <<>>)
      /\ x.npendings_eff = EffOf(x) /\ x.nrunnings \in Int /\ x.limit_tasks \in Nat
      /\ s.npendings \in Int /\ s.effective \in Int /\ s.ndispatchings \in Int
  BY <1>1, NumbersIn, EntryIn DEF SumSound, EntryCount
<1>5. /\ e \in EntryShape /\ e.queue = x.queue /\ e.paused = FALSE
      /\ e.nrunnings = x.nrunnings /\ e.ndispatchings = x.ndispatchings
      /\ e.limit_tasks = x.limit_tasks /\ e.npendings_eff = x.npendings_eff
      /\ e.receive_benifits = x.receive_benifits
  BY <1>4 DEF EntryShape
<1>6. x.queue = <<>>
  <2>1. \A t \in Tasks : s.gid[t] = g => s.stat[t] # "waiting"
    BY <1>1 DEF TaskSound
  <2> QED
    BY <1>1, <2>1, EmptyQueue
<1> HIDE DEF e, r, p, x
<1>7. /\ r \in GpShape /\ r.entry[g] = e /\ r.npendings = s.npendings
      /\ r.effective = s.effective /\ r.order = s.order /\ SameRest(s, r)
      /\ \A h \in Ids : h # g => r.entry[h] = s.entry[h]
  BY <1>1, <1>2, <1>4, <1>5, RecountCounts DEF SameRest
<1>8. x.npendings_eff = 0 /\ EffOf(e) = 0 /\ Num(e) = Num(x) /\ Num(x) = 0
  BY <1>4, <1>5, <1>6 DEF EffOf, MinOf, Num
<1>9. /\ Moved(r, p, g) /\ SameHands(r, p) /\ p.order = r.order
      /\ \A h \in Ids : h # g => p.entry[h] = r.entry[h]
  <2>1. r.maxthreads \in Int
    BY <1>7, MaxThreadsIn
  <2>2. r.entry[g].npendings_eff = EffOf(r.entry[g])
    BY <1>5, <1>7, <1>8
  <2>3. Fits(r.entry[g], r.maxthreads, TRUE)
    BY <1>5, <1>6, <1>7 DEF Fits
  <2> QED
    <3>1. LET q == SetAttr(r, g, r.maxthreads, TRUE)
          IN  /\ Moved(r, q, g) /\ SameHands(r, q) /\ q.order = r.order
              /\ \A h \in Ids : h # g => q.entry[h] = r.entry[h]
      <4>1. r \in GpShape /\ g \in Ids /\ TRUE \in BOOLEAN
        BY <1>1, <1>7
      <4> QED
        BY <2>1, <2>2, <2>3, <4>1, SetAttrCounts, Zenon
    <3> QED
      BY <1>3, <3>1, Zenon
<1>10. Load(e) = 0 /\ Load(x) = 0 /\ Part(e) = 0 /\ Part(x) = 0
  BY <1>4, <1>5, <1>8 DEF Load, Part, Share
<1>11. Moved(s, p, g)
  BY <1>7, <1>9, <1>10 DEF Moved, SameNums, x
<1>12. SumSound(p)
  BY <1>1, <1>11, MovedSound
<1>13. SameHands(s, p)
  BY <1>5, <1>7, <1>9 DEF SameHands, SameRest, x
<1> QED
  BY <1>7, <1>9, <1>12, <1>13 DEF p

\* Nothing that a new limit could change has been counted for the group.
Still(e) == e.used = "free" \/ e.paused \/ e.queue = <<>> \/ Rests(e)

\* The same with the new number of threads.
LEMMA UpdateEnvCounts ==
  ASSUME NEW s \in GpShape, SumSound(s), NEW g \in Ids, \A h \in Ids : Still(s.entry[h])
  PROVE  LET p == UpdateEnv(s, g)
         IN  /\ p \in GpShape /\ SumSound(p) /\ SameHands(s, p) /\ p.order = s.order
             /\ \A h \in Ids : Still(p.entry[h])
<1> DEFINE x == s.entry[g]
           p == UpdateEnv(s, g)
<1>1. CASE x.used = "free"
  BY <1>1, SameHandsTrans DEF UpdateEnv
<1>2. CASE x.used # "free"
  <2>1. p = SetAttr(s, g, x.limit_paralle_tasks, x.receive_benifits)
    BY <1>2 DEF UpdateEnv
  <2>2. /\ x.limit_paralle_tasks \in Int /\ x.receive_benifits \in BOOLEAN
        /\ EntryCount(x) /\ Still(x)
    BY NumbersIn DEF SumSound
  <2>3. Fits(x, x.limit_paralle_tasks, x.receive_benifits)
    BY <1>2, <2>2 DEF Still, Rests, EntryCount, Fits
  <2> HIDE DEF p
  <2>4. /\ Moved(s, p, g) /\ SameHands(s, p) /\ p.order = s.order
        /\ p.entry[g].used = x.used /\ p.entry[g].paused = x.paused
        /\ p.entry[g].queue = x.queue
        /\ x.receive_benifits => p.entry[g].receive_benifits
        /\ \A h \in Ids : h # g => p.entry[h] = s.entry[h]
    BY <2>1, <2>2, <2>3, SetAttrCounts DEF EntryCount
  <2>5. p \in GpShape
    BY <2>1, <2>2, SetAttrListed
  <2>6. Still(p.entry[g])
    BY <2>2, <2>4 DEF Still, Rests, SameHands
  <2> QED
    BY <2>4, <2>5, <2>6, MovedSound DEF p
<1> QED
  BY <1>1, <1>2

-----------------------------------------------------------------------------
(***************************************************************************)
(* Groups: suspended and resumed                                           *)
(***************************************************************************)

\* The group is suspended: nothing of it counts.
LEMMA OffCounts ==
  ASSUME NEW x \in EntryShape, EntryCount(x), NEW f \in EntryShape,
         f.paused, f.used = x.used, f.limit_tasks = x.limit_tasks,
         f.limit_paralle_tasks = x.limit_paralle_tasks,
         f.receive_benifits = x.receive_benifits, f.npendings_eff = 0
  PROVE  EntryCount(f) /\ Load(f) = 0 /\ Part(f) = 0
BY DEF EntryCount, EffOf, Load, Part

\* It is resumed and has no tasks.
LEMMA OnCounts ==
  ASSUME NEW x \in EntryShape, EntryCount(x), NEW f \in EntryShape,
         ~f.paused, f.used = x.used, f.limit_tasks = x.limit_tasks,
         f.limit_paralle_tasks = x.limit_paralle_tasks, f.nrunnings = x.nrunnings,
         f.receive_benifits = x.receive_benifits, f.npendings_eff = x.npendings_eff,
         Num(f) = Num(x), Num(x) \in Nat, ~x.paused \/ Num(x) = 0
  PROVE  EntryCount(f) /\ Load(f) = Load(x) /\ Part(f) = Part(x)
<1>1. /\ x.paused \in BOOLEAN /\ x.nrunnings \in Int /\ x.limit_tasks \in Nat
      /\ x.receive_benifits \in BOOLEAN /\ x.npendings_eff = EffOf(x)
  BY DEF EntryShape, EntryCount
<1>2. EffOf(f) = EffOf(x)
  BY <1>1 DEF EffOf, MinOf
<1>3. x.paused => EffOf(x) = 0
  BY DEF EffOf
<1> QED
  BY <1>1, <1>2, <1>3 DEF EntryCount, Load, Part, Share

\* It is resumed and its tasks are counted.
LEMMA OnAgainCounts ==
  ASSUME NEW x \in EntryShape, EntryCount(x), NEW f \in EntryShape,
         x.paused, ~f.paused, f.used = x.used, f.limit_tasks = x.limit_tasks,
         f.limit_paralle_tasks = x.limit_paralle_tasks, f.nrunnings = x.nrunnings,
         f.receive_benifits = x.receive_benifits, Rests(x),
         f.npendings_eff = IF f.receive_benifits THEN x.npendings_eff
                           ELSE MinOf(f.limit_tasks, Num(x)),
         Num(f) = Num(x), Num(x) \in Nat
  PROVE  EntryCount(f) /\ Load(f) = Num(x) /\ Part(f) = Share(f) /\ Load(x) = 0
         /\ Part(x) = 0
<1>1. /\ x.nrunnings \in Int /\ x.limit_tasks \in Nat
      /\ x.receive_benifits \in BOOLEAN /\ x.npendings_eff = EffOf(x)
  BY DEF EntryShape, EntryCount
<1>2. EffOf(x) = 0
  BY DEF EffOf
<1>3. f.npendings_eff = EffOf(f)
  <2>1. CASE f.receive_benifits
    BY <1>1, <1>2, <2>1 DEF EffOf
  <2>2. CASE ~f.receive_benifits
    <3>1. x.nrunnings = 0
      BY <2>2 DEF Rests
    <3> QED
      BY <1>1, <2>2, <3>1 DEF EffOf, MinOf
  <2> QED
    BY <2>1, <2>2
<1> QED
  BY <1>1, <1>3 DEF EntryCount, Load, Part

LEMMA PausedFields ==
  ASSUME NEW s \in GpShape, NEW g \in Ids, NEW b \in BOOLEAN
  PROVE  LET p == Paused(s, g, b)
             x == s.entry[g]
             f == p.entry[g]
         IN  /\ p \in GpShape /\ f \in EntryShape /\ x \in EntryShape
             /\ f.paused = b /\ f.used = x.used /\ f.limit_tasks = x.limit_tasks
             /\ f.limit_paralle_tasks = x.limit_paralle_tasks
             /\ f.nrunnings = x.nrunnings /\ f.ndispatchings = x.ndispatchings
             /\ f.receive_benifits = x.receive_benifits
             /\ f.npendings_eff = x.npendings_eff /\ f.queue = x.queue
             /\ Num(f) = Num(x) /\ f.active = x.active
             /\ \A h \in Ids : h # g => p.entry[h] = s.entry[h]
             /\ p.npendings = s.npendings /\ p.effective = s.effective
             /\ p.order = s.order /\ SameRest(s, p) /\ SameRuns(s, p)
<1> DEFINE p == Paused(s, g, b)
           x == s.entry[g]
           e == [s.entry[g] EXCEPT !.paused = b]
<1>1. /\ p = Recount(s, g, e, s.npendings, s.effective, s.ndispatchings)
      /\ e \in EntryShape
  BY PausedIs
<1>2. x \in EntryShape /\ s.npendings \in Int /\ s.effective \in Int
      /\ s.ndispatchings \in Int
  BY EntryIn
<1>3. /\ e.paused = b /\ e.used = x.used /\ e.limit_tasks = x.limit_tasks
      /\ e.limit_paralle_tasks = x.limit_paralle_tasks
      /\ e.nrunnings = x.nrunnings /\ e.ndispatchings = x.ndispatchings
      /\ e.receive_benifits = x.receive_benifits
      /\ e.npendings_eff = x.npendings_eff /\ e.queue = x.queue /\ e.active = x.active
  BY <1>2 DEF EntryShape
<1> HIDE DEF p, x, e
<1>4. /\ p \in GpShape /\ p.entry[g] = e
      /\ \A h \in Ids : h # g => p.entry[h] = s.entry[h]
      /\ p.npendings = s.npendings /\ p.effective = s.effective
      /\ p.order = s.order /\ SameRest(s, p)
  BY <1>1, <1>2, RecountCounts DEF SameRest
<1>5. SameRuns(s, p)
  BY <1>3, <1>4 DEF SameRuns, x
<1>6. Num(e) = Num(x)
  BY <1>3 DEF Num
<1> QED
  BY <1>1, <1>2, <1>3, <1>4, <1>5, <1>6 DEF p, x

\* A group is suspended.
LEMMA SuspendedCounts ==
  ASSUME NEW s, PoolSound(s), SumSound(s), NEW g \in Ids, IsValid(s, g)
  PROVE  LET p == SuspendedGroup(s, g)
         IN  SumSound(p) /\ SameRuns(s, p) /\ p.order = s.order
<1> DEFINE p == SuspendedGroup(s, g)
           e == s.entry[g]
           off == Paused(s, g, TRUE)
           o == off.entry[g]
<1>1. /\ s \in GpShape /\ ListSound(s) /\ e \in EntryShape /\ EntryCount(e)
      /\ Num(e) \in Nat /\ (Num(e) = 0 <=> e.queue = <<>>)
      /\ e.npendings_eff \in Int /\ e.receive_benifits \in BOOLEAN
      /\ e.nrunnings \in Int /\ e.limit_tasks \in Int
      /\ Load(e) \in Int /\ Part(e) \in Int /\ Share(e) \in Int
      /\ s.npendings \in Int /\ s.effective \in Int /\ s.ndispatchings \in Int
      /\ p \in GpShape
  BY EntryIn, NumbersIn, SuspendedKeeps DEF PoolSound, GroupSound, SumSound
<1>2. p = IF e.paused THEN s
          ELSE IF e.queue = <<>>
          THEN IF s.active_idx # s.nactives_ok THEN Shrink(off) ELSE off
          ELSE [Inactivate(off, g) EXCEPT
                    !.npendings = @ - Num(e), !.effective = @ - Share(e),
                    !.entry[g].npendings_eff = IF e.receive_benifits THEN @ ELSE 0]
  BY DEF SuspendedGroup, Paused
<1>3. /\ off \in GpShape /\ o \in EntryShape
      /\ o.paused = TRUE /\ o.used = e.used /\ o.limit_tasks = e.limit_tasks
      /\ o.limit_paralle_tasks = e.limit_paralle_tasks
      /\ o.nrunnings = e.nrunnings /\ o.ndispatchings = e.ndispatchings
      /\ o.receive_benifits = e.receive_benifits
      /\ o.npendings_eff = e.npendings_eff /\ o.queue = e.queue
      /\ Num(o) = Num(e) /\ o.active = e.active
      /\ \A h \in Ids : h # g => off.entry[h] = s.entry[h]
      /\ off.npendings = s.npendings /\ off.effective = s.effective
      /\ off.order = s.order /\ SameRest(s, off) /\ SameRuns(s, off)
      /\ off.actentry = s.actentry /\ off.active_idx = s.active_idx
      /\ off.nactives_ok = s.nactives_ok
  <2> HIDE DEF p, e
  <2>1. s \in GpShape /\ TRUE \in BOOLEAN
    BY <1>1
  <2>2. /\ off.actentry = s.actentry /\ off.active_idx = s.active_idx
        /\ off.nactives_ok = s.nactives_ok
    BY <2>1, PausedIs
  <2>3. /\ off \in GpShape /\ o \in EntryShape
        /\ o.paused = TRUE /\ o.used = s.entry[g].used
        /\ o.limit_tasks = s.entry[g].limit_tasks
        /\ o.limit_paralle_tasks = s.entry[g].limit_paralle_tasks
        /\ o.nrunnings = s.entry[g].nrunnings
        /\ o.ndispatchings = s.entry[g].ndispatchings
        /\ o.receive_benifits = s.entry[g].receive_benifits
        /\ o.npendings_eff = s.entry[g].npendings_eff /\ o.queue = s.entry[g].queue
        /\ Num(o) = Num(s.entry[g]) /\ o.active = s.entry[g].active
        /\ \A h \in Ids : h # g => off.entry[h] = s.entry[h]
        /\ off.npendings = s.npendings /\ off.effective = s.effective
        /\ off.order = s.order /\ SameRest(s, off) /\ SameRuns(s, off)
    BY <2>1, PausedFields, ZenonT(40)
  <2> HIDE DEF off, o
  <2> QED
    BY <2>2, <2>3 DEF e
<1> HIDE DEF p, e, off, o
<1>4. ListSound(off)
  <2>2. \A h \in Ids : off.entry[h].active = s.entry[h].active
    BY <1>3 DEF e, o
  <2>3. Actives(off) = Actives(s) /\ First(off) = First(s)
    BY <1>3, <2>2 DEF Actives, First
  <2> QED
    BY <1>1, <1>3, <2>3 DEF ListSound, OnePlaceEach
<1>5. CASE e.paused
  BY <1>2, <1>5, SameRunsTrans DEF p
<1>6. CASE ~e.paused /\ e.queue = <<>>
  <2>1. e.npendings_eff = 0 /\ Load(e) = 0 /\ Part(e) = 0
    <3>1. EffOf(e) = 0
      BY <1>1, <1>6 DEF EffOf, MinOf, EntryCount
    <3> QED
      BY <1>1, <1>6, <3>1 DEF EntryCount, Load, Part, Share
  <2>2. EntryCount(o) /\ Load(o) = 0 /\ Part(o) = 0
    BY <1>1, <1>3, <2>1, OffCounts
  <2>3. Moved(s, off, g)
    BY <1>1, <1>3, <2>1, <2>2 DEF Moved, SameNums, e, o
  <2>4. SumSound(off)
    BY <1>1, <1>3, <2>3, MovedSound
  <2>5. CASE p = off
    BY <1>3, <2>4, <2>5 DEF p
  <2>6. CASE p = Shrink(off)
    <3>1. SameCounts(off, p)
      BY <1>3, <1>4, <2>6, ShrinkCounts
    <3> QED
      BY <1>1, <1>3, <2>4, <3>1, CountsSound, SameRunsTrans DEF p
  <2> QED
    BY <1>2, <1>6, <2>5, <2>6
<1>7. CASE ~e.paused /\ e.queue # <<>>
  <2> DEFINE q == Inactivate(off, g)
             n == q.npendings - Num(e)
             eff == q.effective - Share(e)
             w == IF e.receive_benifits THEN q.entry[g].npendings_eff ELSE 0
             f == [q.entry[g] EXCEPT !.npendings_eff = w]
  <2>1. g \in Actives(s)
    BY <1>7 DEF PoolSound, GroupSound, ReadyGroups, Ready, IsValid, e
  <2>2. o.active
    BY <1>3, <2>1 DEF Actives, e
  <2>3. q \in GpShape /\ SameCounts(off, q)
    BY <1>3, <1>4, <2>2, InactivateKeeps, InactivateCounts DEF o
  <2>4. p = [q EXCEPT !.npendings = @ - Num(e), !.effective = @ - Share(e),
                      !.entry[g].npendings_eff = IF e.receive_benifits THEN @ ELSE 0]
    BY <1>2, <1>7
  <2> HIDE DEF q
  <2>5. p = [q EXCEPT !.npendings = n, !.effective = eff,
                      !.entry = [q.entry EXCEPT ![g] = f]]
    BY <2>3, <2>4 DEF GpShape
  <2>6. /\ n \in Int /\ eff \in Int /\ w \in Int /\ q.entry[g] \in EntryShape
        /\ q.ndispatchings \in Int
    <3>1. /\ q.npendings \in Int /\ q.effective \in Int /\ q.ndispatchings \in Int
          /\ q.entry[g] \in EntryShape /\ q.entry[g].npendings_eff \in Int
      BY <2>3, EntryIn
    <3> QED
      BY <1>1, <3>1, SMTT(30)
  <2>60. SameNums(o, q.entry[g]) /\ q.npendings = s.npendings /\ q.effective = s.effective
         /\ q.order = s.order /\ SameRest(s, q)
         /\ \A h \in Ids : h # g => SameNums(s.entry[h], q.entry[h])
    BY <1>3, <2>3 DEF SameCounts, SameRest, o
  <2>61. w = 0
    <3>1. e.receive_benifits => e.npendings_eff = 0
      BY <1>1 DEF EntryCount, EffOf
    <3>2. q.entry[g].npendings_eff = e.npendings_eff
      BY <1>3, <2>60 DEF SameNums
    <3> QED
      BY <3>1, <3>2
  <2> HIDE DEF n, eff, w
  <2>7. /\ f \in EntryShape /\ f.limit_paralle_tasks = q.entry[g].limit_paralle_tasks
        /\ f.limit_tasks = q.entry[g].limit_tasks
        /\ f.receive_benifits = q.entry[g].receive_benifits /\ f.used = q.entry[g].used
        /\ f.paused = q.entry[g].paused /\ f.queue = q.entry[g].queue
        /\ f.nrunnings = q.entry[g].nrunnings
        /\ f.ndispatchings = q.entry[g].ndispatchings /\ f.npendings_eff = w
    BY <2>6, EffFields
  <2>70. f.npendings_eff = 0
    BY <2>7, <2>61
  <2>8. p = Recount(q, g, f, n, eff, q.ndispatchings)
    BY <2>3, <2>5 DEF GpShape, Recount
  <2> HIDE DEF f
  <2>9. /\ p.entry[g] = f /\ \A h \in Ids : h # g => p.entry[h] = q.entry[h]
        /\ p.npendings = n /\ p.effective = eff /\ p.order = q.order /\ SameRest(q, p)
    BY <2>3, <2>6, <2>7, <2>8, RecountCounts DEF SameRest
  <2>10. /\ f.paused = TRUE /\ f.used = e.used /\ f.limit_tasks = e.limit_tasks
         /\ f.limit_paralle_tasks = e.limit_paralle_tasks
         /\ f.nrunnings = e.nrunnings /\ f.ndispatchings = e.ndispatchings
         /\ f.receive_benifits = e.receive_benifits
    BY <1>3, <2>7, <2>60 DEF SameNums
  <2>11. EntryCount(f) /\ Load(f) = 0 /\ Part(f) = 0
    BY <1>1, <2>7, <2>10, <2>70, OffCounts
  <2>12. Load(e) = Num(e) /\ Part(e) = Share(e)
    BY <1>7 DEF Load, Part
  <2>13. /\ p.npendings = s.npendings + (Load(p.entry[g]) - Load(e))
         /\ p.effective = s.effective + (Part(p.entry[g]) - Part(e))
    BY <1>1, <2>9, <2>11, <2>12, <2>60 DEF n, eff
  <2>14. \A h \in Ids : h # g => SameNums(s.entry[h], p.entry[h])
    BY <2>9, <2>60
  <2>15. Moved(s, p, g)
    BY <2>9, <2>11, <2>13, <2>14 DEF Moved, e
  <2>16. SumSound(p)
    BY <1>1, <2>15, MovedSound
  <2>17. SameRuns(s, p)
    <3>1. SameRest(s, p)
      BY <2>9, <2>60 DEF SameRest
    <3> QED
      BY <2>9, <2>10, <2>14, <3>1 DEF SameRuns, SameNums, e
  <2> QED
    BY <2>9, <2>16, <2>17, <2>60 DEF p
<1> QED
  BY <1>5, <1>6, <1>7

\* A group is resumed.
LEMMA ResumedCounts ==
  ASSUME NEW s, PoolSound(s), SumSound(s), NEW g \in Ids, IsValid(s, g),
         Rests(s.entry[g])
  PROVE  LET p == ResumedGroup(s, g)
         IN  SumSound(p) /\ SameRuns(s, p) /\ p.order = s.order
<1> DEFINE p == ResumedGroup(s, g)
           e == s.entry[g]
           on == Paused(s, g, FALSE)
           o == on.entry[g]
           more == [on EXCEPT !.npendings = @ + Num(e)]
<1>1. /\ s \in GpShape /\ ListSound(s) /\ e \in EntryShape /\ EntryCount(e)
      /\ Num(e) \in Nat /\ (Num(e) = 0 <=> e.queue = <<>>)
      /\ e.npendings_eff \in Int /\ e.receive_benifits \in BOOLEAN
      /\ e.nrunnings \in Int /\ e.limit_tasks \in Int
      /\ Load(e) \in Int /\ Part(e) \in Int /\ Share(e) \in Int
      /\ s.npendings \in Int /\ s.effective \in Int /\ s.ndispatchings \in Int
      /\ p \in GpShape /\ Rests(e)
  BY EntryIn, NumbersIn, ResumedKeeps DEF PoolSound, GroupSound, SumSound
<1>2. p = IF ~e.paused \/ e.queue = <<>> THEN on
          ELSE Activate(CountedAgain(more, g), g)
  BY DEF ResumedGroup, Paused
<1>3. /\ on \in GpShape /\ o \in EntryShape
      /\ ~o.paused /\ o.used = e.used /\ o.limit_tasks = e.limit_tasks
      /\ o.limit_paralle_tasks = e.limit_paralle_tasks
      /\ o.nrunnings = e.nrunnings /\ o.ndispatchings = e.ndispatchings
      /\ o.receive_benifits = e.receive_benifits
      /\ o.npendings_eff = e.npendings_eff /\ o.queue = e.queue
      /\ Num(o) = Num(e) /\ o.active = e.active
      /\ \A h \in Ids : h # g => on.entry[h] = s.entry[h]
      /\ on.npendings = s.npendings /\ on.effective = s.effective
      /\ on.order = s.order /\ SameRest(s, on) /\ SameRuns(s, on)
      /\ on.actentry = s.actentry /\ on.active_idx = s.active_idx
      /\ on.nactives_ok = s.nactives_ok
  <2> HIDE DEF p, e, more
  <2>1. s \in GpShape /\ FALSE \in BOOLEAN
    BY <1>1
  <2>2. /\ on.actentry = s.actentry /\ on.active_idx = s.active_idx
        /\ on.nactives_ok = s.nactives_ok
    BY <2>1, PausedIs
  <2>3. /\ on \in GpShape /\ o \in EntryShape
        /\ o.paused = FALSE /\ o.used = s.entry[g].used
        /\ o.limit_tasks = s.entry[g].limit_tasks
        /\ o.limit_paralle_tasks = s.entry[g].limit_paralle_tasks
        /\ o.nrunnings = s.entry[g].nrunnings
        /\ o.ndispatchings = s.entry[g].ndispatchings
        /\ o.receive_benifits = s.entry[g].receive_benifits
        /\ o.npendings_eff = s.entry[g].npendings_eff /\ o.queue = s.entry[g].queue
        /\ Num(o) = Num(s.entry[g]) /\ o.active = s.entry[g].active
        /\ \A h \in Ids : h # g => on.entry[h] = s.entry[h]
        /\ on.npendings = s.npendings /\ on.effective = s.effective
        /\ on.order = s.order /\ SameRest(s, on) /\ SameRuns(s, on)
    BY <2>1, PausedFields, ZenonT(40)
  <2> HIDE DEF on, o
  <2> QED
    BY <2>2, <2>3 DEF e
<1> HIDE DEF p, e, on, o, more
<1>4. ListSound(on)
  <2>2. \A h \in Ids : on.entry[h].active = s.entry[h].active
    BY <1>3 DEF e, o
  <2>3. Actives(on) = Actives(s) /\ First(on) = First(s)
    BY <1>3, <2>2 DEF Actives, First
  <2> QED
    BY <1>1, <1>3, <2>3 DEF ListSound, OnePlaceEach
<1>5. CASE ~e.paused \/ e.queue = <<>>
  <2>1. p = on
    BY <1>2, <1>5
  <2>2. ~e.paused \/ Num(e) = 0
    BY <1>1, <1>5
  <2>3. EntryCount(o) /\ Load(o) = Load(e) /\ Part(o) = Part(e)
    BY <1>1, <1>3, <2>2, OnCounts
  <2>4. Moved(s, on, g)
    BY <1>1, <1>3, <2>3 DEF Moved, SameNums, e, o
  <2>5. SumSound(on)
    BY <1>1, <1>3, <2>4, MovedSound
  <2> QED
    BY <1>3, <2>1, <2>5 DEF p
<1>6. CASE e.paused /\ e.queue # <<>>
  <2> DEFINE n == on.npendings + Num(e)
             w == CountedAgain(more, g)
  <2>1. n \in Int /\ on.ndispatchings \in Int /\ on.effective \in Int
    BY <1>1, <1>3, EntryIn
  <2>2. more = Recount(on, g, o, n, on.effective, on.ndispatchings)
    BY <1>3 DEF GpShape, Recount, more, o
  <2> HIDE DEF n
  <2>3. /\ more \in GpShape /\ more.entry[g] = o
        /\ \A h \in Ids : h # g => more.entry[h] = on.entry[h]
        /\ more.npendings = n /\ more.effective = on.effective
        /\ more.ndispatchings = on.ndispatchings /\ more.order = on.order
        /\ SameRest(on, more)
    BY <1>3, <2>1, <2>2, RecountCounts DEF SameRest
  <2> DEFINE eff == IF o.receive_benifits THEN o.npendings_eff
                    ELSE MinOf(o.limit_tasks, Num(o))
             f == [o EXCEPT !.npendings_eff = eff]
             k == more.effective + Share(f)
  <2>4. /\ f \in EntryShape /\ k \in Int /\ eff \in Int
        /\ w = Recount(more, g, f, more.npendings, k, more.ndispatchings)
    BY <2>3, CountedAgainIs
  <2>5. eff = IF o.receive_benifits THEN e.npendings_eff ELSE MinOf(o.limit_tasks, Num(e))
    BY <1>3, Zenon
  <2> HIDE DEF w, eff
  <2>6. /\ f.limit_paralle_tasks = o.limit_paralle_tasks /\ f.limit_tasks = o.limit_tasks
        /\ f.receive_benifits = o.receive_benifits /\ f.used = o.used
        /\ f.paused = o.paused /\ f.queue = o.queue /\ f.nrunnings = o.nrunnings
        /\ f.ndispatchings = o.ndispatchings /\ f.npendings_eff = eff
    BY <1>3, <2>4, EffFields
  <2> HIDE DEF f
  <2>7. k = s.effective + Share(f)
    BY <1>3, <2>3
  <2> HIDE DEF k
  <2>8. /\ w \in GpShape /\ w.entry[g] = f
        /\ \A h \in Ids : h # g => w.entry[h] = more.entry[h]
        /\ w.npendings = more.npendings /\ w.effective = k
        /\ w.order = more.order /\ SameRest(more, w)
    <3>1. more.npendings \in Int /\ more.ndispatchings \in Int
      BY <2>3, EntryIn
    <3> QED
      BY <2>3, <2>4, <3>1, RecountCounts DEF SameRest
  <2>9. EntryCount(f) /\ Load(f) = Num(e) /\ Part(f) = Share(f) /\ Load(e) = 0
        /\ Part(e) = 0
    <3>1. f.npendings_eff = IF f.receive_benifits THEN e.npendings_eff
                            ELSE MinOf(f.limit_tasks, Num(e))
      BY <2>5, <2>6, Zenon
    <3>2. Num(f) = Num(e)
      BY <1>3, <2>6 DEF Num
    <3>3. /\ ~f.paused /\ f.used = e.used /\ f.limit_tasks = e.limit_tasks
          /\ f.limit_paralle_tasks = e.limit_paralle_tasks /\ f.nrunnings = e.nrunnings
          /\ f.receive_benifits = e.receive_benifits
      BY <1>3, <2>6
    <3> QED
      BY <1>1, <1>6, <2>4, <3>1, <3>2, <3>3, OnAgainCounts
  <2>10. \A h \in Ids : h # g => w.entry[h] = s.entry[h]
    BY <1>3, <2>3, <2>8
  <2>11. Share(f) \in Int
    <3>1. f.npendings_eff \in Int /\ f.receive_benifits \in BOOLEAN
      BY <2>4 DEF EntryShape
    <3>2. Num(f) \in Int
      BY <1>1, <1>3, <2>6 DEF Num
    <3> QED
      BY <3>1, <3>2 DEF Share
  <2>12. Moved(s, w, g)
    <3>1. w.npendings = s.npendings + (Load(f) - Load(e))
      BY <1>1, <1>3, <2>3, <2>8, <2>9 DEF n
    <3>2. w.effective = s.effective + (Part(f) - Part(e))
      BY <1>1, <2>7, <2>8, <2>9, <2>11
    <3> QED
      BY <2>8, <2>9, <2>10, <3>1, <3>2 DEF Moved, SameNums, e
  <2>13. SumSound(w) /\ w.order = s.order
    BY <1>1, <1>3, <2>3, <2>8, <2>12, MovedSound
  <2>14. SameRuns(s, w)
    <3>1. SameRest(s, w)
      BY <1>3, <2>3, <2>8 DEF SameRest
    <3>2. /\ f.nrunnings = e.nrunnings /\ f.ndispatchings = e.ndispatchings
          /\ f.limit_paralle_tasks = e.limit_paralle_tasks
          /\ f.limit_tasks = e.limit_tasks /\ f.receive_benifits = e.receive_benifits
      BY <1>3, <2>6
    <3> QED
      BY <2>8, <2>10, <3>1, <3>2 DEF SameRuns, e
  <2>15. p = Activate(w, g)
    BY <1>2, <1>6 DEF w
  <2>16. ListSound(w)
    <3>1. w = CountedAgain(more, g)
      BY DEF w
    <3>2. Listed(more, w)
      BY <2>3, <3>1, CountedAgainListed
    <3>3. Listed(on, more)
      <4>1. LikeEntry(o, o)
        BY <1>3 DEF LikeEntry
      <4> QED
        BY <1>3, <2>1, <2>2, <4>1, RecountIs DEF o
    <3> QED
      BY <1>4, <3>2, <3>3, ListedSound
  <2>17. SameCounts(w, p)
    BY <2>8, <2>15, <2>16, ActivateCounts
  <2> QED
    BY <1>1, <2>8, <2>13, <2>14, <2>17, CountsSound, SameRunsTrans DEF p
<1> QED
  BY <1>5, <1>6

\* All groups are.
LEMMA SuspendedAllCounts ==
  ASSUME NEW s, PoolSound(s), SumSound(s)
  PROVE  LET p == SuspendedAll(s)
         IN  SumSound(p) /\ SameRuns(s, p) /\ p.order = s.order
<1> DEFINE n == s.num
           seq == Places(n)
           S == {p \in GpShape : /\ PoolSound(p) /\ SumSound(p) /\ SameRuns(s, p)
                                 /\ SameGroups(s, p) /\ p.order = s.order}
           turn(p, g) == IF IsValid(p, g) THEN SuspendedGroup(p, g) ELSE p
           Is(f) == f = [z \in SUBSET (1 .. n) |->
                    IF z = {} THEN s ELSE turn(f[z \ {Max(z)}], seq[Max(z)])]
           F == CHOOSE f : Is(f)
           step == [x \in S \X (1 .. n) |-> turn(x[1], seq[x[2]])]
<1>1. n \in Nat /\ n <= MaxNum /\ MaxNum \in Nat
  BY IdsFinite DEF PoolSound, GpShape
<1>2. SuspendedAll(s) = F[1 .. n]
  <2>1. DOMAIN seq = 1 .. n
    BY DEF Places
  <2> QED
    BY <2>1, Zenon DEF SuspendedAll, FoldLeft, MapThenFoldSet
<1>3. ASSUME NEW p \in S, NEW i \in 1 .. n
      PROVE  turn(p, seq[i]) \in S
  <2>1. seq[i] \in Ids
    BY <1>1 DEF Places, Ids
  <2> DEFINE g == seq[i]
             q == turn(p, g)
  <2> HIDE DEF g
  <2>2. CASE ~IsValid(p, g)
    BY <2>2 DEF g
  <2>3. CASE IsValid(p, g)
    <3>1. g \in Ids /\ PoolSound(p) /\ SumSound(p) /\ q = SuspendedGroup(p, g)
      BY <2>1, <2>3 DEF g
    <3> HIDE DEF q
    <3>3. PoolSound(q) /\ SameGroups(p, q)
      BY <2>3, <3>1, SuspendedKeeps
    <3>4. SumSound(q) /\ SameRuns(p, q) /\ q.order = p.order
      BY <2>3, <3>1, SuspendedCounts
    <3>5. SameRuns(s, q) /\ SameGroups(s, q) /\ q.order = s.order /\ q \in GpShape
      BY <3>3, <3>4, SameRunsTrans, SameTrans DEF PoolSound
    <3> QED
      BY <3>3, <3>4, <3>5 DEF q, g
  <2> QED
    BY <2>2, <2>3
<1>4. step \in [S \X (1 .. n) -> S]
  BY <1>3
<1>5. s \in S
  BY SameTrans, SameRunsTrans, SameHandsTrans DEF PoolSound
<1> HIDE DEF seq
<1>6. Is(F)
  <2> HIDE DEF S, turn
  <2>1. PICK f \in [SUBSET (1 .. n) -> S] : FoldedBy(f, n, s, step)
    <3> HIDE DEF step, n
    <3> QED
      BY <1>1, <1>4, <1>5, FoldExists
  <2>2. \A z \in SUBSET (1 .. n) : z # {} => Max(z) \in 1 .. n
    BY <1>1, MaxIn
  <2>3. Is(f)
    BY <2>1, <2>2 DEF FoldedBy
  <2> HIDE DEF Is
  <2> QED
    BY <2>3, Zenon
<1>7. Folds(F, n, S, s, step)
  <2> HIDE DEF F, n, S, turn
  <2>1. {} \in SUBSET (1 .. n)
    OBVIOUS
  <2>2. F[{}] = s
    BY <1>6, <2>1, Zenon
  <2>3. ASSUME NEW z \in SUBSET (1 .. n), z # {}, F[z \ {Max(z)}] \in S
        PROVE  F[z] = step[<<F[z \ {Max(z)}], Max(z)>>]
    BY <1>1, <1>6, <2>3, MaxIn
  <2> HIDE DEF step
  <2> QED
    BY <2>2, <2>3 DEF Folds
<1>8. F[1 .. n] \in S
  <2> HIDE DEF F, step, n, S
  <2> QED
    BY <1>1, <1>4, <1>5, <1>7, FoldEnds
<1> QED
  BY <1>2, <1>8

\* All groups are.
LEMMA ResumedAllCounts ==
  ASSUME NEW s, PoolSound(s), SumSound(s),
         \A g \in Ids : IsValid(s, g) => Rests(s.entry[g])
  PROVE  LET p == ResumedAll(s)
         IN  SumSound(p) /\ SameRuns(s, p) /\ p.order = s.order
<1> DEFINE n == s.num
           seq == Places(n)
           S == {p \in GpShape : /\ PoolSound(p) /\ SumSound(p) /\ SameRuns(s, p)
                                 /\ SameGroups(s, p) /\ p.order = s.order}
           turn(p, g) == IF IsValid(p, g) THEN ResumedGroup(p, g) ELSE p
           Is(f) == f = [z \in SUBSET (1 .. n) |->
                    IF z = {} THEN s ELSE turn(f[z \ {Max(z)}], seq[Max(z)])]
           F == CHOOSE f : Is(f)
           step == [x \in S \X (1 .. n) |-> turn(x[1], seq[x[2]])]
<1>1. n \in Nat /\ n <= MaxNum /\ MaxNum \in Nat
  BY IdsFinite DEF PoolSound, GpShape
<1>2. ResumedAll(s) = F[1 .. n]
  <2>1. DOMAIN seq = 1 .. n
    BY DEF Places
  <2> QED
    BY <2>1, Zenon DEF ResumedAll, FoldLeft, MapThenFoldSet
<1>3. ASSUME NEW p \in S, NEW i \in 1 .. n
      PROVE  turn(p, seq[i]) \in S
  <2>1. seq[i] \in Ids
    BY <1>1 DEF Places, Ids
  <2> DEFINE g == seq[i]
             q == turn(p, g)
  <2> HIDE DEF g
  <2>2. CASE ~IsValid(p, g)
    BY <2>2 DEF g
  <2>3. CASE IsValid(p, g)
    <3>1. g \in Ids /\ PoolSound(p) /\ SumSound(p) /\ q = ResumedGroup(p, g)
      BY <2>1, <2>3 DEF g
    <3>2. Rests(p.entry[g])
      BY <2>3, <3>1 DEF Rests, IsValid, SameGroups, SameRuns
    <3> HIDE DEF q
    <3>3. PoolSound(q) /\ SameGroups(p, q)
      BY <2>3, <3>1, ResumedKeeps
    <3>4. SumSound(q) /\ SameRuns(p, q) /\ q.order = p.order
      BY <2>3, <3>1, <3>2, ResumedCounts
    <3>5. SameRuns(s, q) /\ SameGroups(s, q) /\ q.order = s.order /\ q \in GpShape
      BY <3>3, <3>4, SameRunsTrans, SameTrans DEF PoolSound
    <3> QED
      BY <3>3, <3>4, <3>5 DEF q, g
  <2> QED
    BY <2>2, <2>3
<1>4. step \in [S \X (1 .. n) -> S]
  BY <1>3
<1>5. s \in S
  BY SameTrans, SameRunsTrans, SameHandsTrans DEF PoolSound
<1> HIDE DEF seq
<1>6. Is(F)
  <2> HIDE DEF S, turn
  <2>1. PICK f \in [SUBSET (1 .. n) -> S] : FoldedBy(f, n, s, step)
    <3> HIDE DEF step, n
    <3> QED
      BY <1>1, <1>4, <1>5, FoldExists
  <2>2. \A z \in SUBSET (1 .. n) : z # {} => Max(z) \in 1 .. n
    BY <1>1, MaxIn
  <2>3. Is(f)
    BY <2>1, <2>2 DEF FoldedBy
  <2> HIDE DEF Is
  <2> QED
    BY <2>3, Zenon
<1>7. Folds(F, n, S, s, step)
  <2> HIDE DEF F, n, S, turn
  <2>1. {} \in SUBSET (1 .. n)
    OBVIOUS
  <2>2. F[{}] = s
    BY <1>6, <2>1, Zenon
  <2>3. ASSUME NEW z \in SUBSET (1 .. n), z # {}, F[z \ {Max(z)}] \in S
        PROVE  F[z] = step[<<F[z \ {Max(z)}], Max(z)>>]
    BY <1>1, <1>6, <2>3, MaxIn
  <2> HIDE DEF step
  <2> QED
    BY <2>2, <2>3 DEF Folds
<1>8. F[1 .. n] \in S
  <2> HIDE DEF F, step, n, S
  <2> QED
    BY <1>1, <1>4, <1>5, <1>7, FoldEnds
<1> QED
  BY <1>2, <1>8

LEMMA UpdateAllEnvCounts ==
  ASSUME NEW s, s \in GpShape, SumSound(s), \A h \in Ids : Still(s.entry[h])
  PROVE  LET p == UpdateAllEnv(s)
         IN  SumSound(p) /\ SameHands(s, p) /\ p.order = s.order
<1> DEFINE n == s.num
           seq == Places(n)
           S == {p \in GpShape : /\ SumSound(p) /\ SameHands(s, p) /\ p.order = s.order
                                 /\ \A h \in Ids : Still(p.entry[h])}
           turn(p, g) == UpdateEnv(p, g)
           Is(f) == f = [z \in SUBSET (1 .. n) |->
                    IF z = {} THEN s ELSE turn(f[z \ {Max(z)}], seq[Max(z)])]
           F == CHOOSE f : Is(f)
           step == [x \in S \X (1 .. n) |-> turn(x[1], seq[x[2]])]
<1>1. n \in Nat /\ n <= MaxNum /\ MaxNum \in Nat
  BY IdsFinite DEF PoolSound, GpShape
<1>2. UpdateAllEnv(s) = F[1 .. n]
  <2>1. DOMAIN seq = 1 .. n
    BY DEF Places
  <2> QED
    BY <2>1, Zenon DEF UpdateAllEnv, FoldLeft, MapThenFoldSet
<1>3. ASSUME NEW p \in S, NEW i \in 1 .. n
      PROVE  turn(p, seq[i]) \in S
  <2>1. seq[i] \in Ids
    BY <1>1 DEF Places, Ids
  <2> DEFINE g == seq[i]
             q == turn(p, g)
  <2> HIDE DEF g
  <2>2. g \in Ids /\ p \in GpShape /\ SumSound(p) /\ \A h \in Ids : Still(p.entry[h])
    BY <2>1 DEF g
  <2>3. /\ q \in GpShape /\ SumSound(q) /\ SameHands(p, q) /\ q.order = p.order
        /\ \A h \in Ids : Still(q.entry[h])
    BY <2>2, UpdateEnvCounts
  <2> HIDE DEF q
  <2>4. SameHands(s, q) /\ q.order = s.order
    BY <2>3, SameHandsTrans
  <2> QED
    BY <2>3, <2>4 DEF q, g
<1>4. step \in [S \X (1 .. n) -> S]
  BY <1>3
<1>5. s \in S
  BY SameTrans, SameRunsTrans, SameHandsTrans DEF PoolSound
<1> HIDE DEF seq
<1>6. Is(F)
  <2> HIDE DEF S, turn
  <2>1. PICK f \in [SUBSET (1 .. n) -> S] : FoldedBy(f, n, s, step)
    <3> HIDE DEF step, n
    <3> QED
      BY <1>1, <1>4, <1>5, FoldExists
  <2>2. \A z \in SUBSET (1 .. n) : z # {} => Max(z) \in 1 .. n
    BY <1>1, MaxIn
  <2>3. Is(f)
    BY <2>1, <2>2 DEF FoldedBy
  <2> HIDE DEF Is
  <2> QED
    BY <2>3, Zenon
<1>7. Folds(F, n, S, s, step)
  <2> HIDE DEF F, n, S, turn
  <2>1. {} \in SUBSET (1 .. n)
    OBVIOUS
  <2>2. F[{}] = s
    BY <1>6, <2>1, Zenon
  <2>3. ASSUME NEW z \in SUBSET (1 .. n), z # {}, F[z \ {Max(z)}] \in S
        PROVE  F[z] = step[<<F[z \ {Max(z)}], Max(z)>>]
    BY <1>1, <1>6, <2>3, MaxIn
  <2> HIDE DEF step
  <2> QED
    BY <2>2, <2>3 DEF Folds
<1>8. F[1 .. n] \in S
  <2> HIDE DEF F, step, n, S
  <2> QED
    BY <1>1, <1>4, <1>5, <1>7, FoldEnds
<1> QED
  BY <1>2, <1>8

-----------------------------------------------------------------------------
(***************************************************************************)
(* Tasks that are taken                                                    *)
(***************************************************************************)

\* A task of the entry is taken.
LEMMA OneLessCounts ==
  ASSUME NEW x \in EntryShape, EntryCount(x), NEW f \in EntryShape, ~x.paused,
         f.paused = x.paused, f.used = x.used, f.limit_tasks = x.limit_tasks,
         f.limit_paralle_tasks = x.limit_paralle_tasks,
         f.receive_benifits = x.receive_benifits, f.nrunnings = x.nrunnings + 1,
         Num(x) \in Nat \ {0}, Num(f) = Num(x) - 1,
         x.nrunnings < x.limit_tasks \/ x.receive_benifits,
         f.npendings_eff = IF x.receive_benifits THEN x.npendings_eff
                           ELSE IF Num(x) = 1 THEN 0 ELSE x.npendings_eff - 1
  PROVE  EntryCount(f) /\ Load(f) = Load(x) - 1 /\ Part(f) = Part(x) - 1
<1>1. /\ x.nrunnings \in Int /\ x.limit_tasks \in Nat /\ x.receive_benifits \in BOOLEAN
      /\ x.npendings_eff = EffOf(x) /\ x.npendings_eff \in Int
  BY DEF EntryShape, EntryCount
<1>2. CASE x.receive_benifits
  <2>1. EffOf(x) = 0 /\ EffOf(f) = 0
    BY <1>2 DEF EffOf
  <2> QED
    BY <1>1, <1>2, <2>1 DEF EntryCount, Load, Part, Share
<1>3. CASE ~x.receive_benifits
  <2>1. EffOf(x) = IF x.limit_tasks - x.nrunnings < Num(x) THEN x.limit_tasks - x.nrunnings
                   ELSE Num(x)
    BY <1>1, <1>3 DEF EffOf, MinOf
  <2>2. EffOf(f) = IF x.nrunnings + 1 >= x.limit_tasks THEN 0
                   ELSE IF x.limit_tasks - (x.nrunnings + 1) < Num(x) - 1
                   THEN x.limit_tasks - (x.nrunnings + 1) ELSE Num(x) - 1
    BY <1>1, <1>3 DEF EffOf, MinOf
  <2>3. x.nrunnings < x.limit_tasks
    BY <1>3
  <2>4. f.npendings_eff = x.npendings_eff - 1 /\ f.npendings_eff = EffOf(f)
    BY <1>1, <1>3, <2>1, <2>2, <2>3
  <2>5. Share(f) = f.npendings_eff /\ Share(x) = x.npendings_eff
    BY <1>3 DEF Share
  <2> QED
    BY <1>1, <1>3, <2>4, <2>5 DEF EntryCount, Load, Part
<1> QED
  BY <1>2, <1>3

LEMMA NumOfLess ==
  ASSUME NEW x \in EntryShape, NEW f \in EntryShape, NEW t, OneMore(f.queue, t, x.queue)
  PROVE  Num(x) \in Nat \ {0} /\ Num(f) \in Nat /\ Num(f) = Num(x) - 1
<1>1. Len(f.queue) \in Nat
  BY LenIn DEF EntryShape
<1> QED
  BY <1>1 DEF OneMore, Num

\* A task that waits no more leaves the order of all tasks.
LEMMA OrderLess ==
  ASSUME NEW s \in GpShape, OrderSound(s), NEW t \in Tasks, s.stat[t] = "waiting",
         NEW p, p.order = RemoveFirst(s.order, t), p.stat[t] # "waiting",
         \A u \in Tasks : u # t => p.stat[u] = s.stat[u]
  PROVE  OrderSound(p)
<1>1. s.order \in Seq(Tasks) /\ t \in Range(s.order)
  BY DEF OrderSound, GpShape
<1>2. OneMore(p.order, t, s.order)
  BY <1>1, RemoveIsOneLess
<1>3. Once(p.order) /\ t \notin Range(p.order) /\ Range(s.order) = Range(p.order) \cup {t}
  BY <1>2 DEF OneMore, OrderSound
<1> QED
  BY <1>3 DEF OrderSound

\* What t leaves when it is taken, before it runs.
Left(s, t) ==
    LET g == s.gid[t]
        e == s.entry[g]
    IN  [s EXCEPT !.entry[g].queue = Tail(@),
                  !.entry[g].npendings_eff =
                                IF e.receive_benifits THEN @
                                ELSE IF Num(e) = 1 THEN 0 ELSE @ - 1,
                  !.effective = @ - 1, !.npendings = @ - 1,
                  !.order = RemoveFirst(@, t)]

\* What taking a task changes before the list of active entries.
LEMMA LeftIs ==
  ASSUME NEW s \in GpShape, NEW t \in Tasks, s.entry[s.gid[t]].queue # <<>>
  PROVE  LET g == s.gid[t]
             x == s.entry[g]
             p == Left(s, t)
             e == p.entry[g]
         IN  /\ p \in GpShape /\ e \in EntryShape /\ e.queue = Tail(x.queue)
             /\ \A h \in Ids : h # g => p.entry[h] = s.entry[h]
             /\ e.npendings_eff = IF x.receive_benifits THEN x.npendings_eff
                                  ELSE IF Num(x) = 1 THEN 0 ELSE x.npendings_eff - 1
             /\ e.paused = x.paused /\ e.used = x.used /\ e.limit_tasks = x.limit_tasks
             /\ e.limit_paralle_tasks = x.limit_paralle_tasks /\ e.active = x.active
             /\ e.throttle = x.throttle /\ e.receive_benifits = x.receive_benifits
             /\ e.nrunnings = x.nrunnings /\ e.ndispatchings = x.ndispatchings
             /\ p.effective = s.effective - 1 /\ p.npendings = s.npendings - 1
             /\ p.order = RemoveFirst(s.order, t) /\ SameRest(s, p)
             /\ Rearranged(s, p)
<1> DEFINE g == s.gid[t]
           x == s.entry[g]
           q == x.queue
           eff == IF x.receive_benifits THEN x.npendings_eff
                  ELSE IF Num(x) = 1 THEN 0 ELSE x.npendings_eff - 1
           e == [x EXCEPT !.queue = Tail(q), !.npendings_eff = eff]
           E == [s.entry EXCEPT ![g] = e]
           o == RemoveFirst(s.order, t)
           p == Left(s, t)
<1>1. g \in Ids
  BY DEF GpShape
<1> HIDE DEF g
<1>2. x \in EntryShape /\ q \in Seq(Tasks) /\ q # <<>>
  BY <1>1, EntryIn DEF g
<1>3. Tail(q) \in Seq(Tasks)
  BY <1>2, TailIsOneLess DEF OneMore
<1>4. p = [s EXCEPT !.entry = E, !.effective = s.effective - 1,
                    !.npendings = s.npendings - 1, !.order = o]
  <2> DEFINE y == [x EXCEPT !.queue = Tail(q)]
             z == [y EXCEPT !.npendings_eff = eff]
             E1 == [s.entry EXCEPT ![g] = y]
             E2 == [E1 EXCEPT ![g] = z]
  <2>1. s.entry \in [Ids -> EntryShape] /\ x \in EntryShape
    BY <1>2 DEF GpShape
  <2>2. y.npendings_eff = x.npendings_eff /\ z = e
    BY <2>1 DEF EntryShape
  <2>3. E1[g] = y /\ E2 = E
    BY <1>1, <2>1, <2>2
  <2>4. [s.entry EXCEPT ![g].queue = Tail(@)] = E1
    BY <1>1, <2>1
  <2>5. [E1 EXCEPT ![g].npendings_eff =
                IF s.entry[g].receive_benifits THEN @
                ELSE IF Num(s.entry[g]) = 1 THEN 0 ELSE @ - 1] = E2
    BY <1>1, <2>1, <2>2, <2>3
  <2> DEFINE E0 == [s.entry EXCEPT ![g].queue = Tail(@),
                        ![g].npendings_eff =
                                IF s.entry[g].receive_benifits THEN @
                                ELSE IF Num(s.entry[g]) = 1 THEN 0 ELSE @ - 1]
  <2>6. E0 = E
    BY <2>3, <2>4, <2>5
  <2>7. p = [s EXCEPT !.entry = E0, !.effective = s.effective - 1,
                      !.npendings = s.npendings - 1, !.order = o]
    <3> HIDE DEF E, eff, q, e, y, z, E1, E2
    <3> QED
      BY <1>1 DEF GpShape, Left, g
  <2> HIDE DEF E0, p
  <2> QED
    BY <2>6, <2>7
<1>5. eff \in Int /\ s.effective - 1 \in Int /\ s.npendings - 1 \in Int /\ o \in Seq(Tasks)
  <2>1. s.order \in Seq(Tasks)
    BY DEF GpShape
  <2>2. o \in Seq(Tasks)
    BY <2>1, RemoveIsOneLess
  <2> HIDE DEF o
  <2> QED
    BY <1>1, <2>2, EntryIn
<1> HIDE DEF eff, o, p, q
<1>6. /\ e \in EntryShape /\ e.queue = Tail(q) /\ e.npendings_eff = eff
      /\ e.paused = x.paused /\ e.used = x.used /\ e.limit_tasks = x.limit_tasks
      /\ e.limit_paralle_tasks = x.limit_paralle_tasks /\ e.active = x.active
      /\ e.throttle = x.throttle /\ e.receive_benifits = x.receive_benifits
      /\ e.nrunnings = x.nrunnings /\ e.ndispatchings = x.ndispatchings
  BY <1>2, <1>3, <1>5 DEF EntryShape
<1> HIDE DEF e
<1>7. /\ E \in [Ids -> EntryShape] /\ E[g] = e
      /\ \A h \in Ids : h # g => E[h] = s.entry[h]
  BY <1>1, <1>6 DEF GpShape
<1> HIDE DEF E
<1>8. /\ p \in GpShape /\ p.entry = E /\ p.stat = s.stat
      /\ p.wpending = s.wpending /\ p.gid = s.gid
      /\ p.actentry = s.actentry /\ p.active_idx = s.active_idx
      /\ p.nactives_ok = s.nactives_ok /\ p.num = s.num
      /\ p.paused = s.paused /\ p.destroying = s.destroying
      /\ p.throttle_on = s.throttle_on /\ p.dispatch_q = s.dispatch_q
      /\ p.order = o /\ p.effective = s.effective - 1 /\ p.npendings = s.npendings - 1
      /\ p.ndispatchings = s.ndispatchings /\ p.maxthreads = s.maxthreads
      /\ p.spinning = s.spinning
  BY <1>4, <1>5, <1>7 DEF GpShape
<1>9. SameRest(s, p)
  BY <1>8 DEF SameRest
<1>10. Rearranged(s, p)
  BY <1>6, <1>7, <1>8 DEF Rearranged, SameGroups
<1>11. /\ p.entry[g] = e /\ \A h \in Ids : h # g => p.entry[h] = s.entry[h]
  BY <1>7, <1>8
<1> QED
  BY <1>6, <1>8, <1>9, <1>10, <1>11 DEF g, o, p, q, eff

\* The first task of a group that is searched.
LEMMA TopIs ==
  ASSUME NEW s, PoolSound(s), NEW t \in Tops(s)
  PROVE  LET g == s.gid[t]
             x == s.entry[g]
         IN  /\ t \in Tasks /\ g \in Ids /\ s.stat[t] = "waiting" /\ Ready(s, g)
             /\ x.queue # <<>> /\ t = x.queue[1] /\ ~x.paused /\ x.active
             /\ OneMore(Tail(x.queue), t, x.queue)
<1>1. s \in GpShape /\ TaskSound(s) /\ GroupSound(s) /\ First(s) \subseteq Ids
  BY FirstIn DEF PoolSound, GroupSound
<1>2. PICK g \in First(s) : s.entry[g].queue # <<>> /\ t = s.entry[g].queue[1]
  BY DEF Tops
<1> DEFINE q == s.entry[g].queue
<1>3. g \in Ids /\ q \in Seq(Tasks) /\ q # <<>> /\ t = q[1]
  BY <1>1, <1>2, EntryIn
<1>4. t \in Tasks /\ OneMore(Tail(q), t, q)
  BY <1>3, TailIsOneLess DEF OneMore
<1>5. s.stat[t] = "waiting" /\ s.gid[t] = g
  <2>1. t \in Range(q)
    BY <1>4 DEF OneMore
  <2> QED
    BY <1>1, <1>3, <2>1 DEF TaskSound
<1>6. Ready(s, g)
  BY <1>1, <1>2, <1>3, <1>4, <1>5 DEF Ready, GroupSound, TaskSound
<1>7. ~s.entry[g].paused /\ s.entry[g].active
  BY <1>1, <1>2, <1>3, <1>6 DEF GroupSound, ReadyGroups, Actives
<1> QED
  BY <1>3, <1>4, <1>5, <1>6, <1>7

\* May the entry have one of its tasks taken ?
Takes(x) == x.nrunnings < x.limit_tasks \/ x.receive_benifits

\* A task is taken.
LEMMA TakenCounts ==
  ASSUME NEW s, PoolSound(s), SumSound(s), OrderSound(s), NEW t \in Tops(s),
         NEW th \in Threads, Takes(s.entry[s.gid[t]])
  PROVE  LET p == Taken(s, t, th)
         IN  /\ SumSound(p) /\ OrderSound(p) /\ SameRest(s, p)
             /\ \A h \in Ids : /\ p.entry[h].nrunnings = s.entry[h].nrunnings
                                    + (IF h = s.gid[t] THEN 1 ELSE 0)
                               /\ p.entry[h].ndispatchings = s.entry[h].ndispatchings
<1> DEFINE g == s.gid[t]
           x == s.entry[g]
           left == Left(s, t)
           e == left.entry[g]
           u == Unqueued(s, t)
           p == Taken(s, t, th)
<1>1. /\ t \in Tasks /\ g \in Ids /\ s.stat[t] = "waiting" /\ Ready(s, g)
      /\ x.queue # <<>> /\ ~x.paused /\ x.active
      /\ OneMore(Tail(x.queue), t, x.queue)
  BY TopIs
<1>2. /\ s \in GpShape /\ p \in GpShape /\ p.stat = [s.stat EXCEPT ![t] = "scheduling"]
      /\ ListSound(s)
  BY TakenKeeps DEF PoolSound, GroupSound
<1>3. Takes(x)
  OBVIOUS
<1>4. u = IF Num(x) = 1 THEN Inactivate(left, g) ELSE left
  BY DEF Unqueued, Left
<1>5. /\ left \in GpShape /\ e \in EntryShape /\ e.queue = Tail(x.queue)
      /\ \A h \in Ids : h # g => left.entry[h] = s.entry[h]
      /\ e.npendings_eff = IF x.receive_benifits THEN x.npendings_eff
                           ELSE IF Num(x) = 1 THEN 0 ELSE x.npendings_eff - 1
      /\ e.paused = x.paused /\ e.used = x.used /\ e.limit_tasks = x.limit_tasks
      /\ e.limit_paralle_tasks = x.limit_paralle_tasks /\ e.active = x.active
      /\ e.receive_benifits = x.receive_benifits
      /\ e.nrunnings = x.nrunnings /\ e.ndispatchings = x.ndispatchings
      /\ left.effective = s.effective - 1 /\ left.npendings = s.npendings - 1
      /\ left.order = RemoveFirst(s.order, t) /\ SameRest(s, left)
      /\ Rearranged(s, left)
  <2> HIDE DEF p, u
  <2>1. s \in GpShape /\ t \in Tasks /\ s.entry[s.gid[t]].queue # <<>>
    BY <1>1, <1>2
  <2> QED
    BY <2>1, LeftIs
<1>6. /\ x \in EntryShape /\ EntryCount(x) /\ Load(x) \in Int /\ Part(x) \in Int
      /\ s.npendings \in Int /\ s.effective \in Int /\ x.nrunnings \in Int
      /\ \A h \in Ids : s.entry[h].nrunnings \in Int
  <2> HIDE DEF g
  <2>1. \A h \in Ids : s.entry[h].nrunnings \in Int
    BY <1>2, NumbersIn
  <2> QED
    BY <1>1, <1>2, <2>1, NumbersIn, EntryIn DEF SumSound
<1>7. p = [u EXCEPT !.stat[t] = "scheduling", !.thread[t] = th,
                    !.entry[u.gid[t]].nrunnings = @ + 1]
  BY DEF Taken
<1> HIDE DEF g, x, left, e, u, p
<1>8. u \in GpShape /\ SameCounts(left, u) /\ u.gid = s.gid
  <2>1. CASE Num(x) # 1
    BY <1>4, <1>5, <2>1, SameRunsTrans DEF Rearranged
  <2>2. CASE Num(x) = 1
    <3>1. ListSound(left) /\ left.entry[g].active
      BY <1>1, <1>2, <1>5, RearrangedList DEF e
    <3>2. u = Inactivate(left, g)
      BY <1>4, <2>2
    <3>3. u \in GpShape /\ Alike(left, u) /\ SameCounts(left, u)
      BY <1>1, <1>5, <3>1, <3>2, InactivateKeeps, InactivateCounts
    <3> QED
      BY <1>5, <3>3 DEF Alike, Rearranged
  <2> QED
    BY <2>1, <2>2
<1> DEFINE y == u.entry[g]
           f == [y EXCEPT !.nrunnings = @ + 1]
<1>9. SameNums(e, y) /\ y \in EntryShape /\ y.nrunnings \in Int
  BY <1>1, <1>8, NumbersIn DEF SameCounts, e
<1>10. /\ p.entry[g] = f /\ \A h \in Ids : h # g => p.entry[h] = u.entry[h]
       /\ p.npendings = u.npendings /\ p.effective = u.effective
       /\ p.order = u.order /\ SameRest(u, p)
  <2>1. u.gid[t] = g
    BY <1>8 DEF g
  <2>2. u.entry \in [Ids -> EntryShape]
    BY <1>8 DEF GpShape
  <2>3. p = [u EXCEPT !.stat = [u.stat EXCEPT ![t] = "scheduling"],
                      !.thread = [u.thread EXCEPT ![t] = th],
                      !.entry = [u.entry EXCEPT ![g] = f]]
    BY <1>1, <1>7, <1>8, <2>1 DEF GpShape
  <2> HIDE DEF f, y
  <2>4. /\ p.entry = [u.entry EXCEPT ![g] = f]
        /\ p.npendings = u.npendings /\ p.effective = u.effective
        /\ p.order = u.order /\ SameRest(u, p)
    BY <1>8, <2>3 DEF GpShape, SameRest
  <2> QED
    BY <1>1, <2>2, <2>4
<1>11. /\ f \in EntryShape /\ f.nrunnings = y.nrunnings + 1
       /\ f.npendings_eff = y.npendings_eff /\ f.queue = y.queue /\ f.paused = y.paused
       /\ f.used = y.used /\ f.limit_tasks = y.limit_tasks
       /\ f.limit_paralle_tasks = y.limit_paralle_tasks
       /\ f.receive_benifits = y.receive_benifits /\ f.ndispatchings = y.ndispatchings
  <2> HIDE DEF y
  <2>1. y.nrunnings + 1 \in Int
    BY <1>9
  <2> QED
    BY <1>9, <2>1 DEF EntryShape
<1> HIDE DEF f
<1>12. /\ f.nrunnings = x.nrunnings + 1 /\ f.queue = Tail(x.queue) /\ f.paused = x.paused
       /\ f.used = x.used /\ f.limit_tasks = x.limit_tasks
       /\ f.limit_paralle_tasks = x.limit_paralle_tasks
       /\ f.receive_benifits = x.receive_benifits /\ f.ndispatchings = x.ndispatchings
       /\ f.npendings_eff = IF x.receive_benifits THEN x.npendings_eff
                            ELSE IF Num(x) = 1 THEN 0 ELSE x.npendings_eff - 1
  BY <1>5, <1>9, <1>11 DEF SameNums
<1>13. Num(x) \in Nat \ {0} /\ Num(f) = Num(x) - 1
  BY <1>1, <1>6, <1>11, <1>12, NumOfLess
<1>14. EntryCount(f) /\ Load(f) = Load(x) - 1 /\ Part(f) = Part(x) - 1
  BY <1>1, <1>3, <1>6, <1>11, <1>12, <1>13, OneLessCounts DEF Takes
<1>15. \A h \in Ids : h # g => SameNums(s.entry[h], p.entry[h])
  BY <1>5, <1>8, <1>10 DEF SameCounts
<1>16. /\ p.npendings = s.npendings - 1 /\ p.effective = s.effective - 1
       /\ p.order = RemoveFirst(s.order, t) /\ SameRest(s, p)
  BY <1>5, <1>8, <1>10 DEF SameCounts, SameRest
<1>17. Moved(s, p, g)
  BY <1>6, <1>10, <1>14, <1>15, <1>16 DEF Moved, x
<1>18. SumSound(p)
  BY <1>1, <1>2, <1>17, MovedSound
<1>19. OrderSound(p)
  <2>1. p.stat[t] # "waiting" /\ \A u1 \in Tasks : u1 # t => p.stat[u1] = s.stat[u1]
    BY <1>1, <1>2 DEF GpShape
  <2>2. s \in GpShape /\ t \in Tasks /\ s.stat[t] = "waiting"
        /\ p.order = RemoveFirst(s.order, t)
    BY <1>1, <1>2, <1>16
  <2> QED
    BY <2>1, <2>2, OrderLess
<1>20. ASSUME NEW h \in Ids
       PROVE  /\ p.entry[h].nrunnings = s.entry[h].nrunnings + (IF h = g THEN 1 ELSE 0)
              /\ p.entry[h].ndispatchings = s.entry[h].ndispatchings
  <2>1. CASE h = g
    BY <1>10, <1>12, <2>1 DEF x
  <2>2. CASE h # g
    BY <1>6, <1>15, <2>2 DEF SameNums
  <2> QED
    BY <2>1, <2>2
<1> QED
  BY <1>16, <1>18, <1>19, <1>20 DEF p, g

-----------------------------------------------------------------------------
(***************************************************************************)
(* Tasks that are removed                                                  *)
(***************************************************************************)

\* The removed tasks of g, and all of them.
DispOf(s, g) == {t \in Tasks : s.gid[t] = g /\ s.stat[t] = "dispatching"}
Disp(s) == {t \in Tasks : s.stat[t] = "dispatching"}

\* The removed tasks are counted, by their groups and by the pool.
DispSound(s) ==
    /\ \A g \in Ids : s.entry[g].ndispatchings = Cardinality(DispOf(s, g))
    /\ s.ndispatchings + Len(s.dispatch_q) = Cardinality(Disp(s))

LEMMA DispFinite ==
  ASSUME NEW s, NEW g
  PROVE  /\ IsFiniteSet(DispOf(s, g)) /\ Cardinality(DispOf(s, g)) \in Nat
         /\ IsFiniteSet(Disp(s)) /\ Cardinality(Disp(s)) \in Nat
<1>1. IsFiniteSet(Tasks) /\ DispOf(s, g) \subseteq Tasks /\ Disp(s) \subseteq Tasks
  BY GpAssumption DEF DispOf, Disp
<1> QED
  BY <1>1, FS_Subset, FS_CardinalityType

\* None, one more or one less of them.
LEMMA DispSame ==
  ASSUME NEW s, NEW p, DispSound(s),
         \A t \in Tasks : p.stat[t] = "dispatching" <=> s.stat[t] = "dispatching",
         \A t \in Tasks : s.stat[t] = "dispatching" => p.gid[t] = s.gid[t],
         \A g \in Ids : p.entry[g].ndispatchings = s.entry[g].ndispatchings,
         p.ndispatchings + Len(p.dispatch_q) = s.ndispatchings + Len(s.dispatch_q)
  PROVE  DispSound(p)
<1>1. Disp(p) = Disp(s)
  BY DEF Disp
<1>2. \A g \in Ids : DispOf(p, g) = DispOf(s, g)
  BY DEF DispOf
<1> QED
  BY <1>1, <1>2 DEF DispSound

LEMMA DispMore ==
  ASSUME NEW s, NEW p, DispSound(s), NEW t \in Tasks, s.gid[t] \in Ids,
         s.stat[t] # "dispatching", p.stat[t] = "dispatching", p.gid = s.gid,
         \A u \in Tasks : u # t => p.stat[u] = s.stat[u],
         \A g \in Ids : p.entry[g].ndispatchings = s.entry[g].ndispatchings
                            + (IF g = s.gid[t] THEN 1 ELSE 0),
         p.ndispatchings + Len(p.dispatch_q) = s.ndispatchings + Len(s.dispatch_q) + 1
  PROVE  DispSound(p)
<1>1. Disp(p) = Disp(s) \cup {t} /\ t \notin Disp(s)
  BY DEF Disp
<1>2. Cardinality(Disp(p)) = Cardinality(Disp(s)) + 1
  BY <1>1, DispFinite, FS_AddElement
<1>3. ASSUME NEW g \in Ids
      PROVE  p.entry[g].ndispatchings = Cardinality(DispOf(p, g))
  <2>1. /\ IsFiniteSet(DispOf(s, g)) /\ Cardinality(DispOf(s, g)) \in Nat
        /\ s.entry[g].ndispatchings = Cardinality(DispOf(s, g))
    BY DispFinite DEF DispSound
  <2>2. CASE g = s.gid[t]
    <3>1. DispOf(p, g) = DispOf(s, g) \cup {t} /\ t \notin DispOf(s, g)
      BY <2>2 DEF DispOf
    <3>2. Cardinality(DispOf(p, g)) = Cardinality(DispOf(s, g)) + 1
      BY <2>1, <3>1, FS_AddElement
    <3>3. p.entry[g].ndispatchings = s.entry[g].ndispatchings + 1
      BY <2>2
    <3> QED
      BY <2>1, <3>2, <3>3
  <2>3. CASE g # s.gid[t]
    <3>1. DispOf(p, g) = DispOf(s, g)
      BY <2>3 DEF DispOf
    <3> QED
      BY <2>1, <2>3, <3>1
  <2> QED
    BY <2>2, <2>3
<1> QED
  BY <1>2, <1>3 DEF DispSound

LEMMA DispLess ==
  ASSUME NEW s, NEW p, DispSound(s), NEW t \in Tasks, s.gid[t] \in Ids,
         s.stat[t] = "dispatching", p.stat[t] # "dispatching", p.gid = s.gid,
         \A u \in Tasks : u # t => p.stat[u] = s.stat[u],
         \A g \in Ids : p.entry[g].ndispatchings = s.entry[g].ndispatchings
                            - (IF g = s.gid[t] THEN 1 ELSE 0),
         p.ndispatchings + Len(p.dispatch_q) = (s.ndispatchings + Len(s.dispatch_q)) - 1
  PROVE  DispSound(p)
<1>1. Disp(p) = Disp(s) \ {t} /\ t \in Disp(s)
  BY DEF Disp
<1>2. Cardinality(Disp(p)) = Cardinality(Disp(s)) - 1 /\ Cardinality(Disp(s)) \in Nat
  BY <1>1, DispFinite, FS_RemoveElement
<1>3. ASSUME NEW g \in Ids
      PROVE  p.entry[g].ndispatchings = Cardinality(DispOf(p, g))
  <2>1. /\ IsFiniteSet(DispOf(s, g)) /\ Cardinality(DispOf(s, g)) \in Nat
        /\ s.entry[g].ndispatchings = Cardinality(DispOf(s, g))
    BY DispFinite DEF DispSound
  <2>2. CASE g = s.gid[t]
    <3>1. DispOf(p, g) = DispOf(s, g) \ {t} /\ t \in DispOf(s, g)
      BY <2>2 DEF DispOf
    <3>2. Cardinality(DispOf(p, g)) = Cardinality(DispOf(s, g)) - 1
      BY <2>1, <3>1, FS_RemoveElement
    <3>3. p.entry[g].ndispatchings = s.entry[g].ndispatchings - 1
      BY <2>2
    <3> QED
      BY <2>1, <3>2, <3>3
  <2>3. CASE g # s.gid[t]
    <3>1. DispOf(p, g) = DispOf(s, g)
      BY <2>3 DEF DispOf
    <3> QED
      BY <2>1, <2>3, <3>1
  <2> QED
    BY <2>2, <2>3
<1>4. s.ndispatchings + Len(s.dispatch_q) = Cardinality(Disp(s))
  BY DEF DispSound
<1>5. p.ndispatchings + Len(p.dispatch_q) = Cardinality(Disp(s)) - 1
  BY <1>4
<1> QED
  BY <1>2, <1>3, <1>5 DEF DispSound

\* Fields of an entry that Handled leaves alone.
LikeBut(e, f) ==
    /\ f.used = e.used /\ f.paused = e.paused /\ f.queue = e.queue
    /\ f.limit_paralle_tasks = e.limit_paralle_tasks
    /\ f.limit_tasks = e.limit_tasks /\ f.receive_benifits = e.receive_benifits
    /\ f.npendings_eff = e.npendings_eff /\ f.nrunnings = e.nrunnings

\* The error handler of a removed task is counted.
LEMMA HandledCounts ==
  ASSUME NEW s, PoolSound(s), NEW t \in Tasks, s.stat[t] = "waiting",
         NEW bypool \in BOOLEAN
  PROVE  LET p == Handled(s, t, bypool)
         IN  /\ p.npendings = s.npendings /\ p.effective = s.effective
             /\ p.maxthreads = s.maxthreads /\ p.spinning = s.spinning
             /\ \A h \in Ids :
                    /\ LikeBut(s.entry[h], p.entry[h])
                    /\ p.entry[h].ndispatchings = s.entry[h].ndispatchings
                            + (IF h = s.gid[t] /\ t \in Handlers THEN 1 ELSE 0)
             /\ p.ndispatchings + Len(p.dispatch_q) =
                    s.ndispatchings + Len(s.dispatch_q) + (IF t \in Handlers THEN 1 ELSE 0)
<1> DEFINE p == Handled(s, t, bypool)
           g == s.gid[t]
<1>1. /\ s \in GpShape /\ g \in Ids /\ t \notin s.wpending
      /\ s.dispatch_q \in Seq(Tasks) /\ Len(s.dispatch_q) \in Nat /\ s.ndispatchings \in Int
  <2>1. s.dispatch_q \in Seq(Tasks)
    BY DEF PoolSound, GpShape
  <2> QED
    BY <2>1, LenIn DEF PoolSound, GpShape, TaskSound
<1>0. \A h \in Ids : s.entry[h].ndispatchings \in Int
  BY <1>1, NumbersIn
<1>2. CASE t \notin Handlers
  <2> DEFINE st == [s.stat EXCEPT ![t] = "idle"]
  <2>1. p = [s EXCEPT !.stat = st, !.wpending = s.wpending \ {t}]
    BY <1>1, <1>2 DEF GpShape, Handled, Untraced
  <2> HIDE DEF p, st, g
  <2>2. /\ p.entry = s.entry /\ p.dispatch_q = s.dispatch_q
        /\ p.npendings = s.npendings /\ p.effective = s.effective
        /\ p.maxthreads = s.maxthreads /\ p.spinning = s.spinning
        /\ p.ndispatchings = s.ndispatchings
    BY <1>1, <2>1 DEF GpShape
  <2> QED
    BY <1>0, <1>1, <1>2, <2>2 DEF p, LikeBut
<1>3. CASE t \in Handlers
  <2> DEFINE st == [s.stat EXCEPT ![t] = "dispatching"]
             dq == IF bypool THEN Append(s.dispatch_q, t) ELSE s.dispatch_q
             nd == IF bypool THEN s.ndispatchings ELSE s.ndispatchings + 1
             e == [s.entry[g] EXCEPT !.ndispatchings = @ + 1]
             E == [s.entry EXCEPT ![g] = e]
  <2>1. s.entry \in [Ids -> EntryShape] /\ s.entry[g].ndispatchings + 1 \in Int
    BY <1>1, EntryIn DEF GpShape, EntryShape
  <2>2. nd + Len(dq) = s.ndispatchings + Len(s.dispatch_q) + 1
    <3>1. Len(Append(s.dispatch_q, t)) = Len(s.dispatch_q) + 1
      BY <1>1
    <3> QED
      BY <1>1, <3>1
  <2>3. p = [s EXCEPT !.stat = st, !.dispatch_q = dq, !.ndispatchings = nd, !.entry = E]
    BY <1>1, <1>3 DEF GpShape, Handled
  <2> HIDE DEF p, st, dq, nd, g
  <2>4. LikeBut(s.entry[g], e) /\ e.ndispatchings = s.entry[g].ndispatchings + 1
    BY <1>1, <2>1 DEF EntryShape, LikeBut
  <2> HIDE DEF e
  <2>5. E[g] = e /\ \A h \in Ids : h # g => E[h] = s.entry[h]
    BY <1>1, <2>1, <2>4
  <2> HIDE DEF E
  <2>6. /\ p.entry = E /\ p.dispatch_q = dq
        /\ p.npendings = s.npendings /\ p.effective = s.effective
        /\ p.maxthreads = s.maxthreads /\ p.spinning = s.spinning
        /\ p.ndispatchings = nd
    BY <1>1, <2>3 DEF GpShape
  <2>7. ASSUME NEW h \in Ids
        PROVE  /\ LikeBut(s.entry[h], p.entry[h])
               /\ p.entry[h].ndispatchings = s.entry[h].ndispatchings
                            + (IF h = g THEN 1 ELSE 0)
    <3>1. CASE h = g
      BY <2>4, <2>5, <2>6, <3>1
    <3>2. CASE h # g
      BY <1>0, <2>5, <2>6, <3>2 DEF LikeBut
    <3> QED
      BY <3>1, <3>2
  <2> QED
    BY <1>3, <2>2, <2>6, <2>7 DEF p, g
<1> QED
  BY <1>2, <1>3

\* A pending task of the entry is removed.
LEMMA OneRemovedCounts ==
  ASSUME NEW x \in EntryShape, EntryCount(x), NEW f \in EntryShape, ~x.paused,
         f.paused = x.paused, f.used = x.used, f.limit_tasks = x.limit_tasks,
         f.limit_paralle_tasks = x.limit_paralle_tasks,
         f.receive_benifits = x.receive_benifits, f.nrunnings = x.nrunnings,
         Num(x) \in Nat \ {0}, Num(f) = Num(x) - 1,
         NEW c, c = IF x.receive_benifits \/ x.npendings_eff > Num(x) - 1 THEN 1 ELSE 0,
         f.npendings_eff = IF x.receive_benifits THEN x.npendings_eff
                           ELSE x.npendings_eff - c
  PROVE  EntryCount(f) /\ Load(f) = Load(x) - 1 /\ Part(f) = Part(x) - c
<1>1. /\ x.nrunnings \in Int /\ x.limit_tasks \in Nat /\ x.receive_benifits \in BOOLEAN
      /\ x.npendings_eff = EffOf(x) /\ x.npendings_eff \in Int
  BY DEF EntryShape, EntryCount
<1>2. CASE x.receive_benifits
  <2>1. EffOf(x) = 0 /\ EffOf(f) = 0
    BY <1>2 DEF EffOf
  <2> QED
    BY <1>1, <1>2, <2>1 DEF EntryCount, Load, Part, Share
<1>3. CASE ~x.receive_benifits
  <2>1. EffOf(x) = IF x.nrunnings >= x.limit_tasks THEN 0
                   ELSE IF x.limit_tasks - x.nrunnings < Num(x)
                   THEN x.limit_tasks - x.nrunnings ELSE Num(x)
    BY <1>1, <1>3 DEF EffOf, MinOf
  <2>2. EffOf(f) = IF x.nrunnings >= x.limit_tasks THEN 0
                   ELSE IF x.limit_tasks - x.nrunnings < Num(x) - 1
                   THEN x.limit_tasks - x.nrunnings ELSE Num(x) - 1
    BY <1>1, <1>3 DEF EffOf, MinOf
  <2>4. f.npendings_eff = x.npendings_eff - c /\ f.npendings_eff = EffOf(f)
    BY <1>1, <1>3, <2>1, <2>2
  <2>5. Share(f) = f.npendings_eff /\ Share(x) = x.npendings_eff
    BY <1>3 DEF Share
  <2> QED
    BY <1>1, <1>3, <2>4, <2>5 DEF EntryCount, Load, Part
<1> QED
  BY <1>2, <1>3

\* ... while its group is suspended.
LEMMA OneRemovedPaused ==
  ASSUME NEW x \in EntryShape, EntryCount(x), NEW f \in EntryShape, x.paused,
         f.paused = x.paused, f.used = x.used, f.limit_tasks = x.limit_tasks,
         f.limit_paralle_tasks = x.limit_paralle_tasks,
         f.receive_benifits = x.receive_benifits,
         f.npendings_eff = x.npendings_eff
  PROVE  EntryCount(f) /\ Load(f) = Load(x) /\ Part(f) = Part(x)
BY DEF EntryCount, EffOf, Load, Part

\* Nobody has begun to run anything.
SameNr(s, p) ==
    /\ p.maxthreads = s.maxthreads /\ p.spinning = s.spinning
    /\ \A h \in Ids : p.entry[h].nrunnings = s.entry[h].nrunnings

LEMMA SameNrTrans ==
  ASSUME NEW s, NEW p, NEW q
  PROVE  /\ SameNr(s, s)
         /\ SameNr(s, p) /\ SameNr(p, q) => SameNr(s, q)
         /\ SameHands(s, p) => SameNr(s, p)
         /\ SameRuns(s, p) => SameNr(s, p)
BY DEF SameNr, SameHands, SameRuns, SameRest

\* A pending task is removed.
LEMMA RemovedCounts ==
  ASSUME NEW s, PoolSound(s), SumSound(s), OrderSound(s), DispSound(s),
         NEW t \in Tasks, s.stat[t] = "waiting", NEW bypool \in BOOLEAN
  PROVE  LET p == Removed(s, t, bypool)
         IN  SumSound(p) /\ OrderSound(p) /\ DispSound(p) /\ SameNr(s, p)
<1> DEFINE g == s.gid[t]
           x == s.entry[g]
           k == Handled(s, t, bypool)
           y == k.entry[g]
           left == [k EXCEPT !.entry[g].queue = RemoveFirst(@, t),
                             !.order = RemoveFirst(@, t)]
           uncounted == x.receive_benifits \/ x.npendings_eff > Num(x) - 1
           counted == [left EXCEPT
                    !.npendings = @ - 1,
                    !.effective = IF uncounted THEN @ - 1 ELSE @,
                    !.entry[g].npendings_eff =
                        IF uncounted /\ ~x.receive_benifits THEN @ - 1 ELSE @]
           p == Removed(s, t, bypool)
           v == IF t \in Handlers THEN "dispatching" ELSE "idle"
           d == IF t \in Handlers THEN 1 ELSE 0
<1> SUFFICES SumSound(p) /\ OrderSound(p) /\ DispSound(p) /\ SameNr(s, p)
  OBVIOUS
<1>1. /\ s \in GpShape /\ g \in Ids /\ TaskSound(s)
      /\ GroupSound(s) /\ ListSound(s) /\ x.queue \in Seq(Tasks)
      /\ t \in Range(x.queue)
  <2>1. s \in GpShape /\ TaskSound(s) /\ GroupSound(s)
    BY DEF PoolSound
  <2>2. g \in Ids
    BY <2>1 DEF GpShape
  <2> HIDE DEF g
  <2>3. x.queue \in Seq(Tasks)
    BY <2>1, <2>2, EntryIn
  <2>5. Range(x.queue) = {u \in Tasks : s.stat[u] = "waiting" /\ s.gid[u] = g}
    BY <2>1, <2>2 DEF TaskSound
  <2> QED
    BY <2>1, <2>2, <2>3, <2>5 DEF g, GroupSound
<1>2. /\ Rearranged(s, k) /\ k.order = s.order /\ k.gid = s.gid
      /\ k.stat = [s.stat EXCEPT ![t] = v] /\ k \in GpShape
      /\ k.npendings = s.npendings /\ k.effective = s.effective
      /\ k.maxthreads = s.maxthreads /\ k.spinning = s.spinning
      /\ \A h \in Ids : LikeBut(s.entry[h], k.entry[h])
      /\ \A h \in Ids : k.entry[h].ndispatchings = s.entry[h].ndispatchings
                            + (IF h = g /\ t \in Handlers THEN 1 ELSE 0)
      /\ k.ndispatchings + Len(k.dispatch_q) =
                s.ndispatchings + Len(s.dispatch_q) + d
  <2>1. /\ Rearranged(s, k) /\ k.order = s.order
        /\ k.stat = [s.stat EXCEPT ![t] = v]
    BY HandledIs
  <2>2. k \in GpShape /\ k.gid = s.gid
    BY <2>1 DEF Rearranged
  <2> QED
    BY <2>1, <2>2, HandledCounts
<1>3. p = IF x.paused THEN left
          ELSE IF Num(x) = 1 THEN Inactivate(counted, g) ELSE counted
  BY DEF Removed
<1>4. PoolSound(p) /\ p \in GpShape /\ MarkedFrom(s, p, {t}, bypool)
  BY RemovedKeeps DEF PoolSound
<1>5. /\ x \in EntryShape /\ EntryCount(x) /\ Load(x) \in Int /\ Part(x) \in Int
      /\ s.npendings \in Int /\ s.effective \in Int /\ k.ndispatchings \in Int
      /\ x.npendings_eff \in Int /\ y \in EntryShape /\ Num(x) \in Nat
      /\ k.order \in Seq(Tasks) /\ k.npendings \in Int /\ k.effective \in Int
  <2> HIDE DEF g, k
  <2>1. k.order \in Seq(Tasks)
    BY <1>2 DEF GpShape
  <2> QED
    BY <1>1, <1>2, <2>1, NumbersIn, EntryIn DEF SumSound
<1> HIDE DEF k, p, g, x, y, v, d
<1> DEFINE q == RemoveFirst(y.queue, t)
           e == [y EXCEPT !.queue = q]
           E == [k.entry EXCEPT ![g] = e]
           o == RemoveFirst(k.order, t)
<1>6. left = [k EXCEPT !.entry = E, !.order = o]
  BY <1>1, <1>2 DEF GpShape, y
<1> HIDE DEF left
<1>7. OneMore(q, t, x.queue) /\ q \in Seq(Tasks) /\ o \in Seq(Tasks)
  <2>1. y.queue = x.queue
    BY <1>1, <1>2 DEF LikeBut, x, y
  <2> QED
    BY <1>1, <1>5, <2>1, RemoveIsOneLess DEF OneMore
<1> HIDE DEF q, o
<1>8. /\ e \in EntryShape /\ e.queue = q /\ e.used = y.used /\ e.paused = y.paused
      /\ e.limit_paralle_tasks = y.limit_paralle_tasks
      /\ e.limit_tasks = y.limit_tasks /\ e.receive_benifits = y.receive_benifits
      /\ e.npendings_eff = y.npendings_eff /\ e.nrunnings = y.nrunnings
      /\ e.ndispatchings = y.ndispatchings /\ e.active = y.active
      /\ e.throttle = y.throttle
  BY <1>5, <1>7 DEF EntryShape
<1> HIDE DEF e
<1>9. /\ E \in [Ids -> EntryShape] /\ E[g] = e
      /\ \A h \in Ids : h # g => E[h] = k.entry[h]
  BY <1>1, <1>2, <1>8 DEF GpShape
<1> HIDE DEF E
<1>10. /\ left \in GpShape /\ left.entry = E /\ left.stat = k.stat
       /\ left.wpending = k.wpending /\ left.gid = k.gid
       /\ left.actentry = k.actentry /\ left.active_idx = k.active_idx
       /\ left.nactives_ok = k.nactives_ok /\ left.num = k.num
       /\ left.paused = k.paused /\ left.destroying = k.destroying
       /\ left.throttle_on = k.throttle_on /\ left.dispatch_q = k.dispatch_q
       /\ left.order = o /\ left.npendings = k.npendings
       /\ left.effective = k.effective /\ left.ndispatchings = k.ndispatchings
       /\ left.maxthreads = k.maxthreads /\ left.spinning = k.spinning
  BY <1>2, <1>6, <1>7, <1>9 DEF GpShape
<1>11. /\ e.used = x.used /\ e.paused = x.paused /\ e.queue = q
       /\ e.limit_paralle_tasks = x.limit_paralle_tasks
       /\ e.limit_tasks = x.limit_tasks /\ e.receive_benifits = x.receive_benifits
       /\ e.npendings_eff = x.npendings_eff /\ e.nrunnings = x.nrunnings
       /\ left.entry[g] = e
       /\ \A h \in Ids : h # g => left.entry[h] = k.entry[h]
  BY <1>1, <1>2, <1>8, <1>9, <1>10 DEF LikeBut, x, y
<1>12. Rearranged(s, left)
  <2>1. Rearranged(k, left)
    BY <1>2, <1>8, <1>9, <1>10 DEF Rearranged, SameGroups, y
  <2> QED
    BY <1>2, <2>1 DEF Rearranged, SameGroups
<1>13. Num(x) \in Nat \ {0} /\ Num(e) = Num(x) - 1
  <2>1. OneMore(e.queue, t, x.queue)
    BY <1>7, <1>8
  <2> QED
    BY <1>5, <1>8, <2>1, NumOfLess
<1>14. /\ p.gid = s.gid /\ p.stat[t] = v
       /\ \A u \in Tasks : u # t => p.stat[u] = s.stat[u]
  BY <1>4 DEF MarkedFrom, v
<1>15. \A h \in Ids : h # g => SameNums(s.entry[h], k.entry[h])
  <2> TAKE h \in Ids
  <2> HAVE h # g
  <2>1. LikeBut(s.entry[h], k.entry[h])
    BY <1>2
  <2>2. s.entry[h].ndispatchings \in Int
    BY <1>1, NumbersIn
  <2>3. k.entry[h].ndispatchings = s.entry[h].ndispatchings
    BY <1>2, <2>2
  <2> QED
    BY <2>1, <2>3 DEF LikeBut, SameNums
<1>16. /\ e.ndispatchings = x.ndispatchings + d /\ o = RemoveFirst(s.order, t)
       /\ k.ndispatchings + Len(k.dispatch_q) = s.ndispatchings + Len(s.dispatch_q) + d
       /\ x.ndispatchings \in Int
  <2>1. y.ndispatchings = x.ndispatchings + d
    BY <1>1, <1>2 DEF x, y, d
  <2>2. x.ndispatchings \in Int
    BY <1>1, NumbersIn DEF x
  <2> QED
    BY <1>2, <1>8, <2>1, <2>2 DEF o
\* What all cases have in common.
<1>17. ASSUME NEW r \in GpShape, NEW f, r.entry[g] = f,
              \A h \in Ids : h # g => r.entry[h] = k.entry[h],
              f.nrunnings = e.nrunnings, f.ndispatchings = e.ndispatchings,
              EntryCount(f), r.order = o, r.ndispatchings = k.ndispatchings,
              r.maxthreads = k.maxthreads, r.spinning = k.spinning,
              r.npendings = s.npendings + (Load(f) - Load(x)),
              r.effective = s.effective + (Part(f) - Part(x)),
              p = r \/ SameCounts(r, p), p.dispatch_q = k.dispatch_q
       PROVE  SumSound(p) /\ OrderSound(p) /\ DispSound(p) /\ SameNr(s, p)
  <2>1. Moved(s, r, g)
    BY <1>15, <1>17 DEF Moved, x
  <2>2. SumSound(r)
    BY <1>1, <1>17, <2>1, MovedSound
  <2>3. SumSound(p)
    BY <1>4, <1>17, <2>2, CountsSound
  <2>4. /\ p.order = r.order /\ p.ndispatchings = r.ndispatchings
        /\ p.maxthreads = r.maxthreads /\ p.spinning = r.spinning
        /\ \A h \in Ids : /\ p.entry[h].nrunnings = r.entry[h].nrunnings
                          /\ p.entry[h].ndispatchings = r.entry[h].ndispatchings
    BY <1>17 DEF SameCounts, SameRest, SameNums
  <2>5. OrderSound(p)
    <3>1. p.order = RemoveFirst(s.order, t)
      BY <1>16, <1>17, <2>4
    <3>2. p.stat[t] # "waiting"
      BY <1>14 DEF v
    <3> QED
      BY <1>1, <1>14, <3>1, <3>2, OrderLess
  <2>6. \A h \in Ids : p.entry[h].ndispatchings =
                            s.entry[h].ndispatchings + (IF h = g THEN d ELSE 0)
    <3> TAKE h \in Ids
    <3>1. CASE h = g
      BY <1>1, <1>16, <1>17, <2>4, <3>1 DEF x
    <3>2. CASE h # g
      <4>1. p.entry[h].ndispatchings = s.entry[h].ndispatchings
        BY <1>15, <1>17, <2>4, <3>2 DEF SameNums
      <4>2. s.entry[h].ndispatchings \in Int
        BY <1>1, NumbersIn
      <4> QED
        BY <3>2, <4>1, <4>2
    <3> QED
      BY <3>1, <3>2
  <2>7. p.ndispatchings + Len(p.dispatch_q) = s.ndispatchings + Len(s.dispatch_q) + d
    BY <1>16, <1>17, <2>4
  <2>8. DispSound(p)
    <3>1. CASE t \in Handlers
      <4>1. d = 1 /\ v = "dispatching"
        BY <3>1 DEF d, v
      <4>2. \A h \in Ids : p.entry[h].ndispatchings = s.entry[h].ndispatchings
                                + (IF h = s.gid[t] THEN 1 ELSE 0)
        BY <2>6, <4>1 DEF g
      <4>3. s.gid[t] \in Ids /\ s.stat[t] # "dispatching" /\ p.stat[t] = "dispatching"
        BY <1>1, <1>14, <4>1 DEF g
      <4>4. p.ndispatchings + Len(p.dispatch_q) = s.ndispatchings + Len(s.dispatch_q) + 1
        BY <2>7, <4>1
      <4> QED
        BY <1>14, <4>2, <4>3, <4>4, DispMore
    <3>2. CASE t \notin Handlers
      <4>1. d = 0 /\ v = "idle"
        BY <3>2 DEF d, v
      <4>2. \A h \in Ids : p.entry[h].ndispatchings = s.entry[h].ndispatchings
        <5> TAKE h \in Ids
        <5>1. s.entry[h].ndispatchings \in Int
          BY <1>1, NumbersIn
        <5> QED
          BY <2>6, <4>1, <5>1
      <4>3. \A u \in Tasks : p.stat[u] = "dispatching" <=> s.stat[u] = "dispatching"
        BY <1>14, <4>1
      <4>4. p.ndispatchings + Len(p.dispatch_q) = s.ndispatchings + Len(s.dispatch_q)
        <5>1. s.ndispatchings \in Int /\ Len(s.dispatch_q) \in Int
          BY <1>1 DEF GpShape
        <5> QED
          BY <2>7, <4>1, <5>1
      <4> QED
        BY <1>14, <4>2, <4>3, <4>4, DispSame
    <3> QED
      BY <3>1, <3>2
  <2>9. SameNr(s, p)
    <3>1. \A h \in Ids : p.entry[h].nrunnings = s.entry[h].nrunnings
      <4> TAKE h \in Ids
      <4>1. CASE h = g
        BY <1>11, <1>17, <2>4, <4>1 DEF x
      <4>2. CASE h # g
        BY <1>15, <1>17, <2>4, <4>2 DEF SameNums
      <4> QED
        BY <4>1, <4>2
    <3> QED
      BY <1>2, <1>17, <2>4, <3>1 DEF SameNr
  <2> QED
    BY <2>3, <2>5, <2>8, <2>9
<1>18. CASE x.paused
  <2>1. EntryCount(e) /\ Load(e) = Load(x) /\ Part(e) = Part(x)
    BY <1>5, <1>8, <1>11, <1>18, OneRemovedPaused
  <2>2. p = left
    BY <1>3, <1>18
  <2>3. /\ left.npendings = s.npendings + (Load(e) - Load(x))
        /\ left.effective = s.effective + (Part(e) - Part(x))
    BY <1>2, <1>5, <1>10, <2>1
  <2> HIDE DEF p
  <2>4. left.entry[g] = e /\ (\A h \in Ids : h # g => left.entry[h] = k.entry[h])
    BY <1>11
  <2> QED
    BY <1>10, <1>17, <2>1, <2>2, <2>3, <2>4
<1>19. CASE ~x.paused
  <2> DEFINE c == IF uncounted THEN 1 ELSE 0
             w == IF x.receive_benifits THEN x.npendings_eff ELSE x.npendings_eff - c
             f == [e EXCEPT !.npendings_eff = w]
             n == s.npendings - 1
             eff == s.effective - c
             r == Recount(left, g, f, n, eff, k.ndispatchings)
  <2>1. c \in Int /\ w \in Int /\ n \in Int /\ eff \in Int
    BY <1>5
  <2>2. counted = r
    <3> DEFINE a == left.npendings - 1
               b == IF uncounted THEN left.effective - 1 ELSE left.effective
               z == IF uncounted /\ ~x.receive_benifits
                    THEN left.entry[g].npendings_eff - 1
                    ELSE left.entry[g].npendings_eff
    <3> HIDE DEF uncounted
    <3>1. counted = [left EXCEPT !.npendings = a, !.effective = b,
                         !.entry = [left.entry EXCEPT
                                        ![g] = [left.entry[g] EXCEPT !.npendings_eff = z]]]
      BY <1>1, <1>10 DEF GpShape
    <3>2. left.npendings = s.npendings /\ left.effective = s.effective
          /\ left.ndispatchings = k.ndispatchings /\ left.entry[g] = e
          /\ e.npendings_eff = x.npendings_eff
      BY <1>2, <1>10, <1>11
    <3>3. z = w /\ a = n /\ b = eff
      BY <1>5, <3>2 DEF uncounted
    <3>4. r = [left EXCEPT !.entry = [left.entry EXCEPT ![g] = f], !.npendings = n,
                           !.effective = eff, !.ndispatchings = left.ndispatchings]
      BY <3>2 DEF Recount
    <3> HIDE DEF counted, a, b, z, n, eff, r, w
    <3> QED
      BY <1>10, <3>1, <3>2, <3>3, <3>4 DEF GpShape
  <2>3. /\ f \in EntryShape /\ f.limit_paralle_tasks = e.limit_paralle_tasks
        /\ f.limit_tasks = e.limit_tasks
        /\ f.receive_benifits = e.receive_benifits /\ f.used = e.used
        /\ f.paused = e.paused /\ f.queue = e.queue /\ f.nrunnings = e.nrunnings
        /\ f.ndispatchings = e.ndispatchings /\ f.npendings_eff = w
    BY <1>8, <2>1, EffFields
  <2>4. LikeEntry(e, f)
    BY <1>8, <2>3 DEF LikeEntry, EntryShape
  <2>5. EntryCount(f) /\ Load(f) = Load(x) - 1 /\ Part(f) = Part(x) - c
    <3>1. Num(f) = Num(x) - 1
      BY <1>13, <2>3 DEF Num
    <3>2. c = IF x.receive_benifits \/ x.npendings_eff > Num(x) - 1 THEN 1 ELSE 0
      OBVIOUS
    <3>3. f.npendings_eff = IF x.receive_benifits THEN x.npendings_eff
                            ELSE x.npendings_eff - c
      BY <2>3
    <3> HIDE DEF c, w, f
    <3> QED
      BY <1>5, <1>11, <1>13, <1>19, <2>3, <3>1, <3>2, <3>3, OneRemovedCounts
  <2>6. /\ r \in GpShape /\ r.entry[g] = f
        /\ \A h \in Ids : h # g => r.entry[h] = left.entry[h]
        /\ r.npendings = n /\ r.effective = eff /\ r.ndispatchings = k.ndispatchings
        /\ r.order = left.order /\ r.maxthreads = left.maxthreads
        /\ r.spinning = left.spinning
    <3> HIDE DEF f, n, eff
    <3> QED
      BY <1>1, <1>5, <1>10, <2>1, <2>3, RecountCounts
  <2>7. Listed(left, r) /\ r.dispatch_q = left.dispatch_q
    <3>1. LikeEntry(left.entry[g], f)
      BY <1>11, <2>4
    <3> HIDE DEF f, n, eff
    <3> QED
      BY <1>1, <1>5, <1>10, <2>1, <2>3, <3>1, RecountIs DEF SameTasks
  <2> HIDE DEF r, f, n, eff
  <2>8. Rearranged(s, r)
    BY <1>12, <2>6, <2>7, ListedRearranged
  <2>9. ListSound(r) /\ Actives(r) = Actives(s)
    BY <1>1, <2>8, RearrangedList
  <2>10. r.entry[g].active
    <3>1. Ready(s, g)
      <4>1. s.gid[t] < s.num /\ s.entry[s.gid[t]].used # "free"
        BY <1>1 DEF TaskSound
      <4>2. x.queue # <<>>
        BY <1>1 DEF Range
      <4> QED
        BY <1>19, <4>1, <4>2 DEF Ready, g, x
    <3> QED
      BY <1>1, <2>9, <3>1 DEF GroupSound, Actives, ReadyGroups
  <2>11. (p = r \/ SameCounts(r, p)) /\ p.dispatch_q = k.dispatch_q
    <3>1. CASE Num(x) = 1
      <4>1. p = Inactivate(r, g)
        BY <1>3, <1>19, <2>2, <3>1
      <4>2. SameCounts(r, Inactivate(r, g))
        BY <1>1, <2>6, <2>9, <2>10, InactivateCounts
      <4>3. Alike(r, Inactivate(r, g))
        BY <1>1, <2>6, <2>9, <2>10, InactivateKeeps
      <4> QED
        BY <1>10, <2>7, <4>1, <4>2, <4>3 DEF Alike
    <3>2. CASE Num(x) # 1
      <4>1. p = r
        BY <1>3, <1>19, <2>2, <3>2
      <4> QED
        BY <1>10, <2>7, <4>1
    <3> QED
      BY <3>1, <3>2
  <2> HIDE DEF p
  <2>12. /\ r.npendings = s.npendings + (Load(f) - Load(x))
         /\ r.effective = s.effective + (Part(f) - Part(x))
    BY <1>5, <2>1, <2>5, <2>6, SMTT(30) DEF n, eff
  <2>13. /\ r.order = o /\ r.maxthreads = k.maxthreads /\ r.spinning = k.spinning
         /\ \A h \in Ids : h # g => r.entry[h] = k.entry[h]
         /\ f.nrunnings = e.nrunnings /\ f.ndispatchings = e.ndispatchings
    BY <1>10, <1>11, <2>3, <2>6
  <2> QED
    BY <1>17, <2>5, <2>6, <2>11, <2>12, <2>13
<1> QED
  BY <1>18, <1>19

LEMMA MarkCounts ==
  ASSUME NEW s, PoolSound(s), SumSound(s), OrderSound(s), DispSound(s),
         NEW t \in Tasks, NEW bypool \in BOOLEAN
  PROVE  LET p == Mark(s, t, bypool)
         IN  SumSound(p) /\ OrderSound(p) /\ DispSound(p) /\ SameNr(s, p)
<1> DEFINE p == Mark(s, t, bypool)
<1>1. s \in GpShape
  BY DEF PoolSound
<1>2. CASE t \in s.wpending
  <2>1. p = [s EXCEPT !.wpending = s.wpending \ {t}]
    BY <1>1, <1>2 DEF Mark, GpShape
  <2>2. s.wpending \ {t} \in SUBSET Tasks
    BY <1>1 DEF GpShape
  <2> HIDE DEF p
  <2>3. /\ p \in GpShape /\ p.entry = s.entry /\ p.npendings = s.npendings
        /\ p.effective = s.effective /\ p.order = s.order /\ p.stat = s.stat
        /\ p.gid = s.gid /\ p.ndispatchings = s.ndispatchings
        /\ p.dispatch_q = s.dispatch_q /\ p.maxthreads = s.maxthreads
        /\ p.spinning = s.spinning
    BY <1>1, <2>1, <2>2 DEF GpShape
  <2>4. SameCounts(s, p)
    BY <2>3 DEF SameCounts, SameRest, SameNums
  <2>5. SumSound(p)
    BY <1>1, <2>3, <2>4, CountsSound
  <2>6. OrderSound(p) /\ SameNr(s, p)
    BY <2>3 DEF OrderSound, SameNr
  <2>7. DispSound(p)
    BY <2>3, DispSame
  <2> QED
    BY <2>5, <2>6, <2>7 DEF p
<1>3. CASE t \notin s.wpending /\ s.stat[t] = "waiting"
  <2>1. p = Removed(s, t, bypool)
    BY <1>3 DEF Mark
  <2> HIDE DEF p
  <2>2. SumSound(p) /\ OrderSound(p) /\ DispSound(p) /\ SameNr(s, p)
    BY <1>3, <2>1, RemovedCounts
  <2> QED
    BY <2>2 DEF p
<1>4. CASE t \notin s.wpending /\ s.stat[t] # "waiting"
  <2>1. p = s
    BY <1>4 DEF Mark
  <2> QED
    BY <2>1, SameNrTrans
<1> QED
  BY <1>2, <1>3, <1>4

\* The tasks of X are, in whatever order.
LEMMA MarkedCounts ==
  ASSUME NEW s, PoolSound(s), SumSound(s), OrderSound(s), DispSound(s),
         NEW X \in SUBSET Tasks, NEW bypool \in BOOLEAN
  PROVE  LET p == Marked(s, X, bypool)
         IN  SumSound(p) /\ OrderSound(p) /\ DispSound(p) /\ SameNr(s, p)
<1> DEFINE n == Cardinality(X)
           seq == SetToSeq(X)
           Fine(p) == /\ PoolSound(p) /\ SumSound(p) /\ OrderSound(p) /\ DispSound(p)
                      /\ SameNr(s, p)
           S == {p \in GpShape : Fine(p)}
           mark(p, t) == Mark(p, t, bypool)
           Is(f) == f = [z \in SUBSET (1 .. n) |->
                    IF z = {} THEN s ELSE mark(f[z \ {Max(z)}], seq[Max(z)])]
           F == CHOOSE f : Is(f)
           step == [x \in S \X (1 .. n) |-> mark(x[1], seq[x[2]])]
<1>1. /\ n \in Nat /\ seq \in [1 .. n -> X]
      /\ X = {seq[i] : i \in 1 .. n}
  <2>1. IsFiniteSet(X)
    BY FS_Subset, GpAssumption
  <2> QED
    BY <2>1, SetAsSeq
<1>2. Marked(s, X, bypool) = F[1 .. n]
  <2>1. DOMAIN seq = 1 .. n
    BY <1>1
  <2> QED
    BY <2>1, Zenon DEF Marked, FoldLeft, MapThenFoldSet
<1> HIDE DEF seq, n
<1>3. ASSUME NEW p \in S, NEW i \in 1 .. n
      PROVE  mark(p, seq[i]) \in S
  <2>1. Fine(p) /\ seq[i] \in Tasks
    BY <1>1
  <2>2. PoolSound(mark(p, seq[i]))
    BY <2>1, MarkedSame, MarkKeeps
  <2> DEFINE q == mark(p, seq[i])
  <2>3. SumSound(q) /\ OrderSound(q) /\ DispSound(q) /\ SameNr(p, q)
    BY <2>1, MarkCounts
  <2>4. SameNr(s, q)
    BY <2>1, <2>3, SameNrTrans
  <2> QED
    BY <2>2, <2>3, <2>4 DEF PoolSound
<1>4. step \in [S \X (1 .. n) -> S]
  BY <1>3
<1>5. s \in S /\ \A p \in S : Fine(p)
  BY SameNrTrans DEF PoolSound
<1> HIDE DEF S
<1>6. Is(F)
  <2> HIDE DEF mark, Fine
  <2>1. PICK f \in [SUBSET (1 .. n) -> S] : FoldedBy(f, n, s, step)
    <3> HIDE DEF step
    <3> QED
      BY <1>1, <1>4, <1>5, FoldExists
  <2>2. \A z \in SUBSET (1 .. n) : z # {} => Max(z) \in 1 .. n
    BY <1>1, MaxIn
  <2>3. Is(f)
    BY <2>1, <2>2 DEF FoldedBy
  <2> HIDE DEF Is
  <2> QED
    BY <2>3, Zenon
<1>7. Folds(F, n, S, s, step)
  <2> HIDE DEF F, mark, Fine
  <2>1. {} \in SUBSET (1 .. n)
    OBVIOUS
  <2>2. F[{}] = s
    BY <1>6, <2>1, Zenon
  <2>3. ASSUME NEW z \in SUBSET (1 .. n), z # {}, F[z \ {Max(z)}] \in S
        PROVE  F[z] = step[<<F[z \ {Max(z)}], Max(z)>>]
    BY <1>1, <1>6, <2>3, MaxIn
  <2> HIDE DEF step
  <2> QED
    BY <2>2, <2>3 DEF Folds
<1>8. F[1 .. n] \in S
  <2> HIDE DEF F, step, Fine
  <2> QED
    BY <1>1, <1>4, <1>5, <1>7, FoldEnds
<1>9. Fine(F[1 .. n])
  BY <1>5, <1>8
<1> HIDE DEF F
<1> QED
  BY <1>2, <1>9

-----------------------------------------------------------------------------
(***************************************************************************)
(* The invariant, and what the users do                                    *)
(***************************************************************************)

\* The threads that run tasks of g.
RanOf(s, h, g) == {th \in Threads : /\ h[th].normal /\ h[th].q # <<>>
                                    /\ ~h[th].detached /\ s.gid[h[th].q[1]] = g}

\* What is run has been taken, what is dispatched removed; nobody detaches.
RunSound(s, h) ==
    \A r \in Runners :
        /\ ~h[r].detached /\ h[r].leaving = NoTask
        /\ h[r].normal => r \in Threads
        /\ h[r].normal /\ h[r].q # <<>> =>
                Len(h[r].q) = 1 /\ s.stat[h[r].q[1]] = "scheduling"
        /\ ~h[r].normal => \A t \in Range(h[r].q) : s.stat[t] = "dispatching"

\* nrunnings of a group is the number of those threads.
NrSound(s, h) == \A g \in Ids : s.entry[g].nrunnings = Cardinality(RanOf(s, h, g))

\* Groups that are deleted have no more tasks that are pending or will be.
Quiet(s) == \A t \in Removable(s) : s.entry[s.gid[t]].used = "valid"

Sums(s) == SumSound(s) /\ OrderSound(s) /\ DispSound(s)

\* The invariant, next to Held.
Counted(s, h) ==
    Sums(s) /\ RunSound(s, h) /\ NrSound(s, h) /\ Quiet(s) /\ ~s.spinning

LEMMA RanFinite ==
  ASSUME NEW s, NEW h, NEW g
  PROVE  IsFiniteSet(RanOf(s, h, g)) /\ Cardinality(RanOf(s, h, g)) \in Nat
<1>1. RanOf(s, h, g) \subseteq Threads
  BY DEF RanOf
<1>2. IsFiniteSet(RanOf(s, h, g))
  BY <1>1, FS_Subset, GpAssumption
<1> QED
  BY <1>2, FS_CardinalityType

\* Calls that change groups, and what is pending, but no tasks.
LEMMA CallCounts ==
  ASSUME NEW s, NEW h, Counted(s, h), NEW p, SumSound(p), p.order = s.order,
         SameTasks(s, p), p.spinning = s.spinning,
         p.ndispatchings = s.ndispatchings,
         \A g \in Ids : /\ p.entry[g].nrunnings = s.entry[g].nrunnings
                        /\ p.entry[g].ndispatchings = s.entry[g].ndispatchings,
         \A t \in Removable(s) : p.entry[s.gid[t]].used = s.entry[s.gid[t]].used
  PROVE  Counted(p, h)
<1>1. /\ p.stat = s.stat /\ p.wpending = s.wpending /\ p.gid = s.gid
      /\ p.dispatch_q = s.dispatch_q
  BY DEF SameTasks
<1>2. OrderSound(p)
  BY <1>1 DEF OrderSound, Counted, Sums
<1>3. DispSound(p)
  BY <1>1, DispSame DEF Counted, Sums
<1>4. RunSound(p, h)
  BY <1>1 DEF RunSound, Counted
<1>5. NrSound(p, h)
  <2>1. \A g \in Ids : RanOf(p, h, g) = RanOf(s, h, g)
    BY <1>1 DEF RanOf
  <2> QED
    BY <2>1 DEF NrSound, Counted
<1>6. Quiet(p)
  BY <1>1 DEF Quiet, Removable, Counted
<1> QED
  BY <1>2, <1>3, <1>4, <1>5, <1>6 DEF Counted, Sums

LEMMA SuspendGroupCounts ==
  ASSUME Held(gp, run), Counted(gp, run), "resume" \in Careful, NEW g \in Ids,
         SuspendGroup(g) \/ ResumeGroup(g)
  PROVE  Counted(gp', run')
<1>1. PoolSound(gp) /\ IsValid(gp, g) /\ run' = run /\ SumSound(gp)
      /\ \/ gp' = SuspendedGroup(gp, g)
         \/ gp' = ResumedGroup(gp, g) /\ Rests(gp.entry[g])
  BY DEF SuspendGroup, ResumeGroup, Held, Counted, Sums
<1>2. SumSound(gp') /\ SameRuns(gp, gp') /\ gp'.order = gp.order
  BY <1>1, SuspendedCounts, ResumedCounts
<1>3. SameTasks(gp, gp') /\ SameGroups(gp, gp')
  BY SuspendGroupHeld
<1>4. \A t \in Removable(gp) : gp'.entry[gp.gid[t]].used = gp.entry[gp.gid[t]].used
  <2>1. \A t \in Tasks : gp.gid[t] \in Ids
    BY <1>1 DEF PoolSound, GpShape
  <2> QED
    BY <1>3, <2>1 DEF SameGroups, Removable
<1> QED
  BY <1>1, <1>2, <1>3, <1>4, CallCounts DEF SameRuns, SameRest

LEMMA SuspendAllCounts ==
  ASSUME Held(gp, run), Counted(gp, run), "resume" \in Careful,
         SuspendAllGroups \/ ResumeAllGroups
  PROVE  Counted(gp', run')
<1>1. PoolSound(gp) /\ run' = run /\ SumSound(gp)
      /\ \/ gp' = SuspendedAll(gp)
         \/ gp' = ResumedAll(gp) /\ \A g \in Ids : IsValid(gp, g) => Rests(gp.entry[g])
  BY DEF SuspendAllGroups, ResumeAllGroups, Held, Counted, Sums, Valid
<1>2. SumSound(gp') /\ SameRuns(gp, gp') /\ gp'.order = gp.order
  BY <1>1, SuspendedAllCounts, ResumedAllCounts
<1>3. SameTasks(gp, gp') /\ SameGroups(gp, gp')
  BY SuspendAllHeld
<1>4. \A t \in Removable(gp) : gp'.entry[gp.gid[t]].used = gp.entry[gp.gid[t]].used
  <2>1. \A t \in Tasks : gp.gid[t] \in Ids
    BY <1>1 DEF PoolSound, GpShape
  <2> QED
    BY <1>3, <2>1 DEF SameGroups, Removable
<1> QED
  BY <1>1, <1>2, <1>3, <1>4, CallCounts DEF SameRuns, SameRest

LEMMA SetAttributesCounts ==
  ASSUME Held(gp, run), Counted(gp, run), "setattr" \in Careful, NEW g \in Ids,
         NEW attr \in Attrs, SetAttributes(g, attr)
  PROVE  Counted(gp', run')
<1>1. attr[1] \in Int /\ attr[2] \in BOOLEAN
  BY GpAssumption
<1>2. /\ PoolSound(gp) /\ gp \in GpShape /\ run' = run /\ Traced(gp, g) = {}
      /\ gp' = SetAttr(gp, g, attr[1], attr[2]) /\ SumSound(gp)
  BY DEF SetAttributes, Held, PoolSound, Counted, Sums
<1>3. Fits(gp.entry[g], attr[1], attr[2])
  <2>1. gp.entry[g].queue = <<>>
    <3>1. \A t \in Tasks : gp.gid[t] = g => gp.stat[t] # "waiting"
      BY <1>2 DEF Traced, OfGroup
    <3> QED
      BY <1>2, <3>1, EmptyQueue
  <2> QED
    BY <2>1 DEF Fits
<1>4. gp.entry[g].npendings_eff = EffOf(gp.entry[g])
  BY <1>2 DEF SumSound, EntryCount
<1>5. gp' \in GpShape
  BY <1>1, <1>2, SetAttrListed
<1>6. Moved(gp, gp', g) /\ SameHands(gp, gp') /\ gp'.order = gp.order
  BY <1>1, <1>2, <1>3, <1>4, SetAttrCounts
<1>7. SumSound(gp')
  BY <1>2, <1>5, <1>6, MovedSound
<1>8. SameTasks(gp, gp') /\ SameGroups(gp, gp')
  BY SetAttributesHeld
<1>9. \A t \in Removable(gp) : gp'.entry[gp.gid[t]].used = gp.entry[gp.gid[t]].used
  <2>1. \A t \in Tasks : gp.gid[t] \in Ids
    BY <1>2 DEF PoolSound, GpShape
  <2> QED
    BY <1>8, <2>1 DEF SameGroups, Removable
<1> QED
  BY <1>2, <1>6, <1>7, <1>8, <1>9, CallCounts DEF SameHands, SameRest

LEMMA SetThreadsCounts ==
  ASSUME Held(gp, run), Counted(gp, run), "threads" \in Careful,
         NEW max \in MaxThreads, SetThreads(max)
  PROVE  Counted(gp', run')
<1> DEFINE s == [gp EXCEPT !.maxthreads = max]
<1>1. /\ PoolSound(gp) /\ gp \in GpShape /\ TaskSound(gp) /\ run' = run
      /\ gp' = UpdateAllEnv(s) /\ SumSound(gp) /\ Quiet(gp)
      /\ \A g \in Valid(gp) : Rests(gp.entry[g])
  BY DEF SetThreads, Held, PoolSound, Counted, Sums
<1>2. /\ s \in GpShape /\ s.entry = gp.entry /\ s.order = gp.order
      /\ s.npendings = gp.npendings /\ s.effective = gp.effective
      /\ s.ndispatchings = gp.ndispatchings /\ s.spinning = gp.spinning
  BY <1>1 DEF GpShape
<1> HIDE DEF s
<1>3. SumSound(s)
  BY <1>1, <1>2 DEF SumSound, Loads, Parts
<1>4. \A g \in Ids : Still(s.entry[g])
  <2> TAKE g \in Ids
  <2>1. CASE gp.entry[g].queue = <<>>
    BY <1>2, <2>1 DEF Still
  <2>2. CASE gp.entry[g].queue # <<>>
    <3>1. gp.entry[g].queue \in Seq(Tasks)
      BY <1>1, EntryIn
    <3>2. PICK t \in Tasks : t \in Range(gp.entry[g].queue)
      <4>1. gp.entry[g].queue[1] \in Tasks /\ 1 \in 1 .. Len(gp.entry[g].queue)
        BY <2>2, <3>1
      <4> QED
        BY <3>1, <4>1 DEF Range
    <3>3. gp.stat[t] = "waiting" /\ gp.gid[t] = g
      BY <1>1, <3>2 DEF TaskSound
    <3>4. gp.entry[g].used = "valid" /\ g < gp.num
      BY <1>1, <3>3 DEF Quiet, Removable, TaskSound
    <3>5. Rests(gp.entry[g])
      BY <1>1, <3>4 DEF Valid, IsValid
    <3> QED
      BY <1>2, <3>5 DEF Still
  <2> QED
    BY <2>1, <2>2
<1>5. SumSound(gp') /\ SameHands(s, gp') /\ gp'.order = s.order
  BY <1>1, <1>2, <1>3, <1>4, UpdateAllEnvCounts
<1>6. SameTasks(gp, gp') /\ SameGroups(gp, gp')
  BY SetThreadsHeld
<1>7. \A t \in Removable(gp) : gp'.entry[gp.gid[t]].used = gp.entry[gp.gid[t]].used
  <2>1. \A t \in Tasks : gp.gid[t] \in Ids
    BY <1>1 DEF GpShape
  <2> QED
    BY <1>6, <2>1 DEF SameGroups, Removable
<1>8. /\ gp'.spinning = gp.spinning /\ gp'.ndispatchings = gp.ndispatchings
      /\ \A g \in Ids : /\ gp'.entry[g].nrunnings = gp.entry[g].nrunnings
                        /\ gp'.entry[g].ndispatchings = gp.entry[g].ndispatchings
  BY <1>2, <1>5 DEF SameHands, SameRest
<1> QED
  BY <1>1, <1>2, <1>5, <1>6, <1>7, <1>8, CallCounts

LEMMA CreateGroupCounts ==
  ASSUME Held(gp, run), Counted(gp, run), NEW g \in Ids, CreateGroup(g, FALSE)
  PROVE  Counted(gp', run')
<1> DEFINE s == Grown(gp)
<1>1. PoolSound(gp) /\ s.num <= MaxNum /\ g \in Free(s) /\ gp' = Created(s, g, FALSE)
      /\ run' = run /\ gp \in GpShape /\ SumSound(gp) /\ TaskSound(gp)
  BY DEF CreateGroup, Held, PoolSound, Counted, Sums
<1>2. /\ PoolSound(s) /\ SameTasks(gp, s) /\ s.entry = gp.entry
  BY <1>1, GrownKeeps
<1>3. /\ s.npendings = gp.npendings /\ s.effective = gp.effective /\ s.order = gp.order
      /\ s.ndispatchings = gp.ndispatchings /\ s.spinning = gp.spinning
  BY <1>1 DEF Grown, GpShape
<1> HIDE DEF s
<1>4. SumSound(s)
  BY <1>1, <1>2, <1>3 DEF SumSound, Loads, Parts
<1>5. SumSound(gp') /\ SameHands(s, gp') /\ gp'.order = s.order
  BY <1>1, <1>2, <1>4, CreatedCounts
<1>6. SameTasks(gp, gp') /\ SameOthers(gp, gp', g) /\ gp.entry[g].used = "free"
  BY CreateGroupHeld
<1>7. \A t \in Removable(gp) : gp'.entry[gp.gid[t]].used = gp.entry[gp.gid[t]].used
  <2> TAKE t \in Removable(gp)
  <2>1. t \in Tasks /\ gp.gid[t] \in Ids /\ gp.stat[t] # "idle"
    BY <1>1 DEF GpShape, Removable, TaskSound
  <2>2. gp.gid[t] # g
    BY <1>1, <1>6, <2>1 DEF TaskSound
  <2> QED
    BY <1>6, <2>1, <2>2 DEF SameOthers
<1>8. /\ gp'.spinning = gp.spinning /\ gp'.ndispatchings = gp.ndispatchings
      /\ \A h \in Ids : /\ gp'.entry[h].nrunnings = gp.entry[h].nrunnings
                        /\ gp'.entry[h].ndispatchings = gp.entry[h].ndispatchings
  BY <1>2, <1>3, <1>5 DEF SameHands, SameRest
<1> QED
  BY <1>1, <1>3, <1>5, <1>6, <1>7, <1>8, CallCounts

\* A group that is free has nothing to count.
LEMMA FreedCounts ==
  ASSUME NEW s, PoolSound(s), SumSound(s), NEW g \in Ids
  PROVE  LET p == Freed(s, g)
         IN  SumSound(p) /\ SameHands(s, p) /\ p.order = s.order
<1> DEFINE x == s.entry[g]
           f == [x EXCEPT !.used = "free", !.throttle = FALSE, !.active = FALSE]
           E == [s.entry EXCEPT ![g] = f]
           p == Freed(s, g)
<1>1. s \in GpShape /\ x \in EntryShape
  BY EntryIn DEF PoolSound
<1>2. /\ f \in EntryShape /\ f.limit_paralle_tasks = x.limit_paralle_tasks
      /\ f.limit_tasks = x.limit_tasks /\ f.receive_benifits = x.receive_benifits
      /\ f.used = "free" /\ f.paused = x.paused /\ f.queue = x.queue
      /\ f.nrunnings = x.nrunnings /\ f.ndispatchings = x.ndispatchings
      /\ f.npendings_eff = x.npendings_eff
  BY <1>1 DEF EntryShape
<1>3. p = [s EXCEPT !.entry = E]
  BY <1>1 DEF Freed, GpShape
<1> HIDE DEF f
<1>4. E \in [Ids -> EntryShape] /\ E[g] = f /\ \A h \in Ids : h # g => E[h] = s.entry[h]
  BY <1>1, <1>2 DEF GpShape
<1> HIDE DEF E, p
<1>5. /\ p \in GpShape /\ p.entry = E /\ p.npendings = s.npendings
      /\ p.effective = s.effective /\ p.order = s.order /\ SameRest(s, p)
  BY <1>1, <1>3, <1>4 DEF GpShape, SameRest
<1>6. EntryCount(f) /\ Load(f) = Load(x) /\ Part(f) = Part(x)
  <2>1. EntryCount(x)
    BY DEF SumSound
  <2> QED
    BY <1>2, <2>1 DEF EntryCount, EffOf, Load, Part, Share, Num
<1>7. Moved(s, p, g)
  <2>1. /\ s.npendings \in Int /\ s.effective \in Int /\ Load(x) \in Int
        /\ Part(x) \in Int
    BY <1>1, NumbersIn, EntryIn
  <2>2. \A h \in Ids : h # g => SameNums(s.entry[h], p.entry[h])
    BY <1>4, <1>5 DEF SameNums
  <2>3. p.npendings = s.npendings + (Load(f) - Load(x))
        /\ p.effective = s.effective + (Part(f) - Part(x)) /\ p.entry[g] = f
    BY <1>4, <1>5, <1>6, <2>1
  <2> QED
    BY <1>6, <2>2, <2>3 DEF Moved
<1>8. SumSound(p)
  BY <1>1, <1>5, <1>7, MovedSound
<1>9. SameHands(s, p)
  BY <1>2, <1>4, <1>5 DEF SameHands
<1> QED
  BY <1>5, <1>8, <1>9 DEF p

LEMMA SetSeqRange ==
  ASSUME NEW D \in SUBSET Tasks
  PROVE  Range(SetToSeq(D)) = D
<1> DEFINE n == Cardinality(D)
           seq == SetToSeq(D)
<1>1. IsFiniteSet(D)
  BY FS_Subset, GpAssumption
<1>2. n \in Nat /\ seq \in [1 .. n -> D] /\ D = {seq[i] : i \in 1 .. n}
  BY <1>1, SetAsSeq
<1> HIDE DEF n, seq
<1>3. Range(seq) = D
  BY <1>2 DEF Range
<1> QED
  BY <1>3 DEF seq

\* Others run and dispatch what they did.
RunsOn(h, k, r) ==
    \A x \in Runners : x # r => /\ k[x].q = h[x].q /\ k[x].normal = h[x].normal
                               /\ k[x].detached = h[x].detached
                               /\ k[x].leaving = h[x].leaving

\* A user removes the tasks of X from s, which the pool has become.
LEMMA RemovalCounts ==
  ASSUME NEW s, NEW h, Held(s, h), Sums(s), RunSound(s, h), NrSound(s, h), ~s.spinning,
         NEW X \in SUBSET Tasks, NEW bypool \in BOOLEAN,
         \A t \in Removable(s) \ X : s.entry[s.gid[t]].used = "valid",
         NEW p, p = Marked(s, X, bypool), NEW u \in Users, NEW k, RunsOn(h, k, u),
         k[u].normal = h[u].normal, k[u].detached = h[u].detached,
         k[u].leaving = h[u].leaving,
         \A t \in Range(k[u].q) : t \in X \cap Handlers /\ s.stat[t] = "waiting"
  PROVE  Counted(p, k)
<1>1. PoolSound(s) /\ MarkedFrom(s, p, X, bypool) /\ s \in GpShape
  BY MarkedKeeps DEF Held, PoolSound
<1>2. SumSound(p) /\ OrderSound(p) /\ DispSound(p) /\ SameNr(s, p)
  BY <1>1, MarkedCounts DEF Sums
<1>3. /\ u \in Runners /\ u \notin Threads /\ ~h[u].normal /\ ~h[u].detached
      /\ h[u].leaving = NoTask
  BY GpAssumption DEF RunSound, Runners
<1>4. /\ \A t \in Tasks : p.stat[t] = IF t \in X /\ s.stat[t] = "waiting"
                                      THEN IF t \in Handlers THEN "dispatching" ELSE "idle"
                                      ELSE s.stat[t]
      /\ p.gid = s.gid /\ p.wpending = s.wpending \ X
      /\ SameGroups(s, p)
  BY <1>1 DEF MarkedFrom
<1>5. ASSUME NEW r \in Runners, r # u, NEW t \in Range(h[r].q)
      PROVE  p.stat[t] = s.stat[t]
  <2>1. t \in Live(h[r])
    BY <1>5 DEF RunSound, Live
  <2>2. t \in Tasks /\ s.stat[t] # "waiting"
    BY <1>5, <2>1, LiveIn DEF Held, HandSound
  <2> QED
    BY <1>4, <2>2
<1>6. RunSound(p, k)
  <2> SUFFICES ASSUME NEW r \in Runners
               PROVE  /\ ~k[r].detached /\ k[r].leaving = NoTask
                      /\ k[r].normal => r \in Threads
                      /\ k[r].normal /\ k[r].q # <<>> =>
                            Len(k[r].q) = 1 /\ p.stat[k[r].q[1]] = "scheduling"
                      /\ ~k[r].normal => \A t \in Range(k[r].q) : p.stat[t] = "dispatching"
    BY DEF RunSound
  <2>1. CASE r = u
    <3>1. \A t \in Range(k[u].q) : p.stat[t] = "dispatching"
      BY <1>4
    <3> QED
      BY <1>3, <2>1, <3>1
  <2>2. CASE r # u
    <3>1. /\ k[r].q = h[r].q /\ k[r].normal = h[r].normal
          /\ k[r].detached = h[r].detached /\ k[r].leaving = h[r].leaving
      BY <2>2 DEF RunsOn
    <3>2. h[r].q # <<>> => h[r].q[1] \in Range(h[r].q)
      <4>1. h[r].q \in Seq(Tasks)
        BY DEF Held, RunType
      <4> QED
        BY <4>1 DEF Range
    <3>3. ~h[r].normal => \A t \in Range(h[r].q) : p.stat[t] = "dispatching"
      BY <1>5, <2>2 DEF RunSound
    <3>4. h[r].normal /\ h[r].q # <<>> =>
                            Len(h[r].q) = 1 /\ p.stat[h[r].q[1]] = "scheduling"
      BY <1>5, <2>2, <3>2 DEF RunSound
    <3> QED
      BY <3>1, <3>3, <3>4 DEF RunSound
  <2> QED
    BY <2>1, <2>2
<1>7. NrSound(p, k)
  <2>1. \A th \in Threads : th \in Runners /\ th # u
    BY <1>3 DEF Runners
  <2>2. \A g \in Ids : RanOf(p, k, g) = RanOf(s, h, g)
    BY <1>4, <2>1 DEF RanOf, RunsOn
  <2> QED
    BY <1>2, <2>2 DEF NrSound, SameNr
<1>8. Quiet(p)
  <2> SUFFICES ASSUME NEW t \in Removable(p)
               PROVE  p.entry[p.gid[t]].used = "valid"
    BY DEF Quiet
  <2>1. t \in Removable(s) \ X
    BY <1>4 DEF Removable
  <2>2. s.gid[t] \in Ids
    BY <1>1, <2>1 DEF GpShape, Removable
  <2> QED
    BY <1>4, <2>1, <2>2 DEF SameGroups
<1> QED
  BY <1>2, <1>6, <1>7, <1>8 DEF Counted, Sums, SameNr

LEMMA RemoveTheseCounts ==
  ASSUME Held(gp, run), Counted(gp, run), NEW u \in Users, IdleUser(u),
         NEW X \in SUBSET Tasks, NEW bypool \in BOOLEAN, RemoveThese(u, X, bypool)
  PROVE  Counted(gp', run')
<1> DEFINE D == {t \in X \cap Handlers : gp.stat[t] = "waiting"}
           q == IF bypool THEN <<>> ELSE SetToSeq(D)
<1>1. run \in [Runners -> RunType] /\ u \in Runners
  BY DEF Held, Runners
<1>2. run' = [run EXCEPT ![u].q = q] /\ gp' = Marked(gp, X, bypool)
  BY DEF RemoveThese, Rmq
<1>3. \A t \in Range(q) : t \in D
  <2>1. CASE bypool
    BY <2>1 DEF Range
  <2>2. CASE ~bypool
    <3>1. D \in SUBSET Tasks
      OBVIOUS
    <3> HIDE DEF D
    <3> QED
      BY <2>2, <3>1, SetSeqRange
  <2> QED
    BY <2>1, <2>2
<1> HIDE DEF q
<1>4. /\ run'[u].q = q /\ run'[u].normal = run[u].normal
      /\ run'[u].detached = run[u].detached /\ run'[u].leaving = run[u].leaving
      /\ RunsOn(run, run', u)
  BY <1>1, <1>2 DEF RunsOn, RunType
<1>5. \A t \in Range(run'[u].q) : t \in X \cap Handlers /\ gp.stat[t] = "waiting"
  BY <1>3, <1>4
<1>6. \A t \in Removable(gp) \ X : gp.entry[gp.gid[t]].used = "valid"
  BY DEF Counted, Quiet
<1>7. Sums(gp) /\ RunSound(gp, run) /\ NrSound(gp, run) /\ ~gp.spinning
  BY DEF Counted
<1> QED
  BY <1>2, <1>4, <1>5, <1>6, <1>7, RemovalCounts

LEMMA UserRemovesCounts ==
  ASSUME Held(gp, run), Counted(gp, run), NEW u \in Users,
         \/ \E t \in Tasks, bypool \in BOOLEAN : RemoveTask(u, t, bypool)
         \/ \E bypool \in BOOLEAN : MarkCb(u, bypool)
         \/ \E g \in Ids, bypool \in BOOLEAN : EntryMarkCb(u, g, bypool)
  PROVE  Counted(gp', run')
<1>1. ASSUME NEW t \in Tasks, NEW bypool \in BOOLEAN, RemoveTask(u, t, bypool)
      PROVE  Counted(gp', run')
  <2>1. IdleUser(u) /\ {t} \in SUBSET Tasks /\ RemoveThese(u, {t}, bypool)
    BY <1>1 DEF RemoveTask
  <2> QED
    BY <2>1, RemoveTheseCounts
<1>2. ASSUME NEW bypool \in BOOLEAN, MarkCb(u, bypool)
      PROVE  Counted(gp', run')
  <2>1. PICK X \in SUBSET Removable(gp) : RemoveThese(u, X, bypool)
    BY <1>2 DEF MarkCb
  <2>2. IdleUser(u) /\ X \in SUBSET Tasks
    BY <1>2 DEF MarkCb, Removable
  <2> QED
    BY <2>1, <2>2, RemoveTheseCounts
<1>3. ASSUME NEW g \in Ids, NEW bypool \in BOOLEAN, EntryMarkCb(u, g, bypool)
      PROVE  Counted(gp', run')
  <2>1. PICK X \in SUBSET (Removable(gp) \cap OfGroup(gp, g)) : RemoveThese(u, X, bypool)
    BY <1>3 DEF EntryMarkCb
  <2>2. IdleUser(u) /\ X \in SUBSET Tasks
    BY <1>3 DEF EntryMarkCb, Removable
  <2> QED
    BY <2>1, <2>2, RemoveTheseCounts
<1> QED
  BY <1>1, <1>2, <1>3

\* A group that is deleted still counts.
LEMMA DeletingCounts ==
  ASSUME NEW s, PoolSound(s), SumSound(s), NEW g \in Ids, IsValid(s, g)
  PROVE  LET p == Deleting(s, g)
         IN  /\ SumSound(p) /\ SameHands(s, p) /\ p.order = s.order
             /\ \A h \in Ids : h # g => p.entry[h] = s.entry[h]
<1> DEFINE x == s.entry[g]
           f == [x EXCEPT !.used = "destroying"]
           E == [s.entry EXCEPT ![g] = f]
           p == Deleting(s, g)
<1>1. s \in GpShape /\ x \in EntryShape /\ x.used = "valid"
  BY EntryIn DEF PoolSound, IsValid
<1>2. /\ f \in EntryShape /\ f.limit_paralle_tasks = x.limit_paralle_tasks
      /\ f.limit_tasks = x.limit_tasks /\ f.receive_benifits = x.receive_benifits
      /\ f.paused = x.paused /\ f.queue = x.queue
      /\ f.nrunnings = x.nrunnings /\ f.ndispatchings = x.ndispatchings
      /\ f.npendings_eff = x.npendings_eff
  BY <1>1 DEF EntryShape
<1>3. p = [s EXCEPT !.entry = E]
  BY <1>1 DEF Deleting, GpShape
<1> HIDE DEF f
<1>4. E \in [Ids -> EntryShape] /\ E[g] = f /\ \A h \in Ids : h # g => E[h] = s.entry[h]
  BY <1>1, <1>2 DEF GpShape
<1> HIDE DEF E, p
<1>5. /\ p \in GpShape /\ p.entry = E /\ p.npendings = s.npendings
      /\ p.effective = s.effective /\ p.order = s.order /\ SameRest(s, p)
  BY <1>1, <1>3, <1>4 DEF GpShape, SameRest
<1>6. EntryCount(f) /\ Load(f) = Load(x) /\ Part(f) = Part(x)
  <2>1. EntryCount(x)
    BY DEF SumSound
  <2> QED
    BY <1>1, <1>2, <2>1 DEF EntryCount, EffOf, Load, Part, Share, Num
<1>7. Moved(s, p, g)
  <2>1. /\ s.npendings \in Int /\ s.effective \in Int /\ Load(x) \in Int
        /\ Part(x) \in Int
    BY <1>1, NumbersIn, EntryIn
  <2>2. \A h \in Ids : h # g => SameNums(s.entry[h], p.entry[h])
    BY <1>4, <1>5 DEF SameNums
  <2>3. p.npendings = s.npendings + (Load(f) - Load(x))
        /\ p.effective = s.effective + (Part(f) - Part(x)) /\ p.entry[g] = f
    BY <1>4, <1>5, <1>6, <2>1
  <2> QED
    BY <1>6, <2>2, <2>3 DEF Moved
<1>8. SumSound(p)
  BY <1>1, <1>5, <1>7, MovedSound
<1>9. SameHands(s, p)
  BY <1>2, <1>4, <1>5 DEF SameHands
<1> QED
  BY <1>4, <1>5, <1>8, <1>9 DEF p

LEMMA DeleteGroupCounts ==
  ASSUME Held(gp, run), Counted(gp, run), NEW u \in Users, NEW g \in Ids,
         DeleteGroup(u, g)
  PROVE  Counted(gp', run')
<1> DEFINE s == Deleting(gp, g)
           X == Traced(gp, g)
           D == {t \in X \cap Handlers : gp.stat[t] = "waiting"}
           q == SetToSeq(D)
<1>1. run \in [Runners -> RunType] /\ u \in Runners /\ PoolSound(gp) /\ gp \in GpShape
      /\ TaskSound(gp)
  BY DEF Held, Runners, PoolSound
<1>2. X \in SUBSET Tasks /\ Range(q) = D
  <2>1. D \in SUBSET Tasks /\ X \in SUBSET Tasks
    BY DEF Traced, OfGroup
  <2> HIDE DEF D
  <2> QED
    BY <2>1, SetSeqRange
<1>3. /\ run' = [run EXCEPT ![u].deleting = g, ![u].q = q] /\ gp' = Marked(s, X, FALSE)
      /\ IsValid(gp, g)
  BY DEF DeleteGroup, Deleting, Rmq
<1>4. PoolSound(s) /\ SameTasks(gp, s)
  BY <1>1, <1>3, DeletingKeeps
<1>5. Held(s, run)
  BY <1>4, SameHeld
<1>6. /\ SumSound(s) /\ SameHands(gp, s) /\ s.order = gp.order
      /\ \A h \in Ids : h # g => s.entry[h] = gp.entry[h]
  BY <1>1, <1>3, DeletingCounts DEF Counted, Sums
<1> HIDE DEF q, s
<1>7. /\ s.stat = gp.stat /\ s.wpending = gp.wpending /\ s.gid = gp.gid
      /\ s.dispatch_q = gp.dispatch_q
  BY <1>4 DEF SameTasks
<1>8. OrderSound(s) /\ RunSound(s, run) /\ ~s.spinning
  BY <1>6, <1>7 DEF OrderSound, RunSound, Counted, Sums, SameHands, SameRest
<1>9. DispSound(s)
  BY <1>6, <1>7, DispSame DEF Counted, Sums, SameHands, SameRest
<1>10. NrSound(s, run)
  <2>1. \A h \in Ids : RanOf(s, run, h) = RanOf(gp, run, h)
    BY <1>7 DEF RanOf
  <2> QED
    BY <1>6, <2>1 DEF NrSound, Counted, SameHands
<1>11. \A t \in Removable(s) \ X : s.entry[s.gid[t]].used = "valid"
  <2> TAKE t \in Removable(s) \ X
  <2>1. t \in Removable(gp) /\ t \in Tasks /\ gp.stat[t] # "idle" /\ gp.gid[t] \in Ids
    BY <1>1, <1>7 DEF Removable, GpShape, TaskSound
  <2>2. gp.gid[t] # g
    BY <2>1 DEF Traced, OfGroup
  <2> QED
    BY <1>6, <1>7, <2>1, <2>2 DEF Counted, Quiet
<1>12. /\ run'[u].q = q /\ run'[u].normal = run[u].normal
       /\ run'[u].detached = run[u].detached /\ run'[u].leaving = run[u].leaving
       /\ RunsOn(run, run', u)
  BY <1>1, <1>3 DEF RunsOn, RunType
<1>13. \A t \in Range(run'[u].q) : t \in X \cap Handlers /\ s.stat[t] = "waiting"
  BY <1>2, <1>7, <1>12
<1> HIDE DEF X
<1> QED
  BY <1>2, <1>3, <1>5, <1>6, <1>8, <1>9, <1>10, <1>11, <1>12, <1>13,
     RemovalCounts, ZenonT(40) DEF Sums

LEMMA GroupFreedCounts ==
  ASSUME Held(gp, run), Counted(gp, run), NEW u \in Users, GroupFreed(u)
  PROVE  Counted(gp', run')
<1> DEFINE g == run[u].deleting
<1>1. /\ run \in [Runners -> RunType] /\ u \in Runners /\ PoolSound(gp)
      /\ TaskSound(gp) /\ gp \in GpShape
  BY DEF Held, Runners, PoolSound
<1>2. /\ g \in Ids /\ SameTasks(gp, gp') /\ SameOthers(gp, gp', g)
      /\ run' = [run EXCEPT ![u].deleting = NoGroup]
  BY GroupFreedHeld
<1>3. gp' = Freed(gp, g) /\ Traced(gp, g) = {}
  BY DEF GroupFreed, Freed, GroupDone
<1> HIDE DEF g
<1>4. SumSound(gp') /\ SameHands(gp, gp') /\ gp'.order = gp.order
  BY <1>1, <1>2, <1>3, FreedCounts DEF Counted, Sums
<1>5. \A t \in Removable(gp) : gp'.entry[gp.gid[t]].used = gp.entry[gp.gid[t]].used
  <2> TAKE t \in Removable(gp)
  <2>1. t \in Tasks /\ gp.gid[t] \in Ids /\ gp.stat[t] # "idle"
    BY <1>1 DEF GpShape, Removable, TaskSound
  <2>2. gp.gid[t] # g
    BY <1>3, <2>1 DEF Traced, OfGroup
  <2> QED
    BY <1>2, <2>1, <2>2 DEF SameOthers
<1>6. Counted(gp', run)
  BY <1>2, <1>4, <1>5, CallCounts DEF SameHands, SameRest
<1>7. \A r \in Runners : /\ run'[r].q = run[r].q /\ run'[r].normal = run[r].normal
                         /\ run'[r].detached = run[r].detached
                         /\ run'[r].leaving = run[r].leaving
  BY <1>1, <1>2 DEF RunType
<1>8. RunSound(gp', run')
  BY <1>6, <1>7 DEF RunSound, Counted
<1>9. NrSound(gp', run')
  <2>1. \A h \in Ids : RanOf(gp', run', h) = RanOf(gp', run, h)
    BY <1>7 DEF RanOf, Runners
  <2> QED
    BY <1>6, <2>1 DEF NrSound, Counted
<1> QED
  BY <1>6, <1>8, <1>9 DEF Counted

\* An idle task is put in the valid group g.
LEMMA GroupGiven ==
  ASSUME NEW s, PoolSound(s), NEW t \in Tasks, NEW g \in Ids, s.stat[t] = "idle",
         IsValid(s, g)
  PROVE  LET p == [s EXCEPT !.gid[t] = g]
         IN  /\ PoolSound(p) /\ Homed(p, t) /\ SameGroups(s, p)
             /\ p.gid = [s.gid EXCEPT ![t] = g] /\ p.entry = s.entry
             /\ p.stat = s.stat /\ p.wpending = s.wpending
             /\ p.dispatch_q = s.dispatch_q /\ p.order = s.order
             /\ p.npendings = s.npendings /\ p.effective = s.effective
             /\ SameRest(s, p)
<1> DEFINE p == [s EXCEPT !.gid[t] = g]
           G == [s.gid EXCEPT ![t] = g]
<1>1. /\ s \in GpShape /\ TaskSound(s) /\ GroupSound(s)
  BY DEF PoolSound
<1>2. G \in [Tasks -> Ids] /\ \A u \in Tasks : G[u] = IF u = t THEN g ELSE s.gid[u]
  BY <1>1 DEF GpShape
<1>3. p = [s EXCEPT !.gid = G] /\ G = [s.gid EXCEPT ![t] = g]
  BY <1>1 DEF GpShape
<1> HIDE DEF p, G
<1>4. /\ p \in GpShape /\ p.gid = G /\ p.entry = s.entry /\ p.stat = s.stat
      /\ p.actentry = s.actentry /\ p.active_idx = s.active_idx
      /\ p.nactives_ok = s.nactives_ok /\ p.num = s.num
      /\ p.wpending = s.wpending /\ p.dispatch_q = s.dispatch_q
      /\ p.order = s.order /\ p.npendings = s.npendings
      /\ p.effective = s.effective /\ SameRest(s, p)
      /\ SameGroups(s, p)
  BY <1>1, <1>2, <1>3 DEF GpShape, SameGroups, SameRest
<1>5. GroupSound(p)
  <2>1. Actives(p) = Actives(s) /\ First(p) = First(s)
        /\ ReadyGroups(p) = ReadyGroups(s)
    BY <1>4 DEF Actives, First, ReadyGroups, Ready
  <2>2. ListSound(p)
    BY <1>1, <1>4, <2>1 DEF GroupSound, ListSound, OnePlaceEach
  <2> QED
    BY <1>1, <1>4, <2>1, <2>2 DEF GroupSound
<1>6. TaskSound(p)
  <2>1. \A h \in Ids : {u \in Tasks : p.stat[u] = "waiting" /\ p.gid[u] = h} =
                       {u \in Tasks : s.stat[u] = "waiting" /\ s.gid[u] = h}
    BY <1>2, <1>4
  <2>2. \A u \in Tasks : p.stat[u] # "idle" =>
            p.gid[u] < p.num /\ p.entry[p.gid[u]].used # "free"
    BY <1>1, <1>2, <1>4 DEF TaskSound
  <2> QED
    BY <1>1, <1>4, <2>1, <2>2 DEF TaskSound
<1>7. Homed(p, t)
  <2>1. p.gid[t] = g
    BY <1>2, <1>4
  <2>2. t \notin Range(s.dispatch_q)
    BY <1>1 DEF TaskSound
  <2> QED
    BY <1>4, <2>1, <2>2 DEF Homed, IsValid
<1> QED
  BY <1>3, <1>4, <1>5, <1>6, <1>7 DEF PoolSound, p

\* A task that waits is the last one of the order.
LEMMA OrderMore ==
  ASSUME NEW s \in GpShape, OrderSound(s), NEW t \in Tasks, s.stat[t] # "waiting",
         NEW p, p.order = Append(s.order, t), p.stat[t] = "waiting",
         \A u \in Tasks : u # t => p.stat[u] = s.stat[u]
  PROVE  OrderSound(p)
<1>1. s.order \in Seq(Tasks)
  BY DEF GpShape
<1>2. OneMore(s.order, t, p.order)
  BY <1>1, AppendIsOneMore
<1>3. Range(p.order) = {u \in Tasks : s.stat[u] = "waiting"} \cup {t}
      /\ Once(p.order)
  BY <1>2 DEF OneMore, OrderSound
<1> QED
  BY <1>3 DEF OrderSound

\* A task is queued, or to be queued when it is done.
LEMMA QueueCounts ==
  ASSUME Held(gp, run), Counted(gp, run), NEW t \in Tasks, NEW g \in Ids, Queue(t, g)
  PROVE  Counted(gp', run')
<1>1. /\ PoolSound(gp) /\ gp \in GpShape /\ TaskSound(gp) /\ IsValid(gp, g)
      /\ run' = run /\ SumSound(gp) /\ OrderSound(gp) /\ DispSound(gp)
      /\ RunSound(gp, run) /\ NrSound(gp, run) /\ Quiet(gp) /\ ~gp.spinning
  BY DEF Held, PoolSound, Queue, Counted, Sums
<1>2. CASE gp.stat[t] = "idle" /\ gp' = Queued([gp EXCEPT !.gid[t] = g], t)
  <2> DEFINE s == [gp EXCEPT !.gid[t] = g]
  <2>1. /\ PoolSound(s) /\ Homed(s, t) /\ SameGroups(gp, s)
        /\ s.gid = [gp.gid EXCEPT ![t] = g] /\ s.entry = gp.entry
        /\ s.stat = gp.stat /\ s.wpending = gp.wpending
        /\ s.dispatch_q = gp.dispatch_q /\ s.order = gp.order
        /\ s.npendings = gp.npendings /\ s.effective = gp.effective
        /\ SameRest(gp, s)
    BY <1>1, <1>2, GroupGiven
  <2>2. gp' = Queued(s, t)
    BY <1>2
  <2> HIDE DEF s
  <2>3. SumSound(s)
    BY <1>1, <2>1 DEF SumSound, Loads, Parts
  <2>4. SumSound(gp') /\ SameRuns(s, gp') /\ gp'.order = Append(gp.order, t)
    BY <2>1, <2>2, <2>3, QueuedCounts
  <2>5. /\ gp'.stat = [gp.stat EXCEPT ![t] = "waiting"] /\ gp'.gid = s.gid
        /\ gp'.wpending = gp.wpending \ {t} /\ gp'.dispatch_q = gp.dispatch_q
        /\ SameGroups(gp, gp')
    <3>1. PoolSound(s) /\ Homed(s, t)
      BY <2>1
    <3>2. /\ SameGroups(s, Queued(s, t))
          /\ Queued(s, t).stat = [s.stat EXCEPT ![t] = "waiting"]
          /\ Queued(s, t).gid = s.gid
          /\ Queued(s, t).wpending = s.wpending \ {t}
          /\ Queued(s, t).dispatch_q = s.dispatch_q
      BY <3>1, QueuedKeeps
    <3>3. SameGroups(s, gp')
      BY <2>2, <3>2
    <3>4. SameGroups(gp, s)
      BY <2>1
    <3>5. SameGroups(gp, gp')
      BY <3>3, <3>4, SameTrans
    <3>6. /\ gp'.stat = [s.stat EXCEPT ![t] = "waiting"] /\ gp'.gid = s.gid
          /\ gp'.wpending = s.wpending \ {t} /\ gp'.dispatch_q = s.dispatch_q
      BY <2>2, <3>2
    <3> QED
      BY <2>1, <3>5, <3>6
  <2>6. /\ gp'.stat[t] = "waiting" /\ gp'.gid[t] = g
        /\ \A u \in Tasks : u # t => gp'.stat[u] = gp.stat[u] /\ gp'.gid[u] = gp.gid[u]
    BY <1>1, <2>1, <2>5 DEF GpShape
  <2>7. OrderSound(gp')
    BY <1>1, <1>2, <2>4, <2>6, OrderMore
  <2>8. DispSound(gp')
    <3>1. \A u \in Tasks : gp'.stat[u] = "dispatching" <=> gp.stat[u] = "dispatching"
      BY <1>2, <2>6
    <3>2. \A u \in Tasks : gp.stat[u] = "dispatching" => gp'.gid[u] = gp.gid[u]
      BY <1>2, <2>6
    <3>3. \A h \in Ids : gp'.entry[h].ndispatchings = gp.entry[h].ndispatchings
      BY <2>1, <2>4 DEF SameRuns
    <3>4. gp'.ndispatchings = gp.ndispatchings
      BY <2>1, <2>4 DEF SameRuns, SameRest
    <3> QED
      BY <1>1, <2>5, <3>1, <3>2, <3>3, <3>4, DispSame
  <2>9. \A r \in Runners : \A u \in Range(run[r].q) :
            u \in Tasks /\ gp'.stat[u] = gp.stat[u] /\ gp'.gid[u] = gp.gid[u]
    <3> TAKE r \in Runners
    <3> TAKE u \in Range(run[r].q)
    <3>1. u \in Live(run[r])
      BY <1>1 DEF RunSound, Live
    <3>2. u \in Tasks /\ gp.stat[u] # "idle"
      BY <3>1, LiveIn DEF Held, HandSound
    <3> QED
      BY <1>2, <2>6, <3>2
  <2>10. \A r \in Runners : run[r].q # <<>> => run[r].q[1] \in Range(run[r].q)
    <3> TAKE r \in Runners
    <3>1. run[r].q \in Seq(Tasks)
      BY DEF Held, RunType
    <3> QED
      BY <3>1 DEF Range
  <2>11. RunSound(gp', run)
    BY <1>1, <2>9, <2>10 DEF RunSound
  <2>12. NrSound(gp', run)
    <3>1. \A h \in Ids : RanOf(gp', run, h) = RanOf(gp, run, h)
      BY <2>9, <2>10 DEF RanOf, Runners
    <3> QED
      BY <1>1, <2>1, <2>4, <3>1 DEF NrSound, SameRuns
  <2>13. Quiet(gp')
    <3> SUFFICES ASSUME NEW u \in Removable(gp')
                 PROVE  gp'.entry[gp'.gid[u]].used = "valid"
      BY DEF Quiet
    <3>1. CASE u = t
      BY <1>1, <2>5, <2>6, <3>1 DEF IsValid, SameGroups
    <3>2. CASE u # t
      <4>1. u \in Removable(gp) /\ gp'.gid[u] = gp.gid[u]
        BY <2>5, <2>6, <3>2 DEF Removable
      <4>2. gp.gid[u] \in Ids
        BY <1>1, <4>1 DEF GpShape, Removable
      <4> QED
        BY <1>1, <2>5, <4>1, <4>2 DEF SameGroups, Quiet
    <3> QED
      BY <3>1, <3>2
  <2>14. ~gp'.spinning
    BY <1>1, <2>1, <2>4 DEF SameRuns, SameRest
  <2> QED
    BY <1>1, <2>4, <2>7, <2>8, <2>11, <2>12, <2>13, <2>14 DEF Counted, Sums
<1>3. CASE /\ gp.stat[t] \in {"scheduling", "dispatching"} /\ gp.gid[t] = g
           /\ gp' = [gp EXCEPT !.wpending = @ \cup {t}]
  <2>1. /\ gp'.entry = gp.entry /\ gp'.npendings = gp.npendings
        /\ gp'.effective = gp.effective /\ gp'.order = gp.order /\ gp'.stat = gp.stat
        /\ gp'.gid = gp.gid /\ gp'.ndispatchings = gp.ndispatchings
        /\ gp'.dispatch_q = gp.dispatch_q /\ gp'.spinning = gp.spinning
        /\ gp'.wpending = gp.wpending \cup {t}
    BY <1>1, <1>3 DEF GpShape
  <2>2. SumSound(gp') /\ OrderSound(gp')
    BY <1>1, <2>1 DEF SumSound, Loads, Parts, OrderSound
  <2>3. DispSound(gp')
    BY <1>1, <2>1, DispSame
  <2>4. RunSound(gp', run)
    BY <1>1, <2>1 DEF RunSound
  <2>5. NrSound(gp', run)
    <3>1. \A h \in Ids : RanOf(gp', run, h) = RanOf(gp, run, h)
      BY <2>1 DEF RanOf
    <3> QED
      BY <1>1, <2>1, <3>1 DEF NrSound
  <2>6. Quiet(gp')
    BY <1>1, <1>3, <2>1 DEF Quiet, Removable, IsValid
  <2> QED
    BY <1>1, <2>1, <2>2, <2>3, <2>4, <2>5, <2>6 DEF Counted, Sums
<1> QED
  BY <1>2, <1>3 DEF Queue

-----------------------------------------------------------------------------
(***************************************************************************)
(* The task that is taken is the first one of all                          *)
(***************************************************************************)

\* The tasks that wait.
Waits(s) == {t \in Tasks : s.stat[t] = "waiting"}

\* Which tasks of one priority go first, as numbers: K grows with the seq of those
\* that go before their equals, and falls with that of the others.
IsKey(s, K) ==
    \A t, u \in Waits(s) :
        /\ K[t] \in Int /\ (K[t] = K[u] => t = u)
        /\ t # u => (Before(s, t, u) <=>
                        Pri[t] > Pri[u] \/ (Pri[t] = Pri[u] /\ K[t] > K[u]))

\* Before is a strict order of the tasks that wait.
LEMMA BeforeKey ==
  ASSUME NEW s \in GpShape, OrderSound(s)
  PROVE  \E K : IsKey(s, K)
<1> DEFINE W == Waits(s)
           pos(t) == CHOOSE i \in 1 .. Len(s.order) : s.order[i] = t
           K == [t \in W |-> IF Policy[t] = "TOP" THEN pos(t) ELSE 0 - pos(t)]
<1>1. /\ s.order \in Seq(Tasks) /\ Len(s.order) \in Nat
      /\ \A i, j \in 1 .. Len(s.order) : s.order[i] = s.order[j] => i = j
      /\ \A t \in W : \E i \in 1 .. Len(s.order) : s.order[i] = t
  BY DEF GpShape, OrderSound, Once, Range, Waits
<1>2. \A t \in W : pos(t) \in 1 .. Len(s.order) /\ s.order[pos(t)] = t
  BY <1>1
<1>3. \A t, u \in W : Newer(s, t, u) <=> pos(t) > pos(u)
  <2> HIDE DEF pos, W
  <2> QED
    BY <1>1, <1>2 DEF Newer
<1> HIDE DEF pos
<1>4. \A t \in W : /\ K[t] = IF Policy[t] = "TOP" THEN pos(t) ELSE 0 - pos(t)
                   /\ pos(t) \in Int /\ pos(t) > 0
                   /\ Policy[t] \in {"TOP", "BACK"} /\ Pri[t] \in Int
  <2> TAKE t \in W
  <2>1. pos(t) \in Int /\ pos(t) > 0
    BY <1>1, <1>2
  <2>2. t \in Tasks
    BY DEF Waits
  <2>3. Policy[t] \in {"TOP", "BACK"} /\ Pri[t] \in Int
    BY <2>2, GpAssumption
  <2> QED
    BY <2>1, <2>3
<1> HIDE DEF K
<1>5. ASSUME NEW t \in W, NEW u \in W
      PROVE  /\ K[t] \in Int /\ (K[t] = K[u] => t = u)
             /\ t # u => (Before(s, t, u) <=>
                        Pri[t] > Pri[u] \/ (Pri[t] = Pri[u] /\ K[t] > K[u]))
  <2>1. pos(t) = pos(u) => t = u
    BY <1>2
  <2>2. Newer(s, t, u) <=> pos(t) > pos(u)
    BY <1>3
  <2>3. /\ K[t] = IF Policy[t] = "TOP" THEN pos(t) ELSE 0 - pos(t)
        /\ pos(t) \in Int /\ pos(t) > 0
        /\ Policy[t] \in {"TOP", "BACK"} /\ Pri[t] \in Int
    BY <1>4
  <2>4. /\ K[u] = IF Policy[u] = "TOP" THEN pos(u) ELSE 0 - pos(u)
        /\ pos(u) \in Int /\ pos(u) > 0
        /\ Policy[u] \in {"TOP", "BACK"} /\ Pri[u] \in Int
    BY <1>4
  <2> HIDE DEF W
  <2>5. K[t] \in Int /\ (K[t] = K[u] => pos(t) = pos(u))
    BY <2>3, <2>4
  <2>6. ASSUME t # u
        PROVE  (IF Newer(s, t, u) THEN Policy[t] = "TOP" ELSE Policy[u] = "BACK")
                    <=> K[t] > K[u]
    <3>1. pos(t) # pos(u)
      BY <2>1, <2>6
    <3>2. CASE pos(t) > pos(u)
      BY <2>2, <2>3, <2>4, <3>2
    <3>3. CASE pos(t) < pos(u)
      BY <2>2, <2>3, <2>4, <3>3
    <3> QED
      BY <2>3, <2>4, <3>1, <3>2, <3>3
  <2> QED
    BY <2>1, <2>5, <2>6 DEF Before
<1> QED
  BY <1>5 DEF IsKey

\* c is the task of C that goes before the others.
Best(s, c, C) ==
    IF C = {} THEN c = NoTask
    ELSE c \in C /\ \A u \in C : u # c => Before(s, c, u)

\* So that the better of the best one and t is the best of all.
LEMMA BestGrows ==
  ASSUME NEW s \in GpShape, OrderSound(s), NEW C \in SUBSET Waits(s), NEW c,
         Best(s, c, C), NEW t \in Waits(s)
  PROVE  Best(s, IF c = NoTask \/ Before(s, t, c) THEN t ELSE c, C \cup {t})
<1>1. PICK K : IsKey(s, K)
  BY BeforeKey
<1>2. Waits(s) \subseteq Tasks /\ \A u \in Waits(s) : Pri[u] \in Int /\ u # NoTask
  BY GpAssumption DEF Waits
<1>3. CASE C = {}
  BY <1>3 DEF Best
<1>4. CASE C # {} /\ c = t
  <2>1. c \in C /\ (\A u \in C : u # c => Before(s, c, u)) /\ C \cup {t} = C
    BY <1>4 DEF Best
  <2> QED
    BY <1>4, <2>1 DEF Best
<1>5. CASE C # {} /\ c # t
  <2>1. c \in C /\ c \in Waits(s) /\ c # NoTask
        /\ \A u \in C : u # c => Before(s, c, u)
    BY <1>2, <1>5 DEF Best
  <2>2. CASE Before(s, t, c)
    <3>1. \A u \in C : u # t => Before(s, t, u)
      <4> TAKE u \in C
      <4> HAVE u # t
      <4>1. CASE u = c
        BY <2>2, <4>1
      <4>2. CASE u # c
        <5>1. Before(s, c, u) /\ u \in Waits(s)
          BY <2>1, <4>2
        <5>2. Pri[t] > Pri[c] \/ (Pri[t] = Pri[c] /\ K[t] > K[c])
          BY <1>1, <1>5, <2>1, <2>2 DEF IsKey
        <5>3. Pri[c] > Pri[u] \/ (Pri[c] = Pri[u] /\ K[c] > K[u])
          BY <1>1, <2>1, <4>2, <5>1 DEF IsKey
        <5>4. K[t] \in Int /\ K[c] \in Int /\ K[u] \in Int
          BY <1>1, <2>1, <5>1 DEF IsKey
        <5>5. Pri[t] > Pri[u] \/ (Pri[t] = Pri[u] /\ K[t] > K[u])
          BY <1>2, <2>1, <5>1, <5>2, <5>3, <5>4
        <5> QED
          BY <1>1, <5>1, <5>5 DEF IsKey
      <4> QED
        BY <4>1, <4>2
    <3> QED
      BY <2>2, <3>1 DEF Best
  <2>3. CASE ~Before(s, t, c)
    <3>1. Before(s, c, t)
      <4>1. ~(Pri[t] > Pri[c] \/ (Pri[t] = Pri[c] /\ K[t] > K[c]))
        BY <1>1, <1>5, <2>1, <2>3 DEF IsKey
      <4>2. K[t] \in Int /\ K[c] \in Int /\ K[t] # K[c]
        BY <1>1, <1>5, <2>1 DEF IsKey
      <4>3. Pri[c] > Pri[t] \/ (Pri[c] = Pri[t] /\ K[c] > K[t])
        BY <1>2, <2>1, <4>1, <4>2
      <4> QED
        BY <1>1, <1>5, <2>1, <4>3 DEF IsKey
    <3> QED
      BY <2>1, <2>3, <3>1 DEF Best
  <2> QED
    BY <2>2, <2>3
<1> QED
  BY <1>3, <1>4, <1>5

\* The first tasks of the candidates among the first n places.
CandTops(s, second, n) ==
    {s.entry[s.actentry[j]].queue[1] :
        j \in {k \in 0 .. (n - 1) : Candidate(s, s.actentry[k], second)}}

\* The search goes through all the places and keeps the best task.
LEMMA SearchBest ==
  ASSUME NEW s, PoolSound(s), OrderSound(s), NEW second
  PROVE  Best(s, Search(s, second), CandTops(s, second, s.active_idx))
<1> DEFINE n == s.active_idx
           seq == Places(n)
           S == Tasks \cup {NoTask}
           b == NoTask
           best(t, i) == Better(s, second, t, i)
           Is(f) == f = [z \in SUBSET (1 .. n) |->
                    IF z = {} THEN b ELSE best(f[z \ {Max(z)}], seq[Max(z)])]
           F == CHOOSE f : Is(f)
           step == [x \in S \X (1 .. n) |-> best(x[1], seq[x[2]])]
<1>0. s \in GpShape /\ ListSound(s)
  BY DEF PoolSound, GroupSound
<1>1. n \in Nat
  BY <1>0 DEF ListSound
<1>2. Search(s, second) = F[1 .. n]
  <2>1. DOMAIN seq = 1 .. n
    BY DEF Places
  <2> QED
    BY <2>1, Zenon DEF Search, FoldLeft, MapThenFoldSet
<1>3. \A i \in 1 .. n : seq[i] = i - 1 /\ i - 1 \in 0 .. (n - 1)
  BY <1>1 DEF Places
<1>4. ASSUME NEW j \in 0 .. (n - 1), Candidate(s, s.actentry[j], second)
      PROVE  s.entry[s.actentry[j]].queue[1] \in Waits(s)
  <2>1. s.actentry[j] \in First(s)
    BY DEF First
  <2>2. s.entry[s.actentry[j]].queue[1] \in Tops(s)
    BY <1>4, <2>1 DEF Candidate, Tops
  <2> QED
    BY <2>2, TopIs DEF Waits
<1>5. ASSUME NEW t \in S, NEW i \in 1 .. n
      PROVE  best(t, seq[i]) \in S
  BY <1>3, <1>4, <1>5 DEF Better, Waits
<1>6. step \in [S \X (1 .. n) -> S]
  BY <1>5
<1> HIDE DEF seq, best, b
<1>7. b \in S /\ b = NoTask
  BY DEF b
<1> HIDE DEF S
<1>8. Is(F)
  <2>1. PICK f \in [SUBSET (1 .. n) -> S] : FoldedBy(f, n, b, step)
    <3> HIDE DEF step, n
    <3> QED
      BY <1>1, <1>6, <1>7, FoldExists
  <2>2. \A z \in SUBSET (1 .. n) : z # {} => Max(z) \in 1 .. n
    BY <1>1, MaxIn
  <2>3. Is(f)
    BY <2>1, <2>2 DEF FoldedBy
  <2> HIDE DEF Is
  <2> QED
    BY <2>3, Zenon
<1>9. Folds(F, n, S, b, step)
  <2> HIDE DEF F, n
  <2>1. {} \in SUBSET (1 .. n)
    OBVIOUS
  <2>2. F[{}] = b
    BY <1>8, <2>1, Zenon
  <2>3. ASSUME NEW z \in SUBSET (1 .. n), z # {}, F[z \ {Max(z)}] \in S
        PROVE  F[z] = step[<<F[z \ {Max(z)}], Max(z)>>]
    BY <1>1, <1>8, <2>3, MaxIn
  <2> HIDE DEF step
  <2> QED
    BY <2>2, <2>3 DEF Folds
<1>10. PICK h \in [0 .. n -> S] : StepsTo(h, n, b, step, F[1 .. n])
  <2> HIDE DEF F, step, n
  <2> QED
    BY <1>1, <1>6, <1>7, <1>9, FoldSteps
<1> DEFINE C(i) == CandTops(s, second, i)
           P == [i \in 0 .. n |-> {c \in S : Best(s, c, C(i))}]
<1>11. h[0] \in P[0]
  <2>1. h[0] = NoTask /\ 0 \in 0 .. n
    BY <1>1, <1>7, <1>10 DEF StepsTo
  <2>2. C(0) = {}
    <3>1. 0 .. (0 - 1) = {}
      BY SMT
    <3> QED
      BY <3>1 DEF CandTops
  <2> QED
    BY <1>7, <2>1, <2>2 DEF Best
<1>12. ASSUME NEW i \in 1 .. n, h[i - 1] \in P[i - 1] PROVE h[i] \in P[i]
  <2> DEFINE c == h[i - 1]
             g == s.actentry[i - 1]
             top == s.entry[g].queue[1]
  <2>1. i - 1 \in 0 .. n /\ i \in 0 .. n /\ i - 1 \in 0 .. (n - 1)
        /\ 0 .. (i - 1) = (0 .. ((i - 1) - 1)) \cup {i - 1}
    BY <1>1
  <2>2. c \in S /\ h[i] \in S /\ Best(s, c, C(i - 1))
    BY <1>12, <2>1
  <2>3. h[i] = IF Candidate(s, g, second) /\ (c = NoTask \/ Before(s, top, c))
               THEN top ELSE c
    <3>1. h[i] = step[<<c, i>>]
      BY <1>10, Zenon DEF StepsTo
    <3>2. <<c, i>> \in S \X (1 .. n)
      BY <2>2
    <3>3. h[i] = best(c, seq[i])
      BY <3>1, <3>2
    <3> QED
      BY <1>3, <3>3 DEF best, Better
  <2>4. C(i) = IF Candidate(s, g, second) THEN C(i - 1) \cup {top} ELSE C(i - 1)
    BY <2>1 DEF CandTops
  <2>5. C(i - 1) \subseteq Waits(s)
    <3>1. \A j \in 0 .. ((i - 1) - 1) : j \in 0 .. (n - 1)
      BY <1>1
    <3> QED
      BY <1>4, <3>1 DEF CandTops
  <2>6. Candidate(s, g, second) => top \in Waits(s)
    BY <1>4, <2>1
  <2> HIDE DEF C, g, top, c
  <2>7. Best(s, h[i], C(i))
    <3>1. CASE Candidate(s, g, second)
      <4>1. Best(s, IF c = NoTask \/ Before(s, top, c) THEN top ELSE c,
                 C(i - 1) \cup {top})
        BY <1>0, <2>2, <2>5, <2>6, <3>1, BestGrows
      <4>2. h[i] = IF c = NoTask \/ Before(s, top, c) THEN top ELSE c
        BY <2>3, <3>1
      <4>3. C(i) = C(i - 1) \cup {top}
        BY <2>4, <3>1
      <4> QED
        BY <4>1, <4>2, <4>3, Zenon
    <3>2. CASE ~Candidate(s, g, second)
      BY <2>2, <2>3, <2>4, <3>2
    <3> QED
      BY <3>1, <3>2
  <2> QED
    BY <2>1, <2>2, <2>7
<1>13. h[n] \in P[n]
  <2> HIDE DEF P
  <2> QED
    BY <1>1, <1>11, <1>12, StepInduction
<1>14. h[n] = F[1 .. n] /\ n \in 0 .. n
  BY <1>1, <1>10 DEF StepsTo
<1> HIDE DEF F
<1>15. Best(s, F[1 .. n], C(n))
  BY <1>13, <1>14
<1> QED
  BY <1>2, <1>15

\* The first tasks of all groups with tasks to take.
ReadyTops(s) == {s.entry[g].queue[1] : g \in ReadyGroups(s)}

\* Is the group of u within its limit ?
Within(s, u) == EntryOf(s, u).nrunnings < EntryOf(s, u).limit_tasks

\* The tasks among which one is taken.
Rivals(s) == IF \E u \in ReadyTops(s) : Within(s, u)
             THEN {u \in ReadyTops(s) : Within(s, u)}
             ELSE {u \in ReadyTops(s) : EntryOf(s, u).receive_benifits}

LEMMA ReadyTopIs ==
  ASSUME NEW s, PoolSound(s), NEW u \in ReadyTops(s)
  PROVE  /\ u \in Tops(s) /\ u \in Tasks /\ s.gid[u] \in Ids /\ s.gid[u] \in First(s)
         /\ s.entry[s.gid[u]].queue # <<>> /\ u = s.entry[s.gid[u]].queue[1]
         /\ ~s.entry[s.gid[u]].paused /\ s.stat[u] = "waiting"
<1>1. PICK g \in ReadyGroups(s) : u = s.entry[g].queue[1]
  BY DEF ReadyTops
<1>2. g \in First(s) /\ s.entry[g].queue # <<>>
  BY <1>1 DEF PoolSound, GroupSound, ListSound, ReadyGroups, Ready
<1>3. u \in Tops(s)
  BY <1>1, <1>2 DEF Tops
<1>4. /\ u \in Tasks /\ s.gid[u] \in Ids /\ s.entry[s.gid[u]].active
      /\ s.entry[s.gid[u]].queue # <<>> /\ u = s.entry[s.gid[u]].queue[1]
      /\ ~s.entry[s.gid[u]].paused /\ s.stat[u] = "waiting"
  BY <1>3, TopIs
<1>5. s.gid[u] \in First(s)
  BY <1>4 DEF PoolSound, GroupSound, ListSound, Actives
<1> QED
  BY <1>3, <1>4, <1>5

\* A search sees the first tasks of all groups, as far as they may be taken.
LEMMA CandsAre ==
  ASSUME NEW s, PoolSound(s), NEW second \in BOOLEAN
  PROVE  CandTops(s, second, s.active_idx) =
            {u \in ReadyTops(s) : \/ Within(s, u)
                                  \/ second /\ EntryOf(s, u).receive_benifits}
<1>1. ASSUME NEW j \in 0 .. (s.active_idx - 1), Candidate(s, s.actentry[j], second)
      PROVE  LET u == s.entry[s.actentry[j]].queue[1]
             IN  /\ u \in ReadyTops(s)
                 /\ Within(s, u) \/ (second /\ EntryOf(s, u).receive_benifits)
  <2> DEFINE g == s.actentry[j]
             u == s.entry[g].queue[1]
  <2>1. g \in First(s) /\ s.entry[g].queue # <<>>
    BY <1>1 DEF First, Candidate
  <2>2. u \in Tops(s)
    BY <2>1 DEF Tops
  <2>3. u \in Tasks /\ s.gid[u] \in Ids /\ Ready(s, s.gid[u])
        /\ u = s.entry[s.gid[u]].queue[1]
    BY <2>2, TopIs, ZenonT(40)
  <2>4. s.gid[u] = g
    <3>1. s \in GpShape /\ TaskSound(s) /\ g \in Ids
      BY <2>1, FirstIn DEF PoolSound, GroupSound
    <3>2. s.entry[g].queue \in Seq(Tasks)
      BY <3>1, EntryIn
    <3>3. u \in Range(s.entry[g].queue)
      BY <2>1, <3>2 DEF Range
    <3> QED
      BY <3>1, <3>3 DEF TaskSound
  <2>5. u \in ReadyTops(s)
    BY <2>3, <2>4 DEF ReadyTops, ReadyGroups
  <2>6. Within(s, u) \/ (second /\ EntryOf(s, u).receive_benifits)
    <3> HIDE DEF u, g
    <3>1. Candidate(s, g, second)
      BY <1>1 DEF g
    <3> QED
      BY <2>4, <3>1 DEF Candidate, Within, EntryOf
  <2> QED
    BY <2>5, <2>6
<1>2. ASSUME NEW u \in ReadyTops(s),
             Within(s, u) \/ (second /\ EntryOf(s, u).receive_benifits)
      PROVE  u \in CandTops(s, second, s.active_idx)
  <2> DEFINE g == s.gid[u]
  <2>1. g \in First(s) /\ s.entry[g].queue # <<>> /\ u = s.entry[g].queue[1]
    BY ReadyTopIs
  <2>2. PICK j \in 0 .. (s.active_idx - 1) : s.actentry[j] = g
    BY <2>1 DEF First
  <2>3. Candidate(s, s.actentry[j], second)
    BY <1>2, <2>1, <2>2 DEF Candidate, Within, EntryOf
  <2> HIDE DEF g
  <2> QED
    BY <2>1, <2>2, <2>3 DEF CandTops
<1> QED
  BY <1>1, <1>2 DEF CandTops

\* Both searches together find the best of them.
LEMMA FoundBest ==
  ASSUME NEW s, PoolSound(s), OrderSound(s)
  PROVE  Best(s, Found(s), Rivals(s))
<1> DEFINE A == {u \in ReadyTops(s) : Within(s, u)}
           B == {u \in ReadyTops(s) : \/ Within(s, u)
                                      \/ EntryOf(s, u).receive_benifits}
<1>1. Best(s, Search(s, FALSE), A)
  <2>1. CandTops(s, FALSE, s.active_idx) = A
    BY CandsAre
  <2> QED
    BY <2>1, SearchBest
<1>2. Best(s, Search(s, TRUE), B)
  <2>1. CandTops(s, TRUE, s.active_idx) = B
    BY CandsAre
  <2> QED
    BY <2>1, SearchBest
<1>3. NoTask \notin A
  BY ReadyTopIs, GpAssumption
<1>4. CASE A = {}
  <2>1. Search(s, FALSE) = NoTask
    BY <1>1, <1>4 DEF Best
  <2>2. Rivals(s) = B
    BY <1>4 DEF Rivals
  <2>3. Found(s) = Search(s, TRUE)
    BY <2>1 DEF Found
  <2> QED
    BY <1>2, <2>2, <2>3
<1>5. CASE A # {}
  <2>1. Search(s, FALSE) # NoTask
    BY <1>1, <1>3, <1>5 DEF Best
  <2>2. Rivals(s) = A
    BY <1>5 DEF Rivals
  <2>3. Found(s) = Search(s, FALSE)
    BY <2>1 DEF Found
  <2> QED
    BY <1>1, <2>2, <2>3
<1> QED
  BY <1>4, <1>5

\* core->npendings is not zero only when there is a task to take.
LEMMA SomeRival ==
  ASSUME NEW s, PoolSound(s), SumSound(s), s.effective # 0
  PROVE  Rivals(s) # {}
<1>1. s \in GpShape /\ TaskSound(s)
  BY DEF PoolSound
<1>2. PICK g \in Ids : Part(s.entry[g]) # 0
  BY <1>1, SumsBound
<1> DEFINE x == s.entry[g]
           u == x.queue[1]
<1>3. /\ x \in EntryShape /\ Num(x) \in Nat /\ (Num(x) = 0 <=> x.queue = <<>>)
      /\ x.nrunnings \in Int /\ x.receive_benifits \in BOOLEAN /\ x.paused \in BOOLEAN
      /\ x.queue \in Seq(Tasks)
  BY <1>1, NumbersIn
<1>4. EntryCount(x)
  BY DEF SumSound
<1> HIDE DEF x
<1>5. ~x.paused /\ Share(x) # 0
  BY <1>2 DEF Part, x
<1>6. x.queue # <<>> /\ Takes(x)
  <2>1. CASE x.receive_benifits
    BY <1>3, <1>5, <2>1 DEF Share, Takes
  <2>2. CASE ~x.receive_benifits
    <3>1. EffOf(x) # 0
      BY <1>4, <1>5, <2>2 DEF Share, EntryCount
    <3>2. ~(x.nrunnings >= x.limit_tasks) /\ MinOf(x.limit_tasks - x.nrunnings, Num(x)) # 0
      BY <1>5, <2>2, <3>1 DEF EffOf
    <3>3. Num(x) # 0 /\ x.nrunnings < x.limit_tasks
      BY <1>3, <1>4, <3>2 DEF MinOf, EntryCount
    <3> QED
      BY <1>3, <3>3 DEF Takes
  <2> QED
    BY <2>1, <2>2
<1>7. u \in Tasks /\ u \in Range(x.queue)
  BY <1>3, <1>6 DEF Range
<1>8. s.gid[u] = g /\ g < s.num /\ x.used # "free"
  BY <1>1, <1>7 DEF TaskSound, x
<1>9. u \in ReadyTops(s)
  BY <1>5, <1>6, <1>8 DEF ReadyTops, ReadyGroups, Ready, x
<1>10. Within(s, u) \/ EntryOf(s, u).receive_benifits
  <2> HIDE DEF u
  <2> QED
    BY <1>6, <1>8 DEF Takes, Within, EntryOf, x
<1> HIDE DEF u
<1> QED
  BY <1>9, <1>10 DEF Rivals

\* What is taken is what the two searches find.
LEMMA TakeCounts ==
  ASSUME Held(gp, run), Counted(gp, run), NEW th \in Threads, Take(th)
  PROVE  Counted(gp', run') /\ Found(gp) \in Rivals(gp)
         /\ \A u \in Tasks : (gp.stat[u] = "waiting" /\ gp'.stat[u] = "scheduling") =>
                u = Found(gp)
<1> DEFINE t == Found(gp)
           g == gp.gid[t]
<1>1. /\ gp \in GpShape /\ PoolSound(gp) /\ TaskSound(gp) /\ th \in Runners
      /\ run[th] \in RunType /\ run \in [Runners -> RunType] /\ HandSound(gp, run)
      /\ SumSound(gp) /\ OrderSound(gp) /\ DispSound(gp) /\ RunSound(gp, run)
      /\ NrSound(gp, run) /\ Quiet(gp) /\ ~gp.spinning
  BY DEF Held, PoolSound, Runners, Counted, Sums
<1>2. run[th].q = <<>> /\ gp.effective # 0
  BY DEF Take, MayTake
<1>3. t \in Rivals(gp)
  <2>1. Rivals(gp) # {}
    BY <1>1, <1>2, SomeRival
  <2>2. Best(gp, t, Rivals(gp))
    BY <1>1, FoundBest
  <2> QED
    BY <2>1, <2>2 DEF Best
<1> HIDE DEF t
<1>4. t \in ReadyTops(gp) /\ (Within(gp, t) \/ EntryOf(gp, t).receive_benifits)
  BY <1>3 DEF Rivals
<1>5. t \in Tops(gp) /\ t \in Tasks /\ gp.stat[t] = "waiting" /\ g \in Ids
  BY <1>1, <1>4, ReadyTopIs
<1>6. gp' = Taken(gp, t, th) /\ run' = [run EXCEPT ![th].q = <<t>>, ![th].normal = TRUE]
  <2>1. Found(gp) # NoTask /\ t = Found(gp)
    BY <1>5, GpAssumption DEF t
  <2>2. gp' = Taken(gp, Found(gp), th)
        /\ run' = [run EXCEPT ![th].q = <<Found(gp)>>, ![th].normal = TRUE]
    BY <2>1 DEF Take, Taken
  <2> QED
    BY <2>1, <2>2
<1>7. Takes(gp.entry[gp.gid[t]])
  BY <1>4 DEF Takes, Within, EntryOf
<1>8. /\ SumSound(gp') /\ OrderSound(gp') /\ SameRest(gp, gp')
      /\ \A h \in Ids : /\ gp'.entry[h].nrunnings = gp.entry[h].nrunnings
                             + (IF h = gp.gid[t] THEN 1 ELSE 0)
                        /\ gp'.entry[h].ndispatchings = gp.entry[h].ndispatchings
  BY <1>1, <1>5, <1>6, <1>7, TakenCounts
<1>9. /\ SameGroups(gp, gp') /\ gp'.stat = [gp.stat EXCEPT ![t] = "scheduling"]
      /\ gp'.gid = gp.gid /\ gp'.wpending = gp.wpending
      /\ gp'.dispatch_q = gp.dispatch_q
  BY <1>1, <1>5, <1>6, TakenKeeps
<1>10. \A u \in Tasks : gp'.stat[u] = IF u = t THEN "scheduling" ELSE gp.stat[u]
  BY <1>1, <1>9 DEF GpShape
<1>11. /\ run'[th].q = <<t>> /\ run'[th].normal
       /\ run'[th].detached = run[th].detached /\ run'[th].leaving = run[th].leaving
       /\ RunsOn(run, run', th)
  BY <1>1, <1>6 DEF RunsOn, RunType
<1>12. DispSound(gp')
  <2>1. \A u \in Tasks : gp'.stat[u] = "dispatching" <=> gp.stat[u] = "dispatching"
    BY <1>5, <1>10
  <2> QED
    BY <1>1, <1>8, <1>9, <2>1, DispSame DEF SameRest
<1>13. \A r \in Runners : \A u \in Range(run[r].q) : u \in Tasks /\ u # t
  <2> TAKE r \in Runners
  <2> TAKE u \in Range(run[r].q)
  <2>1. u \in Live(run[r])
    BY <1>1 DEF RunSound, Live
  <2>2. u \in Tasks /\ gp.stat[u] # "waiting"
    BY <1>1, <2>1, LiveIn DEF HandSound
  <2> QED
    BY <1>5, <2>2
<1>14. \A r \in Runners : run[r].q # <<>> => run[r].q[1] \in Range(run[r].q)
  <2> TAKE r \in Runners
  <2>1. run[r].q \in Seq(Tasks)
    BY <1>1 DEF RunType
  <2> QED
    BY <2>1 DEF Range
<1>15. RunSound(gp', run')
  <2> SUFFICES ASSUME NEW r \in Runners
               PROVE  /\ ~run'[r].detached /\ run'[r].leaving = NoTask
                      /\ run'[r].normal => r \in Threads
                      /\ run'[r].normal /\ run'[r].q # <<>> =>
                            Len(run'[r].q) = 1 /\ gp'.stat[run'[r].q[1]] = "scheduling"
                      /\ ~run'[r].normal =>
                            \A u \in Range(run'[r].q) : gp'.stat[u] = "dispatching"
    BY DEF RunSound
  <2>1. CASE r = th
    <3>1. Len(<<t>>) = 1 /\ <<t>>[1] = t
      OBVIOUS
    <3>2. ~run[th].detached /\ run[th].leaving = NoTask
      BY <1>1 DEF RunSound
    <3> QED
      BY <1>5, <1>10, <1>11, <2>1, <3>1, <3>2
  <2>2. CASE r # th
    <3>1. /\ run'[r].q = run[r].q /\ run'[r].normal = run[r].normal
          /\ run'[r].detached = run[r].detached /\ run'[r].leaving = run[r].leaving
      BY <1>11, <2>2 DEF RunsOn
    <3>2. ~run[r].normal => \A u \in Range(run[r].q) : gp'.stat[u] = "dispatching"
      BY <1>1, <1>10, <1>13 DEF RunSound
    <3>3. run[r].normal /\ run[r].q # <<>> =>
                            Len(run[r].q) = 1 /\ gp'.stat[run[r].q[1]] = "scheduling"
      BY <1>1, <1>10, <1>13, <1>14 DEF RunSound
    <3> QED
      BY <1>1, <3>1, <3>2, <3>3 DEF RunSound
  <2> QED
    BY <2>1, <2>2
<1>16. NrSound(gp', run')
  <2> SUFFICES ASSUME NEW h \in Ids
               PROVE  gp'.entry[h].nrunnings = Cardinality(RanOf(gp', run', h))
    BY DEF NrSound
  <2>1. \A x \in Threads : x \in Runners
    BY DEF Runners
  <2>2. ~run'[th].detached /\ run'[th].normal /\ run'[th].q # <<>> /\ run'[th].q[1] = t
    BY <1>1, <1>11 DEF RunSound
  <2>3. th \notin RanOf(gp, run, h)
    BY <1>2 DEF RanOf
  <2>4. /\ IsFiniteSet(RanOf(gp, run, h)) /\ Cardinality(RanOf(gp, run, h)) \in Nat
        /\ gp.entry[h].nrunnings = Cardinality(RanOf(gp, run, h))
    BY <1>1, RanFinite DEF NrSound
  <2>5. \A x \in Threads : x # th => (x \in RanOf(gp', run', h) <=> x \in RanOf(gp, run, h))
    BY <1>9, <1>11, <2>1 DEF RanOf, RunsOn
  <2>6. th \in RanOf(gp', run', h) <=> h = gp.gid[t]
    BY <1>9, <2>2 DEF RanOf
  <2>7. RanOf(gp', run', h) \subseteq Threads /\ RanOf(gp, run, h) \subseteq Threads
    BY DEF RanOf
  <2>8. CASE h = gp.gid[t]
    <3>1. RanOf(gp', run', h) = RanOf(gp, run, h) \cup {th}
      BY <2>5, <2>6, <2>7, <2>8
    <3>2. Cardinality(RanOf(gp', run', h)) = Cardinality(RanOf(gp, run, h)) + 1
      BY <2>3, <2>4, <3>1, FS_AddElement
    <3> QED
      BY <1>8, <2>4, <2>8, <3>2
  <2>9. CASE h # gp.gid[t]
    <3>1. RanOf(gp', run', h) = RanOf(gp, run, h)
      BY <2>3, <2>5, <2>6, <2>7, <2>9
    <3> QED
      BY <1>8, <2>4, <2>9, <3>1
  <2> QED
    BY <2>8, <2>9
<1>17. Quiet(gp')
  <2>1. \A u \in Removable(gp') : u \in Removable(gp) /\ gp.gid[u] \in Ids
    BY <1>1, <1>9, <1>10 DEF Removable, GpShape
  <2> QED
    BY <1>1, <1>9, <2>1 DEF Quiet, SameGroups
<1>18. \A u \in Tasks : (gp.stat[u] = "waiting" /\ gp'.stat[u] = "scheduling") => u = t
  BY <1>10
<1> QED
  BY <1>1, <1>3, <1>8, <1>12, <1>15, <1>16, <1>17, <1>18 DEF Counted, Sums, SameRest, t

-----------------------------------------------------------------------------
(***************************************************************************)
(* Threads and users                                                       *)
(***************************************************************************)

\* What is run is one task.
LEMMA TailOfOne ==
  ASSUME NEW q \in Seq(Tasks), Len(q) = 1
  PROVE  Tail(q) = <<>>
<1> DEFINE w == Tail(q)
<1>1. w \in Seq(Tasks) /\ 1 = Len(w) + 1
  <2>1. q # <<>>
    BY LenIn
  <2> QED
    BY <2>1, TailIsOneLess DEF OneMore
<1> HIDE DEF w
<1>2. Len(w) \in Nat
  BY <1>1, LenIn
<1>3. Len(w) = 0
  BY <1>1, <1>2
<1>4. w = <<>>
  BY <1>1, <1>3, LenIn
<1> QED
  BY <1>4 DEF w

\* Removed tasks are taken: dispatch_q and ndispatchings have the same sum.
LEMMA TakeRemovedCounts ==
  ASSUME Held(gp, run), Counted(gp, run), NEW th \in Threads, TakeRemoved(th)
  PROVE  Counted(gp', run')
<1> DEFINE q == gp.dispatch_q
           n == MinOf(Batch, Len(q))
           a == SubSeq(q, 1, n)
           b == SubSeq(q, n + 1, Len(q))
           T == [t \in Tasks |-> IF t \in Range(a) THEN th ELSE gp.thread[t]]
<1>1. /\ gp \in GpShape /\ PoolSound(gp) /\ TaskSound(gp) /\ th \in Runners
      /\ run[th] \in RunType /\ run \in [Runners -> RunType]
      /\ SumSound(gp) /\ OrderSound(gp) /\ DispSound(gp) /\ RunSound(gp, run)
      /\ NrSound(gp, run) /\ Quiet(gp) /\ ~gp.spinning
  BY DEF Held, PoolSound, Runners, Counted, Sums
<1>2. run[th].q = <<>>
  BY DEF TakeRemoved
<1>3. run' = [run EXCEPT ![th].q = a, ![th].normal = FALSE]
  BY DEF TakeRemoved
<1>4. gp' = [gp EXCEPT !.dispatch_q = b, !.ndispatchings = @ + n, !.thread = T]
  BY <1>1 DEF TakeRemoved
<1>5. q \in Seq(Tasks) /\ n \in Nat /\ n <= Len(q) /\ Len(q) \in Nat
  <2>1. q \in Seq(Tasks)
    BY <1>1 DEF GpShape
  <2>2. Len(q) \in Nat
    BY <2>1, LenProperties
  <2> QED
    BY <2>1, <2>2, GpAssumption DEF MinOf
<1> HIDE DEF q, n
<1>6. /\ Range(a) \subseteq Range(q) /\ Len(b) = Len(q) - n
      /\ gp.ndispatchings \in Int
  <2>1. Range(a) \subseteq Range(q)
    BY <1>5, SplitSeq
  <2>2. Len(b) = Len(q) - n
    BY <1>5
  <2> QED
    BY <1>1, <2>1, <2>2 DEF GpShape
<1> HIDE DEF a, b, T
<1>7. /\ gp'.entry = gp.entry /\ gp'.npendings = gp.npendings
      /\ gp'.effective = gp.effective /\ gp'.order = gp.order /\ gp'.stat = gp.stat
      /\ gp'.gid = gp.gid /\ gp'.wpending = gp.wpending
      /\ gp'.ndispatchings = gp.ndispatchings + n
      /\ gp'.dispatch_q = b /\ gp'.spinning = gp.spinning
  BY <1>1, <1>4 DEF GpShape
<1>8. SumSound(gp') /\ OrderSound(gp')
  BY <1>1, <1>7 DEF SumSound, Loads, Parts, OrderSound
<1>9. DispSound(gp')
  <2>1. gp'.ndispatchings + Len(gp'.dispatch_q) = gp.ndispatchings + Len(gp.dispatch_q)
    BY <1>5, <1>6, <1>7 DEF q
  <2> QED
    BY <1>1, <1>7, <2>1, DispSame
<1>10. /\ run'[th].q = a /\ ~run'[th].normal
       /\ run'[th].detached = run[th].detached /\ run'[th].leaving = run[th].leaving
       /\ RunsOn(run, run', th)
  BY <1>1, <1>3 DEF RunsOn, RunType
<1>11. RunSound(gp', run')
  <2>1. \A t \in Range(a) : gp.stat[t] = "dispatching"
    BY <1>1, <1>6 DEF TaskSound, q
  <2> QED
    BY <1>1, <1>7, <1>10, <2>1 DEF RunSound, RunsOn
<1>12. NrSound(gp', run')
  <2>1. \A x \in Threads : x \in Runners
    BY DEF Runners
  <2>2. \A h \in Ids : RanOf(gp', run', h) = RanOf(gp, run, h)
    BY <1>2, <1>7, <1>10, <2>1 DEF RanOf, RunsOn
  <2> QED
    BY <1>1, <1>7, <2>2 DEF NrSound
<1>13. Quiet(gp')
  BY <1>1, <1>7 DEF Quiet, Removable
<1> QED
  BY <1>1, <1>7, <1>8, <1>9, <1>11, <1>12, <1>13 DEF Counted, Sums

\* The task t is counted no more among those that are run, if x ran it, or among
\* those that are dispatched.
Uncounted(s, b, x, t) ==
    /\ PoolSound(b) /\ SameTasks(s, b) /\ SameGroups(s, b) /\ SumSound(b)
    /\ b.order = s.order /\ b.spinning = s.spinning
    /\ b.ndispatchings = s.ndispatchings - (IF x.normal THEN 0 ELSE 1)
    /\ \A g \in Ids :
            /\ b.entry[g].nrunnings = s.entry[g].nrunnings
                    - (IF x.normal /\ g = s.gid[t] THEN 1 ELSE 0)
            /\ b.entry[g].ndispatchings = s.entry[g].ndispatchings
                    - (IF ~x.normal /\ g = s.gid[t] THEN 1 ELSE 0)

\* A thread, or a user, is done with the task t that it ran or dispatched.
LEMMA EndCounts ==
  ASSUME NEW s, NEW h, Held(s, h), Counted(s, h), NEW r \in Runners, h[r].q # <<>>,
         NEW t, t = h[r].q[1], NEW b, Uncounted(s, b, h[r], t),
         NEW p, p = DoneWith(b, t),
         NEW k, k = [h EXCEPT ![r].q = Tail(@), ![r].detached = FALSE]
  PROVE  Counted(p, k)
<1>1. /\ s \in GpShape /\ PoolSound(s) /\ TaskSound(s)
      /\ h[r] \in RunType /\ h \in [Runners -> RunType] /\ HandSound(s, h)
      /\ OrderSound(s) /\ DispSound(s) /\ RunSound(s, h)
      /\ NrSound(s, h) /\ Quiet(s) /\ ~s.spinning
  BY DEF Held, PoolSound, Counted, Sums
<1>2. ~h[r].detached /\ h[r].leaving = NoTask
  BY <1>1 DEF RunSound
<1>3. /\ t \in Tasks /\ t \in Live(h[r])
      /\ s.stat[t] \in {"scheduling", "dispatching"} /\ t \notin Range(s.dispatch_q)
      /\ Range(Tail(h[r].q)) = Live(h[r]) \ {t}
      /\ \A x \in Runners : x # r => t \notin Live(h[x])
  BY <1>2, HandFirst
<1>4. s.stat[t] = IF h[r].normal THEN "scheduling" ELSE "dispatching"
  <2>1. t \in Range(h[r].q)
    BY <1>2, <1>3 DEF Live
  <2> QED
    BY <1>1, <2>1 DEF RunSound
<1>5. /\ b.stat = s.stat /\ b.wpending = s.wpending /\ b.gid = s.gid
      /\ b.dispatch_q = s.dispatch_q /\ b.order = s.order /\ b.spinning = s.spinning
      /\ PoolSound(b) /\ SumSound(b) /\ SameGroups(s, b)
      /\ b.ndispatchings = s.ndispatchings - (IF h[r].normal THEN 0 ELSE 1)
      /\ \A g \in Ids :
            /\ b.entry[g].nrunnings = s.entry[g].nrunnings
                    - (IF h[r].normal /\ g = s.gid[t] THEN 1 ELSE 0)
            /\ b.entry[g].ndispatchings = s.entry[g].ndispatchings
                    - (IF ~h[r].normal /\ g = s.gid[t] THEN 1 ELSE 0)
  BY DEF SameTasks, Uncounted
<1>6. OrderSound(b)
  BY <1>1, <1>5 DEF OrderSound
<1>7. SumSound(p) /\ SameRuns(b, p) /\ OrderSound(p)
  BY <1>3, <1>5, <1>6, DoneWithCounts
<1>8. /\ SameGroups(b, p)
      /\ p.stat = [s.stat EXCEPT ![t] = IF t \in s.wpending THEN "waiting" ELSE "idle"]
      /\ p.gid = s.gid /\ p.wpending = s.wpending \ {t} /\ p.dispatch_q = s.dispatch_q
  <2>1. PoolSound(b) /\ b.stat[t] \in {"scheduling", "dispatching"}
        /\ t \notin Range(b.dispatch_q) /\ t \in Tasks
    BY <1>3, <1>5
  <2>2. /\ SameGroups(b, p)
        /\ p.stat = [b.stat EXCEPT ![t] = IF t \in b.wpending THEN "waiting" ELSE "idle"]
        /\ p.gid = b.gid /\ p.wpending = b.wpending \ {t} /\ p.dispatch_q = b.dispatch_q
    BY <2>1, DoneWithKeeps
  <2> QED
    BY <1>5, <2>2
<1>9. /\ p.stat[t] \in {"waiting", "idle"} /\ (p.stat[t] = "waiting" => t \in s.wpending)
      /\ \A u \in Tasks : u # t => p.stat[u] = s.stat[u]
  BY <1>1, <1>3, <1>8 DEF GpShape
<1>10. /\ s.gid[t] \in Ids /\ s.ndispatchings \in Int /\ Len(s.dispatch_q) \in Int
       /\ \A g \in Ids : s.entry[g].ndispatchings \in Int /\ s.entry[g].nrunnings \in Int
  <2>1. s.gid[t] \in Ids /\ s.dispatch_q \in Seq(Tasks)
    BY <1>1, <1>3 DEF GpShape
  <2>2. \A g \in Ids : /\ s.entry[g].ndispatchings \in Int /\ s.entry[g].nrunnings \in Int
                        /\ s.ndispatchings \in Int
    BY <1>1, NumbersIn, EntryIn
  <2>3. Len(s.dispatch_q) \in Int
    BY <2>1, LenIn
  <2> QED
    BY <2>1, <2>2, <2>3
<1>11. /\ p.ndispatchings = b.ndispatchings /\ p.spinning = b.spinning
       /\ \A g \in Ids : /\ p.entry[g].nrunnings = b.entry[g].nrunnings
                         /\ p.entry[g].ndispatchings = b.entry[g].ndispatchings
  BY <1>7 DEF SameRuns, SameRest
<1>12. DispSound(p)
  <2>1. CASE h[r].normal
    <3>1. \A u \in Tasks : p.stat[u] = "dispatching" <=> s.stat[u] = "dispatching"
      BY <1>4, <1>9, <2>1
    <3>2. /\ p.ndispatchings + Len(p.dispatch_q) = s.ndispatchings + Len(s.dispatch_q)
          /\ \A g \in Ids : p.entry[g].ndispatchings = s.entry[g].ndispatchings
      <4>0. /\ b.ndispatchings = s.ndispatchings - 0
            /\ \A g \in Ids : b.entry[g].ndispatchings = s.entry[g].ndispatchings - 0
        BY <1>5, <2>1, ZenonT(40)
      <4>1. p.ndispatchings = s.ndispatchings /\ p.dispatch_q = s.dispatch_q
        BY <1>8, <1>10, <1>11, <4>0
      <4>2. \A g \in Ids : p.entry[g].ndispatchings = s.entry[g].ndispatchings
        <5>1. \A g \in Ids : b.entry[g].ndispatchings = s.entry[g].ndispatchings
          BY <1>10, <4>0
        <5> QED
          BY <1>11, <5>1
      <4> QED
        BY <4>1, <4>2
    <3> QED
      BY <1>1, <1>8, <3>1, <3>2, DispSame
  <2>2. CASE ~h[r].normal
    <3>1. s.stat[t] = "dispatching" /\ p.stat[t] # "dispatching"
      BY <1>4, <1>9, <2>2
    <3>2. /\ p.ndispatchings + Len(p.dispatch_q) =
                        (s.ndispatchings + Len(s.dispatch_q)) - 1
          /\ \A g \in Ids : p.entry[g].ndispatchings = s.entry[g].ndispatchings
                                - (IF g = s.gid[t] THEN 1 ELSE 0)
      <4>1. p.ndispatchings = s.ndispatchings - 1 /\ p.dispatch_q = s.dispatch_q
        BY <1>5, <1>8, <1>11, <2>2
      <4>2. p.ndispatchings + Len(p.dispatch_q) =
                        (s.ndispatchings + Len(s.dispatch_q)) - 1
        BY <1>10, <4>1
      <4>3. \A g \in Ids : p.entry[g].ndispatchings = s.entry[g].ndispatchings
                                - (IF g = s.gid[t] THEN 1 ELSE 0)
        BY <1>5, <1>11, <2>2
      <4> QED
        BY <4>2, <4>3
    <3>3. /\ DispSound(s) /\ t \in Tasks /\ s.gid[t] \in Ids /\ p.gid = s.gid
          /\ \A u \in Tasks : u # t => p.stat[u] = s.stat[u]
      BY <1>1, <1>3, <1>8, <1>9, <1>10
    <3> QED
      BY <3>1, <3>2, <3>3, DispLess
  <2> QED
    BY <2>1, <2>2
<1>13. /\ k[r].q = Tail(h[r].q) /\ k[r].normal = h[r].normal /\ ~k[r].detached
       /\ k[r].leaving = h[r].leaving /\ RunsOn(h, k, r)
  BY <1>1 DEF RunsOn, RunType
<1>14. ASSUME NEW x \in Runners, NEW u \in Range(k[x].q)
       PROVE  u \in Range(h[x].q) /\ p.stat[u] = s.stat[u]
  <2>1. u \in Live(h[x]) /\ u # t
    <3>1. CASE x = r
      BY <1>3, <1>13, <1>14, <3>1
    <3>2. CASE x # r
      <4>1. k[x].q = h[x].q /\ ~h[x].detached
        BY <1>1, <1>13, <3>2 DEF RunsOn, RunSound
      <4>2. u \in Live(h[x])
        BY <1>14, <4>1 DEF Live
      <4> QED
        BY <1>3, <3>2, <4>2
    <3> QED
      BY <3>1, <3>2
  <2>2. u \in Tasks
    BY <1>1, <2>1, LiveIn
  <2>3. u \in Range(h[x].q)
    BY <1>1, <2>1 DEF Live, RunSound
  <2> QED
    BY <1>9, <2>1, <2>2, <2>3
<1>15. \A x \in Runners : k[x].q # <<>> => k[x].q[1] \in Range(k[x].q)
  <2> TAKE x \in Runners
  <2>1. h[x].q \in Seq(Tasks)
    BY <1>1 DEF RunType
  <2>2. h[x].q # <<>> => Tail(h[x].q) \in Seq(Tasks)
    BY <2>1, TailIsOneLess DEF OneMore
  <2>3. k[x].q \in Seq(Tasks)
    <3>1. CASE x = r
      BY <1>13, <2>2, <3>1
    <3>2. CASE x # r
      BY <1>13, <2>1, <3>2 DEF RunsOn
    <3> QED
      BY <3>1, <3>2
  <2> HAVE k[x].q # <<>>
  <2>4. OneMore(Tail(k[x].q), k[x].q[1], k[x].q)
    BY <2>3, TailIsOneLess
  <2> QED
    BY <2>4 DEF OneMore
<1>16. h[r].normal => k[r].q = <<>>
  <2>1. h[r].q \in Seq(Tasks)
    BY <1>1 DEF RunType
  <2>2. h[r].normal => Len(h[r].q) = 1
    BY <1>1 DEF RunSound
  <2>3. Len(h[r].q) = 1 => Tail(h[r].q) = <<>>
    BY <2>1, TailOfOne
  <2> QED
    BY <1>13, <2>2, <2>3
<1>17. RunSound(p, k)
  <2> SUFFICES ASSUME NEW x \in Runners
               PROVE  /\ ~k[x].detached /\ k[x].leaving = NoTask
                      /\ k[x].normal => x \in Threads
                      /\ k[x].normal /\ k[x].q # <<>> =>
                            Len(k[x].q) = 1 /\ p.stat[k[x].q[1]] = "scheduling"
                      /\ ~k[x].normal => \A u \in Range(k[x].q) : p.stat[u] = "dispatching"
    BY DEF RunSound
  <2>1. ~k[x].normal => \A u \in Range(k[x].q) : p.stat[u] = "dispatching"
    <3>1. k[x].normal = h[x].normal
      BY <1>13 DEF RunsOn
    <3>2. ~h[x].normal => \A u \in Range(h[x].q) : s.stat[u] = "dispatching"
      BY <1>1 DEF RunSound
    <3> QED
      BY <1>14, <3>1, <3>2
  <2>2. k[x].normal /\ k[x].q # <<>> =>
                            Len(k[x].q) = 1 /\ p.stat[k[x].q[1]] = "scheduling"
    <3>1. CASE x = r
      BY <1>13, <1>16, <3>1
    <3>2. CASE x # r
      <4>1. k[x].normal = h[x].normal /\ k[x].q = h[x].q
        BY <1>13, <3>2 DEF RunsOn
      <4>2. h[x].normal /\ h[x].q # <<>> =>
                Len(h[x].q) = 1 /\ s.stat[h[x].q[1]] = "scheduling"
        BY <1>1 DEF RunSound
      <4>3. k[x].q # <<>> => p.stat[k[x].q[1]] = s.stat[k[x].q[1]]
        BY <1>14, <1>15
      <4> QED
        BY <4>1, <4>2, <4>3
    <3> QED
      BY <3>1, <3>2
  <2>3. ~k[x].detached /\ k[x].leaving = NoTask /\ (k[x].normal => x \in Threads)
    <3>1. /\ k[x].normal = h[x].normal /\ k[x].leaving = h[x].leaving
          /\ ~h[x].detached => ~k[x].detached
      BY <1>13 DEF RunsOn
    <3>2. ~h[x].detached /\ h[x].leaving = NoTask /\ (h[x].normal => x \in Threads)
      BY <1>1 DEF RunSound
    <3> QED
      BY <3>1, <3>2
  <2> QED
    BY <2>1, <2>2, <2>3
<1>18. NrSound(p, k)
  <2> SUFFICES ASSUME NEW g \in Ids
               PROVE  p.entry[g].nrunnings = Cardinality(RanOf(p, k, g))
    BY DEF NrSound
  <2>1. \A x \in Threads : x \in Runners
    BY DEF Runners
  <2>2. /\ IsFiniteSet(RanOf(s, h, g)) /\ Cardinality(RanOf(s, h, g)) \in Nat
        /\ s.entry[g].nrunnings = Cardinality(RanOf(s, h, g))
    BY <1>1, RanFinite DEF NrSound
  <2>3. \A x \in Threads : x # r => (x \in RanOf(p, k, g) <=> x \in RanOf(s, h, g))
    <3> SUFFICES ASSUME NEW x \in Threads, x # r
                 PROVE  x \in RanOf(p, k, g) <=> x \in RanOf(s, h, g)
      OBVIOUS
    <3>1. /\ k[x].normal = h[x].normal /\ k[x].q = h[x].q
          /\ k[x].detached = h[x].detached
      BY <1>13, <2>1 DEF RunsOn
    <3> QED
      BY <1>8, <3>1 DEF RanOf
  <2>4. r \notin RanOf(p, k, g)
    BY <1>13, <1>16 DEF RanOf
  <2>5. r \in RanOf(s, h, g) <=> h[r].normal /\ g = s.gid[t]
    <3>1. h[r].normal => r \in Threads
      BY <1>1 DEF RunSound
    <3> QED
      BY <1>2, <3>1 DEF RanOf
  <2>6. RanOf(p, k, g) \subseteq Threads /\ RanOf(s, h, g) \subseteq Threads
    BY DEF RanOf
  <2>7. CASE h[r].normal /\ g = s.gid[t]
    <3>1. RanOf(p, k, g) = RanOf(s, h, g) \ {r} /\ r \in RanOf(s, h, g)
      BY <2>3, <2>4, <2>5, <2>6, <2>7
    <3>2. Cardinality(RanOf(p, k, g)) = Cardinality(RanOf(s, h, g)) - 1
      BY <2>2, <3>1, FS_RemoveElement
    <3>3. p.entry[g].nrunnings = s.entry[g].nrunnings - 1
      BY <1>5, <1>11, <2>7
    <3> QED
      BY <2>2, <3>2, <3>3
  <2>8. CASE ~(h[r].normal /\ g = s.gid[t])
    <3>1. RanOf(p, k, g) = RanOf(s, h, g)
      <4>1. r \notin RanOf(s, h, g)
        BY <2>5, <2>8
      <4>2. RanOf(p, k, g) \subseteq RanOf(s, h, g)
        BY <2>3, <2>4, <2>6
      <4>3. RanOf(s, h, g) \subseteq RanOf(p, k, g)
        BY <2>3, <2>6, <4>1
      <4> QED
        BY <4>2, <4>3
    <3>2. p.entry[g].nrunnings = s.entry[g].nrunnings
      BY <1>5, <1>10, <1>11, <2>8, SMTT(30)
    <3> QED
      BY <2>2, <3>1, <3>2
  <2> QED
    BY <2>7, <2>8
<1>19. Quiet(p)
  <2>1. \A u \in Removable(p) : u \in Removable(s) /\ s.gid[u] \in Ids
    BY <1>1, <1>8, <1>9 DEF Removable, GpShape
  <2>2. \A g \in Ids : p.entry[g].used = s.entry[g].used
    BY <1>5, <1>8, ZenonT(40) DEF SameGroups
  <2> QED
    BY <1>1, <1>8, <2>1, <2>2 DEF Quiet
<1> QED
  BY <1>1, <1>5, <1>7, <1>11, <1>12, <1>17, <1>18, <1>19 DEF Counted, Sums

\* The task has no thread any more.
LEMMA ThreadCounts ==
  ASSUME NEW s, PoolSound(s), SumSound(s), NEW t \in Tasks
  PROVE  LET p == [s EXCEPT !.thread[t] = NoThread]
         IN  /\ SumSound(p) /\ SameRest(s, p) /\ p.order = s.order
             /\ p.entry = s.entry /\ p.gid = s.gid
<1> DEFINE p == [s EXCEPT !.thread[t] = NoThread]
<1>1. s \in GpShape
  BY DEF PoolSound
<1>2. /\ p.entry = s.entry /\ p.npendings = s.npendings /\ p.effective = s.effective
      /\ p.order = s.order /\ p.gid = s.gid /\ SameRest(s, p)
  BY <1>1 DEF GpShape, SameRest
<1> HIDE DEF p
<1>3. SumSound(p)
  BY <1>2 DEF SumSound, Loads, Parts
<1> QED
  BY <1>2, <1>3 DEF p

LEMMA FinishedCounts ==
  ASSUME Held(gp, run), Counted(gp, run), NEW th \in Threads, Finished(th)
  PROVE  Counted(gp', run')
<1> DEFINE t == run[th].q[1]
           s == [gp EXCEPT !.thread[t] = NoThread]
           b == IF run[th].normal THEN Ran(s, t) ELSE Dispatched(s, t)
<1>1. /\ th \in Runners /\ run[th].q # <<>> /\ run[th].leaving = NoTask
      /\ run' = [run EXCEPT ![th].q = Tail(@), ![th].detached = FALSE]
  BY DEF Finished, NextInQ, Runners
<1>2. ~run[th].detached /\ PoolSound(gp) /\ SumSound(gp)
  BY <1>1 DEF Counted, RunSound, Held, Sums
<1>3. gp' = DoneWith(b, t)
  BY <1>2 DEF Finished
<1>4. t \in Tasks
  BY <1>1, <1>2, HandFirst
<1>5. PoolSound(s) /\ SameTasks(gp, s) /\ SameGroups(gp, s)
  BY <1>2, <1>4, ThreadKeeps
<1>6. SumSound(s) /\ SameRest(gp, s) /\ s.order = gp.order /\ s.entry = gp.entry
      /\ s.gid = gp.gid
  BY <1>2, <1>4, ThreadCounts
<1> HIDE DEF s
<1>7. b \in GpShape /\ Listed(s, b)
  BY <1>4, <1>5, RanListed, DispatchedListed DEF PoolSound
<1>8. /\ SumSound(b) /\ b.order = gp.order /\ b.spinning = gp.spinning
      /\ b.ndispatchings = gp.ndispatchings - (IF run[th].normal THEN 0 ELSE 1)
      /\ \A g \in Ids :
            /\ b.entry[g].nrunnings = gp.entry[g].nrunnings
                    - (IF run[th].normal /\ g = gp.gid[t] THEN 1 ELSE 0)
            /\ b.entry[g].ndispatchings = gp.entry[g].ndispatchings
                    - (IF ~run[th].normal /\ g = gp.gid[t] THEN 1 ELSE 0)
  <2>0. /\ gp.ndispatchings \in Int
        /\ \A g \in Ids : gp.entry[g].nrunnings \in Int /\ gp.entry[g].ndispatchings \in Int
    BY <1>2, NumbersIn, EntryIn, IdsFinite DEF PoolSound
  <2>1. CASE run[th].normal
    <3>1. b = Ran(s, t)
      BY <2>1
    <3> HIDE DEF b, t
    <3>2. /\ SumSound(b) /\ b.order = s.order /\ SameRest(s, b)
          /\ \A g \in Ids : /\ b.entry[g].nrunnings = s.entry[g].nrunnings
                                    - (IF g = s.gid[t] THEN 1 ELSE 0)
                            /\ b.entry[g].ndispatchings = s.entry[g].ndispatchings
      BY <1>4, <1>5, <1>6, <3>1, RanCounts
    <3> QED
      BY <1>6, <2>0, <2>1, <3>2 DEF SameRest
  <2>2. CASE ~run[th].normal
    <3>1. b = Dispatched(s, t)
      BY <2>2
    <3> HIDE DEF b, t
    <3>2. /\ SumSound(b) /\ b.order = s.order /\ b.spinning = s.spinning
          /\ b.ndispatchings = s.ndispatchings - 1
          /\ \A g \in Ids : /\ b.entry[g].nrunnings = s.entry[g].nrunnings
                            /\ b.entry[g].ndispatchings = s.entry[g].ndispatchings
                                    - (IF g = s.gid[t] THEN 1 ELSE 0)
      BY <1>4, <1>5, <1>6, <3>1, DispatchedCounts
    <3> QED
      BY <1>6, <2>0, <2>2, <3>2 DEF SameRest
  <2> QED
    BY <2>1, <2>2
<1> HIDE DEF b
<1>9. PoolSound(b) /\ SameTasks(gp, b) /\ SameGroups(gp, b)
  BY <1>5, <1>7, ListedKeeps, SameTrans
<1>10. Uncounted(gp, b, run[th], t)
  BY <1>8, <1>9 DEF Uncounted
<1>11. t = run[th].q[1]
  OBVIOUS
<1> HIDE DEF t
<1> QED
  BY <1>1, <1>3, <1>10, <1>11, EndCounts

LEMMA DispatchNextCounts ==
  ASSUME Held(gp, run), Counted(gp, run), NEW u \in Users, DispatchNext(u)
  PROVE  Counted(gp', run')
<1> DEFINE t == run[u].q[1]
           b == Dispatched(gp, t)
<1>1. /\ u \in Runners /\ run[u].q # <<>> /\ run[u].leaving = NoTask
      /\ run' = [run EXCEPT ![u].q = Tail(@), ![u].detached = FALSE]
  BY DEF DispatchNext, NextInQ, Runners
<1>2. ~run[u].detached /\ ~run[u].normal /\ PoolSound(gp) /\ SumSound(gp)
  BY <1>1, GpAssumption DEF Counted, RunSound, Held, Sums
<1>3. gp' = DoneWith(b, t)
  BY <1>2 DEF DispatchNext
<1>4. t \in Tasks
  BY <1>1, <1>2, HandFirst
<1>5. b \in GpShape /\ Listed(gp, b)
  BY <1>2, <1>4, DispatchedListed DEF PoolSound
<1>6. /\ SumSound(b) /\ b.order = gp.order /\ b.spinning = gp.spinning
      /\ b.ndispatchings = gp.ndispatchings - 1
      /\ \A g \in Ids : /\ b.entry[g].nrunnings = gp.entry[g].nrunnings
                        /\ b.entry[g].ndispatchings = gp.entry[g].ndispatchings
                                - (IF g = gp.gid[t] THEN 1 ELSE 0)
  <2> HIDE DEF t
  <2> QED
    BY <1>2, <1>4, DispatchedCounts
<1> HIDE DEF b
<1>7. PoolSound(b) /\ SameTasks(gp, b) /\ SameGroups(gp, b)
  BY <1>2, <1>5, ListedKeeps
<1>8. /\ b.ndispatchings = gp.ndispatchings - (IF run[u].normal THEN 0 ELSE 1)
      /\ \A g \in Ids :
            /\ b.entry[g].nrunnings = gp.entry[g].nrunnings
                    - (IF run[u].normal /\ g = gp.gid[t] THEN 1 ELSE 0)
            /\ b.entry[g].ndispatchings = gp.entry[g].ndispatchings
                    - (IF ~run[u].normal /\ g = gp.gid[t] THEN 1 ELSE 0)
  <2>1. \A g \in Ids : gp.entry[g].nrunnings \in Int
    BY <1>2, NumbersIn DEF PoolSound
  <2> HIDE DEF t
  <2> QED
    BY <1>2, <1>6, <2>1
<1>9. Uncounted(gp, b, run[u], t)
  BY <1>6, <1>7, <1>8 DEF Uncounted
<1>10. t = run[u].q[1]
  OBVIOUS
<1> HIDE DEF t
<1> QED
  BY <1>1, <1>3, <1>9, <1>10, EndCounts

-----------------------------------------------------------------------------
(***************************************************************************)
(* Every step keeps the invariant                                          *)
(***************************************************************************)

\* The pool begins with nothing to count.
LEMMA EmptyCounts ==
  ASSUME GpInit
  PROVE  Counted(gp, run)
<1>1. PICK b : /\ PoolSound(b) /\ 0 \in Free(b) /\ gp = Created(b, 0, FALSE)
               /\ b.stat = [t \in Tasks |-> "idle"] /\ b.wpending = {}
               /\ b.dispatch_q = <<>> /\ b.order = <<>>
               /\ b.npendings = 0 /\ b.effective = 0 /\ b.ndispatchings = 0
               /\ ~b.spinning /\ \A g \in Ids : Unused(b.entry[g])
  BY EmptyTable
<1>2. b \in GpShape
  BY <1>1 DEF PoolSound
<1>3. \A g \in Ids : /\ Load(b.entry[g]) = 0 /\ Part(b.entry[g]) = 0
                     /\ EntryCount(b.entry[g])
  BY <1>1 DEF Unused, Load, Part, Num, Share, EntryCount, EffOf
<1>4. SumSound(b)
  <2>1. \A f \in [Ids -> Int] : (\A g \in Ids : f[g] = 0) => SumFunctionOnSet(f, Ids) = 0
    <3> SUFFICES ASSUME NEW f \in [Ids -> Int], \A g \in Ids : f[g] = 0
                 PROVE  SumFunctionOnSet(f, Ids) = 0
      OBVIOUS
    <3>1. f \in [Ids -> Nat]
      OBVIOUS
    <3> QED
      BY <3>1, IdsFinite, SumOfNats
  <2>2. Loads(b) \in [Ids -> Int] /\ Parts(b) \in [Ids -> Int]
    BY <1>2, LoadsIn
  <2>3. \A g \in Ids : Loads(b)[g] = 0 /\ Parts(b)[g] = 0
    BY <1>3 DEF Loads, Parts
  <2>4. SumFunctionOnSet(Loads(b), Ids) = 0 /\ SumFunctionOnSet(Parts(b), Ids) = 0
    BY <2>1, <2>2, <2>3
  <2> QED
    BY <1>1, <1>3, <2>4 DEF SumSound
<1>5. SumSound(gp) /\ SameHands(b, gp) /\ gp.order = <<>>
  BY <1>1, <1>4, CreatedCounts
<1>6. /\ SameTasks(b, gp) /\ PoolSound(gp)
  BY <1>1, CreatedKeeps
<1>7. /\ gp.stat = [t \in Tasks |-> "idle"] /\ gp.wpending = {} /\ gp.dispatch_q = <<>>
      /\ gp.ndispatchings = 0 /\ ~gp.spinning
      /\ \A g \in Ids : gp.entry[g].nrunnings = 0 /\ gp.entry[g].ndispatchings = 0
  BY <1>1, <1>5, <1>6 DEF SameTasks, SameHands, SameRest, Unused
<1>8. \A r \in Runners : /\ run[r].q = <<>> /\ ~run[r].normal /\ ~run[r].detached
                         /\ run[r].leaving = NoTask
  BY DEF GpInit
<1>9. Range(<<>>) = {} /\ Once(<<>>) /\ Len(<<>>) = 0 /\ Cardinality({}) = 0
  BY FS_EmptySet DEF Range, Once
<1>10. OrderSound(gp)
  BY <1>5, <1>7, <1>9 DEF OrderSound
<1>11. DispSound(gp)
  <2>1. Disp(gp) = {} /\ \A g \in Ids : DispOf(gp, g) = {}
    BY <1>7 DEF Disp, DispOf
  <2>2. gp.ndispatchings + Len(gp.dispatch_q) = 0
    BY <1>7, <1>9
  <2> QED
    BY <1>7, <1>9, <2>1, <2>2 DEF DispSound
<1>12. RunSound(gp, run)
  BY <1>8, <1>9 DEF RunSound
<1>13. NrSound(gp, run)
  <2>1. \A g \in Ids : RanOf(gp, run, g) = {}
    BY <1>8 DEF RanOf, Runners
  <2> QED
    BY <1>7, <1>9, <2>1 DEF NrSound
<1>14. Quiet(gp)
  BY <1>7 DEF Quiet, Removable
<1> QED
  BY <1>5, <1>7, <1>10, <1>11, <1>12, <1>13, <1>14 DEF Counted, Sums

\* Each step keeps the counts, if groups with a limit rest while their limits change.
LEMMA CountedStep ==
  ASSUME TRUE \notin Suspended, {"resume", "setattr", "threads"} \subseteq Careful,
         Held(gp, run), Counted(gp, run), [GpNext]_gpvars
  PROVE  Counted(gp', run')
<1>1. ASSUME NEW th \in Threads, Serve(th)
      PROVE  Counted(gp', run')
  BY <1>1, TakeCounts, TakeRemovedCounts, FinishedCounts DEF Serve
<1>2. ASSUME NEW u \in Users, UserStep(u)
      PROVE  Counted(gp', run')
  <2>1. CASE DispatchNext(u)
    BY <2>1, DispatchNextCounts
  <2>2. CASE \/ \E t \in Tasks, bypool \in BOOLEAN : RemoveTask(u, t, bypool)
             \/ \E bypool \in BOOLEAN : MarkCb(u, bypool)
             \/ \E g \in Ids, bypool \in BOOLEAN : EntryMarkCb(u, g, bypool)
    BY <2>2, UserRemovesCounts
  <2>3. ASSUME NEW g \in Ids, DeleteGroup(u, g)
        PROVE  Counted(gp', run')
    BY <2>3, DeleteGroupCounts
  <2>4. CASE GroupFreed(u)
    BY <2>4, GroupFreedCounts
  <2> QED
    BY <1>2, <2>1, <2>2, <2>3, <2>4 DEF UserStep
<1>3. CASE GroupCall
  <2>0. "resume" \in Careful /\ "setattr" \in Careful /\ "threads" \in Careful
    OBVIOUS
  <2>1. ASSUME NEW t \in Tasks, NEW g \in Ids, Queue(t, g)
        PROVE  Counted(gp', run')
    BY <2>1, QueueCounts
  <2>2. ASSUME NEW g \in Ids, NEW suspend \in Suspended, CreateGroup(g, suspend)
        PROVE  Counted(gp', run')
    <3>1. suspend = FALSE
      BY GpAssumption
    <3> QED
      BY <2>2, <3>1, CreateGroupCounts
  <2>3. ASSUME NEW g \in Ids, SuspendGroup(g) \/ ResumeGroup(g)
        PROVE  Counted(gp', run')
    BY <2>0, <2>3, SuspendGroupCounts
  <2>4. CASE SuspendAllGroups \/ ResumeAllGroups
    BY <2>0, <2>4, SuspendAllCounts
  <2>5. ASSUME NEW g \in Ids, NEW attr \in Attrs, SetAttributes(g, attr)
        PROVE  Counted(gp', run')
    BY <2>0, <2>5, SetAttributesCounts
  <2>6. ASSUME NEW max \in MaxThreads, SetThreads(max)
        PROVE  Counted(gp', run')
    BY <2>0, <2>6, SetThreadsCounts
  <2> QED
    BY <1>3, <2>1, <2>2, <2>3, <2>4, <2>5, <2>6 DEF GroupCall
<1>4. CASE UNCHANGED gpvars
  BY <1>4 DEF gpvars
<1> QED
  BY <1>1, <1>2, <1>3, <1>4 DEF GpNext

-----------------------------------------------------------------------------
(***************************************************************************)
(* What the invariant shows                                                *)
(***************************************************************************)

\* A queue in which each task is once is as long as its tasks are many.
LEMMA OnceCount ==
  ASSUME NEW q \in Seq(Tasks), Once(q)
  PROVE  IsFiniteSet(Range(q)) /\ Cardinality(Range(q)) = Len(q)
<1> DEFINE I == 1 .. Len(q)
           F == Range(q)
<1>1. Len(q) \in Nat /\ DOMAIN q = I /\ q \in [I -> Tasks]
  BY LenProperties
<1>2. IsFiniteSet(I) /\ Cardinality(I) = Len(q)
  <2>1. Cardinality(I) = IF 1 > Len(q) THEN 0 ELSE Len(q) - 1 + 1
    BY <1>1, FS_Interval
  <2>2. IsFiniteSet(I)
    BY <1>1, FS_Interval
  <2> QED
    BY <1>1, <2>1, <2>2
<1>3. F = {q[i] : i \in I}
  BY <1>1 DEF Range
<1>4. \A i, j \in I : q[i] = q[j] => i = j
  BY DEF Once
<1> HIDE DEF I, F
<1>5. q \in Bijection(I, F)
  <2>1. q \in [I -> F]
    BY <1>1, <1>3
  <2>2. \A x \in F : \E i \in I : q[i] = x
    BY <1>3
  <2> QED
    BY <1>4, <2>1, <2>2, Fun_IsBij, Zenon
<1>6. Cardinality(I) = Cardinality(F) /\ IsFiniteSet(F)
  BY <1>2, <1>5, FS_Bijection DEF ExistsBijection
<1> QED
  BY <1>2, <1>6 DEF F

\* All counters are numbers of something: none of them is ever negative.
LEMMA CountedTyped ==
  ASSUME Held(gp, run), Counted(gp, run)
  PROVE  GpTypeOK
<1>1. /\ gp \in GpShape /\ TaskSound(gp) /\ ListSound(gp) /\ SumSound(gp)
      /\ DispSound(gp) /\ NrSound(gp, run) /\ run \in [Runners -> RunType]
  BY DEF Held, PoolSound, GroupSound, Counted, Sums
<1>2. gp.entry \in [Ids -> Entries]
  <2> SUFFICES ASSUME NEW g \in Ids PROVE gp.entry[g] \in Entries
    BY <1>1 DEF GpShape
  <2>1. gp.entry[g] \in EntryShape
    BY <1>1, NumbersIn
  <2>2. gp.entry[g].limit_tasks \in Nat
    BY <1>1 DEF SumSound, EntryCount
  <2>3. gp.entry[g].npendings_eff \in Nat
    BY <1>1, SumsBound
  <2>4. gp.entry[g].nrunnings \in Nat
    BY <1>1, RanFinite DEF NrSound
  <2>5. gp.entry[g].ndispatchings \in Nat
    BY <1>1, DispFinite DEF DispSound
  <2> QED
    BY <2>1, <2>2, <2>3, <2>4, <2>5 DEF EntryShape, Entries
<1>3. gp.num \in Nat /\ gp.active_idx \in Nat /\ gp.nactives_ok \in Nat
  <2>1. MaxNum \in Nat /\ gp.num \in 0 .. MaxNum /\ gp.active_idx \in 0 .. MaxNum
    BY <1>1, IdsFinite DEF GpShape, ListSound
  <2>2. Cardinality(Actives(gp)) \in Nat
    <3>1. Actives(gp) \subseteq Ids
      BY DEF Actives
    <3> QED
      BY <3>1, IdsFinite, FS_Subset, FS_CardinalityType
  <2> QED
    BY <1>1, <2>1, <2>2 DEF ListSound
<1>4. gp.npendings \in Nat /\ gp.effective \in Nat
  BY <1>1, SumsBound
<1>5. gp.ndispatchings \in Nat
  <2>1. gp.dispatch_q \in Seq(Tasks) /\ gp.ndispatchings \in Int
    BY <1>1 DEF GpShape
  <2>2. Once(gp.dispatch_q) /\ Range(gp.dispatch_q) \subseteq Disp(gp)
    <3>1. Range(gp.dispatch_q) \subseteq Tasks
      BY <2>1, RangeOfSeq DEF Range
    <3> QED
      BY <1>1, <3>1 DEF TaskSound, Disp
  <2>3. IsFiniteSet(Range(gp.dispatch_q)) /\ Cardinality(Range(gp.dispatch_q)) = Len(gp.dispatch_q)
    BY <2>1, <2>2, OnceCount
  <2>4. IsFiniteSet(Disp(gp)) /\ Cardinality(Disp(gp)) \in Nat
    BY DispFinite
  <2>5. Cardinality(Range(gp.dispatch_q)) <= Cardinality(Disp(gp))
    BY <2>2, <2>4, FS_Subset
  <2>6. Len(gp.dispatch_q) \in Nat
    BY <2>1, LenIn
  <2>7. gp.ndispatchings + Len(gp.dispatch_q) = Cardinality(Disp(gp))
    BY <1>1 DEF DispSound
  <2> QED
    BY <2>1, <2>3, <2>4, <2>5, <2>6, <2>7
<1>6. gp \in GpType
  BY <1>1, <1>2, <1>3, <1>4, <1>5 DEF GpShape, GpType
<1> QED
  BY <1>1, <1>6 DEF GpTypeOK

\* The sums over all entries are those over the groups with tasks to take.
LEMMA CountedPending ==
  ASSUME Held(gp, run), Counted(gp, run)
  PROVE  PendingSums
<1> DEFINE R == ReadyGroups(gp)
           nums == [g \in Ids |-> Num(gp.entry[g])]
           shares == [g \in Ids |-> Share(gp.entry[g])]
<1>1. /\ gp \in GpShape /\ TaskSound(gp) /\ SumSound(gp)
  BY DEF Held, PoolSound, Counted, Sums
<1>2. /\ nums \in [Ids -> Int] /\ shares \in [Ids -> Int]
      /\ Loads(gp) \in [Ids -> Int] /\ Parts(gp) \in [Ids -> Int]
  BY <1>1, EntryIn, LoadsIn
<1>3. ASSUME NEW g \in R
      PROVE  /\ g \in Ids /\ Loads(gp)[g] = nums[g] /\ Parts(gp)[g] = shares[g]
             /\ ~gp.entry[g].paused
  BY <1>3 DEF Loads, Parts, Load, Part, ReadyGroups, Ready
<1>4. ASSUME NEW g \in Ids \ R
      PROVE  Loads(gp)[g] = 0 /\ Parts(gp)[g] = 0
  <2> DEFINE e == gp.entry[g]
  <2>1. Loads(gp)[g] = Load(e) /\ Parts(gp)[g] = Part(e)
    BY DEF Loads, Parts
  <2>2. CASE e.paused
    BY <2>1, <2>2 DEF Load, Part
  <2>3. CASE ~e.paused
    <3>1. e.queue = <<>>
      <4> SUFFICES ASSUME e.queue # <<>> PROVE FALSE
        OBVIOUS
      <4>1. e.queue \in Seq(Tasks)
        BY <1>1, NumbersIn
      <4>2. e.queue[1] \in Range(e.queue)
        <5>1. OneMore(Tail(e.queue), e.queue[1], e.queue)
          BY <4>1, TailIsOneLess
        <5> QED
          BY <5>1 DEF OneMore
      <4>3. PICK t \in Tasks : gp.stat[t] = "waiting" /\ gp.gid[t] = g
        BY <1>1, <4>2 DEF TaskSound
      <4>4. g < gp.num /\ e.used # "free"
        BY <1>1, <4>3 DEF TaskSound
      <4> QED
        BY <1>4, <2>3, <4>4 DEF ReadyGroups, Ready
    <3>2. Num(e) = 0
      BY <1>1, <3>1, NumbersIn
    <3>3. e.npendings_eff = EffOf(e) /\ e.nrunnings \in Int /\ e.limit_tasks \in Int
      BY <1>1, NumbersIn DEF SumSound, EntryCount
    <3> HIDE DEF e
    <3>4. EffOf(e) = 0
      BY <3>2, <3>3 DEF EffOf, MinOf
    <3> QED
      BY <2>1, <3>2, <3>3, <3>4 DEF Load, Part, Share
  <2> QED
    BY <2>2, <2>3
<1>5. R \in SUBSET Ids
  BY DEF ReadyGroups
<1> HIDE DEF R, nums, shares
<1>6. /\ SumFunctionOnSet(nums, R) = SumFunctionOnSet(Loads(gp), Ids)
      /\ SumFunctionOnSet(shares, R) = SumFunctionOnSet(Parts(gp), Ids)
  <2>1. /\ \A x \in R : Loads(gp)[x] = nums[x]
        /\ \A x \in Ids \ R : Loads(gp)[x] = 0
    BY <1>3, <1>4
  <2>2. /\ \A x \in R : Parts(gp)[x] = shares[x]
        /\ \A x \in Ids \ R : Parts(gp)[x] = 0
    BY <1>3, <1>4
  <2>3. ASSUME NEW f \in [Ids -> Int], NEW f2 \in [Ids -> Int],
               \A x \in R : f2[x] = f[x], \A x \in Ids \ R : f2[x] = 0
        PROVE  SumFunctionOnSet(f, R) = SumFunctionOnSet(f2, Ids)
    <3>1. IsFiniteSet(Ids)
      BY IdsFinite
    <3> QED
      BY <1>5, <2>3, <3>1, SumOfPart
  <2>4. SumFunctionOnSet(nums, R) = SumFunctionOnSet(Loads(gp), Ids)
    BY <1>2, <2>1, <2>3
  <2>5. SumFunctionOnSet(shares, R) = SumFunctionOnSet(Parts(gp), Ids)
    BY <1>2, <2>2, <2>3
  <2> QED
    BY <2>4, <2>5
<1>7. \A g \in ReadyGroups(gp) : ~gp.entry[g].receive_benifits =>
         gp.entry[g].npendings_eff =
            IF gp.entry[g].nrunnings >= gp.entry[g].limit_tasks THEN 0
            ELSE MinOf(gp.entry[g].limit_tasks - gp.entry[g].nrunnings, Num(gp.entry[g]))
  <2> SUFFICES ASSUME NEW g \in ReadyGroups(gp), ~gp.entry[g].receive_benifits
               PROVE  gp.entry[g].npendings_eff =
            IF gp.entry[g].nrunnings >= gp.entry[g].limit_tasks THEN 0
            ELSE MinOf(gp.entry[g].limit_tasks - gp.entry[g].nrunnings, Num(gp.entry[g]))
    OBVIOUS
  <2>1. ~gp.entry[g].paused /\ g \in Ids
    BY <1>3 DEF R
  <2>2. gp.entry[g].npendings_eff = EffOf(gp.entry[g])
    BY <1>1, <2>1 DEF SumSound, EntryCount
  <2> QED
    BY <2>1, <2>2 DEF EffOf
<1> QED
  BY <1>1, <1>6, <1>7 DEF SumSound, PendingSums, nums, shares, R

\* What threads and users have in hand is counted.
LEMMA CountedHands ==
  ASSUME Held(gp, run), Counted(gp, run)
  PROVE  GroupCounters
<1>1. DispSound(gp) /\ NrSound(gp, run)
  BY DEF Counted, Sums
<1> QED
  BY <1>1 DEF DispSound, NrSound, GroupCounters, RanOf, DispOf, Disp, OfGroup

\* Nothing but Take makes a task that waits one that is run.
LEMMA OnlyTakes ==
  ASSUME TRUE \notin Suspended, Held(gp, run), [GpNext]_gpvars, NEW t \in Tasks,
         gp.stat[t] = "waiting", gp'.stat[t] = "scheduling"
  PROVE  \E th \in Threads : Take(th)
<1>0. gp \in GpShape /\ gp.stat \in [Tasks -> TaskStats]
  BY DEF Held, PoolSound, GpShape
<1>1. ASSUME gp'.stat = gp.stat
      PROVE  FALSE
  BY <1>1
<1>2. ASSUME NEW s, NEW X, NEW bypool, s.stat = gp.stat, MarkedFrom(s, gp', X, bypool)
      PROVE  FALSE
  BY <1>2 DEF MarkedFrom
<1>3. ASSUME NEW u, EndOf(gp, gp', u)
      PROVE  FALSE
  <2>1. t # u /\ gp'.stat = [gp.stat EXCEPT ![u] = IF u \in gp.wpending THEN "waiting"
                                                    ELSE "idle"]
    BY <1>3 DEF EndOf
  <2>2. gp'.stat[t] = gp.stat[t]
    BY <1>0, <2>1
  <2> QED
    BY <2>2
<1>4. ASSUME NEW th \in Threads, Serve(th)
      PROVE  Take(th)
  <2>1. CASE TakeRemoved(th)
    BY <1>1, <2>1, TakeRemovedHeld
  <2>2. CASE Finished(th)
    BY <1>1, <1>3, <2>2, FinishedHeld
  <2> QED
    BY <1>4, <2>1, <2>2 DEF Serve
<1>5. ASSUME NEW u \in Users, UserStep(u)
      PROVE  FALSE
  <2>0. u \in Runners
    BY DEF Runners
  <2>1. CASE DispatchNext(u)
    BY <1>1, <1>3, <2>1, DispatchNextHeld
  <2>2. CASE \/ \E v \in Tasks, bypool \in BOOLEAN : RemoveTask(u, v, bypool)
             \/ \E bypool \in BOOLEAN : MarkCb(u, bypool)
             \/ \E g \in Ids, bypool \in BOOLEAN : EntryMarkCb(u, g, bypool)
    <3>1. PICK X \in SUBSET Tasks, bypool \in BOOLEAN :
                IdleUser(u) /\ RemoveThese(u, X, bypool)
      BY <2>2 DEF RemoveTask, MarkCb, EntryMarkCb, Removable
    <3>2. MarkedFrom(gp, gp', X, bypool)
      BY <2>0, <3>1, RemoveTheseHeld
    <3> QED
      BY <1>2, <3>2
  <2>3. ASSUME NEW g \in Ids, DeleteGroup(u, g)
        PROVE  FALSE
    <3>1. MarkedFrom(Deleting(gp, g), gp', Traced(gp, g), FALSE)
      BY <2>3, DeleteGroupHeld
    <3>2. Deleting(gp, g).stat = gp.stat
      BY <1>0 DEF Deleting, GpShape
    <3> QED
      BY <1>2, <3>1, <3>2
  <2>4. CASE GroupFreed(u)
    BY <1>1, <2>4, GroupFreedHeld DEF SameTasks
  <2> QED
    BY <1>5, <2>1, <2>2, <2>3, <2>4 DEF UserStep
<1>6. CASE GroupCall
  <2>1. ASSUME NEW v \in Tasks, NEW g \in Ids, Queue(v, g)
        PROVE  FALSE
    <3>1. gp.stat[v] # "waiting"
      BY <2>1 DEF Queue
    <3>2. gp'.stat[t] = gp.stat[t]
      BY <2>1, <3>1, QueueHeld DEF QueuedFrom
    <3> QED
      BY <3>2
  <2>2. ASSUME NEW g \in Ids, NEW suspend \in Suspended, CreateGroup(g, suspend)
        PROVE  FALSE
    <3>1. suspend = FALSE
      BY GpAssumption
    <3> QED
      BY <1>1, <2>2, <3>1, CreateGroupHeld DEF SameTasks
  <2>3. ASSUME NEW g \in Ids, SuspendGroup(g) \/ ResumeGroup(g)
        PROVE  FALSE
    BY <1>1, <2>3, SuspendGroupHeld DEF SameTasks
  <2>4. CASE SuspendAllGroups \/ ResumeAllGroups
    BY <1>1, <2>4, SuspendAllHeld DEF SameTasks
  <2>5. ASSUME NEW g \in Ids, NEW attr \in Attrs, SetAttributes(g, attr)
        PROVE  FALSE
    BY <1>1, <2>5, SetAttributesHeld DEF SameTasks
  <2>6. ASSUME NEW max \in MaxThreads, SetThreads(max)
        PROVE  FALSE
    BY <1>1, <2>6, SetThreadsHeld DEF SameTasks
  <2> QED
    BY <1>6, <2>1, <2>2, <2>3, <2>4, <2>5, <2>6 DEF GroupCall
<1>7. CASE UNCHANGED gpvars
  BY <1>1, <1>7 DEF gpvars
<1> QED
  BY <1>4, <1>5, <1>6, <1>7 DEF GpNext

\* The best task is the first of its group, which is not suspended.
LEMMA TakenFirst ==
  ASSUME TRUE \notin Suspended, Held(gp, run), Counted(gp, run), [GpNext]_gpvars,
         NEW t \in Tasks, gp.stat[t] = "waiting", gp'.stat[t] = "scheduling"
  PROVE  /\ ~EntryOf(gp, t).paused /\ t \in Rivals(gp)
         /\ \A u \in Rivals(gp) : u # t => Before(gp, t, u)
<1>1. PoolSound(gp) /\ OrderSound(gp)
  BY DEF Held, Counted, Sums
<1>2. PICK th \in Threads : Take(th)
  BY OnlyTakes
<1>3. t = Found(gp) /\ t \in Rivals(gp)
  BY <1>2, TakeCounts
<1>4. \A u \in Rivals(gp) : u # t => Before(gp, t, u)
  <2>1. Best(gp, t, Rivals(gp))
    BY <1>1, <1>3, FoundBest
  <2> QED
    BY <1>3, <2>1 DEF Best
<1>5. ~EntryOf(gp, t).paused
  <2>1. t \in ReadyTops(gp)
    BY <1>3 DEF Rivals
  <2> QED
    BY <1>1, <2>1, ReadyTopIs DEF EntryOf
<1> QED
  BY <1>3, <1>4, <1>5

\* The invariant holds in every state.
LEMMA CountedAlways ==
  ASSUME TRUE \notin Suspended, {"resume", "setattr", "threads"} \subseteq Careful
  PROVE  GpSpec => [](Held(gp, run) /\ Counted(gp, run))
<1>1. GpInit => Held(gp, run) /\ Counted(gp, run)
  BY EmptyHeld, EmptyCounts
<1>2. Held(gp, run) /\ Counted(gp, run) /\ [GpNext]_gpvars
        => (Held(gp, run) /\ Counted(gp, run))'
  BY GpHeld, CountedStep
<1> QED
  BY <1>1, <1>2, PTL DEF GpSpec

\* Whatever calls are made while tasks are queued, taken, removed and finished:
\* npendings and effective, by which the core wakes and creates threads, are what
\* the groups have left to take within their limits, and nrunnings and ndispatchings
\* what is in hand.  Groups with a limit are resumed or given another number of
\* threads only while they run nothing (run GpSpin shows what happens otherwise),
\* other attributes only while they have no task, and none is created suspended.
THEOREM GroupCountsAlways ==
  ASSUME TRUE \notin Suspended, {"resume", "setattr", "threads"} \subseteq Careful
  PROVE  GpSpec => []GroupCounts
<1>1. Held(gp, run) /\ Counted(gp, run) => GroupCounts
  BY CountedTyped, CountedPending, CountedHands DEF GroupCounts
<1> QED
  BY <1>1, CountedAlways, PTL

\* Under the same conditions get_pending_task, told that there are tasks, finds one:
\* no thread keeps core->mut for ever.
THEOREM NoSpinningAlways ==
  ASSUME TRUE \notin Suspended, {"resume", "setattr", "threads"} \subseteq Careful
  PROVE  GpSpec => []NoSpinning
<1>1. Held(gp, run) /\ Counted(gp, run) => NoSpinning
  BY DEF Counted, NoSpinning
<1> QED
  BY <1>1, CountedAlways, PTL

\* Under the same conditions a thread takes the task that a single queue of all
\* groups would have first, among those of groups within their limits, or else of
\* those that receive benefits, and never one of a suspended group.
THEOREM TakesFirstAlways ==
  ASSUME TRUE \notin Suspended, {"resume", "setattr", "threads"} \subseteq Careful
  PROVE  GpSpec => TakesFirst
<1> DEFINE A == \A th \in Threads, t \in Tasks :
          (gp.stat[t] = "waiting" /\ gp'.stat[t] = "scheduling") =>
            LET within(u) == EntryOf(gp, u).nrunnings < EntryOf(gp, u).limit_tasks
                tops == {gp.entry[g].queue[1] : g \in ReadyGroups(gp)}
                rivals == IF \E u \in tops : within(u)
                          THEN {u \in tops : within(u)}
                          ELSE {u \in tops : EntryOf(gp, u).receive_benifits}
            IN  /\ ~EntryOf(gp, t).paused /\ t \in rivals
                /\ \A u \in rivals : u # t => Before(gp, t, u)
<1>1. Held(gp, run) /\ Counted(gp, run) /\ [GpNext]_gpvars => [A]_gpvars
  BY TakenFirst DEF Rivals, ReadyTops, Within
<1> QED
  BY <1>1, CountedAlways, PTL DEF GpSpec, TakesFirst
=============================================================================
