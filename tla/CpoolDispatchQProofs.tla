------------------------- MODULE CpoolDispatchQProofs -------------------------
(***************************************************************************)
(* The lists of CpoolDispatchQ are lists, as long as nobody adds to one    *)
(* whose head was left behind: ListsApart, CountedFirst and HandledOnce    *)
(* hold, whoever splices, cuts and unlinks.                                *)
(***************************************************************************)
EXTENDS CpoolDispatchQ, FiniteSetTheorems, SequenceTheorems, TLAPS

(***************************************************************************)
(* What a list is                                                          *)
(***************************************************************************)

\* The entries of the list s with the head h, from its head (0) on and back to it.
Node(h, s, i) == IF i \in 1 .. Len(s) THEN s[i] ELSE h

Distinct(s) == \A i, j \in 1 .. Len(s) : s[i] = s[j] => i = j

\* The links nx and pv make s the list with the head h.
Linked(nx, pv, h, s) ==
    \A i \in 0 .. Len(s) :
        nx[Node(h, s, i)] = Node(h, s, i + 1) /\ pv[Node(h, s, i + 1)] = Node(h, s, i)

IsList(nx, pv, h, s) ==
    s \in Seq(Tasks) /\ Distinct(s) /\ Linked(nx, pv, h, s)

\* Where it begins and ends.
Ends(nx, pv, h, s) ==
    /\ nx[h] = Node(h, s, 1) /\ pv[h] = Node(h, s, Len(s))
    /\ \A i \in 1 .. Len(s) : nx[s[i]] = Node(h, s, i + 1) /\ pv[s[i]] = Node(h, s, i - 1)
    /\ nx[h] = h <=> s = <<>>

Links == [Nodes -> Nodes]

\* The links are those of other entries only.
SameLinks(nx, pv, nx2, pv2, h, s) ==
    \A x \in {h} \cup Range(s) : nx2[x] = nx[x] /\ pv2[x] = pv[x]

-----------------------------------------------------------------------------

LEMMA NatSetInduction ==
  ASSUME NEW P, 0 \in P, \A n \in Nat : n \in P => n + 1 \in P
  PROVE  Nat \subseteq P
<1> SUFFICES ASSUME Nat \ P # {} PROVE FALSE
  OBVIOUS
<1>1. PICK n \in Nat \ P : \A m \in Nat \ P : <<m, n>> \notin OpToRel(<, Nat)
  BY NatLessThanWellFounded, WFMin, Nat \ P \subseteq Nat, Zenon
<1>2. n \in Nat /\ n # 0
  BY <1>1
<1>3. n - 1 \in Nat /\ <<n - 1, n>> \in OpToRel(<, Nat)
  BY <1>2 DEF OpToRel
<1>4. n - 1 \in P
  BY <1>1, <1>3
<1>5. (n - 1) + 1 = n
  BY <1>2
<1> QED
  BY <1>1, <1>3, <1>4, <1>5

LEMMA TasksNoHeads ==
  /\ Tasks \cap Heads = {} /\ R \in Heads /\ Q \in Heads /\ Threads \subseteq Heads
  /\ R # Q /\ R \notin Threads /\ Q \notin Threads
  /\ Tasks \subseteq Nodes /\ Heads \subseteq Nodes /\ IsFiniteSet(Tasks)
BY DispatchAssumption DEF Heads, Nodes

LEMMA InRange ==
  ASSUME NEW S, NEW s \in Seq(S)
  PROVE  /\ Len(s) \in Nat /\ \A i \in 1 .. Len(s) : s[i] \in Range(s) /\ s[i] \in S
         /\ \A x \in Range(s) : \E i \in 1 .. Len(s) : x = s[i]
         /\ Range(s) \subseteq S
BY LenProperties DEF Range

\* Entries are found where they are.
LEMMA NodesOf ==
  ASSUME NEW s \in Seq(Tasks), NEW h \in Heads
  PROVE  /\ \A i : Node(h, s, i) \in {h} \cup Range(s)
         /\ Node(h, s, 0) = h /\ Node(h, s, Len(s) + 1) = h
         /\ \A i \in 1 .. Len(s) : Node(h, s, i) = s[i] /\ s[i] \in Tasks
         /\ \A i : Node(h, s, i) \in Nodes
         /\ \A i : Node(h, s, i) = h <=> i \notin 1 .. Len(s)
<1>1. \A i \in 1 .. Len(s) : s[i] \in Range(s) /\ s[i] \in Tasks
  BY InRange
<1>2. h \notin Tasks
  BY TasksNoHeads
<1>3. Len(s) \in Nat
  BY InRange
<1>4. \A i : i \in 1 .. Len(s) => Node(h, s, i) = s[i]
  BY DEF Node
<1>5. \A i : i \notin 1 .. Len(s) => Node(h, s, i) = h
  BY DEF Node
<1>6. 0 \notin 1 .. Len(s) /\ Len(s) + 1 \notin 1 .. Len(s)
  BY <1>3, SMT
<1>7. Tasks \subseteq Nodes /\ h \in Nodes
  BY TasksNoHeads
<1> QED
  BY <1>1, <1>2, <1>4, <1>5, <1>6, <1>7, Zenon

\* A list of which nobody changes a link stays what it is.
LEMMA ListStays ==
  ASSUME NEW nx, NEW pv, NEW nx2, NEW pv2, NEW h \in Heads, NEW s,
         IsList(nx, pv, h, s), SameLinks(nx, pv, nx2, pv2, h, s)
  PROVE  IsList(nx2, pv2, h, s)
<1>1. s \in Seq(Tasks) /\ Distinct(s)
  BY DEF IsList
<1>2. \A i : Node(h, s, i) \in {h} \cup Range(s)
  BY <1>1, NodesOf
<1>3. Linked(nx2, pv2, h, s)
  BY <1>2 DEF IsList, Linked, SameLinks
<1> QED
  BY <1>1, <1>3 DEF IsList

LEMMA ListEnds ==
  ASSUME NEW nx, NEW pv, NEW h \in Heads, NEW s, IsList(nx, pv, h, s)
  PROVE  Ends(nx, pv, h, s)
<1>1. s \in Seq(Tasks) /\ Len(s) \in Nat
  BY InRange DEF IsList
<1>2. \A i \in 0 .. Len(s) : nx[Node(h, s, i)] = Node(h, s, i + 1)
                             /\ pv[Node(h, s, i + 1)] = Node(h, s, i)
  BY DEF IsList, Linked
<1>3. Node(h, s, 0) = h /\ Node(h, s, Len(s) + 1) = h
  BY <1>1, NodesOf
<1>4. \A i \in 1 .. Len(s) : Node(h, s, i) = s[i]
  BY DEF Node
<1>5. nx[h] = Node(h, s, 1) /\ pv[h] = Node(h, s, Len(s))
  <2>1. 0 \in 0 .. Len(s) /\ Len(s) \in 0 .. Len(s) /\ 0 + 1 = 1
    BY <1>1
  <2> QED
    BY <1>2, <1>3, <2>1
<1>6. \A i \in 1 .. Len(s) : nx[s[i]] = Node(h, s, i + 1) /\ pv[s[i]] = Node(h, s, i - 1)
  <2> TAKE i \in 1 .. Len(s)
  <2>1. i \in 0 .. Len(s) /\ i - 1 \in 0 .. Len(s) /\ (i - 1) + 1 = i
    BY <1>1
  <2> QED
    BY <1>2, <1>4, <2>1
<1>7. nx[h] = h <=> s = <<>>
  <2>1. Node(h, s, 1) = h <=> 1 \notin 1 .. Len(s)
    BY <1>1, NodesOf
  <2>2. 1 \notin 1 .. Len(s) <=> Len(s) = 0
    BY <1>1
  <2>3. Len(s) = 0 <=> s = <<>>
    BY <1>1, EmptySeq
  <2> QED
    BY <1>5, <2>1, <2>2, <2>3
<1> QED
  BY <1>5, <1>6, <1>7 DEF Ends

-----------------------------------------------------------------------------
(***************************************************************************)
(* Following the links                                                     *)
(***************************************************************************)

\* The function by which Entry follows the links has but one value.
LEMMA FollowedOnce ==
  ASSUME NEW nx, NEW k \in Nat, NEW h, NEW f, NEW g,
         f = [i \in 0 .. k |-> IF i = 0 THEN h ELSE nx[f[i - 1]]],
         g = [i \in 0 .. k |-> IF i = 0 THEN h ELSE nx[g[i - 1]]]
  PROVE  f = g
<1> DEFINE P == {n \in Nat : n <= k => f[n] = g[n]}
<1>1. 0 \in P
  <2>1. 0 \in 0 .. k
    OBVIOUS
  <2>2. f[0] = h /\ g[0] = h
    BY <2>1
  <2> QED
    BY <2>2
<1>2. ASSUME NEW n \in Nat, n \in P PROVE n + 1 \in P
  <2> SUFFICES ASSUME n + 1 <= k PROVE f[n + 1] = g[n + 1]
    OBVIOUS
  <2>1. n + 1 \in 0 .. k /\ n + 1 # 0 /\ (n + 1) - 1 = n /\ n <= k
    OBVIOUS
  <2>2. f[n + 1] = nx[f[n]] /\ g[n + 1] = nx[g[n]]
    BY <2>1
  <2> QED
    BY <1>2, <2>1, <2>2
<1> HIDE DEF P
<1>3. Nat \subseteq P
  BY <1>1, <1>2, NatSetInduction
<1>4. \A i \in 0 .. k : f[i] = g[i]
  BY <1>3 DEF P
<1>5. DOMAIN f = 0 .. k /\ DOMAIN g = 0 .. k
  OBVIOUS
<1>6. f = [i \in 0 .. k |-> f[i]] /\ g = [i \in 0 .. k |-> g[i]]
  BY <1>5
<1> QED
  BY <1>4, <1>6

\* Following the links of a list goes through its entries.
LEMMA EntryIs ==
  ASSUME NEW h \in Heads, NEW s, IsList(next, prev, h, s), NEW k \in 0 .. Len(s) + 1
  PROVE  Entry(h, k) = Node(h, s, k)
<1>1. s \in Seq(Tasks) /\ Len(s) \in Nat
  BY InRange DEF IsList
<1>2. k \in Nat
  BY <1>1
<1> DEFINE F == [i \in 0 .. k |-> Node(h, s, i)]
           Follows(f) == f = [i \in 0 .. k |-> IF i = 0 THEN h ELSE next[f[i - 1]]]
<1>3. Follows(F)
  <2>1. Node(h, s, 0) = h
    BY <1>1, NodesOf
  <2>2. ASSUME NEW i \in 0 .. k, i # 0 PROVE next[F[i - 1]] = Node(h, s, i)
    <3>1. i - 1 \in 0 .. k /\ i - 1 \in 0 .. Len(s) /\ (i - 1) + 1 = i
      BY <1>1, <1>2, <2>2
    <3>2. F[i - 1] = Node(h, s, i - 1)
      BY <3>1
    <3> QED
      BY <3>1, <3>2 DEF IsList, Linked
  <2>3. \A i \in 0 .. k : Node(h, s, i) = (IF i = 0 THEN h ELSE next[F[i - 1]])
    BY <2>1, <2>2
  <2> QED
    BY <2>3
<1>4. Entry(h, k) = (CHOOSE f : Follows(f))[k]
  BY DEF Entry
<1> HIDE DEF F
<1>5. Follows(CHOOSE f : Follows(f))
  BY <1>3
<1>6. (CHOOSE f : Follows(f)) = F
  BY <1>2, <1>3, <1>5, FollowedOnce
<1>7. k \in 0 .. k
  BY <1>2
<1> QED
  BY <1>4, <1>6, <1>7 DEF F

\* A list is as long as it has entries, and no longer than there are tasks.
LEMMA ListLength ==
  ASSUME NEW s \in Seq(Tasks), Distinct(s)
  PROVE  /\ Cardinality(Range(s)) = Len(s) /\ Len(s) <= Cardinality(Tasks)
         /\ IsFiniteSet(Range(s)) /\ Cardinality(Tasks) \in Nat
<1>1. Len(s) \in Nat /\ Range(s) \subseteq Tasks
      /\ (\A x \in Range(s) : \E i \in 1 .. Len(s) : x = s[i])
      /\ (\A i \in 1 .. Len(s) : s[i] \in Range(s))
  BY InRange
<1>2. s \in Bijection(1 .. Len(s), Range(s))
  <2>1. s \in [1 .. Len(s) -> Range(s)]
    <3>1. s \in [1 .. Len(s) -> Tasks]
      BY LenProperties
    <3> QED
      BY <1>1, <3>1
  <2>2. \A i, j \in 1 .. Len(s) : s[i] = s[j] => i = j
    BY DEF Distinct
  <2> QED
    BY <1>1, <2>1, <2>2 DEF Bijection, Injection, Surjection, IsInjective
<1>3. IsFiniteSet(1 .. Len(s)) /\ Cardinality(1 .. Len(s)) = Len(s)
  <2>1. 1 \in Int /\ Len(s) \in Int
    BY <1>1
  <2>2. /\ IsFiniteSet(1 .. Len(s))
        /\ Cardinality(1 .. Len(s)) = IF 1 > Len(s) THEN 0 ELSE Len(s) - 1 + 1
    BY <2>1, FS_Interval, Zenon
  <2> QED
    BY <1>1, <2>2
<1>4. Cardinality(1 .. Len(s)) = Cardinality(Range(s)) /\ IsFiniteSet(Range(s))
  BY <1>2, <1>3, FS_Bijection DEF ExistsBijection
<1>5. IsFiniteSet(Tasks)
  BY TasksNoHeads
<1>6. Cardinality(Range(s)) <= Cardinality(Tasks) /\ Cardinality(Tasks) \in Nat
  BY <1>1, <1>5, FS_Subset, FS_CardinalityType
<1> QED
  BY <1>3, <1>4, <1>6

LEMMA NodesEnough == Cardinality(Nodes) \in Nat /\ Cardinality(Tasks) < Cardinality(Nodes)
<1>1. IsFiniteSet(Tasks) /\ IsFiniteSet(Heads)
  <2>1. IsFiniteSet(Threads)
    BY DispatchAssumption
  <2>2. IsFiniteSet({R} \cup {Q}) /\ {R} \cup {Q} = {R, Q}
    BY FS_Singleton, FS_Union
  <2> QED
    BY <2>1, <2>2, TasksNoHeads, FS_Union DEF Heads
<1>2. IsFiniteSet(Nodes)
  BY <1>1, FS_Union DEF Nodes
<1>3. Tasks \subseteq Nodes /\ R \in Nodes /\ R \notin Tasks
  BY TasksNoHeads
<1>4. Cardinality(Tasks) <= Cardinality(Nodes)
      /\ (Cardinality(Tasks) = Cardinality(Nodes) => Tasks = Nodes)
  BY <1>2, <1>3, FS_Subset
<1>5. Cardinality(Nodes) \in Nat /\ Cardinality(Tasks) \in Nat
  BY <1>1, <1>2, FS_CardinalityType
<1>6. Cardinality(Tasks) # Cardinality(Nodes)
  BY <1>3, <1>4
<1> QED
  BY <1>4, <1>5, <1>6

\* What is found from the head of a list on is the list.
LEMMA ListedIs ==
  ASSUME NEW h \in Heads, NEW s, IsList(next, prev, h, s)
  PROVE  Listed(h) = Range(s)
<1>1. s \in Seq(Tasks) /\ Len(s) \in Nat /\ Distinct(s)
  BY InRange DEF IsList
<1>2. Len(s) + 1 <= Cardinality(Nodes) /\ Cardinality(Nodes) \in Nat
  BY <1>1, ListLength, NodesEnough
<1>3. \A k \in 0 .. Len(s) + 1 : Entry(h, k) = Node(h, s, k)
  BY EntryIs
<1> DEFINE ends == {k \in 1 .. Cardinality(Nodes) : Entry(h, k) = h}
           least == CHOOSE k \in ends : \A j \in ends : k <= j
<1>4. Len(s) + 1 \in ends
  <2>1. Len(s) + 1 \in 1 .. Cardinality(Nodes) /\ Len(s) + 1 \in 0 .. Len(s) + 1
    BY <1>1, <1>2
  <2>2. Node(h, s, Len(s) + 1) = h
    BY <1>1, NodesOf
  <2> QED
    BY <1>3, <2>1, <2>2
<1>5. \A j \in ends : Len(s) + 1 <= j
  <2> SUFFICES ASSUME NEW j \in ends, j < Len(s) + 1 PROVE FALSE
    BY <1>1
  <2>1. j \in 1 .. Len(s) /\ j \in 0 .. Len(s) + 1
    BY <1>1
  <2>2. Node(h, s, j) = h
    BY <1>3, <2>1
  <2> QED
    BY <1>1, <2>1, <2>2, NodesOf
<1>6. \A k \in ends : (\A j \in ends : k <= j) => k = Len(s) + 1
  <2> TAKE k \in ends
  <2> HAVE \A j \in ends : k <= j
  <2>1. k <= Len(s) + 1 /\ Len(s) + 1 <= k /\ k \in Nat
    BY <1>4, <1>5
  <2> QED
    BY <1>1, <2>1
<1>7. Listed(h) = {Entry(h, k) : k \in 1 .. (IF ends = {} THEN Cardinality(Nodes) ELSE least - 1)}
  BY DEF Listed
<1> HIDE DEF ends
<1>8. least = Len(s) + 1
  BY <1>4, <1>5, <1>6
<1> HIDE DEF least
<1>9. Listed(h) = {Entry(h, k) : k \in 1 .. Len(s)}
  BY <1>1, <1>4, <1>7, <1>8
<1>10. \A k \in 1 .. Len(s) : Entry(h, k) = s[k]
  <2> TAKE k \in 1 .. Len(s)
  <2>1. k \in 0 .. Len(s) + 1
    BY <1>1
  <2> QED
    BY <1>3, <2>1 DEF Node
<1>11. Range(s) = {s[k] : k \in 1 .. Len(s)}
  BY <1>1, InRange
<1> QED
  BY <1>9, <1>10, <1>11

\* The first entries of a list.
LEMMA EntriesOf ==
  ASSUME NEW h \in Heads, NEW s, IsList(next, prev, h, s), NEW n \in 0 .. Len(s)
  PROVE  \A k \in 1 .. n : Entry(h, k) = s[k]
<1>1. Len(s) \in Nat
  BY InRange DEF IsList
<1> TAKE k \in 1 .. n
<1>2. k \in 1 .. Len(s) /\ k \in 0 .. Len(s) + 1
  BY <1>1
<1> QED
  BY <1>2, EntryIs DEF Node

-----------------------------------------------------------------------------
(***************************************************************************)
(* What list.h does                                                        *)
(***************************************************************************)

\* The list c with s put in behind its m-th entry.
Spliced(c, m, s) ==
    [i \in 1 .. Len(c) + Len(s) |->
        IF i <= m THEN c[i] ELSE IF i <= m + Len(s) THEN s[i - m] ELSE c[i - Len(s)]]

LEMMA SplicedIs ==
  ASSUME NEW c \in Seq(Tasks), NEW s \in Seq(Tasks), NEW m \in 0 .. Len(c),
         Distinct(c), Distinct(s), Range(c) \cap Range(s) = {}
  PROVE  /\ Spliced(c, m, s) \in Seq(Tasks) /\ Len(Spliced(c, m, s)) = Len(c) + Len(s)
         /\ Distinct(Spliced(c, m, s))
         /\ Range(Spliced(c, m, s)) = Range(c) \cup Range(s)
<1> DEFINE d == Spliced(c, m, s)
           n == Len(c) + Len(s)
<1>1. Len(c) \in Nat /\ Len(s) \in Nat /\ m \in Nat /\ n \in Nat
  BY InRange
<1>2. \A i \in 1 .. n :
        /\ i <= m => i \in 1 .. Len(c)
        /\ ~(i <= m) /\ i <= m + Len(s) => i - m \in 1 .. Len(s)
        /\ ~(i <= m) /\ ~(i <= m + Len(s)) => i - Len(s) \in 1 .. Len(c)
  BY <1>1
<1>3. (\A i \in 1 .. Len(c) : c[i] \in Range(c) /\ c[i] \in Tasks)
      /\ (\A i \in 1 .. Len(s) : s[i] \in Range(s) /\ s[i] \in Tasks)
  BY InRange
<1>4. d = [i \in 1 .. n |-> d[i]] /\ DOMAIN d = 1 .. n
  BY DEF Spliced
<1>5. \A i \in 1 .. n :
        d[i] = IF i <= m THEN c[i] ELSE IF i <= m + Len(s) THEN s[i - m] ELSE c[i - Len(s)]
  BY DEF Spliced
<1> HIDE DEF d
<1>6. \A i \in 1 .. n : d[i] \in Tasks
  BY <1>2, <1>3, <1>5
<1>7. d \in Seq(Tasks) /\ Len(d) = n
  <2>1. d \in [1 .. n -> Tasks]
    BY <1>4, <1>6
  <2> QED
    BY <1>1, <2>1, LenProperties
<1>8. Distinct(d)
  <2> SUFFICES ASSUME NEW i \in 1 .. n, NEW j \in 1 .. n, d[i] = d[j] PROVE i = j
    BY <1>7 DEF Distinct
  <2> DEFINE A(k) == k <= m
             B(k) == ~(k <= m) /\ k <= m + Len(s)
             C(k) == ~(k <= m) /\ ~(k <= m + Len(s))
  <2>1. \A a \in 1 .. Len(c) : \A b \in 1 .. Len(s) : c[a] # s[b]
    BY <1>3
  <2>2. (\A a, b \in 1 .. Len(c) : c[a] = c[b] => a = b)
        /\ (\A a, b \in 1 .. Len(s) : s[a] = s[b] => a = b)
    BY DEF Distinct
  <2>3. \A k \in 1 .. n : (A(k) => d[k] = c[k]) /\ (B(k) => d[k] = s[k - m])
                          /\ (C(k) => d[k] = c[k - Len(s)])
    BY <1>5
  <2>4. A(i) \/ B(i) \/ C(i)
    OBVIOUS
  <2>5. A(j) \/ B(j) \/ C(j)
    OBVIOUS
  <2>6. ASSUME A(i), A(j) PROVE i = j
    BY <1>2, <2>2, <2>3, <2>6
  <2>7. ASSUME A(i), C(j) PROVE i = j
    <3>1. i = j - Len(s)
      BY <1>2, <2>2, <2>3, <2>7
    <3> QED
      BY <1>1, <2>7, <3>1
  <2>8. ASSUME C(i), A(j) PROVE i = j
    <3>1. j = i - Len(s)
      BY <1>2, <2>2, <2>3, <2>8
    <3> QED
      BY <1>1, <2>8, <3>1
  <2>9. ASSUME B(i), B(j) PROVE i = j
    <3>1. i - m = j - m
      BY <1>2, <2>2, <2>3, <2>9
    <3> QED
      BY <1>1, <3>1
  <2>10. ASSUME C(i), C(j) PROVE i = j
    <3>1. i - Len(s) = j - Len(s)
      BY <1>2, <2>2, <2>3, <2>10
    <3> QED
      BY <1>1, <3>1
  <2>11. ASSUME B(i), A(j) \/ C(j) PROVE i = j
    BY <1>2, <2>1, <2>3, <2>11
  <2>12. ASSUME A(i) \/ C(i), B(j) PROVE i = j
    BY <1>2, <2>1, <2>3, <2>12
  <2> QED
    BY <2>4, <2>5, <2>6, <2>7, <2>8, <2>9, <2>10, <2>11, <2>12
<1>9. Range(d) \subseteq Range(c) \cup Range(s)
  <2>1. Range(d) = {d[i] : i \in 1 .. n}
    BY <1>4 DEF Range
  <2>2. \A i \in 1 .. n : d[i] \in Range(c) \cup Range(s)
    BY <1>2, <1>3, <1>5
  <2> QED
    BY <2>1, <2>2
<1>10. Range(c) \cup Range(s) \subseteq Range(d)
  <2>1. \A i \in 1 .. n : d[i] \in Range(d)
    BY <1>7, InRange
  <2>2. ASSUME NEW i \in 1 .. Len(c) PROVE c[i] \in Range(d)
    <3>1. CASE i <= m
      <4>1. i \in 1 .. n /\ d[i] = c[i]
        BY <1>1, <1>5, <3>1
      <4> QED
        BY <2>1, <4>1
    <3>2. CASE ~(i <= m)
      <4>1. i + Len(s) \in 1 .. n /\ ~(i + Len(s) <= m) /\ ~(i + Len(s) <= m + Len(s))
            /\ (i + Len(s)) - Len(s) = i
        BY <1>1, <3>2
      <4>2. d[i + Len(s)] = c[i]
        BY <1>5, <4>1
      <4> QED
        BY <2>1, <4>1, <4>2
    <3> QED
      BY <3>1, <3>2
  <2>3. ASSUME NEW i \in 1 .. Len(s) PROVE s[i] \in Range(d)
    <3>1. i + m \in 1 .. n /\ ~(i + m <= m) /\ i + m <= m + Len(s) /\ (i + m) - m = i
      BY <1>1
    <3>2. d[i + m] = s[i]
      BY <1>5, <3>1
    <3> QED
      BY <2>1, <3>1, <3>2
  <2> QED
    BY <2>2, <2>3, InRange
<1> QED
  BY <1>7, <1>8, <1>9, <1>10 DEF d

\* The next entry and the one before of a list with s spliced into it.
LEMMA SplicedNodes ==
  ASSUME NEW c \in Seq(Tasks), NEW s \in Seq(Tasks), NEW m \in 0 .. Len(c),
         Distinct(c), Distinct(s), Range(c) \cap Range(s) = {}, NEW h \in Heads
  PROVE  LET d == Spliced(c, m, s)
         IN  /\ \A i \in 0 .. m : Node(h, d, i) = Node(h, c, i)
             /\ \A i \in 1 .. Len(s) : Node(h, d, m + i) = s[i]
             /\ \A i \in m + 1 .. Len(c) + 1 : Node(h, d, i + Len(s)) = Node(h, c, i)
<1>1. Len(c) \in Nat /\ Len(s) \in Nat /\ m \in Nat
  BY InRange
<1>2. Len(Spliced(c, m, s)) = Len(c) + Len(s)
  BY SplicedIs
<1>3. \A i \in 0 .. m : Node(h, Spliced(c, m, s), i) = Node(h, c, i)
  BY <1>1, <1>2 DEF Node, Spliced
<1>4. \A i \in 1 .. Len(s) : Node(h, Spliced(c, m, s), m + i) = s[i]
  <2> TAKE i \in 1 .. Len(s)
  <2>1. m + i \in 1 .. Len(c) + Len(s) /\ ~(m + i <= m) /\ m + i <= m + Len(s) /\ (m + i) - m = i
    BY <1>1
  <2> QED
    BY <1>2, <2>1 DEF Node, Spliced
<1>5. \A i \in m + 1 .. Len(c) + 1 : Node(h, Spliced(c, m, s), i + Len(s)) = Node(h, c, i)
  <2> TAKE i \in m + 1 .. Len(c) + 1
  <2>1. ~(i + Len(s) <= m) /\ ~(i + Len(s) <= m + Len(s)) /\ (i + Len(s)) - Len(s) = i
        /\ (i \in 1 .. Len(c) <=> i + Len(s) \in 1 .. Len(c) + Len(s))
    BY <1>1
  <2> QED
    BY <1>2, <2>1 DEF Node, Spliced
<1> QED
  BY <1>3, <1>4, <1>5

\* The links that Between makes: those of s, with its two ends, and of nothing else.
LEMMA BetweenLinks ==
  ASSUME NEW s \in Seq(Tasks), Distinct(s), s # <<>>, next \in Links, prev \in Links,
         NEW a \in Nodes, NEW b \in Nodes, a \notin Range(s), b \notin Range(s)
  PROVE  /\ Between(s, a, b)[1] \in Links /\ Between(s, a, b)[2] \in Links
         /\ Between(s, a, b)[1][a] = s[1] /\ Between(s, a, b)[2][b] = s[Len(s)]
         /\ Between(s, a, b)[1][s[Len(s)]] = b /\ Between(s, a, b)[2][s[1]] = a
         /\ \A i \in 1 .. Len(s) - 1 : /\ Between(s, a, b)[1][s[i]] = s[i + 1]
                                       /\ Between(s, a, b)[2][s[i + 1]] = s[i]
         /\ \A x \in Nodes \ Range(s) :
                /\ x # a => Between(s, a, b)[1][x] = next[x]
                /\ x # b => Between(s, a, b)[2][x] = prev[x]
<1>1. Len(s) \in Nat /\ Len(s) # 0
  BY InRange, EmptySeq
<1>2. /\ \A i \in 1 .. Len(s) : s[i] \in Range(s) /\ s[i] \in Tasks
      /\ \A x \in Range(s) : \E i \in 1 .. Len(s) : x = s[i]
      /\ Range(s) \subseteq Nodes
  BY InRange, TasksNoHeads
<1>3. Last(s) = s[Len(s)]
  BY DEF Last
<1> DEFINE at(x) == CHOOSE i \in 1 .. Len(s) : s[i] = x
           nexts == [x \in Range(s) |-> IF x = Last(s) THEN b ELSE s[at(x) + 1]]
           prevs == [x \in Range(s) |-> IF x = s[1] THEN a ELSE s[at(x) - 1]]
           nx == Between(s, a, b)[1]
           pv == Between(s, a, b)[2]
<1>4. \A i \in 1 .. Len(s) : at(s[i]) = i
  BY DEF Distinct
<1>5. /\ nx = [Update(next, nexts) EXCEPT ![a] = s[1]]
      /\ pv = [Update(prev, prevs) EXCEPT ![b] = Last(s)]
  BY DEF Between
<1>6. 1 \in 1 .. Len(s) /\ Len(s) \in 1 .. Len(s)
  BY <1>1
<1>7. /\ nexts[s[Len(s)]] = b /\ prevs[s[1]] = a
      /\ \A i \in 1 .. Len(s) - 1 : nexts[s[i]] = s[i + 1] /\ prevs[s[i + 1]] = s[i]
  <2>1. nexts[s[Len(s)]] = b /\ prevs[s[1]] = a
    BY <1>2, <1>3, <1>6
  <2>2. ASSUME NEW i \in 1 .. Len(s) - 1 PROVE nexts[s[i]] = s[i + 1] /\ prevs[s[i + 1]] = s[i]
    <3>1. i \in 1 .. Len(s) /\ i + 1 \in 1 .. Len(s) /\ i # Len(s) /\ i + 1 # 1 /\ (i + 1) - 1 = i
      BY <1>1
    <3>2. s[i] # Last(s) /\ s[i + 1] # s[1]
      BY <1>3, <1>6, <3>1 DEF Distinct
    <3>3. at(s[i]) = i /\ at(s[i + 1]) = i + 1 /\ s[i] \in Range(s) /\ s[i + 1] \in Range(s)
      BY <1>2, <1>4, <3>1
    <3> HIDE DEF at
    <3>4. nexts[s[i]] = s[at(s[i]) + 1] /\ prevs[s[i + 1]] = s[at(s[i + 1]) - 1]
      BY <3>2, <3>3
    <3> QED
      BY <3>1, <3>3, <3>4
  <2> QED
    BY <2>1, <2>2
<1>8. DOMAIN nexts = Range(s) /\ DOMAIN prevs = Range(s)
  OBVIOUS
<1>9. ASSUME NEW x \in Range(s) PROVE nexts[x] \in Nodes /\ prevs[x] \in Nodes
  <2>1. PICK i \in 1 .. Len(s) : x = s[i]
    BY <1>2
  <2>4. nexts[x] \in Nodes
    <3> HIDE DEF nexts
    <3>1. CASE i # Len(s)
      <4>1. i \in 1 .. Len(s) - 1 /\ i + 1 \in 1 .. Len(s)
        BY <1>1, <3>1
      <4> QED
        BY <1>2, <1>7, <2>1, <4>1
    <3> QED
      BY <1>7, <2>1, <3>1
  <2>5. prevs[x] \in Nodes
    <3> HIDE DEF prevs
    <3>1. CASE i # 1
      <4>1. i - 1 \in 1 .. Len(s) - 1 /\ i - 1 \in 1 .. Len(s) /\ (i - 1) + 1 = i
        BY <1>1, <3>1
      <4>2. prevs[s[(i - 1) + 1]] = s[i - 1] /\ s[i - 1] \in Nodes
        BY <1>2, <1>7, <4>1
      <4> QED
        BY <2>1, <4>1, <4>2
    <3> QED
      BY <1>7, <2>1, <3>1
  <2> QED
    BY <2>4, <2>5
<1> HIDE DEF nexts, prevs, at
<1>10. /\ Update(next, nexts) = [x \in Nodes |-> IF x \in Range(s) THEN nexts[x] ELSE next[x]]
       /\ Update(prev, prevs) = [x \in Nodes |-> IF x \in Range(s) THEN prevs[x] ELSE prev[x]]
  BY <1>8 DEF Update, Links
<1>11. nx = [x \in Nodes |-> IF x = a THEN s[1] ELSE IF x \in Range(s) THEN nexts[x] ELSE next[x]]
  BY <1>5, <1>10
<1>12. pv = [x \in Nodes |-> IF x = b THEN s[Len(s)] ELSE IF x \in Range(s) THEN prevs[x] ELSE prev[x]]
  BY <1>3, <1>5, <1>10
<1> HIDE DEF nx, pv
<1>13. nx \in Links /\ pv \in Links
  BY <1>2, <1>6, <1>9, <1>11, <1>12 DEF Links
<1>14. \A i \in 1 .. Len(s) : s[i] # a /\ s[i] # b
  BY <1>2
<1>15. \A i \in 1 .. Len(s) : s[i] \in Nodes /\ nx[s[i]] = nexts[s[i]] /\ pv[s[i]] = prevs[s[i]]
  BY <1>2, <1>11, <1>12, <1>14
<1>16. \A i \in 1 .. Len(s) - 1 : nx[s[i]] = s[i + 1] /\ pv[s[i + 1]] = s[i]
  <2> TAKE i \in 1 .. Len(s) - 1
  <2>1. i \in 1 .. Len(s) /\ i + 1 \in 1 .. Len(s)
    BY <1>1
  <2> QED
    BY <1>7, <1>15, <2>1
<1>17. nx[s[Len(s)]] = b /\ pv[s[1]] = a /\ nx[a] = s[1] /\ pv[b] = s[Len(s)]
  BY <1>6, <1>7, <1>11, <1>12, <1>15
<1>18. \A x \in Nodes \ Range(s) : (x # a => nx[x] = next[x]) /\ (x # b => pv[x] = prev[x])
  BY <1>11, <1>12
<1> QED
  BY <1>13, <1>16, <1>17, <1>18 DEF nx, pv

\* Tasks that are put between two entries of a list make a list with it.
LEMMA BetweenIs ==
  ASSUME NEW h \in Heads, NEW c, IsList(next, prev, h, c), NEW s \in Seq(Tasks),
         Distinct(s), s # <<>>, Range(c) \cap Range(s) = {}, NEW m \in 0 .. Len(c),
         next \in Links, prev \in Links
  PROVE  LET l == Between(s, Node(h, c, m), Node(h, c, m + 1))
         IN  IsList(l[1], l[2], h, Spliced(c, m, s))
<1> DEFINE a == Node(h, c, m)
           b == Node(h, c, m + 1)
           d == Spliced(c, m, s)
           nx == Between(s, a, b)[1]
           pv == Between(s, a, b)[2]
<1>1. c \in Seq(Tasks) /\ Distinct(c) /\ Linked(next, prev, h, c)
  BY DEF IsList
<1>2. Len(c) \in Nat /\ Len(s) \in Nat /\ m \in Nat /\ Len(s) # 0
  BY <1>1, InRange, EmptySeq
<1>3. \A i : Node(h, c, i) \in Nodes /\ Node(h, c, i) \notin Range(s)
  BY <1>1, NodesOf, InRange, TasksNoHeads
<1>4. \A i, j \in 0 .. Len(c) : Node(h, c, i) = Node(h, c, j) => i = j
  BY <1>1, NodesOf, <1>2, TasksNoHeads DEF Distinct
<1>5. \A i, j \in 1 .. Len(c) + 1 : Node(h, c, i) = Node(h, c, j) => i = j
  BY <1>1, NodesOf, <1>2, TasksNoHeads DEF Distinct
<1>6. /\ d \in Seq(Tasks) /\ Len(d) = Len(c) + Len(s) /\ Distinct(d)
  BY <1>1, SplicedIs
<1>7. /\ \A i \in 0 .. m : Node(h, d, i) = Node(h, c, i)
      /\ \A i \in 1 .. Len(s) : Node(h, d, m + i) = s[i]
      /\ \A i \in m + 1 .. Len(c) + 1 : Node(h, d, i + Len(s)) = Node(h, c, i)
  BY <1>1, SplicedNodes
<1>8. /\ nx[a] = s[1] /\ pv[b] = s[Len(s)] /\ nx[s[Len(s)]] = b /\ pv[s[1]] = a
      /\ \A i \in 1 .. Len(s) - 1 : nx[s[i]] = s[i + 1] /\ pv[s[i + 1]] = s[i]
      /\ \A x \in Nodes \ Range(s) : (x # a => nx[x] = next[x]) /\ (x # b => pv[x] = prev[x])
  BY <1>3, BetweenLinks
<1> HIDE DEF nx, pv, d
<1>9. \A i \in 0 .. Len(c) : next[Node(h, c, i)] = Node(h, c, i + 1)
                             /\ prev[Node(h, c, i + 1)] = Node(h, c, i)
  BY <1>1 DEF Linked
<1>10. ASSUME NEW i \in 0 .. Len(c), i # m
       PROVE  nx[Node(h, c, i)] = Node(h, c, i + 1) /\ pv[Node(h, c, i + 1)] = Node(h, c, i)
  <2>1. Node(h, c, i) # a
    BY <1>2, <1>4, <1>10
  <2>2. i + 1 \in 1 .. Len(c) + 1 /\ m + 1 \in 1 .. Len(c) + 1 /\ i + 1 # m + 1
    BY <1>2, <1>10
  <2>3. Node(h, c, i + 1) # b
    BY <1>5, <2>2
  <2> QED
    BY <1>3, <1>8, <1>9, <2>1, <2>3
<1>11. ASSUME NEW i \in 0 .. Len(d)
       PROVE  nx[Node(h, d, i)] = Node(h, d, i + 1) /\ pv[Node(h, d, i + 1)] = Node(h, d, i)
  <2>1. CASE i < m
    <3>1. i \in 0 .. Len(c) /\ i # m /\ i \in 0 .. m /\ i + 1 \in 0 .. m
      BY <1>2, <1>6, <2>1
    <3> QED
      BY <1>7, <1>10, <3>1
  <2>2. CASE i = m
    <3>1. m \in 0 .. m /\ 1 \in 1 .. Len(s)
      BY <1>2
    <3>2. Node(h, d, i) = a /\ Node(h, d, i + 1) = s[1]
      BY <1>7, <2>2, <3>1
    <3> QED
      BY <1>8, <3>2
  <2>3. CASE m < i /\ i < m + Len(s)
    <3>1. i - m \in 1 .. Len(s) - 1 /\ i - m \in 1 .. Len(s) /\ (i - m) + 1 \in 1 .. Len(s)
          /\ m + (i - m) = i /\ m + ((i - m) + 1) = i + 1
      BY <1>2, <2>3
    <3>2. Node(h, d, i) = s[i - m] /\ Node(h, d, i + 1) = s[(i - m) + 1]
      BY <1>7, <3>1
    <3> QED
      BY <1>8, <3>1, <3>2
  <2>4. CASE i = m + Len(s)
    <3>1. Len(s) \in 1 .. Len(s) /\ m + 1 \in m + 1 .. Len(c) + 1 /\ (m + 1) + Len(s) = i + 1
      BY <1>2, <2>4
    <3>2. Node(h, d, i) = s[Len(s)] /\ Node(h, d, i + 1) = b
      BY <1>7, <2>4, <3>1
    <3> QED
      BY <1>8, <3>2
  <2>5. CASE m + Len(s) < i
    <3> DEFINE j == i - Len(s)
    <3>1. j \in 0 .. Len(c) /\ j # m /\ j \in m + 1 .. Len(c) + 1 /\ j + 1 \in m + 1 .. Len(c) + 1
          /\ j + Len(s) = i /\ (j + 1) + Len(s) = i + 1
      BY <1>2, <1>6, <2>5
    <3>2. Node(h, d, i) = Node(h, c, j) /\ Node(h, d, i + 1) = Node(h, c, j + 1)
      BY <1>7, <3>1
    <3> QED
      BY <1>10, <3>1, <3>2
  <2>6. i \in Int /\ m \in Int /\ Len(s) \in Int
    BY <1>2, <1>6
  <2> QED
    BY <2>1, <2>2, <2>3, <2>4, <2>5, <2>6
<1>12. IsList(nx, pv, h, d)
  BY <1>6, <1>11 DEF IsList, Linked
<1> QED
  BY <1>12 DEF nx, pv, d

\* n entries of s from the one behind the k-th on.
Part(s, k, n) == [i \in 1 .. n |-> s[k + i]]

LEMMA PartIs ==
  ASSUME NEW s \in Seq(Tasks), Distinct(s), NEW k \in Nat, NEW n \in Nat, k + n <= Len(s)
  PROVE  /\ Part(s, k, n) \in Seq(Tasks) /\ Len(Part(s, k, n)) = n /\ Distinct(Part(s, k, n))
         /\ Range(Part(s, k, n)) = {s[i] : i \in k + 1 .. k + n}
         /\ \A i \in 1 .. n : Part(s, k, n)[i] = s[k + i]
<1> DEFINE p == Part(s, k, n)
<1>1. Len(s) \in Nat /\ \A i \in 1 .. Len(s) : s[i] \in Tasks
  BY InRange
<1>2. \A i \in 1 .. n : k + i \in 1 .. Len(s) /\ k + i \in k + 1 .. k + n
  BY <1>1
<1>3. DOMAIN p = 1 .. n /\ \A i \in 1 .. n : p[i] = s[k + i]
  BY DEF Part
<1>4. p \in [1 .. n -> Tasks]
  BY <1>1, <1>2 DEF Part
<1>5. p \in Seq(Tasks) /\ Len(p) = n
  BY <1>4, LenProperties
<1>6. Distinct(p)
  <2> SUFFICES ASSUME NEW i \in 1 .. n, NEW j \in 1 .. n, p[i] = p[j] PROVE i = j
    BY <1>5 DEF Distinct
  <2>1. k + i = k + j
    BY <1>2, <1>3 DEF Distinct
  <2> QED
    BY <2>1
<1>7. Range(p) = {s[i] : i \in k + 1 .. k + n}
  <2>1. Range(p) = {p[i] : i \in 1 .. n}
    BY <1>3 DEF Range
  <2>2. \A i \in k + 1 .. k + n : i - k \in 1 .. n /\ k + (i - k) = i
    OBVIOUS
  <2>3. \A i \in 1 .. n : p[i] = s[k + i] /\ k + i \in k + 1 .. k + n
    BY <1>2, <1>3
  <2> HIDE DEF p
  <2>4. \A i \in k + 1 .. k + n : s[i] = p[i - k] /\ i - k \in 1 .. n
    BY <2>2, <2>3
  <2>5. Range(p) \subseteq {s[i] : i \in k + 1 .. k + n}
    BY <2>1, <2>3
  <2>6. {s[i] : i \in k + 1 .. k + n} \subseteq Range(p)
    BY <2>1, <2>4
  <2> QED
    BY <2>5, <2>6
<1> QED
  BY <1>3, <1>5, <1>6, <1>7

\* The links go from h through a part of s and back.
LinksPart(nx, pv, h, s, k, n) ==
    /\ n = 0 => nx[h] = h /\ pv[h] = h
    /\ n # 0 => /\ nx[h] = s[k + 1] /\ pv[s[k + 1]] = h
                /\ nx[s[k + n]] = h /\ pv[h] = s[k + n]
    /\ \A i \in k + 1 .. k + n - 1 : nx[s[i]] = s[i + 1] /\ pv[s[i + 1]] = s[i]

\* Any links that follow a part of a list and lead back make it a list.
LEMMA PartLinked ==
  ASSUME NEW nx, NEW pv, NEW h \in Heads, NEW s \in Seq(Tasks), Distinct(s),
         NEW k \in Nat, NEW n \in Nat, k + n <= Len(s), LinksPart(nx, pv, h, s, k, n)
  PROVE  IsList(nx, pv, h, Part(s, k, n))
<1> DEFINE p == Part(s, k, n)
<1>1. p \in Seq(Tasks) /\ Len(p) = n /\ Distinct(p) /\ \A i \in 1 .. n : p[i] = s[k + i]
  BY PartIs
<1> HIDE DEF p
<1>2. /\ Node(h, p, 0) = h /\ Node(h, p, n + 1) = h
      /\ \A i \in 1 .. n : Node(h, p, i) = s[k + i]
  <2>1. /\ Node(h, p, 0) = h /\ Node(h, p, Len(p) + 1) = h
        /\ \A i \in 1 .. Len(p) : Node(h, p, i) = p[i]
    BY <1>1 DEF Node
  <2> QED
    BY <1>1, <2>1
<1>5. /\ n = 0 => nx[h] = h /\ pv[h] = h
      /\ n # 0 => /\ nx[h] = s[k + 1] /\ pv[s[k + 1]] = h
                  /\ nx[s[k + n]] = h /\ pv[h] = s[k + n]
      /\ \A i \in k + 1 .. k + n - 1 : nx[s[i]] = s[i + 1] /\ pv[s[i + 1]] = s[i]
  BY DEF LinksPart
<1>3. ASSUME NEW i \in 0 .. n
      PROVE  nx[Node(h, p, i)] = Node(h, p, i + 1) /\ pv[Node(h, p, i + 1)] = Node(h, p, i)
  <2>1. CASE n = 0
    <3>1. i = 0 /\ i + 1 = n + 1
      BY <2>1
    <3> QED
      BY <1>2, <1>5, <2>1, <3>1
  <2>2. CASE n # 0 /\ i = 0
    <3>1. 1 \in 1 .. n /\ i + 1 = 1
      BY <2>2
    <3>2. Node(h, p, i + 1) = s[k + 1]
      BY <1>2, <3>1
    <3> QED
      BY <1>2, <1>5, <2>2, <3>2
  <2>3. CASE n # 0 /\ i = n
    <3>1. n \in 1 .. n
      BY <2>3
    <3>2. Node(h, p, i) = s[k + n]
      BY <1>2, <2>3, <3>1
    <3> QED
      BY <1>2, <1>5, <2>3, <3>2
  <2>4. CASE i # 0 /\ i # n
    <3>1. i \in 1 .. n /\ i + 1 \in 1 .. n /\ k + i \in k + 1 .. k + n - 1
          /\ k + (i + 1) = (k + i) + 1
      BY <2>4
    <3>2. Node(h, p, i) = s[k + i] /\ Node(h, p, i + 1) = s[(k + i) + 1]
      BY <1>2, <3>1
    <3> QED
      BY <1>5, <3>1, <3>2
  <2> QED
    BY <2>1, <2>2, <2>3, <2>4
<1>4. IsList(nx, pv, h, p)
  BY <1>1, <1>3 DEF IsList, Linked
<1> QED
  BY <1>4 DEF p

\* The first entry of h is deleted.
FirstDeleted(nx, pv, nx2, pv2, h) ==
    /\ nx2 = [nx EXCEPT ![pv[nx[h]]] = nx[nx[h]]]
    /\ pv2 = [pv EXCEPT ![nx[nx[h]]] = pv[nx[h]]]

\* list_del of the first entry leaves the others.
LEMMA UnlinkIs ==
  ASSUME NEW nx \in Links, NEW pv \in Links, NEW h \in Heads, NEW s,
         IsList(nx, pv, h, s), s # <<>>, NEW nx2, NEW pv2,
         FirstDeleted(nx, pv, nx2, pv2, h)
  PROVE  /\ nx[h] = s[1] /\ nx2 \in Links /\ pv2 \in Links
         /\ \E n \in Nat : n + 1 = Len(s) /\ IsList(nx2, pv2, h, Part(s, 1, n))
         /\ \A x \in Nodes \ ({h} \cup Range(s)) : nx2[x] = nx[x] /\ pv2[x] = pv[x]
<1>1. s \in Seq(Tasks) /\ Distinct(s) /\ Len(s) \in Nat /\ Len(s) # 0
  BY InRange, EmptySeq DEF IsList
<1>0. PICK n \in Nat : n + 1 = Len(s)
  <2>1. Len(s) - 1 \in Nat /\ (Len(s) - 1) + 1 = Len(s)
    BY <1>1
  <2> QED
    BY <2>1
<1>2. 1 \in 1 .. Len(s) /\ 1 + n = Len(s)
  BY <1>0, <1>1
<1>3. /\ nx[h] = Node(h, s, 1) /\ pv[h] = Node(h, s, Len(s))
      /\ \A i \in 1 .. Len(s) : nx[s[i]] = Node(h, s, i + 1) /\ pv[s[i]] = Node(h, s, i - 1)
  <2>1. Ends(nx, pv, h, s)
    BY ListEnds
  <2> QED
    BY <2>1 DEF Ends
<1>4. /\ \A i : Node(h, s, i) \in {h} \cup Range(s) /\ Node(h, s, i) \in Nodes
      /\ \A i \in 1 .. Len(s) : Node(h, s, i) = s[i] /\ s[i] \in Tasks /\ s[i] \in Nodes
      /\ Node(h, s, 0) = h /\ Node(h, s, Len(s) + 1) = h /\ h \in Nodes /\ h \notin Tasks
  BY <1>1, NodesOf, TasksNoHeads
<1>5. nx[h] = s[1]
  BY <1>2, <1>3, <1>4
<1>6. pv[s[1]] = h /\ nx[s[1]] = Node(h, s, 2)
  BY <1>2, <1>3, <1>4
<1>7. /\ nx2 = [nx EXCEPT ![h] = Node(h, s, 2)]
      /\ pv2 = [pv EXCEPT ![Node(h, s, 2)] = h]
  BY <1>5, <1>6 DEF FirstDeleted
<1>8. nx2 \in Links /\ pv2 \in Links
  BY <1>4, <1>7 DEF Links
<1>9. \A x \in Nodes \ ({h} \cup Range(s)) : nx2[x] = nx[x] /\ pv2[x] = pv[x]
  BY <1>4, <1>7 DEF Links
<1>10. IsList(nx2, pv2, h, Part(s, 1, n))
  <2>1. ASSUME n = 0 PROVE nx2[h] = h /\ pv2[h] = h
    <3>1. Node(h, s, 2) = h
      <4>1. Len(s) = 1
        BY <1>2, <2>1
      <4>2. 2 \notin 1 .. Len(s)
        BY <4>1
      <4> QED
        BY <4>2 DEF Node
    <3> QED
      BY <1>4, <1>7, <3>1 DEF Links
  <2>2. ASSUME n # 0
        PROVE  /\ nx2[h] = s[1 + 1] /\ pv2[s[1 + 1]] = h
               /\ nx2[s[1 + n]] = h /\ pv2[h] = s[1 + n]
    <3>1. 2 \in 1 .. Len(s) /\ 1 + 1 = 2 /\ Len(s) \in 1 .. Len(s)
      BY <1>2, <2>2
    <3>2. Node(h, s, 2) = s[2] /\ s[2] # h /\ s[2] \in Nodes
      BY <1>4, <3>1
    <3>3. nx2[h] = s[2] /\ pv2[s[2]] = h
      BY <1>4, <1>7, <3>2 DEF Links
    <3>4. s[Len(s)] # h /\ s[Len(s)] \in Nodes /\ nx[s[Len(s)]] = h /\ pv[h] = s[Len(s)]
      BY <1>3, <1>4, <3>1
    <3>5. nx2[s[Len(s)]] = h /\ pv2[h] = s[Len(s)]
      BY <1>4, <1>7, <3>2, <3>4 DEF Links
    <3> QED
      BY <1>2, <3>1, <3>3, <3>5
  <2>3. ASSUME NEW i \in 1 + 1 .. 1 + n - 1
        PROVE  nx2[s[i]] = s[i + 1] /\ pv2[s[i + 1]] = s[i]
    <3>1. i \in 1 .. Len(s) /\ i + 1 \in 1 .. Len(s) /\ 2 \in 1 .. Len(s) /\ i + 1 # 2 /\ (i + 1) - 1 = i
      BY <1>2
    <3>2. s[i + 1] # s[2] /\ s[i] # h /\ s[i] \in Nodes /\ s[i + 1] \in Nodes /\ Node(h, s, 2) = s[2]
      BY <1>1, <1>4, <3>1 DEF Distinct
    <3>3. nx[s[i]] = s[i + 1] /\ pv[s[i + 1]] = s[i]
      <4>1. nx[s[i]] = Node(h, s, i + 1) /\ pv[s[i + 1]] = Node(h, s, (i + 1) - 1)
        BY <1>3, <3>1
      <4> QED
        BY <1>4, <3>1, <4>1
    <3> QED
      BY <1>7, <3>2, <3>3 DEF Links
  <2>4. LinksPart(nx2, pv2, h, s, 1, n)
    BY <2>1, <2>2, <2>3 DEF LinksPart
  <2>5. 1 \in Nat /\ 1 + n <= Len(s)
    BY <1>1, <1>2
  <2> QED
    BY <1>1, <2>4, <2>5, PartLinked
<1> QED
  BY <1>0, <1>5, <1>8, <1>9, <1>10

\* The list h is cut behind its k-th entry e, and the first part goes to t.
CutAt(nx, pv, nx2, pv2, t, h, e) ==
    /\ nx2 = [nx EXCEPT ![t] = nx[h], ![e] = t, ![h] = nx[e]]
    /\ pv2 = [pv EXCEPT ![nx[h]] = t, ![t] = e, ![nx[e]] = h]

\* s has k entries and n more.
TwoParts(s, k, n) == k \in Nat /\ k # 0 /\ n \in Nat /\ n # 0 /\ k + n = Len(s)

\* What the cut leaves in the two lists, and outside of them.
AreCut(nx, pv, nx2, pv2, t, h, s, k, n) ==
    /\ nx2 \in Links /\ pv2 \in Links
    /\ IsList(nx2, pv2, t, Part(s, 0, k)) /\ IsList(nx2, pv2, h, Part(s, k, n))
    /\ \A x \in Nodes \ ({h, t} \cup Range(s)) : nx2[x] = nx[x] /\ pv2[x] = pv[x]

LEMMA CutIs ==
  ASSUME NEW nx \in Links, NEW pv \in Links, NEW h \in Heads, NEW t \in Heads, h # t,
         NEW s, IsList(nx, pv, h, s), NEW k, NEW n, TwoParts(s, k, n),
         NEW nx2, NEW pv2, NEW e, e = s[k], CutAt(nx, pv, nx2, pv2, t, h, e)
  PROVE  AreCut(nx, pv, nx2, pv2, t, h, s, k, n)
<1> USE DEF TwoParts
<1>1. s \in Seq(Tasks) /\ Distinct(s) /\ Len(s) \in Nat
  BY InRange DEF IsList
<1>2. Ends(nx, pv, h, s)
  BY ListEnds
<1>3. 1 \in 1 .. Len(s) /\ k \in 1 .. Len(s) /\ k + 1 \in 1 .. Len(s) /\ Len(s) \in 1 .. Len(s)
  BY <1>1
<1>4. /\ \A i \in 1 .. Len(s) : /\ Node(h, s, i) = s[i] /\ s[i] \in Nodes /\ s[i] \in Range(s)
                                /\ s[i] # h /\ s[i] # t
      /\ h \in Nodes /\ t \in Nodes
  <2>1. \A i \in 1 .. Len(s) : s[i] \in Tasks /\ s[i] \in Range(s) /\ Node(h, s, i) = s[i]
    BY <1>1, InRange DEF Node
  <2> QED
    BY <2>1, TasksNoHeads
<1>5. nx[h] = s[1] /\ nx[s[k]] = s[k + 1] /\ pv[h] = s[Len(s)] /\ nx[s[Len(s)]] = h
  <2>1. Node(h, s, 1) = s[1] /\ Node(h, s, k + 1) = s[k + 1] /\ Node(h, s, Len(s)) = s[Len(s)]
    BY <1>3, <1>4
  <2>2. Node(h, s, Len(s) + 1) = h
    BY <1>1 DEF Node
  <2> QED
    BY <1>2, <1>3, <2>1, <2>2 DEF Ends
<1>6. ASSUME NEW i \in 1 .. Len(s), i + 1 \in 1 .. Len(s)
      PROVE  nx[s[i]] = s[i + 1] /\ pv[s[i + 1]] = s[i]
  <2>1. (i + 1) - 1 = i
    OBVIOUS
  <2> QED
    BY <1>2, <1>4, <1>6, <2>1 DEF Ends
<1>7. /\ nx2 = [nx EXCEPT ![t] = s[1], ![s[k]] = t, ![h] = s[k + 1]]
      /\ pv2 = [pv EXCEPT ![s[1]] = t, ![t] = s[k], ![s[k + 1]] = h]
  BY <1>5 DEF CutAt
<1>8. /\ nx2 \in Links /\ pv2 \in Links
      /\ \A x \in Nodes : nx2[x] = IF x = h THEN s[k + 1] ELSE IF x = s[k] THEN t
                                   ELSE IF x = t THEN s[1] ELSE nx[x]
      /\ \A x \in Nodes : pv2[x] = IF x = s[k + 1] THEN h ELSE IF x = t THEN s[k]
                                   ELSE IF x = s[1] THEN t ELSE pv[x]
  BY <1>3, <1>4, <1>7 DEF Links
<1>9. \A x \in Nodes \ ({h, t} \cup Range(s)) : nx2[x] = nx[x] /\ pv2[x] = pv[x]
  BY <1>3, <1>4, <1>8
<1>10. \A i, j \in 1 .. Len(s) : s[i] = s[j] => i = j
  BY <1>1 DEF Distinct
<1>11. LinksPart(nx2, pv2, t, s, 0, k)
  <2>1. nx2[t] = s[1] /\ pv2[s[1]] = t /\ nx2[s[k]] = t /\ pv2[t] = s[k]
    <3>1. s[1] # s[k + 1]
      BY <1>3, <1>10
    <3> QED
      BY <1>3, <1>4, <1>8, <3>1
  <2>2. ASSUME NEW i \in 0 + 1 .. 0 + k - 1
        PROVE  nx2[s[i]] = s[i + 1] /\ pv2[s[i + 1]] = s[i]
    <3>1. i \in 1 .. Len(s) /\ i + 1 \in 1 .. Len(s) /\ i # k /\ i + 1 # 1 /\ i + 1 # k + 1
      BY <1>1
    <3>2. s[i] # s[k] /\ s[i + 1] # s[1] /\ s[i + 1] # s[k + 1]
      BY <1>3, <1>10, <3>1
    <3> QED
      BY <1>4, <1>6, <1>8, <3>1, <3>2
  <2>3. 0 + 1 = 1 /\ 0 + k = k
    OBVIOUS
  <2> QED
    BY <2>1, <2>2, <2>3 DEF LinksPart
<1>12. LinksPart(nx2, pv2, h, s, k, n)
  <2>1. nx2[h] = s[k + 1] /\ pv2[s[k + 1]] = h /\ nx2[s[Len(s)]] = h /\ pv2[h] = s[Len(s)]
    <3>1. s[Len(s)] # s[k]
      BY <1>1, <1>3, <1>10
    <3> QED
      BY <1>3, <1>4, <1>5, <1>8, <3>1
  <2>2. ASSUME NEW i \in k + 1 .. k + n - 1
        PROVE  nx2[s[i]] = s[i + 1] /\ pv2[s[i + 1]] = s[i]
    <3>1. i \in 1 .. Len(s) /\ i + 1 \in 1 .. Len(s) /\ i # k /\ i + 1 # 1 /\ i + 1 # k + 1
      BY <1>1
    <3>2. s[i] # s[k] /\ s[i + 1] # s[1] /\ s[i + 1] # s[k + 1]
      BY <1>3, <1>10, <3>1
    <3> QED
      BY <1>4, <1>6, <1>8, <3>1, <3>2
  <2> QED
    BY <2>1, <2>2 DEF LinksPart
<1>13. 0 \in Nat /\ 0 + k <= Len(s) /\ k + n <= Len(s)
  BY <1>1
<1>14. IsList(nx2, pv2, t, Part(s, 0, k))
  BY <1>1, <1>11, <1>13, PartLinked
<1>15. IsList(nx2, pv2, h, Part(s, k, n))
  BY <1>1, <1>12, <1>13, PartLinked
<1> QED
  BY <1>8, <1>9, <1>14, <1>15 DEF AreCut

\* All of the list h goes to t; the head h is left as it is.
AllMoved(nx, pv, nx2, pv2, t, h) ==
    /\ nx2 = [nx EXCEPT ![t] = nx[h], ![pv[h]] = t]
    /\ pv2 = [pv EXCEPT ![nx[h]] = t, ![t] = pv[h]]

LEMMA MovedIs ==
  ASSUME NEW nx \in Links, NEW pv \in Links, NEW h \in Heads, NEW t \in Heads, h # t,
         NEW s, IsList(nx, pv, h, s), NEW n \in Nat, n = Len(s), n # 0,
         NEW nx2, NEW pv2, AllMoved(nx, pv, nx2, pv2, t, h)
  PROVE  /\ nx2 \in Links /\ pv2 \in Links
         /\ IsList(nx2, pv2, t, Part(s, 0, n))
         /\ \A x \in Nodes \ ({h, t} \cup Range(s)) : nx2[x] = nx[x] /\ pv2[x] = pv[x]
<1>1. s \in Seq(Tasks) /\ Distinct(s)
  BY DEF IsList
<1>2. Ends(nx, pv, h, s)
  BY ListEnds
<1>3. 1 \in 1 .. Len(s) /\ n \in 1 .. Len(s)
  OBVIOUS
<1>4. /\ \A i \in 1 .. Len(s) : /\ Node(h, s, i) = s[i] /\ s[i] \in Nodes /\ s[i] \in Range(s)
                                /\ s[i] # h /\ s[i] # t
      /\ h \in Nodes /\ t \in Nodes
  <2>1. \A i \in 1 .. Len(s) : s[i] \in Tasks /\ s[i] \in Range(s) /\ Node(h, s, i) = s[i]
    BY <1>1, InRange DEF Node
  <2> QED
    BY <2>1, TasksNoHeads
<1>5. nx[h] = s[1] /\ pv[h] = s[n]
  BY <1>2, <1>3, <1>4 DEF Ends
<1>6. ASSUME NEW i \in 1 .. Len(s), i + 1 \in 1 .. Len(s)
      PROVE  nx[s[i]] = s[i + 1] /\ pv[s[i + 1]] = s[i]
  <2>1. (i + 1) - 1 = i
    OBVIOUS
  <2> QED
    BY <1>2, <1>4, <1>6, <2>1 DEF Ends
<1>7. /\ nx2 = [nx EXCEPT ![t] = s[1], ![s[n]] = t]
      /\ pv2 = [pv EXCEPT ![s[1]] = t, ![t] = s[n]]
  BY <1>5 DEF AllMoved
<1>8. /\ nx2 \in Links /\ pv2 \in Links
      /\ \A x \in Nodes : nx2[x] = IF x = s[n] THEN t ELSE IF x = t THEN s[1] ELSE nx[x]
      /\ \A x \in Nodes : pv2[x] = IF x = t THEN s[n] ELSE IF x = s[1] THEN t ELSE pv[x]
  BY <1>3, <1>4, <1>7 DEF Links
<1>9. \A x \in Nodes \ ({h, t} \cup Range(s)) : nx2[x] = nx[x] /\ pv2[x] = pv[x]
  BY <1>3, <1>4, <1>8
<1>10. \A i, j \in 1 .. Len(s) : s[i] = s[j] => i = j
  BY <1>1 DEF Distinct
<1>11. LinksPart(nx2, pv2, t, s, 0, n)
  <2>1. nx2[t] = s[1] /\ pv2[s[1]] = t /\ nx2[s[n]] = t /\ pv2[t] = s[n]
    BY <1>3, <1>4, <1>8
  <2>2. ASSUME NEW i \in 0 + 1 .. 0 + n - 1
        PROVE  nx2[s[i]] = s[i + 1] /\ pv2[s[i + 1]] = s[i]
    <3>1. i \in 1 .. Len(s) /\ i + 1 \in 1 .. Len(s) /\ i # n /\ i + 1 # 1
      OBVIOUS
    <3>2. s[i] # s[n] /\ s[i + 1] # s[1]
      BY <1>3, <1>10, <3>1
    <3> QED
      BY <1>4, <1>6, <1>8, <3>1, <3>2
  <2>3. 0 + 1 = 1 /\ 0 + n = n
    OBVIOUS
  <2> QED
    BY <2>1, <2>2, <2>3 DEF LinksPart
<1>12. 0 \in Nat /\ 0 + n <= Len(s)
  OBVIOUS
<1>13. IsList(nx2, pv2, t, Part(s, 0, n))
  BY <1>1, <1>11, <1>12, PartLinked
<1> QED
  BY <1>8, <1>9, <1>13

-----------------------------------------------------------------------------
(***************************************************************************)
(* The invariant                                                           *)
(***************************************************************************)

\* What becomes of the tasks in the list h.
Kind(h) == IF h \in Threads THEN "taken" ELSE IF h = R THEN "pending" ELSE "removed"

\* The heads whose links are those of a list: the ready queue until mark_cb leaves
\* tasks in it that are also elsewhere, the other queue until all of it was taken and
\* its head left as it was.
Live == Threads \cup (IF marked THEN {} ELSE {R}) \cup (IF emptied THEN {} ELSE {Q})

\* Each list holds the tasks it is there for, and no two hold the same.
Owns(L) ==
    /\ \A h \in Live : \A x \in Range(L[h]) : state[x] = Kind(h)
    /\ \A g, h \in Live : g # h => Range(L[g]) \cap Range(L[h]) = {}
    /\ \A x \in Tasks :
        /\ state[x] = "taken" => \E t \in Threads : x \in Range(L[t])
        /\ state[x] = "pending" /\ ~marked => x \in Range(L[R])
        /\ state[x] = "removed" => ~emptied /\ x \in Range(L[Q])

CountsOf(L) ==
    /\ ~marked => npendings = Len(L[R])
    /\ n_qdispatchs = IF emptied THEN 0 ELSE Len(L[Q])

\* L is what each head is followed by.
ListsAre(L) ==
    /\ L \in [Heads -> Seq(Tasks)]
    /\ \A h \in Live : IsList(next, prev, h, L[h])

DispatchIInv ==
    /\ TypeOK
    /\ marked => paused
    /\ \E L : ListsAre(L) /\ Owns(L) /\ CountsOf(L)

LEMMA LiveHeads == /\ Threads \subseteq Live /\ Live \subseteq Heads
                   /\ R \in Live <=> ~marked
                   /\ Q \in Live <=> ~emptied
BY TasksNoHeads DEF Live, Heads

LEMMA DispatchAtFirst ==
  ASSUME Init
  PROVE  DispatchIInv
<1> DEFINE L == [h \in Heads |-> <<>>]
<1>1. /\ next = [x \in Nodes |-> x] /\ prev = [x \in Nodes |-> x]
      /\ npendings = 0 /\ n_qdispatchs = 0 /\ state = [x \in Tasks |-> "out"]
      /\ paused \in BOOLEAN /\ emptied = FALSE /\ marked = FALSE
  BY DEF Init
<1>2. Cardinality(Tasks) \in Nat
  BY TasksNoHeads, FS_CardinalityType
<1>3. TypeOK
  <2>1. 0 \in 0 .. Cardinality(Tasks)
    BY <1>2
  <2> QED
    BY <1>1, <2>1 DEF TypeOK, TaskState
<1>4. <<>> \in Seq(Tasks) /\ Len(<<>>) = 0 /\ Range(<<>>) = {}
  BY EmptySeq DEF Range
<1>5. ASSUME NEW h \in Heads PROVE IsList(next, prev, h, <<>>)
  <2>1. next[h] = h /\ prev[h] = h
    BY <1>1, TasksNoHeads
  <2>2. \A i : Node(h, <<>>, i) = h
    BY <1>4 DEF Node
  <2>3. Linked(next, prev, h, <<>>)
    BY <2>1, <2>2 DEF Linked
  <2>4. Distinct(<<>>)
    BY <1>4 DEF Distinct
  <2> QED
    BY <1>4, <2>3, <2>4 DEF IsList
<1>6. \A h \in Heads : L[h] = <<>>
  OBVIOUS
<1>7. ListsAre(L)
  BY <1>4, <1>5, LiveHeads DEF ListsAre
<1> HIDE DEF L
<1>8. Owns(L)
  BY <1>1, <1>4, <1>6, LiveHeads DEF Owns
<1>9. CountsOf(L)
  BY <1>1, <1>4, <1>6, TasksNoHeads DEF CountsOf
<1> QED
  BY <1>1, <1>3, <1>7, <1>8, <1>9 DEF DispatchIInv

-----------------------------------------------------------------------------
(***************************************************************************)
(* The steps                                                               *)
(***************************************************************************)

\* The lists of heads whose links, and those of whose tasks, do not change.
LEMMA ListsStay ==
  ASSUME NEW L, ListsAre(L), NEW H, NEW X,
         \A x \in Nodes \ (H \cup X) : next'[x] = next[x] /\ prev'[x] = prev[x],
         X \cap Heads = {}, H \cap Tasks = {}, \A g \in Live \ H : Range(L[g]) \cap X = {}
  PROVE  \A g \in Live \ H : IsList(next', prev', g, L[g])
<1> TAKE g \in Live \ H
<1>1. g \in Heads /\ g \in Nodes /\ L[g] \in Seq(Tasks) /\ IsList(next, prev, g, L[g])
  BY LiveHeads, TasksNoHeads DEF ListsAre
<1>2. Range(L[g]) \subseteq Tasks
  BY <1>1, InRange
<1>3. \A x \in {g} \cup Range(L[g]) : x \in Nodes \ (H \cup X)
  BY <1>1, <1>2, TasksNoHeads
<1>4. SameLinks(next, prev, next', prev', g, L[g])
  BY <1>3 DEF SameLinks
<1> QED
  BY <1>1, <1>4, ListStays

\* The numbers stay in their bounds.
LEMMA CountsBound ==
  ASSUME NEW L \in [Heads -> Seq(Tasks)], NEW h \in Heads, Distinct(L[h])
  PROVE  Len(L[h]) \in 0 .. Cardinality(Tasks)
<1>1. L[h] \in Seq(Tasks)
  OBVIOUS
<1>2. Len(L[h]) <= Cardinality(Tasks) /\ Cardinality(Tasks) \in Nat /\ Len(L[h]) \in Nat
  BY <1>1, ListLength, InRange
<1> QED
  BY <1>2

LEMMA MarkType ==
  ASSUME state \in [Tasks -> TaskState], NEW X, NEW s \in TaskState, Mark(X, s)
  PROVE  /\ state' \in [Tasks -> TaskState]
         /\ \A x \in Tasks : state'[x] = IF x \in X THEN s ELSE state[x]
BY DEF Mark

\* A thread without tasks has an empty list.
LEMMA IdleIs ==
  ASSUME NEW L, ListsAre(L), NEW t \in Live
  PROVE  next[t] = t <=> L[t] = <<>>
<1>1. t \in Heads /\ IsList(next, prev, t, L[t])
  BY LiveHeads DEF ListsAre
<1>2. Ends(next, prev, t, L[t])
  BY <1>1, ListEnds
<1> QED
  BY <1>2 DEF Ends

\* One task more is pending.
LEMMA QueueKeeps ==
  ASSUME DispatchIInv, NEW x \in Tasks, Queue(x), Refill = FALSE
  PROVE  DispatchIInv'
<1>1. PICK L : ListsAre(L) /\ Owns(L) /\ CountsOf(L)
  BY DEF DispatchIInv
<1>2. ~marked /\ TypeOK /\ state[x] = "out" /\ paused' = paused
      /\ n_qdispatchs' = n_qdispatchs /\ emptied' = emptied /\ marked' = marked
      /\ npendings' = npendings + 1 /\ Mark({x}, "pending") /\ Insert(<<x>>, prev[R], R)
  BY DEF Queue, DispatchIInv
<1> DEFINE c == L[R]
           m == Len(c)
           s == <<x>>
           d == Spliced(c, m, s)
           M == [L EXCEPT ![R] = d]
<1>3. R \in Heads /\ R \in Live /\ IsList(next, prev, R, c) /\ c \in Seq(Tasks) /\ m \in Nat
      /\ Distinct(c)
  BY <1>1, <1>2, LiveHeads, TasksNoHeads, InRange DEF ListsAre, IsList
<1>4. s \in Seq(Tasks) /\ Len(s) = 1 /\ s[1] = x /\ s # <<>> /\ Range(s) = {x}
  BY DEF Range
<1>5. Distinct(s)
  BY <1>4 DEF Distinct
<1>6. \A h \in Live : x \notin Range(L[h])
  BY <1>1, <1>2 DEF Owns, Kind
<1>7. Range(c) \cap Range(s) = {}
  BY <1>3, <1>4, <1>6
<1>8. m \in 0 .. Len(c) /\ next \in Links /\ prev \in Links
  BY <1>2, <1>3 DEF TypeOK, Links
<1>9. prev[R] = Node(R, c, m) /\ R = Node(R, c, m + 1)
  <2>1. Ends(next, prev, R, c)
    BY <1>3, ListEnds
  <2> QED
    BY <1>3, <2>1 DEF Ends, Node
<1> HIDE DEF s, c, m
<1>10. IsList(Between(s, prev[R], R)[1], Between(s, prev[R], R)[2], R, d)
  <2>1. LET l == Between(s, Node(R, c, m), Node(R, c, m + 1))
        IN  IsList(l[1], l[2], R, Spliced(c, m, s))
    BY <1>3, <1>4, <1>5, <1>7, <1>8, BetweenIs
  <2> QED
    BY <1>9, <2>1
<1>11. next' = Between(s, prev[R], R)[1] /\ prev' = Between(s, prev[R], R)[2]
  BY <1>2 DEF Insert, s
<1>12. d \in Seq(Tasks) /\ Len(d) = m + 1 /\ Distinct(d) /\ Range(d) = Range(c) \cup {x}
  BY <1>3, <1>4, <1>5, <1>7, <1>8, SplicedIs DEF m
<1>13. prev[R] \in Nodes /\ R \in Nodes /\ prev[R] \notin Range(s) /\ R \notin Range(s)
       /\ prev[R] \in {R} \cup Range(c)
  BY <1>3, <1>4, <1>7, <1>9, NodesOf, TasksNoHeads
<1>14. /\ next' \in Links /\ prev' \in Links
       /\ \A y \in Nodes \ Range(s) : (y # prev[R] => next'[y] = next[y])
                                      /\ (y # R => prev'[y] = prev[y])
  BY <1>4, <1>5, <1>8, <1>11, <1>13, BetweenLinks
<1> HIDE DEF d
<1>15. \A g \in Live \ {R} : IsList(next', prev', g, L[g])
  <2>1. \A y \in Nodes \ ({R} \cup (Range(c) \cup {x})) : next'[y] = next[y] /\ prev'[y] = prev[y]
    BY <1>4, <1>13, <1>14
  <2>2. (Range(c) \cup {x}) \cap Heads = {} /\ {R} \cap Tasks = {}
    BY <1>3, InRange, TasksNoHeads
  <2>3. \A g \in Live \ {R} : Range(L[g]) \cap (Range(c) \cup {x}) = {}
    BY <1>1, <1>3, <1>6 DEF Owns, c
  <2> QED
    BY <1>1, <2>1, <2>2, <2>3, ListsStay
<1>16. Live' = Live
  BY <1>2 DEF Live
<1>17. M \in [Heads -> Seq(Tasks)] /\ M[R] = d /\ \A h \in Heads \ {R} : M[h] = L[h]
  BY <1>1, <1>3, <1>12 DEF ListsAre
<1> HIDE DEF M
<1>18. ListsAre(M)'
  <2>1. \A h \in Live : IsList(next', prev', h, M[h])
    BY <1>10, <1>11, <1>15, <1>17, LiveHeads
  <2> QED
    BY <1>16, <1>17, <2>1 DEF ListsAre
<1>19. /\ state' \in [Tasks -> TaskState]
       /\ \A y \in Tasks : state'[y] = IF y = x THEN "pending" ELSE state[y]
  BY <1>2, MarkType DEF TypeOK, TaskState
<1>20. Owns(M)'
  <2>1. /\ Range(M[R]) = Range(L[R]) \cup {x}
        /\ \A h \in Heads \ {R} : Range(M[h]) = Range(L[h])
        /\ \A h \in Live : Range(L[h]) \subseteq Tasks
    BY <1>1, <1>12, <1>17, InRange, LiveHeads DEF ListsAre, c
  <2>2. \A h \in Live : \A y \in Range(M[h]) : state'[y] = Kind(h)
    BY <1>1, <1>2, <1>6, <1>19, <2>1, LiveHeads, TasksNoHeads DEF Owns, Kind
  <2>3. \A g, h \in Live : g # h => Range(M[g]) \cap Range(M[h]) = {}
    BY <1>1, <1>6, <2>1, LiveHeads DEF Owns
  <2>4. \A y \in Tasks :
        /\ state'[y] = "taken" => \E t \in Threads : y \in Range(M[t])
        /\ state'[y] = "pending" /\ ~marked' => y \in Range(M[R])
        /\ state'[y] = "removed" => ~emptied' /\ y \in Range(M[Q])
    BY <1>1, <1>2, <1>19, <2>1, TasksNoHeads DEF Owns
  <2> QED
    BY <1>16, <2>2, <2>3, <2>4 DEF Owns, Kind
<1>21. CountsOf(M)'
  BY <1>1, <1>2, <1>12, <1>17, TasksNoHeads DEF CountsOf, m, c
<1>22. TypeOK'
  <2>1. npendings' \in 0 .. Cardinality(Tasks)
    <3>1. npendings' = Len(M[R])
      BY <1>2, <1>21 DEF CountsOf
    <3> QED
      BY <1>3, <1>12, <1>17, <3>1, CountsBound
  <2> QED
    BY <1>2, <1>14, <1>19, <2>1 DEF TypeOK, Links
<1> QED
  BY <1>2, <1>18, <1>20, <1>21, <1>22 DEF DispatchIInv

\* list_splice: the ready queue comes to the front of the other one.
LEMMA RemoveAllKeeps ==
  ASSUME DispatchIInv, RemoveAll, Refill = FALSE
  PROVE  DispatchIInv'
<1>1. PICK L : ListsAre(L) /\ Owns(L) /\ CountsOf(L)
  BY DEF DispatchIInv
<1>2. ~marked /\ ~emptied /\ TypeOK /\ npendings > 0 /\ paused' = paused
      /\ emptied' = emptied /\ marked' = marked /\ npendings' = 0
      /\ n_qdispatchs' = n_qdispatchs + npendings
  BY DEF RemoveAll, MayRemove, DispatchIInv
<1> DEFINE c == L[Q]
           s == L[R]
           d == Spliced(c, 0, s)
           nx == Between(s, Q, next[Q])[1]
           pv == Between(s, Q, next[Q])[2]
           M == [L EXCEPT ![Q] = d, ![R] = <<>>]
<1>3. /\ R \in Heads /\ R \in Live /\ IsList(next, prev, R, s) /\ s \in Seq(Tasks)
      /\ Len(s) \in Nat /\ Distinct(s)
      /\ Q \in Heads /\ Q \in Live /\ IsList(next, prev, Q, c) /\ c \in Seq(Tasks)
      /\ Len(c) \in Nat /\ Distinct(c)
  BY <1>1, <1>2, LiveHeads, TasksNoHeads, InRange DEF ListsAre, IsList
<1>4. npendings = Len(s) /\ n_qdispatchs = Len(c) /\ s # <<>>
  BY <1>1, <1>2, EmptySeq DEF CountsOf
<1>5. Range(c) \cap Range(s) = {} /\ Range(c) \subseteq Tasks /\ Range(s) \subseteq Tasks
  BY <1>1, <1>3, TasksNoHeads, InRange DEF Owns
<1>6. 0 \in 0 .. Len(c) /\ next \in Links /\ prev \in Links
  BY <1>2, <1>3 DEF TypeOK, Links
<1>7. Q = Node(Q, c, 0) /\ next[Q] = Node(Q, c, 0 + 1)
  <2>1. Ends(next, prev, Q, c)
    BY <1>3, ListEnds
  <2>2. 0 + 1 = 1 /\ 0 \notin 1 .. Len(c)
    OBVIOUS
  <2> QED
    BY <2>1, <2>2 DEF Ends, Node
<1>8. [i \in 1 .. npendings |-> Entry(R, i)] = s
  <2>1. Len(s) \in 0 .. Len(s)
    BY <1>3
  <2>2. \A i \in 1 .. Len(s) : Entry(R, i) = s[i]
    BY <1>3, <2>1, EntriesOf
  <2>3. s = [i \in 1 .. Len(s) |-> s[i]]
    BY <1>3, LenProperties
  <2> QED
    BY <1>4, <2>2, <2>3
<1> HIDE DEF s, c
<1>9. /\ next' = [nx EXCEPT ![R] = R] /\ prev' = [pv EXCEPT ![R] = R]
      /\ Mark(Range(s), "removed")
  BY <1>8 DEF RemoveAll
<1>10. IsList(nx, pv, Q, d)
  <2>1. LET l == Between(s, Node(Q, c, 0), Node(Q, c, 0 + 1))
        IN  IsList(l[1], l[2], Q, Spliced(c, 0, s))
    BY <1>3, <1>4, <1>5, <1>6, BetweenIs
  <2> QED
    BY <1>7, <2>1
<1>11. d \in Seq(Tasks) /\ Len(d) = Len(c) + Len(s) /\ Distinct(d)
       /\ Range(d) = Range(c) \cup Range(s)
  BY <1>3, <1>5, <1>6, SplicedIs
<1>12. next[Q] \in Nodes /\ Q \in Nodes /\ next[Q] \notin Range(s) /\ Q \notin Range(s)
       /\ next[Q] \in {Q} \cup Range(c)
  BY <1>3, <1>5, <1>7, NodesOf, TasksNoHeads
<1>13. /\ nx \in Links /\ pv \in Links
       /\ \A y \in Nodes \ Range(s) : (y # Q => nx[y] = next[y])
                                      /\ (y # next[Q] => pv[y] = prev[y])
  BY <1>3, <1>4, <1>6, <1>12, BetweenLinks
<1> HIDE DEF d, nx, pv
<1>14. /\ next' \in Links /\ prev' \in Links /\ next'[R] = R /\ prev'[R] = R
       /\ \A y \in Nodes \ {R} : next'[y] = nx[y] /\ prev'[y] = pv[y]
  BY <1>9, <1>13, TasksNoHeads DEF Links
<1>15. IsList(next', prev', Q, d)
  <2>1. \A y \in {Q} \cup Range(d) : y \in Nodes \ {R}
    BY <1>5, <1>11, TasksNoHeads
  <2>2. SameLinks(nx, pv, next', prev', Q, d)
    BY <1>14, <2>1 DEF SameLinks
  <2> QED
    BY <1>3, <1>10, <2>2, ListStays
<1>16. IsList(next', prev', R, <<>>)
  <2>1. <<>> \in Seq(Tasks) /\ Len(<<>>) = 0
    BY EmptySeq
  <2>2. \A i : Node(R, <<>>, i) = R
    BY <2>1 DEF Node
  <2> QED
    BY <1>14, <2>1, <2>2 DEF IsList, Linked, Distinct
<1>17. \A g \in Live \ {Q, R} : IsList(next', prev', g, L[g])
  <2>1. \A y \in Nodes \ ({Q, R} \cup (Range(c) \cup Range(s))) :
            next'[y] = next[y] /\ prev'[y] = prev[y]
    BY <1>12, <1>13, <1>14
  <2>2. (Range(c) \cup Range(s)) \cap Heads = {} /\ {Q, R} \cap Tasks = {}
    BY <1>5, TasksNoHeads
  <2>3. \A g \in Live \ {Q, R} : Range(L[g]) \cap (Range(c) \cup Range(s)) = {}
    BY <1>1, <1>3 DEF Owns, c, s
  <2> QED
    BY <1>1, <2>1, <2>2, <2>3, ListsStay
<1>18. Live' = Live
  BY <1>2 DEF Live
<1>19. /\ M \in [Heads -> Seq(Tasks)] /\ M[Q] = d /\ M[R] = <<>>
       /\ \A h \in Heads \ {Q, R} : M[h] = L[h]
  BY <1>1, <1>3, <1>11, TasksNoHeads, EmptySeq DEF ListsAre
<1> HIDE DEF M
<1>20. ListsAre(M)'
  <2>1. \A h \in Live : IsList(next', prev', h, M[h])
    BY <1>15, <1>16, <1>17, <1>19, LiveHeads
  <2> QED
    BY <1>18, <1>19, <2>1 DEF ListsAre
<1>21. /\ state' \in [Tasks -> TaskState]
       /\ \A y \in Tasks : state'[y] = IF y \in Range(s) THEN "removed" ELSE state[y]
  BY <1>2, <1>9, MarkType DEF TypeOK, TaskState
<1>22. Owns(M)'
  <2>1. /\ Range(M[Q]) = Range(L[Q]) \cup Range(L[R]) /\ Range(M[R]) = {}
        /\ \A h \in Heads \ {Q, R} : Range(M[h]) = Range(L[h])
        /\ \A h \in Live : Range(L[h]) \subseteq Tasks
    <3>1. Range(<<>>) = {}
      BY EmptySeq DEF Range
    <3>2. \A h \in Live : Range(L[h]) \subseteq Tasks
      BY <1>1, InRange, LiveHeads DEF ListsAre
    <3> QED
      BY <1>11, <1>19, <3>1, <3>2 DEF c, s
  <2>2. \A h \in Live : \A y \in Range(M[h]) : state'[y] = Kind(h)
    <3> TAKE h \in Live
    <3> TAKE y \in Range(M[h])
    <3>1. CASE h = Q
      BY <1>1, <1>3, <1>21, <2>1, <3>1, TasksNoHeads DEF Owns, Kind, s
    <3>2. CASE h = R
      BY <2>1, <3>2
    <3>3. CASE h \notin {Q, R}
      <4>1. y \in Range(L[h]) /\ h \in Heads /\ y \in Tasks
        BY <2>1, <3>3, LiveHeads
      <4>2. y \notin Range(s)
        BY <1>1, <1>3, <3>3, <4>1 DEF Owns, s
      <4> QED
        BY <1>1, <1>21, <4>1, <4>2 DEF Owns
    <3> QED
      BY <3>1, <3>2, <3>3
  <2>3. \A g, h \in Live : g # h => Range(M[g]) \cap Range(M[h]) = {}
    <3> SUFFICES ASSUME NEW g \in Live, NEW h \in Live, NEW y,
                        y \in Range(M[g]), y \in Range(M[h]) PROVE g = h
      OBVIOUS
    <3>1. \A f \in Live : y \in Range(M[f]) =>
                f # R /\ (y \in Range(L[f]) \/ (f = Q /\ y \in Range(L[R])))
      BY <2>1, LiveHeads
    <3> QED
      BY <1>1, <1>3, <3>1 DEF Owns
  <2>4. \A y \in Tasks :
        /\ state'[y] = "taken" => \E t \in Threads : y \in Range(M[t])
        /\ state'[y] = "pending" /\ ~marked' => y \in Range(M[R])
        /\ state'[y] = "removed" => ~emptied' /\ y \in Range(M[Q])
    <3> TAKE y \in Tasks
    <3>1. CASE y \in Range(s)
      BY <1>2, <1>21, <2>1, <3>1 DEF s
    <3>2. CASE y \notin Range(s)
      <4>1. state'[y] = state[y] /\ y \notin Range(L[R])
        BY <1>21, <3>2 DEF s
      <4>2. \A t \in Threads : Range(M[t]) = Range(L[t])
        BY <2>1, TasksNoHeads
      <4> QED
        BY <1>1, <1>2, <2>1, <4>1, <4>2 DEF Owns
    <3> QED
      BY <3>1, <3>2
  <2> QED
    BY <1>18, <2>2, <2>3, <2>4 DEF Owns, Kind
<1>23. CountsOf(M)'
  BY <1>2, <1>3, <1>4, <1>11, <1>19, EmptySeq DEF CountsOf
<1>24. TypeOK'
  <2>1. n_qdispatchs' \in 0 .. Cardinality(Tasks)
    <3>1. n_qdispatchs' = Len(M[Q])
      BY <1>2, <1>23 DEF CountsOf
    <3> QED
      BY <1>3, <1>11, <1>19, <3>1, CountsBound
  <2>2. 0 \in 0 .. Cardinality(Tasks)
    BY TasksNoHeads, FS_CardinalityType
  <2> QED
    BY <1>2, <1>14, <1>21, <2>1, <2>2 DEF TypeOK, Links
<1> QED
  BY <1>2, <1>20, <1>22, <1>23, <1>24 DEF DispatchIInv

\* The tasks that mark_cb picks are some of those pending, each once.
SomeOf(s, c) == /\ s \in Seq(Tasks) /\ Distinct(s) /\ s # <<>>
                /\ Range(s) \subseteq Range(c)

Picked(c, at, k) == [i \in 1 .. k |-> c[at[i]]]

Rising(at, k) == \A i, j \in 1 .. k : i < j => at[i] < at[j]

LEMMA PicksAre ==
  ASSUME NEW c \in Seq(Tasks), Distinct(c), NEW n \in Nat, n = Len(c),
         NEW k \in 1 .. n, NEW at \in [1 .. k -> 1 .. n],
         Rising(at, k)
  PROVE  SomeOf(Picked(c, at, k), c) /\ Len(Picked(c, at, k)) = k
<1> DEFINE s == Picked(c, at, k)
<1>1. \A i \in 1 .. k : at[i] \in 1 .. n /\ c[at[i]] \in Range(c) /\ c[at[i]] \in Tasks
  BY InRange
<1>2. s \in [1 .. k -> Tasks] /\ \A i \in 1 .. k : s[i] = c[at[i]]
  BY <1>1 DEF Picked
<1> HIDE DEF s
<1>3. s \in Seq(Tasks) /\ Len(s) = k
  BY <1>2, LenProperties
<1>4. Distinct(s)
  <2> SUFFICES ASSUME NEW i \in 1 .. k, NEW j \in 1 .. k, s[i] = s[j] PROVE i = j
    BY <1>3 DEF Distinct
  <2>1. at[i] = at[j]
    BY <1>1, <1>2 DEF Distinct
  <2>2. ~(i < j) /\ ~(j < i)
    BY <1>1, <2>1 DEF Rising
  <2> QED
    BY <2>2
<1>5. s # <<>>
  BY <1>3, EmptySeq
<1>6. Range(s) \subseteq Range(c)
  <2> SUFFICES ASSUME NEW x \in Range(s) PROVE x \in Range(c)
    OBVIOUS
  <2>1. PICK i \in 1 .. Len(s) : x = s[i]
    BY <1>3, InRange
  <2> QED
    BY <1>1, <1>2, <1>3, <2>1
<1> QED
  BY <1>3, <1>4, <1>5, <1>6 DEF SomeOf, s

\* list_add_tail to the queue of removed tasks; the ready queue is left behind.
LEMMA MarkCbKeeps ==
  ASSUME DispatchIInv, MarkCb, Refill = FALSE, "cb" \notin Removals[FALSE]
  PROVE  DispatchIInv'
<1>1. PICK L : ListsAre(L) /\ Owns(L) /\ CountsOf(L)
  BY DEF DispatchIInv
<1>2. ~marked /\ ~emptied /\ TypeOK /\ paused' = paused /\ emptied' = emptied
      /\ marked' = TRUE /\ npendings' = npendings
  BY DEF MarkCb, MayRemove, DispatchIInv
<1>3. paused = TRUE
  BY <1>2 DEF MarkCb, MayRemove, TypeOK
<1> DEFINE c == L[Q]
           p == L[R]
           m == Len(c)
<1>4. /\ R \in Heads /\ R \in Live /\ IsList(next, prev, R, p) /\ p \in Seq(Tasks)
      /\ Len(p) \in Nat /\ Distinct(p)
      /\ Q \in Heads /\ Q \in Live /\ IsList(next, prev, Q, c) /\ c \in Seq(Tasks)
      /\ m \in Nat /\ Distinct(c)
  BY <1>1, <1>2, LiveHeads, TasksNoHeads, InRange DEF ListsAre, IsList
<1>5. npendings = Len(p) /\ n_qdispatchs = m
  BY <1>1, <1>2 DEF CountsOf
<1> HIDE DEF c, p, m
<1>6. PICK s : SomeOf(s, p) /\ Insert(s, prev[Q], Q) /\ Mark(Range(s), "removed")
               /\ n_qdispatchs' = n_qdispatchs + Len(s)
  <2>1. PICK k \in 1 .. npendings : \E at \in Picks(k) :
           LET s == [i \in 1 .. k |-> Entry(R, at[i])]
           IN  /\ Insert(s, prev[Q], Q)
               /\ Mark(Range(s), "removed")
               /\ n_qdispatchs' = n_qdispatchs + k
    BY DEF MarkCb
  <2>2. PICK at \in Picks(k) :
           LET s == [i \in 1 .. k |-> Entry(R, at[i])]
           IN  /\ Insert(s, prev[Q], Q)
               /\ Mark(Range(s), "removed")
               /\ n_qdispatchs' = n_qdispatchs + k
    BY <2>1
  <2> DEFINE e == [i \in 1 .. k |-> Entry(R, at[i])]
  <2>3. Insert(e, prev[Q], Q) /\ Mark(Range(e), "removed") /\ n_qdispatchs' = n_qdispatchs + k
    BY <2>2
  <2>4. at \in [1 .. k -> 1 .. npendings] /\ Rising(at, k)
    BY <2>2 DEF Picks, Rising
  <2>5. e = Picked(p, at, k)
    <3>1. Len(p) \in 0 .. Len(p)
      BY <1>4
    <3>2. \A i \in 1 .. npendings : Entry(R, i) = p[i]
      BY <1>4, <1>5, <3>1, EntriesOf
    <3> QED
      BY <2>4, <3>2 DEF Picked
  <2> HIDE DEF e
  <2>6. SomeOf(e, p) /\ Len(e) = k
    <3>1. npendings \in Nat /\ npendings = Len(p) /\ p \in Seq(Tasks) /\ Distinct(p)
      BY <1>4, <1>5
    <3> QED
      BY <2>1, <2>4, <2>5, <3>1, PicksAre
  <2> QED
    BY <2>3, <2>6
<1> DEFINE k == Len(s)
           d == Spliced(c, m, s)
           M == [L EXCEPT ![Q] = d]
<1>10. Insert(s, prev[Q], Q) /\ Mark(Range(s), "removed") /\ n_qdispatchs' = n_qdispatchs + k
  BY <1>6
<1>11. s \in Seq(Tasks) /\ Len(s) = k /\ Distinct(s) /\ s # <<>> /\ Range(s) \subseteq Range(p)
       /\ k \in Nat
  BY <1>6, LenProperties DEF SomeOf
<1> HIDE DEF k
<1>12. Range(c) \cap Range(s) = {} /\ Range(c) \subseteq Tasks /\ Range(s) \subseteq Tasks
  BY <1>1, <1>4, <1>11, TasksNoHeads, InRange DEF Owns, c, p
<1>13. m \in 0 .. Len(c) /\ next \in Links /\ prev \in Links
  BY <1>2, <1>4 DEF TypeOK, Links, m
<1>14. prev[Q] = Node(Q, c, m) /\ Q = Node(Q, c, m + 1)
  <2>1. Ends(next, prev, Q, c)
    BY <1>4, ListEnds
  <2> QED
    BY <1>4, <2>1 DEF Ends, Node, m
<1>15. IsList(Between(s, prev[Q], Q)[1], Between(s, prev[Q], Q)[2], Q, d)
  <2>1. LET l == Between(s, Node(Q, c, m), Node(Q, c, m + 1))
        IN  IsList(l[1], l[2], Q, Spliced(c, m, s))
    BY <1>4, <1>11, <1>12, <1>13, BetweenIs
  <2> QED
    BY <1>14, <2>1
<1>16. next' = Between(s, prev[Q], Q)[1] /\ prev' = Between(s, prev[Q], Q)[2]
  BY <1>10 DEF Insert
<1>17. d \in Seq(Tasks) /\ Len(d) = m + k /\ Distinct(d) /\ Range(d) = Range(c) \cup Range(s)
  BY <1>4, <1>11, <1>12, <1>13, SplicedIs DEF m
<1>18. prev[Q] \in Nodes /\ Q \in Nodes /\ prev[Q] \notin Range(s) /\ Q \notin Range(s)
       /\ prev[Q] \in {Q} \cup Range(c)
  BY <1>4, <1>12, <1>14, NodesOf, TasksNoHeads
<1>19. /\ next' \in Links /\ prev' \in Links
       /\ \A y \in Nodes \ Range(s) : (y # prev[Q] => next'[y] = next[y])
                                      /\ (y # Q => prev'[y] = prev[y])
  BY <1>11, <1>13, <1>16, <1>18, BetweenLinks
<1> HIDE DEF d
<1>20. Live' = Live \ {R}
  BY <1>2, TasksNoHeads DEF Live
<1>21. \A g \in Live \ {Q, R} : IsList(next', prev', g, L[g])
  <2>1. \A y \in Nodes \ ({Q, R} \cup (Range(c) \cup Range(s))) :
            next'[y] = next[y] /\ prev'[y] = prev[y]
    BY <1>18, <1>19
  <2>2. (Range(c) \cup Range(s)) \cap Heads = {} /\ {Q, R} \cap Tasks = {}
    BY <1>12, TasksNoHeads
  <2>3. \A g \in Live \ {Q, R} : Range(L[g]) \cap (Range(c) \cup Range(s)) = {}
    BY <1>1, <1>4, <1>11 DEF Owns, c, p
  <2> QED
    BY <1>1, <2>1, <2>2, <2>3, ListsStay
<1>22. M \in [Heads -> Seq(Tasks)] /\ M[Q] = d /\ \A h \in Heads \ {Q} : M[h] = L[h]
  BY <1>1, <1>4, <1>17 DEF ListsAre
<1> HIDE DEF M
<1>23. ListsAre(M)'
  <2>1. \A h \in Live \ {R} : IsList(next', prev', h, M[h])
    BY <1>15, <1>16, <1>21, <1>22, LiveHeads
  <2> QED
    BY <1>20, <1>22, <2>1 DEF ListsAre
<1>24. /\ state' \in [Tasks -> TaskState]
       /\ \A y \in Tasks : state'[y] = IF y \in Range(s) THEN "removed" ELSE state[y]
  BY <1>2, <1>10, MarkType DEF TypeOK, TaskState
<1>25. Owns(M)'
  <2>1. /\ Range(M[Q]) = Range(L[Q]) \cup Range(s)
        /\ \A h \in Heads \ {Q} : Range(M[h]) = Range(L[h])
        /\ \A h \in Live : Range(L[h]) \subseteq Tasks
    BY <1>1, <1>17, <1>22, InRange, LiveHeads DEF ListsAre, c
  <2>2. \A h \in Live \ {R} : h # Q => \A y \in Range(L[h]) : y \notin Range(s)
    BY <1>1, <1>4, <1>11 DEF Owns, p
  <2>3. \A h \in Live \ {R} : \A y \in Range(M[h]) : state'[y] = Kind(h)
    <3> TAKE h \in Live \ {R}
    <3> TAKE y \in Range(M[h])
    <3>1. CASE h = Q
      BY <1>1, <1>4, <1>12, <1>24, <2>1, <3>1, TasksNoHeads DEF Owns, Kind
    <3>2. CASE h # Q
      <4>1. y \in Range(L[h]) /\ h \in Heads /\ y \in Tasks /\ y \notin Range(s)
        BY <2>1, <2>2, <3>2, LiveHeads
      <4> QED
        BY <1>1, <1>24, <4>1 DEF Owns
    <3> QED
      BY <3>1, <3>2
  <2>4. \A g, h \in Live \ {R} : g # h => Range(M[g]) \cap Range(M[h]) = {}
    BY <1>1, <1>4, <2>1, <2>2, LiveHeads DEF Owns
  <2>5. \A y \in Tasks :
        /\ state'[y] = "taken" => \E t \in Threads : y \in Range(M[t])
        /\ state'[y] = "pending" /\ ~marked' => y \in Range(M[R])
        /\ state'[y] = "removed" => ~emptied' /\ y \in Range(M[Q])
    BY <1>1, <1>2, <1>24, <2>1, TasksNoHeads DEF Owns
  <2> QED
    BY <1>20, <2>3, <2>4, <2>5 DEF Owns, Kind
<1>26. CountsOf(M)'
  BY <1>2, <1>4, <1>5, <1>10, <1>17, <1>22 DEF CountsOf
<1>27. TypeOK'
  <2>1. n_qdispatchs' \in 0 .. Cardinality(Tasks)
    <3>1. n_qdispatchs' = Len(M[Q])
      BY <1>2, <1>26 DEF CountsOf
    <3> QED
      BY <1>4, <1>17, <1>22, <3>1, CountsBound
  <2> QED
    BY <1>2, <1>19, <1>24, <2>1 DEF TypeOK, Links
<1> QED
  BY <1>2, <1>3, <1>23, <1>25, <1>26, <1>27 DEF DispatchIInv

\* Tasks of the queue, those in p, come to the list of the thread t; r stay.
LEMMA TakenOwns ==
  ASSUME NEW L, NEW M, NEW t \in Threads, NEW p, NEW r, ListsAre(L), Owns(L), L[t] = <<>>,
         ~emptied, emptied' => r = <<>>, marked' = marked,
         Range(p) \cap Range(r) = {}, Range(p) \cup Range(r) = Range(L[Q]),
         M[t] = p, M[Q] = r, \A h \in Heads \ {t, Q} : M[h] = L[h],
         \A x \in Tasks : state'[x] = IF x \in Range(p) THEN "taken" ELSE state[x]
  PROVE  Owns(M)'
<1>1. Range(<<>>) = {}
  BY EmptySeq DEF Range
<1>2. \A h \in Live : Range(L[h]) \subseteq Tasks
  BY LiveHeads, InRange DEF ListsAre
<1>3. Q \in Live /\ t \in Live /\ t # Q /\ t \in Heads /\ Live \subseteq Heads
  BY LiveHeads, TasksNoHeads
<1>4. Live' \subseteq Live
  BY DEF Live
<1>5. \A h \in Live \ {t, Q} : \A x \in Range(L[h]) : x \notin Range(L[Q])
  BY <1>3 DEF Owns
<1>6. \A h \in Live : \A x \in Range(M[h]) : state'[x] = Kind(h)
  <2> TAKE h \in Live
  <2> TAKE x \in Range(M[h])
  <2>1. CASE h = t
    <3>1. x \in Range(p) /\ x \in Tasks
      BY <1>2, <1>3, <2>1
    <3> QED
      BY <2>1, <3>1 DEF Kind
  <2>2. CASE h = Q
    <3>1. x \in Range(r) /\ x \in Range(L[Q]) /\ x \notin Range(p) /\ x \in Tasks
      BY <1>2, <1>3, <2>2
    <3>2. state'[x] = state[x] /\ state[x] = Kind(Q)
      BY <1>3, <3>1 DEF Owns
    <3> QED
      BY <2>2, <3>2
  <2>3. CASE h \notin {t, Q}
    <3>1. x \in Range(L[h]) /\ x \in Tasks /\ x \notin Range(p)
      BY <1>2, <1>3, <1>5, <2>3
    <3>2. state'[x] = state[x] /\ state[x] = Kind(h)
      BY <3>1 DEF Owns
    <3> QED
      BY <3>2
  <2> QED
    BY <2>1, <2>2, <2>3
<1>7. \A g, h \in Live : g # h => Range(M[g]) \cap Range(M[h]) = {}
  <2> SUFFICES ASSUME NEW g \in Live, NEW h \in Live, NEW x,
                      x \in Range(M[g]), x \in Range(M[h]) PROVE g = h
    OBVIOUS
  <2>1. \A f \in Live : x \in Range(M[f]) =>
            \/ f = t /\ x \in Range(p) /\ x \in Range(L[Q])
            \/ f = Q /\ x \in Range(r) /\ x \in Range(L[Q])
            \/ f \notin {t, Q} /\ x \in Range(L[f]) /\ x \notin Range(L[Q])
    BY <1>3, <1>5
  <2>2. \A f, e \in Live : x \in Range(L[f]) /\ x \in Range(L[e]) => f = e
    BY DEF Owns
  <2>3. ~(x \in Range(p) /\ x \in Range(r))
    OBVIOUS
  <2> QED
    BY <2>1, <2>2, <2>3
<1>8. \A x \in Tasks :
        /\ state'[x] = "taken" => \E u \in Threads : x \in Range(M[u])
        /\ state'[x] = "pending" /\ ~marked' => x \in Range(M[R])
        /\ state'[x] = "removed" => ~emptied' /\ x \in Range(M[Q])
  <2> TAKE x \in Tasks
  <2>1. CASE x \in Range(p)
    BY <2>1
  <2>2. CASE x \notin Range(p)
    <3>1. state'[x] = state[x]
      BY <2>2
    <3>2. \A u \in Threads : x \in Range(L[u]) => u # t /\ x \in Range(M[u])
      BY <1>1, TasksNoHeads
    <3>3. M[R] = L[R]
      BY TasksNoHeads
    <3>4. x \in Range(L[Q]) => x \in Range(r) /\ ~emptied'
      BY <1>1, <2>2
    <3>5. /\ state[x] = "taken" => \E u \in Threads : x \in Range(L[u])
          /\ state[x] = "pending" /\ ~marked => x \in Range(L[R])
          /\ state[x] = "removed" => x \in Range(L[Q])
      BY DEF Owns
    <3> QED
      BY <3>1, <3>2, <3>3, <3>4, <3>5
  <2> QED
    BY <2>1, <2>2
<1> QED
  BY <1>4, <1>6, <1>7, <1>8 DEF Owns, Kind

\* list_splice of all that is removed to the list of a thread; the head is left.
LEMMA TakeAllKeeps ==
  ASSUME DispatchIInv, NEW t \in Threads, TakeAll(t)
  PROVE  DispatchIInv'
<1>1. PICK L : ListsAre(L) /\ Owns(L) /\ CountsOf(L)
  BY DEF DispatchIInv
<1>2. /\ TypeOK /\ (marked => paused) /\ next[t] = t /\ n_qdispatchs \in 1 .. Batch
      /\ Mark(First(n_qdispatchs), "taken") /\ n_qdispatchs' = 0 /\ emptied' = TRUE
      /\ paused' = paused /\ npendings' = npendings /\ marked' = marked
  BY DEF TakeAll, Idle, DispatchIInv
<1>3. ~emptied /\ n_qdispatchs = Len(L[Q]) /\ Len(L[Q]) # 0
  <2>1. n_qdispatchs # 0
    BY <1>2
  <2> QED
    BY <1>1, <2>1 DEF CountsOf
<1> DEFINE c == L[Q]
           n == Len(c)
           p == Part(c, 0, n)
           M == [L EXCEPT ![t] = p, ![Q] = <<>>]
<1>4. /\ Q \in Live /\ Q \in Heads /\ t \in Live /\ t \in Heads /\ Q # t
      /\ IsList(next, prev, Q, c) /\ c \in Seq(Tasks) /\ n \in Nat /\ Distinct(c)
      /\ next \in Links /\ prev \in Links
  BY <1>1, <1>2, <1>3, LiveHeads, TasksNoHeads, InRange DEF ListsAre, IsList, TypeOK, Links
<1>5. L[t] = <<>>
  BY <1>1, <1>2, <1>4, IdleIs
<1>6. AllMoved(next, prev, next', prev', t, Q)
  BY DEF TakeAll, AllMoved
<1>7. First(n_qdispatchs) = Range(c)
  <2>1. n \in 0 .. Len(c)
    BY <1>4
  <2>2. \A i \in 1 .. n : Entry(Q, i) = c[i]
    BY <1>4, <2>1, EntriesOf
  <2>3. Range(c) = {c[i] : i \in 1 .. n}
    BY <1>4, LenProperties DEF Range
  <2> QED
    BY <1>3, <2>2, <2>3 DEF First
<1>8. n = Len(c) /\ n # 0
  BY <1>3
<1> HIDE DEF c, n
<1>9. /\ next' \in Links /\ prev' \in Links /\ IsList(next', prev', t, p)
      /\ \A x \in Nodes \ ({Q, t} \cup Range(c)) : next'[x] = next[x] /\ prev'[x] = prev[x]
  BY <1>4, <1>6, <1>8, MovedIs
<1>10. p \in Seq(Tasks) /\ Len(p) = n /\ Range(p) = Range(c)
  <2>1. 0 \in Nat /\ 0 + n <= Len(c) /\ 0 + 1 = 1 /\ 0 + n = n
    BY <1>4, <1>8
  <2>2. p \in Seq(Tasks) /\ Len(p) = n /\ Range(p) = {c[i] : i \in 0 + 1 .. 0 + n}
    BY <1>4, <2>1, PartIs
  <2>3. Range(c) = {c[i] : i \in 1 .. n}
    BY <1>4, <1>8, LenProperties DEF Range
  <2> QED
    BY <2>1, <2>2, <2>3
<1> HIDE DEF p
<1>11. Live' = Live \ {Q}
  BY <1>2, <1>4, TasksNoHeads DEF Live
<1>12. \A g \in Live \ {Q, t} : IsList(next', prev', g, L[g])
  <2>1. \A y \in Nodes \ ({Q, t} \cup Range(c)) : next'[y] = next[y] /\ prev'[y] = prev[y]
    BY <1>9
  <2>2. Range(c) \cap Heads = {} /\ {Q, t} \cap Tasks = {}
    BY <1>4, InRange, TasksNoHeads
  <2>3. \A g \in Live \ {Q, t} : Range(L[g]) \cap Range(c) = {}
    BY <1>1, <1>4 DEF Owns, c
  <2> QED
    BY <1>1, <2>1, <2>2, <2>3, ListsStay
<1>13. /\ M \in [Heads -> Seq(Tasks)] /\ M[t] = p /\ M[Q] = <<>>
       /\ \A h \in Heads \ {t, Q} : M[h] = L[h]
  BY <1>1, <1>4, <1>10, EmptySeq DEF ListsAre
<1> HIDE DEF M
<1>14. ListsAre(M)'
  <2>1. \A h \in Live \ {Q} : IsList(next', prev', h, M[h])
    BY <1>9, <1>12, <1>13, LiveHeads
  <2> QED
    BY <1>11, <1>13, <2>1 DEF ListsAre
<1>15. /\ state' \in [Tasks -> TaskState]
       /\ \A y \in Tasks : state'[y] = IF y \in Range(p) THEN "taken" ELSE state[y]
  BY <1>2, <1>7, <1>10, MarkType DEF TypeOK, TaskState
<1>16. Owns(M)'
  <2>1. Range(p) \cap Range(<<>>) = {} /\ Range(p) \cup Range(<<>>) = Range(L[Q])
    <3>1. Range(<<>>) = {}
      BY EmptySeq DEF Range
    <3> QED
      BY <1>10, <3>1 DEF c
  <2> QED
    BY <1>1, <1>2, <1>3, <1>5, <1>13, <1>15, <2>1, TakenOwns
<1>17. CountsOf(M)'
  BY <1>1, <1>2, <1>13, TasksNoHeads DEF CountsOf
<1>18. TypeOK'
  <2>1. 0 \in 0 .. Cardinality(Tasks)
    BY TasksNoHeads, FS_CardinalityType
  <2> QED
    BY <1>2, <1>9, <1>15, <2>1 DEF TypeOK, Links
<1> QED
  BY <1>2, <1>14, <1>16, <1>17, <1>18 DEF DispatchIInv

\* __list_cut_position: the first Batch tasks that are removed come to the list of a
\* thread.
LEMMA TakeSomeKeeps ==
  ASSUME DispatchIInv, NEW t \in Threads, TakeSome(t)
  PROVE  DispatchIInv'
<1>1. PICK L : ListsAre(L) /\ Owns(L) /\ CountsOf(L)
  BY DEF DispatchIInv
<1>2. /\ TypeOK /\ (marked => paused) /\ next[t] = t /\ n_qdispatchs > Batch
      /\ Mark(First(Batch), "taken") /\ n_qdispatchs' = n_qdispatchs - Batch
      /\ paused' = paused /\ npendings' = npendings /\ emptied' = emptied /\ marked' = marked
      /\ Cut(t, Entry(Q, Batch))
  BY DEF TakeSome, Idle, DispatchIInv
<1>3. Batch \in Nat /\ Batch # 0
  BY DispatchAssumption
<1>4. ~emptied /\ n_qdispatchs = Len(L[Q])
  BY <1>1, <1>2, <1>3 DEF CountsOf
<1> DEFINE c == L[Q]
<1>5. PICK n \in Nat : n # 0 /\ Batch + n = Len(c)
  <2>1. Len(c) \in Nat
    BY <1>1, TasksNoHeads, InRange DEF ListsAre
  <2>2. Len(c) - Batch \in Nat /\ Len(c) - Batch # 0 /\ Batch + (Len(c) - Batch) = Len(c)
    BY <1>2, <1>3, <1>4, <2>1
  <2> QED
    BY <2>2
<1> DEFINE p == Part(c, 0, Batch)
           r == Part(c, Batch, n)
           M == [L EXCEPT ![t] = p, ![Q] = r]
<1>6. /\ Q \in Live /\ Q \in Heads /\ t \in Live /\ t \in Heads /\ Q # t
      /\ IsList(next, prev, Q, c) /\ c \in Seq(Tasks) /\ Len(c) \in Nat /\ Distinct(c)
      /\ next \in Links /\ prev \in Links
  BY <1>1, <1>2, <1>4, LiveHeads, TasksNoHeads, InRange DEF ListsAre, IsList, TypeOK, Links
<1>7. L[t] = <<>>
  BY <1>1, <1>2, <1>6, IdleIs
<1>8. \A i \in 1 .. Batch : i \in 1 .. Len(c) /\ Entry(Q, i) = c[i]
  <2>1. Batch \in 0 .. Len(c) /\ \A i \in 1 .. Batch : i \in 1 .. Len(c)
    BY <1>3, <1>5, <1>6
  <2> QED
    BY <1>6, <2>1, EntriesOf
<1>9. CutAt(next, prev, next', prev', t, Q, c[Batch])
  <2>1. Entry(Q, Batch) = c[Batch]
    BY <1>3, <1>8
  <2> QED
    BY <1>2, <2>1 DEF Cut, CutAt
<1>10. First(Batch) = {c[i] : i \in 1 .. Batch}
  BY <1>8 DEF First
<1>11. c = L[Q]
  OBVIOUS
<1> HIDE DEF c
<1>12. /\ next' \in Links /\ prev' \in Links
       /\ IsList(next', prev', t, p) /\ IsList(next', prev', Q, r)
       /\ \A x \in Nodes \ ({Q, t} \cup Range(c)) : next'[x] = next[x] /\ prev'[x] = prev[x]
  <2> HIDE DEF M
  <2>1. Q \in Heads /\ t \in Heads /\ Q # t /\ IsList(next, prev, Q, c)
        /\ next \in Links /\ prev \in Links /\ TwoParts(c, Batch, n)
    BY <1>3, <1>5, <1>6 DEF TwoParts
  <2>2. AreCut(next, prev, next', prev', t, Q, c, Batch, n)
    BY <1>9, <2>1, CutIs
  <2> QED
    BY <2>2 DEF AreCut
<1>13. /\ p \in Seq(Tasks) /\ Range(p) = First(Batch)
  <2>1. 0 \in Nat /\ 0 + Batch <= Len(c) /\ 0 + 1 = 1 /\ 0 + Batch = Batch
    BY <1>3, <1>5, <1>6
  <2>2. p \in Seq(Tasks) /\ Range(p) = {c[i] : i \in 0 + 1 .. 0 + Batch}
    BY <1>3, <1>6, <2>1, PartIs
  <2> QED
    BY <1>10, <2>1, <2>2
<1>14. r \in Seq(Tasks) /\ Len(r) = n /\ Range(r) = {c[i] : i \in Batch + 1 .. Batch + n}
  <2>1. Batch + n <= Len(c)
    BY <1>5, <1>6
  <2> QED
    BY <1>3, <1>5, <1>6, <2>1, PartIs
<1>15. Range(p) \cap Range(r) = {} /\ Range(p) \cup Range(r) = Range(c)
  <2>1. \A i \in 1 .. Batch : \A j \in Batch + 1 .. Batch + n :
            i # j /\ i \in 1 .. Len(c) /\ j \in 1 .. Len(c)
    BY <1>3, <1>5, <1>6
  <2>2. \A i \in 1 .. Len(c) : i \in 1 .. Batch \/ i \in Batch + 1 .. Batch + n
    BY <1>3, <1>5, <1>6
  <2>3. \A i \in 1 .. Batch : i \in 1 .. Len(c)
    BY <1>8
  <2>4. \A j \in Batch + 1 .. Batch + n : j \in 1 .. Len(c)
    BY <1>3, <1>5, <1>6
  <2>5. \A i, j \in 1 .. Len(c) : c[i] = c[j] => i = j
    BY <1>6 DEF Distinct
  <2>6. Range(c) = {c[i] : i \in 1 .. Len(c)}
    BY <1>6, LenProperties DEF Range
  <2>7. Range(p) = {c[i] : i \in 1 .. Batch}
    BY <1>10, <1>13
  <2> HIDE DEF p, r
  <2>8. Range(p) \cap Range(r) = {}
    BY <1>14, <2>1, <2>5, <2>7
  <2>9. Range(p) \cup Range(r) = Range(c)
    BY <1>14, <2>2, <2>3, <2>4, <2>6, <2>7
  <2> QED
    BY <2>8, <2>9
<1> HIDE DEF p, r
<1>16. Live' = Live
  BY <1>2 DEF Live
<1>17. \A g \in Live \ {Q, t} : IsList(next', prev', g, L[g])
  <2>1. \A y \in Nodes \ ({Q, t} \cup Range(c)) : next'[y] = next[y] /\ prev'[y] = prev[y]
    BY <1>12
  <2>2. Range(c) \cap Heads = {} /\ {Q, t} \cap Tasks = {}
    BY <1>6, InRange, TasksNoHeads
  <2>3. \A g \in Live \ {Q, t} : Range(L[g]) \cap Range(c) = {}
    BY <1>1, <1>6, <1>11 DEF Owns
  <2> QED
    BY <1>1, <2>1, <2>2, <2>3, ListsStay
<1>18. /\ M \in [Heads -> Seq(Tasks)] /\ M[t] = p /\ M[Q] = r
       /\ \A h \in Heads \ {t, Q} : M[h] = L[h]
  BY <1>1, <1>6, <1>13, <1>14 DEF ListsAre
<1> HIDE DEF M
<1>19. ListsAre(M)'
  <2>1. \A h \in Live : IsList(next', prev', h, M[h])
    BY <1>12, <1>17, <1>18, LiveHeads
  <2> QED
    BY <1>16, <1>18, <2>1 DEF ListsAre
<1>20. /\ state' \in [Tasks -> TaskState]
       /\ \A y \in Tasks : state'[y] = IF y \in Range(p) THEN "taken" ELSE state[y]
  BY <1>2, <1>13, MarkType DEF TypeOK, TaskState
<1>21. Owns(M)'
  BY <1>1, <1>2, <1>4, <1>7, <1>11, <1>15, <1>18, <1>20, TakenOwns
<1>22. n_qdispatchs' = Len(M[Q])
  BY <1>2, <1>3, <1>4, <1>5, <1>11, <1>14, <1>18
<1>23. CountsOf(M)'
  BY <1>1, <1>2, <1>4, <1>18, <1>22, TasksNoHeads DEF CountsOf
<1>24. TypeOK'
  <2>1. n_qdispatchs' \in 0 .. Cardinality(Tasks)
    <3>1. Distinct(M[Q])
      BY <1>12, <1>18 DEF IsList
    <3> QED
      BY <1>6, <1>18, <1>22, <3>1, CountsBound
  <2> QED
    BY <1>2, <1>12, <1>20, <2>1 DEF TypeOK, Links
<1> QED
  BY <1>2, <1>19, <1>21, <1>23, <1>24 DEF DispatchIInv

\* The list h without its first task is what M has for it.
Shorter(L, M, h) ==
    /\ \A g \in Heads \ {h} : M[g] = L[g]
    /\ \E n \in Nat : n + 1 = Len(L[h]) /\ Len(M[h]) = n

\* list_del of the first task of a list, which is done then.
LEMMA FirstDone ==
  ASSUME TypeOK, NEW L, ListsAre(L), Owns(L), NEW h \in Live, L[h] # <<>>,
         FirstDeleted(next, prev, next', prev', h), Mark({next[h]}, "done"),
         emptied' = emptied, marked' = marked
  PROVE  /\ next' \in Links /\ prev' \in Links /\ state' \in [Tasks -> TaskState]
         /\ \E M : ListsAre(M)' /\ Owns(M)' /\ Shorter(L, M, h)
<1> DEFINE c == L[h]
           x == c[1]
<1>1. /\ h \in Heads /\ IsList(next, prev, h, c) /\ c \in Seq(Tasks) /\ Distinct(c)
      /\ Len(c) \in Nat /\ next \in Links /\ prev \in Links
  BY LiveHeads, TasksNoHeads, InRange DEF ListsAre, IsList, TypeOK, Links
<1>2. c = L[h] /\ c # <<>>
  OBVIOUS
<1> HIDE DEF c
<1>3. /\ next[h] = x /\ next' \in Links /\ prev' \in Links
      /\ \E n \in Nat : n + 1 = Len(c) /\ IsList(next', prev', h, Part(c, 1, n))
      /\ \A y \in Nodes \ ({h} \cup Range(c)) : next'[y] = next[y] /\ prev'[y] = prev[y]
  BY <1>1, <1>2, UnlinkIs
<1>4. PICK n \in Nat : n + 1 = Len(c) /\ IsList(next', prev', h, Part(c, 1, n))
  BY <1>3
<1> DEFINE p == Part(c, 1, n)
           M == [L EXCEPT ![h] = p]
<1>5. p \in Seq(Tasks) /\ Len(p) = n /\ Range(p) = Range(c) \ {x} /\ x \in Range(c)
      /\ x \in Tasks
  <2>1. 1 + n <= Len(c) /\ 1 \in 1 .. Len(c)
    BY <1>1, <1>4
  <2>2. p \in Seq(Tasks) /\ Len(p) = n /\ Range(p) = {c[i] : i \in 1 + 1 .. 1 + n}
    BY <1>1, <1>4, <2>1, PartIs
  <2>3. \A i \in 1 .. Len(c) : i = 1 \/ i \in 1 + 1 .. 1 + n
    BY <1>1, <1>4
  <2>4. \A i \in 1 + 1 .. 1 + n : i \in 1 .. Len(c) /\ i # 1
    BY <1>1, <1>4
  <2>5. \A i \in 1 .. Len(c) : c[i] = c[1] => i = 1
    BY <1>1, <2>1 DEF Distinct
  <2>6. Range(c) = {c[i] : i \in 1 .. Len(c)}
    BY <1>1, LenProperties DEF Range
  <2> HIDE DEF p
  <2>7. Range(p) = Range(c) \ {x}
    BY <2>1, <2>2, <2>3, <2>4, <2>5, <2>6
  <2>8. x \in Range(c) /\ x \in Tasks
    BY <1>1, <2>1, InRange
  <2> QED
    BY <2>2, <2>7, <2>8
<1>6. IsList(next', prev', h, p)
  BY <1>4
<1> HIDE DEF p, x
<1>7. Live' = Live
  BY DEF Live
<1>8. \A g \in Live \ {h} : IsList(next', prev', g, L[g])
  <2>1. \A y \in Nodes \ ({h} \cup Range(c)) : next'[y] = next[y] /\ prev'[y] = prev[y]
    BY <1>3
  <2>2. Range(c) \cap Heads = {} /\ {h} \cap Tasks = {}
    BY <1>1, InRange, TasksNoHeads
  <2>3. \A g \in Live \ {h} : Range(L[g]) \cap Range(c) = {}
    BY <1>2 DEF Owns
  <2> QED
    BY <2>1, <2>2, <2>3, ListsStay
<1>9. M \in [Heads -> Seq(Tasks)] /\ M[h] = p /\ \A g \in Heads \ {h} : M[g] = L[g]
  BY <1>1, <1>5 DEF ListsAre
<1> HIDE DEF M
<1>10. ListsAre(M)'
  <2>1. \A g \in Live : IsList(next', prev', g, M[g])
    BY <1>6, <1>8, <1>9, LiveHeads
  <2> QED
    BY <1>7, <1>9, <2>1 DEF ListsAre
<1>11. /\ state' \in [Tasks -> TaskState]
       /\ \A y \in Tasks : state'[y] = IF y = x THEN "done" ELSE state[y]
  BY <1>3, MarkType DEF TypeOK, TaskState
<1>12. Owns(M)'
  <2>1. \A g \in Live : \A y \in Range(L[g]) : y \in Tasks
    BY LiveHeads, InRange DEF ListsAre
  <2>2. \A g \in Live : \A y \in Range(M[g]) : y \in Range(L[g]) /\ y # x
    <3> TAKE g \in Live
    <3>1. CASE g = h
      BY <1>2, <1>5, <1>9, <3>1
    <3>2. CASE g # h
      <4>1. M[g] = L[g] /\ Range(L[g]) \cap Range(c) = {}
        BY <1>2, <1>9, <3>2, LiveHeads DEF Owns
      <4> QED
        BY <1>5, <4>1
    <3> QED
      BY <3>1, <3>2
  <2>3. \A g \in Live : \A y \in Range(L[g]) : y # x => y \in Range(M[g])
    <3> TAKE g \in Live
    <3>1. CASE g = h
      BY <1>2, <1>5, <1>9, <3>1
    <3>2. CASE g # h
      BY <1>9, <3>2, LiveHeads
    <3> QED
      BY <3>1, <3>2
  <2>4. \A g \in Live : \A y \in Range(M[g]) : state'[y] = Kind(g)
    BY <1>11, <2>1, <2>2 DEF Owns
  <2>5. \A g, f \in Live : g # f => Range(M[g]) \cap Range(M[f]) = {}
    <3> SUFFICES ASSUME NEW g \in Live, NEW f \in Live, NEW y,
                        y \in Range(M[g]), y \in Range(M[f]) PROVE g = f
      OBVIOUS
    <3>1. y \in Range(L[g]) /\ y \in Range(L[f])
      BY <2>2
    <3> QED
      BY <3>1 DEF Owns
  <2>6. \A y \in Tasks :
        /\ state'[y] = "taken" => \E t \in Threads : y \in Range(M[t])
        /\ state'[y] = "pending" /\ ~marked' => y \in Range(M[R])
        /\ state'[y] = "removed" => ~emptied' /\ y \in Range(M[Q])
    <3> TAKE y \in Tasks
    <3>1. CASE y = x
      BY <1>11, <3>1
    <3>2. CASE y # x
      <4>1. state'[y] = state[y]
        BY <1>11, <3>2
      <4>2. /\ \A t \in Threads : y \in Range(L[t]) => y \in Range(M[t])
            /\ ~marked /\ y \in Range(L[R]) => y \in Range(M[R])
            /\ ~emptied /\ y \in Range(L[Q]) => y \in Range(M[Q])
        BY <2>3, <3>2, LiveHeads
      <4> QED
        BY <4>1, <4>2 DEF Owns
    <3> QED
      BY <3>1, <3>2
  <2> QED
    BY <1>7, <2>4, <2>5, <2>6 DEF Owns, Kind
<1>13. Shorter(L, M, h)
  BY <1>2, <1>4, <1>5, <1>9 DEF Shorter
<1> QED
  BY <1>3, <1>10, <1>11, <1>12, <1>13

LEMMA HandleKeeps ==
  ASSUME DispatchIInv, NEW t \in Threads, Handle(t)
  PROVE  DispatchIInv' /\ state[next[t]] = "taken"
<1>1. PICK L : ListsAre(L) /\ Owns(L) /\ CountsOf(L)
  BY DEF DispatchIInv
<1>2. /\ TypeOK /\ (marked => paused) /\ next[t] # t /\ Mark({next[t]}, "done")
      /\ paused' = paused /\ npendings' = npendings /\ n_qdispatchs' = n_qdispatchs
      /\ emptied' = emptied /\ marked' = marked
  BY DEF Handle, Idle, DispatchIInv
<1>3. FirstDeleted(next, prev, next', prev', t)
  BY DEF Handle, Unlink, FirstDeleted
<1>4. t \in Live /\ t \in Heads /\ t # R /\ t # Q /\ R \in Heads /\ Q \in Heads
  BY LiveHeads, TasksNoHeads
<1>5. L[t] # <<>>
  BY <1>1, <1>2, <1>4, IdleIs
<1>6. /\ next' \in Links /\ prev' \in Links /\ state' \in [Tasks -> TaskState]
      /\ \E M : ListsAre(M)' /\ Owns(M)' /\ Shorter(L, M, t)
  BY <1>1, <1>2, <1>3, <1>4, <1>5, FirstDone
<1>7. PICK M : ListsAre(M)' /\ Owns(M)' /\ Shorter(L, M, t)
  BY <1>6
<1>8. CountsOf(M)'
  <2>1. M[R] = L[R] /\ M[Q] = L[Q]
    BY <1>4, <1>7 DEF Shorter
  <2> QED
    BY <1>1, <1>2, <2>1 DEF CountsOf
<1>9. TypeOK'
  BY <1>2, <1>6 DEF TypeOK, Links
<1>10. DispatchIInv'
  BY <1>2, <1>7, <1>8, <1>9 DEF DispatchIInv
<1>11. state[next[t]] = "taken"
  <2>1. IsList(next, prev, t, L[t]) /\ L[t] \in Seq(Tasks) /\ Len(L[t]) # 0
    BY <1>1, <1>4, <1>5, EmptySeq DEF ListsAre
  <2>2. 1 \in 1 .. Len(L[t])
    BY <2>1, InRange
  <2>3. next[t] = L[t][1]
    BY <1>4, <2>1, <2>2, ListEnds DEF Ends, Node
  <2>4. next[t] \in Range(L[t])
    BY <2>1, <2>2, <2>3, InRange
  <2> QED
    BY <1>1, <1>4, <2>4 DEF Owns, Kind
<1> QED
  BY <1>10, <1>11

LEMMA GetTaskKeeps ==
  ASSUME DispatchIInv, NEW t \in Threads, GetTask(t)
  PROVE  DispatchIInv'
<1>1. PICK L : ListsAre(L) /\ Owns(L) /\ CountsOf(L)
  BY DEF DispatchIInv
<1>2. /\ TypeOK /\ ~marked /\ npendings > 0 /\ Mark({next[R]}, "done")
      /\ paused' = paused /\ npendings' = npendings - 1 /\ n_qdispatchs' = n_qdispatchs
      /\ emptied' = emptied /\ marked' = marked
  BY DEF GetTask, DispatchIInv
<1>3. FirstDeleted(next, prev, next', prev', R)
  BY DEF GetTask, Unlink, FirstDeleted
<1>4. R \in Live /\ R \in Heads /\ R # Q /\ Q \in Heads
  BY <1>2, LiveHeads, TasksNoHeads
<1>5. npendings = Len(L[R]) /\ L[R] # <<>>
  BY <1>1, <1>2, EmptySeq DEF CountsOf
<1>6. /\ next' \in Links /\ prev' \in Links /\ state' \in [Tasks -> TaskState]
      /\ \E M : ListsAre(M)' /\ Owns(M)' /\ Shorter(L, M, R)
  BY <1>1, <1>2, <1>3, <1>4, <1>5, FirstDone
<1>7. PICK M : ListsAre(M)' /\ Owns(M)' /\ Shorter(L, M, R)
  BY <1>6
<1>8. M[Q] = L[Q] /\ npendings' = Len(M[R])
  <2>1. PICK n \in Nat : n + 1 = Len(L[R]) /\ Len(M[R]) = n
    BY <1>7 DEF Shorter
  <2>2. M[Q] = L[Q]
    BY <1>4, <1>7 DEF Shorter
  <2>3. npendings' = n
    BY <1>2, <1>5, <2>1
  <2> QED
    BY <2>1, <2>2, <2>3
<1>9. CountsOf(M)'
  BY <1>1, <1>2, <1>8 DEF CountsOf
<1>10. TypeOK'
  <2>1. npendings' \in 0 .. Cardinality(Tasks)
    BY <1>2, TasksNoHeads, FS_CardinalityType DEF TypeOK
  <2> QED
    BY <1>2, <1>6, <2>1 DEF TypeOK, Links
<1> QED
  BY <1>2, <1>7, <1>9, <1>10 DEF DispatchIInv

-----------------------------------------------------------------------------
(***************************************************************************)
(* The theorems                                                            *)
(***************************************************************************)

\* Hypothesis: what leaves the head of a list behind is not followed by what adds
\* to that list; without it a handler runs twice (DispatchAgain), or a task is run
\* that was removed (DispatchMarked).
NoHeadLeftBehind == Refill = FALSE /\ "cb" \notin Removals[FALSE]

LEMMA DispatchKeeps ==
  ASSUME NoHeadLeftBehind, DispatchIInv, [Next]_vars
  PROVE  DispatchIInv'
<1>1. Refill = FALSE /\ "cb" \notin Removals[FALSE]
  BY DEF NoHeadLeftBehind
<1>2. CASE \E x \in Tasks : Queue(x)
  BY <1>1, <1>2, QueueKeeps
<1>3. CASE RemoveAll
  BY <1>1, <1>3, RemoveAllKeeps
<1>4. CASE MarkCb
  BY <1>1, <1>4, MarkCbKeeps
<1>5. CASE \E t \in Threads : TakeAll(t)
  BY <1>5, TakeAllKeeps
<1>6. CASE \E t \in Threads : TakeSome(t)
  BY <1>6, TakeSomeKeeps
<1>7. CASE \E t \in Threads : GetTask(t)
  BY <1>7, GetTaskKeeps
<1>8. CASE \E t \in Threads : Handle(t)
  BY <1>8, HandleKeeps
<1>9. CASE UNCHANGED vars
  BY <1>9 DEF vars, DispatchIInv, TypeOK, InState, ListsAre, Owns, CountsOf, Live
<1> QED
  BY <1>2, <1>3, <1>4, <1>5, <1>6, <1>7, <1>8, <1>9 DEF Next, Take, Finished

LEMMA DispatchAlways ==
  ASSUME NoHeadLeftBehind
  PROVE  Spec => []DispatchIInv
<1>1. Init => DispatchIInv
  BY DispatchAtFirst
<1>2. DispatchIInv /\ [Next]_vars => DispatchIInv'
  BY DispatchKeeps
<1> QED
  BY <1>1, <1>2, PTL DEF Spec

\* The lists of the threads share nothing, and hold just the tasks to be handled, as
\* the ready queue holds those to be run, through every splice, cut and deletion.
THEOREM ListsApartAlways ==
  ASSUME NoHeadLeftBehind
  PROVE  Spec => []ListsApart
<1>1. DispatchIInv => ListsApart
  <2> SUFFICES ASSUME DispatchIInv PROVE ListsApart
    OBVIOUS
  <2>1. PICK L : ListsAre(L) /\ Owns(L)
    BY DEF DispatchIInv
  <2>2. \A h \in Live : Listed(h) = Range(L[h])
    BY <2>1, LiveHeads, ListedIs DEF ListsAre
  <2>3. \A h \in Live : \A x \in Range(L[h]) : x \in Tasks /\ state[x] = Kind(h)
    BY <2>1, LiveHeads, InRange DEF ListsAre, Owns
  <2>4. \A t \in Threads : t \in Live /\ Kind(t) = "taken"
    BY LiveHeads DEF Kind
  <2>5. UNION {Listed(t) : t \in Threads} = InState("taken")
    <3>1. \A t \in Threads : Listed(t) \subseteq InState("taken")
      BY <2>2, <2>3, <2>4 DEF InState
    <3>2. \A x \in InState("taken") : \E t \in Threads : x \in Listed(t)
      BY <2>1, <2>2, <2>4 DEF Owns, InState
    <3> QED
      BY <3>1, <3>2
  <2>6. \A t, u \in Threads : t # u => Listed(t) \cap Listed(u) = {}
    BY <2>1, <2>2, <2>4 DEF Owns
  <2>7. ~marked => Listed(R) = InState("pending")
    <3> SUFFICES ASSUME ~marked PROVE Listed(R) = InState("pending")
      OBVIOUS
    <3>1. R \in Live /\ Kind(R) = "pending"
      BY LiveHeads, TasksNoHeads DEF Kind
    <3>2. Listed(R) \subseteq InState("pending")
      BY <2>2, <2>3, <3>1 DEF InState
    <3>3. InState("pending") \subseteq Listed(R)
      BY <2>1, <2>2, <3>1 DEF Owns, InState
    <3> QED
      BY <3>2, <3>3
  <2> QED
    BY <2>5, <2>6, <2>7 DEF ListsApart, DispatchIInv
<1>2. Spec => []DispatchIInv
  BY DispatchAlways
<1> QED
  BY <1>1, <1>2, PTL

\* The two counters are what their lists hold, and the tasks to be handled come first.
THEOREM CountedFirstAlways ==
  ASSUME NoHeadLeftBehind
  PROVE  Spec => []CountedFirst
<1>1. DispatchIInv => CountedFirst
  <2> SUFFICES ASSUME DispatchIInv PROVE CountedFirst
    OBVIOUS
  <2>1. PICK L : ListsAre(L) /\ Owns(L) /\ CountsOf(L)
    BY DEF DispatchIInv
  <2>2. \A h \in Live : /\ h \in Heads /\ IsList(next, prev, h, L[h]) /\ L[h] \in Seq(Tasks)
                        /\ Distinct(L[h]) /\ Len(L[h]) \in Nat /\ Range(L[h]) \subseteq Tasks
    BY <2>1, LiveHeads, InRange DEF ListsAre, IsList
  <2>3. \A h \in Live : Cardinality(Range(L[h])) = Len(L[h])
    BY <2>2, ListLength
  <2>4. ~marked => npendings = Cardinality(InState("pending"))
    <3> SUFFICES ASSUME ~marked PROVE npendings = Cardinality(InState("pending"))
      OBVIOUS
    <3>1. R \in Live /\ Kind(R) = "pending"
      BY LiveHeads, TasksNoHeads DEF Kind
    <3>2. Range(L[R]) \subseteq InState("pending")
      BY <2>1, <2>2, <3>1 DEF Owns, InState
    <3>3. InState("pending") \subseteq Range(L[R])
      BY <2>1 DEF Owns, InState
    <3>4. Range(L[R]) = InState("pending")
      BY <3>2, <3>3
    <3> QED
      BY <2>1, <2>3, <3>1, <3>4 DEF CountsOf
  <2>5. CASE emptied
    <3>1. InState("removed") = {} /\ n_qdispatchs = 0
      BY <2>1, <2>5 DEF Owns, InState, CountsOf
    <3>2. First(0) = {}
      BY DEF First
    <3> QED
      BY <2>4, <3>1, <3>2, FS_EmptySet DEF CountedFirst
  <2>6. CASE ~emptied
    <3>1. Q \in Live /\ Kind(Q) = "removed"
      BY <2>6, LiveHeads, TasksNoHeads DEF Kind
    <3>2. Range(L[Q]) \subseteq InState("removed")
      BY <2>1, <2>2, <3>1 DEF Owns, InState
    <3>3. InState("removed") \subseteq Range(L[Q])
      BY <2>1 DEF Owns, InState
    <3>4. Range(L[Q]) = InState("removed")
      BY <3>2, <3>3
    <3>5. n_qdispatchs = Len(L[Q])
      BY <2>1, <2>6 DEF CountsOf
    <3>6. First(n_qdispatchs) = Range(L[Q])
      <4>1. Len(L[Q]) \in 0 .. Len(L[Q])
        BY <2>2, <3>1
      <4>2. \A i \in 1 .. Len(L[Q]) : Entry(Q, i) = L[Q][i]
        BY <2>2, <3>1, <4>1, EntriesOf
      <4>3. Range(L[Q]) = {L[Q][i] : i \in 1 .. Len(L[Q])}
        BY <2>2, <3>1, LenProperties DEF Range
      <4> QED
        BY <3>5, <4>2, <4>3 DEF First
    <3> QED
      BY <2>3, <2>4, <3>1, <3>4, <3>5, <3>6 DEF CountedFirst
  <2> QED
    BY <2>5, <2>6
<1>2. Spec => []DispatchIInv
  BY DispatchAlways
<1> QED
  BY <1>1, <1>2, PTL

\* A thread runs the error handler of tasks it took, and, since each is then done,
\* runs it once.
THEOREM HandledOnceAlways ==
  ASSUME NoHeadLeftBehind
  PROVE  Spec => HandledOnce
<1>1. DispatchIInv => \A t \in Threads : Handle(t) => state[next[t]] = "taken"
  BY HandleKeeps
<1>2. DispatchIInv /\ [Next]_vars
        => [\A t \in Threads : Handle(t) => state[next[t]] = "taken"]_vars
  BY <1>1
<1>3. Spec => []DispatchIInv
  BY DispatchAlways
<1> QED
  BY <1>2, <1>3, PTL DEF Spec, HandledOnce
=============================================================================
