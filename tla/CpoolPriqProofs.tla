--------------------------- MODULE CpoolPriqProofs ---------------------------
(***************************************************************************)
(* The queues of a routine pool hold what waits, in the order the code     *)
(* means, and whoever comes is put where it belongs: QueuesSound is an     *)
(* invariant of CpoolPriq, and every step is as BehindNoLower says.        *)
(***************************************************************************)
EXTENDS CpoolPriq, FiniteSetTheorems, SequenceTheorems, TLAPS

\* A task that is pushed to the end of its queue without being compared with
\* anyone has the lowest priority and does not ask for the top.
Calm(a) == a.push => a.pri = 0 /\ a.policy = "BACK"

\* The inductive invariant.
PriqIInv == QueuesSound /\ \A x \in Tasks : Calm(attr[x])

\* r is q with e put in at the place k.
Grown(q, k, e, r) ==
    /\ Len(r) = Len(q) + 1 /\ r[k] = e
    /\ \A j \in 1..(k - 1) : r[j] = q[j]
    /\ \A j \in (k + 1)..(Len(q) + 1) : r[j] = q[j - 1]

\* Whom the task with the attributes a may be put behind.
MayPrecede(b, a) == IF a.policy = "TOP" THEN b.pri > a.pri ELSE b.pri >= a.pri

-----------------------------------------------------------------------------
(***************************************************************************)
(* Sequences                                                               *)
(***************************************************************************)

\* What InsertAt does.
LEMMA InsertedAt ==
  ASSUME NEW S, NEW q \in Seq(S), NEW e \in S, NEW k \in 1..(Len(q) + 1)
  PROVE  InsertAt(q, k, e) \in Seq(S) /\ Grown(q, k, e, InsertAt(q, k, e))
<1> DEFINE front == SubSeq(q, 1, k - 1)
           back == SubSeq(q, k, Len(q))
           one == front \o <<e>>
<1>1. Len(q) \in Nat /\ \A j \in 1..Len(q) : q[j] \in S
  BY LenProperties, ElementOfSeq
<1>2. /\ front \in Seq(S) /\ Len(front) = k - 1
      /\ \A j \in 1..(k - 1) : front[j] = q[j]
  <2>1. \A j \in 1..(k - 1) : q[j] \in S
    BY <1>1
  <2> QED
    BY <1>1, <2>1, SubSeqProperties
<1>3. /\ back \in Seq(S) /\ Len(back) = Len(q) - k + 1
      /\ \A j \in 1..(Len(q) - k + 1) : back[j] = q[k + j - 1]
  <2>1. \A j \in k..Len(q) : q[j] \in S
    BY <1>1
  <2> QED
    BY <1>1, <2>1, SubSeqProperties
<1>4. <<e>> \in Seq(S) /\ Len(<<e>>) = 1 /\ <<e>>[1] = e
  OBVIOUS
<1> HIDE DEF front, back
<1>5. /\ one \in Seq(S) /\ Len(one) = k
      /\ \A j \in 1..k : one[j] = IF j <= k - 1 THEN front[j] ELSE <<e>>[j - (k - 1)]
  BY <1>1, <1>2, <1>4, ConcatProperties
<1> HIDE DEF one
<1>6. /\ one \o back \in Seq(S) /\ Len(one \o back) = Len(q) + 1
      /\ \A j \in 1..(Len(q) + 1) :
           (one \o back)[j] = IF j <= k THEN one[j] ELSE back[j - k]
  <2>1. /\ one \o back \in Seq(S)
        /\ Len(one \o back) = Len(one) + Len(back)
        /\ \A j \in 1..(Len(one) + Len(back)) :
             (one \o back)[j] = IF j <= Len(one) THEN one[j] ELSE back[j - Len(one)]
    BY <1>3, <1>5, ConcatProperties
  <2> QED
    BY <1>1, <1>3, <1>5, <2>1
<1>7. InsertAt(q, k, e) = one \o back
  BY DEF InsertAt, one, front, back
<1>8. (one \o back)[k] = e
  BY <1>1, <1>4, <1>5, <1>6
<1>9. \A j \in 1..(k - 1) : (one \o back)[j] = q[j]
  BY <1>1, <1>2, <1>5, <1>6
<1>10. \A j \in (k + 1)..(Len(q) + 1) : (one \o back)[j] = q[j - 1]
  BY <1>1, <1>3, <1>6
<1> QED
  BY <1>6, <1>7, <1>8, <1>9, <1>10 DEF Grown

\* ... and Append.
LEMMA AppendedAt ==
  ASSUME NEW S, NEW q \in Seq(S), NEW e \in S
  PROVE  Append(q, e) \in Seq(S) /\ Grown(q, Len(q) + 1, e, Append(q, e))
<1>1. Len(q) \in Nat
  BY LenProperties
<1> QED
  BY <1>1, AppendProperties DEF Grown

\* What is in a sequence that has grown.
LEMMA GrownRange ==
  ASSUME NEW S, NEW q \in Seq(S), NEW r \in Seq(S), NEW e, NEW k \in 1..(Len(q) + 1),
         Grown(q, k, e, r)
  PROVE  Range(r) = Range(q) \cup {e}
<1>1. Len(q) \in Nat /\ DOMAIN q = 1..Len(q) /\ DOMAIN r = 1..(Len(q) + 1)
  BY LenProperties DEF Grown
<1>2. ASSUME NEW v \in Range(r)
      PROVE  v \in Range(q) \cup {e}
  <2>1. PICK j \in 1..(Len(q) + 1) : v = r[j]
    BY <1>1, <1>2 DEF Range
  <2>2. \/ j = k /\ v = e
        \/ j \in 1..Len(q) /\ v = q[j]
        \/ j - 1 \in 1..Len(q) /\ v = q[j - 1]
    BY <1>1, <2>1 DEF Grown
  <2> QED
    BY <1>1, <2>2 DEF Range
<1>3. ASSUME NEW v \in Range(q)
      PROVE  v \in Range(r)
  <2>1. PICK j \in 1..Len(q) : v = q[j]
    BY <1>1, <1>3 DEF Range
  <2>2. \/ j \in 1..(Len(q) + 1) /\ v = r[j]
        \/ j + 1 \in 1..(Len(q) + 1) /\ v = r[j + 1]
    <3>1. CASE j < k
      BY <1>1, <2>1, <3>1 DEF Grown
    <3>2. CASE j >= k
      <4>1. j + 1 \in (k + 1)..(Len(q) + 1) /\ (j + 1) - 1 = j
        BY <1>1, <2>1, <3>2
      <4> QED
        BY <1>1, <2>1, <4>1 DEF Grown
    <3> QED
      BY <1>1, <2>1, <3>1, <3>2
  <2> QED
    BY <1>1, <2>2 DEF Range
<1>4. e \in Range(r)
  BY <1>1 DEF Grown, Range
<1> QED
  BY <1>2, <1>3, <1>4

-----------------------------------------------------------------------------
(***************************************************************************)
(* The list of the queues that are not empty                               *)
(***************************************************************************)

Falling(r) == \A j, k \in DOMAIN r : j < k => r[j] > r[k]

\* Where __cpool_com_priq_active ends its search: there is a first queue whose
\* priorities are lower.
LEMMA FirstBelow ==
  ASSUME NEW r \in Seq(Queues), NEW i \in Queues, Falling(r), i \notin Range(r),
         r # <<>>, ~(i < Last(r))
  PROVE  \E k \in 1..Len(r) : i > r[k] /\ \A j \in 1..(k - 1) : i <= r[j]
<1> DEFINE above == {j \in 1..Len(r) : r[j] > i}
           k == Cardinality(above) + 1
<1>1. /\ Len(r) \in Nat \ {0} /\ DOMAIN r = 1..Len(r) /\ i \in Int
      /\ \A j \in 1..Len(r) : r[j] \in Int /\ r[j] # i
      /\ \A j, l \in 1..Len(r) : j < l => r[j] > r[l]
  BY LenProperties, EmptySeq, ElementOfSeq, PriqAssumption DEF Range, Queues, Falling
<1>2. IsFiniteSet(above) /\ Cardinality(above) \in Nat
  <2>1. IsFiniteSet(1..Len(r))
    BY <1>1, FS_Interval
  <2> QED
    BY <2>1, FS_Subset, FS_CardinalityType
<1>3. ASSUME NEW a \in Nat, a <= Len(r), above \subseteq 1..a
      PROVE  Cardinality(above) <= a
  <2>1. IsFiniteSet(1..a) /\ Cardinality(1..a) = a
    BY <1>3, FS_Interval
  <2> QED
    BY <1>3, <2>1, FS_Subset
<1>4. ASSUME NEW a \in 1..Len(r), 1..a \subseteq above
      PROVE  a <= Cardinality(above)
  <2>1. Cardinality(1..a) = a
    BY <1>1, FS_Interval
  <2> QED
    BY <1>2, <1>4, <2>1, FS_Subset
<1>5. above \subseteq 1..(Len(r) - 1)
  BY <1>1 DEF Last
<1>6. k \in 1..Len(r)
  BY <1>1, <1>2, <1>3, <1>5
<1> HIDE DEF k
<1>7. i > r[k]
  <2> SUFFICES ASSUME r[k] > i
               PROVE  FALSE
    BY <1>1, <1>6
  <2>1. 1..k \subseteq above
    <3>1. ASSUME NEW j \in 1..k
          PROVE  j \in 1..Len(r) /\ r[j] > i
      <4>1. j \in 1..Len(r) /\ (j = k \/ j < k)
        BY <1>1, <1>6
      <4> QED
        BY <1>1, <1>6, <4>1
    <3> QED
      BY <3>1
  <2>2. k <= Cardinality(above)
    BY <1>4, <1>6, <2>1
  <2> QED
    BY <1>2, <2>2 DEF k
<1>8. ASSUME NEW j \in 1..(k - 1)
      PROVE  i <= r[j]
  <2> SUFFICES ASSUME i > r[j]
               PROVE  FALSE
    BY <1>1, <1>6, <1>8
  <2>1. above \subseteq 1..(j - 1)
    <3>1. ASSUME NEW l \in above
          PROVE  l < j
      <4>1. l \in 1..Len(r) /\ r[l] > i /\ j \in 1..Len(r)
        BY <1>1, <1>6, <1>8
      <4>2. r[l] > r[j] /\ r[j] \in Int /\ r[l] \in Int
        BY <1>1, <4>1
      <4> QED
        BY <1>1, <4>1, <4>2
    <3> QED
      BY <3>1
  <2>2. j - 1 \in Nat /\ j - 1 <= Len(r)
    BY <1>1, <1>6, <1>8
  <2>3. Cardinality(above) <= j - 1
    BY <1>3, <2>1, <2>2
  <2> QED
    BY <1>2, <1>8, <2>3 DEF k
<1> QED
  BY <1>6, <1>7, <1>8

\* A queue that is no longer empty is put where the list stays in order.
LEMMA ActivatedInOrder ==
  ASSUME NEW r \in Seq(Queues), NEW i \in Queues, Falling(r), i \notin Range(r)
  PROVE  /\ Activated(r, i) \in Seq(Queues) /\ Falling(Activated(r, i))
         /\ Range(Activated(r, i)) = Range(r) \cup {i}
<1>1. /\ Len(r) \in Nat /\ DOMAIN r = 1..Len(r) /\ i \in Int
      /\ \A j \in 1..Len(r) : r[j] \in Int /\ r[j] # i
      /\ \A j, l \in 1..Len(r) : j < l => r[j] > r[l]
  BY LenProperties, ElementOfSeq, PriqAssumption DEF Range, Queues, Falling
<1>2. ASSUME NEW k \in 1..(Len(r) + 1), NEW s \in Seq(Queues), Grown(r, k, i, s),
             \A j \in 1..(k - 1) : i < r[j], \A j \in k..Len(r) : i > r[j]
      PROVE  Falling(s) /\ Range(s) = Range(r) \cup {i}
  <2>1. DOMAIN s = 1..(Len(r) + 1)
    BY <1>2, LenProperties DEF Grown
  <2>2. ASSUME NEW a \in 1..(Len(r) + 1), NEW b \in 1..(Len(r) + 1), a < b
        PROVE  s[a] > s[b]
    <3>1. CASE b < k
      <4>1. s[a] = r[a] /\ s[b] = r[b]
        BY <1>1, <1>2, <2>2, <3>1 DEF Grown
      <4> QED
        BY <1>1, <2>2, <3>1, <4>1 DEF Falling
    <3>2. CASE b = k
      <4>1. s[a] = r[a] /\ s[b] = i /\ a \in 1..(k - 1)
        BY <1>1, <1>2, <2>2, <3>2 DEF Grown
      <4>2. i < r[a] /\ r[a] \in Int
        BY <1>1, <1>2, <4>1
      <4> QED
        BY <1>1, <4>1, <4>2
    <3>3. CASE b > k /\ a = k
      <4>1. s[a] = i /\ s[b] = r[b - 1] /\ b - 1 \in k..Len(r)
        BY <1>1, <1>2, <2>2, <3>3 DEF Grown
      <4> QED
        BY <1>1, <1>2, <4>1
    <3>4. CASE b > k /\ a < k
      <4>1. s[a] = r[a] /\ s[b] = r[b - 1]
        BY <1>1, <1>2, <2>2, <3>4 DEF Grown
      <4>2. a \in 1..Len(r) /\ b - 1 \in 1..Len(r) /\ a < b - 1
        BY <1>1, <1>2, <2>2, <3>4
      <4> QED
        BY <1>1, <4>1, <4>2
    <3>5. CASE b > k /\ a > k
      <4>1. s[a] = r[a - 1] /\ s[b] = r[b - 1]
        BY <1>1, <1>2, <2>2, <3>5 DEF Grown
      <4>2. a - 1 \in 1..Len(r) /\ b - 1 \in 1..Len(r) /\ a - 1 < b - 1
        BY <1>1, <1>2, <2>2, <3>5
      <4> QED
        BY <1>1, <4>1, <4>2
    <3> QED
      BY <1>1, <3>1, <3>2, <3>3, <3>4, <3>5
  <2> QED
    BY <1>2, <2>1, <2>2, GrownRange DEF Falling
<1>3. CASE r = <<>> \/ i < Last(r)
  <2>1. Activated(r, i) = Append(r, i)
    BY <1>3 DEF Activated
  <2>2. \A j \in 1..Len(r) : i < r[j]
    <3>1. CASE r = <<>>
      BY <3>1
    <3>2. CASE i < r[Len(r)]
      BY <1>1, <3>2 DEF Falling
    <3> QED
      BY <1>3, <3>1, <3>2 DEF Last
  <2>3. Append(r, i) \in Seq(Queues) /\ Grown(r, Len(r) + 1, i, Append(r, i))
    BY AppendedAt
  <2>4. Len(r) + 1 \in 1..(Len(r) + 1) /\ \A j \in (Len(r) + 1)..Len(r) : FALSE
    BY <1>1
  <2>5. \A j \in 1..((Len(r) + 1) - 1) : i < r[j]
    BY <1>1, <2>2
  <2>6. Falling(Append(r, i)) /\ Range(Append(r, i)) = Range(r) \cup {i}
    BY <1>2, <2>3, <2>4, <2>5
  <2> QED
    BY <2>1, <2>3, <2>6
<1>4. CASE ~(r = <<>> \/ i < Last(r))
  <2> DEFINE k == CHOOSE k \in 1..Len(r) : i > r[k] /\ \A j \in 1..(k - 1) : i <= r[j]
  <2>1. k \in 1..Len(r) /\ i > r[k] /\ \A j \in 1..(k - 1) : i <= r[j]
    BY <1>4, FirstBelow
  <2>2. Activated(r, i) = InsertAt(r, k, i)
    BY <1>4 DEF Activated
  <2> HIDE DEF k
  <2>3. k \in 1..(Len(r) + 1)
    BY <1>1, <2>1
  <2>4. InsertAt(r, k, i) \in Seq(Queues) /\ Grown(r, k, i, InsertAt(r, k, i))
    BY <2>3, InsertedAt
  <2>5. \A j \in 1..(k - 1) : i < r[j]
    BY <1>1, <2>1
  <2>6. \A j \in k..Len(r) : i > r[j]
    BY <1>1, <2>1 DEF Falling
  <2> QED
    BY <1>2, <2>2, <2>3, <2>4, <2>5, <2>6
<1> QED
  BY <1>3, <1>4

-----------------------------------------------------------------------------
(***************************************************************************)
(* The attributes                                                          *)
(***************************************************************************)

\* A priority never names a queue beyond 99.
LEMMA LocatedInRange == \A pri \in 0..99 : Locate(pri) \in 0..100
<1>1. \A d \in 1..100 : 100 \div d \in 1..100
  BY SMT
<1>2. \A pri \in 0..99, d \in 1..100 : pri \div d \in 0..99
  BY SMT
<1> QED
  BY <1>1, <1>2, PriqAssumption DEF Locate, avg_pri

\* Setting fields of the attributes to values of theirs.
LEMMA FieldsSet ==
  ASSUME NEW a \in Attributes, NEW pri \in 0..99, NEW policy \in AllPolicies,
         NEW priq \in 0..100, NEW push \in BOOLEAN, NEW flag \in BOOLEAN
  PROVE  /\ [a EXCEPT !.pri = pri, !.policy = policy, !.push = push] \in Attributes
         /\ [a EXCEPT !.push = push, !.once = flag, !.priq = priq] \in Attributes
         /\ [a EXCEPT !.pri = pri, !.policy = policy] \in Attributes
         /\ [a EXCEPT !.pri = pri, !.priq = priq, !.push = push] \in Attributes
<1>1. [a EXCEPT !.pri = pri, !.policy = policy, !.push = push] \in Attributes
  BY DEF Attributes
<1>2. [a EXCEPT !.push = push, !.once = flag, !.priq = priq] \in Attributes
  BY DEF Attributes
<1>3. [a EXCEPT !.pri = pri, !.policy = policy] \in Attributes
  BY DEF Attributes
<1>4. [a EXCEPT !.pri = pri, !.priq = priq, !.push = push] \in Attributes
  BY DEF Attributes
<1> QED
  BY <1>1, <1>2, <1>3, <1>4

\* Whatever the users ask for and whatever is made of it, the attributes are
\* what the code takes them to be.
LEMMA AttributesKept ==
  ASSUME NEW a \in Attributes, Calm(a)
  PROVE  /\ Recycled(a) \in Attributes /\ Calm(Recycled(a))
         /\ Adjusted(a) \in Attributes /\ Calm(Adjusted(a))
         /\ Located(a) \in Attributes /\ Calm(Located(a))
         /\ \A b \in AllAsked(a) : b \in Attributes /\ Calm(b)
<1>1. PICK none \in 0..99, first \in 0..100, back \in AllPolicies :
             none = 0 /\ first = 0 /\ back = "BACK"
  BY DEF AllPolicies
<1>2. Recycled(a) \in Attributes /\ Calm(Recycled(a))
  <2> DEFINE b == [a EXCEPT !.pri = 0, !.policy = "BACK", !.push = TRUE]
  <2>1. [a EXCEPT !.pri = none, !.policy = back, !.push = TRUE] \in Attributes
    BY FieldsSet
  <2>2. b \in Attributes
    BY <1>1, <2>1
  <2>3. Recycled(a) = [b EXCEPT !.adj = FALSE, !.once = FALSE, !.asked = FALSE]
    BY DEF Recycled
  <2>4. b.pri = 0 /\ b.policy = "BACK"
    BY DEF Attributes
  <2> HIDE DEF b
  <2>5. Recycled(a).pri = b.pri /\ Recycled(a).policy = b.policy
    BY <2>2, <2>3 DEF Attributes
  <2>6. Recycled(a) \in Attributes
    BY <2>2, <2>3 DEF Attributes
  <2> QED
    BY <2>4, <2>5, <2>6 DEF Calm
<1>3. Adjusted(a) \in Attributes /\ Calm(Adjusted(a))
  <2>1. CASE ~a.once
    BY <2>1 DEF Adjusted
  <2>2. CASE a.once
    <3> DEFINE b == [a EXCEPT !.push = TRUE, !.once = FALSE, !.priq = 0]
               c == [b EXCEPT !.pri = 0, !.policy = "BACK"]
    <3>1. [a EXCEPT !.push = TRUE, !.once = FALSE, !.priq = first] \in Attributes
      BY FieldsSet
    <3>2. b \in Attributes
      BY <1>1, <3>1
    <3>3. Adjusted(a) = c
      BY <2>2 DEF Adjusted
    <3> HIDE DEF b
    <3>4. [b EXCEPT !.pri = none, !.policy = back] \in Attributes
      BY <3>2, FieldsSet
    <3>5. c \in Attributes
      BY <1>1, <3>4
    <3>6. c.pri = 0 /\ c.policy = "BACK"
      BY <3>2 DEF Attributes
    <3> HIDE DEF c
    <3> QED
      BY <3>3, <3>5, <3>6 DEF Calm
  <2> QED
    BY <2>1, <2>2
<1>4. Located(a) \in Attributes /\ Calm(Located(a))
  BY LocatedInRange DEF Located, Attributes, Calm
<1>5. ASSUME NEW b \in AllAsked(a)
      PROVE  b \in Attributes /\ Calm(b)
  <2>1. PICK pri \in Pris, policy \in Policies, permanent \in Permanents :
               b = Asked(a, pri, policy, permanent)
    BY <1>5 DEF AllAsked
  <2>2. pri \in 0..99 /\ policy \in AllPolicies /\ permanent \in BOOLEAN
    BY PriqAssumption
  <2> DEFINE c == [a EXCEPT !.policy = policy, !.once = ~permanent, !.asked = TRUE]
  <2>3. c \in Attributes
    BY <2>2 DEF Attributes
  <2>4. CASE pri = 0 /\ policy = "BACK"
    <3> DEFINE d == [c EXCEPT !.pri = 0, !.priq = 0, !.push = TRUE]
    <3>1. b = [d EXCEPT !.adj = FALSE]
      BY <2>1, <2>4 DEF Asked
    <3>2. c.policy = "BACK"
      BY <2>4 DEF Attributes
    <3> HIDE DEF c
    <3>3. [c EXCEPT !.pri = none, !.priq = first, !.push = TRUE] \in Attributes
      BY <2>3, FieldsSet
    <3>4. d \in Attributes
      BY <1>1, <3>3
    <3>5. d.pri = 0 /\ d.policy = "BACK"
      BY <2>3, <3>2 DEF Attributes
    <3> HIDE DEF d
    <3>6. b \in Attributes
      BY <3>1, <3>4 DEF Attributes
    <3>7. b.pri = d.pri /\ b.policy = d.policy
      BY <3>1, <3>4 DEF Attributes
    <3> QED
      BY <3>5, <3>6, <3>7 DEF Calm
  <2>5. CASE ~(pri = 0 /\ policy = "BACK")
    <3>1. b = [c EXCEPT !.pri = pri, !.push = FALSE, !.adj = TRUE]
      BY <2>1, <2>5 DEF Asked
    <3> HIDE DEF c
    <3>2. b \in Attributes
      BY <2>2, <2>3, <3>1 DEF Attributes
    <3>3. b.push = FALSE
      BY <2>3, <3>1 DEF Attributes
    <3> QED
      BY <3>2, <3>3 DEF Calm
  <2> QED
    BY <2>4, <2>5
<1> QED
  BY <1>2, <1>3, <1>4, <1>5

LEMMA PrioritiesCompare == \A a \in Attributes : a.pri \in Int /\ a.pri >= 0
  BY DEF Attributes

\* Where a task is put, nobody before it has a lower priority, nor, if it asks
\* for the top, the same.
LEMMA InsertedBehind ==
  ASSUME NEW q \in Seq(Tasks), NEW x \in Tasks, NEW a \in [Tasks -> Attributes],
         Calm(a[x])
  PROVE  /\ Inserted(q, x, a) \in Seq(Tasks)
         /\ \E k \in 1..(Len(q) + 1) :
              /\ Grown(q, k, x, Inserted(q, x, a))
              /\ \A j \in 1..(k - 1) : MayPrecede(a[q[j]], a[x])
<1>1. /\ Len(q) \in Nat /\ q # <<>> => Len(q) > 0
      /\ \A j \in 1..Len(q) : q[j] \in Tasks
  BY EmptySeq, LenProperties, ElementOfSeq
<1>2. \A y \in Tasks : a[y].pri \in Int /\ a[y].pri >= 0
  <2>1. \A y \in Tasks : a[y] \in Attributes
    BY Zenon
  <2> QED
    BY <2>1, PrioritiesCompare
<1>3. CASE a[x].push \/ q = <<>>
  <2>1. Inserted(q, x, a) = Append(q, x)
    BY <1>3 DEF Inserted
  <2>2. \A j \in 1..((Len(q) + 1) - 1) : MayPrecede(a[q[j]], a[x])
    <3>1. CASE q = <<>>
      BY <3>1
    <3>2. CASE a[x].push
      <4>1. a[x].pri = 0 /\ a[x].policy = "BACK"
        BY <3>2 DEF Calm
      <4>2. ASSUME NEW j \in 1..((Len(q) + 1) - 1)
            PROVE  a[q[j]].pri >= 0
        <5>1. q[j] \in Tasks
          BY <1>1, <4>2
        <5> QED
          BY <1>2, <5>1
      <4> QED
        BY <4>1, <4>2 DEF MayPrecede
    <3> QED
      BY <1>3, <3>1, <3>2
  <2>3. Append(q, x) \in Seq(Tasks) /\ Grown(q, Len(q) + 1, x, Append(q, x))
    BY AppendedAt
  <2>4. Len(q) + 1 \in 1..(Len(q) + 1)
    BY <1>1
  <2> QED
    BY <2>1, <2>2, <2>3, <2>4
<1>4. CASE ~(a[x].push \/ q = <<>>)
  <2> DEFINE ahead == \/ a[x].pri > a[q[1]].pri
                      \/ a[x].pri = a[q[1]].pri /\ a[x].policy = "TOP"
             k == IF ahead THEN 1 ELSE 2
  <2>1. Inserted(q, x, a) = InsertAt(q, k, x)
    BY <1>4 DEF Inserted
  <2>2. k \in 1..(Len(q) + 1)
    BY <1>1, <1>4
  <2>3. \A j \in 1..(k - 1) : MayPrecede(a[q[j]], a[x])
    <3>1. q[1] \in Tasks
      BY <1>1, <1>4
    <3>2. a[q[1]].pri \in Int /\ a[x].pri \in Int
      BY <1>2, <3>1
    <3>3. ~ahead => MayPrecede(a[q[1]], a[x])
      BY <3>2 DEF MayPrecede
    <3>4. \A j \in 1..(k - 1) : j = 1 /\ ~ahead
      OBVIOUS
    <3> QED
      BY <3>3, <3>4
  <2> HIDE DEF k
  <2> QED
    BY <2>1, <2>2, <2>3, InsertedAt
<1> QED
  BY <1>3, <1>4

-----------------------------------------------------------------------------
(***************************************************************************)
(* The steps                                                               *)
(***************************************************************************)

\* Whoever comes to wait is put where it belongs.
Arrivals == \A x \in Waiting' \ Waiting : NoLowerBefore(x)'

\* What EachOnce says of who is in the queues.
LEMMA InQueues ==
  ASSUME TypeOK, EachOnce, NEW i \in Queues, NEW k \in 1..Len(task_q[i])
  PROVE  /\ task_q[i][k] \in Tasks /\ stat[task_q[i][k]] = "waiting"
         /\ attr[task_q[i][k]].priq = i
         /\ \A j \in 1..Len(task_q[i]) : task_q[i][j] = task_q[i][k] => j = k
<1>1. task_q[i] \in Seq(Tasks)
  BY DEF TypeOK
<1>2. DOMAIN task_q[i] = 1..Len(task_q[i])
  BY <1>1, LenProperties
<1> QED
  BY <1>2 DEF EachOnce, Waiting

\* __cpool_com_priq_insert, of a task whose queue there is.
LEMMA AddKeeps ==
  ASSUME PriqIInv, NEW x \in Tasks, NEW a \in Attributes, Calm(a),
         stat[x] # "waiting", a.priq \in Queues, Add(x, a)
  PROVE  PriqIInv' /\ Arrivals
<1> DEFINE i == a.priq
           now == [attr EXCEPT ![x] = [a EXCEPT !.asked = FALSE]]
           q == task_q[i]
           r == Inserted(q, x, now)
<1>1. TypeOK /\ ReadyOrder /\ EachOnce /\ \A y \in Tasks : Calm(attr[y])
  BY DEF PriqIInv, QueuesSound
<1>2. /\ attr' = now
      /\ ready_q' = IF q = <<>> THEN Activated(ready_q, i) ELSE ready_q
      /\ task_q' = [task_q EXCEPT ![i] = r]
      /\ stat' = [stat EXCEPT ![x] = "waiting"]
  BY DEF Add
<1>3. now \in [Tasks -> Attributes] /\ Calm(now[x]) /\ now[x].priq = i
  <2>1. /\ [a EXCEPT !.asked = FALSE] \in Attributes
        /\ Calm([a EXCEPT !.asked = FALSE])
        /\ [a EXCEPT !.asked = FALSE].priq = i
    BY DEF Attributes, Calm
  <2> QED
    BY <1>1, <2>1 DEF TypeOK
<1>4. \A y \in Tasks \ {x} : now[y] = attr[y]
  BY <1>1 DEF TypeOK
<1> HIDE DEF now
<1>5. q \in Seq(Tasks) /\ Len(q) \in Nat /\ DOMAIN q = 1..Len(q)
  BY <1>1, LenProperties DEF TypeOK
<1>6. r \in Seq(Tasks)
  BY <1>3, <1>5, InsertedBehind
<1>7. PICK k \in 1..(Len(q) + 1) :
        /\ Grown(q, k, x, r)
        /\ \A j \in 1..(k - 1) : MayPrecede(now[q[j]], now[x])
  BY <1>3, <1>5, InsertedBehind
<1> HIDE DEF r
<1>8. /\ Len(r) = Len(q) + 1 /\ DOMAIN r = 1..(Len(q) + 1) /\ r # <<>>
      /\ Range(r) = Range(q) \cup {x}
  <2>1. Len(r) = Len(q) + 1
    BY <1>7 DEF Grown
  <2>2. DOMAIN r = 1..(Len(q) + 1) /\ r # <<>>
    BY <1>5, <1>6, <2>1, LenProperties, EmptySeq
  <2> QED
    BY <1>5, <1>6, <1>7, <2>1, <2>2, GrownRange
<1>9. \A j \in 1..Len(q) : /\ q[j] \in Tasks /\ q[j] # x
                           /\ stat[q[j]] = "waiting" /\ attr[q[j]].priq = i
                           /\ \A l \in 1..Len(q) : q[l] = q[j] => l = j
  BY <1>1, InQueues
<1>10. \A j \in 1..(Len(q) + 1) :
         \/ j = k /\ r[j] = x
         \/ j < k /\ j \in 1..Len(q) /\ r[j] = q[j]
         \/ j > k /\ j - 1 \in 1..Len(q) /\ r[j] = q[j - 1]
  <2> SUFFICES ASSUME NEW j \in 1..(Len(q) + 1)
               PROVE  \/ j = k /\ r[j] = x
                      \/ j < k /\ j \in 1..Len(q) /\ r[j] = q[j]
                      \/ j > k /\ j - 1 \in 1..Len(q) /\ r[j] = q[j - 1]
    OBVIOUS
  <2>1. CASE j = k
    BY <1>7, <2>1 DEF Grown
  <2>2. CASE j < k
    <3>1. j \in 1..(k - 1) /\ j \in 1..Len(q)
      BY <1>5, <1>7, <2>2
    <3> QED
      BY <1>7, <2>2, <3>1 DEF Grown
  <2>3. CASE j > k
    <3>1. j \in (k + 1)..(Len(q) + 1) /\ j - 1 \in 1..Len(q)
      BY <1>5, <1>7, <2>3
    <3> QED
      BY <1>7, <2>3, <3>1 DEF Grown
  <2> QED
    BY <1>5, <1>7, <2>1, <2>2, <2>3
<1>11. /\ task_q' \in [Queues -> Seq(Tasks)] /\ task_q'[i] = r
       /\ \A j \in Queues \ {i} : task_q'[j] = task_q[j]
  BY <1>1, <1>2, <1>6 DEF TypeOK
<1>12. /\ stat' \in [Tasks -> TaskStat] /\ stat'[x] = "waiting"
       /\ \A y \in Tasks \ {x} : stat'[y] = stat[y]
  BY <1>1, <1>2 DEF TypeOK, TaskStat
<1>13. ready_q' \in Seq(Queues) /\ ReadyOrder'
  <2>1. ready_q \in Seq(Queues) /\ Falling(ready_q)
    BY <1>1 DEF TypeOK, ReadyOrder, Falling
  <2>2. Range(ready_q) = {j \in Queues : task_q[j] # <<>>}
    BY <1>1 DEF ReadyOrder
  <2>3. /\ ready_q' \in Seq(Queues) /\ Falling(ready_q')
        /\ Range(ready_q') = Range(ready_q) \cup {i}
    <3>1. CASE q = <<>>
      <4>1. i \notin Range(ready_q)
        BY <2>2, <3>1
      <4> QED
        BY <1>2, <2>1, <3>1, <4>1, ActivatedInOrder
    <3>2. CASE q # <<>>
      <4>1. i \in Range(ready_q) /\ ready_q' = ready_q
        BY <1>2, <2>2, <3>2
      <4> QED
        BY <2>1, <4>1
    <3> QED
      BY <3>1, <3>2
  <2>4. {j \in Queues : task_q'[j] # <<>>} = {j \in Queues : task_q[j] # <<>>} \cup {i}
    BY <1>8, <1>11
  <2> QED
    BY <2>2, <2>3, <2>4 DEF ReadyOrder, Falling
<1>14. TypeOK'
  BY <1>2, <1>3, <1>11, <1>12, <1>13 DEF TypeOK
<1>15. \A y \in Waiting' : attr'[y].priq \in Queues /\ y \in Range(task_q'[attr'[y].priq])
  <2> SUFFICES ASSUME NEW y \in Tasks, stat'[y] = "waiting"
               PROVE  attr'[y].priq \in Queues /\ y \in Range(task_q'[attr'[y].priq])
    BY DEF Waiting
  <2>1. CASE y = x
    BY <1>2, <1>3, <1>8, <1>11, <2>1
  <2>2. CASE y # x
    <3>1. stat[y] = "waiting" /\ attr'[y] = attr[y]
      BY <1>2, <1>4, <1>12, <2>2
    <3>2. attr[y].priq \in Queues /\ y \in Range(task_q[attr[y].priq])
      BY <1>1, <3>1 DEF EachOnce, Waiting
    <3> QED
      BY <1>8, <1>11, <3>1, <3>2
  <2> QED
    BY <2>1, <2>2
<1>16. ASSUME NEW j \in Queues, NEW l \in DOMAIN task_q'[j]
       PROVE  /\ task_q'[j][l] \in Waiting' /\ attr'[task_q'[j][l]].priq = j
              /\ \A m \in DOMAIN task_q'[j] : task_q'[j][m] = task_q'[j][l] => m = l
  <2>1. CASE j = i
    <3>1. l \in 1..(Len(q) + 1) /\ task_q'[j] = r
      BY <1>8, <1>11, <1>16, <2>1
    <3>2. \A e \in 1..Len(q) : /\ q[e] \in Tasks /\ stat'[q[e]] = "waiting"
                               /\ attr'[q[e]].priq = i
      BY <1>2, <1>4, <1>9, <1>12
    <3>3. r[l] \in Tasks /\ stat'[r[l]] = "waiting" /\ attr'[r[l]].priq = i
      <4>1. CASE l = k /\ r[l] = x
        BY <1>2, <1>3, <1>12, <4>1
      <4>2. CASE l \in 1..Len(q) /\ r[l] = q[l]
        BY <3>2, <4>2
      <4>3. CASE l - 1 \in 1..Len(q) /\ r[l] = q[l - 1]
        BY <3>2, <4>3
      <4> QED
        BY <1>10, <3>1, <4>1, <4>2, <4>3
    <3>4. ASSUME NEW m \in 1..(Len(q) + 1), r[m] = r[l]
          PROVE  m = l
      <4> DEFINE Old(e) == IF e < k THEN e ELSE e - 1
      <4>1. \A e \in 1..(Len(q) + 1) :
              \/ e = k /\ r[e] = x
              \/ e # k /\ Old(e) \in 1..Len(q) /\ r[e] = q[Old(e)]
        <5> SUFFICES ASSUME NEW e \in 1..(Len(q) + 1)
                     PROVE  \/ e = k /\ r[e] = x
                            \/ e # k /\ Old(e) \in 1..Len(q) /\ r[e] = q[Old(e)]
          OBVIOUS
        <5>1. CASE e = k /\ r[e] = x
          BY <5>1
        <5>2. CASE e < k /\ e \in 1..Len(q) /\ r[e] = q[e]
          BY <1>5, <1>7, <5>2
        <5>3. CASE e > k /\ e - 1 \in 1..Len(q) /\ r[e] = q[e - 1]
          BY <1>5, <1>7, <5>3
        <5> QED
          BY <1>10, <5>1, <5>2, <5>3
      <4>2. CASE m = k \/ l = k
        <5>1. \A e \in {m, l} : e # k => r[e] # x
          BY <1>9, <3>1, <3>4, <4>1
        <5> QED
          BY <3>1, <3>4, <4>1, <4>2, <5>1
      <4>3. CASE m # k /\ l # k
        <5>1. /\ Old(m) \in 1..Len(q) /\ Old(l) \in 1..Len(q)
              /\ q[Old(m)] = q[Old(l)]
          BY <3>1, <3>4, <4>1, <4>3
        <5>2. Old(m) = Old(l)
          BY <1>9, <5>1
        <5> QED
          BY <1>5, <1>7, <3>1, <4>3, <5>2
      <4> QED
        BY <4>2, <4>3
    <3> QED
      BY <1>8, <2>1, <3>1, <3>3, <3>4 DEF Waiting
  <2>2. CASE j # i
    <3>1. task_q'[j] = task_q[j] /\ l \in DOMAIN task_q[j]
      BY <1>11, <1>16, <2>2
    <3>2. /\ task_q[j][l] \in Tasks /\ stat[task_q[j][l]] = "waiting"
          /\ attr[task_q[j][l]].priq = j
          /\ \A m \in DOMAIN task_q[j] : task_q[j][m] = task_q[j][l] => m = l
      BY <1>1, <3>1 DEF EachOnce, Waiting
    <3>3. task_q[j][l] # x
      BY <3>2
    <3> QED
      BY <1>2, <1>4, <1>12, <3>1, <3>2, <3>3 DEF Waiting
  <2> QED
    BY <2>1, <2>2
<1>17. EachOnce'
  BY <1>15, <1>16 DEF EachOnce
<1>18. \A y \in Tasks : Calm(attr'[y])
  BY <1>1, <1>2, <1>3, <1>4
<1>19. Arrivals
  <2> SUFFICES ASSUME NEW y \in Waiting' \ Waiting
               PROVE  NoLowerBefore(y)'
    BY DEF Arrivals
  <2>1. y = x
    BY <1>12 DEF Waiting
  <2>2. task_q'[attr'[x].priq] = r
    BY <1>2, <1>3, <1>11
  <2>3. (CHOOSE l \in DOMAIN r : r[l] = x) = k
    BY <1>7, <1>8, <1>9, <1>10
  <2>4. ASSUME NEW l \in 1..(k - 1)
        PROVE  MayPrecede(attr'[r[l]], attr'[x])
    <3>1. r[l] = q[l]
      BY <1>5, <1>7, <2>4 DEF Grown
    <3> QED
      BY <1>2, <1>7, <2>4, <3>1
  <2> QED
    BY <2>1, <2>2, <2>3, <2>4 DEF NoLowerBefore, MayPrecede
<1> QED
  BY <1>13, <1>14, <1>17, <1>18, <1>19 DEF PriqIInv, QueuesSound

\* A step of a task that does not wait leaves the queues alone.
LEMMA OthersKeep ==
  ASSUME PriqIInv, NEW x \in Tasks, stat[x] # "waiting", UNCHANGED <<task_q, ready_q>>,
         attr' \in [Tasks -> Attributes], Calm(attr'[x]),
         \A y \in Tasks \ {x} : attr'[y] = attr[y],
         stat' \in [Tasks -> TaskStat], stat'[x] # "waiting",
         \A y \in Tasks \ {x} : stat'[y] = stat[y]
  PROVE  PriqIInv' /\ Arrivals
<1>1. TypeOK /\ ReadyOrder /\ EachOnce /\ \A y \in Tasks : Calm(attr[y])
  BY DEF PriqIInv, QueuesSound
<1>2. Waiting' = Waiting /\ Waiting \subseteq Tasks /\ x \notin Waiting
  BY DEF Waiting
<1>3. TypeOK' /\ ReadyOrder'
  BY <1>1 DEF TypeOK, ReadyOrder
<1>4. EachOnce'
  BY <1>1, <1>2 DEF EachOnce
<1>5. \A y \in Tasks : Calm(attr'[y])
  BY <1>1
<1> QED
  BY <1>2, <1>3, <1>4, <1>5 DEF PriqIInv, QueuesSound, Arrivals

\* __cpool_com_priq_insert, of a task whose queue there is not.
LEMMA AstrayKeeps ==
  ASSUME PriqIInv, NEW x \in Tasks, NEW a \in Attributes, Calm(a),
         stat[x] # "waiting", a.priq \notin Queues, Add(x, a)
  PROVE  PriqIInv' /\ Arrivals
<1>1. TypeOK /\ ReadyOrder /\ EachOnce /\ \A y \in Tasks : Calm(attr[y])
  BY DEF PriqIInv, QueuesSound
<1>2. /\ attr' = [attr EXCEPT ![x] = [a EXCEPT !.asked = FALSE]]
      /\ stat' = [stat EXCEPT ![x] = "astray"]
      /\ UNCHANGED <<task_q, ready_q>>
  BY DEF Add
<1>3. /\ [a EXCEPT !.asked = FALSE] \in Attributes
      /\ Calm([a EXCEPT !.asked = FALSE])
  BY DEF Attributes, Calm
<1>4. /\ attr' \in [Tasks -> Attributes] /\ Calm(attr'[x])
      /\ \A y \in Tasks \ {x} : attr'[y] = attr[y]
  BY <1>1, <1>2, <1>3 DEF TypeOK
<1>5. /\ stat' \in [Tasks -> TaskStat] /\ stat'[x] = "astray"
      /\ \A y \in Tasks \ {x} : stat'[y] = stat[y]
  BY <1>1, <1>2 DEF TypeOK, TaskStat
<1> QED
  BY <1>1, <1>2, <1>4, <1>5, OthersKeep DEF TypeOK

\* __cpool_com_priq_pop
LEMMA PopKeeps ==
  ASSUME PriqIInv, Pop
  PROVE  PriqIInv' /\ Arrivals
<1> DEFINE i == ready_q[1]
           q == task_q[i]
           x == q[1]
<1>1. TypeOK /\ ReadyOrder /\ EachOnce /\ \A y \in Tasks : Calm(attr[y])
  BY DEF PriqIInv, QueuesSound
<1>2. /\ ready_q # <<>> /\ attr' = attr
      /\ task_q' = [task_q EXCEPT ![i] = Tail(q)]
      /\ ready_q' = IF Len(q) = 1 THEN Tail(ready_q) ELSE ready_q
      /\ stat' = [stat EXCEPT ![x] = "running"]
  BY DEF Pop
<1>3. /\ ready_q \in Seq(Queues) /\ Len(ready_q) \in Nat \ {0}
      /\ DOMAIN ready_q = 1..Len(ready_q)
      /\ \A j, k \in 1..Len(ready_q) : j < k => ready_q[j] > ready_q[k]
      /\ \A j \in 1..Len(ready_q) : ready_q[j] \in Queues
      /\ Range(ready_q) = {j \in Queues : task_q[j] # <<>>}
  BY <1>1, <1>2, LenProperties, EmptySeq, ElementOfSeq DEF TypeOK, ReadyOrder
<1>4. i \in Queues /\ q # <<>>
  <2>1. i \in Range(ready_q)
    BY <1>3 DEF Range
  <2> QED
    BY <1>3, <2>1
<1>5. /\ q \in Seq(Tasks) /\ Len(q) \in Nat \ {0} /\ DOMAIN q = 1..Len(q)
      /\ Tail(q) \in Seq(Tasks) /\ Len(Tail(q)) = Len(q) - 1
      /\ \A k \in 1..(Len(q) - 1) : Tail(q)[k] = q[k + 1]
  BY <1>1, <1>4, LenProperties, EmptySeq, HeadTailProperties DEF TypeOK
<1>6. DOMAIN Tail(q) = 1..(Len(q) - 1) /\ (Tail(q) = <<>> <=> Len(q) = 1)
  <2>1. DOMAIN Tail(q) = 1..(Len(q) - 1)
    BY <1>5, LenProperties
  <2>2. Tail(q) = <<>> => Len(Tail(q)) = 0
    BY EmptySeq
  <2>3. Tail(q) # <<>> => Len(Tail(q)) # 0
    BY <1>5, EmptySeq
  <2> QED
    BY <1>5, <2>1, <2>2, <2>3
<1>7. \A j \in 1..Len(q) : /\ q[j] \in Tasks
                           /\ stat[q[j]] = "waiting" /\ attr[q[j]].priq = i
                           /\ \A l \in 1..Len(q) : q[l] = q[j] => l = j
  BY <1>1, <1>4, InQueues
<1>8. x \in Tasks /\ stat[x] = "waiting" /\ attr[x].priq = i
  BY <1>5, <1>7
<1>9. /\ task_q' \in [Queues -> Seq(Tasks)] /\ task_q'[i] = Tail(q)
      /\ \A j \in Queues \ {i} : task_q'[j] = task_q[j]
  BY <1>1, <1>2, <1>4, <1>5 DEF TypeOK
<1>10. /\ stat' \in [Tasks -> TaskStat] /\ stat'[x] = "running"
       /\ \A y \in Tasks \ {x} : stat'[y] = stat[y]
  BY <1>1, <1>2, <1>8 DEF TypeOK, TaskStat
<1> HIDE DEF x, q
<1>11. ready_q' \in Seq(Queues) /\ ReadyOrder'
  <2>1. CASE Len(q) # 1
    <3>1. {j \in Queues : task_q'[j] # <<>>} = {j \in Queues : task_q[j] # <<>>}
      BY <1>4, <1>6, <1>9, <2>1 DEF q
    <3> QED
      BY <1>1, <1>2, <1>3, <2>1, <3>1 DEF ReadyOrder
  <2>2. CASE Len(q) = 1
    <3>1. /\ ready_q' = Tail(ready_q) /\ ready_q' \in Seq(Queues)
          /\ DOMAIN ready_q' = 1..(Len(ready_q) - 1)
          /\ \A j \in 1..(Len(ready_q) - 1) : ready_q'[j] = ready_q[j + 1]
      BY <1>2, <1>3, <2>2, HeadTailProperties, LenProperties
    <3>2. \A j, k \in DOMAIN ready_q' : j < k => ready_q'[j] > ready_q'[k]
      BY <1>3, <3>1
    <3>3. {j \in Queues : task_q'[j] # <<>>} = {j \in Queues : task_q[j] # <<>>} \ {i}
      BY <1>6, <1>9, <2>2
    <3>4. ASSUME NEW v
          PROVE  v \in Range(ready_q') <=> v \in Range(ready_q) \ {i}
      <4>1. v \in Range(ready_q') <=> \E j \in 1..(Len(ready_q) - 1) : v = ready_q[j + 1]
        BY <3>1 DEF Range
      <4>2. v \in Range(ready_q) <=> \E j \in 1..Len(ready_q) : v = ready_q[j]
        BY <1>3 DEF Range
      <4>3. \A j \in 1..(Len(ready_q) - 1) : ready_q[j + 1] # i /\ j + 1 \in 1..Len(ready_q)
        <5> SUFFICES ASSUME NEW j \in 1..(Len(ready_q) - 1)
                     PROVE  ready_q[j + 1] # i /\ j + 1 \in 1..Len(ready_q)
          OBVIOUS
        <5>1. j + 1 \in 1..Len(ready_q) /\ 1 \in 1..Len(ready_q) /\ 1 < j + 1
          BY <1>3
        <5>2. i > ready_q[j + 1] /\ i \in Int /\ ready_q[j + 1] \in Int
          BY <1>3, <5>1, PriqAssumption DEF Queues
        <5> QED
          BY <5>1, <5>2
      <4>4. \A j \in 1..Len(ready_q) :
              ready_q[j] # i => j - 1 \in 1..(Len(ready_q) - 1) /\ (j - 1) + 1 = j
        BY <1>3
      <4> QED
        BY <4>1, <4>2, <4>3, <4>4
    <3> QED
      BY <1>3, <3>1, <3>2, <3>3, <3>4 DEF ReadyOrder
  <2> QED
    BY <2>1, <2>2
<1>12. TypeOK'
  BY <1>1, <1>2, <1>9, <1>10, <1>11 DEF TypeOK
<1>13. ASSUME NEW y \in Tasks, stat'[y] = "waiting"
       PROVE  attr'[y].priq \in Queues /\ y \in Range(task_q'[attr'[y].priq])
  <2>1. y # x /\ stat[y] = "waiting" /\ attr'[y] = attr[y]
    BY <1>2, <1>10, <1>13
  <2>2. attr[y].priq \in Queues /\ y \in Range(task_q[attr[y].priq])
    BY <1>1, <2>1 DEF EachOnce, Waiting
  <2>3. CASE attr[y].priq # i
    BY <1>9, <2>1, <2>2, <2>3
  <2>4. CASE attr[y].priq = i
    <3>1. PICK k \in 1..Len(q) : q[k] = y
      BY <1>5, <2>2, <2>4 DEF Range, q
    <3>2. k - 1 \in 1..(Len(q) - 1) /\ (k - 1) + 1 = k
      BY <1>5, <2>1, <3>1 DEF x
    <3>3. Tail(q)[k - 1] = y
      BY <1>5, <3>1, <3>2
    <3> QED
      BY <1>6, <1>9, <2>1, <2>2, <2>4, <3>2, <3>3 DEF Range
  <2> QED
    BY <2>3, <2>4
<1>14. ASSUME NEW j \in Queues, NEW l \in DOMAIN task_q'[j]
       PROVE  /\ task_q'[j][l] \in Waiting' /\ attr'[task_q'[j][l]].priq = j
              /\ \A m \in DOMAIN task_q'[j] : task_q'[j][m] = task_q'[j][l] => m = l
  <2>1. CASE j = i
    <3>1. l \in 1..(Len(q) - 1) /\ task_q'[j] = Tail(q)
      BY <1>6, <1>9, <1>14, <2>1
    <3>2. \A m \in 1..(Len(q) - 1) :
            m + 1 \in 1..Len(q) /\ m + 1 # 1 /\ Tail(q)[m] = q[m + 1]
      BY <1>5
    <3>3. \A m \in 1..(Len(q) - 1) : Tail(q)[m] # x
      BY <1>5, <1>7, <3>2 DEF x
    <3>4. /\ Tail(q)[l] \in Tasks /\ stat'[Tail(q)[l]] = "waiting"
          /\ attr'[Tail(q)[l]].priq = i
      BY <1>2, <1>7, <1>10, <3>1, <3>2, <3>3
    <3>5. ASSUME NEW m \in 1..(Len(q) - 1), Tail(q)[m] = Tail(q)[l]
          PROVE  m = l
      <4>1. q[m + 1] = q[l + 1] /\ m + 1 \in 1..Len(q) /\ l + 1 \in 1..Len(q)
        BY <3>1, <3>2, <3>5
      <4>2. m + 1 = l + 1
        BY <1>7, <4>1
      <4> QED
        BY <1>5, <3>1, <4>2
    <3> QED
      BY <1>6, <2>1, <3>1, <3>4, <3>5 DEF Waiting
  <2>2. CASE j # i
    <3>1. task_q'[j] = task_q[j] /\ l \in DOMAIN task_q[j]
      BY <1>9, <1>14, <2>2
    <3>2. /\ task_q[j][l] \in Tasks /\ stat[task_q[j][l]] = "waiting"
          /\ attr[task_q[j][l]].priq = j
          /\ \A m \in DOMAIN task_q[j] : task_q[j][m] = task_q[j][l] => m = l
      BY <1>1, <3>1 DEF EachOnce, Waiting
    <3>3. task_q[j][l] # x
      BY <1>8, <2>2, <3>2
    <3> QED
      BY <1>2, <1>10, <3>1, <3>2, <3>3 DEF Waiting
  <2> QED
    BY <2>1, <2>2
<1>15. EachOnce'
  BY <1>13, <1>14 DEF EachOnce, Waiting
<1>16. Waiting' \ Waiting = {}
  BY <1>10 DEF Waiting
<1> QED
  BY <1>1, <1>2, <1>11, <1>12, <1>15, <1>16 DEF PriqIInv, QueuesSound, Arrivals

\* __cpool_rt_priq_remove_all
LEMMA RemoveAllKeeps ==
  ASSUME PriqIInv, RemoveAll
  PROVE  PriqIInv' /\ Arrivals
<1>1. TypeOK /\ \A y \in Tasks : Calm(attr[y])
  BY DEF PriqIInv, QueuesSound
<1>2. /\ task_q' = [i \in Queues |-> <<>>] /\ ready_q' = <<>> /\ attr' = attr
      /\ stat' = [y \in Tasks |-> IF stat[y] = "waiting" THEN "running" ELSE stat[y]]
  BY DEF RemoveAll
<1>3. \A y \in Tasks : stat'[y] # "waiting"
  BY <1>2
<1>4. Waiting' = {}
  BY <1>3 DEF Waiting
<1>5. <<>> \in Seq(Queues) /\ <<>> \in Seq(Tasks) /\ DOMAIN <<>> = {} /\ Range(<<>>) = {}
  <2>1. <<>> \in Seq(Queues) /\ <<>> \in Seq(Tasks) /\ DOMAIN <<>> = {}
    OBVIOUS
  <2> QED
    BY <2>1 DEF Range
<1>6. TypeOK'
  BY <1>1, <1>2, <1>5 DEF TypeOK, TaskStat
<1>7. ReadyOrder'
  BY <1>2, <1>5 DEF ReadyOrder
<1>8. EachOnce'
  BY <1>2, <1>4, <1>5 DEF EachOnce
<1> QED
  BY <1>1, <1>2, <1>4, <1>6, <1>7, <1>8 DEF PriqIInv, QueuesSound, Arrivals

-----------------------------------------------------------------------------

LEMMA InitPriqIInv == Init => PriqIInv
<1> SUFFICES ASSUME Init
             PROVE  PriqIInv
  OBVIOUS
<1> DEFINE a == [priq |-> 0, pri |-> 0, policy |-> "BACK", push |-> TRUE,
                 adj |-> FALSE, once |-> FALSE, asked |-> FALSE]
<1>1. a \in Attributes /\ Calm(a)
  BY DEF Attributes, AllPolicies, Calm
<1>2. attr = [x \in Tasks |-> Recycled(a)]
  BY DEF Init
<1> HIDE DEF a
<1>3. \A x \in Tasks : Calm(attr[x])
  BY <1>1, <1>2, AttributesKept
<1>4. attr \in [Tasks -> Attributes]
  BY <1>1, <1>2, AttributesKept
<1>5. <<>> \in Seq(Queues) /\ <<>> \in Seq(Tasks) /\ DOMAIN <<>> = {} /\ Range(<<>>) = {}
  <2>1. <<>> \in Seq(Queues) /\ <<>> \in Seq(Tasks) /\ DOMAIN <<>> = {}
    OBVIOUS
  <2> QED
    BY <2>1 DEF Range
<1>6. TypeOK
  BY <1>4, <1>5 DEF Init, TypeOK, TaskStat
<1>7. Waiting = {}
  BY DEF Init, Waiting
<1>8. ReadyOrder
  BY <1>5 DEF Init, ReadyOrder
<1>9. EachOnce
  BY <1>5, <1>7 DEF Init, EachOnce
<1> QED
  BY <1>3, <1>6, <1>8, <1>9 DEF PriqIInv, QueuesSound

\* Every step keeps the invariant, and puts who comes where it belongs.
LEMMA StepKeeps ==
  ASSUME PriqIInv, Next
  PROVE  PriqIInv' /\ Arrivals
<1>1. /\ attr \in [Tasks -> Attributes] /\ stat \in [Tasks -> TaskStat]
      /\ \A y \in Tasks : attr[y] \in Attributes /\ Calm(attr[y])
  BY DEF PriqIInv, QueuesSound, TypeOK
<1>2. ASSUME NEW x \in Tasks, NEW a \in Attributes, Calm(a), stat[x] # "waiting", Add(x, a)
      PROVE  PriqIInv' /\ Arrivals
  BY <1>2, AddKeeps, AstrayKeeps
<1>3. ASSUME NEW x \in Tasks, AddRoutine(x)
      PROVE  PriqIInv' /\ Arrivals
  <2>1. PICK a \in {attr[x]} \cup AllAsked(attr[x]) : Add(x, Located(a))
    BY <1>3 DEF AddRoutine
  <2>2. a \in Attributes /\ Calm(a)
    BY <1>1, <2>1, AttributesKept
  <2>3. Located(a) \in Attributes /\ Calm(Located(a))
    BY <2>2, AttributesKept
  <2> QED
    BY <1>2, <1>3, <2>1, <2>3 DEF AddRoutine
<1>4. ASSUME NEW x \in Tasks, SetAttr(x)
      PROVE  PriqIInv' /\ Arrivals
  <2>1. PICK a \in AllAsked(attr[x]) : attr' = [attr EXCEPT ![x] = a]
    BY <1>4 DEF SetAttr
  <2>2. a \in Attributes /\ Calm(a)
    BY <1>1, <2>1, AttributesKept
  <2>3. stat[x] # "waiting" /\ stat' = stat /\ UNCHANGED <<task_q, ready_q>>
    BY <1>4 DEF SetAttr
  <2> QED
    BY <1>1, <2>1, <2>2, <2>3, OthersKeep
<1>5. ASSUME NEW x \in Tasks, MarkAgain(x)
      PROVE  PriqIInv' /\ Arrivals
  <2>1. /\ stat[x] = "running" /\ stat' = [stat EXCEPT ![x] = "again"]
        /\ attr' = [attr EXCEPT ![x] = Located(attr[x])] /\ UNCHANGED <<task_q, ready_q>>
    BY <1>5 DEF MarkAgain
  <2>2. Located(attr[x]) \in Attributes /\ Calm(Located(attr[x]))
    BY <1>1, AttributesKept
  <2> QED
    BY <1>1, <2>1, <2>2, OthersKeep DEF TaskStat
<1>6. ASSUME NEW x \in Tasks, Finish(x)
      PROVE  PriqIInv' /\ Arrivals
  <2>1. CASE /\ stat[x] = "running" /\ stat' = [stat EXCEPT ![x] = "out"]
             /\ attr' = [attr EXCEPT ![x] = Recycled(attr[x])]
             /\ UNCHANGED <<task_q, ready_q>>
    <3>1. Recycled(attr[x]) \in Attributes /\ Calm(Recycled(attr[x]))
      BY <1>1, AttributesKept
    <3> QED
      BY <1>1, <2>1, <3>1, OthersKeep DEF TaskStat
  <2>2. CASE stat[x] = "again" /\ Add(x, Located(Adjusted(attr[x])))
    <3>1. Adjusted(attr[x]) \in Attributes /\ Calm(Adjusted(attr[x]))
      BY <1>1, AttributesKept
    <3>2. /\ Located(Adjusted(attr[x])) \in Attributes
          /\ Calm(Located(Adjusted(attr[x])))
      BY <3>1, AttributesKept
    <3> QED
      BY <1>2, <2>2, <3>2
  <2> QED
    BY <1>6, <2>1, <2>2 DEF Finish
<1> QED
  BY <1>3, <1>4, <1>5, <1>6, PopKeeps, RemoveAllKeeps DEF Next

LEMMA PriqIInvAlways == Spec => []PriqIInv
<1>1. PriqIInv /\ UNCHANGED vars => PriqIInv'
  BY DEF PriqIInv, QueuesSound, TypeOK, ReadyOrder, EachOnce, Waiting, Calm, vars
<1> QED
  BY <1>1, InitPriqIInv, StepKeeps, PTL DEF Spec

\* Threads, which take the first task of the first queue there is, come to every
\* task that waits: each is in the queue its priq names, once, and the queues
\* that are not empty are listed from the highest priorities down.
THEOREM QueuesAlwaysSound == Spec => []QueuesSound
<1>1. PriqIInv => QueuesSound
  BY DEF PriqIInv
<1> QED
  BY <1>1, PriqIInvAlways, PTL

\* __cpool_com_priq_insert0 compares a task with the first one of its queue and
\* with no other, and still never puts it behind one of lower priority, however
\* the users ask and whatever priq_num is.
THEOREM BehindNoLowerAlways == Spec => BehindNoLower
<1>1. PriqIInv /\ [Next]_vars => [Arrivals]_vars
  BY StepKeeps
<1>2. Spec => [][Arrivals]_vars
  BY <1>1, PriqIInvAlways, PTL DEF Spec
<1> QED
  BY <1>2 DEF BehindNoLower, Arrivals
=============================================================================
