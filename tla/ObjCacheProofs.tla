---------------------------- MODULE ObjCacheProofs ----------------------------
(***************************************************************************)
(* Of ObjCache: FlagsKept, as long as no thread is marked, or used again   *)
(* though it was marked, inside cpool_core_GC_leave, and OnePlace,         *)
(* PoolSound and AllFreed, if also blocks are found at addresses for which *)
(* the search of objpool_get stays in its array.                           *)
(*                                                                         *)
(* The invariant of the last three is a function w from the objects to     *)
(* where they are (ObjectsKept): each place lists just the objects w puts  *)
(* there.  A step moves some of them, and is a lemma about the lists it    *)
(* changes (Lists), or about the blocks of the pool (IsPool).  To it       *)
(* belong that the list of free threads is ordered, so that                *)
(* smcache_add_limit loses none (ThcOK), and what a pool that is released  *)
(* has left (LifeOK).                                                      *)
(***************************************************************************)
EXTENDS ObjCache, FiniteSetTheorems, SequenceTheorems, TLAPS

ThreadFields == {"at", "task", "qcache", "flags", "seen", "limit", "rmq"}
CoreFields == {"GC", "delay", "due", "dying", "status", "cleaning", "attr"}

IsThread(r) == r = [f \in ThreadFields |-> r[f]]
IsCore(g) == g = [f \in CoreFields |-> g[f]]
AreThreads(th) == th = [t \in Threads |-> th[t]]

\* Thread objects that are not in use have no flags; the thread that is to give
\* the GC up has read all marks there are; who does the GC has its flag.
FlagsOf(r) ==
    /\ IsThread(r)
    /\ r.at \in {"none", "cached", "left"} => r.flags = {}
    /\ r.at = "unset" => "GC" \in r.flags /\ ("RM" \in r.seen <=> "RM" \in r.flags)
    /\ r.at \in {"gc", "free"} => "GC" \in r.flags

MarkedIn(th) == {t \in Threads : "RM" \in th[t].flags}

\* The flags of the threads th and the core g, which agree.
Agree(th, g) ==
    /\ AreThreads(th) /\ IsCore(g)
    /\ \A t \in Threads : FlagsOf(th[t])
    /\ \A t \in Threads : "GC" \in th[t].flags <=> g.GC = t
    /\ g.dying = Cardinality(MarkedIn(th))

Distinct(q) == \A i, j \in 1..Len(q) : q[i] = q[j] => i = j

\* core->cache_thread has each object once, and none that is in use.
CacheOf(q, th) ==
    /\ q \in Seq(Threads) /\ Distinct(q)
    /\ \A i \in 1..Len(q) : th[q[i]].at = "cached"

FlagsIInv == Agree(ths, gc) /\ CacheOf(thc, ths)

-----------------------------------------------------------------------------
(***************************************************************************)
(* Flags                                                                   *)
(***************************************************************************)

\* Marks and the GC stay where they are.
LEMMA FlagsStay ==
  ASSUME NEW th, NEW g, NEW th2, NEW g2, Agree(th, g), AreThreads(th2), IsCore(g2),
         \A t \in Threads : FlagsOf(th2[t]),
         \A t \in Threads : "RM" \in th2[t].flags <=> "RM" \in th[t].flags,
         \A t \in Threads : "GC" \in th2[t].flags <=> "GC" \in th[t].flags,
         g2.dying = g.dying, g2.GC = g.GC
  PROVE  Agree(th2, g2)
<1>1. MarkedIn(th2) = MarkedIn(th)
  BY DEF MarkedIn
<1> QED
  BY <1>1 DEF Agree

Mark1(r) == IF "RM" \in r.flags THEN 1 ELSE 0

\* The flags of one thread change.
LEMMA FlagsChange ==
  ASSUME NEW th, NEW g, NEW th2, NEW g2, NEW t \in Threads,
         Agree(th, g), AreThreads(th2), IsCore(g2), FlagsOf(th2[t]),
         \A u \in Threads \ {t} : th2[u] = th[u],
         "GC" \in th2[t].flags <=> g2.GC = t,
         \A u \in Threads \ {t} : g2.GC = u <=> g.GC = u,
         g2.dying = g.dying + Mark1(th2[t]) - Mark1(th[t])
  PROVE  Agree(th2, g2)
<1>1. IsFiniteSet(MarkedIn(th)) /\ Cardinality(MarkedIn(th)) \in Nat
  BY ObjAssumption, FS_Subset, FS_CardinalityType DEF ObjAssumption, MarkedIn
<1>2. g2.dying = Cardinality(MarkedIn(th2))
  <2>1. CASE "RM" \in th2[t].flags /\ "RM" \notin th[t].flags
    <3>1. MarkedIn(th2) = MarkedIn(th) \cup {t} /\ t \notin MarkedIn(th)
      BY <2>1 DEF MarkedIn
    <3>2. Cardinality(MarkedIn(th2)) = Cardinality(MarkedIn(th)) + 1
      BY <1>1, <3>1, FS_AddElement
    <3> QED
      BY <1>1, <2>1, <3>2 DEF Mark1, Agree
  <2>2. CASE "RM" \notin th2[t].flags /\ "RM" \in th[t].flags
    <3>1. MarkedIn(th2) = MarkedIn(th) \ {t} /\ t \in MarkedIn(th)
      BY <2>2 DEF MarkedIn
    <3>2. Cardinality(MarkedIn(th2)) = Cardinality(MarkedIn(th)) - 1
      BY <1>1, <3>1, FS_RemoveElement
    <3> QED
      BY <1>1, <2>2, <3>2 DEF Mark1, Agree
  <2>3. CASE "RM" \in th2[t].flags <=> "RM" \in th[t].flags
    <3>1. MarkedIn(th2) = MarkedIn(th)
      BY <2>3 DEF MarkedIn
    <3> QED
      BY <1>1, <2>3, <3>1 DEF Mark1, Agree
  <2> QED
    BY <2>1, <2>2, <2>3
<1>3. \A u \in Threads : "GC" \in th2[u].flags <=> g2.GC = u
  BY DEF Agree
<1>4. \A u \in Threads : FlagsOf(th2[u])
  BY DEF Agree
<1> QED
  BY <1>2, <1>3, <1>4 DEF Agree

LEMMA NewThreadFlags ==
  ASSUME NEW where \in {"none", "cached", "ready", "left"}
  PROVE  FlagsOf(NewThread(where)) /\ NewThread(where).flags = {}
         /\ NewThread(where).at = where
BY DEF FlagsOf, NewThread, IsThread, ThreadFields

\* THREAD_STAT_LEAVE
LEMMA LeftAgrees ==
  ASSUME NEW th, NEW g, NEW t \in Threads, NEW q, Agree(th, g)
  PROVE  Agree(Left(th, t, q, g).ths, Left(th, t, q, g).gc)
<1> DEFINE th2 == [th EXCEPT ![t] = NewThread("left")]
           g2 == [g EXCEPT !.dying = IF "RM" \in th[t].flags THEN @ - 1 ELSE @,
                           !.GC = IF @ = t THEN NoThread ELSE @]
<1>1. Left(th, t, q, g).ths = th2 /\ Left(th, t, q, g).gc = g2
  BY DEF Left
<1>2. AreThreads(th2) /\ th2[t] = NewThread("left")
      /\ \A u \in Threads \ {t} : th2[u] = th[u]
  BY DEF AreThreads, Agree
<1>3. IsCore(g2) /\ g2.GC = (IF g.GC = t THEN NoThread ELSE g.GC)
      /\ g2.dying = (IF "RM" \in th[t].flags THEN g.dying - 1 ELSE g.dying)
  BY DEF IsCore, CoreFields, Agree
<1>4. g.dying \in Nat
  BY ObjAssumption, FS_Subset, FS_CardinalityType DEF ObjAssumption, MarkedIn, Agree
<1> HIDE DEF th2, g2
<1>5. g2.GC # t /\ \A u \in Threads \ {t} : g2.GC = u <=> g.GC = u
  BY <1>3, ObjAssumption DEF ObjAssumption
<1>6. g2.dying = g.dying + Mark1(th2[t]) - Mark1(th[t])
  BY <1>2, <1>3, <1>4, NewThreadFlags DEF Mark1
<1>7. Agree(th2, g2)
  BY <1>2, <1>3, <1>5, <1>6, NewThreadFlags, FlagsChange
<1> QED
  BY <1>1, <1>7

\* Any change to the fields of t but the flags, in a place where these may be.
LEMMA MovedAgrees ==
  ASSUME NEW th, NEW g, NEW th2, NEW t \in Threads, Agree(th, g), AreThreads(th2),
         FlagsOf(th2[t]), th2[t].flags = th[t].flags,
         \A u \in Threads \ {t} : th2[u] = th[u]
  PROVE  Agree(th2, g)
<1>1. \A u \in Threads : FlagsOf(th2[u]) /\ th2[u].flags = th[u].flags
  BY DEF Agree
<1> QED
  BY <1>1, FlagsStay DEF Agree

\* THREAD_STAT_WAIT, or LEAVE
LEMMA RestAgrees ==
  ASSUME NEW th, NEW g, NEW t \in Threads, NEW q, Agree(th, g)
  PROVE  Agree(Rest(th, t, q, g).ths, Rest(th, t, q, g).gc)
<1>1. CASE Quits(th[t].flags)
  BY <1>1, LeftAgrees DEF Rest
<1>2. CASE ~Quits(th[t].flags)
  <2> DEFINE th2 == [th EXCEPT ![t].at = "asleep", ![t].qcache = <<>>,
                               ![t].flags = @ \ {"FLUSH"}]
  <2>1. Rest(th, t, q, g).ths = th2 /\ Rest(th, t, q, g).gc = g
    BY <1>2 DEF Rest
  <2>2. /\ AreThreads(th2) /\ \A u \in Threads \ {t} : th2[u] = th[u]
        /\ th2[t] = [th[t] EXCEPT !.at = "asleep", !.qcache = <<>>,
                                  !.flags = @ \ {"FLUSH"}]
    BY DEF AreThreads, Agree
  <2> HIDE DEF th2
  <2>3. IsThread(th[t])
    BY DEF Agree, FlagsOf
  <2>4. /\ IsThread(th2[t]) /\ th2[t].at = "asleep"
        /\ th2[t].flags = th[t].flags \ {"FLUSH"}
    BY <2>2, <2>3 DEF IsThread, ThreadFields
  <2>5. FlagsOf(th2[t])
    BY <2>4 DEF FlagsOf
  <2>6. \A u \in Threads : FlagsOf(th2[u])
    BY <2>2, <2>5 DEF Agree
  <2>7. \A u \in Threads : /\ "RM" \in th2[u].flags <=> "RM" \in th[u].flags
                           /\ "GC" \in th2[u].flags <=> "GC" \in th[u].flags
    BY <2>2, <2>4
  <2>8. Agree(th2, g)
    BY <2>2, <2>6, <2>7, FlagsStay DEF Agree
  <2> QED
    BY <2>1, <2>8
<1> QED
  BY <1>1, <1>2

\* cpool_core_objs_local_flushl_all
LEMMA FlushAllAgrees ==
  ASSUME NEW th, NEW g, Agree(th, g),
         \A t \in Alive : th[t].at \notin {"none", "cached", "left"}
  PROVE  /\ Agree(FlushAll(th), g)
         /\ \A t \in Threads : FlushAll(th)[t].at = th[t].at
<1>1. AreThreads(FlushAll(th))
  BY DEF FlushAll, AreThreads
<1>2. ASSUME NEW t \in Threads
      PROVE  /\ FlagsOf(FlushAll(th)[t]) /\ FlushAll(th)[t].at = th[t].at
             /\ "RM" \in FlushAll(th)[t].flags <=> "RM" \in th[t].flags
             /\ "GC" \in FlushAll(th)[t].flags <=> "GC" \in th[t].flags
  <2> DEFINE r == FlushAll(th)[t]
  <2>1. FlagsOf(th[t])
    BY DEF Agree
  <2>2. CASE r = th[t]
    BY <2>1, <2>2
  <2>3. CASE r = [th[t] EXCEPT !.flags = @ \cup {"FLUSH"}] /\ t \in Alive
    <3> HIDE DEF r
    <3>1. IsThread(r) /\ r.at = th[t].at /\ r.flags = th[t].flags \cup {"FLUSH"}
          /\ r.seen = th[t].seen
      BY <2>1, <2>3 DEF FlagsOf, IsThread, ThreadFields
    <3>2. FlagsOf(r)
      BY <2>1, <2>3, <3>1 DEF FlagsOf
    <3> QED
      BY <3>1, <3>2 DEF r
  <2> QED
    BY <2>2, <2>3 DEF FlushAll
<1> QED
  BY <1>1, <1>2, FlagsStay DEF Agree

\* A thread that may do the GC joins it, gives it up or goes on.
LEMMA SelectedAgrees ==
  ASSUME NEW t \in Threads, NEW q, Agree(ths, gc), ths[t].at = "ready", MayGC(t)
  PROVE  Agree(Selected(t, q).ths, Selected(t, q).gc)
<1> DEFINE own == [ths EXCEPT ![t].qcache = <<>>, ![t].flags = @ \ {"FLUSH"}]
           th == IF Len(q) = 0 THEN FlushAll(own) ELSE own
           f == ths[t].flags
           out == [th EXCEPT ![t].flags = @ \ {"GC"}]
           joined == [th EXCEPT ![t].flags = @ \cup {"GC"}]
           doing == [joined EXCEPT ![t].at = "gc", ![t].limit = Len(q) - GcOneTime]
           mine == [gc EXCEPT !.GC = t]
           none == IF "GC" \in f THEN [gc EXCEPT !.GC = NoThread] ELSE gc
           off == [gc EXCEPT !.due = FALSE, !.delay = FALSE]
<1>1. Selected(t, q) =
        IF Enough(Len(q)) THEN Rest(out, t, q, none)
        ELSE IF PutOff(f, Len(q)) THEN Rest(th, t, q, off)
        ELSE IF ~gc.due THEN Rest(joined, t, q, mine)
        ELSE [ths |-> doing, gc |-> mine, xq |-> q]
  BY DEF Selected
<1>2. Agree(own, gc) /\ own[t].at = "ready" /\ own[t].flags = f \ {"FLUSH"}
      /\ \A u \in Threads \ {t} : own[u] = ths[u]
  <2>1. /\ AreThreads(own) /\ \A u \in Threads \ {t} : own[u] = ths[u]
        /\ own[t] = [ths[t] EXCEPT !.qcache = <<>>, !.flags = @ \ {"FLUSH"}]
    BY DEF AreThreads, Agree
  <2> HIDE DEF own
  <2>2. IsThread(ths[t])
    BY DEF Agree, FlagsOf
  <2>3. IsThread(own[t]) /\ own[t].at = "ready" /\ own[t].flags = f \ {"FLUSH"}
    BY <2>1, <2>2 DEF IsThread, ThreadFields
  <2>4. FlagsOf(own[t])
    BY <2>3 DEF FlagsOf
  <2>5. \A u \in Threads : FlagsOf(own[u])
    BY <2>1, <2>4 DEF Agree
  <2>6. \A u \in Threads : /\ "RM" \in own[u].flags <=> "RM" \in ths[u].flags
                           /\ "GC" \in own[u].flags <=> "GC" \in ths[u].flags
    BY <2>1, <2>3
  <2>7. Agree(own, gc)
    BY <2>1, <2>5, <2>6, FlagsStay DEF Agree
  <2> QED
    BY <2>1, <2>3, <2>7
<1>3. Agree(th, gc) /\ th[t].at = "ready"
  <2>1. \A u \in Alive : own[u].at \notin {"none", "cached", "left"}
    BY <1>2 DEF Alive
  <2> HIDE DEF own
  <2> QED
    BY <1>2, <2>1, FlushAllAgrees
<1>4. AreThreads(th) /\ IsCore(gc) /\ IsThread(th[t]) /\ gc.dying \in Nat
  <2>1. gc.dying \in Nat
    BY ObjAssumption, FS_Subset, FS_CardinalityType DEF ObjAssumption, MarkedIn, Agree
  <2> HIDE DEF th
  <2> QED
    BY <1>3, <2>1 DEF Agree, FlagsOf
<1>5. gc.GC \in {NoThread, t} /\ ("GC" \in f <=> gc.GC = t)
      /\ ("GC" \in th[t].flags <=> gc.GC = t)
  BY <1>3 DEF MayGC, Agree
<1>6. /\ IsCore(mine) /\ mine.GC = t /\ mine.dying = gc.dying
      /\ IsCore(none) /\ none.GC = NoThread /\ none.dying = gc.dying
      /\ IsCore(off) /\ off.GC = gc.GC /\ off.dying = gc.dying
  BY <1>4, <1>5 DEF IsCore, CoreFields
<1> HIDE DEF mine, none, off, own, th, f
<1>7. Agree(th, off)
  BY <1>3, <1>6, FlagsStay DEF Agree
<1>8. Agree(out, none)
  <2>1. /\ AreThreads(out) /\ \A u \in Threads \ {t} : out[u] = th[u]
        /\ out[t] = [th[t] EXCEPT !.flags = @ \ {"GC"}]
    BY <1>4 DEF AreThreads
  <2> HIDE DEF out
  <2>2. IsThread(out[t]) /\ out[t].at = "ready" /\ out[t].flags = th[t].flags \ {"GC"}
    BY <2>1, <1>3, <1>4 DEF IsThread, ThreadFields
  <2>3. FlagsOf(out[t])
    BY <2>2 DEF FlagsOf
  <2>4. /\ "GC" \notin out[t].flags /\ none.GC # t
        /\ \A u \in Threads \ {t} : none.GC = u <=> gc.GC = u
    BY <2>2, <1>5, <1>6, ObjAssumption DEF ObjAssumption
  <2>5. none.dying = gc.dying + Mark1(out[t]) - Mark1(th[t])
    BY <2>2, <1>4, <1>6 DEF Mark1
  <2> QED
    BY <1>3, <1>6, <2>1, <2>3, <2>4, <2>5, FlagsChange
<1>9. Agree(joined, mine) /\ joined[t].at = "ready" /\ "GC" \in joined[t].flags
  <2>1. /\ AreThreads(joined) /\ \A u \in Threads \ {t} : joined[u] = th[u]
        /\ joined[t] = [th[t] EXCEPT !.flags = @ \cup {"GC"}]
    BY <1>4 DEF AreThreads
  <2> HIDE DEF joined
  <2>2. IsThread(joined[t]) /\ joined[t].at = "ready"
        /\ joined[t].flags = th[t].flags \cup {"GC"}
    BY <2>1, <1>3, <1>4 DEF IsThread, ThreadFields
  <2>3. FlagsOf(joined[t])
    BY <2>2 DEF FlagsOf
  <2>4. /\ "GC" \in joined[t].flags /\ mine.GC = t
        /\ \A u \in Threads \ {t} : mine.GC = u <=> gc.GC = u
    BY <2>2, <1>5, <1>6, ObjAssumption DEF ObjAssumption
  <2>5. mine.dying = gc.dying + Mark1(joined[t]) - Mark1(th[t])
    BY <2>2, <1>4, <1>6 DEF Mark1
  <2>6. Agree(joined, mine)
    BY <1>3, <1>6, <2>1, <2>3, <2>4, <2>5, FlagsChange
  <2> QED
    BY <2>2, <2>4, <2>6
<1> HIDE DEF out, joined
<1>10. Agree(doing, mine)
  <2>1. /\ AreThreads(doing) /\ \A u \in Threads \ {t} : doing[u] = joined[u]
        /\ doing[t] = [joined[t] EXCEPT !.at = "gc", !.limit = Len(q) - GcOneTime]
    BY <1>9 DEF AreThreads, Agree
  <2> HIDE DEF doing
  <2>2. IsThread(joined[t])
    BY <1>9 DEF Agree, FlagsOf
  <2>3. IsThread(doing[t]) /\ doing[t].at = "gc" /\ doing[t].flags = joined[t].flags
    BY <2>1, <2>2 DEF IsThread, ThreadFields
  <2>4. FlagsOf(doing[t])
    BY <2>3, <1>9 DEF FlagsOf
  <2> QED
    BY <1>9, <2>1, <2>3, <2>4, MovedAgrees
<1> HIDE DEF doing
<1> QED
  BY <1>1, <1>7, <1>8, <1>9, <1>10, RestAgrees

-----------------------------------------------------------------------------
(***************************************************************************)
(* core->cache_thread                                                      *)
(***************************************************************************)

LEMMA TailOfCache ==
  ASSUME NEW q \in Seq(Threads), q # <<>>, Distinct(q)
  PROVE  /\ Head(q) \in Threads /\ Tail(q) \in Seq(Threads) /\ Distinct(Tail(q))
         /\ Head(q) = q[1] /\ 1 \in 1..Len(q)
         /\ \A i \in 1..Len(Tail(q)) :
                Tail(q)[i] # Head(q) /\ \E j \in 1..Len(q) : Tail(q)[i] = q[j]
<1>1. /\ Head(q) \in Threads /\ Tail(q) \in Seq(Threads) /\ Len(Tail(q)) = Len(q) - 1
      /\ \A i \in 1..Len(Tail(q)) : Tail(q)[i] = q[i + 1]
  BY HeadTailProperties
<1>2. Len(q) \in Nat \ {0} /\ Head(q) = q[1]
  BY EmptySeq
<1> QED
  BY <1>1, <1>2 DEF Distinct

\* smcache_addl
LEMMA AddlKeeps ==
  ASSUME NEW q \in Seq(Threads), Distinct(q), NEW t \in Threads,
         \A i \in 1..Len(q) : q[i] # t
  PROVE  /\ Addl(q, t) \in Seq(Threads) /\ Distinct(Addl(q, t))
         /\ \A i \in 1..Len(Addl(q, t)) :
                Addl(q, t)[i] = t \/ \E j \in 1..Len(q) : Addl(q, t)[i] = q[j]
<1>1. Len(q) \in Nat
  BY LenProperties
<1>2. CASE Addl(q, t) = <<t>> \o q
  <2>1. <<t>> \in Seq(Threads) /\ Len(<<t>>) = 1 /\ <<t>>[1] = t
    OBVIOUS
  <2>2. /\ Addl(q, t) \in Seq(Threads) /\ Len(Addl(q, t)) = Len(q) + 1
        /\ \A i \in 1..Len(q) + 1 : Addl(q, t)[i] = IF i <= 1 THEN t ELSE q[i - 1]
    BY <1>1, <1>2, <2>1, ConcatProperties
  <2> DEFINE p == Addl(q, t)
  <2> HIDE DEF p
  <2>3. Distinct(p)
    <3> SUFFICES ASSUME NEW i \in 1..Len(q) + 1, NEW j \in 1..Len(q) + 1, p[i] = p[j]
                 PROVE  i = j
      BY <2>2 DEF Distinct, p
    <3>1. \A k \in 2..Len(q) + 1 : k - 1 \in 1..Len(q) /\ p[k] = q[k - 1] /\ p[k] # t
      <4> SUFFICES ASSUME NEW k \in 2..Len(q) + 1
                   PROVE  k - 1 \in 1..Len(q) /\ p[k] = q[k - 1] /\ p[k] # t
        OBVIOUS
      <4>1. k - 1 \in 1..Len(q) /\ k \in 1..Len(q) + 1 /\ ~(k <= 1)
        BY <1>1
      <4> QED
        BY <2>2, <4>1 DEF p
    <3>2. p[1] = t
      BY <1>1, <2>2 DEF p
    <3>3. CASE i = 1 \/ j = 1
      BY <1>1, <3>1, <3>2, <3>3
    <3>4. CASE i # 1 /\ j # 1
      <4>1. i \in 2..Len(q) + 1 /\ j \in 2..Len(q) + 1
        BY <1>1, <3>4
      <4>2. q[i - 1] = q[j - 1] /\ i - 1 \in 1..Len(q) /\ j - 1 \in 1..Len(q)
        BY <3>1, <4>1
      <4>3. i - 1 = j - 1
        BY <4>2 DEF Distinct
      <4> QED
        BY <1>1, <4>1, <4>3
    <3> QED
      BY <3>3, <3>4
  <2>4. \A i \in 1..Len(p) : p[i] = t \/ \E j \in 1..Len(q) : p[i] = q[j]
    BY <1>1, <2>2 DEF p
  <2> QED
    BY <2>2, <2>3, <2>4 DEF p
<1>3. CASE Addl(q, t) = Append(q, t)
  <2>1. /\ Addl(q, t) \in Seq(Threads) /\ Len(Addl(q, t)) = Len(q) + 1
        /\ \A i \in 1..Len(q) + 1 : Addl(q, t)[i] = IF i <= Len(q) THEN q[i] ELSE t
    BY <1>1, <1>3, AppendProperties
  <2> DEFINE p == Addl(q, t)
  <2> HIDE DEF p
  <2>2. Distinct(p)
    <3> SUFFICES ASSUME NEW i \in 1..Len(q) + 1, NEW j \in 1..Len(q) + 1, p[i] = p[j]
                 PROVE  i = j
      BY <2>1 DEF Distinct, p
    <3>1. \A k \in 1..Len(q) : p[k] = q[k] /\ p[k] # t
      <4> SUFFICES ASSUME NEW k \in 1..Len(q)
                   PROVE  p[k] = q[k] /\ p[k] # t
        OBVIOUS
      <4>1. k \in 1..Len(q) + 1 /\ k <= Len(q)
        BY <1>1
      <4> QED
        BY <2>1, <4>1 DEF p
    <3>2. p[Len(q) + 1] = t
      BY <1>1, <2>1 DEF p
    <3>3. CASE i = Len(q) + 1 \/ j = Len(q) + 1
      BY <1>1, <3>1, <3>2, <3>3
    <3>4. CASE i # Len(q) + 1 /\ j # Len(q) + 1
      <4>1. i \in 1..Len(q) /\ j \in 1..Len(q)
        BY <1>1, <3>4
      <4> QED
        BY <3>1, <4>1 DEF Distinct
    <3> QED
      BY <3>3, <3>4
  <2>3. \A i \in 1..Len(p) : p[i] = t \/ \E j \in 1..Len(q) : p[i] = q[j]
    BY <1>1, <2>1 DEF p
  <2> QED
    BY <2>1, <2>2, <2>3 DEF p
<1> QED
  BY <1>2, <1>3 DEF Addl

LEMMA FlushedBound ==
  ASSUME NEW q, Len(q) \in Nat, NEW limit \in Int
  PROVE  Flushed(q, limit) \in 0..Len(q)
<1>1. Len(q) \in Nat
  OBVIOUS
<1>2. CASE Flushablel(q, limit)
  <2> DEFINE front == {k \in 1..(Len(q) - limit) : \A j \in 1..k : NeedDestroy(q[j])}
  <2>1. 0 <= limit /\ limit < Len(q)
    BY <1>2 DEF Flushablel
  <2>2. IsFiniteSet(1..(Len(q) - limit)) /\ Cardinality(1..(Len(q) - limit)) = Len(q) - limit
    BY <1>1, <2>1, FS_Interval
  <2>3. Cardinality(front) \in Nat /\ Cardinality(front) <= Len(q) - limit
    BY <2>2, FS_Subset, FS_CardinalityType
  <2> QED
    BY <1>1, <1>2, <2>1, <2>3 DEF Flushed
<1> QED
  BY <1>1, <1>2 DEF Flushed

\* smcache_add_limit: what stays is still in the list once, what is destroyed not.
LEMMA AddLimitKeeps ==
  ASSUME NEW q \in Seq(Threads), Distinct(q), NEW t \in Threads, NEW limit \in Int,
         \A i \in 1..Len(q) : q[i] # t
  PROVE  LET r == AddLimit(q, t, limit)
         IN  /\ r.q \in Seq(Threads) /\ Distinct(r.q)
             /\ \A i \in 1..Len(r.q) : r.q[i] \notin r.rmq
             /\ \A i \in 1..Len(r.q) : r.q[i] = t \/ \E j \in 1..Len(q) : r.q[i] = q[j]
             /\ \A u \in r.rmq : u = t \/ \E j \in 1..Len(q) : u = q[j]
<1> DEFINE in == Accessl(q, t, limit)
           p == IF in THEN Addl(q, t) ELSE q
           n == Flushed(p, limit)
           r == AddLimit(q, t, limit)
<1>1. /\ p \in Seq(Threads) /\ Distinct(p)
      /\ \A i \in 1..Len(p) : p[i] = t \/ \E j \in 1..Len(q) : p[i] = q[j]
      /\ ~in => \A i \in 1..Len(p) : p[i] # t
  BY AddlKeeps
<1>2. /\ r.q = SubSeq(p, n + 1, Len(p))
      /\ r.rmq = IF in THEN ToSet(SubSeq(p, 1, n)) ELSE {t}
  BY DEF AddLimit, Remaining, FlushQ
<1> HIDE DEF p, r, in
<1>3. Len(p) \in Nat /\ n \in 0..Len(p)
  BY <1>1, FlushedBound, LenProperties
<1> HIDE DEF n
<1>4. \A i \in 1..Len(p) : p[i] \in Threads
  BY <1>1, ElementOfSeq
<1>5. /\ r.q \in Seq(Threads) /\ Len(r.q) = Len(p) - n
      /\ \A i \in 1..(Len(p) - n) : r.q[i] = p[n + i]
  <2>1. \A i \in (n + 1)..Len(p) : p[i] \in Threads
    BY <1>3, <1>4
  <2> QED
    BY <1>2, <1>3, <2>1, SubSeqProperties
<1>6. /\ DOMAIN SubSeq(p, 1, n) = 1..n
      /\ \A i \in 1..n : SubSeq(p, 1, n)[i] = p[i]
  <2>1. \A i \in 1..n : p[i] \in Threads
    BY <1>3, <1>4
  <2>2. /\ SubSeq(p, 1, n) \in Seq(Threads) /\ Len(SubSeq(p, 1, n)) = n
        /\ \A i \in 1..n : SubSeq(p, 1, n)[i] = p[i]
    BY <1>3, <2>1, SubSeqProperties
  <2> QED
    BY <2>2, LenProperties
<1>7. ToSet(SubSeq(p, 1, n)) = {p[i] : i \in 1..n}
  BY <1>6 DEF ToSet
<1>8. Distinct(r.q)
  BY <1>1, <1>3, <1>5 DEF Distinct
<1>9. \A i \in 1..Len(r.q) : r.q[i] \notin r.rmq
  <2> SUFFICES ASSUME NEW i \in 1..Len(r.q) PROVE r.q[i] \notin r.rmq
    OBVIOUS
  <2>1. n + i \in 1..Len(p) /\ n + i > n /\ r.q[i] = p[n + i]
    BY <1>3, <1>5
  <2>2. CASE in
    <3>1. \A j \in 1..n : p[j] # p[n + i]
      BY <1>1, <1>3, <2>1 DEF Distinct
    <3> QED
      BY <1>2, <1>7, <2>1, <2>2, <3>1
  <2>3. CASE ~in
    BY <1>1, <1>2, <2>1, <2>3
  <2> QED
    BY <2>2, <2>3
<1>10. \A i \in 1..Len(r.q) : r.q[i] = t \/ \E j \in 1..Len(q) : r.q[i] = q[j]
  <2> SUFFICES ASSUME NEW i \in 1..Len(r.q)
               PROVE  r.q[i] = t \/ \E j \in 1..Len(q) : r.q[i] = q[j]
    OBVIOUS
  <2>1. n + i \in 1..Len(p) /\ r.q[i] = p[n + i]
    BY <1>3, <1>5
  <2> QED
    BY <1>1, <2>1
<1>11. \A u \in r.rmq : u = t \/ \E j \in 1..Len(q) : u = q[j]
  BY <1>1, <1>2, <1>3, <1>7
<1> QED
  BY <1>5, <1>8, <1>9, <1>10, <1>11 DEF r

\* Objects in the cache stay there.
LEMMA CacheStays ==
  ASSUME CacheOf(thc, ths), UNCHANGED thc,
         \A t \in Threads : ths[t].at = "cached" => ths'[t].at = "cached"
  PROVE  CacheOf(thc, ths)'
<1>1. \A i \in 1..Len(thc) : thc[i] \in Threads
  BY ElementOfSeq DEF CacheOf
<1> QED
  BY <1>1 DEF CacheOf

-----------------------------------------------------------------------------
(***************************************************************************)
(* The steps                                                               *)
(***************************************************************************)

\* A thread in use goes elsewhere; neither marks nor the GC change.
LEMMA ThreadMoves ==
  ASSUME FlagsIInv, NEW t \in Threads, AreThreads(ths'), IsCore(gc'),
         gc'.GC = gc.GC, gc'.dying = gc.dying, FlagsOf(ths'[t]),
         "RM" \in ths'[t].flags <=> "RM" \in ths[t].flags,
         "GC" \in ths'[t].flags <=> "GC" \in ths[t].flags,
         \A u \in Threads \ {t} : ths'[u] = ths[u],
         ths[t].at # "cached", UNCHANGED thc
  PROVE  FlagsIInv'
<1>1. \A u \in Threads : /\ FlagsOf(ths'[u])
                         /\ "RM" \in ths'[u].flags <=> "RM" \in ths[u].flags
                         /\ "GC" \in ths'[u].flags <=> "GC" \in ths[u].flags
  BY DEF FlagsIInv, Agree
<1>2. Agree(ths', gc')
  BY <1>1, FlagsStay DEF FlagsIInv
<1>3. \A u \in Threads : ths[u].at = "cached" => ths'[u].at = "cached"
  OBVIOUS
<1> QED
  BY <1>2, <1>3, CacheStays DEF FlagsIInv

\* What is known of the shape of ths and gc before a step.
LEMMA Shapes ==
  ASSUME FlagsIInv
  PROVE  /\ AreThreads(ths) /\ IsCore(gc) /\ gc.dying \in Nat
         /\ \A t \in Threads : IsThread(ths[t]) /\ FlagsOf(ths[t])
BY ObjAssumption, FS_Subset, FS_CardinalityType
   DEF ObjAssumption, MarkedIn, FlagsIInv, Agree, FlagsOf

Woken(t) == ths[t].at = "asleep" /\ ths' = [ths EXCEPT ![t].at = "ready"]

LEMMA WokenKeeps ==
  ASSUME FlagsIInv, NEW t \in Threads, Woken(t), UNCHANGED thc, IsCore(gc'),
         gc'.GC = gc.GC, gc'.dying = gc.dying
  PROVE  FlagsIInv'
<1>1. AreThreads(ths') /\ ths'[t] = [ths[t] EXCEPT !.at = "ready"]
      /\ \A u \in Threads \ {t} : ths'[u] = ths[u]
  BY Shapes DEF AreThreads, Woken
<1>2. IsThread(ths'[t]) /\ ths'[t].at = "ready" /\ ths'[t].flags = ths[t].flags
  BY <1>1, Shapes DEF IsThread, ThreadFields
<1>3. FlagsOf(ths'[t])
  BY <1>2 DEF FlagsOf
<1> QED
  BY <1>1, <1>2, <1>3, ThreadMoves DEF Woken

LEMMA TakeTaskKeeps ==
  ASSUME FlagsIInv, NEW t \in Threads, TakeTask(t)
  PROVE  FlagsIInv'
<1>1. PICK o : ths' = [ths EXCEPT ![t].task = o,
                         ![t].at = IF ths[t].flags = {} THEN "run" ELSE "taken"]
  BY DEF TakeTask
<1>2. AreThreads(ths') /\ \A u \in Threads \ {t} : ths'[u] = ths[u]
  BY <1>1, Shapes DEF AreThreads
<1>3. ths'[t] = [ths[t] EXCEPT !.task = o,
                    !.at = IF ths[t].flags = {} THEN "run" ELSE "taken"]
  BY <1>1, Shapes DEF AreThreads
<1>4. IsThread(ths'[t]) /\ ths'[t].at \in {"run", "taken"} /\ ths'[t].flags = ths[t].flags
  BY <1>3, Shapes DEF IsThread, ThreadFields
<1>5. FlagsOf(ths'[t])
  BY <1>4 DEF FlagsOf
<1> QED
  BY <1>2, <1>4, <1>5, Shapes, ThreadMoves DEF TakeTask

LEMMA SeeFlagsKeeps ==
  ASSUME FlagsIInv, NEW t \in Threads, SeeFlags(t)
  PROVE  FlagsIInv'
<1>1. CASE "GC" \in ths[t].flags
  <2>1. /\ AreThreads(ths') /\ \A u \in Threads \ {t} : ths'[u] = ths[u]
        /\ ths'[t] = [ths[t] EXCEPT !.at = "unset", !.seen = ths[t].flags]
    BY <1>1, Shapes DEF AreThreads, SeeFlags
  <2>2. /\ IsThread(ths'[t]) /\ ths'[t].at = "unset"
        /\ ths'[t].flags = ths[t].flags /\ ths'[t].seen = ths[t].flags
    BY <2>1, Shapes DEF IsThread, ThreadFields
  <2>3. FlagsOf(ths'[t])
    BY <1>1, <2>2 DEF FlagsOf
  <2> QED
    BY <2>1, <2>2, <2>3, Shapes, ThreadMoves DEF SeeFlags
<1>2. CASE "GC" \notin ths[t].flags /\ "FLUSH" \in ths[t].flags
  <2> DEFINE th == [ths EXCEPT ![t].at = "run"]
  <2>1. /\ AreThreads(th) /\ \A u \in Threads \ {t} : th[u] = ths[u]
        /\ th[t] = [ths[t] EXCEPT !.at = "run"]
    BY Shapes DEF AreThreads
  <2>2. ths' = [th EXCEPT ![t].qcache = <<>>, ![t].flags = @ \ {"FLUSH"}]
    BY <1>2 DEF SeeFlags, FlushLocal
  <2> HIDE DEF th
  <2>3. /\ AreThreads(ths') /\ \A u \in Threads \ {t} : ths'[u] = ths[u]
        /\ ths'[t] = [th[t] EXCEPT !.qcache = <<>>, !.flags = @ \ {"FLUSH"}]
    BY <2>1, <2>2 DEF AreThreads
  <2>4. IsThread(th[t]) /\ th[t].at = "run" /\ th[t].flags = ths[t].flags
    BY <2>1, Shapes DEF IsThread, ThreadFields
  <2>5. IsThread(ths'[t]) /\ ths'[t].at = "run"
        /\ ths'[t].flags = ths[t].flags \ {"FLUSH"}
    BY <2>3, <2>4 DEF IsThread, ThreadFields
  <2>6. FlagsOf(ths'[t])
    BY <2>5 DEF FlagsOf
  <2> QED
    BY <2>3, <2>5, <2>6, Shapes, ThreadMoves DEF SeeFlags
<1>3. CASE "GC" \notin ths[t].flags /\ "FLUSH" \notin ths[t].flags
  <2>1. /\ AreThreads(ths') /\ \A u \in Threads \ {t} : ths'[u] = ths[u]
        /\ ths'[t] = [ths[t] EXCEPT !.at = "run"]
    BY <1>3, Shapes DEF AreThreads, SeeFlags
  <2>2. IsThread(ths'[t]) /\ ths'[t].at = "run" /\ ths'[t].flags = ths[t].flags
    BY <2>1, Shapes DEF IsThread, ThreadFields
  <2>3. FlagsOf(ths'[t])
    BY <2>2 DEF FlagsOf
  <2> QED
    BY <2>1, <2>2, <2>3, Shapes, ThreadMoves DEF SeeFlags
<1> QED
  BY <1>1, <1>2, <1>3

\* The marks that GC_leave writes back are those there are.
LEMMA GcLeaveKeeps ==
  ASSUME FlagsIInv, NEW t \in Threads, GcLeave(t)
  PROVE  FlagsIInv'
<1>1. /\ AreThreads(ths') /\ \A u \in Threads \ {t} : ths'[u] = ths[u]
      /\ ths'[t] = [ths[t] EXCEPT !.at = "taken", !.flags = ths[t].seen \ {"GC"},
                                  !.seen = {}]
  BY Shapes DEF AreThreads, GcLeave
<1>2. IsThread(ths'[t]) /\ ths'[t].at = "taken" /\ ths'[t].flags = ths[t].seen \ {"GC"}
  BY <1>1, Shapes DEF IsThread, ThreadFields
<1>3. FlagsOf(ths'[t])
  BY <1>2 DEF FlagsOf
<1>4. "GC" \in ths[t].flags /\ ("RM" \in ths[t].seen <=> "RM" \in ths[t].flags)
  BY Shapes DEF FlagsOf, GcLeave
<1>5. IsCore(gc') /\ gc'.GC = NoThread /\ gc'.dying = gc.dying
  BY Shapes DEF GcLeave, IsCore, CoreFields
<1>6. gc.GC = t
  BY <1>4 DEF FlagsIInv, Agree
<1>7. /\ "GC" \notin ths'[t].flags /\ gc'.GC # t
      /\ \A u \in Threads \ {t} : gc'.GC = u <=> gc.GC = u
  BY <1>2, <1>5, <1>6, ObjAssumption DEF ObjAssumption
<1>8. gc'.dying = gc.dying + Mark1(ths'[t]) - Mark1(ths[t])
  BY <1>2, <1>4, <1>5, Shapes DEF Mark1
<1>9. Agree(ths', gc')
  BY <1>1, <1>3, <1>5, <1>7, <1>8, FlagsChange DEF FlagsIInv
<1>10. CacheOf(thc, ths)'
  BY <1>1, CacheStays DEF GcLeave, FlagsIInv
<1> QED
  BY <1>9, <1>10 DEF FlagsIInv

LEMMA TaskDoneKeeps ==
  ASSUME FlagsIInv, NEW t \in Threads, TaskDone(t)
  PROVE  FlagsIInv'
<1> DEFINE o == ths[t].task
           th == [ths EXCEPT ![t].at = "ready", ![t].task = NoObject,
                             ![t].qcache = <<o>> \o @]
<1>1. /\ AreThreads(th) /\ \A u \in Threads \ {t} : th[u] = ths[u]
      /\ th[t] = [ths[t] EXCEPT !.at = "ready", !.task = NoObject,
                                !.qcache = <<o>> \o @]
  BY Shapes DEF AreThreads
<1>2. \/ ths' = [th EXCEPT ![t].qcache = <<>>, ![t].flags = @ \ {"FLUSH"}]
      \/ ths' = th
      \/ ths' = [th EXCEPT ![t].qcache = ths[t].qcache]
  BY DEF TaskDone, FlushLocal
<1> HIDE DEF th
<1>3. IsThread(th[t]) /\ th[t].at = "ready" /\ th[t].flags = ths[t].flags
  BY <1>1, Shapes DEF IsThread, ThreadFields
<1>4. /\ AreThreads(ths') /\ \A u \in Threads \ {t} : ths'[u] = ths[u]
      /\ \/ ths'[t] = [th[t] EXCEPT !.qcache = <<>>, !.flags = @ \ {"FLUSH"}]
         \/ ths'[t] = th[t]
         \/ ths'[t] = [th[t] EXCEPT !.qcache = ths[t].qcache]
  BY <1>1, <1>2 DEF AreThreads
<1>5. /\ IsThread(ths'[t]) /\ ths'[t].at = "ready"
      /\ ths'[t].flags = ths[t].flags \/ ths'[t].flags = ths[t].flags \ {"FLUSH"}
  BY <1>3, <1>4 DEF IsThread, ThreadFields
<1>6. FlagsOf(ths'[t])
  BY <1>5 DEF FlagsOf
<1> QED
  BY <1>4, <1>5, <1>6, Shapes, ThreadMoves DEF TaskDone

\* The other threads stay where they are when t finds no task, or retires.
LEMMA OthersStay ==
  ASSUME NEW th, NEW g, NEW t \in Threads, NEW q, AreThreads(th)
  PROVE  \A u \in Threads \ {t} : Rest(th, t, q, g).ths[u] = th[u]
                                  /\ Left(th, t, q, g).ths[u] = th[u]
BY DEF Rest, Left, AreThreads

LEMMA SelectedStay ==
  ASSUME NEW t \in Threads, NEW q, AreThreads(ths)
  PROVE  \A u \in Threads \ {t} : Selected(t, q).ths[u].at = ths[u].at
<1> DEFINE own == [ths EXCEPT ![t].qcache = <<>>, ![t].flags = @ \ {"FLUSH"}]
           th == IF Len(q) = 0 THEN FlushAll(own) ELSE own
           f == ths[t].flags
           out == [th EXCEPT ![t].flags = @ \ {"GC"}]
           joined == [th EXCEPT ![t].flags = @ \cup {"GC"}]
           doing == [joined EXCEPT ![t].at = "gc", ![t].limit = Len(q) - GcOneTime]
           mine == [gc EXCEPT !.GC = t]
           none == IF "GC" \in f THEN [gc EXCEPT !.GC = NoThread] ELSE gc
           off == [gc EXCEPT !.due = FALSE, !.delay = FALSE]
<1>1. Selected(t, q) =
        IF Enough(Len(q)) THEN Rest(out, t, q, none)
        ELSE IF PutOff(f, Len(q)) THEN Rest(th, t, q, off)
        ELSE IF ~gc.due THEN Rest(joined, t, q, mine)
        ELSE [ths |-> doing, gc |-> mine, xq |-> q]
  BY DEF Selected
<1>2. AreThreads(own) /\ \A u \in Threads \ {t} : own[u] = ths[u]
  BY DEF AreThreads
<1> HIDE DEF own
<1>3. AreThreads(th) /\ \A u \in Threads \ {t} : th[u].at = ths[u].at
  <2>1. AreThreads(FlushAll(own))
    BY DEF FlushAll, AreThreads
  <2>2. \A u \in Threads \ {t} : FlushAll(own)[u].at = ths[u].at
    BY <1>2 DEF FlushAll
  <2> QED
    BY <1>2, <2>1, <2>2
<1> HIDE DEF th, none, mine, off, f
<1>4. /\ AreThreads(out) /\ AreThreads(joined)
      /\ \A u \in Threads \ {t} : out[u] = th[u] /\ joined[u] = th[u] /\ doing[u] = th[u]
  BY <1>3 DEF AreThreads
<1> HIDE DEF out, joined, doing
<1> QED
  BY <1>1, <1>3, <1>4, OthersStay

LEMMA NoTaskKeeps ==
  ASSUME FlagsIInv, NEW t \in Threads, NoTask(t)
  PROVE  FlagsIInv'
<1>1. Agree(ths, gc) /\ ths[t].at = "ready" /\ AreThreads(ths)
  BY Shapes DEF FlagsIInv, NoTask
<1>2. CASE MayGC(t)
  <2> DEFINE r == Selected(t, AddQlDir(pool.xq, ths[t].qcache))
  <2>1. ths' = r.ths /\ gc' = r.gc /\ UNCHANGED thc
    BY <1>2 DEF NoTask, Becomes
  <2>2. Agree(r.ths, r.gc)
    BY <1>1, <1>2, SelectedAgrees
  <2>3. \A u \in Threads \ {t} : r.ths[u].at = ths[u].at
    BY <1>1, SelectedStay
  <2> HIDE DEF r
  <2>4. CacheOf(thc, ths)'
    BY <1>1, <2>1, <2>3, CacheStays DEF FlagsIInv
  <2> QED
    BY <2>1, <2>2, <2>4 DEF FlagsIInv
<1>3. CASE ~MayGC(t)
  <2> DEFINE r == Rest(ths, t, pool.xq, gc)
  <2>1. ths' = r.ths /\ gc' = r.gc /\ UNCHANGED thc
    BY <1>3 DEF NoTask, Becomes
  <2>2. Agree(r.ths, r.gc)
    BY <1>1, RestAgrees
  <2>3. \A u \in Threads \ {t} : r.ths[u] = ths[u]
    BY <1>1, OthersStay
  <2> HIDE DEF r
  <2>4. CacheOf(thc, ths)'
    BY <1>1, <2>1, <2>3, CacheStays DEF FlagsIInv
  <2> QED
    BY <2>1, <2>2, <2>4 DEF FlagsIInv
<1> QED
  BY <1>2, <1>3

LEMMA GcRunKeeps ==
  ASSUME FlagsIInv, NEW t \in Threads, GcRun(t)
  PROVE  FlagsIInv'
<1>1. PICK q : ths' = [ths EXCEPT ![t].at = "free", ![t].limit = 0, ![t].rmq = q]
  BY DEF GcRun
<1>2. /\ AreThreads(ths') /\ \A u \in Threads \ {t} : ths'[u] = ths[u]
      /\ ths'[t] = [ths[t] EXCEPT !.at = "free", !.limit = 0, !.rmq = q]
  BY <1>1, Shapes DEF AreThreads
<1>3. IsThread(ths'[t]) /\ ths'[t].at = "free" /\ ths'[t].flags = ths[t].flags
  BY <1>2, Shapes DEF IsThread, ThreadFields
<1>4. FlagsOf(ths'[t])
  BY <1>3, Shapes DEF FlagsOf, GcRun
<1> QED
  BY <1>2, <1>3, <1>4, Shapes, ThreadMoves DEF GcRun

LEMMA GcFreeKeeps ==
  ASSUME FlagsIInv, NEW t \in Threads, GcFree(t)
  PROVE  FlagsIInv'
<1>1. /\ AreThreads(ths') /\ \A u \in Threads \ {t} : ths'[u] = ths[u]
      /\ ths'[t] = [ths[t] EXCEPT !.at = "ready", !.rmq = <<>>]
  BY Shapes DEF AreThreads, GcFree
<1>2. IsThread(ths'[t]) /\ ths'[t].at = "ready" /\ ths'[t].flags = ths[t].flags
  BY <1>1, Shapes DEF IsThread, ThreadFields
<1>3. FlagsOf(ths'[t])
  BY <1>2 DEF FlagsOf
<1>4. IsCore(gc') /\ gc'.GC = gc.GC /\ gc'.dying = gc.dying
  BY Shapes DEF GcFree, IsCore, CoreFields
<1> QED
  BY <1>1, <1>2, <1>3, <1>4, ThreadMoves DEF GcFree

LEMMA WakeupsKeep ==
  ASSUME FlagsIInv, NEW t \in Threads, GcDue(t) \/ Wake(t)
  PROVE  FlagsIInv'
<1>1. Woken(t) /\ UNCHANGED thc
  BY DEF GcDue, Wake, Woken
<1>2. IsCore(gc') /\ gc'.GC = gc.GC /\ gc'.dying = gc.dying
  BY Shapes DEF GcDue, Wake, IsCore, CoreFields
<1> QED
  BY <1>1, <1>2, WokenKeeps

LEMMA RetireKeeps ==
  ASSUME FlagsIInv, NEW t \in Threads, Retire(t)
  PROVE  FlagsIInv'
<1> DEFINE r == Left(ths, t, pool.xq, gc)
<1>1. ths' = r.ths /\ gc' = r.gc /\ UNCHANGED thc /\ ths[t].at = "asleep"
  BY DEF Retire, Becomes
<1>2. Agree(r.ths, r.gc)
  BY LeftAgrees DEF FlagsIInv
<1>3. \A u \in Threads \ {t} : r.ths[u] = ths[u]
  BY Shapes, OthersStay
<1> HIDE DEF r
<1>4. CacheOf(thc, ths)'
  BY <1>1, <1>3, CacheStays DEF FlagsIInv
<1> QED
  BY <1>1, <1>2, <1>4 DEF FlagsIInv

\* No thread is marked between the two steps of GC_leave.
LEMMA MarkKeeps ==
  ASSUME FlagsIInv, NEW t \in Threads, Mark(t), "marks" \in Careful
  PROVE  FlagsIInv'
<1> DEFINE to == IF ths[t].at = "asleep" THEN "ready" ELSE ths[t].at
<1>1. /\ AreThreads(ths') /\ \A u \in Threads \ {t} : ths'[u] = ths[u]
      /\ ths'[t] = [ths[t] EXCEPT !.flags = @ \cup {"RM"}, !.at = to]
  BY Shapes DEF AreThreads, Mark
<1>2. /\ ths[t].at \notin {"none", "cached", "left", "unset"}
      /\ "RM" \notin ths[t].flags /\ UNCHANGED thc
  BY DEF Mark, Alive
<1>3. /\ to \notin {"none", "cached", "left", "unset"}
      /\ to \in {"gc", "free"} => to = ths[t].at
  BY <1>2
<1> HIDE DEF to
<1>4. IsThread(ths'[t]) /\ ths'[t].at = to /\ ths'[t].flags = ths[t].flags \cup {"RM"}
  BY <1>1, Shapes DEF IsThread, ThreadFields
<1>5. FlagsOf(ths'[t])
  BY <1>3, <1>4, Shapes DEF FlagsOf
<1>6. IsCore(gc') /\ gc'.GC = gc.GC /\ gc'.dying = gc.dying + 1
  BY Shapes DEF Mark, IsCore, CoreFields
<1>7. gc'.dying = gc.dying + Mark1(ths'[t]) - Mark1(ths[t])
  BY <1>2, <1>4, <1>6, Shapes DEF Mark1
<1>8. "GC" \in ths'[t].flags <=> gc'.GC = t
  BY <1>4, <1>6 DEF FlagsIInv, Agree
<1>9. Agree(ths', gc')
  BY <1>1, <1>5, <1>6, <1>7, <1>8, FlagsChange DEF FlagsIInv
<1>10. CacheOf(thc, ths)'
  BY <1>1, <1>2, CacheStays DEF FlagsIInv
<1> QED
  BY <1>9, <1>10 DEF FlagsIInv

\* Nor is one that is marked used again there.
LEMMA ReviveKeeps ==
  ASSUME FlagsIInv, NEW t \in Threads, Revives(t), "marks" \in Careful
  PROVE  FlagsIInv'
<1>1. /\ AreThreads(ths') /\ \A u \in Threads \ {t} : ths'[u] = ths[u]
      /\ ths'[t] = [ths[t] EXCEPT !.flags = @ \ {"RM"}]
  BY Shapes DEF AreThreads, Revives
<1>2. /\ ths[t].at \notin {"none", "cached", "left", "unset"}
      /\ "RM" \in ths[t].flags /\ gc.dying > 0 /\ UNCHANGED thc
  BY DEF Revives, Alive
<1>3. /\ IsThread(ths'[t]) /\ ths'[t].at = ths[t].at
      /\ ths'[t].flags = ths[t].flags \ {"RM"}
  BY <1>1, Shapes DEF IsThread, ThreadFields
<1>4. FlagsOf(ths'[t])
  BY <1>2, <1>3, Shapes DEF FlagsOf
<1>5. IsCore(gc') /\ gc'.GC = gc.GC /\ gc'.dying = gc.dying - 1
  BY <1>2, Shapes DEF Revives, IsCore, CoreFields
<1>6. gc'.dying = gc.dying + Mark1(ths'[t]) - Mark1(ths[t])
  BY <1>2, <1>3, <1>5, Shapes DEF Mark1
<1>7. "GC" \in ths'[t].flags <=> gc'.GC = t
  BY <1>3, <1>5 DEF FlagsIInv, Agree
<1>8. Agree(ths', gc')
  BY <1>1, <1>4, <1>5, <1>6, <1>7, FlagsChange DEF FlagsIInv
<1>9. CacheOf(thc, ths)'
  BY <1>1, <1>2, CacheStays DEF FlagsIInv
<1> QED
  BY <1>8, <1>9 DEF FlagsIInv

\* An object that is not in use becomes as new.
LEMMA RenewedAgrees ==
  ASSUME FlagsIInv, AreThreads(ths'), IsCore(gc'),
         gc'.GC = gc.GC, gc'.dying = gc.dying,
         \A u \in Threads : \/ ths'[u] = ths[u]
                            \/ /\ ths[u].at \in {"none", "cached", "left"}
                               /\ \E where \in {"none", "cached", "ready"} :
                                    ths'[u] = NewThread(where)
  PROVE  Agree(ths', gc')
<1>1. ASSUME NEW u \in Threads
      PROVE  /\ FlagsOf(ths'[u])
             /\ "RM" \in ths'[u].flags <=> "RM" \in ths[u].flags
             /\ "GC" \in ths'[u].flags <=> "GC" \in ths[u].flags
  <2>1. CASE ths'[u] = ths[u]
    BY <2>1, Shapes
  <2>2. CASE /\ ths[u].at \in {"none", "cached", "left"}
             /\ \E where \in {"none", "cached", "ready"} : ths'[u] = NewThread(where)
    <3>1. FlagsOf(ths'[u]) /\ ths'[u].flags = {}
      BY <2>2, NewThreadFlags
    <3>2. ths[u].flags = {}
      BY <2>2, Shapes DEF FlagsOf
    <3> QED
      BY <3>1, <3>2
  <2> QED
    BY <2>1, <2>2
<1> QED
  BY <1>1, FlagsStay DEF FlagsIInv

\* What is true of the cache after the first object was taken.
LEMMA TailStays ==
  ASSUME CacheOf(thc, ths), thc # <<>>, thc' = Tail(thc),
         \A u \in Threads \ {Head(thc)} : ths'[u] = ths[u]
  PROVE  CacheOf(thc, ths)'
<1>1. /\ Tail(thc) \in Seq(Threads) /\ Distinct(Tail(thc))
      /\ \A i \in 1..Len(Tail(thc)) :
            Tail(thc)[i] # Head(thc) /\ \E j \in 1..Len(thc) : Tail(thc)[i] = thc[j]
  BY TailOfCache DEF CacheOf
<1>2. \A i \in 1..Len(Tail(thc)) : Tail(thc)[i] \in Threads
  BY <1>1, ElementOfSeq
<1>3. \A i \in 1..Len(Tail(thc)) : ths'[Tail(thc)[i]].at = "cached"
  BY <1>1, <1>2 DEF CacheOf
<1> QED
  BY <1>1, <1>3 DEF CacheOf

LEMMA StartsKeeps ==
  ASSUME FlagsIInv, NEW t \in Threads, Starts(t), UNCHANGED gc
  PROVE  FlagsIInv'
<1>1. /\ AreThreads(ths') /\ ths'[t] = NewThread("ready")
      /\ \A u \in Threads \ {t} : ths'[u] = ths[u]
  BY Shapes DEF AreThreads, Starts
<1>2. ths[t].at \in {"none", "cached"}
  BY TailOfCache DEF Starts, FlagsIInv, CacheOf
<1>3. Agree(ths', gc')
  BY <1>1, <1>2, Shapes, RenewedAgrees
<1>4. CASE thc # <<>>
  BY <1>1, <1>3, <1>4, TailStays DEF Starts, FlagsIInv
<1>5. CASE thc = <<>>
  <2>1. UNCHANGED thc /\ ths[t].at = "none"
    BY <1>5 DEF Starts
  <2>2. CacheOf(thc, ths)'
    BY <1>1, <2>1, CacheStays DEF FlagsIInv
  <2> QED
    BY <1>3, <2>2 DEF FlagsIInv
<1> QED
  BY <1>4, <1>5

LEMMA StartFailsKeeps ==
  ASSUME FlagsIInv, NEW t \in Threads, StartFails(t)
  PROVE  FlagsIInv'
<1>1. /\ AreThreads(ths') /\ ths'[t] = NewThread("cached") /\ UNCHANGED gc
      /\ \A u \in Threads \ {t} : ths'[u] = ths[u]
  BY Shapes DEF AreThreads, StartFails
<1>2. ths'[t].at = "cached"
  BY <1>1, NewThreadFlags
<1>3. CASE thc # <<>>
  <2> DEFINE q == Tail(thc)
  <2>1. t = Head(thc) /\ thc' = Addl(q, t)
    BY <1>3 DEF StartFails
  <2>2. /\ q \in Seq(Threads) /\ Distinct(q)
        /\ \A i \in 1..Len(q) : q[i] # t /\ \E j \in 1..Len(thc) : q[i] = thc[j]
        /\ t = thc[1] /\ 1 \in 1..Len(thc)
    BY <1>3, <2>1, TailOfCache DEF FlagsIInv, CacheOf
  <2>3. ths[t].at = "cached" /\ \A i \in 1..Len(q) : ths[q[i]].at = "cached"
    BY <2>2 DEF FlagsIInv, CacheOf
  <2> HIDE DEF q
  <2>4. /\ thc' \in Seq(Threads) /\ Distinct(thc')
        /\ \A i \in 1..Len(thc') : thc'[i] = t \/ \E j \in 1..Len(q) : thc'[i] = q[j]
    BY <2>1, <2>2, AddlKeeps
  <2>5. \A i \in 1..Len(thc') : thc'[i] \in Threads
    BY <2>4, ElementOfSeq
  <2>6. \A i \in 1..Len(thc') : ths'[thc'[i]].at = "cached"
    BY <1>1, <1>2, <2>3, <2>4, <2>5
  <2>7. Agree(ths', gc')
    BY <1>1, <2>3, Shapes, RenewedAgrees
  <2> QED
    BY <2>4, <2>6, <2>7 DEF FlagsIInv, CacheOf
<1>4. CASE thc = <<>>
  <2>1. ths[t].at = "none" /\ thc' = <<t>>
    BY <1>4 DEF StartFails
  <2>2. Agree(ths', gc')
    BY <1>1, <2>1, Shapes, RenewedAgrees
  <2>3. /\ <<t>> \in Seq(Threads) /\ Len(<<t>>) = 1 /\ <<t>>[1] = t
    OBVIOUS
  <2>4. \A i \in 1..Len(thc') : i = 1
    BY <2>1, <2>3
  <2>5. CacheOf(thc, ths)'
    BY <1>2, <2>1, <2>3, <2>4 DEF CacheOf, Distinct
  <2> QED
    BY <2>2, <2>5 DEF FlagsIInv
<1> QED
  BY <1>3, <1>4

\* The thread_t is cached, or some that are cached already are destroyed for it.
LEMMA RecycleKeeps ==
  ASSUME FlagsIInv, NEW t \in Threads, Recycle(t)
  PROVE  FlagsIInv'
<1> DEFINE r == AddLimit(thc, t, ThreadLimit)
<1>1. /\ thc' = r.q /\ UNCHANGED gc /\ ths[t].at = "left"
      /\ ths' = [u \in Threads |->
                   IF u \in r.rmq THEN NewThread("none")
                   ELSE IF u = t THEN NewThread("cached") ELSE ths[u]]
  BY DEF Recycle
<1>2. /\ thc \in Seq(Threads) /\ Distinct(thc)
      /\ \A i \in 1..Len(thc) : thc[i] \in Threads /\ ths[thc[i]].at = "cached"
  BY ElementOfSeq DEF FlagsIInv, CacheOf
<1>3. \A i \in 1..Len(thc) : thc[i] # t
  BY <1>1, <1>2
<1>4. /\ r.q \in Seq(Threads) /\ Distinct(r.q)
      /\ \A i \in 1..Len(r.q) : r.q[i] \notin r.rmq
      /\ \A i \in 1..Len(r.q) : r.q[i] = t \/ \E j \in 1..Len(thc) : r.q[i] = thc[j]
      /\ \A u \in r.rmq : u = t \/ \E j \in 1..Len(thc) : u = thc[j]
  BY <1>2, <1>3, AddLimitKeeps, ObjAssumption DEF ObjAssumption
<1> HIDE DEF r
<1>5. \A u \in r.rmq : ths[u].at \in {"cached", "left"}
  BY <1>1, <1>2, <1>4
<1>6. AreThreads(ths')
  BY <1>1 DEF AreThreads
<1>7. Agree(ths', gc')
  BY <1>1, <1>5, <1>6, Shapes, RenewedAgrees
<1>8. \A i \in 1..Len(r.q) : r.q[i] \in Threads
  BY <1>4, ElementOfSeq
<1>9. ASSUME NEW i \in 1..Len(r.q)
      PROVE  ths'[r.q[i]].at = "cached"
  <2>1. CASE r.q[i] = t
    <3>1. ths'[t] = NewThread("cached")
      BY <1>1, <1>4, <2>1
    <3> QED
      BY <2>1, <3>1, NewThreadFlags
  <2>2. CASE r.q[i] # t
    BY <1>1, <1>2, <1>4, <1>8, <2>2
  <2> QED
    BY <2>1, <2>2
<1>10. CacheOf(thc, ths)'
  BY <1>1, <1>4, <1>9 DEF CacheOf
<1> QED
  BY <1>7, <1>10 DEF FlagsIInv

LEMMA ReleaseKeeps ==
  ASSUME FlagsIInv, NEW clean \in BOOLEAN, Release(clean)
  PROVE  FlagsIInv'
<1>1. ths' = [t \in Threads |-> IF ths[t].at = "asleep"
                                THEN [ths[t] EXCEPT !.at = "ready"] ELSE ths[t]]
  BY DEF Release
<1>2. AreThreads(ths')
  BY <1>1 DEF AreThreads
<1>3. IsCore(gc') /\ gc'.GC = gc.GC /\ gc'.dying = gc.dying
  BY Shapes DEF Release, IsCore, CoreFields
<1>4. ASSUME NEW t \in Threads
      PROVE  FlagsOf(ths'[t]) /\ ths'[t].flags = ths[t].flags
             /\ (ths[t].at = "cached" => ths'[t].at = "cached")
  <2>1. CASE ths[t].at = "asleep"
    <3>1. ths'[t] = [ths[t] EXCEPT !.at = "ready"]
      BY <1>1, <2>1
    <3>2. IsThread(ths'[t]) /\ ths'[t].at = "ready" /\ ths'[t].flags = ths[t].flags
      BY <3>1, Shapes DEF IsThread, ThreadFields
    <3> QED
      BY <2>1, <3>2 DEF FlagsOf
  <2>2. CASE ths[t].at # "asleep"
    BY <1>1, <2>2, Shapes
  <2> QED
    BY <2>1, <2>2
<1>5. Agree(ths', gc')
  BY <1>2, <1>3, <1>4, FlagsStay DEF FlagsIInv
<1>6. CacheOf(thc, ths)'
  BY <1>4, CacheStays DEF Release, FlagsIInv
<1> QED
  BY <1>5, <1>6 DEF FlagsIInv

LEMMA DestroyKeeps ==
  ASSUME FlagsIInv, Destroy
  PROVE  FlagsIInv'
<1>1. /\ thc' = <<>>
      /\ ths' = [t \in Threads |-> IF t \in ToSet(thc) THEN NewThread("none")
                                   ELSE ths[t]]
  BY DEF Destroy
<1>2. AreThreads(ths')
  BY <1>1 DEF AreThreads
<1>3. IsCore(gc') /\ gc'.GC = gc.GC /\ gc'.dying = gc.dying
  BY Shapes DEF Destroy, IsCore, CoreFields
<1>4. \A t \in ToSet(thc) : ths[t].at = "cached"
  <2>1. DOMAIN thc = 1..Len(thc)
    BY LenProperties DEF FlagsIInv, CacheOf
  <2> QED
    BY <2>1 DEF ToSet, FlagsIInv, CacheOf
<1>5. Agree(ths', gc')
  BY <1>1, <1>2, <1>3, <1>4, RenewedAgrees
<1>6. CacheOf(thc, ths)'
  BY <1>1, EmptySeq DEF CacheOf, Distinct
<1> QED
  BY <1>5, <1>6 DEF FlagsIInv

\* What users and the dispatcher do with objects.
LEMMA CallerKeeps ==
  ASSUME FlagsIInv, NEW c \in Callers, "marks" \in Careful,
         CacheGet(c) \/ AskThreads(c) \/ CacheCreate(c) \/ CachePut(c) \/ TryGC(c)
  PROVE  FlagsIInv'
<1>1. CASE CacheGet(c)
  <2>1. IsCore(gc') /\ gc'.GC = gc.GC /\ gc'.dying = gc.dying /\ UNCHANGED <<ths, thc>>
    BY <1>1, Shapes DEF CacheGet, IsCore, CoreFields
  <2>2. Agree(ths', gc')
    BY <2>1, Shapes, FlagsStay DEF FlagsIInv
  <2>3. CacheOf(thc, ths)'
    BY <2>1 DEF FlagsIInv
  <2> QED
    BY <2>2, <2>3 DEF FlagsIInv
<1>2. CASE AskThreads(c)
  <2>1. ths' = FlushAll(ths) /\ UNCHANGED <<thc, gc>>
    BY <1>2 DEF AskThreads
  <2>2. Agree(FlushAll(ths), gc) /\ \A t \in Threads : FlushAll(ths)[t].at = ths[t].at
    BY FlushAllAgrees DEF Alive, FlagsIInv
  <2>3. CacheOf(thc, ths)'
    BY <2>1, <2>2, CacheStays DEF FlagsIInv
  <2> QED
    BY <2>1, <2>2, <2>3 DEF FlagsIInv
<1>3. CASE CacheCreate(c) \/ CachePut(c)
  <2>1. UNCHANGED <<ths, thc, gc>>
    BY <1>3 DEF CacheCreate, CachePut
  <2> QED
    BY <2>1 DEF FlagsIInv
<1>4. CASE TryGC(c)
  <2>1. \/ UNCHANGED <<ths, thc, gc>>
        \/ \E t \in Threads : Woken(t) /\ UNCHANGED <<thc, gc>>
        \/ \E t \in Threads : Revives(t) \/ (Starts(t) /\ UNCHANGED gc)
    BY <1>4 DEF TryGC, Woken, Alive
  <2>2. UNCHANGED <<ths, thc, gc>> => FlagsIInv'
    BY DEF FlagsIInv
  <2>3. ASSUME NEW t \in Threads, Woken(t), UNCHANGED <<thc, gc>> PROVE FlagsIInv'
    BY <2>3, Shapes, WokenKeeps
  <2>4. ASSUME NEW t \in Threads, Starts(t), UNCHANGED gc PROVE FlagsIInv'
    BY <2>4, StartsKeeps
  <2>5. ASSUME NEW t \in Threads, Revives(t) PROVE FlagsIInv'
    BY <2>5, ReviveKeeps
  <2> QED
    BY <2>1, <2>2, <2>3, <2>4, <2>5
<1> QED
  BY <1>1, <1>2, <1>3, <1>4

-----------------------------------------------------------------------------

LEMMA FlagsAtFirst ==
  ASSUME ObjInit
  PROVE  FlagsIInv
<1> DEFINE where(t) == IF t \in Buffer THEN "cached" ELSE "none"
<1>1. ths = [t \in Threads |-> NewThread(where(t))]
  BY DEF ObjInit
<1>2. \A t \in Threads : /\ FlagsOf(ths[t]) /\ ths[t].flags = {}
                         /\ ths[t].at = where(t)
  BY <1>1, NewThreadFlags
<1>3. IsCore(gc) /\ gc.GC = NoThread /\ gc.dying = 0
  BY DEF ObjInit, IsCore, CoreFields
<1>4. MarkedIn(ths) = {}
  BY <1>2 DEF MarkedIn
<1>5. Agree(ths, gc)
  BY <1>1, <1>2, <1>3, <1>4, FS_EmptySet, ObjAssumption
     DEF Agree, AreThreads, ObjAssumption
<1>6. Buffer \subseteq Threads /\ IsFiniteSet(Buffer)
  BY ObjAssumption, FS_Subset DEF ObjAssumption
<1>7. /\ Cardinality(Buffer) \in Nat
      /\ \E f \in [1..Cardinality(Buffer) -> Buffer] : IsInjective(f)
  <2>1. Cardinality(Buffer) \in Nat /\ ExistsBijection(1..Cardinality(Buffer), Buffer)
    BY <1>6, FS_CardinalityType
  <2> QED
    BY <2>1 DEF ExistsBijection, Bijection, Injection, IsInjective
<1>8. thc \in [1..Cardinality(Buffer) -> Buffer] /\ IsInjective(thc)
  BY <1>7 DEF ObjInit, SetToSeq
<1>9. thc \in Seq(Threads) /\ Len(thc) = Cardinality(Buffer)
  BY <1>6, <1>7, <1>8
<1>10. CacheOf(thc, ths)
  BY <1>2, <1>6, <1>7, <1>8, <1>9 DEF CacheOf, Distinct, IsInjective
<1> QED
  BY <1>5, <1>10 DEF FlagsIInv

LEMMA FlagsStep ==
  ASSUME FlagsIInv, [ObjNext]_vars, "marks" \in Careful
  PROVE  FlagsIInv'
<1>1. CASE UNCHANGED vars
  BY <1>1 DEF FlagsIInv, vars
<1>2. ASSUME NEW c \in Callers,
             CacheGet(c) \/ AskThreads(c) \/ CacheCreate(c) \/ CachePut(c) \/ TryGC(c)
      PROVE  FlagsIInv'
  BY <1>2, CallerKeeps
<1>3. ASSUME NEW t \in Threads, Serve(t)
      PROVE  FlagsIInv'
  BY <1>3, TakeTaskKeeps, SeeFlagsKeeps, GcLeaveKeeps, TaskDoneKeeps, NoTaskKeeps,
     GcRunKeeps, GcFreeKeeps, WakeupsKeep, RecycleKeeps DEF Serve
<1>4. ASSUME NEW t \in Threads, StartThread(t)
      PROVE  FlagsIInv'
  BY <1>4, StartsKeeps DEF StartThread
<1>5. ASSUME NEW t \in Threads,
             StartFails(t) \/ Wake(t) \/ Retire(t) \/ Mark(t) \/ Revive(t)
      PROVE  FlagsIInv'
  BY <1>5, StartFailsKeeps, WakeupsKeep, RetireKeeps, MarkKeeps, ReviveKeeps DEF Revive
<1>6. ASSUME NEW clean \in BOOLEAN, Release(clean)
      PROVE  FlagsIInv'
  BY <1>6, ReleaseKeeps
<1>7. CASE Destroy
  BY <1>7, DestroyKeeps
<1> QED
  BY <1>1, <1>2, <1>3, <1>4, <1>5, <1>6, <1>7 DEF ObjNext

\* With any number of threads, callers and pages, and whatever is cached, flushed and
\* started: at most one thread does the GC, the one core->GC names, and every marked
\* thread is counted in nthreads_dying until it leaves or is used again, although
\* cpool_core_GC_leave writes the flags without the lock -- if no thread is marked,
\* or used again though it was marked (cpool_core_add_threadsl), just then.
THEOREM FlagsAlwaysKept ==
  ASSUME "marks" \in Careful
  PROVE  ObjSpec => []FlagsKept
<1>1. ObjInit => FlagsIInv
  BY FlagsAtFirst
<1>2. FlagsIInv /\ [ObjNext]_vars => FlagsIInv'
  BY FlagsStep
<1>3. FlagsIInv => FlagsKept
  BY DEF FlagsIInv, Agree, FlagsKept, MarksKept, MarkedIn, FlagsOf
<1> QED
  BY <1>1, <1>2, <1>3, PTL DEF ObjSpec


-----------------------------------------------------------------------------
(***************************************************************************)
(* Lists of different things                                               *)
(***************************************************************************)

\* q has each element of S once, and nothing else.
Lists(q, S) ==
    q \in Seq(S) /\ Distinct(q) /\ \A x \in S : \E i \in 1..Len(q) : q[i] = x

LEMMA ListFacts ==
  ASSUME NEW q, NEW S, Lists(q, S)
  PROVE  /\ Len(q) \in Nat /\ DOMAIN q = 1..Len(q) /\ \A i \in 1..Len(q) : q[i] \in S
         /\ ToSet(q) = S /\ IsInjective(q)
         /\ \A T : S \subseteq T => q \in Seq(T)
<1>1. Len(q) \in Nat /\ DOMAIN q = 1..Len(q) /\ \A i \in 1..Len(q) : q[i] \in S
  BY LenProperties, ElementOfSeq DEF Lists
<1>2. ToSet(q) = S
  BY <1>1 DEF Lists, ToSet
<1>3. IsInjective(q)
  BY <1>1 DEF Lists, Distinct, IsInjective
<1>4. \A T : S \subseteq T => q \in Seq(T)
  BY SeqMonotonic DEF Lists
<1> QED
  BY <1>1, <1>2, <1>3, <1>4

LEMMA EmptyLists ==
  ASSUME NEW S
  PROVE  /\ Lists(<<>>, {})
         /\ \A q : Lists(q, S) => (q = <<>> <=> S = {}) /\ (Len(q) = 0 <=> S = {})
<1>1. Lists(<<>>, {})
  BY EmptySeq DEF Lists, Distinct
<1>2. ASSUME NEW q, Lists(q, S)
      PROVE  (q = <<>> <=> S = {}) /\ (Len(q) = 0 <=> S = {})
  <2>1. q \in Seq(S) /\ Len(q) \in Nat
    BY <1>2, ListFacts DEF Lists
  <2>2. Len(q) = 0 => S = {}
    BY <1>2, SMT DEF Lists
  <2>3. q = <<>> <=> Len(q) = 0
    BY <2>1, EmptySeq
  <2>4. S = {} => Len(q) = 0
    <3> SUFFICES ASSUME S = {}, Len(q) # 0 PROVE FALSE
      OBVIOUS
    <3>1. 1 \in 1..Len(q)
      BY <2>1
    <3> QED
      BY <1>2, <3>1, ListFacts
  <2> QED
    BY <2>2, <2>3, <2>4
<1> QED
  BY <1>1, <1>2

LEMMA OneListed ==
  ASSUME NEW x
  PROVE  Lists(<<x>>, {x})
<1>1. <<x>> \in Seq({x}) /\ Len(<<x>>) = 1 /\ <<x>>[1] = x
  OBVIOUS
<1>2. \A i \in 1..Len(<<x>>) : i = 1
  BY <1>1
<1> QED
  BY <1>1, <1>2 DEF Lists, Distinct

LEMMA ListsConcat ==
  ASSUME NEW p, NEW S, Lists(p, S), NEW q, NEW T, Lists(q, T), S \cap T = {}
  PROVE  Lists(p \o q, S \cup T)
<1>1. /\ p \in Seq(S \cup T) /\ Len(p) \in Nat /\ \A i \in 1..Len(p) : p[i] \in S
      /\ q \in Seq(S \cup T) /\ Len(q) \in Nat /\ \A i \in 1..Len(q) : q[i] \in T
  BY ListFacts
<1> DEFINE r == p \o q
<1>2. /\ r \in Seq(S \cup T) /\ Len(r) = Len(p) + Len(q)
      /\ \A i \in 1..Len(p) + Len(q) :
            r[i] = IF i <= Len(p) THEN p[i] ELSE q[i - Len(p)]
  BY <1>1, ConcatProperties
<1> HIDE DEF r
<1>3. /\ \A i \in 1..Len(p) : i \in 1..Len(r) /\ r[i] = p[i]
      /\ \A i \in 1..Len(q) : i + Len(p) \in 1..Len(r) /\ r[i + Len(p)] = q[i]
      /\ \A i \in 1..Len(r) : \/ i \in 1..Len(p)
                              \/ \E j \in 1..Len(q) : i = j + Len(p)
  <2>1. \A i \in 1..Len(p) : i \in 1..Len(r) /\ r[i] = p[i]
    BY <1>1, <1>2
  <2>2. ASSUME NEW i \in 1..Len(q)
        PROVE  i + Len(p) \in 1..Len(r) /\ r[i + Len(p)] = q[i]
    <3>1. i + Len(p) \in 1..Len(r) /\ ~(i + Len(p) <= Len(p)) /\ (i + Len(p)) - Len(p) = i
      BY <1>1, <1>2
    <3> QED
      BY <1>2, <3>1
  <2>3. ASSUME NEW i \in 1..Len(r), i \notin 1..Len(p)
        PROVE  \E j \in 1..Len(q) : i = j + Len(p)
    <3>1. i - Len(p) \in 1..Len(q) /\ i = (i - Len(p)) + Len(p)
      BY <1>1, <1>2, <2>3
    <3> QED
      BY <3>1
  <2> QED
    BY <2>1, <2>2, <2>3
<1>4. Distinct(r)
  <2> SUFFICES ASSUME NEW i \in 1..Len(r), NEW j \in 1..Len(r), r[i] = r[j]
               PROVE  i = j
    BY DEF Distinct
  <2>1. CASE i \in 1..Len(p) /\ j \in 1..Len(p)
    BY <1>3, <2>1 DEF Lists, Distinct
  <2>2. CASE i \in 1..Len(p) /\ j \notin 1..Len(p)
    BY <1>1, <1>3, <2>2
  <2>3. CASE i \notin 1..Len(p) /\ j \in 1..Len(p)
    BY <1>1, <1>3, <2>3
  <2>4. CASE i \notin 1..Len(p) /\ j \notin 1..Len(p)
    <3>1. PICK k \in 1..Len(q) : i = k + Len(p)
      BY <1>3, <2>4
    <3>2. PICK l \in 1..Len(q) : j = l + Len(p)
      BY <1>3, <2>4
    <3>3. q[k] = q[l]
      BY <1>3, <3>1, <3>2
    <3>4. k = l
      BY <3>3 DEF Lists, Distinct
    <3> QED
      BY <3>1, <3>2, <3>4
  <2> QED
    BY <2>1, <2>2, <2>3, <2>4
<1>5. ASSUME NEW x \in S \cup T
      PROVE  \E i \in 1..Len(r) : r[i] = x
  <2>1. CASE x \in S
    <3>1. PICK i \in 1..Len(p) : p[i] = x
      BY <2>1 DEF Lists
    <3> QED
      BY <1>3, <3>1
  <2>2. CASE x \in T
    <3>1. PICK i \in 1..Len(q) : q[i] = x
      BY <2>2 DEF Lists
    <3> QED
      BY <1>3, <3>1
  <2> QED
    BY <2>1, <2>2
<1> QED
  BY <1>2, <1>4, <1>5 DEF Lists, r

\* smcache_addl
LEMMA ListsAddl ==
  ASSUME NEW q, NEW S, Lists(q, S), NEW x, x \notin S
  PROVE  Lists(Addl(q, x), S \cup {x})
<1>1. Lists(<<x>>, {x}) /\ S \cap {x} = {} /\ {x} \cup S = S \cup {x}
  BY OneListed
<1>2. Lists(<<x>> \o q, S \cup {x})
  <2>1. Lists(<<x>> \o q, {x} \cup S)
    BY <1>1, ListsConcat
  <2> QED
    BY <1>1, <2>1
<1>3. Lists(Append(q, x), S \cup {x})
  <2>1. q \in Seq(S \cup {x})
    BY ListFacts
  <2>2. Append(q, x) = q \o <<x>>
    BY <2>1, AppendIsConcat
  <2> QED
    BY <1>1, <2>2, ListsConcat
<1> QED
  BY <1>2, <1>3 DEF Addl

LEMMA ListsTail ==
  ASSUME NEW q, NEW S, Lists(q, S), q # <<>>
  PROVE  Head(q) = q[1] /\ Head(q) \in S /\ Lists(Tail(q), S \ {Head(q)})
<1>1. q \in Seq(S) /\ Len(q) \in Nat \ {0} /\ Head(q) = q[1]
  BY EmptySeq DEF Lists
<1>2. /\ Head(q) \in S /\ Tail(q) \in Seq(S) /\ Len(Tail(q)) = Len(q) - 1
      /\ \A i \in 1..Len(Tail(q)) : Tail(q)[i] = q[i + 1]
  BY <1>1, HeadTailProperties
<1> DEFINE r == Tail(q)
<1> HIDE DEF r
<1>3. /\ Len(r) \in Nat /\ Len(q) = Len(r) + 1
      /\ \A i \in 1..Len(r) : r[i] = q[i + 1] /\ i + 1 \in 1..Len(q) /\ i + 1 # 1
  BY <1>1, <1>2 DEF r
<1>4. \A i \in 1..Len(r) : r[i] \in S \ {Head(q)}
  <2> TAKE i \in 1..Len(r)
  <2>1. r[i] = q[i + 1] /\ i + 1 \in 1..Len(q) /\ i + 1 # 1 /\ 1 \in 1..Len(q)
    BY <1>1, <1>3
  <2>2. q[i + 1] # q[1]
    BY <2>1 DEF Lists, Distinct
  <2>3. q[i + 1] \in S
    BY <2>1, ListFacts
  <2> QED
    BY <1>1, <2>1, <2>2, <2>3
<1>5. r \in Seq(S \ {Head(q)})
  <2>1. r \in [1..Len(r) -> S \ {Head(q)}]
    <3>1. r \in Seq(S)
      BY <1>2 DEF r
    <3>2. r \in [1..Len(r) -> S]
      BY <3>1, LenProperties
    <3> QED
      BY <1>4, <3>2
  <2> QED
    BY <1>3, <2>1
<1>6. Distinct(r)
  <2> SUFFICES ASSUME NEW i \in 1..Len(r), NEW j \in 1..Len(r), r[i] = r[j] PROVE i = j
    BY DEF Distinct
  <2>1. q[i + 1] = q[j + 1] /\ i + 1 \in 1..Len(q) /\ j + 1 \in 1..Len(q)
    BY <1>3
  <2>2. i + 1 = j + 1
    BY <2>1 DEF Lists, Distinct
  <2> QED
    BY <2>2
<1>7. ASSUME NEW x \in S \ {Head(q)}
      PROVE  \E i \in 1..Len(r) : r[i] = x
  <2>1. PICK k \in 1..Len(q) : q[k] = x
    BY DEF Lists
  <2>2. k # 1
    BY <1>1, <2>1
  <2>3. k - 1 \in 1..Len(r) /\ (k - 1) + 1 = k
    BY <1>3, <2>2
  <2>4. r[k - 1] = x
    BY <1>3, <2>1, <2>3
  <2> QED
    BY <2>3, <2>4
<1> QED
  BY <1>1, <1>2, <1>5, <1>6, <1>7 DEF Lists, r

\* A part of a list.
LEMMA ListsPart ==
  ASSUME NEW q, NEW S, Lists(q, S), NEW m \in Int, NEW n \in Int, 1 <= m, n <= Len(q),
         m <= n + 1
  PROVE  /\ Lists(SubSeq(q, m, n), {q[i] : i \in m..n})
         /\ Len(SubSeq(q, m, n)) = n - m + 1
<1> DEFINE r == SubSeq(q, m, n)
           T == {q[i] : i \in m..n}
<1>1. Len(q) \in Nat /\ \A i \in 1..Len(q) : q[i] \in S
  BY ListFacts
<1>2. /\ r \in Seq(T) /\ Len(r) = (IF m <= n THEN n - m + 1 ELSE 0)
      /\ \A i \in 1..n - m + 1 : r[i] = q[m + i - 1]
  BY SubSeqProperties
<1> HIDE DEF r
<1>3. Len(r) = n - m + 1
  BY <1>2
<1>4. Distinct(r)
  <2> SUFFICES ASSUME NEW i \in 1..Len(r), NEW j \in 1..Len(r), r[i] = r[j] PROVE i = j
    BY DEF Distinct
  <2>0. i \in 1..n - m + 1 /\ j \in 1..n - m + 1
    BY <1>3
  <2>1. /\ q[m + i - 1] = q[m + j - 1]
        /\ m + i - 1 \in 1..Len(q) /\ m + j - 1 \in 1..Len(q)
    <3>1. q[m + i - 1] = q[m + j - 1]
      BY <1>2, <2>0
    <3>2. m + i - 1 \in 1..Len(q) /\ m + j - 1 \in 1..Len(q)
      BY <1>1, <2>0
    <3> QED
      BY <3>1, <3>2
  <2>2. m + i - 1 = m + j - 1
    BY <2>1 DEF Lists, Distinct
  <2> QED
    BY <2>2
<1>5. ASSUME NEW x \in T
      PROVE  \E i \in 1..Len(r) : r[i] = x
  <2>1. PICK k \in m..n : q[k] = x
    OBVIOUS
  <2>2. k - m + 1 \in 1..Len(r) /\ m + (k - m + 1) - 1 = k
    BY <1>3
  <2>3. r[k - m + 1] = x
    BY <1>2, <1>3, <2>1, <2>2
  <2> QED
    BY <2>2, <2>3
<1> QED
  BY <1>2, <1>3, <1>4, <1>5 DEF Lists, r

\* What is cut off in front, and what stays.
LEMMA ListsCut ==
  ASSUME NEW q, NEW S, Lists(q, S), NEW n \in 0..Len(q)
  PROVE  \E T \in SUBSET S : /\ Lists(SubSeq(q, 1, n), T)
                             /\ Lists(SubSeq(q, n + 1, Len(q)), S \ T)
                             /\ T = {q[i] : i \in 1..n}
<1> DEFINE T == {q[i] : i \in 1..n}
           R == {q[i] : i \in n + 1..Len(q)}
<1>1. Len(q) \in Nat /\ \A i \in 1..Len(q) : q[i] \in S
  BY ListFacts
<1>2. Lists(SubSeq(q, 1, n), T)
  <2>1. 1 \in Int /\ n \in Int /\ 1 <= 1 /\ n <= Len(q) /\ 1 <= n + 1
    BY <1>1
  <2> QED
    BY <2>1, ListsPart
<1>3. Lists(SubSeq(q, n + 1, Len(q)), R)
  <2>1. n + 1 \in Int /\ Len(q) \in Int /\ 1 <= n + 1 /\ Len(q) <= Len(q)
        /\ n + 1 <= Len(q) + 1
    BY <1>1
  <2> QED
    BY <2>1, ListsPart
<1>4. R = S \ T
  <2>1. R \subseteq S \ T
    <3> SUFFICES ASSUME NEW i \in n + 1..Len(q) PROVE q[i] \in S \ T
      OBVIOUS
    <3>1. i \in 1..Len(q) /\ \A j \in 1..n : j \in 1..Len(q) /\ j # i
      BY <1>1
    <3>2. \A j \in 1..n : q[j] # q[i]
      BY <3>1 DEF Lists, Distinct
    <3> QED
      BY <1>1, <3>1, <3>2
  <2>2. ASSUME NEW x \in S, x \notin T PROVE x \in R
    <3>1. PICK k \in 1..Len(q) : q[k] = x
      BY DEF Lists
    <3>2. k \notin 1..n
      BY <2>2, <3>1
    <3>3. k \in n + 1..Len(q)
      BY <1>1, <3>2
    <3> QED
      BY <3>1, <3>3
  <2> QED
    BY <2>1, <2>2
<1>5. T \in SUBSET S
  <2>1. \A i \in 1..n : i \in 1..Len(q)
    BY <1>1
  <2> QED
    BY <1>1, <2>1
<1> HIDE DEF T, R
<1>6. WITNESS T \in SUBSET S
<1> QED
  BY <1>2, <1>3, <1>4 DEF T

LEMMA ListsLen ==
  ASSUME NEW q, NEW S, Lists(q, S)
  PROVE  IsFiniteSet(S) /\ Cardinality(S) = Len(q)
<1>1. Len(q) \in Nat /\ q \in [1..Len(q) -> S]
  BY ListFacts, LenProperties DEF Lists
<1>2. q \in Bijection(1..Len(q), S)
  BY <1>1 DEF Lists, Distinct, Bijection, Injection, Surjection, IsInjective
<1>3. ExistsBijection(1..Len(q), S)
  BY <1>2 DEF ExistsBijection
<1> QED
  BY <1>1, <1>3, FS_CountingElements, FS_NatBijection

LEMMA SetListed ==
  ASSUME NEW S, IsFiniteSet(S)
  PROVE  Lists(SetToSeq(S), S)
<1> DEFINE n == Cardinality(S)
           q == SetToSeq(S)
<1>1. n \in Nat /\ ExistsBijection(1..n, S)
  BY FS_CardinalityType
<1>2. \E f \in [1..n -> S] : IsInjective(f)
  BY <1>1 DEF ExistsBijection, Bijection, Injection, IsInjective
<1>3. q \in [1..n -> S] /\ IsInjective(q)
  BY <1>2 DEF SetToSeq
<1>4. q \in Injection(1..n, S)
  BY <1>3 DEF Injection, IsInjective
<1>5. q \in Surjection(1..n, S)
  <2>1. Cardinality(1..n) = n
    BY <1>1, FS_Interval
  <2> QED
    BY <1>4, <2>1, FS_Injection
<1> HIDE DEF n, q
<1>6. q \in Seq(S) /\ Len(q) = n
  BY <1>1, <1>3
<1>7. Distinct(q)
  BY <1>3, <1>6 DEF Distinct, IsInjective
<1>8. \A x \in S : \E i \in 1..Len(q) : q[i] = x
  BY <1>5, <1>6 DEF Surjection
<1> QED
  BY <1>6, <1>7, <1>8 DEF Lists, q


-----------------------------------------------------------------------------
(***************************************************************************)
(* Folds, step by step.  The induction theorems of the library have an     *)
(* operator as parameter, which the provers cannot find; over a set of     *)
(* numbers they can.                                                       *)
(***************************************************************************)

\* Induction over the naturals, for sets of them.
LEMMA NatSetInduction ==
  ASSUME NEW P, 0 \in P, \A n \in Nat : n \in P => n + 1 \in P
  PROVE  Nat \subseteq P
<1> SUFFICES ASSUME Nat \ P # {} PROVE FALSE
  OBVIOUS
<1>1. PICK n \in Nat \ P : \A m \in Nat \ P : <<m, n>> \notin OpToRel(<, Nat)
  BY NatLessThanWellFounded, WFMin, Nat \ P \subseteq Nat, Zenon
<1>2. n \in Nat /\ n # 0
  BY <1>1
<1>3. n - 1 \in Nat /\ <<n - 1, n>> \in OpToRel(<, Nat)
  BY <1>2 DEF OpToRel
<1>4. n - 1 \in P
  BY <1>1, <1>3
<1>5. (n - 1) + 1 = n
  BY <1>2
<1> QED
  BY <1>1, <1>3, <1>4, <1>5

\* Induction up to a number.
LEMMA UpTo ==
  ASSUME NEW n \in Nat, NEW Q, 0 \in Q, \A i \in 1..n : i - 1 \in Q => i \in Q
  PROVE  n \in Q
<1> DEFINE P == {k \in Nat : k <= n => k \in Q}
<1>1. 0 \in P
  OBVIOUS
<1>2. ASSUME NEW k \in Nat, k \in P PROVE k + 1 \in P
  <2> SUFFICES ASSUME k + 1 <= n PROVE k + 1 \in Q
    OBVIOUS
  <2>1. k + 1 \in 1..n /\ (k + 1) - 1 = k /\ k <= n
    OBVIOUS
  <2> QED
    BY <1>2, <2>1
<1> HIDE DEF P
<1>3. n \in P
  BY <1>1, <1>2, NatSetInduction
<1> QED
  BY <1>3 DEF P

LEMMA MaxIs ==
  ASSUME NEW k \in Nat, NEW s \in SUBSET (1 .. (k + 1)), k + 1 \in s
  PROVE  Max(s) = k + 1
<1>1. \A y \in s : k + 1 >= y
  OBVIOUS
<1>2. \A x \in s : (\A y \in s : x >= y) => x = k + 1
  BY SMT
<1> QED
  BY <1>1, <1>2 DEF Max

LEMMA MaxIn ==
  ASSUME NEW n \in Nat, NEW z \in SUBSET (1 .. n), z # {}
  PROVE  Max(z) \in z
<1>1. \E x \in z : \A y \in z : x >= y
  <2> DEFINE P == {k \in Nat : \A w \in SUBSET (1 .. k) : w # {} =>
                                  \E x \in w : \A y \in w : x >= y}
  <2>1. 0 \in P
    <3>1. \A x : x \notin 1 .. 0
      BY SMT
    <3>2. \A w \in SUBSET (1 .. 0) : w = {}
      BY <3>1, Zenon
    <3> QED
      BY <3>2
  <2>2. ASSUME NEW k \in Nat, k \in P PROVE k + 1 \in P
    <3> SUFFICES ASSUME NEW w \in SUBSET (1 .. (k + 1)), w # {}
                 PROVE  \E x \in w : \A y \in w : x >= y
      OBVIOUS
    <3>1. CASE k + 1 \in w
      BY <3>1, SMT
    <3>2. CASE k + 1 \notin w
      <4>1. w \in SUBSET (1 .. k)
        BY <3>2, SMT
      <4> QED
        BY <2>2, <4>1
    <3> QED
      BY <3>1, <3>2
  <2> HIDE DEF P
  <2>3. n \in P
    BY <2>1, <2>2, NatSetInduction
  <2> QED
    BY <2>3 DEF P
<1> QED
  BY <1>1, Zenon DEF Max

LEMMA MaxInterval ==
  ASSUME NEW i \in Nat \ {0}
  PROVE  /\ 1 .. i # {} /\ Max(1 .. i) = i
         /\ (1 .. i) \ {i} = 1 .. (i - 1)
<1>1. i - 1 \in Nat /\ (i - 1) + 1 = i
  OBVIOUS
<1>2. Max(1 .. i) = i
  <2>1. 1 .. i \in SUBSET (1 .. ((i - 1) + 1)) /\ (i - 1) + 1 \in 1 .. i
    BY <1>1
  <2> QED
    BY <1>1, <2>1, MaxIs
<1> QED
  BY <1>2, SMT

\* The lists that smcache_add_ql goes through.
AddsOf(h, n, q, add) ==
    /\ h[0] = q /\ h[n] = AddQl(q, add)
    /\ \A i \in 1..n : h[i] = Addl(h[i - 1], add[i])

LEMMA AddSteps ==
  ASSUME NEW n \in Nat, NEW q, NEW add, DOMAIN add = 1..n
  PROVE  \E h : AddsOf(h, n, q, add)
<1> DEFINE Of(f, z) == IF z = {} THEN q ELSE Addl(f[z \ {Max(z)}], add[Max(z)])
           Is(f) == f = [z \in SUBSET (1..n) |-> Of(f, z)]
           F == CHOOSE f : Is(f)
<1>1. AddQl(q, add) = F[1..n]
  BY Zenon DEF AddQl, FoldLeft, MapThenFoldSet
<1>2. \E f : Is(f)
  <2> DEFINE P == {k \in Nat : \E f : \A z \in SUBSET (1..k) : f[z] = Of(f, z)}
  <2>1. 0 \in P
    <3> DEFINE f == [z \in {{}} |-> q]
    <3>1. ASSUME NEW z \in SUBSET (1..0) PROVE f[z] = Of(f, z)
      <4>1. \A x : x \notin 1..0
        BY SMT
      <4>2. z = {}
        BY <4>1, Zenon
      <4> QED
        BY <4>2
    <3> QED
      BY <3>1
  <2>2. ASSUME NEW k \in Nat, k \in P PROVE k + 1 \in P
    <3>1. PICK f : \A z \in SUBSET (1..k) : f[z] = Of(f, z)
      BY <2>2
    <3> DEFINE g == [z \in SUBSET (1..(k + 1)) |->
                       IF k + 1 \in z THEN Addl(f[z \ {k + 1}], add[k + 1]) ELSE f[z]]
    <3>2. ASSUME NEW z \in SUBSET (1..(k + 1)), k + 1 \notin z PROVE z \in SUBSET (1..k)
      BY <3>2, SMT
    <3>3. ASSUME NEW z \in SUBSET (1..(k + 1)) PROVE z \ {k + 1} \in SUBSET (1..k)
      BY <3>3, SMT
    <3>4. \A z \in SUBSET (1..k) : z \in SUBSET (1..(k + 1)) /\ k + 1 \notin z
      BY SMT
    <3>5. ASSUME NEW z \in SUBSET (1..(k + 1)) PROVE g[z] = Of(g, z)
      <4>1. CASE k + 1 \in z
        <5>1. Max(z) = k + 1
          BY <4>1, MaxIs
        <5>2. g[z \ {k + 1}] = f[z \ {k + 1}]
          <6>1. z \ {k + 1} \in SUBSET (1..(k + 1)) /\ k + 1 \notin z \ {k + 1}
            BY <3>3, <3>4
          <6> QED
            BY <6>1, Zenon
        <5>3. g[z] = Addl(f[z \ {k + 1}], add[k + 1])
          BY <4>1, Zenon
        <5>4. Of(g, z) = Addl(g[z \ {k + 1}], add[k + 1])
          BY <4>1, <5>1, Zenon
        <5> QED
          BY <5>2, <5>3, <5>4, Zenon
      <4>2. CASE k + 1 \notin z
        <5>1. z \in SUBSET (1..k) /\ z \ {Max(z)} \in SUBSET (1..k)
          BY <3>2, <4>2
        <5>2. g[z] = f[z]
          BY <4>2, Zenon
        <5>3. g[z \ {Max(z)}] = f[z \ {Max(z)}]
          BY <3>4, <5>1, Zenon
        <5>4. f[z] = Of(f, z)
          BY <3>1, <5>1, Zenon
        <5> QED
          BY <5>2, <5>3, <5>4, Zenon
      <4> QED
        BY <4>1, <4>2
    <3> HIDE DEF g
    <3>6. \A z \in SUBSET (1..(k + 1)) : g[z] = Of(g, z)
      BY <3>5, Zenon
    <3>7. k + 1 \in Nat
      OBVIOUS
    <3> QED
      BY <3>6, <3>7, Zenon
  <2> HIDE DEF P
  <2>3. n \in P
    BY <2>1, <2>2, NatSetInduction
  <2>4. PICK f : \A z \in SUBSET (1..n) : f[z] = Of(f, z)
    BY <2>3 DEF P
  <2> DEFINE g == [z \in SUBSET (1..n) |-> f[z]]
  <2>5. ASSUME NEW z \in SUBSET (1..n) PROVE g[z] = Of(g, z)
    <3>1. z \ {Max(z)} \in SUBSET (1..n)
      OBVIOUS
    <3>2. g[z] = f[z] /\ g[z \ {Max(z)}] = f[z \ {Max(z)}]
      BY <3>1, Zenon
    <3>3. f[z] = Of(f, z)
      BY <2>4, Zenon
    <3> QED
      BY <3>2, <3>3, Zenon
  <2>6. g = [z \in SUBSET (1..n) |-> g[z]]
    BY Zenon
  <2> HIDE DEF g
  <2>7. Is(g)
    BY <2>5, <2>6
  <2> QED
    BY <2>7
<1>3. Is(F)
  <2> HIDE DEF Is
  <2> QED
    BY <1>2, Zenon
<1> HIDE DEF F
<1>4. F[{}] = q
  <2>1. {} \in SUBSET (1..n)
    OBVIOUS
  <2>2. F[{}] = Of(F, {})
    BY <1>3, <2>1, Zenon
  <2> QED
    BY <2>2
<1>5. ASSUME NEW i \in 1..n PROVE F[1..i] = Addl(F[1..(i - 1)], add[i])
  <2>1. i \in Nat \ {0} /\ 1..i \in SUBSET (1..n)
    BY SMT
  <2>2. 1..i # {} /\ Max(1..i) = i /\ (1..i) \ {i} = 1..(i - 1)
    BY <2>1, MaxInterval
  <2>3. F[1..i] = Of(F, 1..i)
    BY <1>3, <2>1, Zenon
  <2>4. F[1..i] = Addl(F[(1..i) \ {Max(1..i)}], add[Max(1..i)])
    BY <2>2, <2>3, Zenon
  <2> QED
    BY <2>2, <2>4
<1> DEFINE h == [i \in 0..n |-> F[1..i]]
<1>6. h[0] = q
  <2>1. 1..0 = {} /\ 0 \in 0..n
    BY SMT
  <2> QED
    BY <1>4, <2>1
<1>7. \A i \in 1..n : h[i - 1] = F[1..(i - 1)] /\ h[i] = F[1..i]
  OBVIOUS
<1>8. h[n] = F[1..n]
  OBVIOUS
<1> HIDE DEF h
<1>9. \A i \in 1..n : h[i] = Addl(h[i - 1], add[i])
  BY <1>5, <1>7, Zenon
<1>10. AddsOf(h, n, q, add)
  BY <1>1, <1>6, <1>8, <1>9, Zenon DEF AddsOf
<1> QED
  BY <1>10, Zenon

\* The pools that smcache_destroy_q goes through.
PutsOf(h, n, s, rmq) ==
    /\ h[0] = s /\ h[n] = Destroyed(s, rmq)
    /\ \A i \in 1..n : h[i] = Put(h[i - 1], rmq[i])

LEMMA PutSteps ==
  ASSUME NEW n \in Nat, NEW s, NEW rmq, DOMAIN rmq = 1..n
  PROVE  \E h : PutsOf(h, n, s, rmq)
<1> DEFINE Of(f, z) == IF z = {} THEN s ELSE Put(f[z \ {Max(z)}], rmq[Max(z)])
           Is(f) == f = [z \in SUBSET (1..n) |-> Of(f, z)]
           F == CHOOSE f : Is(f)
<1>1. Destroyed(s, rmq) = F[1..n]
  BY Zenon DEF Destroyed, FoldLeft, MapThenFoldSet
<1>2. \E f : Is(f)
  <2> DEFINE P == {k \in Nat : \E f : \A z \in SUBSET (1..k) : f[z] = Of(f, z)}
  <2>1. 0 \in P
    <3> DEFINE f == [z \in {{}} |-> s]
    <3>1. ASSUME NEW z \in SUBSET (1..0) PROVE f[z] = Of(f, z)
      <4>1. \A x : x \notin 1..0
        BY SMT
      <4>2. z = {}
        BY <4>1, Zenon
      <4> QED
        BY <4>2
    <3> QED
      BY <3>1
  <2>2. ASSUME NEW k \in Nat, k \in P PROVE k + 1 \in P
    <3>1. PICK f : \A z \in SUBSET (1..k) : f[z] = Of(f, z)
      BY <2>2
    <3> DEFINE g == [z \in SUBSET (1..(k + 1)) |->
                       IF k + 1 \in z THEN Put(f[z \ {k + 1}], rmq[k + 1]) ELSE f[z]]
    <3>2. ASSUME NEW z \in SUBSET (1..(k + 1)), k + 1 \notin z PROVE z \in SUBSET (1..k)
      BY <3>2, SMT
    <3>3. ASSUME NEW z \in SUBSET (1..(k + 1)) PROVE z \ {k + 1} \in SUBSET (1..k)
      BY <3>3, SMT
    <3>4. \A z \in SUBSET (1..k) : z \in SUBSET (1..(k + 1)) /\ k + 1 \notin z
      BY SMT
    <3>5. ASSUME NEW z \in SUBSET (1..(k + 1)) PROVE g[z] = Of(g, z)
      <4>1. CASE k + 1 \in z
        <5>1. Max(z) = k + 1
          BY <4>1, MaxIs
        <5>2. g[z \ {k + 1}] = f[z \ {k + 1}]
          <6>1. z \ {k + 1} \in SUBSET (1..(k + 1)) /\ k + 1 \notin z \ {k + 1}
            BY <3>3, <3>4
          <6> QED
            BY <6>1, Zenon
        <5>3. g[z] = Put(f[z \ {k + 1}], rmq[k + 1])
          BY <4>1, Zenon
        <5>4. Of(g, z) = Put(g[z \ {k + 1}], rmq[k + 1])
          BY <4>1, <5>1, Zenon
        <5> QED
          BY <5>2, <5>3, <5>4, Zenon
      <4>2. CASE k + 1 \notin z
        <5>1. z \in SUBSET (1..k) /\ z \ {Max(z)} \in SUBSET (1..k)
          BY <3>2, <4>2
        <5>2. g[z] = f[z]
          BY <4>2, Zenon
        <5>3. g[z \ {Max(z)}] = f[z \ {Max(z)}]
          BY <3>4, <5>1, Zenon
        <5>4. f[z] = Of(f, z)
          BY <3>1, <5>1, Zenon
        <5> QED
          BY <5>2, <5>3, <5>4, Zenon
      <4> QED
        BY <4>1, <4>2
    <3> HIDE DEF g
    <3>6. \A z \in SUBSET (1..(k + 1)) : g[z] = Of(g, z)
      BY <3>5, Zenon
    <3>7. k + 1 \in Nat
      OBVIOUS
    <3> QED
      BY <3>6, <3>7, Zenon
  <2> HIDE DEF P
  <2>3. n \in P
    BY <2>1, <2>2, NatSetInduction
  <2>4. PICK f : \A z \in SUBSET (1..n) : f[z] = Of(f, z)
    BY <2>3 DEF P
  <2> DEFINE g == [z \in SUBSET (1..n) |-> f[z]]
  <2>5. ASSUME NEW z \in SUBSET (1..n) PROVE g[z] = Of(g, z)
    <3>1. z \ {Max(z)} \in SUBSET (1..n)
      OBVIOUS
    <3>2. g[z] = f[z] /\ g[z \ {Max(z)}] = f[z \ {Max(z)}]
      BY <3>1, Zenon
    <3>3. f[z] = Of(f, z)
      BY <2>4, Zenon
    <3> QED
      BY <3>2, <3>3, Zenon
  <2>6. g = [z \in SUBSET (1..n) |-> g[z]]
    BY Zenon
  <2> HIDE DEF g
  <2>7. Is(g)
    BY <2>5, <2>6
  <2> QED
    BY <2>7
<1>3. Is(F)
  <2> HIDE DEF Is
  <2> QED
    BY <1>2, Zenon
<1> HIDE DEF F
<1>4. F[{}] = s
  <2>1. {} \in SUBSET (1..n)
    OBVIOUS
  <2>2. F[{}] = Of(F, {})
    BY <1>3, <2>1, Zenon
  <2> QED
    BY <2>2
<1>5. ASSUME NEW i \in 1..n PROVE F[1..i] = Put(F[1..(i - 1)], rmq[i])
  <2>1. i \in Nat \ {0} /\ 1..i \in SUBSET (1..n)
    BY SMT
  <2>2. 1..i # {} /\ Max(1..i) = i /\ (1..i) \ {i} = 1..(i - 1)
    BY <2>1, MaxInterval
  <2>3. F[1..i] = Of(F, 1..i)
    BY <1>3, <2>1, Zenon
  <2>4. F[1..i] = Put(F[(1..i) \ {Max(1..i)}], rmq[Max(1..i)])
    BY <2>2, <2>3, Zenon
  <2> QED
    BY <2>2, <2>4
<1> DEFINE h == [i \in 0..n |-> F[1..i]]
<1>6. h[0] = s
  <2>1. 1..0 = {} /\ 0 \in 0..n
    BY SMT
  <2> QED
    BY <1>4, <2>1
<1>7. \A i \in 1..n : h[i - 1] = F[1..(i - 1)] /\ h[i] = F[1..i]
  OBVIOUS
<1>8. h[n] = F[1..n]
  OBVIOUS
<1> HIDE DEF h
<1>9. \A i \in 1..n : h[i] = Put(h[i - 1], rmq[i])
  BY <1>5, <1>7, Zenon
<1>10. PutsOf(h, n, s, rmq)
  BY <1>1, <1>6, <1>8, <1>9, Zenon DEF PutsOf
<1> QED
  BY <1>10, Zenon

\* What the loop of objpool_get goes through.
TurnsOf(h, n, a, seq) ==
    /\ h[0] = a /\ h[n] = FoldLeft(TakeBack, a, seq)
    /\ \A i \in 1..n : h[i] = TakeBack(h[i - 1], seq[i])

LEMMA TurnSteps ==
  ASSUME NEW n \in Nat, NEW a, NEW seq, DOMAIN seq = 1..n
  PROVE  \E h : TurnsOf(h, n, a, seq)
<1> DEFINE Of(f, z) == IF z = {} THEN a ELSE TakeBack(f[z \ {Max(z)}], seq[Max(z)])
           Is(f) == f = [z \in SUBSET (1..n) |-> Of(f, z)]
           F == CHOOSE f : Is(f)
<1>1. FoldLeft(TakeBack, a, seq) = F[1..n]
  BY Zenon DEF FoldLeft, MapThenFoldSet
<1>2. \E f : Is(f)
  <2> DEFINE P == {k \in Nat : \E f : \A z \in SUBSET (1..k) : f[z] = Of(f, z)}
  <2>1. 0 \in P
    <3> DEFINE f == [z \in {{}} |-> a]
    <3>1. ASSUME NEW z \in SUBSET (1..0) PROVE f[z] = Of(f, z)
      <4>1. \A x : x \notin 1..0
        BY SMT
      <4>2. z = {}
        BY <4>1, Zenon
      <4> QED
        BY <4>2
    <3> QED
      BY <3>1
  <2>2. ASSUME NEW k \in Nat, k \in P PROVE k + 1 \in P
    <3>1. PICK f : \A z \in SUBSET (1..k) : f[z] = Of(f, z)
      BY <2>2
    <3> DEFINE g == [z \in SUBSET (1..(k + 1)) |->
                       IF k + 1 \in z THEN TakeBack(f[z \ {k + 1}], seq[k + 1]) ELSE f[z]]
    <3>2. ASSUME NEW z \in SUBSET (1..(k + 1)), k + 1 \notin z PROVE z \in SUBSET (1..k)
      BY <3>2, SMT
    <3>3. ASSUME NEW z \in SUBSET (1..(k + 1)) PROVE z \ {k + 1} \in SUBSET (1..k)
      BY <3>3, SMT
    <3>4. \A z \in SUBSET (1..k) : z \in SUBSET (1..(k + 1)) /\ k + 1 \notin z
      BY SMT
    <3>5. ASSUME NEW z \in SUBSET (1..(k + 1)) PROVE g[z] = Of(g, z)
      <4>1. CASE k + 1 \in z
        <5>1. Max(z) = k + 1
          BY <4>1, MaxIs
        <5>2. g[z \ {k + 1}] = f[z \ {k + 1}]
          <6>1. z \ {k + 1} \in SUBSET (1..(k + 1)) /\ k + 1 \notin z \ {k + 1}
            BY <3>3, <3>4
          <6> QED
            BY <6>1, Zenon
        <5>3. g[z] = TakeBack(f[z \ {k + 1}], seq[k + 1])
          BY <4>1, Zenon
        <5>4. Of(g, z) = TakeBack(g[z \ {k + 1}], seq[k + 1])
          BY <4>1, <5>1, Zenon
        <5> QED
          BY <5>2, <5>3, <5>4, Zenon
      <4>2. CASE k + 1 \notin z
        <5>1. z \in SUBSET (1..k) /\ z \ {Max(z)} \in SUBSET (1..k)
          BY <3>2, <4>2
        <5>2. g[z] = f[z]
          BY <4>2, Zenon
        <5>3. g[z \ {Max(z)}] = f[z \ {Max(z)}]
          BY <3>4, <5>1, Zenon
        <5>4. f[z] = Of(f, z)
          BY <3>1, <5>1, Zenon
        <5> QED
          BY <5>2, <5>3, <5>4, Zenon
      <4> QED
        BY <4>1, <4>2
    <3> HIDE DEF g
    <3>6. \A z \in SUBSET (1..(k + 1)) : g[z] = Of(g, z)
      BY <3>5, Zenon
    <3>7. k + 1 \in Nat
      OBVIOUS
    <3> QED
      BY <3>6, <3>7, Zenon
  <2> HIDE DEF P
  <2>3. n \in P
    BY <2>1, <2>2, NatSetInduction
  <2>4. PICK f : \A z \in SUBSET (1..n) : f[z] = Of(f, z)
    BY <2>3 DEF P
  <2> DEFINE g == [z \in SUBSET (1..n) |-> f[z]]
  <2>5. ASSUME NEW z \in SUBSET (1..n) PROVE g[z] = Of(g, z)
    <3>1. z \ {Max(z)} \in SUBSET (1..n)
      OBVIOUS
    <3>2. g[z] = f[z] /\ g[z \ {Max(z)}] = f[z \ {Max(z)}]
      BY <3>1, Zenon
    <3>3. f[z] = Of(f, z)
      BY <2>4, Zenon
    <3> QED
      BY <3>2, <3>3, Zenon
  <2>6. g = [z \in SUBSET (1..n) |-> g[z]]
    BY Zenon
  <2> HIDE DEF g
  <2>7. Is(g)
    BY <2>5, <2>6
  <2> QED
    BY <2>7
<1>3. Is(F)
  <2> HIDE DEF Is
  <2> QED
    BY <1>2, Zenon
<1> HIDE DEF F
<1>4. F[{}] = a
  <2>1. {} \in SUBSET (1..n)
    OBVIOUS
  <2>2. F[{}] = Of(F, {})
    BY <1>3, <2>1, Zenon
  <2> QED
    BY <2>2
<1>5. ASSUME NEW i \in 1..n PROVE F[1..i] = TakeBack(F[1..(i - 1)], seq[i])
  <2>1. i \in Nat \ {0} /\ 1..i \in SUBSET (1..n)
    BY SMT
  <2>2. 1..i # {} /\ Max(1..i) = i /\ (1..i) \ {i} = 1..(i - 1)
    BY <2>1, MaxInterval
  <2>3. F[1..i] = Of(F, 1..i)
    BY <1>3, <2>1, Zenon
  <2>4. F[1..i] = TakeBack(F[(1..i) \ {Max(1..i)}], seq[Max(1..i)])
    BY <2>2, <2>3, Zenon
  <2> QED
    BY <2>2, <2>4
<1> DEFINE h == [i \in 0..n |-> F[1..i]]
<1>6. h[0] = a
  <2>1. 1..0 = {} /\ 0 \in 0..n
    BY SMT
  <2> QED
    BY <1>4, <2>1
<1>7. \A i \in 1..n : h[i - 1] = F[1..(i - 1)] /\ h[i] = F[1..i]
  OBVIOUS
<1>8. h[n] = F[1..n]
  OBVIOUS
<1> HIDE DEF h
<1>9. \A i \in 1..n : h[i] = TakeBack(h[i - 1], seq[i])
  BY <1>5, <1>7, Zenon
<1>10. TurnsOf(h, n, a, seq)
  BY <1>1, <1>6, <1>8, <1>9, Zenon DEF TurnsOf
<1> QED
  BY <1>10, Zenon

\* smcache_add_ql
LEMMA ListsAddQl ==
  ASSUME NEW q, NEW S, Lists(q, S), NEW add, NEW T, Lists(add, T), S \cap T = {}
  PROVE  Lists(AddQl(q, add), S \cup T)
<1> DEFINE n == Len(add)
           Firsts(k) == {add[j] : j \in 1..k}
<1>1. n \in Nat /\ DOMAIN add = 1..n /\ \A i \in 1..n : add[i] \in T
  BY ListFacts
<1>2. PICK h : AddsOf(h, n, q, add)
  BY <1>1, AddSteps
<1> HIDE DEF n
<1> DEFINE Q == {k \in 0..n : Lists(h[k], S \cup Firsts(k))}
<1>3. 0 \in Q
  <2>1. Firsts(0) = {} /\ 0 \in 0..n
    BY <1>1
  <2> QED
    BY <1>2, <2>1 DEF AddsOf
<1>4. ASSUME NEW i \in 1..n, i - 1 \in Q PROVE i \in Q
  <2>1. add[i] \notin S \cup Firsts(i - 1)
    <3>1. \A j \in 1..(i - 1) : j \in 1..n /\ j # i
      BY <1>1
    <3>2. \A j \in 1..(i - 1) : add[j] # add[i]
      BY <3>1 DEF Lists, Distinct, n
    <3> QED
      BY <1>1, <3>2
  <2>2. Firsts(i) = Firsts(i - 1) \cup {add[i]}
    <3>1. 1..i = (1..(i - 1)) \cup {i}
      BY <1>1
    <3> QED
      BY <3>1
  <2>3. h[i] = Addl(h[i - 1], add[i])
    BY <1>2 DEF AddsOf
  <2>4. Lists(h[i - 1], S \cup Firsts(i - 1))
    BY <1>4
  <2> HIDE DEF Firsts
  <2>5. Lists(h[i], S \cup Firsts(i))
    <3>1. Lists(Addl(h[i - 1], add[i]), (S \cup Firsts(i - 1)) \cup {add[i]})
      BY <2>1, <2>4, ListsAddl
    <3>2. (S \cup Firsts(i - 1)) \cup {add[i]} = S \cup Firsts(i)
      BY <2>2
    <3> QED
      BY <2>3, <3>1, <3>2
  <2>6. i \in 0..n
    OBVIOUS
  <2> QED
    BY <2>5, <2>6
<1>5. n \in Q
  <2> HIDE DEF Q
  <2> QED
    BY <1>1, <1>3, <1>4, UpTo
<1>6. Firsts(n) = T
  BY <1>1 DEF Lists, n
<1> QED
  BY <1>2, <1>5, <1>6 DEF AddsOf


-----------------------------------------------------------------------------
(***************************************************************************)
(* The searches of objpool_put and objpool_get                             *)
(***************************************************************************)

LEMMA SpanFacts ==
  ASSUME NEW blocks, Len(blocks) \in Nat, NEW s \in Spans(blocks)
  PROVE  s[1] \in 0..Len(blocks) /\ s[2] \in -1..Len(blocks) - 1 /\ s[1] \in Nat /\ s[2] \in Int
BY DEF Spans

\* Both halves of a span are shorter.
LEMMA SpanParts ==
  ASSUME NEW blocks, Len(blocks) \in Nat, NEW s \in Spans(blocks), ~(s[2] <= s[1])
  PROVE  /\ Middle(s) \in Nat /\ s[1] <= Middle(s) /\ Middle(s) < s[2]
         /\ Middle(s) + 1 \in 1..Len(blocks)
         /\ LET x == <<s[1], Middle(s) - 1>>
                y == <<Middle(s) + 1, s[2]>>
            IN  /\ x \in Spans(blocks) /\ x[2] - x[1] < s[2] - s[1]
                /\ y \in Spans(blocks) /\ y[2] - y[1] < s[2] - s[1]
<1>1. s[1] \in 0..Len(blocks) /\ s[2] \in -1..Len(blocks) - 1 /\ s[1] \in Nat /\ s[2] \in Int
  BY SpanFacts
<1> DEFINE k == Middle(s)
<1>2. k \in Nat /\ s[1] <= k /\ k < s[2]
  BY <1>1 DEF Middle
<1> HIDE DEF k
<1>3. k - 1 \in -1..Len(blocks) - 1 /\ k + 1 \in 0..Len(blocks) /\ k + 1 \in 1..Len(blocks)
  BY <1>1, <1>2
<1>4. <<s[1], k - 1>> \in Spans(blocks) /\ <<k + 1, s[2]>> \in Spans(blocks)
  BY <1>1, <1>3 DEF Spans
<1>5. (k - 1) - s[1] < s[2] - s[1] /\ s[2] - (k + 1) < s[2] - s[1]
  BY <1>1, <1>2
<1> QED
  BY <1>2, <1>3, <1>4, <1>5 DEF k

\* A step of the search of objpool_put.
FindIn(f, blocks, o, s) ==
    LET k == Middle(s)
        b == blocks[k + 1].begin
    IN  IF s[2] <= s[1] THEN k
        ELSE IF Page(o) < b THEN f[<<s[1], k - 1>>]
        ELSE IF Page(o) = b THEN k
        ELSE f[<<k + 1, s[2]>>]

Finds(f, blocks, o) == f = [s \in Spans(blocks) |-> FindIn(f, blocks, o, s)]

LEMMA FindExists ==
  ASSUME NEW blocks, NEW o, Len(blocks) \in Nat
  PROVE  \E f : Finds(f, blocks, o)
<1> DEFINE P == {m \in Nat : \E f : \A s \in Spans(blocks) :
                       s[2] - s[1] < m => f[s] = FindIn(f, blocks, o, s)}
<1>1. 0 \in P
  <2> DEFINE f == [s \in Spans(blocks) |-> Middle(s)]
  <2>1. ASSUME NEW s \in Spans(blocks), s[2] - s[1] < 0
        PROVE  f[s] = FindIn(f, blocks, o, s)
    <3>1. s[2] <= s[1]
      BY <2>1, SpanFacts
    <3> QED
      BY <3>1 DEF FindIn
  <2> QED
    BY <2>1
<1>2. ASSUME NEW m \in Nat, m \in P PROVE m + 1 \in P
  <2>1. PICK f : \A s \in Spans(blocks) : s[2] - s[1] < m => f[s] = FindIn(f, blocks, o, s)
    BY <1>2
  <2> DEFINE g == [s \in Spans(blocks) |->
                     IF s[2] - s[1] < m THEN f[s] ELSE FindIn(f, blocks, o, s)]
  <2>2. ASSUME NEW s \in Spans(blocks), s[2] - s[1] < m + 1
        PROVE  g[s] = FindIn(f, blocks, o, s)
    <3>1. CASE s[2] - s[1] < m
      BY <2>1, <3>1
    <3>2. CASE ~(s[2] - s[1] < m)
      BY <3>2
    <3> QED
      BY <3>1, <3>2
  <2>3. ASSUME NEW s \in Spans(blocks), s[2] - s[1] < m + 1, ~(s[2] <= s[1])
        PROVE  /\ g[<<s[1], Middle(s) - 1>>] = f[<<s[1], Middle(s) - 1>>]
               /\ g[<<Middle(s) + 1, s[2]>>] = f[<<Middle(s) + 1, s[2]>>]
    <3> DEFINE x == <<s[1], Middle(s) - 1>>
               y == <<Middle(s) + 1, s[2]>>
    <3>1. /\ x \in Spans(blocks) /\ x[2] - x[1] < s[2] - s[1]
          /\ y \in Spans(blocks) /\ y[2] - y[1] < s[2] - s[1]
      BY <2>3, SpanParts, Zenon
    <3> HIDE DEF x, y
    <3>2. x[2] - x[1] < m /\ y[2] - y[1] < m
      BY <2>3, <3>1, SpanFacts
    <3> QED
      BY <3>1, <3>2, Zenon DEF x, y
  <2>4. ASSUME NEW s \in Spans(blocks), s[2] - s[1] < m + 1
        PROVE  FindIn(g, blocks, o, s) = FindIn(f, blocks, o, s)
    <3> HIDE DEF g
    <3>1. CASE s[2] <= s[1]
      BY <3>1 DEF FindIn
    <3>2. CASE ~(s[2] <= s[1])
      BY <2>3, <2>4, <3>2 DEF FindIn
    <3> QED
      BY <3>1, <3>2
  <2>5. \A s \in Spans(blocks) : s[2] - s[1] < m + 1 => g[s] = FindIn(g, blocks, o, s)
    <3> HIDE DEF g
    <3> QED
      BY <2>2, <2>4, Zenon
  <2>6. m + 1 \in Nat
    OBVIOUS
  <2> HIDE DEF g
  <2> QED
    BY <2>5, <2>6, Zenon
<1> HIDE DEF P
<1>3. Len(blocks) \in P
  BY <1>1, <1>2, NatSetInduction
<1>4. PICK f : \A s \in Spans(blocks) : s[2] - s[1] < Len(blocks) => f[s] = FindIn(f, blocks, o, s)
  BY <1>3 DEF P
<1>5. \A s \in Spans(blocks) : s[2] - s[1] < Len(blocks)
  BY SpanFacts
<1> DEFINE g == [s \in Spans(blocks) |-> f[s]]
<1>6. ASSUME NEW s \in Spans(blocks)
      PROVE  g[s] = FindIn(g, blocks, o, s)
  <2>1. g[s] = FindIn(f, blocks, o, s)
    BY <1>4, <1>5
  <2>2. CASE s[2] <= s[1]
    BY <2>1, <2>2 DEF FindIn
  <2>3. CASE ~(s[2] <= s[1])
    <3>1. <<s[1], Middle(s) - 1>> \in Spans(blocks) /\ <<Middle(s) + 1, s[2]>> \in Spans(blocks)
      BY <2>3, SpanParts
    <3>2. /\ g[<<s[1], Middle(s) - 1>>] = f[<<s[1], Middle(s) - 1>>]
          /\ g[<<Middle(s) + 1, s[2]>>] = f[<<Middle(s) + 1, s[2]>>]
      BY <3>1, Zenon
    <3> HIDE DEF g
    <3> QED
      BY <2>1, <2>3, <3>2 DEF FindIn
  <2> QED
    BY <2>2, <2>3
<1>7. g = [s \in Spans(blocks) |-> g[s]]
  BY Zenon
<1> HIDE DEF g
<1>8. Finds(g, blocks, o)
  BY <1>6, <1>7 DEF Finds
<1> QED
  BY <1>8

\* The blocks are sorted by address.
BlockType == [begin : Pages, putq : Seq(Objects)]
Sorted(blocks) ==
    /\ blocks \in Seq(BlockType)
    /\ \A i, j \in 1..Len(blocks) : i < j => blocks[i].begin < blocks[j].begin

LEMMA SortedFacts ==
  ASSUME NEW blocks, Sorted(blocks)
  PROVE  /\ Len(blocks) \in Nat /\ DOMAIN blocks = 1..Len(blocks)
         /\ \A i \in 1..Len(blocks) : /\ blocks[i] \in BlockType /\ blocks[i].begin \in Pages
                                      /\ blocks[i].begin \in Nat
         /\ \A i, j \in 1..Len(blocks) : blocks[i].begin = blocks[j].begin => i = j
         /\ \A i, j \in 1..Len(blocks) : i <= j => blocks[i].begin <= blocks[j].begin
<1>1. Len(blocks) \in Nat /\ DOMAIN blocks = 1..Len(blocks)
  BY LenProperties DEF Sorted
<1>2. \A i \in 1..Len(blocks) : blocks[i] \in BlockType
  BY ElementOfSeq DEF Sorted
<1>3. \A i \in 1..Len(blocks) : blocks[i].begin \in Pages /\ blocks[i].begin \in Nat
  BY <1>2, ObjAssumption DEF BlockType, ObjAssumption
<1>4. ASSUME NEW i \in 1..Len(blocks), NEW j \in 1..Len(blocks),
             blocks[i].begin = blocks[j].begin
      PROVE  i = j
  <2>1. ~(i < j) /\ ~(j < i)
    BY <1>3, <1>4 DEF Sorted
  <2> QED
    BY <1>1, <2>1
<1>5. ASSUME NEW i \in 1..Len(blocks), NEW j \in 1..Len(blocks), i <= j
      PROVE  blocks[i].begin <= blocks[j].begin
  <2>1. CASE i = j
    BY <1>3, <2>1
  <2>2. CASE i < j
    BY <1>3, <2>2 DEF Sorted
  <2> QED
    BY <1>1, <1>5, <2>1, <2>2
<1> QED
  BY <1>1, <1>2, <1>3, <1>4, <1>5

\* objpool_put finds the block of an object.
LEMMA BlockFound ==
  ASSUME NEW blocks, Sorted(blocks), NEW o, NEW b \in 1..Len(blocks),
         blocks[b].begin = Page(o)
  PROVE  BlockOf(blocks, o) = b
<1> DEFINE F == CHOOSE f : Finds(f, blocks, o)
<1>1. BlockOf(blocks, o) = F[<<0, Len(blocks) - 1>>] + 1
  BY Zenon DEF BlockOf, Finds, FindIn
<1>2. Len(blocks) \in Nat
  BY SortedFacts
<1>3. Finds(F, blocks, o)
  BY <1>2, FindExists
<1> HIDE DEF F
<1>4. \A s \in Spans(blocks) : F[s] = FindIn(F, blocks, o, s)
  BY <1>3 DEF Finds
<1> DEFINE Holds(s) == s[1] + 1 <= b /\ b <= s[2] + 1
           Q == {m \in Nat : \A s \in Spans(blocks) :
                    s[2] - s[1] < m /\ Holds(s) => F[s] + 1 = b}
<1>5. 0 \in Q
  <2> SUFFICES ASSUME NEW s \in Spans(blocks), s[2] - s[1] < 0, Holds(s) PROVE FALSE
    OBVIOUS
  <2> QED
    BY <1>2, SpanFacts
<1>6. ASSUME NEW m \in Nat, m \in Q PROVE m + 1 \in Q
  <2> SUFFICES ASSUME NEW s \in Spans(blocks), s[2] - s[1] < m + 1, Holds(s)
               PROVE  F[s] + 1 = b
    OBVIOUS
  <2> DEFINE k == Middle(s)
  <2>1. s[1] \in Nat /\ s[2] \in Int
    BY <1>2, SpanFacts
  <2>2. CASE s[2] <= s[1]
    <3>1. F[s] = Middle(s)
      BY <1>4, <2>2 DEF FindIn
    <3>2. s[1] = b - 1 /\ s[2] = b - 1
      BY <1>2, <2>1, <2>2
    <3>3. Middle(s) = b - 1
      BY <1>2, <3>2 DEF Middle
    <3> QED
      BY <1>2, <3>1, <3>3
  <2>3. CASE ~(s[2] <= s[1])
    <3> DEFINE x == <<s[1], k - 1>>
               y == <<k + 1, s[2]>>
    <3>1. /\ k \in Nat /\ k + 1 \in 1..Len(blocks)
          /\ x \in Spans(blocks) /\ x[2] - x[1] < s[2] - s[1]
          /\ y \in Spans(blocks) /\ y[2] - y[1] < s[2] - s[1]
      BY <1>2, <2>3, SpanParts, Zenon
    <3>2. x[1] = s[1] /\ x[2] = k - 1 /\ y[1] = k + 1 /\ y[2] = s[2]
      OBVIOUS
    <3>3. F[s] = IF Page(o) < blocks[k + 1].begin THEN F[x]
                 ELSE IF Page(o) = blocks[k + 1].begin THEN k
                 ELSE F[y]
      BY <1>4, <2>3 DEF FindIn
    <3> HIDE DEF k, x, y
    <3>4. x[2] - x[1] < m /\ y[2] - y[1] < m
      BY <2>1, <3>1, <3>2
    <3>5. Page(o) \in Nat /\ blocks[k + 1].begin \in Nat
      BY <3>1, SortedFacts
    <3>6. CASE Page(o) < blocks[k + 1].begin
      <4>1. ~(k + 1 <= b)
        <5> SUFFICES ASSUME k + 1 <= b PROVE FALSE
          OBVIOUS
        <5>1. blocks[k + 1].begin <= blocks[b].begin
          BY <3>1, SortedFacts
        <5> QED
          BY <3>5, <3>6, <5>1
      <4>2. Holds(x)
        BY <1>2, <2>1, <3>1, <3>2, <4>1
      <4> QED
        BY <1>6, <3>1, <3>3, <3>4, <3>6, <4>2
    <3>7. CASE Page(o) = blocks[k + 1].begin
      <4>1. k + 1 = b
        BY <3>1, <3>7, SortedFacts
      <4> QED
        BY <3>3, <3>5, <3>7, <4>1
    <3>8. CASE ~(Page(o) < blocks[k + 1].begin) /\ Page(o) # blocks[k + 1].begin
      <4>1. ~(b <= k + 1)
        <5> SUFFICES ASSUME b <= k + 1 PROVE FALSE
          OBVIOUS
        <5>1. blocks[b].begin <= blocks[k + 1].begin
          BY <3>1, SortedFacts
        <5> QED
          BY <3>5, <3>8, <5>1
      <4>2. Holds(y)
        BY <1>2, <2>1, <3>1, <3>2, <4>1
      <4> QED
        BY <1>6, <3>1, <3>3, <3>4, <3>8, <4>2
    <3> QED
      BY <3>6, <3>7, <3>8
  <2> QED
    BY <2>2, <2>3
<1>7. Len(blocks) \in Q
  <2> HIDE DEF Q
  <2> QED
    BY <1>2, <1>5, <1>6, NatSetInduction
<1> DEFINE all == <<0, Len(blocks) - 1>>
<1>8. all \in Spans(blocks) /\ all[2] - all[1] < Len(blocks) /\ Holds(all)
  BY <1>2 DEF Spans
<1> HIDE DEF all
<1>9. F[all] + 1 = b
  BY <1>7, <1>8
<1> QED
  BY <1>1, <1>9 DEF all

\* A step of the search of objpool_get.
SearchIn(f, blocks, page, s) ==
    LET k == Middle(s)
    IN  IF s[2] = -1 THEN Outside
        ELSE IF s[2] <= s[1] THEN s[1]
        ELSE IF page < blocks[k + 1].begin THEN f[<<s[1], k - 1>>]
        ELSE f[<<k + 1, s[2]>>]

Searches(f, blocks, page) == f = [s \in Spans(blocks) |-> SearchIn(f, blocks, page, s)]

LEMMA SearchExists ==
  ASSUME NEW blocks, NEW page, Len(blocks) \in Nat
  PROVE  \E f : Searches(f, blocks, page)
<1> DEFINE P == {m \in Nat : \E f : \A s \in Spans(blocks) :
                       s[2] - s[1] < m => f[s] = SearchIn(f, blocks, page, s)}
<1>1. 0 \in P
  <2> DEFINE f == [s \in Spans(blocks) |-> IF s[2] = -1 THEN Outside ELSE s[1]]
  <2>1. ASSUME NEW s \in Spans(blocks), s[2] - s[1] < 0
        PROVE  f[s] = SearchIn(f, blocks, page, s)
    <3>1. s[2] <= s[1]
      BY <2>1, SpanFacts
    <3> QED
      BY <3>1 DEF SearchIn
  <2> QED
    BY <2>1
<1>2. ASSUME NEW m \in Nat, m \in P PROVE m + 1 \in P
  <2>1. PICK f : \A s \in Spans(blocks) : s[2] - s[1] < m => f[s] = SearchIn(f, blocks, page, s)
    BY <1>2
  <2> DEFINE g == [s \in Spans(blocks) |->
                     IF s[2] - s[1] < m THEN f[s] ELSE SearchIn(f, blocks, page, s)]
  <2>2. ASSUME NEW s \in Spans(blocks), s[2] - s[1] < m + 1
        PROVE  g[s] = SearchIn(f, blocks, page, s)
    <3>1. CASE s[2] - s[1] < m
      BY <2>1, <3>1
    <3>2. CASE ~(s[2] - s[1] < m)
      BY <3>2
    <3> QED
      BY <3>1, <3>2
  <2>3. ASSUME NEW s \in Spans(blocks), s[2] - s[1] < m + 1, ~(s[2] <= s[1])
        PROVE  /\ g[<<s[1], Middle(s) - 1>>] = f[<<s[1], Middle(s) - 1>>]
               /\ g[<<Middle(s) + 1, s[2]>>] = f[<<Middle(s) + 1, s[2]>>]
    <3> DEFINE x == <<s[1], Middle(s) - 1>>
               y == <<Middle(s) + 1, s[2]>>
    <3>1. /\ x \in Spans(blocks) /\ x[2] - x[1] < s[2] - s[1]
          /\ y \in Spans(blocks) /\ y[2] - y[1] < s[2] - s[1]
      BY <2>3, SpanParts, Zenon
    <3> HIDE DEF x, y
    <3>2. x[2] - x[1] < m /\ y[2] - y[1] < m
      BY <2>3, <3>1, SpanFacts
    <3> QED
      BY <3>1, <3>2, Zenon DEF x, y
  <2>4. ASSUME NEW s \in Spans(blocks), s[2] - s[1] < m + 1
        PROVE  SearchIn(g, blocks, page, s) = SearchIn(f, blocks, page, s)
    <3> HIDE DEF g
    <3>1. CASE s[2] <= s[1]
      BY <3>1 DEF SearchIn
    <3>2. CASE ~(s[2] <= s[1])
      BY <2>3, <2>4, <3>2 DEF SearchIn
    <3> QED
      BY <3>1, <3>2
  <2>5. \A s \in Spans(blocks) : s[2] - s[1] < m + 1 => g[s] = SearchIn(g, blocks, page, s)
    <3> HIDE DEF g
    <3> QED
      BY <2>2, <2>4, Zenon
  <2>6. m + 1 \in Nat
    OBVIOUS
  <2> HIDE DEF g
  <2> QED
    BY <2>5, <2>6, Zenon
<1> HIDE DEF P
<1>3. Len(blocks) \in P
  BY <1>1, <1>2, NatSetInduction
<1>4. PICK f : \A s \in Spans(blocks) : s[2] - s[1] < Len(blocks) => f[s] = SearchIn(f, blocks, page, s)
  BY <1>3 DEF P
<1>5. \A s \in Spans(blocks) : s[2] - s[1] < Len(blocks)
  BY SpanFacts
<1> DEFINE g == [s \in Spans(blocks) |-> f[s]]
<1>6. ASSUME NEW s \in Spans(blocks)
      PROVE  g[s] = SearchIn(g, blocks, page, s)
  <2>1. g[s] = SearchIn(f, blocks, page, s)
    BY <1>4, <1>5
  <2>2. CASE s[2] <= s[1]
    BY <2>1, <2>2 DEF SearchIn
  <2>3. CASE ~(s[2] <= s[1])
    <3>1. <<s[1], Middle(s) - 1>> \in Spans(blocks) /\ <<Middle(s) + 1, s[2]>> \in Spans(blocks)
      BY <2>3, SpanParts
    <3>2. /\ g[<<s[1], Middle(s) - 1>>] = f[<<s[1], Middle(s) - 1>>]
          /\ g[<<Middle(s) + 1, s[2]>>] = f[<<Middle(s) + 1, s[2]>>]
      BY <3>1, Zenon
    <3> HIDE DEF g
    <3> QED
      BY <2>1, <2>3, <3>2 DEF SearchIn
  <2> QED
    BY <2>2, <2>3
<1>7. g = [s \in Spans(blocks) |-> g[s]]
  BY Zenon
<1> HIDE DEF g
<1>8. Searches(g, blocks, page)
  BY <1>6, <1>7 DEF Searches
<1> QED
  BY <1>8

\* The blocks up to the place l are below the page, the others above it.
Between(blocks, page, l) ==
    /\ l \in 0..Len(blocks)
    /\ \A i \in 1..Len(blocks) : /\ i <= l => blocks[i].begin < page
                                 /\ i > l => page < blocks[i].begin

\* objpool_get finds the place of a new block, if the search stays inside the array.
LEMMA PlaceFound ==
  ASSUME NEW blocks, Sorted(blocks), NEW page \in Pages,
         \A i \in 1..Len(blocks) : blocks[i].begin # page,
         PlaceOf(blocks, page) # Outside
  PROVE  Between(blocks, page, PlaceOf(blocks, page))
<1> DEFINE F == CHOOSE f : Searches(f, blocks, page)
           all == <<0, Len(blocks) - 1>>
           n == Len(blocks)
<1>1. PlaceOf(blocks, page) =
        IF blocks = <<>> THEN 0
        ELSE IF F[all] = Outside THEN Outside
        ELSE IF page > blocks[F[all] + 1].begin THEN F[all] + 1 ELSE F[all]
  BY Zenon DEF PlaceOf, Searches, SearchIn
<1>2. n \in Nat /\ page \in Nat
  BY SortedFacts, ObjAssumption DEF ObjAssumption
<1>3. Searches(F, blocks, page)
  BY <1>2, SearchExists
<1> HIDE DEF F, n
<1>4. \A s \in Spans(blocks) : F[s] = SearchIn(F, blocks, page, s)
  BY <1>3 DEF Searches
<1>5. \A i \in 1..n : blocks[i].begin \in Nat /\ blocks[i].begin # page
  BY SortedFacts DEF n
<1> DEFINE Lower(l) == \A i \in 1..n : i <= l => blocks[i].begin < page
           Upper(r) == \A i \in 1..n : i > r => page < blocks[i].begin
           Holds(s) == s[1] < n /\ s[1] <= s[2] + 1 /\ Lower(s[1]) /\ Upper(s[2] + 1)
           Good(l) == l \in Nat /\ l < n /\ Lower(l) /\ Upper(l + 1)
           Q == {m \in Nat : \A s \in Spans(blocks) :
                    s[2] - s[1] < m /\ Holds(s) => F[s] = Outside \/ Good(F[s])}
<1>6. ASSUME NEW s \in Spans(blocks), s[2] <= s[1], Holds(s)
      PROVE  F[s] = Outside \/ Good(F[s])
  <2>1. F[s] = Outside \/ F[s] = s[1]
    BY <1>4, <1>6 DEF SearchIn
  <2>2. s[1] \in Nat /\ s[2] \in Int
    BY <1>2, SpanFacts DEF n
  <2>3. Upper(s[1] + 1)
    BY <1>6, <2>2
  <2>4. Good(s[1])
    BY <1>6, <2>2, <2>3
  <2> HIDE DEF Good
  <2> QED
    BY <2>1, <2>4
<1>7. 0 \in Q
  <2> HIDE DEF Holds, Good
  <2> SUFFICES ASSUME NEW s \in Spans(blocks), s[2] - s[1] < 0, Holds(s)
               PROVE  F[s] = Outside \/ Good(F[s])
    OBVIOUS
  <2>1. s[2] <= s[1]
    BY <1>2, SpanFacts DEF n
  <2> QED
    BY <1>6, <2>1
<1>8. ASSUME NEW m \in Nat, m \in Q PROVE m + 1 \in Q
  <2> HIDE DEF Good
  <2> SUFFICES ASSUME NEW s \in Spans(blocks), s[2] - s[1] < m + 1, Holds(s)
               PROVE  F[s] = Outside \/ Good(F[s])
    OBVIOUS
  <2> DEFINE k == Middle(s)
  <2>1. s[1] \in Nat /\ s[2] \in Int /\ s[2] <= n - 1
    BY <1>2, SpanFacts DEF n
  <2>2. CASE s[2] <= s[1]
    <3> HIDE DEF Holds
    <3> QED
      BY <1>6, <2>2
  <2>3. CASE ~(s[2] <= s[1])
    <3> DEFINE x == <<s[1], k - 1>>
               y == <<k + 1, s[2]>>
    <3>1. /\ k \in Nat /\ k + 1 \in 1..n /\ s[1] <= k /\ k < s[2]
          /\ x \in Spans(blocks) /\ x[2] - x[1] < s[2] - s[1]
          /\ y \in Spans(blocks) /\ y[2] - y[1] < s[2] - s[1]
      BY <1>2, <2>3, SpanParts, Zenon DEF n
    <3>2. x[1] = s[1] /\ x[2] = k - 1 /\ y[1] = k + 1 /\ y[2] = s[2]
      OBVIOUS
    <3>3. F[s] = IF page < blocks[k + 1].begin THEN F[x] ELSE F[y]
      <4>1. s[2] # -1
        BY <2>1, <2>3
      <4> QED
        BY <1>4, <2>3, <4>1 DEF SearchIn
    <3> HIDE DEF k, x, y
    <3>4. x[2] - x[1] < m /\ y[2] - y[1] < m
      BY <2>1, <3>1, <3>2
    <3>5. CASE page < blocks[k + 1].begin
      <4>1. Upper(k)
        <5> SUFFICES ASSUME NEW i \in 1..n, i > k PROVE page < blocks[i].begin
          OBVIOUS
        <5>1. k + 1 <= i
          BY <3>1
        <5>2. blocks[k + 1].begin <= blocks[i].begin
          BY <3>1, <5>1, SortedFacts DEF n
        <5> QED
          BY <1>2, <1>5, <3>1, <3>5, <5>2
      <4>2. x[2] + 1 = k /\ x[1] <= k /\ x[1] < n
        BY <3>1, <3>2
      <4>3. Holds(x)
        BY <3>2, <4>1, <4>2
      <4> HIDE DEF Holds
      <4> QED
        BY <1>8, <3>1, <3>3, <3>4, <3>5, <4>3
    <3>6. CASE ~(page < blocks[k + 1].begin)
      <4>1. Lower(k + 1)
        <5> SUFFICES ASSUME NEW i \in 1..n, i <= k + 1 PROVE blocks[i].begin < page
          OBVIOUS
        <5>1. blocks[i].begin <= blocks[k + 1].begin
          BY <3>1, SortedFacts DEF n
        <5>2. blocks[k + 1].begin < page
          BY <1>2, <1>5, <3>1, <3>6
        <5> QED
          BY <1>2, <1>5, <3>1, <5>1, <5>2
      <4>2. y[1] < n /\ y[1] <= y[2] + 1
        BY <1>2, <2>1, <3>1, <3>2
      <4>3. Holds(y)
        BY <3>2, <4>1, <4>2
      <4> HIDE DEF Holds
      <4> QED
        BY <1>8, <3>1, <3>3, <3>4, <3>6, <4>3
    <3> QED
      BY <3>5, <3>6
  <2> QED
    BY <2>2, <2>3
<1>9. n \in Q
  <2> HIDE DEF Q
  <2> QED
    BY <1>2, <1>7, <1>8, NatSetInduction
<1>10. CASE blocks = <<>>
  <2>1. n = 0 /\ PlaceOf(blocks, page) = 0
    BY <1>1, <1>10, EmptySeq DEF n
  <2> QED
    BY <2>1 DEF Between, n
<1>11. CASE blocks # <<>>
  <2>1. n > 0
    BY <1>2, <1>11, EmptySeq DEF n, Sorted
  <2>2. all \in Spans(blocks) /\ all[1] = 0 /\ all[2] = n - 1
    BY <1>2 DEF Spans, n
  <2> HIDE DEF all
  <2>3. all[2] - all[1] < n /\ Holds(all)
    BY <1>2, <2>1, <2>2
  <2>4. F[all] = Outside \/ Good(F[all])
    <3> HIDE DEF Holds, Good
    <3> QED
      BY <1>9, <2>2, <2>3
  <2> DEFINE l == F[all]
  <2>5. Good(l)
    <3> HIDE DEF Good
    <3> QED
      BY <1>1, <1>11, <2>4
  <2>6. PlaceOf(blocks, page) = IF page > blocks[l + 1].begin THEN l + 1 ELSE l
    <3>1. l # Outside
      BY <1>1, <1>11
    <3> QED
      BY <1>1, <1>11, <3>1
  <2> HIDE DEF l
  <2>7. l + 1 \in 1..n /\ l \in 0..n /\ l + 1 \in 0..n
    BY <1>2, <2>5
  <2>8. CASE page > blocks[l + 1].begin
    <3>1. Lower(l + 1)
      <4> SUFFICES ASSUME NEW i \in 1..n, i <= l + 1 PROVE blocks[i].begin < page
        OBVIOUS
      <4>1. CASE i = l + 1
        BY <1>2, <1>5, <2>8, <4>1
      <4>2. CASE i <= l
        BY <2>5, <4>2
      <4> QED
        BY <1>2, <2>5, <4>1, <4>2
    <3> QED
      BY <2>5, <2>6, <2>7, <2>8, <3>1 DEF Between, n
  <2>9. CASE ~(page > blocks[l + 1].begin)
    <3>1. Upper(l)
      <4> SUFFICES ASSUME NEW i \in 1..n, i > l PROVE page < blocks[i].begin
        OBVIOUS
      <4>1. CASE i = l + 1
        BY <1>2, <1>5, <2>9, <4>1
      <4>2. CASE i > l + 1
        BY <2>5, <4>2
      <4> QED
        BY <1>2, <2>5, <4>1, <4>2
    <3> QED
      BY <2>5, <2>6, <2>7, <2>9, <3>1 DEF Between, n
  <2> QED
    BY <2>8, <2>9
<1> QED
  BY <1>10, <1>11


-----------------------------------------------------------------------------
(***************************************************************************)
(* objpool_t                                                               *)
(***************************************************************************)

PageObjs(page) == {page} \X (0..BlockObjs - 1)
PutAt(P, page) == {o \in P : Page(o) = page}
Begins(blocks) == {blocks[b].begin : b \in 1..Len(blocks)}

LEMMA ObjectFacts ==
  /\ IsFiniteSet(Objects) /\ BlockObjs \in Nat \ {0}
  /\ \A o \in Objects : Page(o) \in Pages /\ o \in PageObjs(Page(o))
  /\ \A page \in Pages : /\ PageObjs(page) \subseteq Objects
                         /\ IsFiniteSet(PageObjs(page))
                         /\ Cardinality(PageObjs(page)) = BlockObjs
  /\ \A page : \A o \in PageObjs(page) : Page(o) = page
<1>1. IsFiniteSet(Pages) /\ BlockObjs \in Nat \ {0}
  BY ObjAssumption DEF ObjAssumption
<1>2. IsFiniteSet(0..BlockObjs - 1) /\ Cardinality(0..BlockObjs - 1) = BlockObjs
  BY <1>1, FS_Interval
<1>3. IsFiniteSet(Objects)
  BY <1>1, <1>2, FS_Product DEF Objects
<1>4. ASSUME NEW page
      PROVE  IsFiniteSet(PageObjs(page)) /\ Cardinality(PageObjs(page)) = BlockObjs
  <2>1. IsFiniteSet({page}) /\ Cardinality({page}) = 1
    BY FS_Singleton
  <2>2. /\ IsFiniteSet(PageObjs(page))
        /\ Cardinality(PageObjs(page)) = Cardinality({page}) * Cardinality(0..BlockObjs - 1)
    BY <1>2, <2>1, FS_Product DEF PageObjs
  <2> QED
    BY <1>1, <1>2, <2>1, <2>2
<1>5. \A o \in Objects : Page(o) \in Pages /\ o \in PageObjs(Page(o))
  BY DEF Objects, Page, PageObjs
<1>6. \A page : \A o \in PageObjs(page) : Page(o) = page
  BY DEF PageObjs, Page
<1>7. \A page \in Pages : PageObjs(page) \subseteq Objects
  BY DEF PageObjs, Objects
<1> QED
  BY <1>1, <1>3, <1>4, <1>5, <1>6, <1>7

\* The blocks have the objects P put back, each in its own block, and no block all.
BlocksHold(blocks, P) ==
    /\ Sorted(blocks)
    /\ \A b \in 1..Len(blocks) : /\ Lists(blocks[b].putq, PutAt(P, blocks[b].begin))
                                 /\ Len(blocks[b].putq) < BlockObjs
    /\ P \subseteq Objects /\ \A o \in P : Page(o) \in Begins(blocks)

\* The pool s has the objects C in the cache and P put back.
IsPool(s, C, P) ==
    /\ s \in PoolType /\ C \subseteq Objects /\ Lists(s.xq, C)
    /\ BlocksHold(s.blocks, P) /\ s.nput = Cardinality(P)

LEMMA TakenIs ==
  ASSUME NEW s, NEW C, NEW P, IsPool(s, C, P)
  PROVE  Taken(s) = Begins(s.blocks)
<1>1. DOMAIN s.blocks = 1..Len(s.blocks)
  BY SortedFacts DEF IsPool, BlocksHold
<1> QED
  BY <1>1 DEF Taken, Begins

LEMMA PoolIs ==
  ASSUME NEW s, NEW C \in SUBSET Objects, NEW P, NEW blocks, NEW nput, NEW xq, NEW astray \in BOOLEAN,
         s = [blocks |-> blocks, nput |-> nput, xq |-> xq, astray |-> astray],
         Lists(xq, C), BlocksHold(blocks, P), nput = Cardinality(P)
  PROVE  IsPool(s, C, P)
<1>1. xq \in Seq(Objects)
  BY ListFacts
<1>2. blocks \in Seq([begin : Pages, putq : Seq(Objects)])
  BY DEF BlocksHold, Sorted, BlockType
<1>3. nput \in Nat
  BY ObjectFacts, FS_Subset, FS_CardinalityType DEF BlocksHold
<1>4. s \in PoolType
  BY <1>1, <1>2, <1>3 DEF PoolType
<1> QED
  BY <1>4 DEF IsPool

LEMMA PoolShape ==
  ASSUME NEW s, NEW C, NEW P, IsPool(s, C, P)
  PROVE  /\ s = [blocks |-> s.blocks, nput |-> s.nput, xq |-> s.xq, astray |-> s.astray]
         /\ s.astray \in BOOLEAN /\ IsFiniteSet(P) /\ Cardinality(P) \in Nat
         /\ s.nput = Cardinality(P) /\ P \subseteq Objects /\ C \subseteq Objects
         /\ BlocksHold(s.blocks, P) /\ Lists(s.xq, C)
BY ObjectFacts, FS_Subset, FS_CardinalityType DEF IsPool, PoolType, BlocksHold

\* The list of one block changes.
NewPutq(blocks, b, q) == [blocks EXCEPT ![b].putq = q]

LEMMA OthersKept ==
  ASSUME NEW blocks, NEW P, BlocksHold(blocks, P), NEW b \in 1..Len(blocks),
         NEW q \in Seq(Objects), NEW new, new = NewPutq(blocks, b, q)
  PROVE  /\ Sorted(new) /\ Begins(new) = Begins(blocks) /\ Len(new) = Len(blocks)
         /\ new[b].putq = q
         /\ \A i \in 1..Len(blocks) : /\ new[i].begin = blocks[i].begin
                                      /\ i # b => new[i] = blocks[i]
<1> DEFINE e == [blocks[b] EXCEPT !.putq = q]
<1>1. /\ blocks \in Seq(BlockType) /\ Len(blocks) \in Nat
      /\ \A i \in 1..Len(blocks) : blocks[i] \in BlockType
  BY SortedFacts DEF BlocksHold, Sorted
<1>2. e \in BlockType /\ e.begin = blocks[b].begin /\ e.putq = q
  BY <1>1 DEF BlockType
<1>3. new = [blocks EXCEPT ![b] = e]
  BY DEF NewPutq
<1> HIDE DEF e
<1>4. /\ new \in Seq(BlockType) /\ Len(new) = Len(blocks)
      /\ \A i \in 1..Len(blocks) : new[i] = IF i = b THEN e ELSE blocks[i]
  BY <1>1, <1>2, <1>3, ExceptSeq
<1>5. \A i \in 1..Len(blocks) : new[i].begin = blocks[i].begin
  BY <1>2, <1>4
<1>6. Sorted(new)
  BY <1>4, <1>5 DEF BlocksHold, Sorted
<1>7. Begins(new) = Begins(blocks)
  BY <1>4, <1>5 DEF Begins
<1> QED
  BY <1>2, <1>4, <1>5, <1>6, <1>7

LEMMA BlockChanges ==
  ASSUME NEW blocks, NEW P, BlocksHold(blocks, P), NEW b \in 1..Len(blocks), NEW q, NEW R,
         R \subseteq PageObjs(blocks[b].begin), Lists(q, R), Len(q) < BlockObjs,
         NEW new, new = NewPutq(blocks, b, q)
  PROVE  BlocksHold(new, (P \ PageObjs(blocks[b].begin)) \cup R)
<1> DEFINE S == (P \ PageObjs(blocks[b].begin)) \cup R
<1>1. \A i \in 1..Len(blocks) : blocks[i].begin \in Pages
  BY SortedFacts DEF BlocksHold
<1>2. \A i, j \in 1..Len(blocks) : blocks[i].begin = blocks[j].begin => i = j
  BY SortedFacts DEF BlocksHold
<1>3. R \subseteq Objects
  BY <1>1, ObjectFacts
<1>4. q \in Seq(Objects)
  BY <1>3, ListFacts
<1>5. /\ Sorted(new) /\ Begins(new) = Begins(blocks) /\ Len(new) = Len(blocks)
      /\ new[b].putq = q
      /\ \A i \in 1..Len(blocks) : /\ new[i].begin = blocks[i].begin
                                   /\ i # b => new[i] = blocks[i]
  BY <1>4, OthersKept
<1>6. ASSUME NEW i \in 1..Len(new)
      PROVE  Lists(new[i].putq, PutAt(S, new[i].begin)) /\ Len(new[i].putq) < BlockObjs
  <2>1. CASE i = b
    <3>1. PutAt(S, blocks[b].begin) = R
      <4>1. \A o \in P : Page(o) = blocks[b].begin => o \in PageObjs(blocks[b].begin)
        BY ObjectFacts DEF BlocksHold
      <4>2. \A o \in R : Page(o) = blocks[b].begin
        BY ObjectFacts
      <4> QED
        BY <4>1, <4>2 DEF PutAt
    <3> QED
      BY <1>5, <2>1, <3>1
  <2>2. CASE i # b
    <3>1. new[i] = blocks[i] /\ blocks[i].begin # blocks[b].begin
      BY <1>2, <1>5, <2>2
    <3>2. PutAt(S, blocks[i].begin) = PutAt(P, blocks[i].begin)
      <4>1. \A o \in PageObjs(blocks[b].begin) : Page(o) # blocks[i].begin
        BY <3>1, ObjectFacts
      <4> QED
        BY <4>1 DEF PutAt
    <3> QED
      BY <1>5, <3>1, <3>2 DEF BlocksHold
  <2> QED
    BY <2>1, <2>2
<1>7. S \subseteq Objects /\ \A o \in S : Page(o) \in Begins(new)
  <2>1. \A o \in R : Page(o) = blocks[b].begin
    BY ObjectFacts
  <2>2. blocks[b].begin \in Begins(new)
    BY <1>5 DEF Begins
  <2> QED
    BY <1>3, <1>5, <2>1, <2>2 DEF BlocksHold
<1> QED
  BY <1>5, <1>6, <1>7 DEF BlocksHold

LEMMA RemovedAt ==
  ASSUME NEW S, NEW q \in Seq(S), NEW b \in 1..Len(q)
  PROVE  /\ RemoveAt(q, b) \in Seq(S) /\ Len(RemoveAt(q, b)) = Len(q) - 1
         /\ \A i \in 1..Len(q) - 1 : RemoveAt(q, b)[i] = IF i < b THEN q[i] ELSE q[i + 1]
<1> DEFINE m == Len(q)
           x == SubSeq(q, 1, b - 1)
           y == SubSeq(q, b + 1, m)
<1>1. m \in Nat /\ \A i \in 1..m : q[i] \in S
  BY LenProperties, ElementOfSeq
<1>2. x \in Seq(S) /\ Len(x) = b - 1 /\ \A i \in 1..b - 1 : x[i] = q[i]
  <2>1. \A i \in 1..b - 1 : q[i] \in S
    BY <1>1
  <2>2. /\ x \in Seq(S) /\ Len(x) = (IF 1 <= b - 1 THEN (b - 1) - 1 + 1 ELSE 0)
        /\ \A i \in 1..(b - 1) - 1 + 1 : x[i] = q[1 + i - 1]
    BY <1>1, <2>1, SubSeqProperties
  <2> HIDE DEF x
  <2>3. Len(x) = b - 1
    BY <1>1, <2>2
  <2>4. ASSUME NEW i \in 1..b - 1 PROVE x[i] = q[i]
    <3>1. i \in 1..(b - 1) - 1 + 1 /\ 1 + i - 1 = i
      BY <1>1
    <3> QED
      BY <2>2, <3>1
  <2> QED
    BY <2>2, <2>3, <2>4
<1>3. y \in Seq(S) /\ Len(y) = m - b /\ \A i \in 1..m - b : y[i] = q[b + i]
  <2>1. \A i \in b + 1..m : q[i] \in S
    BY <1>1
  <2>2. /\ y \in Seq(S) /\ Len(y) = (IF b + 1 <= m THEN m - (b + 1) + 1 ELSE 0)
        /\ \A i \in 1..m - (b + 1) + 1 : y[i] = q[(b + 1) + i - 1]
    BY <1>1, <2>1, SubSeqProperties
  <2> HIDE DEF y
  <2>3. Len(y) = m - b
    BY <1>1, <2>2
  <2>4. ASSUME NEW i \in 1..m - b PROVE y[i] = q[b + i]
    <3>1. i \in 1..m - (b + 1) + 1 /\ (b + 1) + i - 1 = b + i
      BY <1>1
    <3> QED
      BY <2>2, <3>1
  <2> QED
    BY <2>2, <2>3, <2>4
<1>4. RemoveAt(q, b) = x \o y
  BY DEF RemoveAt
<1> DEFINE r == RemoveAt(q, b)
<1> HIDE DEF x, y, m, r
<1>5. /\ r \in Seq(S) /\ Len(r) = (b - 1) + (m - b)
      /\ \A i \in 1..(b - 1) + (m - b) : r[i] = IF i <= b - 1 THEN x[i] ELSE y[i - (b - 1)]
  BY <1>2, <1>3, <1>4, ConcatProperties DEF r
<1>6. ASSUME NEW i \in 1..m - 1 PROVE r[i] = IF i < b THEN q[i] ELSE q[i + 1]
  <2>1. i \in 1..(b - 1) + (m - b)
    BY <1>1
  <2>2. CASE i < b
    <3>1. i \in 1..b - 1 /\ i <= b - 1
      BY <2>2
    <3> QED
      BY <1>2, <1>5, <2>1, <2>2, <3>1
  <2>3. CASE ~(i < b)
    <3>1. ~(i <= b - 1) /\ i - (b - 1) \in 1..m - b /\ b + (i - (b - 1)) = i + 1
      BY <1>1, <2>3
    <3>2. r[i] = y[i - (b - 1)]
      BY <1>5, <2>1, <3>1
    <3> QED
      BY <1>3, <2>3, <3>1, <3>2
  <2> QED
    BY <2>2, <2>3
<1>7. Len(r) = m - 1
  BY <1>1, <1>5
<1> QED
  BY <1>5, <1>6, <1>7 DEF r, m

LEMMA InsertedAt ==
  ASSUME NEW S, NEW q \in Seq(S), NEW l \in 0..Len(q), NEW e \in S
  PROVE  /\ InsertAt(q, l + 1, e) \in Seq(S) /\ Len(InsertAt(q, l + 1, e)) = Len(q) + 1
         /\ \A i \in 1..Len(q) + 1 :
              InsertAt(q, l + 1, e)[i] = IF i <= l THEN q[i]
                                         ELSE IF i = l + 1 THEN e ELSE q[i - 1]
<1> DEFINE m == Len(q)
           x == SubSeq(q, 1, (l + 1) - 1)
           y == SubSeq(q, l + 1, m)
           w == x \o <<e>>
<1>1. m \in Nat /\ \A i \in 1..m : q[i] \in S
  BY LenProperties, ElementOfSeq
<1>2. x \in Seq(S) /\ Len(x) = l /\ \A i \in 1..l : x[i] = q[i]
  <2>0. (l + 1) - 1 = l
    BY <1>1
  <2>1. \A i \in 1..l : q[i] \in S
    BY <1>1
  <2>2. /\ x \in Seq(S) /\ Len(x) = (IF 1 <= l THEN l - 1 + 1 ELSE 0)
        /\ \A i \in 1..l - 1 + 1 : x[i] = q[1 + i - 1]
    BY <1>1, <2>0, <2>1, SubSeqProperties
  <2> HIDE DEF x
  <2>3. Len(x) = l
    BY <1>1, <2>2
  <2>4. ASSUME NEW i \in 1..l PROVE x[i] = q[i]
    <3>1. i \in 1..l - 1 + 1 /\ 1 + i - 1 = i
      BY <1>1
    <3> QED
      BY <2>2, <3>1
  <2> QED
    BY <2>2, <2>3, <2>4
<1>3. y \in Seq(S) /\ Len(y) = m - l /\ \A i \in 1..m - l : y[i] = q[l + i]
  <2>1. \A i \in l + 1..m : q[i] \in S
    BY <1>1
  <2>2. /\ y \in Seq(S) /\ Len(y) = (IF l + 1 <= m THEN m - (l + 1) + 1 ELSE 0)
        /\ \A i \in 1..m - (l + 1) + 1 : y[i] = q[(l + 1) + i - 1]
    BY <1>1, <2>1, SubSeqProperties
  <2> HIDE DEF y
  <2>3. Len(y) = m - l
    BY <1>1, <2>2
  <2>4. ASSUME NEW i \in 1..m - l PROVE y[i] = q[l + i]
    <3>1. i \in 1..m - (l + 1) + 1 /\ (l + 1) + i - 1 = l + i
      BY <1>1
    <3> QED
      BY <2>2, <3>1
  <2> QED
    BY <2>2, <2>3, <2>4
<1>4. InsertAt(q, l + 1, e) = w \o y
  BY DEF InsertAt
<1>5. <<e>> \in Seq(S) /\ Len(<<e>>) = 1 /\ <<e>>[1] = e
  OBVIOUS
<1> DEFINE r == InsertAt(q, l + 1, e)
<1> HIDE DEF x, y, m, r
<1>6. /\ w \in Seq(S) /\ Len(w) = l + 1
      /\ \A i \in 1..l + 1 : w[i] = IF i <= l THEN x[i] ELSE <<e>>[i - l]
  BY <1>2, <1>5, ConcatProperties
<1> HIDE DEF w
<1>7. /\ r \in Seq(S) /\ Len(r) = (l + 1) + (m - l)
      /\ \A i \in 1..(l + 1) + (m - l) : r[i] = IF i <= l + 1 THEN w[i] ELSE y[i - (l + 1)]
  <2>1. /\ r \in Seq(S) /\ Len(r) = Len(w) + Len(y)
        /\ \A i \in 1..Len(w) + Len(y) : r[i] = IF i <= Len(w) THEN w[i] ELSE y[i - Len(w)]
    <3>1. r = w \o y /\ w \in Seq(S) /\ y \in Seq(S)
      BY <1>3, <1>4, <1>6, Zenon DEF r
    <3> QED
      BY <3>1, ConcatProperties, Zenon
  <2>2. Len(w) = l + 1 /\ Len(y) = m - l
    BY <1>3, <1>6
  <2> QED
    BY <2>1, <2>2, Zenon
<1>8. ASSUME NEW i \in 1..m + 1
      PROVE  r[i] = IF i <= l THEN q[i] ELSE IF i = l + 1 THEN e ELSE q[i - 1]
  <2>1. i \in 1..(l + 1) + (m - l)
    BY <1>1
  <2>2. CASE i <= l
    <3>1. i \in 1..l + 1 /\ i <= l + 1 /\ i \in 1..l
      BY <1>1, <2>2
    <3>2. r[i] = w[i] /\ w[i] = x[i]
      BY <1>6, <1>7, <2>1, <2>2, <3>1
    <3> QED
      BY <1>2, <2>2, <3>1, <3>2
  <2>3. CASE i = l + 1
    <3>1. i \in 1..l + 1 /\ i <= l + 1 /\ ~(i <= l) /\ i - l = 1
      BY <1>1, <2>3
    <3>2. r[i] = w[i] /\ w[i] = <<e>>[i - l]
      BY <1>6, <1>7, <2>1, <3>1
    <3> QED
      BY <1>5, <2>3, <3>1, <3>2
  <2>4. CASE i > l + 1
    <3>1. ~(i <= l + 1) /\ ~(i <= l) /\ i # l + 1 /\ i - (l + 1) \in 1..m - l
          /\ l + (i - (l + 1)) = i - 1
      BY <1>1, <2>4
    <3>2. r[i] = y[i - (l + 1)]
      BY <1>7, <2>1, <3>1
    <3> QED
      BY <1>3, <3>1, <3>2
  <2> QED
    BY <1>1, <2>2, <2>3, <2>4
<1>9. Len(r) = m + 1
  BY <1>1, <1>7
<1> QED
  BY <1>7, <1>8, <1>9 DEF r, m


-----------------------------------------------------------------------------
(***************************************************************************)
(* What objpool_put does to the pool                                       *)
(***************************************************************************)

LEMMA FullPage ==
  ASSUME NEW blocks, NEW P, BlocksHold(blocks, P), NEW o \in Objects, o \notin P,
         NEW b \in 1..Len(blocks), blocks[b].begin = Page(o),
         Len(blocks[b].putq) = BlockObjs - 1
  PROVE  /\ PageObjs(Page(o)) \subseteq P \cup {o}
         /\ Cardinality(P \ PageObjs(Page(o))) = Cardinality(P) + 1 - BlockObjs
<1> DEFINE page == Page(o)
           R == PutAt(P, page)
<1>1. /\ IsFiniteSet(PageObjs(page)) /\ Cardinality(PageObjs(page)) = BlockObjs
      /\ o \in PageObjs(page) /\ BlockObjs \in Nat \ {0} /\ P \subseteq Objects
  BY ObjectFacts DEF BlocksHold
<1>2. R \subseteq PageObjs(page) /\ o \notin R /\ R \subseteq P
  BY <1>1, ObjectFacts DEF PutAt
<1>3. IsFiniteSet(R) /\ Cardinality(R) = BlockObjs - 1
  BY ListsLen DEF BlocksHold
<1> HIDE DEF R
<1>4. Cardinality(R \cup {o}) = BlockObjs
  <2>1. Cardinality(R \cup {o}) = Cardinality(R) + 1
    BY <1>2, <1>3, FS_AddElement
  <2>2. (BlockObjs - 1) + 1 = BlockObjs
    BY <1>1
  <2> QED
    BY <1>3, <2>1, <2>2
<1>5. R \cup {o} = PageObjs(page)
  BY <1>1, <1>2, <1>4, FS_Subset
<1>6. P \cap PageObjs(page) = R
  BY <1>2, <1>5
<1>7. IsFiniteSet(P) /\ Cardinality(P) \in Nat
  BY <1>1, ObjectFacts, FS_Subset, FS_CardinalityType
<1>8. Cardinality(P \ PageObjs(page)) = Cardinality(P) - Cardinality(R)
  BY <1>6, <1>7, FS_Difference
<1>9. PageObjs(page) \subseteq P \cup {o}
  BY <1>2, <1>5
<1> QED
  BY <1>1, <1>3, <1>7, <1>8, <1>9

\* A block is freed.
LEMMA BlockFreed ==
  ASSUME NEW blocks, NEW P, BlocksHold(blocks, P), NEW b \in 1..Len(blocks)
  PROVE  LET new == RemoveAt(blocks, b)
             page == blocks[b].begin
         IN  BlocksHold(new, P \ PageObjs(page)) /\ Begins(new) = Begins(blocks) \ {page}
<1> DEFINE new == RemoveAt(blocks, b)
           page == blocks[b].begin
           S == P \ PageObjs(page)
           m == Len(blocks)
           at(i) == IF i < b THEN i ELSE i + 1
<1>1. /\ blocks \in Seq(BlockType) /\ m \in Nat
      /\ \A i, j \in 1..m : blocks[i].begin = blocks[j].begin => i = j
  BY SortedFacts DEF BlocksHold, Sorted
<1>2. /\ new \in Seq(BlockType) /\ Len(new) = m - 1
      /\ \A i \in 1..m - 1 : new[i] = IF i < b THEN blocks[i] ELSE blocks[i + 1]
  BY <1>1, RemovedAt
<1> HIDE DEF new, page, m
<1>3. \A i \in 1..Len(new) : at(i) \in 1..m /\ at(i) # b /\ new[i] = blocks[at(i)]
  BY <1>1, <1>2 DEF m
<1>4. \A i, j \in 1..Len(new) : i < j => at(i) < at(j)
  BY <1>1, <1>2 DEF m
<1>5. ASSUME NEW k \in 1..m, k # b
      PROVE  \E i \in 1..Len(new) : at(i) = k
  <2>1. CASE k < b
    <3>1. k \in 1..Len(new) /\ at(k) = k
      BY <1>1, <1>2, <2>1 DEF m
    <3> QED
      BY <3>1
  <2>2. CASE ~(k < b)
    <3>1. k - 1 \in 1..Len(new) /\ at(k - 1) = k
      BY <1>1, <1>2, <1>5, <2>2 DEF m
    <3> QED
      BY <3>1
  <2> QED
    BY <2>1, <2>2
<1> HIDE DEF at
<1>6. Sorted(new)
  BY <1>2, <1>3, <1>4 DEF BlocksHold, Sorted, m
<1>7. \A i \in 1..Len(new) : new[i].begin # page
  BY <1>1, <1>3 DEF page, m
<1>8. Begins(new) = Begins(blocks) \ {page}
  <2>1. Begins(new) \subseteq Begins(blocks) \ {page}
    BY <1>3, <1>7 DEF Begins, m
  <2>2. ASSUME NEW k \in 1..m, blocks[k].begin # page PROVE blocks[k].begin \in Begins(new)
    <3>1. k # b
      BY <2>2 DEF page
    <3>2. PICK i \in 1..Len(new) : at(i) = k
      BY <1>5, <3>1
    <3> QED
      BY <1>3, <3>2 DEF Begins
  <2> QED
    BY <2>1, <2>2 DEF Begins, m
<1>9. ASSUME NEW i \in 1..Len(new)
      PROVE  Lists(new[i].putq, PutAt(S, new[i].begin)) /\ Len(new[i].putq) < BlockObjs
  <2>1. \A o \in PageObjs(page) : Page(o) # new[i].begin
    BY <1>7, ObjectFacts
  <2>2. PutAt(S, new[i].begin) = PutAt(P, new[i].begin)
    BY <2>1 DEF PutAt
  <2> QED
    BY <1>3, <2>2 DEF BlocksHold, m
<1>10. S \subseteq Objects /\ \A o \in S : Page(o) \in Begins(new)
  <2>1. \A o \in Objects : Page(o) = page => o \in PageObjs(page)
    BY ObjectFacts
  <2> QED
    BY <1>8, <2>1 DEF BlocksHold
<1>11. BlocksHold(new, S)
  BY <1>6, <1>9, <1>10 DEF BlocksHold
<1> QED
  BY <1>8, <1>11 DEF new, page

\* objpool_put: the object is put back, or its block is freed.
LEMMA PutKeeps ==
  ASSUME NEW s, NEW C, NEW P, IsPool(s, C, P), NEW o \in Objects, o \notin P,
         Page(o) \in Taken(s)
  PROVE  \/ IsPool(Put(s, o), C, P \cup {o}) /\ Taken(Put(s, o)) = Taken(s)
         \/ /\ IsPool(Put(s, o), C, P \ PageObjs(Page(o)))
            /\ Taken(Put(s, o)) = Taken(s) \ {Page(o)}
            /\ PageObjs(Page(o)) \subseteq P \cup {o}
<1>1. /\ s = [blocks |-> s.blocks, nput |-> s.nput, xq |-> s.xq, astray |-> s.astray]
      /\ s.astray \in BOOLEAN /\ IsFiniteSet(P) /\ Cardinality(P) \in Nat
      /\ s.nput = Cardinality(P) /\ P \subseteq Objects /\ C \in SUBSET Objects
      /\ BlocksHold(s.blocks, P) /\ Lists(s.xq, C) /\ Taken(s) = Begins(s.blocks)
  BY PoolShape, TakenIs
<1>2. PICK b \in 1..Len(s.blocks) : s.blocks[b].begin = Page(o)
  BY <1>1 DEF Begins
<1>3. BlockOf(s.blocks, o) = b
  BY <1>1, <1>2, BlockFound DEF BlocksHold
<1>4. DOMAIN s.blocks = 1..Len(s.blocks) /\ BlockObjs \in Nat \ {0}
  BY <1>1, SortedFacts, ObjectFacts DEF BlocksHold
<1> DEFINE r == Put(s, o)
<1>5. CASE Len(s.blocks[b].putq) = BlockObjs - 1
  <2> DEFINE new == RemoveAt(s.blocks, b)
  <2>1. r = [s EXCEPT !.blocks = new, !.nput = @ + 1 - BlockObjs]
    BY <1>3, <1>5 DEF Put
  <2>2. r = [blocks |-> new, nput |-> s.nput + 1 - BlockObjs, xq |-> s.xq, astray |-> s.astray]
    <3> HIDE DEF r, new
    <3> QED
      BY <1>1, <2>1
  <2>3. BlocksHold(new, P \ PageObjs(Page(o))) /\ Begins(new) = Begins(s.blocks) \ {Page(o)}
    BY <1>1, <1>2, BlockFreed
  <2>4. /\ PageObjs(Page(o)) \subseteq P \cup {o}
        /\ Cardinality(P \ PageObjs(Page(o))) = Cardinality(P) + 1 - BlockObjs
    BY <1>1, <1>2, <1>5, FullPage
  <2> HIDE DEF r, new
  <2>5. IsPool(r, C, P \ PageObjs(Page(o)))
    BY <1>1, <2>2, <2>3, <2>4, PoolIs
  <2>6. Taken(r) = Begins(new)
    BY <2>2, <2>5, TakenIs
  <2> QED
    BY <1>1, <2>3, <2>4, <2>5, <2>6 DEF r
<1>6. CASE Len(s.blocks[b].putq) # BlockObjs - 1
  <2> DEFINE q == <<o>> \o s.blocks[b].putq
             new == [s.blocks EXCEPT ![b].putq = q]
             R == PutAt(P, Page(o)) \cup {o}
  <2>1. r = [s EXCEPT !.blocks = new, !.nput = @ + 1]
    <3>1. r = [s EXCEPT !.blocks[b].putq = <<o>> \o @, !.nput = @ + 1]
      BY <1>3, <1>6 DEF Put
    <3> HIDE DEF r
    <3> QED
      BY <1>1, <1>4, <3>1
  <2>2. r = [blocks |-> new, nput |-> s.nput + 1, xq |-> s.xq, astray |-> s.astray]
    <3> HIDE DEF r, new
    <3> QED
      BY <1>1, <2>1
  <2>3. /\ Lists(s.blocks[b].putq, PutAt(P, Page(o))) /\ Len(s.blocks[b].putq) < BlockObjs
        /\ Len(s.blocks[b].putq) \in Nat
    <3>1. Lists(s.blocks[b].putq, PutAt(P, Page(o))) /\ Len(s.blocks[b].putq) < BlockObjs
      BY <1>1, <1>2 DEF BlocksHold
    <3> QED
      BY <3>1, ListFacts
  <2>4. Lists(q, R) /\ Len(q) < BlockObjs
    <3>1. Lists(<<o>>, {o}) /\ {o} \cap PutAt(P, Page(o)) = {}
      BY OneListed DEF PutAt
    <3>2. Lists(q, {o} \cup PutAt(P, Page(o)))
      BY <2>3, <3>1, ListsConcat
    <3>3. Lists(q, R)
      <4>1. R = {o} \cup PutAt(P, Page(o))
        OBVIOUS
      <4> QED
        BY <3>2, <4>1, Zenon
    <3>4. /\ IsFiniteSet(PutAt(P, Page(o))) /\ Cardinality(R) = Len(q)
          /\ Cardinality(PutAt(P, Page(o))) = Len(s.blocks[b].putq)
      BY <2>3, <3>3, ListsLen
    <3>5. Cardinality(R) = Cardinality(PutAt(P, Page(o))) + 1
      <4>1. o \notin PutAt(P, Page(o))
        BY DEF PutAt
      <4> QED
        BY <3>4, <4>1, FS_AddElement
    <3> QED
      BY <1>4, <1>6, <2>3, <3>3, <3>4, <3>5
  <2>5. R \subseteq PageObjs(Page(o))
    BY <1>1, ObjectFacts DEF PutAt
  <2>6. (P \ PageObjs(Page(o))) \cup R = P \cup {o}
    BY <1>1, <2>5, ObjectFacts DEF PutAt
  <2> HIDE DEF q, R
  <2>7. BlocksHold(new, P \cup {o}) /\ Begins(new) = Begins(s.blocks)
    <3>1. BlocksHold(s.blocks, P) /\ R \subseteq PageObjs(s.blocks[b].begin)
      BY <1>1, <1>2, <2>5
    <3>0. new = NewPutq(s.blocks, b, q)
      BY DEF NewPutq
    <3> HIDE DEF new
    <3>2. BlocksHold(new, (P \ PageObjs(s.blocks[b].begin)) \cup R)
      BY <1>2, <2>4, <3>0, <3>1, BlockChanges
    <3>3. q \in Seq(Objects)
      <4>1. R \subseteq Objects
        BY <1>1 DEF R, PutAt
      <4> QED
        BY <2>4, <4>1, ListFacts
    <3>4. Begins(new) = Begins(s.blocks)
      BY <1>1, <3>0, <3>3, OthersKept
    <3> QED
      BY <1>2, <2>6, <3>2, <3>4
  <2>8. Cardinality(P \cup {o}) = s.nput + 1
    BY <1>1, FS_AddElement
  <2> HIDE DEF r, new
  <2>9. IsPool(r, C, P \cup {o})
    BY <1>1, <2>2, <2>7, <2>8, PoolIs
  <2>10. Taken(r) = Begins(new)
    BY <2>2, <2>9, TakenIs
  <2> QED
    BY <1>1, <2>7, <2>9, <2>10 DEF r
<1> QED
  BY <1>5, <1>6

\* The pool s2 is s after the objects R were put back and some blocks freed.
Given(s, s2, C, P, R) ==
    \E F \in SUBSET Pages :
        /\ IsPool(s2, C, {o \in P \cup R : Page(o) \notin F})
        /\ Taken(s2) = Taken(s) \ F
        /\ \A page \in F : PageObjs(page) \subseteq P \cup R

LEMMA GivenOne ==
  ASSUME NEW s, NEW a, NEW C, NEW P, NEW R, Given(s, a, C, P, R),
         NEW o \in Objects, o \notin P \cup R, Page(o) \in Taken(s)
  PROVE  Given(s, Put(a, o), C, P, R \cup {o})
<1>1. PICK F \in SUBSET Pages :
        /\ IsPool(a, C, {x \in P \cup R : Page(x) \notin F})
        /\ Taken(a) = Taken(s) \ F
        /\ \A page \in F : PageObjs(page) \subseteq P \cup R
  BY DEF Given
<1> DEFINE V == {x \in P \cup R : Page(x) \notin F}
           r == Put(a, o)
<1>2. Page(o) \in Pages /\ o \in PageObjs(Page(o)) /\ V \subseteq Objects
  <2>1. V \subseteq Objects
    BY <1>1, PoolShape
  <2> QED
    BY <2>1, ObjectFacts
<1>3. Page(o) \notin F
  BY <1>1, <1>2
<1>4. \/ IsPool(r, C, V \cup {o}) /\ Taken(r) = Taken(a)
      \/ /\ IsPool(r, C, V \ PageObjs(Page(o)))
         /\ Taken(r) = Taken(a) \ {Page(o)}
         /\ PageObjs(Page(o)) \subseteq V \cup {o}
  <2>1. o \notin V /\ Page(o) \in Taken(a)
    BY <1>1, <1>3
  <2> HIDE DEF V
  <2> QED
    BY <1>1, <2>1, PutKeeps DEF V
<1>5. CASE IsPool(r, C, V \cup {o}) /\ Taken(r) = Taken(a)
  <2>1. V \cup {o} = {x \in P \cup (R \cup {o}) : Page(x) \notin F}
    BY <1>3
  <2>2. Taken(r) = Taken(s) \ F /\ \A page \in F : PageObjs(page) \subseteq P \cup (R \cup {o})
    BY <1>1, <1>5
  <2> HIDE DEF V, r
  <2>3. IsPool(r, C, {x \in P \cup (R \cup {o}) : Page(x) \notin F})
    BY <1>5, <2>1, Zenon
  <2> QED
    BY <2>2, <2>3, Zenon DEF Given, r
<1>6. CASE /\ IsPool(r, C, V \ PageObjs(Page(o)))
           /\ Taken(r) = Taken(a) \ {Page(o)}
           /\ PageObjs(Page(o)) \subseteq V \cup {o}
  <2> DEFINE G == F \cup {Page(o)}
  <2>1. \A x \in PageObjs(Page(o)) : Page(x) = Page(o)
    BY <1>2, ObjectFacts
  <2>2. \A x \in Objects : Page(x) = Page(o) => x \in PageObjs(Page(o))
    BY ObjectFacts
  <2>3. V \ PageObjs(Page(o)) = {x \in P \cup (R \cup {o}) : Page(x) \notin G}
    BY <1>2, <2>1, <2>2
  <2>4. \A page \in G : PageObjs(page) \subseteq P \cup (R \cup {o})
    BY <1>1, <1>6
  <2>5. G \in SUBSET Pages /\ Taken(r) = Taken(s) \ G
    BY <1>1, <1>2, <1>6
  <2> HIDE DEF V, r, G
  <2>6. IsPool(r, C, {x \in P \cup (R \cup {o}) : Page(x) \notin G})
    BY <1>6, <2>3, Zenon
  <2> QED
    BY <2>4, <2>5, <2>6, Zenon DEF Given, r
<1> QED
  BY <1>4, <1>5, <1>6

\* smcache_destroy_q
LEMMA DestroyedKeeps ==
  ASSUME NEW s, NEW C, NEW P, IsPool(s, C, P), NEW rmq, NEW R \in SUBSET Objects,
         Lists(rmq, R), R \cap P = {}, \A o \in R : Page(o) \in Taken(s)
  PROVE  Given(s, Destroyed(s, rmq), C, P, R)
<1> DEFINE n == Len(rmq)
           Firsts(k) == {rmq[j] : j \in 1..k}
<1>1. n \in Nat /\ DOMAIN rmq = 1..n /\ \A i \in 1..n : rmq[i] \in R
  BY ListFacts
<1>2. PICK h : PutsOf(h, n, s, rmq)
  BY <1>1, PutSteps
<1> HIDE DEF n
<1> DEFINE Q == {k \in 0..n : Given(s, h[k], C, P, Firsts(k))}
<1>3. 0 \in Q
  <2>1. Firsts(0) = {} /\ 0 \in 0..n
    BY <1>1
  <2>2. P = {o \in P \cup {} : Page(o) \notin {}}
    OBVIOUS
  <2>3. Given(s, s, C, P, {})
    <3>1. {} \in SUBSET Pages /\ Taken(s) = Taken(s) \ {} /\ \A page \in {} : TRUE
      OBVIOUS
    <3> QED
      BY <2>2, <3>1 DEF Given
  <2> QED
    BY <1>2, <2>1, <2>3 DEF PutsOf
<1>4. ASSUME NEW i \in 1..n, i - 1 \in Q PROVE i \in Q
  <2>1. rmq[i] \in Objects /\ rmq[i] \notin P \cup Firsts(i - 1) /\ Page(rmq[i]) \in Taken(s)
    <3>1. \A j \in 1..(i - 1) : j \in 1..n /\ j # i
      BY <1>1
    <3>2. \A j \in 1..(i - 1) : rmq[j] # rmq[i]
      BY <3>1 DEF Lists, Distinct, n
    <3> QED
      BY <1>1, <3>2
  <2>2. Firsts(i) = Firsts(i - 1) \cup {rmq[i]}
    <3>1. 1..i = (1..(i - 1)) \cup {i}
      BY <1>1
    <3> QED
      BY <3>1
  <2>3. h[i] = Put(h[i - 1], rmq[i])
    BY <1>2 DEF PutsOf
  <2>4. Given(s, h[i - 1], C, P, Firsts(i - 1))
    BY <1>4
  <2> HIDE DEF Firsts
  <2>5. Given(s, h[i], C, P, Firsts(i))
    BY <2>1, <2>2, <2>3, <2>4, GivenOne
  <2>6. i \in 0..n
    OBVIOUS
  <2> QED
    BY <2>5, <2>6
<1>5. n \in Q
  <2> HIDE DEF Q
  <2> QED
    BY <1>1, <1>3, <1>4, UpTo
<1>6. Firsts(n) = R
  BY <1>1 DEF Lists, n
<1> QED
  BY <1>2, <1>5, <1>6 DEF PutsOf


-----------------------------------------------------------------------------
(***************************************************************************)
(* What objpool_get does to the pool: a new block                          *)
(***************************************************************************)

\* The objects of a new block that go to the cache.
LEMMA NewObjects ==
  ASSUME NEW page \in Pages
  PROVE  Lists(Reverse([i \in 1..BlockObjs - 1 |-> <<page, i>>]),
               PageObjs(page) \ {<<page, 0>>})
<1> DEFINE n == BlockObjs - 1
           f == [i \in 1..n |-> <<page, i>>]
           q == Reverse(f)
           S == PageObjs(page) \ {<<page, 0>>}
<1>1. n \in Nat /\ BlockObjs = n + 1
  BY ObjectFacts
<1>2. S = {page} \X (1..n)
  <2>1. ASSUME NEW i \in 0..n, i # 0 PROVE i \in 1..n
    BY <1>1, <2>1
  <2>2. \A i \in 1..n : i \in 0..n /\ i # 0
    BY <1>1
  <2> HIDE DEF n
  <2>3. PageObjs(page) = {page} \X (0..n)
    BY DEF PageObjs, n
  <2>4. \A i \in 0..n : i # 0 => i \in 1..n
    BY <2>1
  <2> QED
    BY <2>2, <2>3, <2>4
<1>3. Len(f) = n /\ DOMAIN f = 1..n
  BY <1>1
<1>4. q = [i \in 1..n |-> <<page, n - i + 1>>]
  <2>1. q = [i \in 1..n |-> f[n - i + 1]]
    <3> HIDE DEF f, n
    <3> QED
      BY <1>3, Zenon DEF Reverse, q
  <2>2. \A i \in 1..n : n - i + 1 \in 1..n
    BY <1>1
  <2> QED
    BY <2>1, <2>2
<1> HIDE DEF q, f, n, S
<1>5. \A i \in 1..n : n - i + 1 \in 1..n /\ n - (n - i + 1) + 1 = i
  BY <1>1
<1>6. \A i \in 1..n : q[i] = <<page, n - i + 1>> /\ q[i] \in S
  BY <1>2, <1>4, <1>5
<1>7. Len(q) = n /\ q \in Seq(S)
  <2>1. q \in [1..n -> S]
    BY <1>4, <1>6
  <2> QED
    BY <1>1, <2>1
<1>8. Distinct(q)
  <2> SUFFICES ASSUME NEW i \in 1..n, NEW j \in 1..n, q[i] = q[j] PROVE i = j
    BY <1>7 DEF Distinct
  <2>1. n - i + 1 = n - j + 1
    BY <1>6
  <2> QED
    BY <1>1, <2>1
<1>9. ASSUME NEW x \in S PROVE \E i \in 1..n : q[i] = x
  <2>1. PICK k \in 1..n : x = <<page, k>>
    BY <1>2
  <2>2. n - k + 1 \in 1..n /\ n - (n - k + 1) + 1 = k
    BY <1>5
  <2>3. q[n - k + 1] = x
    BY <1>6, <2>1, <2>2
  <2> QED
    BY <2>2, <2>3
<1>10. Lists(q, S)
  BY <1>7, <1>8, <1>9 DEF Lists
<1> QED
  BY <1>10 DEF q, f, n, S

LEMMA BlockInserted ==
  ASSUME NEW blocks \in Seq(BlockType), NEW l \in 0..Len(blocks), NEW e \in BlockType
  PROVE  /\ InsertAt(blocks, l + 1, e) \in Seq(BlockType)
         /\ Len(InsertAt(blocks, l + 1, e)) = Len(blocks) + 1
         /\ \A i \in 1..Len(blocks) + 1 :
              InsertAt(blocks, l + 1, e)[i] = IF i <= l THEN blocks[i]
                                              ELSE IF i = l + 1 THEN e ELSE blocks[i - 1]
BY InsertedAt

NewBlock(page) == [begin |-> page, putq |-> <<>>]

\* A block is put in its place.
LEMMA BlockPlaced ==
  ASSUME NEW blocks, NEW P, BlocksHold(blocks, P), NEW page \in Pages,
         NEW l, Between(blocks, page, l), NEW e, e = NewBlock(page)
  PROVE  /\ BlocksHold(InsertAt(blocks, l + 1, e), P)
         /\ Begins(InsertAt(blocks, l + 1, e)) = Begins(blocks) \cup {page}
<1> DEFINE new == InsertAt(blocks, l + 1, e)
           m == Len(blocks)
<1>1. /\ blocks \in Seq(BlockType) /\ m \in Nat /\ l \in 0..m /\ l \in Nat
      /\ \A i \in 1..m : /\ i <= l => blocks[i].begin < page
                         /\ i > l => page < blocks[i].begin
      /\ \A i \in 1..m : blocks[i].begin \in Nat
      /\ \A i, j \in 1..m : i < j => blocks[i].begin < blocks[j].begin
  BY SortedFacts DEF BlocksHold, Sorted, Between
<1>2. e \in BlockType /\ e.begin = page /\ e.putq = <<>> /\ page \in Nat
  BY ObjAssumption DEF BlockType, ObjAssumption, NewBlock
<1>3. /\ new \in Seq(BlockType) /\ Len(new) = m + 1
      /\ \A i \in 1..m + 1 : new[i] = IF i <= l THEN blocks[i]
                                      ELSE IF i = l + 1 THEN e ELSE blocks[i - 1]
  <2>1. blocks \in Seq(BlockType) /\ l \in 0..Len(blocks) /\ e \in BlockType
    BY <1>1, <1>2
  <2> QED
    BY <2>1, BlockInserted, Zenon
<1> HIDE DEF new, m
<1>4. \A i \in 1..m + 1 : \/ i <= l /\ i \in 1..m /\ new[i] = blocks[i]
                          \/ i = l + 1 /\ new[i] = e
                          \/ i > l + 1 /\ i - 1 \in 1..m /\ i - 1 > l /\ new[i] = blocks[i - 1]
  BY <1>1, <1>3
<1>5. Sorted(new)
  <2> SUFFICES ASSUME NEW i \in 1..m + 1, NEW j \in 1..m + 1, i < j
               PROVE  new[i].begin < new[j].begin
    BY <1>3 DEF Sorted
  <2>1. CASE i <= l /\ i \in 1..m /\ new[i] = blocks[i]
    <3>1. CASE j <= l /\ j \in 1..m /\ new[j] = blocks[j]
      BY <1>1, <2>1, <3>1
    <3>2. CASE j = l + 1 /\ new[j] = e
      BY <1>1, <1>2, <2>1, <3>2
    <3>3. CASE j > l + 1 /\ j - 1 \in 1..m /\ j - 1 > l /\ new[j] = blocks[j - 1]
      <4>1. i < j - 1
        BY <1>1, <2>1, <3>3
      <4> QED
        BY <1>1, <2>1, <3>3, <4>1
    <3> QED
      BY <1>4, <3>1, <3>2, <3>3
  <2>2. CASE i = l + 1 /\ new[i] = e
    <3>1. j > l + 1 /\ j # l + 1 /\ ~(j <= l)
      BY <1>1, <2>2
    <3>2. j - 1 \in 1..m /\ j - 1 > l /\ new[j] = blocks[j - 1]
      BY <1>4, <3>1
    <3> QED
      BY <1>1, <1>2, <2>2, <3>2
  <2>3. CASE i > l + 1 /\ i - 1 \in 1..m /\ i - 1 > l /\ new[i] = blocks[i - 1]
    <3>1. j > l + 1 /\ j # l + 1 /\ ~(j <= l) /\ i - 1 < j - 1
      BY <1>1, <2>3
    <3>2. j - 1 \in 1..m /\ j - 1 > l /\ new[j] = blocks[j - 1]
      BY <1>4, <3>1
    <3> QED
      BY <1>1, <2>3, <3>1, <3>2
  <2> QED
    BY <1>4, <2>1, <2>2, <2>3
<1>6. Begins(new) = Begins(blocks) \cup {page}
  <2>1. Begins(new) \subseteq Begins(blocks) \cup {page}
    BY <1>2, <1>3, <1>4 DEF Begins, m
  <2>2. page \in Begins(new)
    <3>1. l + 1 \in 1..m + 1 /\ new[l + 1] = e
      BY <1>1, <1>3
    <3> QED
      BY <1>2, <1>3, <3>1 DEF Begins
  <2>3. ASSUME NEW k \in 1..m PROVE blocks[k].begin \in Begins(new)
    <3>1. CASE k <= l
      <4>1. k \in 1..m + 1 /\ new[k] = blocks[k]
        BY <1>1, <1>3, <3>1
      <4> QED
        BY <1>3, <4>1 DEF Begins
    <3>2. CASE ~(k <= l)
      <4>1. k + 1 \in 1..m + 1 /\ ~(k + 1 <= l) /\ k + 1 # l + 1 /\ (k + 1) - 1 = k
        BY <1>1, <3>2
      <4>2. new[k + 1] = blocks[k]
        BY <1>3, <4>1
      <4> QED
        BY <1>3, <4>1, <4>2 DEF Begins
    <3> QED
      BY <3>1, <3>2
  <2> QED
    BY <2>1, <2>2, <2>3 DEF Begins, m
<1>7. ASSUME NEW i \in 1..m + 1
      PROVE  Lists(new[i].putq, PutAt(P, new[i].begin)) /\ Len(new[i].putq) < BlockObjs
  <2>1. CASE new[i] = e
    <3>1. PutAt(P, page) = {}
      <4>1. \A k \in 1..m : blocks[k].begin # page
        BY <1>1, <1>2
      <4>2. page \notin Begins(blocks)
        BY <4>1 DEF Begins, m
      <4> QED
        BY <4>2 DEF PutAt, BlocksHold
    <3>2. Len(<<>>) < BlockObjs
      BY ObjectFacts
    <3> QED
      BY <1>2, <2>1, <3>1, <3>2, EmptyLists
  <2>2. ASSUME NEW k \in 1..m, new[i] = blocks[k]
        PROVE  Lists(new[i].putq, PutAt(P, new[i].begin)) /\ Len(new[i].putq) < BlockObjs
    BY <2>2 DEF BlocksHold, m
  <2> QED
    BY <1>4, <2>1, <2>2
<1>8. BlocksHold(new, P)
  BY <1>3, <1>5, <1>6, <1>7 DEF BlocksHold
<1> QED
  BY <1>6, <1>8 DEF new

\* objpool_get with a new block
LEMMA WithBlockKeeps ==
  ASSUME NEW s, NEW C, NEW P, IsPool(s, C, P), NEW page \in Pages, page \notin Taken(s),
         PlaceOf(s.blocks, page) # Outside, C \cap PageObjs(page) = {}
  PROVE  /\ IsPool(WithBlock(s, page), C \cup (PageObjs(page) \ {<<page, 0>>}), P)
         /\ Taken(WithBlock(s, page)) = Taken(s) \cup {page}
         /\ WithBlock(s, page).astray = s.astray
<1> DEFINE l == PlaceOf(s.blocks, page)
           e == NewBlock(page)
           q == Reverse([i \in 1..BlockObjs - 1 |-> <<page, i>>])
           N == PageObjs(page) \ {<<page, 0>>}
           r == WithBlock(s, page)
           new == InsertAt(s.blocks, l + 1, e)
           xq == AddQl(s.xq, q)
<1>1. /\ s = [blocks |-> s.blocks, nput |-> s.nput, xq |-> s.xq, astray |-> s.astray]
      /\ s.astray \in BOOLEAN /\ s.nput = Cardinality(P) /\ C \in SUBSET Objects
      /\ BlocksHold(s.blocks, P) /\ Lists(s.xq, C) /\ Taken(s) = Begins(s.blocks)
  BY PoolShape, TakenIs
<1>2. Between(s.blocks, page, l)
  <2>1. Sorted(s.blocks) /\ \A i \in 1..Len(s.blocks) : s.blocks[i].begin # page
    BY <1>1 DEF BlocksHold, Begins
  <2> QED
    BY <2>1, PlaceFound
<1>3. r = [s EXCEPT !.blocks = new, !.xq = xq]
  BY DEF WithBlock, NewBlock
<1>4. Lists(q, N) /\ N \subseteq Objects
  BY NewObjects, ObjectFacts
<1> HIDE DEF l, e, q, r
<1>5. BlocksHold(new, P) /\ Begins(new) = Begins(s.blocks) \cup {page}
  BY <1>1, <1>2, BlockPlaced DEF e
<1>6. Lists(xq, C \cup N) /\ C \cup N \in SUBSET Objects
  <2>1. C \cap N = {}
    OBVIOUS
  <2> HIDE DEF N
  <2> QED
    BY <1>1, <1>4, <2>1, ListsAddQl
<1> HIDE DEF N, new, xq
<1>7. r = [blocks |-> new, nput |-> s.nput, xq |-> xq, astray |-> s.astray]
  BY <1>1, <1>3
<1>8. IsPool(r, C \cup N, P)
  BY <1>1, <1>5, <1>6, <1>7, PoolIs
<1>9. Taken(r) = Begins(new) /\ r.astray = s.astray
  BY <1>7, <1>8, TakenIs
<1> QED
  BY <1>1, <1>5, <1>8, <1>9 DEF r, N

-----------------------------------------------------------------------------
(***************************************************************************)
(* objpool_get takes objects back                                          *)
(***************************************************************************)

\* After the blocks up to k: the objects M were taken back, one of them for the
\* caller, if any was found.
Turn(s, a, C, P, k) ==
    /\ a = [pool |-> a.pool, obj |-> a.obj, inc |-> a.inc] /\ a.inc \in Nat
    /\ Taken(a.pool) = Taken(s) /\ Len(a.pool.blocks) = Len(s.blocks)
    /\ \E M \in SUBSET P :
        /\ IsPool(a.pool, C \cup (M \ {a.obj}), P \ M)
        /\ IF a.obj = NoObject
           THEN /\ M = {} /\ a.inc = 0
                /\ \A b \in 1..k : a.pool.blocks[b].putq = <<>>
           ELSE a.obj \in M

\* What the caller has at the end.
GotBack(s, a, C, P) ==
    /\ Taken(a.pool) = Taken(s)
    /\ \E M \in SUBSET P : a.obj \in M /\ IsPool(a.pool, C \cup (M \ {a.obj}), P \ M)

LEMMA BlockEmptied ==
  ASSUME NEW blocks, NEW V, BlocksHold(blocks, V), NEW b \in 1..Len(blocks),
         NEW new, new = NewPutq(blocks, b, <<>>)
  PROVE  /\ BlocksHold(new, V \ PageObjs(blocks[b].begin))
         /\ Begins(new) = Begins(blocks) /\ Len(new) = Len(blocks)
<1> DEFINE q == <<>>
           R == {}
<1>1. Lists(q, R) /\ R \subseteq PageObjs(blocks[b].begin) /\ Len(q) < BlockObjs
  BY EmptyLists, ObjectFacts
<1>2. new = NewPutq(blocks, b, q) /\ q \in Seq(Objects)
  OBVIOUS
<1> HIDE DEF q, R
<1>3. BlocksHold(new, (V \ PageObjs(blocks[b].begin)) \cup R)
  BY <1>1, <1>2, BlockChanges
<1>4. BlocksHold(new, V \ PageObjs(blocks[b].begin))
  <2>1. V \ PageObjs(blocks[b].begin) = (V \ PageObjs(blocks[b].begin)) \cup R
    BY DEF R
  <2> QED
    BY <1>3, <2>1, Zenon
<1>5. Begins(new) = Begins(blocks) /\ Len(new) = Len(blocks)
  BY <1>2, OthersKept
<1> QED
  BY <1>4, <1>5

TakenOff(s, b, more) ==
    [s EXCEPT !.nput = @ - Len(s.blocks[b].putq), !.xq = AddQl(@, more),
              !.blocks[b].putq = <<>>]

\* r is s after the objects put into block b, R of them for the cache, were taken back.
IsOff(s, r, C, V, b, R) ==
    /\ IsPool(r, C \cup R, V \ PutAt(V, s.blocks[b].begin))
    /\ Taken(r) = Taken(s) /\ Len(r.blocks) = Len(s.blocks)

\* One list is taken back.
LEMMA ListBack ==
  ASSUME NEW s, NEW C, NEW V, IsPool(s, C, V), C \cap V = {}, NEW b \in 1..Len(s.blocks),
         NEW more, NEW R, R \subseteq PutAt(V, s.blocks[b].begin), Lists(more, R),
         NEW r, r = TakenOff(s, b, more)
  PROVE  IsOff(s, r, C, V, b, R)
<1> DEFINE page == s.blocks[b].begin
           W == PutAt(V, page)
           new == NewPutq(s.blocks, b, <<>>)
           xq == AddQl(s.xq, more)
           n == Len(s.blocks[b].putq)
<1>1. /\ s = [blocks |-> s.blocks, nput |-> s.nput, xq |-> s.xq, astray |-> s.astray]
      /\ s.astray \in BOOLEAN /\ IsFiniteSet(V) /\ Cardinality(V) \in Nat
      /\ s.nput = Cardinality(V) /\ V \subseteq Objects /\ C \in SUBSET Objects
      /\ BlocksHold(s.blocks, V) /\ Lists(s.xq, C) /\ Taken(s) = Begins(s.blocks)
  BY PoolShape, TakenIs
<1>2. DOMAIN s.blocks = 1..Len(s.blocks)
  BY <1>1, SortedFacts DEF BlocksHold
<1>3. r = [blocks |-> new, nput |-> s.nput - n, xq |-> xq, astray |-> s.astray]
  <2>1. r = [s EXCEPT !.nput = @ - n, !.xq = xq, !.blocks = new]
    BY <1>1, <1>2 DEF NewPutq, TakenOff
  <2> HIDE DEF new, xq, n
  <2> QED
    BY <1>1, <2>1
<1>4. W \subseteq V /\ R \subseteq W
  BY DEF PutAt
<1>5. V \ PageObjs(page) = V \ W
  BY <1>1, ObjectFacts DEF PutAt
<1>6. BlocksHold(new, V \ W) /\ Begins(new) = Begins(s.blocks)
      /\ Len(new) = Len(s.blocks)
  <2>1. new = NewPutq(s.blocks, b, <<>>) /\ V \ PageObjs(s.blocks[b].begin) = V \ W
    BY <1>5
  <2> HIDE DEF new, W
  <2>2. BlocksHold(new, V \ PageObjs(s.blocks[b].begin))
    BY <1>1, <2>1, BlockEmptied
  <2>3. Begins(new) = Begins(s.blocks) /\ Len(new) = Len(s.blocks)
    BY <1>1, <2>1, <2>2, BlockEmptied
  <2> QED
    BY <2>1, <2>2, <2>3, Zenon
<1>7. Cardinality(V \ W) = s.nput - n
  <2>1. Lists(s.blocks[b].putq, W)
    BY <1>1 DEF BlocksHold
  <2>2. IsFiniteSet(W) /\ Cardinality(W) = n
    BY <2>1, ListsLen
  <2>3. V \cap W = W
    BY <1>4
  <2> HIDE DEF W, n
  <2> QED
    BY <1>1, <2>2, <2>3, FS_Difference
<1>8. Lists(xq, C \cup R) /\ C \cup R \in SUBSET Objects
  <2>1. C \cap R = {} /\ R \subseteq Objects
    BY <1>1, <1>4
  <2> QED
    BY <1>1, <2>1, ListsAddQl
<1> HIDE DEF W, new, xq, n, page
<1>9. IsPool(r, C \cup R, V \ W)
  BY <1>1, <1>3, <1>6, <1>7, <1>8, PoolIs
<1>10. Taken(r) = Begins(new) /\ r.blocks = new
  <2>1. r.blocks = new
    BY <1>3
  <2> QED
    BY <1>9, <2>1, TakenIs
<1> QED
  BY <1>1, <1>6, <1>9, <1>10 DEF IsOff, W, page


-----------------------------------------------------------------------------
(***************************************************************************)
(* What objpool_get does to the pool: objects it takes back                *)
(***************************************************************************)

LEMMA OneTurn ==
  ASSUME NEW s, NEW C, NEW P, C \cap P = {}, P \subseteq Objects,
         NEW k, k \in 1..Len(s.blocks), Len(s.blocks) \in Nat,
         NEW a, Turn(s, a, C, P, k - 1)
  PROVE  Turn(s, TakeBack(a, k), C, P, k)
<1> DEFINE r == TakeBack(a, k)
           putq == a.pool.blocks[k].putq
           first == a.obj = NoObject
           more == IF first THEN Tail(putq) ELSE putq
<1>1. /\ a = [pool |-> a.pool, obj |-> a.obj, inc |-> a.inc] /\ a.inc \in Nat
      /\ Taken(a.pool) = Taken(s) /\ Len(a.pool.blocks) = Len(s.blocks)
  BY DEF Turn
<1>2. PICK M \in SUBSET P :
        /\ IsPool(a.pool, C \cup (M \ {a.obj}), P \ M)
        /\ IF a.obj = NoObject
           THEN /\ M = {} /\ a.inc = 0
                /\ \A b \in 1..k - 1 : a.pool.blocks[b].putq = <<>>
           ELSE a.obj \in M
  BY DEF Turn
<1> DEFINE D == C \cup (M \ {a.obj})
           V == P \ M
           page == a.pool.blocks[k].begin
           W == PutAt(V, page)
<1>3. /\ BlocksHold(a.pool.blocks, V) /\ a.pool.nput = Cardinality(V)
      /\ V \subseteq Objects /\ IsFiniteSet(V) /\ D \subseteq Objects
  BY <1>2, PoolShape
<1>4. Lists(putq, W) /\ k \in 1..Len(a.pool.blocks)
  BY <1>1, <1>3 DEF BlocksHold
<1>5. NoObject \notin Objects /\ Regain \in Nat \ {0}
  BY ObjAssumption DEF ObjAssumption
<1>6. W \subseteq V /\ D \cap V = {}
  BY DEF PutAt
<1>7. CASE a.pool.nput = 0 \/ a.inc >= Regain \/ putq = <<>>
  <2>1. r = a
    BY <1>7 DEF TakeBack
  <2>2. ASSUME a.obj = NoObject PROVE putq = <<>>
    <3>1. a.inc = 0 /\ ~(0 >= Regain)
      BY <1>2, <1>5, <2>2
    <3>2. CASE a.pool.nput = 0
      <4>1. V = {}
        BY <1>3, <3>2, FS_EmptySet
      <4>2. W = {}
        BY <1>6, <4>1
      <4> QED
        BY <1>4, <4>2, EmptyLists
    <3> QED
      BY <1>7, <3>1, <3>2
  <2>3. ASSUME a.obj = NoObject PROVE \A b \in 1..k : a.pool.blocks[b].putq = <<>>
    <3>1. \A b \in 1..k : b # k => b \in 1..k - 1
      OBVIOUS
    <3> QED
      BY <1>2, <2>2, <2>3, <3>1
  <2> HIDE DEF r
  <2> QED
    BY <1>1, <1>2, <2>1, <2>3 DEF Turn, r
<1>8. CASE ~(a.pool.nput = 0 \/ a.inc >= Regain \/ putq = <<>>)
  <2> DEFINE p == TakenOff(a.pool, k, more)
             o == IF first THEN Head(putq) ELSE a.obj
             N == M \cup W
             R == IF first THEN W \ {Head(putq)} ELSE W
  <2>1. r = [pool |-> p, obj |-> o, inc |-> a.inc + Len(more)]
    BY <1>8 DEF TakeBack, TakenOff
  <2>2. Lists(more, R) /\ R \subseteq W /\ o \in N /\ o # NoObject
        /\ C \cup (N \ {o}) = D \cup R
    <3>1. CASE first
      <4>1. Head(putq) \in W /\ Lists(Tail(putq), W \ {Head(putq)})
        BY <1>4, <1>8, ListsTail
      <4>2. M = {}
        BY <1>2, <3>1
      <4>3. Head(putq) # NoObject
        BY <1>3, <1>5, <1>6, <4>1
      <4> QED
        BY <3>1, <4>1, <4>2, <4>3
    <3>2. CASE ~first
      <4>1. a.obj \in M /\ a.obj \notin W
        BY <1>2, <1>6, <3>2
      <4> QED
        BY <1>4, <3>2, <4>1
    <3> QED
      BY <3>1, <3>2
  <2>3. Len(more) \in Nat
    BY <2>2, ListFacts
  <2> HIDE DEF more, R, o, D, V, W, r
  <2>4. /\ IsPool(p, D \cup R, V \ W)
        /\ Taken(p) = Taken(a.pool) /\ Len(p.blocks) = Len(a.pool.blocks)
    <3>1. IsPool(a.pool, D, V) /\ D \cap V = {}
      BY <1>2, <1>6 DEF D, V
    <3>2. /\ IsPool(p, D \cup R, V \ PutAt(V, a.pool.blocks[k].begin))
          /\ Taken(p) = Taken(a.pool) /\ Len(p.blocks) = Len(a.pool.blocks)
      <4>1. R \subseteq PutAt(V, a.pool.blocks[k].begin)
        BY <2>2 DEF W
      <4>2. p = TakenOff(a.pool, k, more) /\ k \in 1..Len(a.pool.blocks) /\ Lists(more, R)
        BY <1>4, <2>2
      <4> HIDE DEF page, p
      <4>3. IsOff(a.pool, p, D, V, k, R)
        BY <3>1, <4>1, <4>2, ListBack
      <4> QED
        BY <4>3 DEF IsOff
    <3> QED
      BY <3>2 DEF W
  <2>5. V \ W = P \ N
    BY DEF V
  <2> HIDE DEF p
  <2>6. r.pool = p /\ r.obj = o /\ r.inc = a.inc + Len(more)
        /\ r = [pool |-> r.pool, obj |-> r.obj, inc |-> r.inc]
    BY <2>1
  <2>7. r.inc \in Nat
    BY <1>1, <2>3, <2>6
  <2>8. N \in SUBSET P
    BY <1>6 DEF V
  <2> HIDE DEF N
  <2>9. IsPool(r.pool, C \cup (N \ {r.obj}), P \ N)
    BY <2>2, <2>4, <2>5, <2>6, Zenon
  <2>10. Taken(r.pool) = Taken(s) /\ Len(r.pool.blocks) = Len(s.blocks)
    BY <1>1, <2>4, <2>6
  <2> QED
    BY <2>2, <2>6, <2>7, <2>8, <2>9, <2>10 DEF Turn, r
<1> QED
  BY <1>7, <1>8

\* objpool_get when there are objects in the blocks
LEMMA RegainedKeeps ==
  ASSUME NEW s, NEW C, NEW P, IsPool(s, C, P), C \cap P = {}, s.nput > 0
  PROVE  GotBack(s, Regained(s), C, P)
<1> DEFINE n == Len(s.blocks)
           a == [pool |-> s, obj |-> NoObject, inc |-> 0]
           seq == [b \in DOMAIN s.blocks |-> b]
<1>1. /\ n \in Nat /\ DOMAIN s.blocks = 1..n /\ P \subseteq Objects /\ C \subseteq Objects
      /\ IsFiniteSet(P) /\ s.nput = Cardinality(P)
  <2>1. /\ P \subseteq Objects /\ C \subseteq Objects /\ BlocksHold(s.blocks, P)
        /\ IsFiniteSet(P) /\ s.nput = Cardinality(P)
    BY PoolShape
  <2> QED
    BY <2>1, SortedFacts DEF BlocksHold
<1>2. DOMAIN seq = 1..n /\ \A i \in 1..n : seq[i] = i
  BY <1>1
<1>3. PICK h : TurnsOf(h, n, a, seq)
  BY <1>1, <1>2, TurnSteps
<1> DEFINE Q == {k \in 0..n : Turn(s, h[k], C, P, k)}
<1>4. 0 \in Q
  <2>1. a = [pool |-> a.pool, obj |-> a.obj, inc |-> a.inc] /\ a.inc \in Nat
        /\ a.pool = s /\ a.obj = NoObject /\ a.inc = 0
    OBVIOUS
  <2>2. C \cup ({} \ {NoObject}) = C /\ P \ {} = P /\ {} \in SUBSET P
    OBVIOUS
  <2>3. \A b \in 1..0 : FALSE
    OBVIOUS
  <2>4. h[0] = a /\ 0 \in 0..n
    BY <1>1, <1>3 DEF TurnsOf
  <2> HIDE DEF a, n
  <2>5. IsPool(a.pool, C \cup ({} \ {a.obj}), P \ {})
    BY <2>1, <2>2
  <2>6. \E M \in SUBSET P :
          /\ IsPool(a.pool, C \cup (M \ {a.obj}), P \ M)
          /\ IF a.obj = NoObject
             THEN /\ M = {} /\ a.inc = 0
                  /\ \A b \in 1..0 : a.pool.blocks[b].putq = <<>>
             ELSE a.obj \in M
    BY <2>1, <2>2, <2>3, <2>5
  <2>7. Turn(s, a, C, P, 0)
    BY <2>1, <2>6 DEF Turn
  <2> QED
    BY <2>4, <2>7
<1>5. ASSUME NEW i \in 1..n, i - 1 \in Q PROVE i \in Q
  <2>1. h[i] = TakeBack(h[i - 1], i)
    BY <1>2, <1>3 DEF TurnsOf
  <2>2. Turn(s, h[i - 1], C, P, i - 1)
    BY <1>5
  <2>3. Turn(s, TakeBack(h[i - 1], i), C, P, i)
    BY <1>1, <2>2, OneTurn
  <2>4. i \in 0..n
    BY <1>1
  <2> QED
    BY <2>1, <2>3, <2>4
<1>6. n \in Q
  <2> HIDE DEF Q
  <2> QED
    BY <1>1, <1>4, <1>5, UpTo
<1> DEFINE r == Regained(s)
<1>7. h[n] = r
  BY <1>3 DEF TurnsOf, Regained
<1>8. Turn(s, r, C, P, n)
  BY <1>6, <1>7
<1> HIDE DEF a, seq, Q, r
<1>9. PICK M \in SUBSET P :
        /\ IsPool(r.pool, C \cup (M \ {r.obj}), P \ M)
        /\ IF r.obj = NoObject
           THEN /\ M = {} /\ r.inc = 0
                /\ \A b \in 1..n : r.pool.blocks[b].putq = <<>>
           ELSE r.obj \in M
  BY <1>8 DEF Turn
<1>10. Taken(r.pool) = Taken(s) /\ Len(r.pool.blocks) = n
  BY <1>8 DEF Turn
<1>11. r.obj # NoObject
  <2> SUFFICES ASSUME r.obj = NoObject PROVE FALSE
    OBVIOUS
  <2>1. M = {} /\ \A b \in 1..n : r.pool.blocks[b].putq = <<>>
    BY <1>9
  <2>2. BlocksHold(r.pool.blocks, P)
    <3>1. BlocksHold(r.pool.blocks, P \ M)
      BY <1>9, PoolShape
    <3> QED
      BY <2>1, <3>1
  <2>3. P # {}
    BY <1>1, FS_EmptySet
  <2>4. PICK o \in P : TRUE
    BY <2>3
  <2> HIDE DEF n
  <2>5. PICK b \in 1..n : r.pool.blocks[b].begin = Page(o)
    BY <1>10, <2>2 DEF BlocksHold, Begins
  <2>6. Lists(r.pool.blocks[b].putq, PutAt(P, Page(o)))
    BY <1>10, <2>2, <2>5 DEF BlocksHold
  <2>7. PutAt(P, Page(o)) = {}
    BY <2>1, <2>6, EmptyLists
  <2> QED
    BY <2>7 DEF PutAt
<1>12. r.obj \in M
  BY <1>9, <1>11
<1> QED
  BY <1>9, <1>10, <1>12 DEF GotBack, r


-----------------------------------------------------------------------------
(***************************************************************************)
(* Where the objects are                                                   *)
(***************************************************************************)

Cached == <<"cache", NoThread>>
InUse == <<"used", NoThread>>
BackIn == <<"put", NoThread>>
Nowhere == <<"nowhere", NoThread>>
TaskOf(t) == <<"task", t>>
QcacheOf(t) == <<"qcache", t>>
RmqOf(t) == <<"rmq", t>>
Somewhere == Places \cup {Nowhere}

\* w tells where each object is; those there.
At(w, p) == {o \in Objects : w[o] = p}
Moved(w, M, p) == [o \in Objects |-> IF o \in M THEN p ELSE w[o]]

LEMMA PlacesDiffer ==
  /\ Cached # InUse /\ Cached # BackIn /\ Cached # Nowhere
  /\ InUse # BackIn /\ InUse # Nowhere /\ BackIn # Nowhere
  /\ \A t : /\ TaskOf(t) \notin {Cached, InUse, BackIn, Nowhere}
            /\ QcacheOf(t) \notin {Cached, InUse, BackIn, Nowhere}
            /\ RmqOf(t) \notin {Cached, InUse, BackIn, Nowhere}
  /\ \A t, u : /\ TaskOf(t) # QcacheOf(u) /\ TaskOf(t) # RmqOf(u) /\ QcacheOf(t) # RmqOf(u)
               /\ TaskOf(t) = TaskOf(u) => t = u
               /\ QcacheOf(t) = QcacheOf(u) => t = u
               /\ RmqOf(t) = RmqOf(u) => t = u
BY DEF Cached, InUse, BackIn, Nowhere, TaskOf, QcacheOf, RmqOf

LEMMA PlacesThere ==
  /\ Cached \in Somewhere /\ InUse \in Somewhere /\ BackIn \in Somewhere /\ Nowhere \in Somewhere
  /\ \A t \in Threads : /\ TaskOf(t) \in Somewhere /\ QcacheOf(t) \in Somewhere
                        /\ RmqOf(t) \in Somewhere
BY DEF Cached, InUse, BackIn, Nowhere, TaskOf, QcacheOf, RmqOf, Somewhere, Places

LEMMA AtFacts ==
  ASSUME NEW w
  PROVE  /\ \A p : At(w, p) \subseteq Objects
         /\ \A p, q : p # q => At(w, p) \cap At(w, q) = {}
BY DEF At

\* v is w after the objects M moved from a to p.
Moves(w, M, a, p, v) ==
    /\ v \in [Objects -> Somewhere]
    /\ At(v, p) = At(w, p) \cup M /\ At(v, a) = At(w, a) \ M
    /\ \A q : q # a /\ q # p => At(v, q) = At(w, q)

LEMMA MoveExists ==
  ASSUME NEW w \in [Objects -> Somewhere], NEW a \in Somewhere, NEW p \in Somewhere, a # p,
         NEW M, M \subseteq At(w, a)
  PROVE  \E v : Moves(w, M, a, p, v)
<1> DEFINE v == Moved(w, M, p)
<1>1. v \in [Objects -> Somewhere]
  BY DEF Moved
<1>2. At(v, p) = At(w, p) \cup M /\ At(v, a) = At(w, a) \ M
  BY DEF At, Moved
<1>3. \A q : q # a /\ q # p => At(v, q) = At(w, q)
  BY DEF At, Moved
<1> HIDE DEF v
<1> QED
  BY <1>1, <1>2, <1>3 DEF Moves

\* The thread r has a task for T, the objects Q in its cache and R to give back.
Working == {"taken", "unset", "run"}
ThreadOf(r, T, Q, R) ==
    /\ r \in ThreadType /\ Lists(r.qcache, Q) /\ Lists(r.rmq, R)
    /\ T = {r.task} \ {NoObject}
    /\ r.at \in Working => r.task # NoObject
    /\ r.at \notin Working => r.task = NoObject
    /\ r.at # "free" => R = {}
    /\ r.at \in {"none", "cached", "left"} => Q = {}

PoolIn(w, s) ==
    /\ IsPool(s, At(w, Cached), At(w, BackIn))
    /\ At(w, Nowhere) = {o \in Objects : Page(o) \notin Taken(s)}

ThreadIn(w, t, r) == ThreadOf(r, At(w, TaskOf(t)), At(w, QcacheOf(t)), At(w, RmqOf(t)))

\* Each object is in its place.
Placed(w, s, u, th) ==
    /\ w \in [Objects -> Somewhere]
    /\ PoolIn(w, s) /\ u = At(w, InUse)
    /\ \A t \in Threads : ThreadIn(w, t, th[t])

\* A move between places that are not those of t
LEMMA ThreadStays ==
  ASSUME NEW w, NEW a, NEW p, NEW M, NEW v, Moves(w, M, a, p, v), NEW t, NEW r,
         ThreadIn(w, t, r),
         a \notin {TaskOf(t), QcacheOf(t), RmqOf(t)},
         p \notin {TaskOf(t), QcacheOf(t), RmqOf(t)}
  PROVE  ThreadIn(v, t, r)
<1>1. /\ At(v, TaskOf(t)) = At(w, TaskOf(t)) /\ At(v, QcacheOf(t)) = At(w, QcacheOf(t))
      /\ At(v, RmqOf(t)) = At(w, RmqOf(t))
  BY DEF Moves
<1> QED
  BY <1>1 DEF ThreadIn

\* The list of the cache changes.
LEMMA CacheChanges ==
  ASSUME NEW s, NEW C, NEW P, IsPool(s, C, P), NEW q, NEW D \in SUBSET Objects, Lists(q, D)
  PROVE  /\ IsPool([s EXCEPT !.xq = q], D, P) /\ Taken([s EXCEPT !.xq = q]) = Taken(s)
         /\ [s EXCEPT !.xq = q].xq = q
<1> DEFINE r == [s EXCEPT !.xq = q]
<1>1. /\ s = [blocks |-> s.blocks, nput |-> s.nput, xq |-> s.xq, astray |-> s.astray]
      /\ s.astray \in BOOLEAN /\ s.nput = Cardinality(P) /\ BlocksHold(s.blocks, P)
      /\ Taken(s) = Begins(s.blocks)
  BY PoolShape, TakenIs
<1>2. r = [blocks |-> s.blocks, nput |-> s.nput, xq |-> q, astray |-> s.astray]
  BY <1>1
<1> HIDE DEF r
<1>3. IsPool(r, D, P)
  BY <1>1, <1>2, PoolIs
<1>4. r.blocks = s.blocks /\ r.xq = q
  BY <1>2
<1>5. Taken(r) = Begins(r.blocks)
  BY <1>3, TakenIs
<1> QED
  BY <1>1, <1>3, <1>4, <1>5 DEF r

LEMMA ThreadFacts ==
  ASSUME NEW w, NEW t, NEW r, ThreadIn(w, t, r)
  PROVE  /\ r \in ThreadType
         /\ Lists(r.qcache, At(w, QcacheOf(t))) /\ Lists(r.rmq, At(w, RmqOf(t)))
         /\ At(w, TaskOf(t)) = {r.task} \ {NoObject}
         /\ r.at \in Working => r.task # NoObject
         /\ r.at \notin Working => r.task = NoObject
         /\ r.at # "free" => At(w, RmqOf(t)) = {}
         /\ r.at \in {"none", "cached", "left"} => At(w, QcacheOf(t)) = {}
BY DEF ThreadIn, ThreadOf

\* The fields of a thread that have objects stay.
SameObjects(r, r2) ==
    /\ r2 \in ThreadType /\ r2.task = r.task /\ r2.qcache = r.qcache /\ r2.rmq = r.rmq
    /\ r2.at \in Working <=> r.at \in Working
    /\ r.at = "free" <=> r2.at = "free"
    /\ r2.at \in {"none", "cached", "left"} => r.at \in {"none", "cached", "left"}

LEMMA ObjectsStay ==
  ASSUME NEW w, NEW t, NEW r, ThreadIn(w, t, r), NEW r2, SameObjects(r, r2)
  PROVE  ThreadIn(w, t, r2)
BY DEF ThreadIn, ThreadOf, SameObjects

\* A thread that is started, or put into the cache, has none.
LEMMA NewThreadIn ==
  ASSUME NEW w, NEW t, NEW r, ThreadIn(w, t, r), r.at \in {"none", "cached", "left"},
         NEW where \in {"none", "cached", "ready", "left"}
  PROVE  ThreadIn(w, t, NewThread(where))
<1> DEFINE n == NewThread(where)
<1>1. At(w, TaskOf(t)) = {} /\ At(w, QcacheOf(t)) = {} /\ At(w, RmqOf(t)) = {}
  BY DEF ThreadIn, ThreadOf, Working
<1>2. /\ n.at = where /\ n.task = NoObject /\ n.qcache = <<>> /\ n.rmq = <<>>
      /\ n \in ThreadType
  BY DEF NewThread, ThreadType, Location, Flags
<1>3. Lists(<<>>, {})
  BY EmptyLists
<1> HIDE DEF n
<1> QED
  BY <1>1, <1>2, <1>3 DEF ThreadIn, ThreadOf, Working, n


-----------------------------------------------------------------------------
(***************************************************************************)
(* Objects between the pool, its cache and the tasks                       *)
(***************************************************************************)

LEMMA PlacedFacts ==
  ASSUME NEW w, NEW s, NEW u, NEW th, Placed(w, s, u, th)
  PROVE  /\ w \in [Objects -> Somewhere] /\ u = At(w, InUse)
         /\ IsPool(s, At(w, Cached), At(w, BackIn)) /\ Lists(s.xq, At(w, Cached))
         /\ At(w, Nowhere) = {o \in Objects : Page(o) \notin Taken(s)}
         /\ \A t \in Threads : ThreadIn(w, t, th[t])
BY DEF Placed, PoolIn, IsPool

\* Objects move between the cache and where tasks are: threads see nothing of it.
LEMMA ThreadsStay ==
  ASSUME NEW w, NEW a \in {Cached, InUse, BackIn, Nowhere},
         NEW p \in {Cached, InUse, BackIn, Nowhere}, NEW M, NEW v, Moves(w, M, a, p, v),
         NEW th, \A t \in Threads : ThreadIn(w, t, th[t])
  PROVE  \A t \in Threads : ThreadIn(v, t, th[t])
<1> SUFFICES ASSUME NEW t \in Threads PROVE ThreadIn(v, t, th[t])
  OBVIOUS
<1>1. a \notin {TaskOf(t), QcacheOf(t), RmqOf(t)} /\ p \notin {TaskOf(t), QcacheOf(t), RmqOf(t)}
  BY PlacesDiffer
<1> QED
  BY <1>1, ThreadStays

\* smcache_get from the list
LEMMA Fetched ==
  ASSUME NEW w, NEW s, NEW u, NEW th, Placed(w, s, u, th), s.xq # <<>>
  PROVE  \E v : Placed(v, [s EXCEPT !.xq = Tail(@)], u \cup {s.xq[1]}, th)
<1> DEFINE C == At(w, Cached)
           o == s.xq[1]
           r == [s EXCEPT !.xq = Tail(s.xq)]
<1>1. /\ w \in [Objects -> Somewhere] /\ u = At(w, InUse)
      /\ IsPool(s, C, At(w, BackIn)) /\ Lists(s.xq, C)
      /\ At(w, Nowhere) = {x \in Objects : Page(x) \notin Taken(s)}
      /\ \A t \in Threads : ThreadIn(w, t, th[t])
  BY PlacedFacts
<1>2. o \in C /\ Lists(Tail(s.xq), C \ {o})
  BY <1>1, ListsTail
<1>3. PICK v : Moves(w, {o}, Cached, InUse, v)
  BY <1>1, <1>2, PlacesDiffer, PlacesThere, MoveExists
<1>4. /\ v \in [Objects -> Somewhere] /\ At(v, InUse) = u \cup {o} /\ At(v, Cached) = C \ {o}
      /\ At(v, BackIn) = At(w, BackIn) /\ At(v, Nowhere) = At(w, Nowhere)
  BY <1>1, <1>3, PlacesDiffer DEF Moves
<1>5. IsPool(r, C \ {o}, At(w, BackIn)) /\ Taken(r) = Taken(s)
  <2>1. C \ {o} \in SUBSET Objects
    BY AtFacts
  <2> HIDE DEF C
  <2> QED
    BY <1>1, <1>2, <2>1, CacheChanges
<1>6. \A t \in Threads : ThreadIn(v, t, th[t])
  BY <1>1, <1>3, ThreadsStay
<1> HIDE DEF r, o, C
<1>7. Placed(v, r, u \cup {o}, th)
  BY <1>1, <1>4, <1>5, <1>6 DEF Placed, PoolIn
<1> QED
  BY <1>7 DEF r, o

\* smcache_get from the blocks
LEMMA FromBlocks ==
  ASSUME NEW w, NEW s, NEW u, NEW th, Placed(w, s, u, th), s.nput > 0
  PROVE  \E v : Placed(v, Regained(s).pool, u \cup {Regained(s).obj}, th)
<1> DEFINE C == At(w, Cached)
           P == At(w, BackIn)
           got == Regained(s)
           o == got.obj
<1>1. /\ w \in [Objects -> Somewhere] /\ u = At(w, InUse) /\ IsPool(s, C, P)
      /\ At(w, Nowhere) = {x \in Objects : Page(x) \notin Taken(s)}
      /\ \A t \in Threads : ThreadIn(w, t, th[t])
  BY PlacedFacts
<1>2. C \cap P = {}
  BY AtFacts, PlacesDiffer
<1>3. GotBack(s, got, C, P)
  <2> HIDE DEF C, P
  <2> QED
    BY <1>1, <1>2, RegainedKeeps
<1> HIDE DEF got
<1>4. PICK M \in SUBSET P : o \in M /\ IsPool(got.pool, C \cup (M \ {o}), P \ M)
  BY <1>3 DEF GotBack
<1>5. PICK x : Moves(w, M, BackIn, Cached, x)
  BY <1>1, <1>4, PlacesDiffer, PlacesThere, MoveExists
<1>6. /\ x \in [Objects -> Somewhere] /\ At(x, Cached) = C \cup M /\ At(x, BackIn) = P \ M
      /\ At(x, InUse) = u /\ At(x, Nowhere) = At(w, Nowhere)
  BY <1>1, <1>5, PlacesDiffer DEF Moves
<1>7. PICK v : Moves(x, {o}, Cached, InUse, v)
  <2>1. {o} \subseteq At(x, Cached)
    BY <1>4, <1>6
  <2> QED
    BY <1>6, <2>1, PlacesDiffer, PlacesThere, MoveExists
<1>8. /\ v \in [Objects -> Somewhere] /\ At(v, InUse) = u \cup {o}
      /\ At(v, Cached) = C \cup (M \ {o})
      /\ At(v, BackIn) = P \ M /\ At(v, Nowhere) = At(w, Nowhere)
  <2>1. (C \cup M) \ {o} = C \cup (M \ {o})
    BY <1>2, <1>4
  <2> HIDE DEF C, P, o
  <2>2. /\ v \in [Objects -> Somewhere] /\ At(v, InUse) = At(x, InUse) \cup {o}
        /\ At(v, Cached) = At(x, Cached) \ {o}
        /\ At(v, BackIn) = At(x, BackIn) /\ At(v, Nowhere) = At(x, Nowhere)
    BY <1>7, PlacesDiffer DEF Moves
  <2> QED
    BY <1>6, <2>1, <2>2, Zenon
<1>9. \A t \in Threads : ThreadIn(v, t, th[t])
  <2>1. \A t \in Threads : ThreadIn(x, t, th[t])
    BY <1>1, <1>5, ThreadsStay
  <2> QED
    BY <1>7, <2>1, ThreadsStay
<1>10. Taken(got.pool) = Taken(s)
  BY <1>3 DEF GotBack
<1> HIDE DEF o, C, P
<1>11. Placed(v, got.pool, u \cup {o}, th)
  BY <1>1, <1>4, <1>8, <1>9, <1>10 DEF Placed, PoolIn
<1> QED
  BY <1>11 DEF got, o

\* smcache_get with a new block
LEMMA FromPage ==
  ASSUME NEW w, NEW s, NEW u, NEW th, Placed(w, s, u, th), NEW page \in Pages,
         page \notin Taken(s), PlaceOf(s.blocks, page) # Outside
  PROVE  \E v : Placed(v, WithBlock(s, page), u \cup {<<page, 0>>}, th)
<1> DEFINE C == At(w, Cached)
           P == At(w, BackIn)
           A == PageObjs(page)
           o == <<page, 0>>
           r == WithBlock(s, page)
<1>1. /\ w \in [Objects -> Somewhere] /\ u = At(w, InUse) /\ IsPool(s, C, P)
      /\ At(w, Nowhere) = {x \in Objects : Page(x) \notin Taken(s)}
      /\ \A t \in Threads : ThreadIn(w, t, th[t])
  BY PlacedFacts
<1>2. A \subseteq At(w, Nowhere) /\ o \in A
  <2>1. A \subseteq Objects /\ \A x \in A : Page(x) = page
    BY ObjectFacts
  <2>2. 0 \in 0..BlockObjs - 1
    BY ObjectFacts
  <2> QED
    BY <1>1, <2>1, <2>2 DEF PageObjs
<1>3. C \cap A = {}
  BY <1>2, AtFacts, PlacesDiffer
<1>4. IsPool(r, C \cup (A \ {o}), P) /\ Taken(r) = Taken(s) \cup {page}
  <2> HIDE DEF C, P
  <2> QED
    BY <1>1, <1>3, WithBlockKeeps
<1> HIDE DEF r, A, o
<1>5. PICK x : Moves(w, A, Nowhere, Cached, x)
  BY <1>1, <1>2, PlacesDiffer, PlacesThere, MoveExists
<1>6. /\ x \in [Objects -> Somewhere] /\ At(x, Cached) = C \cup A /\ At(x, BackIn) = P
      /\ At(x, InUse) = u /\ At(x, Nowhere) = At(w, Nowhere) \ A
  BY <1>1, <1>5, PlacesDiffer DEF Moves
<1>7. PICK v : Moves(x, {o}, Cached, InUse, v)
  <2>1. {o} \subseteq At(x, Cached)
    BY <1>2, <1>6
  <2> QED
    BY <1>6, <2>1, PlacesDiffer, PlacesThere, MoveExists
<1>8. /\ v \in [Objects -> Somewhere] /\ At(v, InUse) = u \cup {o}
      /\ At(v, Cached) = C \cup (A \ {o})
      /\ At(v, BackIn) = P /\ At(v, Nowhere) = At(w, Nowhere) \ A
  <2>1. (C \cup A) \ {o} = C \cup (A \ {o})
    BY <1>2, <1>3
  <2> HIDE DEF C, P
  <2>2. /\ v \in [Objects -> Somewhere] /\ At(v, InUse) = At(x, InUse) \cup {o}
        /\ At(v, Cached) = At(x, Cached) \ {o}
        /\ At(v, BackIn) = At(x, BackIn) /\ At(v, Nowhere) = At(x, Nowhere)
    BY <1>7, PlacesDiffer DEF Moves
  <2> QED
    BY <1>6, <2>1, <2>2, Zenon
<1>9. \A t \in Threads : ThreadIn(v, t, th[t])
  <2>1. \A t \in Threads : ThreadIn(x, t, th[t])
    BY <1>1, <1>5, ThreadsStay
  <2> QED
    BY <1>7, <2>1, ThreadsStay
<1>10. At(w, Nowhere) \ A = {y \in Objects : Page(y) \notin Taken(r)}
  <2>1. \A y \in Objects : y \in A <=> Page(y) = page
    BY ObjectFacts DEF A
  <2> QED
    BY <1>1, <1>4, <2>1
<1> HIDE DEF C, P
<1>11. Placed(v, r, u \cup {o}, th)
  BY <1>1, <1>4, <1>8, <1>9, <1>10 DEF Placed, PoolIn
<1> QED
  BY <1>11 DEF r, o

\* cpool_com_cache_put
LEMMA IntoCache ==
  ASSUME NEW w, NEW s, NEW u, NEW th, Placed(w, s, u, th), NEW O \in SUBSET u
  PROVE  \E v : Placed(v, [s EXCEPT !.xq = AddQl(@, SetToSeq(O))], u \ O, th)
<1> DEFINE C == At(w, Cached)
           q == AddQl(s.xq, SetToSeq(O))
           r == [s EXCEPT !.xq = q]
<1>1. /\ w \in [Objects -> Somewhere] /\ u = At(w, InUse)
      /\ IsPool(s, C, At(w, BackIn)) /\ Lists(s.xq, C)
      /\ At(w, Nowhere) = {x \in Objects : Page(x) \notin Taken(s)}
      /\ \A t \in Threads : ThreadIn(w, t, th[t])
  BY PlacedFacts
<1>2. IsFiniteSet(O) /\ C \cap O = {} /\ C \cup O \in SUBSET Objects
  <2>1. O \subseteq Objects /\ C \subseteq Objects
    BY <1>1, AtFacts
  <2>2. C \cap O = {}
    BY <1>1, AtFacts, PlacesDiffer
  <2> QED
    BY <2>1, <2>2, ObjectFacts, FS_Subset
<1>3. Lists(q, C \cup O)
  <2> HIDE DEF C
  <2>1. Lists(SetToSeq(O), O)
    BY <1>2, SetListed
  <2> QED
    BY <1>1, <1>2, <2>1, ListsAddQl
<1>4. PICK v : Moves(w, O, InUse, Cached, v)
  BY <1>1, PlacesDiffer, PlacesThere, MoveExists
<1>5. /\ v \in [Objects -> Somewhere] /\ At(v, InUse) = u \ O /\ At(v, Cached) = C \cup O
      /\ At(v, BackIn) = At(w, BackIn) /\ At(v, Nowhere) = At(w, Nowhere)
  BY <1>1, <1>4, PlacesDiffer DEF Moves
<1>6. IsPool(r, C \cup O, At(w, BackIn)) /\ Taken(r) = Taken(s)
  <2> HIDE DEF C, q
  <2> QED
    BY <1>1, <1>2, <1>3, CacheChanges
<1>7. \A t \in Threads : ThreadIn(v, t, th[t])
  BY <1>1, <1>4, ThreadsStay
<1> HIDE DEF r, C
<1>8. Placed(v, r, u \ O, th)
  BY <1>1, <1>5, <1>6, <1>7 DEF Placed, PoolIn
<1> QED
  BY <1>8 DEF r


-----------------------------------------------------------------------------
(***************************************************************************)
(* Objects in the hands of threads                                         *)
(***************************************************************************)

\* What a thread has stays, or it is a new one.
Alike(r, r2) ==
    \/ r2 = r
    \/ SameObjects(r, r2)
    \/ /\ r.at \in {"none", "cached", "left"}
       /\ \E where \in {"none", "cached", "ready", "left"} : r2 = NewThread(where)

LEMMA AlikeIn ==
  ASSUME NEW w, NEW t, NEW r, ThreadIn(w, t, r), NEW r2, Alike(r, r2)
  PROVE  ThreadIn(w, t, r2)
<1>1. CASE r2 = r
  BY <1>1
<1>2. CASE SameObjects(r, r2)
  BY <1>2, ObjectsStay
<1>3. ASSUME r.at \in {"none", "cached", "left"},
             NEW where \in {"none", "cached", "ready", "left"}, r2 = NewThread(where)
      PROVE  ThreadIn(w, t, r2)
  BY <1>3, NewThreadIn
<1> QED
  BY <1>1, <1>2, <1>3 DEF Alike

LEMMA SameThreads ==
  ASSUME NEW w, NEW s, NEW u, NEW th, Placed(w, s, u, th), NEW th2,
         \A t \in Threads : Alike(th[t], th2[t])
  PROVE  Placed(w, s, u, th2)
<1>1. \A t \in Threads : ThreadIn(w, t, th2[t])
  BY PlacedFacts, AlikeIn
<1> QED
  BY <1>1 DEF Placed

\* Places that are not those of another thread than t
PlacesOf(t) == {Cached, InUse, BackIn, Nowhere, TaskOf(t), QcacheOf(t), RmqOf(t)}

\* Objects move to or from t: the other threads see nothing of it.
LEMMA OtherIn ==
  ASSUME NEW w, NEW t, NEW a \in PlacesOf(t), NEW p \in PlacesOf(t),
         NEW M, NEW v, Moves(w, M, a, p, v), NEW x, x # t, NEW r, ThreadIn(w, x, r),
         NEW r2, Alike(r, r2)
  PROVE  ThreadIn(v, x, r2)
<1>1. a \notin {TaskOf(x), QcacheOf(x), RmqOf(x)} /\ p \notin {TaskOf(x), QcacheOf(x), RmqOf(x)}
  BY PlacesDiffer DEF PlacesOf
<1>2. ThreadIn(w, x, r2)
  BY AlikeIn
<1> QED
  BY <1>1, <1>2, ThreadStays

\* gettask: a task that is in use becomes that of t.
LEMMA TaskTaken ==
  ASSUME NEW w, NEW s, NEW u, NEW th, Placed(w, s, u, th), NEW t \in Threads, NEW o \in u,
         th[t].at = "ready", NEW th2, \A x \in Threads \ {t} : Alike(th[x], th2[x]),
         th2[t] \in ThreadType, th2[t].task = o, th2[t].at \in {"run", "taken"},
         th2[t].qcache = th[t].qcache, th2[t].rmq = th[t].rmq
  PROVE  \E v : Placed(v, s, u \ {o}, th2)
<1>1. /\ w \in [Objects -> Somewhere] /\ u = At(w, InUse)
      /\ IsPool(s, At(w, Cached), At(w, BackIn))
      /\ At(w, Nowhere) = {x \in Objects : Page(x) \notin Taken(s)}
      /\ \A x \in Threads : ThreadIn(w, x, th[x])
  BY PlacedFacts
<1>2. PICK v : Moves(w, {o}, InUse, TaskOf(t), v)
  BY <1>1, PlacesDiffer, PlacesThere, MoveExists
<1>3. /\ v \in [Objects -> Somewhere] /\ At(v, InUse) = u \ {o}
      /\ At(v, Cached) = At(w, Cached) /\ At(v, BackIn) = At(w, BackIn)
      /\ At(v, Nowhere) = At(w, Nowhere)
      /\ At(v, TaskOf(t)) = At(w, TaskOf(t)) \cup {o}
      /\ At(v, QcacheOf(t)) = At(w, QcacheOf(t)) /\ At(v, RmqOf(t)) = At(w, RmqOf(t))
  BY <1>1, <1>2, PlacesDiffer DEF Moves
<1>4. o # NoObject
  BY <1>1, AtFacts, ObjAssumption DEF ObjAssumption
<1>5. ThreadIn(w, t, th[t])
  BY <1>1
<1>6. At(w, TaskOf(t)) = {} /\ At(w, RmqOf(t)) = {}
      /\ Lists(th[t].qcache, At(w, QcacheOf(t))) /\ Lists(th[t].rmq, At(w, RmqOf(t)))
  BY <1>5 DEF ThreadIn, ThreadOf, Working
<1>7. ThreadIn(v, t, th2[t])
  BY <1>3, <1>4, <1>6 DEF ThreadIn, ThreadOf, Working
<1>8. ASSUME NEW x \in Threads, x # t
       PROVE  ThreadIn(v, x, th2[x])
  <2>1. ThreadIn(w, x, th[x]) /\ Alike(th[x], th2[x])
    BY <1>1, <1>8
  <2>2. InUse \in PlacesOf(t) /\ TaskOf(t) \in PlacesOf(t)
    BY DEF PlacesOf
  <2> QED
    BY <1>2, <1>8, <2>1, <2>2, OtherIn
<1>9. \A x \in Threads : ThreadIn(v, x, th2[x])
  BY <1>7, <1>8
<1>10. Placed(v, s, u \ {o}, th2)
  BY <1>1, <1>3, <1>9 DEF Placed, PoolIn
<1> QED
  BY <1>10

\* The objects of t go to the cache.
LEMMA GaveBack ==
  ASSUME NEW w, NEW s, NEW u, NEW th, Placed(w, s, u, th), NEW t \in Threads,
         NEW th2, \A x \in Threads \ {t} : Alike(th[x], th2[x]),
         th2[t] \in ThreadType, th2[t].qcache = <<>>, th2[t].task = th[t].task,
         th2[t].rmq = th[t].rmq, th2[t].at \in Working <=> th[t].at \in Working,
         th2[t].at = "free" <=> th[t].at = "free"
  PROVE  \E v : Placed(v, [s EXCEPT !.xq = AddQlDir(@, th[t].qcache)], u, th2)
<1> DEFINE q == AddQlDir(s.xq, th[t].qcache)
           r == [s EXCEPT !.xq = q]
           C == At(w, Cached)
           Q == At(w, QcacheOf(t))
<1>1. /\ w \in [Objects -> Somewhere] /\ u = At(w, InUse)
      /\ IsPool(s, C, At(w, BackIn)) /\ Lists(s.xq, C)
      /\ At(w, Nowhere) = {x \in Objects : Page(x) \notin Taken(s)}
      /\ \A x \in Threads : ThreadIn(w, x, th[x])
  BY PlacedFacts
<1>2. PICK v : Moves(w, Q, QcacheOf(t), Cached, v)
  BY <1>1, PlacesDiffer, PlacesThere, MoveExists
<1>3. /\ v \in [Objects -> Somewhere] /\ At(v, InUse) = u
      /\ At(v, Cached) = C \cup Q /\ At(v, BackIn) = At(w, BackIn)
      /\ At(v, Nowhere) = At(w, Nowhere)
      /\ At(v, TaskOf(t)) = At(w, TaskOf(t))
      /\ At(v, QcacheOf(t)) = {} /\ At(v, RmqOf(t)) = At(w, RmqOf(t))
  BY <1>1, <1>2, PlacesDiffer DEF Moves
<1>4. ThreadIn(w, t, th[t])
  BY <1>1
<1>5. /\ Lists(th[t].qcache, Q) /\ Lists(th[t].rmq, At(w, RmqOf(t)))
      /\ At(w, TaskOf(t)) = {th[t].task} \ {NoObject}
      /\ th[t].at \in Working => th[t].task # NoObject
      /\ th[t].at \notin Working => th[t].task = NoObject
      /\ th[t].at # "free" => At(w, RmqOf(t)) = {}
  BY <1>4 DEF ThreadIn, ThreadOf
<1>6. C \cap Q = {} /\ C \cup Q \in SUBSET Objects
  BY AtFacts, PlacesDiffer
<1> HIDE DEF C, Q
<1>7. Lists(q, C \cup Q)
  <2>1. Lists(q, Q \cup C)
    BY <1>1, <1>5, <1>6, ListsConcat DEF AddQlDir
  <2>2. Q \cup C = C \cup Q
    OBVIOUS
  <2> HIDE DEF q
  <2> QED
    BY <2>1, <2>2
<1> HIDE DEF q
<1>8. IsPool(r, C \cup Q, At(w, BackIn)) /\ Taken(r) = Taken(s)
  BY <1>1, <1>6, <1>7, CacheChanges
<1>9. ThreadIn(v, t, th2[t])
  <2>1. Lists(th2[t].qcache, {})
    BY EmptyLists
  <2> QED
    BY <1>3, <1>5, <2>1 DEF ThreadIn, ThreadOf
<1>10. ASSUME NEW x \in Threads, x # t
       PROVE  ThreadIn(v, x, th2[x])
  <2>1. ThreadIn(w, x, th[x]) /\ Alike(th[x], th2[x])
    BY <1>1, <1>10
  <2>2. QcacheOf(t) \in PlacesOf(t) /\ Cached \in PlacesOf(t)
    BY DEF PlacesOf
  <2> QED
    BY <1>2, <1>10, <2>1, <2>2, OtherIn
<1>11. \A x \in Threads : ThreadIn(v, x, th2[x])
  BY <1>9, <1>10
<1> HIDE DEF r
<1>12. Placed(v, r, u, th2)
  BY <1>1, <1>3, <1>8, <1>11 DEF Placed, PoolIn
<1> QED
  BY <1>12 DEF r, q

\* The task of t is done: its object stays in t,
LEMMA TaskKept ==
  ASSUME NEW w, NEW s, NEW u, NEW th, Placed(w, s, u, th), NEW t \in Threads,
         NEW th2, \A x \in Threads \ {t} : Alike(th[x], th2[x]), th[t].at = "run",
         th2[t] \in ThreadType, th2[t].qcache = <<th[t].task>> \o th[t].qcache,
         th2[t].task = NoObject, th2[t].rmq = th[t].rmq, th2[t].at = "ready"
  PROVE  \E v : Placed(v, s, u, th2)
<1> DEFINE T == At(w, TaskOf(t))
           Q == At(w, QcacheOf(t))
<1>1. /\ w \in [Objects -> Somewhere] /\ u = At(w, InUse)
      /\ IsPool(s, At(w, Cached), At(w, BackIn))
      /\ At(w, Nowhere) = {x \in Objects : Page(x) \notin Taken(s)}
      /\ \A x \in Threads : ThreadIn(w, x, th[x])
  BY PlacedFacts
<1>2. PICK v : Moves(w, T, TaskOf(t), QcacheOf(t), v)
  BY <1>1, PlacesDiffer, PlacesThere, MoveExists
<1>3. /\ v \in [Objects -> Somewhere] /\ At(v, InUse) = u
      /\ At(v, Cached) = At(w, Cached) /\ At(v, BackIn) = At(w, BackIn)
      /\ At(v, Nowhere) = At(w, Nowhere) /\ At(v, TaskOf(t)) = {}
      /\ At(v, QcacheOf(t)) = Q \cup T /\ At(v, RmqOf(t)) = At(w, RmqOf(t))
  BY <1>1, <1>2, PlacesDiffer DEF Moves
<1>4. ThreadIn(w, t, th[t])
  BY <1>1
<1>5. /\ Lists(th[t].qcache, Q) /\ Lists(th[t].rmq, At(w, RmqOf(t)))
      /\ T = {th[t].task} /\ At(w, RmqOf(t)) = {}
  BY <1>4 DEF ThreadIn, ThreadOf, Working
<1>6. T \cap Q = {}
  BY AtFacts, PlacesDiffer
<1> HIDE DEF Q, T
<1>7. Lists(th2[t].qcache, Q \cup T)
  <2>1. Lists(<<th[t].task>>, T)
    BY <1>5, OneListed
  <2>2. Lists(<<th[t].task>> \o th[t].qcache, T \cup Q)
    BY <1>5, <1>6, <2>1, ListsConcat
  <2>3. T \cup Q = Q \cup T
    OBVIOUS
  <2> QED
    BY <2>2, <2>3, Zenon
<1>8. ThreadIn(v, t, th2[t])
  BY <1>3, <1>5, <1>7 DEF ThreadIn, ThreadOf, Working
<1>9. ASSUME NEW x \in Threads, x # t
       PROVE  ThreadIn(v, x, th2[x])
  <2>1. ThreadIn(w, x, th[x]) /\ Alike(th[x], th2[x])
    BY <1>1, <1>9
  <2>2. TaskOf(t) \in PlacesOf(t) /\ QcacheOf(t) \in PlacesOf(t)
    BY DEF PlacesOf
  <2> QED
    BY <1>2, <1>9, <2>1, <2>2, OtherIn
<1>10. \A x \in Threads : ThreadIn(v, x, th2[x])
  BY <1>8, <1>9
<1>11. Placed(v, s, u, th2)
  BY <1>1, <1>3, <1>10 DEF Placed, PoolIn
<1> QED
  BY <1>11

\* or goes to the cache.
LEMMA TaskGiven ==
  ASSUME NEW w, NEW s, NEW u, NEW th, Placed(w, s, u, th), NEW t \in Threads,
         NEW th2, \A x \in Threads \ {t} : Alike(th[x], th2[x]), th[t].at = "run",
         th2[t] \in ThreadType, th2[t].qcache = th[t].qcache,
         th2[t].task = NoObject, th2[t].rmq = th[t].rmq, th2[t].at = "ready"
  PROVE  \E v : Placed(v, [s EXCEPT !.xq = AddQlDir(@, <<th[t].task>>)], u, th2)
<1> DEFINE q == AddQlDir(s.xq, <<th[t].task>>)
           r == [s EXCEPT !.xq = q]
           C == At(w, Cached)
           T == At(w, TaskOf(t))
<1>1. /\ w \in [Objects -> Somewhere] /\ u = At(w, InUse)
      /\ IsPool(s, C, At(w, BackIn)) /\ Lists(s.xq, C)
      /\ At(w, Nowhere) = {x \in Objects : Page(x) \notin Taken(s)}
      /\ \A x \in Threads : ThreadIn(w, x, th[x])
  BY PlacedFacts
<1>2. PICK v : Moves(w, T, TaskOf(t), Cached, v)
  BY <1>1, PlacesDiffer, PlacesThere, MoveExists
<1>3. /\ v \in [Objects -> Somewhere] /\ At(v, InUse) = u
      /\ At(v, Cached) = C \cup T /\ At(v, BackIn) = At(w, BackIn)
      /\ At(v, Nowhere) = At(w, Nowhere)
      /\ At(v, TaskOf(t)) = {}
      /\ At(v, QcacheOf(t)) = At(w, QcacheOf(t)) /\ At(v, RmqOf(t)) = At(w, RmqOf(t))
  BY <1>1, <1>2, PlacesDiffer DEF Moves
<1>4. ThreadIn(w, t, th[t])
  BY <1>1
<1>5. /\ Lists(th[t].qcache, At(w, QcacheOf(t))) /\ Lists(th[t].rmq, At(w, RmqOf(t)))
      /\ T = {th[t].task} /\ At(w, RmqOf(t)) = {}
  BY <1>4 DEF ThreadIn, ThreadOf, Working
<1>6. C \cap T = {} /\ C \cup T \in SUBSET Objects
  BY AtFacts, PlacesDiffer
<1> HIDE DEF C, T
<1>7. Lists(q, C \cup T)
  <2>1. Lists(<<th[t].task>>, T)
    BY <1>5, OneListed
  <2>2. Lists(q, T \cup C)
    BY <1>1, <1>6, <2>1, ListsConcat DEF AddQlDir
  <2>3. T \cup C = C \cup T
    OBVIOUS
  <2> HIDE DEF q
  <2> QED
    BY <2>2, <2>3
<1> HIDE DEF q
<1>8. IsPool(r, C \cup T, At(w, BackIn)) /\ Taken(r) = Taken(s)
  BY <1>1, <1>6, <1>7, CacheChanges
<1>9. ThreadIn(v, t, th2[t])
  BY <1>3, <1>5 DEF ThreadIn, ThreadOf, Working
<1>10. ASSUME NEW x \in Threads, x # t
       PROVE  ThreadIn(v, x, th2[x])
  <2>1. ThreadIn(w, x, th[x]) /\ Alike(th[x], th2[x])
    BY <1>1, <1>10
  <2>2. TaskOf(t) \in PlacesOf(t) /\ Cached \in PlacesOf(t)
    BY DEF PlacesOf
  <2> QED
    BY <1>2, <1>10, <2>1, <2>2, OtherIn
<1>11. \A x \in Threads : ThreadIn(v, x, th2[x])
  BY <1>9, <1>10
<1> HIDE DEF r
<1>12. Placed(v, r, u, th2)
  BY <1>1, <1>3, <1>8, <1>11 DEF Placed, PoolIn
<1> QED
  BY <1>12 DEF r, q


-----------------------------------------------------------------------------
(***************************************************************************)
(* What a thread gives back                                                *)
(***************************************************************************)

\* smcache_get_flush_ql
LEMMA FlushSplits ==
  ASSUME NEW q, NEW S, Lists(q, S), NEW limit \in Int
  PROVE  \E T \in SUBSET S : /\ Lists(FlushQ(q, limit), T)
                             /\ Lists(Remaining(q, limit), S \ T)
<1> DEFINE n == Flushed(q, limit)
<1>1. Len(q) \in Nat
  BY ListFacts
<1>2. n \in 0..Len(q)
  BY <1>1, FlushedBound
<1>3. FlushQ(q, limit) = SubSeq(q, 1, n) /\ Remaining(q, limit) = SubSeq(q, n + 1, Len(q))
  BY DEF FlushQ, Remaining
<1> HIDE DEF n
<1>4. PICK T \in SUBSET S : Lists(SubSeq(q, 1, n), T) /\ Lists(SubSeq(q, n + 1, Len(q)), S \ T)
  BY <1>2, ListsCut
<1> QED
  BY <1>3, <1>4

\* cpool_core_GC_run
LEMMA TakenOut ==
  ASSUME NEW w, NEW s, NEW u, NEW th, Placed(w, s, u, th), NEW t \in Threads,
         NEW th2, \A x \in Threads \ {t} : Alike(th[x], th2[x]), th[t].at = "gc",
         NEW limit \in Int, th2[t] \in ThreadType, th2[t].qcache = th[t].qcache,
         th2[t].task = NoObject, th2[t].rmq = FlushQ(s.xq, limit), th2[t].at = "free"
  PROVE  \E v : Placed(v, [s EXCEPT !.xq = Remaining(@, limit)], u, th2)
<1> DEFINE q == Remaining(s.xq, limit)
           r == [s EXCEPT !.xq = q]
           C == At(w, Cached)
<1>1. /\ w \in [Objects -> Somewhere] /\ u = At(w, InUse)
      /\ IsPool(s, C, At(w, BackIn)) /\ Lists(s.xq, C)
      /\ At(w, Nowhere) = {x \in Objects : Page(x) \notin Taken(s)}
      /\ \A x \in Threads : ThreadIn(w, x, th[x])
  BY PlacedFacts
<1>2. PICK T \in SUBSET C : Lists(FlushQ(s.xq, limit), T) /\ Lists(q, C \ T)
  BY <1>1, FlushSplits
<1>3. PICK v : Moves(w, T, Cached, RmqOf(t), v)
  BY <1>1, PlacesDiffer, PlacesThere, MoveExists
<1>4. /\ v \in [Objects -> Somewhere] /\ At(v, InUse) = u
      /\ At(v, Cached) = C \ T /\ At(v, BackIn) = At(w, BackIn)
      /\ At(v, Nowhere) = At(w, Nowhere)
      /\ At(v, TaskOf(t)) = At(w, TaskOf(t))
      /\ At(v, QcacheOf(t)) = At(w, QcacheOf(t)) /\ At(v, RmqOf(t)) = At(w, RmqOf(t)) \cup T
  BY <1>1, <1>3, PlacesDiffer DEF Moves
<1>5. ThreadIn(w, t, th[t])
  BY <1>1
<1>6. /\ Lists(th[t].qcache, At(w, QcacheOf(t)))
      /\ At(w, TaskOf(t)) = {} /\ At(w, RmqOf(t)) = {}
  BY <1>5 DEF ThreadIn, ThreadOf, Working
<1>7. C \ T \in SUBSET Objects
  BY AtFacts
<1> HIDE DEF C, q
<1>8. IsPool(r, C \ T, At(w, BackIn)) /\ Taken(r) = Taken(s)
  BY <1>1, <1>2, <1>7, CacheChanges
<1>9. ThreadIn(v, t, th2[t])
  <2>1. {} \cup T = T
    OBVIOUS
  <2> QED
    BY <1>2, <1>4, <1>6, <2>1 DEF ThreadIn, ThreadOf, Working
<1>10. ASSUME NEW x \in Threads, x # t
       PROVE  ThreadIn(v, x, th2[x])
  <2>1. ThreadIn(w, x, th[x]) /\ Alike(th[x], th2[x])
    BY <1>1, <1>10
  <2>2. Cached \in PlacesOf(t) /\ RmqOf(t) \in PlacesOf(t)
    BY DEF PlacesOf
  <2> QED
    BY <1>3, <1>10, <2>1, <2>2, OtherIn
<1>11. \A x \in Threads : ThreadIn(v, x, th2[x])
  BY <1>9, <1>10
<1> HIDE DEF r
<1>12. Placed(v, r, u, th2)
  BY <1>1, <1>4, <1>8, <1>11 DEF Placed, PoolIn
<1> QED
  BY <1>12 DEF r, q

\* The objects R, which are nowhere in the blocks s, are put back.
PutFrom(w, s, C, a, s2, v) ==
    /\ v \in [Objects -> Somewhere]
    /\ IsPool(s2, C, At(v, BackIn))
    /\ At(v, Nowhere) = {o \in Objects : Page(o) \notin Taken(s2)}
    /\ At(v, a) = {}
    /\ \A q : q \notin {a, BackIn, Nowhere} => At(v, q) = At(w, q)
    /\ Taken(s2) \subseteq Taken(s)

LEMMA Freeing ==
  ASSUME NEW w \in [Objects -> Somewhere], NEW s, NEW C, IsPool(s, C, At(w, BackIn)),
         At(w, Nowhere) = {o \in Objects : Page(o) \notin Taken(s)},
         NEW a \in Somewhere, a # BackIn, a # Nowhere, NEW rmq, Lists(rmq, At(w, a))
  PROVE  \E v : PutFrom(w, s, C, a, Destroyed(s, rmq), v)
<1> DEFINE P == At(w, BackIn)
           R == At(w, a)
           s2 == Destroyed(s, rmq)
<1>1. /\ R \in SUBSET Objects /\ R \cap P = {} /\ P \subseteq Objects
      /\ R \cap At(w, Nowhere) = {} /\ P \cap At(w, Nowhere) = {}
  BY AtFacts, PlacesDiffer
<1>2. \A o \in R : Page(o) \in Taken(s)
  BY <1>1
<1> HIDE DEF P, R, s2
<1>3. Given(s, s2, C, P, R)
  BY <1>1, <1>2, DestroyedKeeps DEF P, R, s2
<1>4. PICK F \in SUBSET Pages :
        /\ IsPool(s2, C, {o \in P \cup R : Page(o) \notin F})
        /\ Taken(s2) = Taken(s) \ F
        /\ \A page \in F : PageObjs(page) \subseteq P \cup R
  BY <1>3 DEF Given
<1> DEFINE G == {o \in P \cup R : Page(o) \in F}
<1>5. PICK x : Moves(w, R, a, BackIn, x)
  <2>1. R \subseteq At(w, a) /\ BackIn \in Somewhere
    BY PlacesThere DEF R
  <2> QED
    BY <2>1, MoveExists
<1>6. /\ x \in [Objects -> Somewhere] /\ At(x, BackIn) = P \cup R /\ At(x, a) = {}
      /\ \A q : q # a /\ q # BackIn => At(x, q) = At(w, q)
  BY <1>5 DEF Moves, P, R
<1>7. PICK v : Moves(x, G, BackIn, Nowhere, v)
  <2>1. G \subseteq At(x, BackIn) /\ BackIn \in Somewhere /\ Nowhere \in Somewhere
        /\ BackIn # Nowhere
    BY <1>6, PlacesThere, PlacesDiffer
  <2> HIDE DEF G
  <2> QED
    BY <1>6, <2>1, MoveExists
<1>8. /\ v \in [Objects -> Somewhere]
      /\ At(v, BackIn) = (P \cup R) \ G /\ At(v, Nowhere) = At(w, Nowhere) \cup G
      /\ At(v, a) = {}
      /\ \A q : q \notin {a, BackIn, Nowhere} => At(v, q) = At(w, q)
  <2>1. /\ v \in [Objects -> Somewhere]
        /\ At(v, BackIn) = At(x, BackIn) \ G /\ At(v, Nowhere) = At(x, Nowhere) \cup G
        /\ \A q : q # BackIn /\ q # Nowhere => At(v, q) = At(x, q)
    BY <1>7 DEF Moves
  <2> HIDE DEF G
  <2>2. BackIn # Nowhere
    BY PlacesDiffer
  <2> QED
    BY <1>6, <2>1, <2>2
<1>9. (P \cup R) \ G = {o \in P \cup R : Page(o) \notin F}
  OBVIOUS
<1>10. At(w, Nowhere) \cup G = {o \in Objects : Page(o) \notin Taken(s2)}
  <2>1. ASSUME NEW o \in Objects, Page(o) \in F PROVE o \in P \cup R
    <3>1. o \in PageObjs(Page(o))
      BY ObjectFacts
    <3> QED
      BY <1>4, <2>1, <3>1
  <2>2. G = {o \in Objects : Page(o) \in F}
    BY <1>1, <2>1
  <2> HIDE DEF G
  <2>3. \A o \in Objects : Page(o) \notin Taken(s2) <=> Page(o) \notin Taken(s) \/ Page(o) \in F
    BY <1>4
  <2> QED
    BY <2>2, <2>3
<1> HIDE DEF G
<1>11. IsPool(s2, C, At(v, BackIn))
  BY <1>4, <1>8, <1>9, Zenon
<1>12. At(v, Nowhere) = {o \in Objects : Page(o) \notin Taken(s2)}
  BY <1>8, <1>10, Zenon
<1>13. Taken(s2) \subseteq Taken(s)
  BY <1>4
<1>14. PutFrom(w, s, C, a, s2, v)
  BY <1>8, <1>11, <1>12, <1>13 DEF PutFrom
<1> QED
  BY <1>14 DEF s2

\* smcache_destroy_q
LEMMA GivenUp ==
  ASSUME NEW w, NEW s, NEW u, NEW th, Placed(w, s, u, th), NEW t \in Threads,
         NEW th2, \A x \in Threads \ {t} : Alike(th[x], th2[x]), th[t].at = "free",
         th2[t] \in ThreadType, th2[t].qcache = th[t].qcache,
         th2[t].task = th[t].task, th2[t].rmq = <<>>, th2[t].at = "ready"
  PROVE  \E v : Placed(v, Destroyed(s, th[t].rmq), u, th2)
<1> DEFINE C == At(w, Cached)
           r == Destroyed(s, th[t].rmq)
<1>1. /\ w \in [Objects -> Somewhere] /\ u = At(w, InUse)
      /\ IsPool(s, C, At(w, BackIn))
      /\ At(w, Nowhere) = {x \in Objects : Page(x) \notin Taken(s)}
      /\ \A x \in Threads : ThreadIn(w, x, th[x])
  BY PlacedFacts
<1>2. ThreadIn(w, t, th[t])
  BY <1>1
<1>3. /\ Lists(th[t].qcache, At(w, QcacheOf(t))) /\ Lists(th[t].rmq, At(w, RmqOf(t)))
      /\ At(w, TaskOf(t)) = {} /\ th[t].task = NoObject
  BY <1>2 DEF ThreadIn, ThreadOf, Working
<1> DEFINE a == RmqOf(t)
<1>4. a \in Somewhere /\ a # BackIn /\ a # Nowhere
  BY PlacesDiffer, PlacesThere
<1> HIDE DEF C
<1>5. PICK v : PutFrom(w, s, C, a, r, v)
  <2> HIDE DEF a
  <2>1. Lists(th[t].rmq, At(w, a))
    BY <1>3 DEF a
  <2> QED
    BY <1>1, <1>4, <2>1, Freeing
<1> HIDE DEF r
<1>6. /\ v \in [Objects -> Somewhere] /\ IsPool(r, C, At(v, BackIn))
      /\ At(v, Nowhere) = {o \in Objects : Page(o) \notin Taken(r)} /\ At(v, a) = {}
      /\ \A q : q \notin {a, BackIn, Nowhere} => At(v, q) = At(w, q)
  BY <1>5 DEF PutFrom
<1>7. At(v, Cached) = C /\ At(v, InUse) = u
      /\ At(v, TaskOf(t)) = At(w, TaskOf(t)) /\ At(v, QcacheOf(t)) = At(w, QcacheOf(t))
  BY <1>1, <1>6, PlacesDiffer DEF C
<1>8. ThreadIn(v, t, th2[t])
  <2>1. Lists(<<>>, {})
    BY EmptyLists
  <2> QED
    BY <1>3, <1>6, <1>7, <2>1 DEF ThreadIn, ThreadOf, Working
<1>9. ASSUME NEW x \in Threads, x # t
      PROVE  ThreadIn(v, x, th2[x])
  <2>1. ThreadIn(w, x, th2[x])
    <3>1. ThreadIn(w, x, th[x]) /\ Alike(th[x], th2[x])
      BY <1>1, <1>9
    <3> QED
      BY <3>1, AlikeIn
  <2>2. /\ At(v, TaskOf(x)) = At(w, TaskOf(x)) /\ At(v, QcacheOf(x)) = At(w, QcacheOf(x))
        /\ At(v, RmqOf(x)) = At(w, RmqOf(x))
    BY <1>6, <1>9, PlacesDiffer
  <2> QED
    BY <2>1, <2>2 DEF ThreadIn
<1>10. \A x \in Threads : ThreadIn(v, x, th2[x])
  BY <1>8, <1>9
<1>11. Placed(v, r, u, th2)
  BY <1>6, <1>7, <1>10 DEF Placed, PoolIn
<1> QED
  BY <1>11 DEF r

-----------------------------------------------------------------------------
(***************************************************************************)
(* The pool is destroyed                                                   *)
(***************************************************************************)

\* All objects of a pool of which none is in use can be destroyed.
LEMMA AllFlushed ==
  ASSUME NEW q, NEW S \in SUBSET Objects, Lists(q, S)
  PROVE  FlushQ(q, 0) = q /\ Remaining(q, 0) = <<>>
<1>1. /\ Len(q) \in Nat /\ \A i \in 1..Len(q) : q[i] \in Objects
      /\ q \in Seq(Objects) /\ DOMAIN q = 1..Len(q)
  BY ListFacts
<1>2. \A i \in 1..Len(q) : NeedDestroy(q[i])
  BY <1>1, ObjAssumption DEF NeedDestroy, ObjAssumption
<1>3. Flushed(q, 0) = Len(q)
  <2>1. CASE Len(q) = 0
    BY <2>1 DEF Flushed, Flushablel
  <2>2. CASE Len(q) # 0
    <3>1. 1 \in 1..Len(q) /\ Len(q) \in 1..Len(q)
      BY <1>1, <2>2
    <3>2. NeedDestroy(q[1]) /\ NeedDestroy(Last(q))
      BY <1>2, <3>1 DEF Last
    <3>3. Flushablel(q, 0)
      BY <1>1, <2>2, <3>2 DEF Flushablel
    <3> QED
      BY <3>2, <3>3 DEF Flushed
  <2> QED
    BY <2>1, <2>2
<1>4. SubSeq(q, 1, Len(q)) = q
  <2> DEFINE p == SubSeq(q, 1, Len(q))
  <2>1. /\ p \in Seq(Objects)
        /\ Len(p) = (IF 1 <= Len(q) THEN Len(q) - 1 + 1 ELSE 0)
        /\ \A i \in 1..Len(q) - 1 + 1 : p[i] = q[1 + i - 1]
    BY <1>1, SubSeqProperties
  <2> HIDE DEF p
  <2>2. Len(p) = Len(q)
    BY <1>1, <2>1
  <2>3. ASSUME NEW i \in 1..Len(q) PROVE p[i] = q[i]
    <3>1. i \in 1..Len(q) - 1 + 1 /\ 1 + i - 1 = i
      BY <1>1
    <3> QED
      BY <2>1, <3>1
  <2>4. p = q
    BY <1>1, <2>1, <2>2, <2>3, SeqEqual
  <2> QED
    BY <2>4 DEF p
<1>5. SubSeq(q, Len(q) + 1, Len(q)) = <<>>
  BY <1>1, SubSeqEmpty
<1> QED
  BY <1>3, <1>4, <1>5 DEF FlushQ, Remaining


-----------------------------------------------------------------------------
(***************************************************************************)
(* The places of the objects, whichever they are                           *)
(***************************************************************************)

LEMMA SomewhereIs ==
  ASSUME NEW p \in Somewhere
  PROVE  \/ p \in {Cached, InUse, BackIn, Nowhere}
         \/ \E t \in Threads : p \in {TaskOf(t), QcacheOf(t), RmqOf(t)}
BY DEF Somewhere, Places, Cached, InUse, BackIn, Nowhere, TaskOf, QcacheOf, RmqOf

\* No block has all its objects.
LEMMA NeverFull ==
  ASSUME NEW s, NEW C, NEW P, IsPool(s, C, P), NEW page \in Taken(s)
  PROVE  ~(PageObjs(page) \subseteq P)
<1> SUFFICES ASSUME PageObjs(page) \subseteq P PROVE FALSE
  OBVIOUS
<1>1. BlocksHold(s.blocks, P) /\ Taken(s) = Begins(s.blocks) /\ P \subseteq Objects
  BY PoolShape, TakenIs
<1>2. PICK b \in 1..Len(s.blocks) : s.blocks[b].begin = page
  BY <1>1 DEF Begins
<1>3. page \in Pages
  BY <1>1, <1>2, SortedFacts DEF BlocksHold
<1>4. Lists(s.blocks[b].putq, PutAt(P, page)) /\ Len(s.blocks[b].putq) < BlockObjs
  BY <1>1, <1>2 DEF BlocksHold
<1>5. PutAt(P, page) = PageObjs(page)
  <2>1. \A o \in P : Page(o) = page => o \in PageObjs(page)
    BY <1>1, ObjectFacts
  <2>2. \A o \in PageObjs(page) : Page(o) = page
    BY <1>3, ObjectFacts
  <2> QED
    BY <2>1, <2>2 DEF PutAt
<1>6. Cardinality(PageObjs(page)) = Len(s.blocks[b].putq)
  BY <1>4, <1>5, ListsLen
<1>7. Cardinality(PageObjs(page)) = BlockObjs /\ BlockObjs \in Nat
  BY <1>3, ObjectFacts
<1> QED
  BY <1>4, <1>6, <1>7

\* cpool_core_dtor
LEMMA Emptied ==
  ASSUME NEW w, NEW s, NEW u, NEW th, Placed(w, s, u, th), u = {},
         \A t \in Threads : th[t].at \in {"none", "cached"},
         NEW r, r = Destroyed([s EXCEPT !.xq = Remaining(@, 0)], FlushQ(s.xq, 0))
  PROVE  r.blocks = <<>> /\ r.xq = <<>> /\ \E v : Placed(v, r, u, th)
<1> DEFINE C == At(w, Cached)
           P == At(w, BackIn)
           e == <<>>
           s1 == [s EXCEPT !.xq = e]
<1>1. /\ w \in [Objects -> Somewhere] /\ u = At(w, InUse)
      /\ IsPool(s, C, P) /\ Lists(s.xq, C)
      /\ At(w, Nowhere) = {x \in Objects : Page(x) \notin Taken(s)}
      /\ \A t \in Threads : ThreadIn(w, t, th[t])
  BY PlacedFacts
<1>2. Lists(e, {}) /\ {} \in SUBSET Objects /\ C \in SUBSET Objects
  BY EmptyLists, AtFacts
<1> HIDE DEF C, P
<1>3. FlushQ(s.xq, 0) = s.xq /\ Remaining(s.xq, 0) = e
  BY <1>1, <1>2, AllFlushed
<1>4. r = Destroyed(s1, s.xq)
  BY <1>3
<1> HIDE DEF e
<1>5. IsPool(s1, {}, P) /\ Taken(s1) = Taken(s)
  <2> DEFINE none == {}
  <2>1. Lists(e, none) /\ none \in SUBSET Objects
    BY <1>2
  <2> HIDE DEF none
  <2>2. IsPool(s1, none, P) /\ Taken(s1) = Taken(s)
    BY <1>1, <2>1, CacheChanges
  <2> QED
    BY <2>2 DEF none
<1> HIDE DEF s1
<1>6. PICK v : PutFrom(w, s1, {}, Cached, r, v)
  <2>1. Cached \in Somewhere /\ Cached # BackIn /\ Cached # Nowhere
    BY PlacesDiffer, PlacesThere
  <2>2. IsPool(s1, {}, At(w, BackIn)) /\ Lists(s.xq, At(w, Cached))
    BY <1>1, <1>5 DEF C, P
  <2>3. At(w, Nowhere) = {x \in Objects : Page(x) \notin Taken(s1)}
    BY <1>1, <1>5
  <2>4. \E v : PutFrom(w, s1, {}, Cached, Destroyed(s1, s.xq), v)
    BY <1>1, <2>1, <2>2, <2>3, Freeing, Zenon
  <2> QED
    BY <1>4, <2>4
<1>7. /\ v \in [Objects -> Somewhere] /\ IsPool(r, {}, At(v, BackIn))
      /\ At(v, Nowhere) = {o \in Objects : Page(o) \notin Taken(r)} /\ At(v, Cached) = {}
      /\ \A q : q \notin {Cached, BackIn, Nowhere} => At(v, q) = At(w, q)
  BY <1>6 DEF PutFrom
<1>8. At(v, InUse) = u
  BY <1>1, <1>7, PlacesDiffer
<1>9. ASSUME NEW t \in Threads
      PROVE  /\ At(v, TaskOf(t)) = At(w, TaskOf(t)) /\ At(v, QcacheOf(t)) = At(w, QcacheOf(t))
             /\ At(v, RmqOf(t)) = At(w, RmqOf(t))
             /\ At(w, TaskOf(t)) = {} /\ At(w, QcacheOf(t)) = {} /\ At(w, RmqOf(t)) = {}
  <2>1. ThreadIn(w, t, th[t]) /\ th[t].at \in {"none", "cached"}
    BY <1>1
  <2>2. At(w, TaskOf(t)) = {} /\ At(w, QcacheOf(t)) = {} /\ At(w, RmqOf(t)) = {}
    BY <2>1 DEF ThreadIn, ThreadOf, Working
  <2>3. /\ At(v, TaskOf(t)) = At(w, TaskOf(t)) /\ At(v, QcacheOf(t)) = At(w, QcacheOf(t))
        /\ At(v, RmqOf(t)) = At(w, RmqOf(t))
    BY <1>7, PlacesDiffer
  <2> QED
    BY <2>2, <2>3
<1>10. \A t \in Threads : ThreadIn(v, t, th[t])
  BY <1>1, <1>9 DEF ThreadIn
<1>11. Placed(v, r, u, th)
  <2>1. IsPool(r, At(v, Cached), At(v, BackIn))
    BY <1>7
  <2> QED
    BY <1>7, <1>8, <1>10, <2>1 DEF Placed, PoolIn
<1>12. \A o \in Objects : o \in At(v, BackIn) \cup At(v, Nowhere)
  <2> SUFFICES ASSUME NEW o \in Objects, o \notin At(v, BackIn), o \notin At(v, Nowhere)
               PROVE  FALSE
    OBVIOUS
  <2> DEFINE p == v[o]
  <2>1. p \in Somewhere /\ o \in At(v, p)
    BY <1>7 DEF At
  <2> HIDE DEF p
  <2>2. CASE p \in {Cached, InUse, BackIn, Nowhere}
    BY <1>7, <1>8, <2>1, <2>2
  <2>3. ASSUME NEW t \in Threads, p \in {TaskOf(t), QcacheOf(t), RmqOf(t)} PROVE FALSE
    BY <1>9, <2>1, <2>3
  <2> QED
    BY <2>1, <2>2, <2>3, SomewhereIs
<1>13. Taken(r) = {}
  <2> SUFFICES ASSUME NEW page \in Taken(r) PROVE FALSE
    OBVIOUS
  <2>1. page \in Pages
    <3>1. BlocksHold(r.blocks, At(v, BackIn)) /\ Taken(r) = Begins(r.blocks)
      BY <1>7, PoolShape, TakenIs
    <3> QED
      BY <3>1, SortedFacts DEF BlocksHold, Begins
  <2>2. \A o \in PageObjs(page) : o \in Objects /\ Page(o) = page
    BY <2>1, ObjectFacts
  <2>3. PageObjs(page) \subseteq At(v, BackIn)
    BY <1>7, <1>12, <2>2
  <2> QED
    BY <1>7, <2>3, NeverFull
<1>14. r.blocks = <<>>
  <2>1. BlocksHold(r.blocks, At(v, BackIn)) /\ Taken(r) = Begins(r.blocks)
    BY <1>7, PoolShape, TakenIs
  <2>2. Len(r.blocks) \in Nat /\ r.blocks \in Seq(BlockType)
    BY <2>1, SortedFacts DEF BlocksHold, Sorted
  <2>3. Len(r.blocks) = 0
    <3> SUFFICES ASSUME Len(r.blocks) # 0 PROVE FALSE
      OBVIOUS
    <3>1. 1 \in 1..Len(r.blocks)
      BY <2>2
    <3>2. r.blocks[1].begin \in Begins(r.blocks)
      BY <3>1 DEF Begins
    <3> QED
      BY <1>13, <2>1, <3>2
  <2> QED
    BY <2>2, <2>3, EmptySeq
<1>15. r.xq = <<>>
  <2>1. Lists(r.xq, {})
    BY <1>7 DEF IsPool
  <2> QED
    BY <2>1, EmptyLists
<1> QED
  BY <1>11, <1>14, <1>15

-----------------------------------------------------------------------------
(***************************************************************************)
(* Steps                                                                   *)
(***************************************************************************)

\* Each object is somewhere.
ObjectsKept(s, u, th) == \E w : Placed(w, s, u, th)
LEMMA FetchPlaces ==
  ASSUME ObjectsKept(pool, used, ths), NEW c, Fetch(c), pool.xq # <<>>, UNCHANGED ths
  PROVE  ObjectsKept(pool', used', ths')
BY Fetched DEF ObjectsKept, Fetch

LEMMA CreatePlaces ==
  ASSUME ObjectsKept(pool, used, ths), NEW c, CacheCreate(c), "ascending" \in Careful
  PROVE  ObjectsKept(pool', used', ths')
<1>1. UNCHANGED ths
  BY DEF CacheCreate
<1>2. PICK w : Placed(w, pool, used, ths)
  BY DEF ObjectsKept
<1>3. CASE pool.xq # <<>> /\ Fetch(c)
  BY <1>1, <1>3, FetchPlaces
<1>4. CASE /\ pool.nput > 0
           /\ pool' = Regained(pool).pool /\ used' = used \cup {Regained(pool).obj}
  <2>1. \E v : Placed(v, Regained(pool).pool, used \cup {Regained(pool).obj}, ths)
    BY <1>2, <1>4, FromBlocks
  <2> QED
    BY <1>1, <1>4, <2>1 DEF ObjectsKept
<1>5. ASSUME NEW page \in Pages \ Taken(pool), PlaceOf(pool.blocks, page) # Outside,
             pool' = WithBlock(pool, page), used' = used \cup {<<page, 0>>}
      PROVE  ObjectsKept(pool', used', ths')
  <2>1. \E v : Placed(v, WithBlock(pool, page), used \cup {<<page, 0>>}, ths)
    BY <1>2, <1>5, FromPage
  <2> QED
    BY <1>1, <1>5, <2>1 DEF ObjectsKept
<1>6. CASE UNCHANGED <<pool, used>>
  BY <1>1, <1>6
<1> QED
  BY <1>3, <1>4, <1>5, <1>6 DEF CacheCreate

LEMMA PutPlaces ==
  ASSUME ObjectsKept(pool, used, ths), NEW c, CachePut(c)
  PROVE  ObjectsKept(pool', used', ths')
<1>1. PICK w : Placed(w, pool, used, ths)
  BY DEF ObjectsKept
<1>2. PICK O \in SUBSET used : used' = used \ O
                               /\ pool' = [pool EXCEPT !.xq = AddQl(@, SetToSeq(O))]
  BY DEF CachePut
<1>3. \E v : Placed(v, [pool EXCEPT !.xq = AddQl(@, SetToSeq(O))], used \ O, ths)
  BY <1>1, IntoCache
<1> QED
  BY <1>2, <1>3 DEF ObjectsKept, CachePut

\* Threads change, but not what they have.
LEMMA AlikePlaces ==
  ASSUME ObjectsKept(pool, used, ths), UNCHANGED <<pool, used>>,
         \A t \in Threads : Alike(ths[t], ths'[t])
  PROVE  ObjectsKept(pool', used', ths')
<1>1. PICK w : Placed(w, pool, used, ths)
  BY DEF ObjectsKept
<1>2. Placed(w, pool, used, ths')
  BY <1>1, SameThreads
<1> QED
  BY <1>2 DEF ObjectsKept

LEMMA FlushAllAlike ==
  ASSUME NEW th, \A t \in Threads : th[t] \in ThreadType
  PROVE  \A t \in Threads : /\ Alike(th[t], FlushAll(th)[t]) /\ FlushAll(th)[t] \in ThreadType
                            /\ FlushAll(th)[t].at = th[t].at
<1> SUFFICES ASSUME NEW t \in Threads
             PROVE  /\ Alike(th[t], FlushAll(th)[t]) /\ FlushAll(th)[t] \in ThreadType
                    /\ FlushAll(th)[t].at = th[t].at
  OBVIOUS
<1> DEFINE r == FlushAll(th)[t]
<1>1. r = th[t] \/ r = [th[t] EXCEPT !.flags = @ \cup {"FLUSH"}]
  BY DEF FlushAll
<1> HIDE DEF r
<1>2. CASE r = th[t]
  BY <1>2 DEF Alike, r
<1>3. CASE r = [th[t] EXCEPT !.flags = @ \cup {"FLUSH"}]
  <2>1. th[t] \in ThreadType
    OBVIOUS
  <2>2. SameObjects(th[t], r) /\ r \in ThreadType /\ r.at = th[t].at
    BY <1>3, <2>1 DEF ThreadType, SameObjects, Flags
  <2> QED
    BY <2>2 DEF Alike, r
<1> QED
  BY <1>1, <1>2, <1>3

\* A thread with another place, and other flags.
Set(r, at, flags, seen) == [r EXCEPT !.at = at, !.flags = flags, !.seen = seen]

LEMMA OtherPlace ==
  ASSUME NEW r \in ThreadType, NEW at \in Location, NEW flags \in Flags, NEW seen \in Flags
  PROVE  /\ Set(r, at, flags, seen) \in ThreadType /\ Set(r, at, flags, seen).at = at
         /\ Set(r, at, flags, seen).task = r.task
         /\ Set(r, at, flags, seen).qcache = r.qcache
         /\ Set(r, at, flags, seen).rmq = r.rmq
<1> DEFINE r2 == Set(r, at, flags, seen)
<1>1. /\ r2.at = at /\ r2.task = r.task /\ r2.qcache = r.qcache /\ r2.rmq = r.rmq
  BY DEF ThreadType, Set
<1>2. r2 \in ThreadType
  BY DEF ThreadType, Set
<1> QED
  BY <1>1, <1>2

LEMMA SetAlike ==
  ASSUME NEW th \in [Threads -> ThreadType], NEW t \in Threads,
         NEW at \in Location, NEW flags \in Flags, NEW seen \in Flags,
         at \in Working <=> th[t].at \in Working, at = "free" <=> th[t].at = "free",
         at \in {"none", "cached", "left"} => th[t].at \in {"none", "cached", "left"},
         NEW th2, th2 = [th EXCEPT ![t] = Set(@, at, flags, seen)]
  PROVE  \A x \in Threads : Alike(th[x], th2[x])
<1> DEFINE r == th[t]
           r2 == th2[t]
<1>1. (\A x \in Threads \ {t} : th2[x] = th[x]) /\ r2 = Set(r, at, flags, seen)
  OBVIOUS
<1>2. r \in ThreadType /\ r.at = th[t].at
  OBVIOUS
<1> HIDE DEF r, r2
<1>3. /\ r2 \in ThreadType /\ r2.at = at /\ r2.task = r.task
      /\ r2.qcache = r.qcache /\ r2.rmq = r.rmq
  BY <1>1, <1>2, OtherPlace
<1>4. SameObjects(r, r2)
  BY <1>2, <1>3 DEF SameObjects
<1> QED
  BY <1>1, <1>4 DEF Alike, r, r2

LEMMA TypeOfThreads ==
  ASSUME NEW s, NEW u, NEW th, ObjectsKept(s, u, th), AreThreads(th)
  PROVE  th \in [Threads -> ThreadType]
<1>1. PICK w : Placed(w, s, u, th)
  BY DEF ObjectsKept
<1>2. \A t \in Threads : ThreadIn(w, t, th[t])
  BY <1>1, PlacedFacts
<1>3. \A t \in Threads : th[t] \in ThreadType
  BY <1>2 DEF ThreadIn, ThreadOf
<1> QED
  BY <1>3 DEF AreThreads

\* The place of t and its flags change.
LEMMA OneAlike ==
  ASSUME NEW s, NEW u, NEW th, ObjectsKept(s, u, th), AreThreads(th), NEW t \in Threads,
         NEW at \in Location, NEW flags \in Flags, NEW seen \in Flags,
         at \in Working <=> th[t].at \in Working, at = "free" <=> th[t].at = "free",
         at \in {"none", "cached", "left"} => th[t].at \in {"none", "cached", "left"},
         NEW th2, th2 = [th EXCEPT ![t] = Set(@, at, flags, seen)]
  PROVE  ObjectsKept(s, u, th2)
<1>1. th \in [Threads -> ThreadType]
  BY TypeOfThreads
<1>2. \A x \in Threads : Alike(th[x], th2[x])
  BY <1>1, SetAlike
<1>3. PICK w : Placed(w, s, u, th)
  BY DEF ObjectsKept
<1>4. Placed(w, s, u, th2)
  BY <1>2, <1>3, SameThreads
<1> QED
  BY <1>4 DEF ObjectsKept


-----------------------------------------------------------------------------
(***************************************************************************)
(* Threads that take and give objects                                      *)
(***************************************************************************)

\* Threads that are changed by a step, in fields that say where objects are.
Tasked(r, o, at) == [r EXCEPT !.task = o, !.at = at]
Cleared(r, at) == [r EXCEPT !.at = at, !.qcache = <<>>, !.flags = @ \ {"FLUSH"}]
Storing(r) == [r EXCEPT !.at = "ready", !.task = NoObject, !.qcache = <<r.task>> \o @]
Giving(r, rmq) == [r EXCEPT !.at = "free", !.limit = 0, !.rmq = rmq]
Given0(r) == [r EXCEPT !.at = "ready", !.rmq = <<>>]

LEMMA TaskedFacts ==
  ASSUME NEW r \in ThreadType, NEW o \in Objects \cup {NoObject}, NEW at \in Location
  PROVE  /\ Tasked(r, o, at) \in ThreadType
         /\ Tasked(r, o, at).task = o /\ Tasked(r, o, at).at = at
         /\ Tasked(r, o, at).qcache = r.qcache /\ Tasked(r, o, at).rmq = r.rmq
<1> DEFINE r2 == Tasked(r, o, at)
<1>1. /\ r2.at = at /\ r2.task = o /\ r2.qcache = r.qcache /\ r2.rmq = r.rmq
  BY DEF ThreadType, Tasked
<1>2. r2 \in ThreadType
  BY DEF ThreadType, Tasked
<1> QED
  BY <1>1, <1>2

LEMMA ClearedFacts ==
  ASSUME NEW r \in ThreadType, NEW at \in Location
  PROVE  /\ Cleared(r, at) \in ThreadType
         /\ Cleared(r, at).task = r.task /\ Cleared(r, at).at = at
         /\ Cleared(r, at).qcache = <<>> /\ Cleared(r, at).rmq = r.rmq
<1> DEFINE r2 == Cleared(r, at)
<1>1. /\ r2.at = at /\ r2.task = r.task /\ r2.qcache = <<>> /\ r2.rmq = r.rmq
  BY DEF ThreadType, Cleared
<1>2. r2 \in ThreadType
  <2>1. <<>> \in Seq(Objects)
    OBVIOUS
  <2>2. r.flags \ {"FLUSH"} \in Flags
    BY DEF ThreadType, Flags
  <2> QED
    BY <2>1, <2>2 DEF ThreadType, Cleared
<1> QED
  BY <1>1, <1>2

LEMMA StoringFacts ==
  ASSUME NEW r \in ThreadType, r.task \in Objects
  PROVE  /\ Storing(r) \in ThreadType
         /\ Storing(r).task = NoObject /\ Storing(r).at = "ready"
         /\ Storing(r).qcache = <<r.task>> \o r.qcache /\ Storing(r).rmq = r.rmq
<1> DEFINE r2 == Storing(r)
<1>1. /\ r2.at = "ready" /\ r2.task = NoObject /\ r2.qcache = <<r.task>> \o r.qcache
      /\ r2.rmq = r.rmq
  BY DEF ThreadType, Storing
<1>2. r2 \in ThreadType
  <2>1. <<r.task>> \o r.qcache \in Seq(Objects)
    <3>1. <<r.task>> \in Seq(Objects) /\ r.qcache \in Seq(Objects)
      BY DEF ThreadType
    <3> QED
      BY <3>1, ConcatProperties
  <2> DEFINE q == <<r.task>> \o r.qcache
  <2> HIDE DEF q
  <2>2. Storing(r) = [r EXCEPT !.at = "ready", !.task = NoObject, !.qcache = q]
    BY DEF Storing, q
  <2>3. q \in Seq(Objects)
    BY <2>1 DEF q
  <2> QED
    BY <2>2, <2>3 DEF ThreadType, Location
<1> QED
  BY <1>1, <1>2

LEMMA GivingFacts ==
  ASSUME NEW r \in ThreadType, NEW rmq \in Seq(Objects)
  PROVE  /\ Giving(r, rmq) \in ThreadType
         /\ Giving(r, rmq).task = r.task /\ Giving(r, rmq).at = "free"
         /\ Giving(r, rmq).qcache = r.qcache /\ Giving(r, rmq).rmq = rmq
<1> DEFINE r2 == Giving(r, rmq)
<1>1. /\ r2.at = "free" /\ r2.task = r.task /\ r2.qcache = r.qcache /\ r2.rmq = rmq
  BY DEF ThreadType, Giving
<1>2. r2 \in ThreadType
  <2>1. "free" \in Location /\ 0 \in Int
    BY DEF Location
  <2> QED
    BY <2>1 DEF ThreadType, Giving
<1> QED
  BY <1>1, <1>2

LEMMA Given0Facts ==
  ASSUME NEW r \in ThreadType
  PROVE  /\ Given0(r) \in ThreadType
         /\ Given0(r).task = r.task /\ Given0(r).at = "ready"
         /\ Given0(r).qcache = r.qcache /\ Given0(r).rmq = <<>>
<1> DEFINE r2 == Given0(r)
<1>1. /\ r2.at = "ready" /\ r2.task = r.task /\ r2.qcache = r.qcache /\ r2.rmq = <<>>
  BY DEF ThreadType, Given0
<1>2. r2 \in ThreadType
  <2>1. "ready" \in Location /\ <<>> \in Seq(Objects)
    BY DEF Location
  <2> QED
    BY <2>1 DEF ThreadType, Given0
<1> QED
  BY <1>1, <1>2

LEMMA TakeKept ==
  ASSUME NEW s, NEW u, NEW th, ObjectsKept(s, u, th), AreThreads(th), NEW t \in Threads,
         NEW o \in u, th[t].at = "ready", NEW at \in {"run", "taken"},
         NEW th2, th2 = [th EXCEPT ![t] = Tasked(@, o, at)]
  PROVE  ObjectsKept(s, u \ {o}, th2)
<1>1. th \in [Threads -> ThreadType]
  BY TypeOfThreads
<1>2. PICK w : Placed(w, s, u, th)
  BY DEF ObjectsKept
<1>3. o \in Objects
  BY <1>2, PlacedFacts, AtFacts
<1> DEFINE r == th[t]
<1>4. r \in ThreadType /\ th2[t] = Tasked(r, o, at) /\ at \in Location
  BY <1>1 DEF Location
<1>5. \A x \in Threads \ {t} : Alike(th[x], th2[x])
  BY <1>1 DEF Alike
<1> DEFINE r2 == th2[t]
<1> HIDE DEF r, r2
<1>6. r2 = Tasked(r, o, at)
  BY <1>4 DEF r2
<1>7. /\ r2 \in ThreadType /\ r2.task = o /\ r2.at = at /\ r2.qcache = r.qcache
      /\ r2.rmq = r.rmq
  BY <1>3, <1>4, <1>6, TaskedFacts
<1>8. \E v : Placed(v, s, u \ {o}, th2)
  <2>1. /\ th2[t] \in ThreadType /\ th2[t].task = o /\ th2[t].at \in {"run", "taken"}
        /\ th2[t].qcache = th[t].qcache /\ th2[t].rmq = th[t].rmq
    BY <1>7 DEF r, r2
  <2> QED
    BY <1>2, <1>5, <2>1, TaskTaken
<1> QED
  BY <1>8 DEF ObjectsKept

\* A thread without objects
Bare(r) ==
    /\ r \in ThreadType /\ r.task = NoObject /\ r.qcache = <<>> /\ r.rmq = <<>>
    /\ r.at \notin Working /\ r.at # "free"

\* What a thread outside a task and the GC has
LEMMA Outside0 ==
  ASSUME NEW w, NEW s, NEW u, NEW th, Placed(w, s, u, th), NEW t \in Threads,
         th[t].at \notin Working, th[t].at # "free"
  PROVE  th[t].task = NoObject /\ th[t].rmq = <<>>
<1>1. ThreadIn(w, t, th[t])
  BY PlacedFacts
<1>2. th[t].task = NoObject /\ Lists(th[t].rmq, {})
  BY <1>1 DEF ThreadIn, ThreadOf
<1> QED
  BY <1>2, EmptyLists

LEMMA GaveAll ==
  ASSUME NEW s, NEW u, NEW th, ObjectsKept(s, u, th), NEW t \in Threads,
         th[t].at \notin Working, th[t].at # "free",
         NEW th2, \A x \in Threads \ {t} : Alike(th[x], th2[x]), Bare(th2[t])
  PROVE  ObjectsKept([s EXCEPT !.xq = AddQlDir(@, th[t].qcache)], u, th2)
<1>1. PICK w : Placed(w, s, u, th)
  BY DEF ObjectsKept
<1>2. th[t].task = NoObject /\ th[t].rmq = <<>>
  BY <1>1, Outside0
<1>3. /\ th2[t] \in ThreadType /\ th2[t].qcache = <<>> /\ th2[t].task = th[t].task
      /\ th2[t].rmq = th[t].rmq /\ (th2[t].at \in Working <=> th[t].at \in Working)
      /\ (th2[t].at = "free" <=> th[t].at = "free")
  BY <1>2 DEF Bare
<1>4. \E v : Placed(v, [s EXCEPT !.xq = AddQlDir(@, th[t].qcache)], u, th2)
  BY <1>1, <1>3, GaveBack
<1> QED
  BY <1>4 DEF ObjectsKept

\* cpool_core_objs_local_flush
LEMMA ClearedKept ==
  ASSUME NEW s, NEW u, NEW th, ObjectsKept(s, u, th), AreThreads(th), NEW t \in Threads,
         NEW at \in Location, at \in Working <=> th[t].at \in Working,
         at = "free" <=> th[t].at = "free",
         NEW th2, th2 = [th EXCEPT ![t] = Cleared(@, at)]
  PROVE  ObjectsKept([s EXCEPT !.xq = AddQlDir(@, th[t].qcache)], u, th2)
<1>1. th \in [Threads -> ThreadType]
  BY TypeOfThreads
<1>2. PICK w : Placed(w, s, u, th)
  BY DEF ObjectsKept
<1> DEFINE r == th[t]
           r2 == th2[t]
<1>3. r \in ThreadType /\ r2 = Cleared(r, at) /\ r.at = th[t].at
  BY <1>1
<1>4. \A x \in Threads \ {t} : Alike(th[x], th2[x])
  BY <1>1 DEF Alike
<1> HIDE DEF r, r2
<1>5. /\ r2 \in ThreadType /\ r2.task = r.task /\ r2.at = at /\ r2.qcache = <<>>
      /\ r2.rmq = r.rmq
  BY <1>3, ClearedFacts
<1>6. \E v : Placed(v, [s EXCEPT !.xq = AddQlDir(@, th[t].qcache)], u, th2)
  <2>1. /\ th2[t] \in ThreadType /\ th2[t].qcache = <<>> /\ th2[t].task = th[t].task
        /\ th2[t].rmq = th[t].rmq /\ (th2[t].at \in Working <=> th[t].at \in Working)
        /\ (th2[t].at = "free" <=> th[t].at = "free")
    BY <1>3, <1>5 DEF r, r2
  <2> QED
    BY <1>2, <1>4, <2>1, GaveBack
<1> QED
  BY <1>6 DEF ObjectsKept

StoredIn(s, u, th, t, th2) ==
    /\ ObjectsKept(s, u, th2) /\ AreThreads(th2) /\ th2[t].at = "ready"
    /\ th2[t].qcache = <<th[t].task>> \o th[t].qcache

LEMMA StoredKept ==
  ASSUME NEW s, NEW u, NEW th, ObjectsKept(s, u, th), AreThreads(th), NEW t \in Threads,
         th[t].at = "run", NEW th2, th2 = [th EXCEPT ![t] = Storing(@)]
  PROVE  StoredIn(s, u, th, t, th2)
<1>1. th \in [Threads -> ThreadType]
  BY TypeOfThreads
<1>2. PICK w : Placed(w, s, u, th)
  BY DEF ObjectsKept
<1> DEFINE r == th[t]
           r2 == th2[t]
<1>3. r \in ThreadType /\ r2 = Storing(r) /\ r.at = "run" /\ ThreadIn(w, t, r)
  BY <1>1, <1>2, PlacedFacts
<1>4. (\A x \in Threads \ {t} : Alike(th[x], th2[x])) /\ AreThreads(th2)
  BY <1>1 DEF Alike, AreThreads
<1> HIDE DEF r, r2
<1>5. r.task \in Objects
  BY <1>3 DEF ThreadIn, ThreadOf, Working, ThreadType
<1>6. /\ r2 \in ThreadType /\ r2.task = NoObject /\ r2.at = "ready"
      /\ r2.qcache = <<r.task>> \o r.qcache /\ r2.rmq = r.rmq
  BY <1>3, <1>5, StoringFacts
<1>7. /\ th2[t] \in ThreadType /\ th2[t].qcache = <<th[t].task>> \o th[t].qcache
      /\ th2[t].task = NoObject /\ th2[t].rmq = th[t].rmq /\ th2[t].at = "ready"
  BY <1>6 DEF r, r2
<1>8. \E v : Placed(v, s, u, th2)
  BY <1>2, <1>3, <1>4, <1>7, TaskKept DEF r
<1> QED
  BY <1>4, <1>7, <1>8 DEF ObjectsKept, StoredIn

LEMMA GpDoneKept ==
  ASSUME NEW s, NEW u, NEW th, ObjectsKept(s, u, th), AreThreads(th), NEW t \in Threads,
         th[t].at = "run", NEW th2, th2 = [th EXCEPT ![t] = Tasked(@, NoObject, "ready")]
  PROVE  ObjectsKept([s EXCEPT !.xq = AddQlDir(@, <<th[t].task>>)], u, th2)
<1>1. th \in [Threads -> ThreadType]
  BY TypeOfThreads
<1>2. PICK w : Placed(w, s, u, th)
  BY DEF ObjectsKept
<1> DEFINE r == th[t]
           r2 == th2[t]
<1>3. r \in ThreadType /\ r2 = Tasked(r, NoObject, "ready") /\ r.at = "run"
  BY <1>1
<1>4. \A x \in Threads \ {t} : Alike(th[x], th2[x])
  BY <1>1 DEF Alike
<1> HIDE DEF r, r2
<1>5. "ready" \in Location
  BY DEF Location
<1>6. /\ r2 \in ThreadType /\ r2.task = NoObject /\ r2.at = "ready"
      /\ r2.qcache = r.qcache /\ r2.rmq = r.rmq
  BY <1>3, <1>5, TaskedFacts
<1>7. /\ th2[t] \in ThreadType /\ th2[t].qcache = th[t].qcache
      /\ th2[t].task = NoObject /\ th2[t].rmq = th[t].rmq /\ th2[t].at = "ready"
  BY <1>6 DEF r, r2
<1>8. \E v : Placed(v, [s EXCEPT !.xq = AddQlDir(@, <<th[t].task>>)], u, th2)
  BY <1>2, <1>3, <1>4, <1>7, TaskGiven DEF r
<1> QED
  BY <1>8 DEF ObjectsKept

LEMMA RunKept ==
  ASSUME NEW s, NEW u, NEW th, ObjectsKept(s, u, th), AreThreads(th), NEW t \in Threads,
         th[t].at = "gc", NEW limit \in Int,
         NEW th2, th2 = [th EXCEPT ![t] = Giving(@, FlushQ(s.xq, limit))]
  PROVE  ObjectsKept([s EXCEPT !.xq = Remaining(@, limit)], u, th2)
<1>1. th \in [Threads -> ThreadType]
  BY TypeOfThreads
<1>2. PICK w : Placed(w, s, u, th)
  BY DEF ObjectsKept
<1> DEFINE r == th[t]
           r2 == th2[t]
           rmq == FlushQ(s.xq, limit)
<1>3. r \in ThreadType /\ r2 = Giving(r, rmq) /\ r.at = "gc" /\ r.task = NoObject
  BY <1>1, <1>2, Outside0 DEF Working
<1>4. \A x \in Threads \ {t} : Alike(th[x], th2[x])
  BY <1>1 DEF Alike
<1>5. rmq \in Seq(Objects)
  <2>1. Lists(s.xq, At(w, Cached)) /\ At(w, Cached) \subseteq Objects
    BY <1>2, PlacedFacts, AtFacts
  <2> DEFINE S == At(w, Cached)
  <2> HIDE DEF S, rmq
  <2>2. PICK T \in SUBSET S : Lists(rmq, T)
    BY <2>1, FlushSplits DEF S, rmq
  <2>3. rmq \in Seq(T) /\ T \subseteq Objects
    BY <2>1, <2>2 DEF Lists, S
  <2> QED
    BY <2>3
<1> HIDE DEF r, r2, rmq
<1>6. /\ r2 \in ThreadType /\ r2.task = r.task /\ r2.at = "free"
      /\ r2.qcache = r.qcache /\ r2.rmq = rmq
  BY <1>3, <1>5, GivingFacts
<1>7. /\ th2[t] \in ThreadType /\ th2[t].qcache = th[t].qcache
      /\ th2[t].task = NoObject /\ th2[t].rmq = FlushQ(s.xq, limit) /\ th2[t].at = "free"
  BY <1>3, <1>6 DEF r, r2, rmq
<1>8. \E v : Placed(v, [s EXCEPT !.xq = Remaining(@, limit)], u, th2)
  BY <1>2, <1>4, <1>7, TakenOut
<1> QED
  BY <1>8 DEF ObjectsKept

LEMMA FreeKept ==
  ASSUME NEW s, NEW u, NEW th, ObjectsKept(s, u, th), AreThreads(th), NEW t \in Threads,
         th[t].at = "free", NEW th2, th2 = [th EXCEPT ![t] = Given0(@)]
  PROVE  ObjectsKept(Destroyed(s, th[t].rmq), u, th2)
<1>1. th \in [Threads -> ThreadType]
  BY TypeOfThreads
<1>2. PICK w : Placed(w, s, u, th)
  BY DEF ObjectsKept
<1> DEFINE r == th[t]
           r2 == th2[t]
<1>3. r \in ThreadType /\ r2 = Given0(r)
  BY <1>1
<1>4. \A x \in Threads \ {t} : Alike(th[x], th2[x])
  BY <1>1 DEF Alike
<1> HIDE DEF r, r2
<1>6. /\ r2 \in ThreadType /\ r2.task = r.task /\ r2.at = "ready"
      /\ r2.qcache = r.qcache /\ r2.rmq = <<>>
  BY <1>3, Given0Facts
<1>7. /\ th2[t] \in ThreadType /\ th2[t].qcache = th[t].qcache
      /\ th2[t].task = th[t].task /\ th2[t].rmq = <<>> /\ th2[t].at = "ready"
  BY <1>6 DEF r, r2
<1>8. \E v : Placed(v, Destroyed(s, th[t].rmq), u, th2)
  BY <1>2, <1>4, <1>7, GivenUp
<1> QED
  BY <1>8 DEF ObjectsKept


-----------------------------------------------------------------------------
(***************************************************************************)
(* A thread that leaves or goes to sleep                                   *)
(***************************************************************************)

\* r is what t leaves behind when it has given back all it has to the list q.
Leaves(r, th, t, q) ==
    /\ Bare(r.ths[t]) /\ \A x \in Threads \ {t} : Alike(th[x], r.ths[x])
    /\ r.xq = q
    /\ r.ths[t].at \in {"asleep", "left", "gc"}
    /\ \A x \in Threads \ {t} : r.ths[x].at = th[x].at

LEMMA NewThreadBare ==
  ASSUME NEW where \in {"none", "cached", "ready", "left"}
  PROVE  Bare(NewThread(where))
BY DEF Bare, NewThread, ThreadType, Location, Flags, Working

LEMMA LeftLeaves ==
  ASSUME NEW th \in [Threads -> ThreadType], NEW g, NEW t \in Threads, NEW q
  PROVE  Leaves(Left(th, t, q, g), th, t, AddQlDir(q, th[t].qcache))
<1> DEFINE r == Left(th, t, q, g)
           th2 == [th EXCEPT ![t] = NewThread("left")]
<1>1. r.ths = th2 /\ r.xq = AddQlDir(q, th[t].qcache)
  BY DEF Left
<1>2. th2[t] = NewThread("left") /\ \A x \in Threads \ {t} : th2[x] = th[x]
  OBVIOUS
<1> HIDE DEF th2, r
<1>3. Bare(th2[t]) /\ th2[t].at = "left"
  BY <1>2, NewThreadBare DEF NewThread
<1>4. \A x \in Threads \ {t} : Alike(th[x], th2[x])
  BY <1>2 DEF Alike
<1> QED
  BY <1>1, <1>2, <1>3, <1>4 DEF Leaves, r

LEMMA RestLeaves ==
  ASSUME NEW th \in [Threads -> ThreadType], NEW g, NEW t \in Threads, NEW q,
         th[t].task = NoObject, th[t].rmq = <<>>
  PROVE  Leaves(Rest(th, t, q, g), th, t, AddQlDir(q, th[t].qcache))
<1>1. CASE Quits(th[t].flags)
  BY <1>1, LeftLeaves DEF Rest
<1>2. CASE ~Quits(th[t].flags)
  <2> DEFINE r == Rest(th, t, q, g)
             th2 == [th EXCEPT ![t] = Cleared(@, "asleep")]
             x1 == th[t]
  <2>1. r.ths = th2 /\ r.xq = AddQlDir(q, th[t].qcache)
    BY <1>2 DEF Rest, Cleared
  <2>2. th2[t] = Cleared(x1, "asleep") /\ x1 \in ThreadType
        /\ \A x \in Threads \ {t} : th2[x] = th[x]
    OBVIOUS
  <2>3. x1.task = NoObject /\ x1.rmq = <<>>
    OBVIOUS
  <2> HIDE DEF th2, r, x1
  <2>4. "asleep" \in Location /\ "asleep" \notin Working
    BY DEF Location, Working
  <2>5. Bare(Cleared(x1, "asleep")) /\ Cleared(x1, "asleep").at = "asleep"
    BY <2>2, <2>3, <2>4, ClearedFacts DEF Bare
  <2>6. \A x \in Threads \ {t} : Alike(th[x], th2[x])
    BY <2>2 DEF Alike
  <2> QED
    BY <2>1, <2>2, <2>5, <2>6 DEF Leaves, r
<1> QED
  BY <1>1, <1>2

\* The flags of a thread change.
Flagged(r, flags) == [r EXCEPT !.flags = flags]

LEMMA FlaggedFacts ==
  ASSUME NEW r \in ThreadType, NEW flags \in Flags
  PROVE  /\ Flagged(r, flags) \in ThreadType
         /\ Flagged(r, flags).task = r.task /\ Flagged(r, flags).qcache = r.qcache
         /\ Flagged(r, flags).rmq = r.rmq /\ Flagged(r, flags).at = r.at
<1> DEFINE r2 == Flagged(r, flags)
<1>1. /\ r2.task = r.task /\ r2.qcache = r.qcache /\ r2.rmq = r.rmq /\ r2.at = r.at
  BY DEF ThreadType, Flagged
<1>2. r2 \in ThreadType
  BY DEF ThreadType, Flagged
<1> QED
  BY <1>1, <1>2

\* t in th0 has given all, and the others of th0 are as in th.
LEMMA RestAfter ==
  ASSUME NEW th \in [Threads -> ThreadType], NEW th0 \in [Threads -> ThreadType],
         NEW g, NEW t \in Threads, NEW q, NEW S, q \in Seq(S),
         Bare(th0[t]),
         \A x \in Threads \ {t} : Alike(th[x], th0[x]) /\ th0[x].at = th[x].at
  PROVE  Leaves(Rest(th0, t, q, g), th, t, q)
<1> DEFINE r == Rest(th0, t, q, g)
<1>1. th0[t].task = NoObject /\ th0[t].rmq = <<>> /\ th0[t].qcache = <<>>
  BY DEF Bare
<1>2. Leaves(r, th0, t, AddQlDir(q, <<>>))
  BY <1>1, RestLeaves
<1>3. AddQlDir(q, <<>>) = q
  BY DEF AddQlDir
<1>4. \A x \in Threads \ {t} : r.ths[x] = th0[x]
  <2>1. \/ r.ths = [th0 EXCEPT ![t] = NewThread("left")]
        \/ r.ths = [th0 EXCEPT ![t].at = "asleep", ![t].qcache = <<>>,
                               ![t].flags = @ \ {"FLUSH"}]
    BY DEF Rest, Left
  <2> QED
    BY <2>1
<1> QED
  BY <1>2, <1>3, <1>4 DEF Leaves, Alike

LEMMA SelectedLeaves ==
  ASSUME ths \in [Threads -> ThreadType], NEW t \in Threads, ths[t].at = "ready",
         ths[t].task = NoObject, ths[t].rmq = <<>>, GcOneTime \in Int,
         NEW q, NEW S, q \in Seq(S)
  PROVE  Leaves(Selected(t, q), ths, t, q)
<1> DEFINE own == [ths EXCEPT ![t] = Cleared(@, "ready")]
           th == IF Len(q) = 0 THEN FlushAll(own) ELSE own
           f == ths[t].flags
           out == [th EXCEPT ![t] = Flagged(@, @.flags \ {"GC"})]
           joined == [th EXCEPT ![t] = Flagged(@, @.flags \cup {"GC"})]
           doing == [joined EXCEPT ![t].at = "gc", ![t].limit = Len(q) - GcOneTime]
           mine == [gc EXCEPT !.GC = t]
           none == IF "GC" \in f THEN [gc EXCEPT !.GC = NoThread] ELSE gc
           off == [gc EXCEPT !.due = FALSE, !.delay = FALSE]
<1>1. Selected(t, q) =
        IF Enough(Len(q)) THEN Rest(out, t, q, none)
        ELSE IF PutOff(f, Len(q)) THEN Rest(th, t, q, off)
        ELSE IF ~gc.due THEN Rest(joined, t, q, mine)
        ELSE [ths |-> doing, gc |-> mine, xq |-> q]
  <2>1. own = [ths EXCEPT ![t].qcache = <<>>, ![t].flags = @ \ {"FLUSH"}]
    <3> DEFINE r == ths[t]
    <3>1. r \in ThreadType /\ r.at = "ready"
      OBVIOUS
    <3> HIDE DEF r
    <3>2. Cleared(r, "ready") = [r EXCEPT !.qcache = <<>>, !.flags = @ \ {"FLUSH"}]
      BY <3>1 DEF Cleared, ThreadType
    <3> QED
      BY <3>2 DEF r
  <2> HIDE DEF own
  <2> QED
    BY <2>1 DEF Selected, Flagged
<1>2. /\ own \in [Threads -> ThreadType] /\ Bare(own[t]) /\ own[t].at = "ready"
      /\ \A x \in Threads \ {t} : own[x] = ths[x]
  <2> DEFINE r == ths[t]
             r2 == Cleared(r, "ready")
  <2>1. r \in ThreadType /\ r.task = NoObject /\ r.rmq = <<>>
    OBVIOUS
  <2> HIDE DEF r
  <2>2. "ready" \in Location /\ "ready" \notin Working
    BY DEF Location, Working
  <2>3. r2 \in ThreadType /\ Bare(r2) /\ r2.at = "ready"
    BY <2>1, <2>2, ClearedFacts DEF Bare
  <2> HIDE DEF r2
  <2>4. own = [ths EXCEPT ![t] = r2]
    BY DEF r2, r
  <2> HIDE DEF own
  <2> QED
    BY <2>3, <2>4
<1> HIDE DEF own
<1>3. /\ th \in [Threads -> ThreadType]
      /\ Bare(th[t]) /\ th[t].at = "ready"
      /\ \A x \in Threads \ {t} : Alike(ths[x], th[x]) /\ th[x].at = ths[x].at
  <2>1. CASE Len(q) = 0
    <3>1. /\ FlushAll(own) \in [Threads -> ThreadType]
          /\ \A x \in Threads : /\ Alike(own[x], FlushAll(own)[x])
                               /\ FlushAll(own)[x].at = own[x].at
      <4>1. \A x \in Threads : own[x] \in ThreadType
        BY <1>2
      <4>2. \A x \in Threads : /\ Alike(own[x], FlushAll(own)[x])
                               /\ FlushAll(own)[x] \in ThreadType
                               /\ FlushAll(own)[x].at = own[x].at
        BY <4>1, FlushAllAlike
      <4>3. FlushAll(own) = [x \in Threads |-> FlushAll(own)[x]]
        BY DEF FlushAll
      <4> QED
        BY <4>2, <4>3
    <3>2. FlushAll(own)[t] = own[t]
      BY <1>2 DEF FlushAll, Bare
    <3> QED
      BY <1>2, <2>1, <3>1, <3>2
  <2>2. CASE Len(q) # 0
    BY <1>2, <2>2 DEF Alike
  <2> QED
    BY <2>1, <2>2
<1> HIDE DEF th
<1>4. ASSUME NEW flags \in Flags, NEW th0, th0 = [th EXCEPT ![t] = Flagged(@, flags)]
      PROVE  /\ th0 \in [Threads -> ThreadType] /\ Bare(th0[t]) /\ th0[t].at = "ready"
             /\ \A x \in Threads \ {t} : Alike(ths[x], th0[x]) /\ th0[x].at = ths[x].at
  <2> DEFINE r == th[t]
             r2 == Flagged(r, flags)
  <2>1. r \in ThreadType /\ Bare(r) /\ r.at = "ready"
    BY <1>3
  <2> HIDE DEF r
  <2>2. r2 \in ThreadType /\ Bare(r2) /\ r2.at = "ready"
    BY <2>1, FlaggedFacts DEF Bare
  <2> HIDE DEF r2
  <2>3. th0 = [th EXCEPT ![t] = r2]
    BY <1>4 DEF r2, r
  <2> QED
    BY <1>3, <2>2, <2>3
<1>5. th[t].flags \ {"GC"} \in Flags /\ th[t].flags \cup {"GC"} \in Flags
  <2>1. th[t] \in ThreadType
    BY <1>3
  <2> QED
    BY <2>1 DEF ThreadType, Flags
<1>6. /\ out \in [Threads -> ThreadType] /\ Bare(out[t])
      /\ \A x \in Threads \ {t} : Alike(ths[x], out[x]) /\ out[x].at = ths[x].at
  <2>1. out = [th EXCEPT ![t] = Flagged(@, th[t].flags \ {"GC"})]
    OBVIOUS
  <2> HIDE DEF out
  <2> QED
    BY <1>4, <1>5, <2>1
<1>7. /\ joined \in [Threads -> ThreadType] /\ Bare(joined[t]) /\ joined[t].at = "ready"
      /\ \A x \in Threads \ {t} : Alike(ths[x], joined[x]) /\ joined[x].at = ths[x].at
  <2>1. joined = [th EXCEPT ![t] = Flagged(@, th[t].flags \cup {"GC"})]
    OBVIOUS
  <2> HIDE DEF joined
  <2> QED
    BY <1>4, <1>5, <2>1
<1> HIDE DEF out, joined, none, off, mine
<1>8. Leaves([ths |-> doing, gc |-> mine, xq |-> q], ths, t, q)
  <2> DEFINE r == joined[t]
             n == Len(q) - GcOneTime
             r2 == [r EXCEPT !.at = "gc", !.limit = n]
  <2>1. r \in ThreadType /\ Bare(r) /\ n \in Int
    BY <1>7, LenProperties
  <2>2. doing[t] = r2 /\ \A x \in Threads \ {t} : doing[x] = joined[x]
    BY <1>7
  <2> HIDE DEF r, n
  <2>3. "gc" \in Location /\ "gc" \notin Working
    BY DEF Location, Working
  <2>4. r2 \in ThreadType /\ r2.task = r.task /\ r2.qcache = r.qcache /\ r2.rmq = r.rmq
        /\ r2.at = "gc"
    <3>1. r2.task = r.task /\ r2.qcache = r.qcache /\ r2.rmq = r.rmq /\ r2.at = "gc"
      BY <2>1 DEF ThreadType
    <3>2. r2 \in ThreadType
      BY <2>1, <2>3 DEF ThreadType
    <3> QED
      BY <3>1, <3>2
  <2> HIDE DEF r2, doing
  <2>5. Bare(r2)
    BY <2>1, <2>3, <2>4 DEF Bare
  <2> QED
    BY <1>7, <2>2, <2>4, <2>5 DEF Leaves
<1> HIDE DEF doing
<1>9. Leaves(Rest(out, t, q, none), ths, t, q)
  BY <1>6, RestAfter
<1>10. Leaves(Rest(th, t, q, off), ths, t, q)
  BY <1>3, RestAfter
<1>11. Leaves(Rest(joined, t, q, mine), ths, t, q)
  BY <1>7, RestAfter
<1> QED
  BY <1>1, <1>8, <1>9, <1>10, <1>11


-----------------------------------------------------------------------------
(***************************************************************************)
(* The objects are kept by the steps of callers and new threads            *)
(***************************************************************************)

LEMMA ThreadsKept ==
  ASSUME NEW s, NEW u, NEW th, ObjectsKept(s, u, th), NEW th2,
         \A t \in Threads : Alike(th[t], th2[t])
  PROVE  ObjectsKept(s, u, th2)
BY SameThreads DEF ObjectsKept

LEMMA GetPlaces ==
  ASSUME ObjectsKept(pool, used, ths), NEW c, CacheGet(c) \/ AskThreads(c)
  PROVE  ObjectsKept(pool', used', ths')
<1>1. CASE CacheGet(c)
  <2>1. CASE pool.xq # <<>>
    <3>1. Fetch(c) /\ UNCHANGED ths
      BY <1>1, <2>1 DEF CacheGet
    <3> QED
      BY <2>1, <3>1, FetchPlaces
  <2>2. CASE ~(pool.xq # <<>>)
    <3>1. UNCHANGED <<pool, used, ths>>
      BY <1>1, <2>2 DEF CacheGet
    <3> QED
      BY <3>1
  <2> QED
    BY <2>1, <2>2
<1>2. CASE AskThreads(c)
  <2>1. ths' = FlushAll(ths) /\ UNCHANGED <<pool, used>>
    BY <1>2 DEF AskThreads
  <2>2. PICK w : Placed(w, pool, used, ths)
    BY DEF ObjectsKept
  <2>3. \A t \in Threads : ths[t] \in ThreadType
    BY <2>2, PlacedFacts, ThreadFacts
  <2>4. \A t \in Threads : Alike(ths[t], FlushAll(ths)[t])
    BY <2>3, FlushAllAlike
  <2>5. ObjectsKept(pool, used, FlushAll(ths))
    BY <2>4, ThreadsKept
  <2> QED
    BY <2>1, <2>5
<1> QED
  BY <1>1, <1>2

\* A thread wakes up.
LEMMA WokenPlaces ==
  ASSUME ObjectsKept(pool, used, ths), AreThreads(ths), NEW t \in Threads,
         ths[t].at = "asleep", ths' = [ths EXCEPT ![t].at = "ready"],
         UNCHANGED <<pool, used>>
  PROVE  ObjectsKept(pool', used', ths')
<1>1. ths \in [Threads -> ThreadType]
  BY TypeOfThreads
<1> DEFINE r == ths[t]
           th2 == [ths EXCEPT ![t] = Set(@, "ready", r.flags, r.seen)]
<1>2. r \in ThreadType /\ r.at = "asleep"
  BY <1>1
<1>3. r.flags \in Flags /\ r.seen \in Flags /\ "ready" \in Location
  BY <1>2 DEF ThreadType, Location
<1>4. ths' = th2
  <2>1. Set(r, "ready", r.flags, r.seen) = [r EXCEPT !.at = "ready"]
    <3> HIDE DEF r
    <3> QED
      BY <1>2 DEF Set, ThreadType
  <2> QED
    BY <1>1, <2>1
<1>5. ObjectsKept(pool, used, th2)
  <2> DEFINE flags == r.flags
             seen == r.seen
             at == "ready"
  <2>1. /\ at \in Working <=> ths[t].at \in Working
        /\ at = "free" <=> ths[t].at = "free"
        /\ at \notin {"none", "cached", "left"}
        /\ at \in Location /\ flags \in Flags /\ seen \in Flags
    BY <1>3 DEF Working
  <2>2. th2 = [ths EXCEPT ![t] = Set(@, at, flags, seen)]
    OBVIOUS
  <2> HIDE DEF flags, seen, at, th2, r
  <2> QED
    BY <2>1, <2>2, OneAlike
<1> QED
  BY <1>4, <1>5

\* A thread object is taken from core->cache_thread, and perhaps put back into it.
LEMMA RenewedPlaces ==
  ASSUME ObjectsKept(pool, used, ths), AreThreads(ths), NEW t \in Threads,
         ths[t].at \in {"none", "cached", "left"},
         NEW where \in {"none", "cached", "ready", "left"},
         ths' = [ths EXCEPT ![t] = NewThread(where)], UNCHANGED <<pool, used>>
  PROVE  ObjectsKept(pool', used', ths')
<1> DEFINE th2 == [ths EXCEPT ![t] = NewThread(where)]
<1>1. th2[t] = NewThread(where) /\ \A x \in Threads \ {t} : th2[x] = ths[x]
  BY DEF AreThreads
<1> HIDE DEF th2
<1>2. \A x \in Threads : Alike(ths[x], th2[x])
  BY <1>1 DEF Alike
<1>3. ObjectsKept(pool, used, th2)
  BY <1>2, ThreadsKept
<1> QED
  BY <1>3 DEF th2

LEMMA HeadOfCache ==
  ASSUME FlagsIInv, thc # <<>>
  PROVE  Head(thc) \in Threads /\ ths[Head(thc)].at = "cached"
<1>1. Head(thc) = thc[1] /\ 1 \in 1..Len(thc) /\ Head(thc) \in Threads
  BY TailOfCache DEF FlagsIInv, CacheOf
<1> QED
  BY <1>1 DEF FlagsIInv, CacheOf

LEMMA StartsPlaces ==
  ASSUME ObjectsKept(pool, used, ths), FlagsIInv, NEW t \in Threads,
         Starts(t) \/ StartFails(t), UNCHANGED <<pool, used>>
  PROVE  ObjectsKept(pool', used', ths')
<1>1. ths[t].at \in {"none", "cached"}
  BY HeadOfCache DEF Starts, StartFails
<1>2. AreThreads(ths)
  BY DEF FlagsIInv, Agree
<1>3. \E where \in {"ready", "cached"} : ths' = [ths EXCEPT ![t] = NewThread(where)]
  BY DEF Starts, StartFails
<1> QED
  BY <1>1, <1>2, <1>3, RenewedPlaces

LEMMA TakePlaces ==
  ASSUME ObjectsKept(pool, used, ths), AreThreads(ths), NEW t \in Threads, TakeTask(t)
  PROVE  ObjectsKept(pool', used', ths')
<1>1. ths[t].at = "ready" /\ UNCHANGED pool
  BY DEF TakeTask
<1>2. PICK o \in used :
        /\ used' = used \ {o}
        /\ ths' = [ths EXCEPT ![t].task = o,
                              ![t].at = IF ths[t].flags = {} THEN "run" ELSE "taken"]
  BY DEF TakeTask
<1> DEFINE at == IF ths[t].flags = {} THEN "run" ELSE "taken"
           th2 == [ths EXCEPT ![t] = Tasked(@, o, at)]
<1>3. ths \in [Threads -> ThreadType]
  BY TypeOfThreads
<1>4. at \in {"run", "taken"}
  OBVIOUS
<1>5. ths' = [ths EXCEPT ![t].task = o, ![t].at = at]
  BY <1>2
<1> HIDE DEF at
<1>6. ths' = th2
  BY <1>3, <1>5 DEF Tasked
<1> HIDE DEF th2
<1>7. ObjectsKept(pool, used \ {o}, th2)
  BY <1>1, <1>4, TakeKept DEF th2
<1> QED
  BY <1>1, <1>2, <1>6, <1>7

\* The place and the flags of t change.
LEMMA SetPlaces ==
  ASSUME ObjectsKept(pool, used, ths), AreThreads(ths), NEW t \in Threads,
         NEW at \in Location, NEW flags \in Flags, NEW seen \in Flags,
         at \in Working <=> ths[t].at \in Working, at = "free" <=> ths[t].at = "free",
         at \in {"none", "cached", "left"} => ths[t].at \in {"none", "cached", "left"},
         ths' = [ths EXCEPT ![t].at = at, ![t].flags = flags, ![t].seen = seen],
         UNCHANGED <<pool, used>>
  PROVE  ObjectsKept(pool', used', ths')
<1> DEFINE th2 == [ths EXCEPT ![t] = Set(@, at, flags, seen)]
<1>1. ths \in [Threads -> ThreadType]
  BY TypeOfThreads
<1>2. ths' = th2
  BY <1>1 DEF Set
<1>3. ObjectsKept(pool, used, th2)
  <2> HIDE DEF th2
  <2>1. th2 = [ths EXCEPT ![t] = Set(@, at, flags, seen)]
    BY DEF th2
  <2> QED
    BY <2>1, OneAlike
<1> QED
  BY <1>2, <1>3


-----------------------------------------------------------------------------
(***************************************************************************)
(* The objects are kept by the steps of the threads                        *)
(***************************************************************************)

LEMMA SeePlaces ==
  ASSUME ObjectsKept(pool, used, ths), AreThreads(ths), NEW t \in Threads, SeeFlags(t)
  PROVE  ObjectsKept(pool', used', ths')
<1>1. ths \in [Threads -> ThreadType] /\ ths[t].at = "taken" /\ UNCHANGED used
  BY TypeOfThreads DEF SeeFlags
<1> DEFINE r == ths[t]
<1>2. r \in ThreadType /\ r.at = "taken" /\ r.flags \in Flags /\ r.seen \in Flags
  BY <1>1 DEF ThreadType
<1>3. /\ "taken" \in Working /\ "unset" \in Working /\ "run" \in Working
      /\ "unset" \in Location /\ "run" \in Location
  BY DEF Working, Location
<1>4. CASE /\ "GC" \in ths[t].flags /\ UNCHANGED pool
           /\ ths' = [ths EXCEPT ![t].at = "unset", ![t].seen = ths[t].flags]
  <2> DEFINE at == "unset"
             flags == r.flags
  <2>1. ths' = [ths EXCEPT ![t].at = at, ![t].flags = flags, ![t].seen = flags]
    BY <1>1, <1>4 DEF ThreadType
  <2>2. /\ at \in Location /\ flags \in Flags
        /\ at \in Working <=> ths[t].at \in Working
        /\ at = "free" <=> ths[t].at = "free"
        /\ at \in {"none", "cached", "left"} => ths[t].at \in {"none", "cached", "left"}
    BY <1>1, <1>2, <1>3
  <2> HIDE DEF at, flags
  <2>3. UNCHANGED <<pool, used>>
    BY <1>1, <1>4
  <2> QED
    BY <2>1, <2>2, <2>3, SetPlaces
<1>5. CASE /\ ths' = [ths EXCEPT ![t].at = "run"] /\ UNCHANGED pool
  <2> DEFINE at == "run"
             flags == r.flags
             seen == r.seen
  <2>1. ths' = [ths EXCEPT ![t].at = at, ![t].flags = flags, ![t].seen = seen]
    BY <1>1, <1>5 DEF ThreadType
  <2>2. /\ at \in Location /\ flags \in Flags /\ seen \in Flags
        /\ at \in Working <=> ths[t].at \in Working
        /\ at = "free" <=> ths[t].at = "free"
        /\ at \in {"none", "cached", "left"} => ths[t].at \in {"none", "cached", "left"}
    BY <1>1, <1>2, <1>3
  <2> HIDE DEF at, flags, seen
  <2>3. UNCHANGED <<pool, used>>
    BY <1>1, <1>5
  <2> QED
    BY <2>1, <2>2, <2>3, SetPlaces
<1>6. CASE FlushLocal([ths EXCEPT ![t].at = "run"], t)
  <2> DEFINE th1 == [ths EXCEPT ![t].at = "run"]
             th2 == [ths EXCEPT ![t] = Cleared(@, "run")]
  <2>1. th1[t].qcache = ths[t].qcache
    BY <1>1 DEF ThreadType
  <2>2. [th1 EXCEPT ![t].qcache = <<>>, ![t].flags = @ \ {"FLUSH"}] = th2
    BY <1>1 DEF ThreadType, Cleared
  <2>3. /\ pool' = [pool EXCEPT !.xq = AddQlDir(@, th1[t].qcache)]
        /\ ths' = [th1 EXCEPT ![t].qcache = <<>>, ![t].flags = @ \ {"FLUSH"}]
    BY <1>6 DEF FlushLocal
  <2>4. ths' = th2 /\ pool' = [pool EXCEPT !.xq = AddQlDir(@, ths[t].qcache)]
    BY <2>1, <2>2, <2>3
  <2> HIDE DEF th1
  <2>5. ObjectsKept([pool EXCEPT !.xq = AddQlDir(@, ths[t].qcache)], used, th2)
    <3> DEFINE at == "run"
    <3>1. /\ at \in Location
          /\ at \in Working <=> ths[t].at \in Working
          /\ at = "free" <=> ths[t].at = "free"
          /\ th2 = [ths EXCEPT ![t] = Cleared(@, at)]
      BY <1>1, <1>3
    <3> HIDE DEF at, th2
    <3> QED
      BY <3>1, ClearedKept
  <2> QED
    BY <1>1, <2>4, <2>5
<1> QED
  BY <1>4, <1>5, <1>6 DEF SeeFlags

LEMMA LeavePlaces ==
  ASSUME ObjectsKept(pool, used, ths), AreThreads(ths), NEW t \in Threads, GcLeave(t)
  PROVE  ObjectsKept(pool', used', ths')
<1> DEFINE at == "taken"
           flags == ths[t].seen \ {"GC"}
           seen == {}
<1>1. ths \in [Threads -> ThreadType] /\ ths[t].at = "unset"
  BY TypeOfThreads DEF GcLeave
<1>2. ths[t].seen \in Flags
  BY <1>1 DEF ThreadType
<1>3. ths' = [ths EXCEPT ![t].at = at, ![t].flags = flags, ![t].seen = seen]
  BY DEF GcLeave
<1>4. /\ at \in Location /\ flags \in Flags /\ seen \in Flags
      /\ at \in Working <=> ths[t].at \in Working
      /\ at = "free" <=> ths[t].at = "free"
      /\ at \in {"none", "cached", "left"} => ths[t].at \in {"none", "cached", "left"}
  BY <1>1, <1>2 DEF Location, Working, Flags
<1> HIDE DEF at, flags, seen
<1>5. UNCHANGED <<pool, used>>
  BY DEF GcLeave
<1> QED
  BY <1>3, <1>4, <1>5, SetPlaces

LEMMA MarkPlaces ==
  ASSUME ObjectsKept(pool, used, ths), AreThreads(ths), NEW t \in Threads, Mark(t)
  PROVE  ObjectsKept(pool', used', ths')
<1> DEFINE at == IF ths[t].at = "asleep" THEN "ready" ELSE ths[t].at
           flags == ths[t].flags \cup {"RM"}
           seen == ths[t].seen
<1>1. ths \in [Threads -> ThreadType]
  BY TypeOfThreads
<1>2. ths[t].seen \in Flags /\ ths[t].flags \in Flags /\ ths[t].at \in Location
  BY <1>1 DEF ThreadType
<1>3. ths' = [ths EXCEPT ![t].at = at, ![t].flags = flags, ![t].seen = seen]
  <2>1. ths' = [ths EXCEPT ![t].flags = flags, ![t].at = at]
    BY DEF Mark
  <2> HIDE DEF flags, at
  <2> QED
    BY <1>1, <2>1 DEF ThreadType
<1>4. /\ at \in Location /\ flags \in Flags /\ seen \in Flags
      /\ at \in Working <=> ths[t].at \in Working
      /\ at = "free" <=> ths[t].at = "free"
      /\ at \in {"none", "cached", "left"} => ths[t].at \in {"none", "cached", "left"}
  BY <1>1, <1>2 DEF Location, Working, Flags
<1> HIDE DEF at, flags, seen
<1>5. UNCHANGED <<pool, used>>
  BY DEF Mark
<1> QED
  BY <1>3, <1>4, <1>5, SetPlaces

LEMMA RevivePlaces ==
  ASSUME ObjectsKept(pool, used, ths), AreThreads(ths), NEW t \in Threads, Revives(t),
         UNCHANGED <<pool, used>>
  PROVE  ObjectsKept(pool', used', ths')
<1> DEFINE at == ths[t].at
           flags == ths[t].flags \ {"RM"}
           seen == ths[t].seen
<1>1. ths \in [Threads -> ThreadType]
  BY TypeOfThreads
<1>2. ths[t].seen \in Flags /\ ths[t].flags \in Flags /\ ths[t].at \in Location
  BY <1>1 DEF ThreadType
<1>3. ths' = [ths EXCEPT ![t].at = at, ![t].flags = flags, ![t].seen = seen]
  <2>1. ths' = [ths EXCEPT ![t].flags = flags]
    BY DEF Revives
  <2> HIDE DEF flags
  <2> QED
    BY <1>1, <2>1 DEF ThreadType
<1>4. /\ at \in Location /\ flags \in Flags /\ seen \in Flags
      /\ at \in Working <=> ths[t].at \in Working
      /\ at = "free" <=> ths[t].at = "free"
      /\ at \in {"none", "cached", "left"} => ths[t].at \in {"none", "cached", "left"}
  BY <1>1, <1>2 DEF Flags
<1> HIDE DEF at, flags, seen
<1> QED
  BY <1>3, <1>4, SetPlaces

LEMMA TryPlaces ==
  ASSUME ObjectsKept(pool, used, ths), FlagsIInv, NEW c, TryGC(c)
  PROVE  ObjectsKept(pool', used', ths')
<1>1. UNCHANGED <<pool, used>>
  BY DEF TryGC
<1>2. AreThreads(ths)
  BY DEF FlagsIInv, Agree
<1>3. \/ UNCHANGED ths
      \/ \E t \in Threads : ths[t].at = "asleep" /\ ths' = [ths EXCEPT ![t].at = "ready"]
      \/ \E t \in Threads : Revives(t) \/ Starts(t)
  BY DEF TryGC, Alive
<1>4. CASE UNCHANGED ths
  BY <1>1, <1>4
<1>5. ASSUME NEW t \in Threads, ths[t].at = "asleep", ths' = [ths EXCEPT ![t].at = "ready"]
      PROVE  ObjectsKept(pool', used', ths')
  BY <1>1, <1>2, <1>5, WokenPlaces
<1>6. ASSUME NEW t \in Threads, Starts(t)
      PROVE  ObjectsKept(pool', used', ths')
  BY <1>1, <1>6, StartsPlaces
<1>7. ASSUME NEW t \in Threads, Revives(t)
      PROVE  ObjectsKept(pool', used', ths')
  BY <1>1, <1>2, <1>7, RevivePlaces
<1> QED
  BY <1>3, <1>4, <1>5, <1>6, <1>7

LEMMA WakePlaces ==
  ASSUME ObjectsKept(pool, used, ths), AreThreads(ths), NEW t \in Threads,
         GcDue(t) \/ Wake(t)
  PROVE  ObjectsKept(pool', used', ths')
BY WokenPlaces DEF GcDue, Wake

LEMMA DonePlaces ==
  ASSUME ObjectsKept(pool, used, ths), AreThreads(ths), NEW t \in Threads, TaskDone(t)
  PROVE  ObjectsKept(pool', used', ths')
<1> DEFINE o == ths[t].task
           th == [ths EXCEPT ![t].at = "ready", ![t].task = NoObject,
                             ![t].qcache = <<o>> \o @]
           th1 == [ths EXCEPT ![t] = Storing(@)]
<1>1. ths \in [Threads -> ThreadType] /\ ths[t].at = "run" /\ UNCHANGED used
  BY TypeOfThreads DEF TaskDone
<1>2. th = th1
  BY <1>1 DEF Storing
<1>3. \/ IF LocalLimit <= Len(th[t].qcache) THEN FlushLocal(th, t)
         ELSE ths' = th /\ UNCHANGED pool
      \/ /\ ths' = [th EXCEPT ![t].qcache = ths[t].qcache]
         /\ pool' = [pool EXCEPT !.xq = AddQlDir(@, <<o>>)]
  BY DEF TaskDone
<1>4. /\ ObjectsKept(pool, used, th1) /\ AreThreads(th1) /\ th1[t].at = "ready"
      /\ th1[t].qcache = <<o>> \o ths[t].qcache
  <2>1. th1 = [ths EXCEPT ![t] = Storing(@)]
    OBVIOUS
  <2> HIDE DEF th1
  <2>2. StoredIn(pool, used, ths, t, th1)
    BY <1>1, <2>1, StoredKept
  <2> QED
    BY <2>2 DEF StoredIn
<1>5. CASE FlushLocal(th, t)
  <2> DEFINE at == "ready"
             th2 == [th1 EXCEPT ![t] = Cleared(@, at)]
  <2>1. /\ at \in Location /\ (at \in Working <=> th1[t].at \in Working)
        /\ (at = "free" <=> th1[t].at = "free")
    BY <1>4 DEF Location
  <2>2. th1 \in [Threads -> ThreadType]
    BY <1>4, TypeOfThreads
  <2>3. ths' = th2 /\ pool' = [pool EXCEPT !.xq = AddQlDir(@, th1[t].qcache)]
    <3>1. /\ ths' = [th1 EXCEPT ![t].qcache = <<>>, ![t].flags = @ \ {"FLUSH"}]
          /\ pool' = [pool EXCEPT !.xq = AddQlDir(@, th1[t].qcache)]
      BY <1>2, <1>5 DEF FlushLocal
    <3> HIDE DEF th1
    <3> DEFINE r == th1[t]
    <3>2. r \in ThreadType /\ r.at = "ready"
      BY <1>4, <2>2
    <3> HIDE DEF r
    <3>3. [r EXCEPT !.qcache = <<>>, !.flags = @ \ {"FLUSH"}] = Cleared(r, "ready")
      BY <3>2 DEF Cleared, ThreadType
    <3> QED
      BY <2>2, <3>1, <3>3 DEF r
  <2> HIDE DEF at, th1
  <2>4. ObjectsKept([pool EXCEPT !.xq = AddQlDir(@, th1[t].qcache)], used, th2)
    <3>1. th2 = [th1 EXCEPT ![t] = Cleared(@, at)]
      OBVIOUS
    <3> HIDE DEF th2
    <3> QED
      BY <1>4, <2>1, <3>1, ClearedKept
  <2> QED
    BY <1>1, <2>3, <2>4
<1>6. CASE ths' = th /\ UNCHANGED pool
  BY <1>1, <1>2, <1>4, <1>6
<1>7. CASE /\ ths' = [th EXCEPT ![t].qcache = ths[t].qcache]
           /\ pool' = [pool EXCEPT !.xq = AddQlDir(@, <<o>>)]
  <2> DEFINE th2 == [ths EXCEPT ![t] = Tasked(@, NoObject, "ready")]
  <2>1. ths' = th2
    BY <1>1, <1>7 DEF Tasked, ThreadType
  <2>2. ObjectsKept([pool EXCEPT !.xq = AddQlDir(@, <<o>>)], used, th2)
    <3>1. th2 = [ths EXCEPT ![t] = Tasked(@, NoObject, "ready")]
      OBVIOUS
    <3> HIDE DEF th2
    <3> QED
      BY <1>1, <3>1, GpDoneKept
  <2> QED
    BY <1>1, <1>7, <2>1, <2>2
<1> QED
  BY <1>3, <1>5, <1>6, <1>7

LEMMA GcPlaces ==
  ASSUME ObjectsKept(pool, used, ths), AreThreads(ths), NEW t \in Threads,
         GcRun(t) \/ GcFree(t)
  PROVE  ObjectsKept(pool', used', ths')
<1>1. ths \in [Threads -> ThreadType] /\ UNCHANGED used
  BY TypeOfThreads DEF GcRun, GcFree
<1>2. CASE GcRun(t)
  <2> DEFINE limit == IF ths[t].limit < 0 THEN 0 ELSE ths[t].limit
             th2 == [ths EXCEPT ![t] = Giving(@, FlushQ(pool.xq, limit))]
  <2>1. limit \in Int
    <3>1. ths[t].limit \in Int
      BY <1>1 DEF ThreadType
    <3> QED
      BY <3>1
  <2>2. /\ ths' = [ths EXCEPT ![t].at = "free", ![t].limit = 0,
                              ![t].rmq = FlushQ(pool.xq, limit)]
        /\ pool' = [pool EXCEPT !.xq = Remaining(@, limit)] /\ ths[t].at = "gc"
    BY <1>2 DEF GcRun
  <2> HIDE DEF limit
  <2>3. ths' = th2
    BY <1>1, <2>2 DEF Giving
  <2>4. th2 = [ths EXCEPT ![t] = Giving(@, FlushQ(pool.xq, limit))]
    OBVIOUS
  <2> HIDE DEF th2
  <2>5. ObjectsKept([pool EXCEPT !.xq = Remaining(@, limit)], used, th2)
    BY <2>1, <2>2, <2>4, RunKept
  <2> QED
    BY <1>1, <2>2, <2>3, <2>5
<1>3. CASE GcFree(t)
  <2> DEFINE th2 == [ths EXCEPT ![t] = Given0(@)]
  <2>1. /\ ths' = [ths EXCEPT ![t].at = "ready", ![t].rmq = <<>>]
        /\ pool' = Destroyed(pool, ths[t].rmq) /\ ths[t].at = "free"
    BY <1>3 DEF GcFree
  <2>2. ths' = th2
    BY <1>1, <2>1 DEF Given0
  <2>3. th2 = [ths EXCEPT ![t] = Given0(@)]
    OBVIOUS
  <2> HIDE DEF th2
  <2>4. ObjectsKept(Destroyed(pool, ths[t].rmq), used, th2)
    BY <2>1, <2>3, FreeKept
  <2> QED
    BY <1>1, <2>1, <2>2, <2>4
<1> QED
  BY <1>2, <1>3


-----------------------------------------------------------------------------
(***************************************************************************)
(* The list of core->cache_thread                                          *)
(***************************************************************************)

\* Those that may be destroyed are in front.
Ordered(q) == \A i, j \in 1..Len(q) : i < j /\ NeedDestroy(q[j]) => NeedDestroy(q[i])

\* There are not too many of them.
Fits(q) == ThreadLimit < 0 \/ Len(q) <= ThreadLimit \/ ~NeedDestroy(q[1])

Held(q, x) == \E i \in 1..Len(q) : q[i] = x

\* Each thread object of the cache is in its list, which is in order.
ThcOK(q, th) ==
    /\ Ordered(q) /\ Fits(q)
    /\ \A t \in Threads : th[t].at = "cached" => Held(q, t)

LEMMA LimitIs ==
  ThreadLimit \in Int /\ ThreadLimit # 0
BY ObjAssumption DEF ObjAssumption

\* smcache_get_flush_ql stops at the limit or at one that must stay.
LEMMA FlushedFits ==
  ASSUME NEW q \in Seq(Threads)
  PROVE  LET n == Flushed(q, ThreadLimit)
         IN  /\ n \in 0..Len(q)
             /\ \/ ThreadLimit < 0 \/ Len(q) - n <= ThreadLimit
                \/ n < Len(q) /\ ~NeedDestroy(q[n + 1])
<1> DEFINE L == ThreadLimit
           front == {k \in 1..(Len(q) - L) : \A j \in 1..k : NeedDestroy(q[j])}
           n == Flushed(q, L)
<1>1. Len(q) \in Nat /\ L \in Int /\ L # 0
  BY LimitIs
<1>2. n \in 0..Len(q)
  BY <1>1, FlushedBound
<1>3. CASE ~Flushablel(q, L)
  <2>1. n = 0
    BY <1>3 DEF Flushed
  <2>2. L < 0 \/ L >= Len(q) \/ ~NeedDestroy(q[1])
    BY <1>1, <1>3 DEF Flushablel
  <2> HIDE DEF n, L
  <2>3. CASE Len(q) = 0
    BY <1>1, <2>1, <2>2, <2>3 DEF L, n
  <2>4. CASE Len(q) # 0
    BY <1>1, <2>1, <2>2, <2>4 DEF L, n
  <2> QED
    BY <1>2, <2>3, <2>4 DEF n, L
<1>4. CASE Flushablel(q, L)
  <2>1. 0 <= L /\ L < Len(q)
    BY <1>4 DEF Flushablel
  <2>2. n = Cardinality(front)
    BY <1>1, <1>4 DEF Flushed
  <2> DEFINE m == Len(q) - L
  <2>3. m \in Nat /\ m = Len(q) - L
    BY <1>1, <2>1
  <2> HIDE DEF n, L, m
  <2>4. CASE \A k \in 1..m : NeedDestroy(q[k])
    <3>1. front = 1..m
      BY <2>3, <2>4
    <3> HIDE DEF front
    <3>2. n = m
      <4>1. IsFiniteSet(1..m) /\ Cardinality(1..m) = m
        BY <2>3, FS_Interval
      <4> QED
        BY <2>2, <2>3, <3>1, <4>1
    <3>3. Len(q) - n = L
      BY <1>1, <2>3, <3>2
    <3> QED
      BY <1>1, <1>2, <3>3 DEF n, L
  <2>5. CASE \E k \in 1..m : ~NeedDestroy(q[k])
    <3> DEFINE B == {k \in Nat : k \in 1..m /\ ~NeedDestroy(q[k])}
    <3>1. B # {} /\ B \subseteq Nat
      BY <2>5
    <3>2. PICK k \in B : \A j \in B : k <= j
      <4> HIDE DEF B
      <4>1. PICK k \in B : \A j \in B : <<j, k>> \notin OpToRel(<, Nat)
        BY NatLessThanWellFounded, WFMin, <3>1, Zenon
      <4>2. \A j \in B : ~(j < k)
        BY <3>1, <4>1 DEF OpToRel
      <4>3. \A j \in B : j \in Nat
        BY <3>1
      <4>4. \A j \in B : k <= j
        BY <4>2, <4>3
      <4> QED
        BY <4>4
    <3>3. front = 1..(k - 1)
      <4>1. \A x \in front : x < k
        BY <2>3, <3>2
      <4>2. \A x \in 1..(k - 1) : x \in front
        <5> SUFFICES ASSUME NEW x \in 1..(k - 1), NEW j \in 1..x
                     PROVE  NeedDestroy(q[j])
          BY <2>3, <3>2
        <5>1. j \in 1..m /\ j < k /\ j \in Nat
          BY <2>3, <3>2
        <5> QED
          BY <3>2, <5>1
      <4>3. \A x \in front : x \in Nat /\ x >= 1
        BY <2>3
      <4> HIDE DEF front
      <4>4. \A x \in front : x \in 1..(k - 1)
        BY <4>1, <4>3, <3>2
      <4> QED
        BY <4>2, <4>4
    <3>4. k \in 1..m /\ ~NeedDestroy(q[k])
      BY <3>2
    <3>5. n = k - 1
      <4>1. k - 1 \in Nat
        BY <2>3, <3>4
      <4>2. Cardinality(1..(k - 1)) = k - 1
        BY <4>1, FS_Interval
      <4> QED
        BY <2>2, <3>3, <4>2
    <3>6. n < Len(q) /\ ~NeedDestroy(q[n + 1])
      BY <1>1, <2>1, <2>3, <3>4, <3>5
    <3> QED
      BY <1>2, <3>6 DEF n, L
  <2> QED
    BY <2>4, <2>5
<1> QED
  BY <1>3, <1>4

\* What smcache_add_limit leaves is in order, and nothing is lost.
LEMMA RemainingOK ==
  ASSUME NEW q \in Seq(Threads), Ordered(q)
  PROVE  /\ Ordered(Remaining(q, ThreadLimit)) /\ Fits(Remaining(q, ThreadLimit))
         /\ \A i \in 1..Len(q) : \/ Held(Remaining(q, ThreadLimit), q[i])
                                 \/ q[i] \in ToSet(FlushQ(q, ThreadLimit))
<1> DEFINE n == Flushed(q, ThreadLimit)
           r == Remaining(q, ThreadLimit)
           f == FlushQ(q, ThreadLimit)
<1>1. /\ n \in 0..Len(q)
      /\ \/ ThreadLimit < 0 \/ Len(q) - n <= ThreadLimit
         \/ n < Len(q) /\ ~NeedDestroy(q[n + 1])
  BY FlushedFits
<1>2. r = SubSeq(q, n + 1, Len(q)) /\ f = SubSeq(q, 1, n)
  BY DEF Remaining, FlushQ
<1> HIDE DEF n, r, f
<1>3. Len(q) \in Nat /\ n \in Nat /\ n <= Len(q)
  BY <1>1
<1>4. Len(r) = Len(q) - n /\ \A i \in 1..(Len(q) - n) : r[i] = q[n + i]
  <2>1. \A i \in (n + 1)..Len(q) : q[i] \in Threads
    BY <1>3, ElementOfSeq
  <2> QED
    BY <1>2, <1>3, <2>1, SubSeqProperties
<1>5. DOMAIN f = 1..n /\ \A i \in 1..n : f[i] = q[i]
  <2>1. \A i \in 1..n : q[i] \in Threads
    BY <1>3, ElementOfSeq
  <2>2. f \in Seq(Threads) /\ Len(f) = n /\ \A i \in 1..n : f[i] = q[i]
    BY <1>2, <1>3, <2>1, SubSeqProperties
  <2> QED
    BY <2>2, LenProperties
<1>6. Ordered(r)
  <2> SUFFICES ASSUME NEW i \in 1..Len(r), NEW j \in 1..Len(r), i < j, NeedDestroy(r[j])
               PROVE  NeedDestroy(r[i])
    BY DEF Ordered
  <2>1. /\ n + i \in 1..Len(q) /\ n + j \in 1..Len(q) /\ n + i < n + j
        /\ r[i] = q[n + i] /\ r[j] = q[n + j]
    BY <1>3, <1>4
  <2> QED
    BY <2>1 DEF Ordered
<1>7. Fits(r)
  <2>1. n < Len(q) => r[1] = q[n + 1]
    BY <1>3, <1>4
  <2> QED
    BY <1>1, <1>3, <1>4, <2>1, LimitIs DEF Fits
<1>8. \A i \in 1..Len(q) : Held(r, q[i]) \/ q[i] \in ToSet(f)
  <2> SUFFICES ASSUME NEW i \in 1..Len(q) PROVE Held(r, q[i]) \/ q[i] \in ToSet(f)
    OBVIOUS
  <2>1. CASE i <= n
    BY <1>3, <1>5, <2>1 DEF ToSet
  <2>2. CASE i > n
    <3>1. i - n \in 1..Len(r) /\ r[i - n] = q[i]
      <4>1. i - n \in 1..(Len(q) - n) /\ n + (i - n) = i
        BY <1>3, <2>2
      <4> QED
        BY <1>4, <4>1
    <3> QED
      BY <3>1 DEF Held
  <2> QED
    BY <1>3, <2>1, <2>2
<1> QED
  BY <1>6, <1>7, <1>8 DEF r, f

\* smcache_addl
LEMMA AddlOrdered ==
  ASSUME NEW q \in Seq(Threads), Ordered(q), NEW t \in Threads
  PROVE  /\ Addl(q, t) \in Seq(Threads) /\ Ordered(Addl(q, t)) /\ Held(Addl(q, t), t)
         /\ \A i \in 1..Len(q) : Held(Addl(q, t), q[i])
         /\ Len(Addl(q, t)) = Len(q) + 1
<1> DEFINE p == Addl(q, t)
<1>1. Len(q) \in Nat
  OBVIOUS
<1>2. CASE NeedDestroy(t) /\ q # <<>>
  <2>1. p = <<t>> \o q
    BY <1>2 DEF Addl
  <2>2. <<t>> \in Seq(Threads) /\ Len(<<t>>) = 1 /\ <<t>>[1] = t
    OBVIOUS
  <2>3. /\ p \in Seq(Threads) /\ Len(p) = Len(q) + 1
        /\ \A i \in 1..Len(q) + 1 : p[i] = IF i <= 1 THEN t ELSE q[i - 1]
    BY <1>1, <2>1, <2>2, ConcatProperties
  <2> HIDE DEF p
  <2>4. p[1] = t /\ \A i \in 1..Len(q) : i + 1 \in 1..Len(p) /\ p[i + 1] = q[i]
    <3>1. \A i \in 1..Len(q) : i + 1 \in 1..Len(q) + 1 /\ ~(i + 1 <= 1) /\ (i + 1) - 1 = i
      BY <1>1
    <3>2. 1 \in 1..Len(q) + 1
      BY <1>1
    <3> QED
      BY <2>3, <3>1, <3>2
  <2>5. Ordered(p)
    <3> SUFFICES ASSUME NEW i \in 1..Len(p), NEW j \in 1..Len(p), i < j, NeedDestroy(p[j])
                 PROVE  NeedDestroy(p[i])
      BY DEF Ordered
    <3>1. CASE i = 1
      BY <1>2, <2>4, <3>1
    <3>2. CASE i # 1
      <4>1. /\ i - 1 \in 1..Len(q) /\ j - 1 \in 1..Len(q) /\ i - 1 < j - 1
            /\ ~(i <= 1) /\ ~(j <= 1)
        BY <1>1, <2>3, <3>2
      <4>2. p[i] = q[i - 1] /\ p[j] = q[j - 1]
        BY <2>3, <4>1
      <4> QED
        BY <4>1, <4>2 DEF Ordered
    <3> QED
      BY <3>1, <3>2
  <2>6. Held(p, t) /\ \A i \in 1..Len(q) : Held(p, q[i])
    <3>1. 1 \in 1..Len(p)
      BY <1>1, <2>3
    <3> QED
      BY <2>4, <3>1 DEF Held
  <2> QED
    BY <2>3, <2>5, <2>6 DEF p
<1>3. CASE ~(NeedDestroy(t) /\ q # <<>>)
  <2>1. p = Append(q, t)
    BY <1>3 DEF Addl
  <2>2. /\ p \in Seq(Threads) /\ Len(p) = Len(q) + 1
        /\ \A i \in 1..Len(q) + 1 : p[i] = IF i <= Len(q) THEN q[i] ELSE t
    BY <1>1, <2>1, AppendProperties
  <2> HIDE DEF p
  <2>3. p[Len(q) + 1] = t /\ \A i \in 1..Len(q) : i \in 1..Len(p) /\ p[i] = q[i]
    BY <1>1, <2>2
  <2>4. Ordered(p)
    <3> SUFFICES ASSUME NEW i \in 1..Len(p), NEW j \in 1..Len(p), i < j, NeedDestroy(p[j])
                 PROVE  NeedDestroy(p[i])
      BY DEF Ordered
    <3>1. i \in 1..Len(q)
      BY <1>1, <2>2
    <3>2. CASE j = Len(q) + 1
      <4>1. q # <<>>
        BY <3>1, EmptySeq
      <4> QED
        BY <1>3, <2>3, <3>2, <4>1
    <3>3. CASE j # Len(q) + 1
      <4>1. j \in 1..Len(q)
        BY <1>1, <2>2, <3>3
      <4> QED
        BY <2>3, <3>1, <4>1 DEF Ordered
    <3> QED
      BY <3>2, <3>3
  <2>5. Held(p, t)
    <3>1. Len(q) + 1 \in 1..Len(p)
      BY <1>1, <2>2
    <3> QED
      BY <2>3, <3>1 DEF Held
  <2> QED
    BY <2>2, <2>3, <2>4, <2>5 DEF Held, p
<1> QED
  BY <1>2, <1>3


-----------------------------------------------------------------------------
(***************************************************************************)
(* The list of core->cache_thread, as threads leave and are destroyed      *)
(***************************************************************************)

LEMMA TailOK ==
  ASSUME NEW q \in Seq(Threads), q # <<>>, Ordered(q), Fits(q)
  PROVE  /\ Ordered(Tail(q)) /\ Fits(Tail(q))
         /\ \A x : Held(q, x) => x = Head(q) \/ Held(Tail(q), x)
<1> DEFINE r == Tail(q)
<1>1. /\ Len(q) \in Nat \ {0} /\ Head(q) = q[1] /\ r \in Seq(Threads)
      /\ Len(r) = Len(q) - 1 /\ \A i \in 1..Len(r) : r[i] = q[i + 1]
  BY HeadTailProperties, EmptySeq
<1> HIDE DEF r
<1>2. Ordered(r)
  <2> SUFFICES ASSUME NEW i \in 1..Len(r), NEW j \in 1..Len(r), i < j, NeedDestroy(r[j])
               PROVE  NeedDestroy(r[i])
    BY DEF Ordered
  <2>1. /\ i + 1 \in 1..Len(q) /\ j + 1 \in 1..Len(q) /\ i + 1 < j + 1
        /\ r[i] = q[i + 1] /\ r[j] = q[j + 1]
    BY <1>1
  <2> QED
    BY <2>1 DEF Ordered
<1>3. Fits(r)
  <2>1. CASE Len(r) = 0
    <3>1. ThreadLimit < 0 \/ 0 <= ThreadLimit
      BY LimitIs
    <3> QED
      BY <2>1, <3>1 DEF Fits
  <2>2. CASE Len(r) # 0
    <3>1. r[1] = q[2] /\ 1 \in 1..Len(q) /\ 2 \in 1..Len(q)
      BY <1>1, <2>2
    <3>2. NeedDestroy(r[1]) => NeedDestroy(q[1])
      BY <3>1 DEF Ordered
    <3> QED
      BY <1>1, <3>2, LimitIs DEF Fits
  <2> QED
    BY <2>1, <2>2
<1>4. \A x : Held(q, x) => x = Head(q) \/ Held(r, x)
  <2> SUFFICES ASSUME NEW i \in 1..Len(q), i # 1 PROVE Held(r, q[i])
    BY <1>1 DEF Held
  <2>1. i - 1 \in 1..Len(r) /\ (i - 1) + 1 = i
    BY <1>1
  <2> QED
    BY <1>1, <2>1 DEF Held
<1> QED
  BY <1>2, <1>3, <1>4 DEF r

\* A thread_t that was taken out is put back.
LEMMA BackOK ==
  ASSUME NEW q \in Seq(Threads), q # <<>>, Ordered(q), Fits(q),
         NEW p, p = Addl(Tail(q), Head(q))
  PROVE  /\ Ordered(p) /\ Fits(p) /\ \A x : Held(q, x) => Held(p, x)
<1> DEFINE r == Tail(q)
           t == Head(q)
<1>1. /\ Len(q) \in Nat \ {0} /\ t = q[1] /\ r \in Seq(Threads) /\ t \in Threads
      /\ Len(r) = Len(q) - 1 /\ \A i \in 1..Len(r) : r[i] = q[i + 1]
  BY HeadTailProperties, EmptySeq
<1>2. Ordered(r)
  BY TailOK
<1>3. \A x : Held(q, x) => x = t \/ Held(r, x)
  BY TailOK
<1> HIDE DEF r, t
<1>4. /\ Ordered(p) /\ Held(p, t) /\ \A i \in 1..Len(r) : Held(p, r[i])
      /\ Len(p) = Len(q)
  <2>1. p = Addl(r, t)
    BY DEF r, t
  <2>2. Addl(r, t) \in Seq(Threads) /\ Ordered(Addl(r, t)) /\ Held(Addl(r, t), t)
        /\ (\A i \in 1..Len(r) : Held(Addl(r, t), r[i])) /\ Len(Addl(r, t)) = Len(r) + 1
    BY <1>1, <1>2, AddlOrdered
  <2> QED
    BY <1>1, <2>1, <2>2
<1>5. \A x : Held(q, x) => Held(p, x)
  BY <1>3, <1>4 DEF Held
<1>6. Fits(p)
  <2>1. CASE NeedDestroy(t)
    BY <1>1, <1>4, <2>1 DEF Fits
  <2>2. CASE ~NeedDestroy(t)
    <3>1. \A i \in 1..Len(q) : ~NeedDestroy(q[i])
      <4> SUFFICES ASSUME NEW i \in 1..Len(q), NeedDestroy(q[i]) PROVE FALSE
        OBVIOUS
      <4>1. 1 \in 1..Len(q) /\ (i = 1 \/ 1 < i)
        BY <1>1
      <4> QED
        BY <1>1, <2>2, <4>1 DEF Ordered
    <3>2. p[1] \in {t} \cup {r[i] : i \in 1..Len(r)}
      <4>1. CASE r = <<>>
        <5>1. p = <<t>>
          <6>1. p = Append(r, t)
            BY <4>1 DEF Addl, r, t
          <6>2. Append(<<>>, t) = <<t>>
            OBVIOUS
          <6> QED
            BY <4>1, <6>1, <6>2
        <5> QED
          BY <5>1
      <4>2. CASE r # <<>>
        <5>1. p = Append(r, t) /\ Len(r) \in Nat \ {0}
          <6>1. p = Append(r, t)
            BY <2>2, <4>2 DEF Addl, r, t
          <6> QED
            BY <1>1, <4>2, <6>1, EmptySeq
        <5>2. p[1] = r[1] /\ 1 \in 1..Len(r)
          BY <1>1, <5>1, AppendProperties
        <5> QED
          BY <5>2
      <4> QED
        BY <4>1, <4>2
    <3>3. \A i \in 1..Len(r) : i + 1 \in 1..Len(q)
      BY <1>1
    <3>4. ~NeedDestroy(p[1])
      BY <1>1, <2>2, <3>1, <3>2, <3>3
    <3> QED
      BY <3>4 DEF Fits
  <2> QED
    BY <2>1, <2>2
<1> QED
  BY <1>4, <1>5, <1>6

\* What is not in the list, nor destroyed, was in neither.
LEMMA AddLimitLoses ==
  ASSUME NEW q \in Seq(Threads), Ordered(q), Fits(q), NEW t \in Threads
  PROVE  LET r == AddLimit(q, t, ThreadLimit)
         IN  /\ Ordered(r.q) /\ Fits(r.q)
             /\ \A x : Held(q, x) \/ x = t => Held(r.q, x) \/ x \in r.rmq
<1> DEFINE in == Accessl(q, t, ThreadLimit)
           p == IF in THEN Addl(q, t) ELSE q
           r == AddLimit(q, t, ThreadLimit)
           f == FlushQ(p, ThreadLimit)
<1>1. r.q = Remaining(p, ThreadLimit) /\ r.rmq = IF in THEN ToSet(f) ELSE {t}
  BY DEF AddLimit
<1>2. p \in Seq(Threads) /\ Ordered(p) /\ (in => Held(p, t)) /\ \A x : Held(q, x) => Held(p, x)
  <2>1. /\ Addl(q, t) \in Seq(Threads) /\ Ordered(Addl(q, t)) /\ Held(Addl(q, t), t)
        /\ \A i \in 1..Len(q) : Held(Addl(q, t), q[i])
        /\ Len(Addl(q, t)) = Len(q) + 1
    BY AddlOrdered
  <2> QED
    BY <2>1 DEF Held
<1>3. ~in => f = <<>>
  <2> SUFFICES ASSUME ~in PROVE f = <<>>
    OBVIOUS
  <2>1. p = q /\ ThreadLimit >= 0 /\ ThreadLimit <= Len(q) /\ Len(q) \in Nat
    <3>1. Len(q) \in Nat
      OBVIOUS
    <3> QED
      BY <3>1, LimitIs DEF Accessl
  <2>2. ~Flushablel(q, ThreadLimit)
    BY <2>1, LimitIs DEF Flushablel, Fits
  <2>3. Flushed(q, ThreadLimit) = 0
    BY <2>2 DEF Flushed
  <2> QED
    BY <2>1, <2>3 DEF FlushQ
<1> HIDE DEF p, in, r, f
<1>4. /\ Ordered(Remaining(p, ThreadLimit)) /\ Fits(Remaining(p, ThreadLimit))
      /\ \A i \in 1..Len(p) : \/ Held(Remaining(p, ThreadLimit), p[i])
                              \/ p[i] \in ToSet(FlushQ(p, ThreadLimit))
  BY <1>2, RemainingOK
<1>5. \A x : Held(p, x) => Held(r.q, x) \/ x \in ToSet(f)
  BY <1>1, <1>4 DEF Held, f
<1>6. ToSet(<<>>) = {}
  BY DEF ToSet
<1>7. \A x : Held(q, x) \/ x = t => Held(r.q, x) \/ x \in r.rmq
  <2>1. CASE in
    BY <1>1, <1>2, <1>5, <2>1
  <2>2. CASE ~in
    BY <1>1, <1>2, <1>3, <1>5, <1>6, <2>2
  <2> QED
    BY <2>1, <2>2
<1> QED
  BY <1>1, <1>4, <1>7 DEF r

-----------------------------------------------------------------------------

LEMMA AtOfNew ==
  ASSUME NEW where
  PROVE  NewThread(where).at = where
BY DEF NewThread

LEMMA StartsThc ==
  ASSUME FlagsIInv, ThcOK(thc, ths), NEW t \in Threads, Starts(t) \/ StartFails(t)
  PROVE  ThcOK(thc', ths')
<1>1. thc \in Seq(Threads) /\ AreThreads(ths)
  BY DEF FlagsIInv, CacheOf, Agree
<1>2. Ordered(thc) /\ Fits(thc) /\ \A x \in Threads : ths[x].at = "cached" => Held(thc, x)
  BY DEF ThcOK
<1>3. CASE Starts(t)
  <2>1. ths' = [ths EXCEPT ![t] = NewThread("ready")]
    BY <1>3 DEF Starts
  <2>2. ths'[t].at = "ready" /\ \A x \in Threads \ {t} : ths'[x] = ths[x]
    BY <1>1, <2>1, AtOfNew DEF AreThreads
  <2>3. CASE thc # <<>>
    <3>1. t = Head(thc) /\ thc' = Tail(thc)
      BY <1>3, <2>3 DEF Starts
    <3>2. /\ Ordered(Tail(thc)) /\ Fits(Tail(thc))
          /\ \A x : Held(thc, x) => x = Head(thc) \/ Held(Tail(thc), x)
      BY <1>1, <1>2, <2>3, TailOK
    <3>3. \A x \in Threads : ths'[x].at = "cached" => Held(thc', x)
      BY <1>2, <2>2, <3>1, <3>2
    <3> QED
      BY <3>1, <3>2, <3>3 DEF ThcOK
  <2>4. CASE thc = <<>>
    <3>1. thc' = thc
      BY <1>3, <2>4 DEF Starts
    <3>2. \A x \in Threads : ths'[x].at = "cached" => Held(thc', x)
      BY <1>2, <2>2, <3>1
    <3> QED
      BY <1>2, <3>1, <3>2 DEF ThcOK
  <2> QED
    BY <2>3, <2>4
<1>4. CASE StartFails(t)
  <2>1. ths' = [ths EXCEPT ![t] = NewThread("cached")]
    BY <1>4 DEF StartFails
  <2>2. \A x \in Threads \ {t} : ths'[x] = ths[x]
    BY <1>1, <2>1 DEF AreThreads
  <2>3. CASE thc # <<>>
    <3>1. t = Head(thc) /\ thc' = Addl(Tail(thc), Head(thc))
      BY <1>4, <2>3 DEF StartFails
    <3>2. Ordered(thc') /\ Fits(thc') /\ \A x : Held(thc, x) => Held(thc', x)
      <4> DEFINE p == Addl(Tail(thc), Head(thc))
      <4>1. p = Addl(Tail(thc), Head(thc))
        OBVIOUS
      <4> HIDE DEF p
      <4>2. Ordered(p) /\ Fits(p) /\ \A x : Held(thc, x) => Held(p, x)
        BY <1>1, <1>2, <2>3, <4>1, BackOK
      <4> QED
        BY <3>1, <4>2 DEF p
    <3>3. Held(thc, t)
      BY <1>2, <2>3, <3>1, HeadOfCache
    <3>4. \A x \in Threads : ths'[x].at = "cached" => Held(thc', x)
      BY <1>2, <2>2, <3>2, <3>3
    <3> QED
      BY <3>2, <3>4 DEF ThcOK
  <2>4. CASE thc = <<>>
    <3>1. thc' = <<t>>
      BY <1>4, <2>4 DEF StartFails
    <3>2. Len(<<t>>) = 1 /\ <<t>>[1] = t
      OBVIOUS
    <3>3. Ordered(<<t>>) /\ Fits(<<t>>)
      BY <3>2, LimitIs DEF Ordered, Fits
    <3>4. Held(<<t>>, t)
      BY <3>2 DEF Held
    <3>5. Len(thc) = 0
      BY <2>4
    <3>6. \A x \in Threads : ~Held(thc, x)
      BY <3>5 DEF Held
    <3>7. \A x \in Threads : ths'[x].at = "cached" => x = t
      BY <1>2, <2>2, <3>6
    <3> QED
      BY <3>1, <3>3, <3>4, <3>7 DEF ThcOK
  <2> QED
    BY <2>3, <2>4
<1> QED
  BY <1>3, <1>4

LEMMA RecycleThc ==
  ASSUME FlagsIInv, ThcOK(thc, ths), NEW t \in Threads, Recycle(t)
  PROVE  ThcOK(thc', ths')
<1> DEFINE r == AddLimit(thc, t, ThreadLimit)
<1>1. /\ thc' = r.q
      /\ ths' = [u \in Threads |->
                   IF u \in r.rmq THEN NewThread("none")
                   ELSE IF u = t THEN NewThread("cached") ELSE ths[u]]
  BY DEF Recycle
<1>2. thc \in Seq(Threads)
  BY DEF FlagsIInv, CacheOf
<1>3. Ordered(thc) /\ Fits(thc) /\ \A x \in Threads : ths[x].at = "cached" => Held(thc, x)
  BY DEF ThcOK
<1>4. /\ Ordered(r.q) /\ Fits(r.q)
      /\ \A x : Held(thc, x) \/ x = t => Held(r.q, x) \/ x \in r.rmq
  BY <1>2, <1>3, AddLimitLoses
<1> HIDE DEF r
<1>5. ASSUME NEW x \in Threads, ths'[x].at = "cached"
      PROVE  Held(thc', x)
  <2>1. CASE x \in r.rmq
    <3>1. ths'[x] = NewThread("none")
      BY <1>1, <2>1
    <3> QED
      BY <1>5, <3>1, AtOfNew
  <2>2. CASE x \notin r.rmq /\ x = t
    BY <1>1, <1>4, <2>2
  <2>3. CASE x \notin r.rmq /\ x # t
    <3>1. ths'[x] = ths[x]
      BY <1>1, <2>3
    <3> QED
      BY <1>1, <1>3, <1>4, <1>5, <2>3, <3>1
  <2> QED
    BY <2>1, <2>2, <2>3
<1> QED
  BY <1>1, <1>4, <1>5 DEF ThcOK

LEMMA DestroyThc ==
  ASSUME FlagsIInv, ThcOK(thc, ths), Destroy
  PROVE  /\ ThcOK(thc', ths') /\ \A t \in Threads : ths'[t].at = "none"
         /\ \A t \in Threads : ths[t].at \in {"none", "cached"}
<1>1. /\ thc' = <<>>
      /\ ths' = [t \in Threads |-> IF t \in ToSet(thc) THEN NewThread("none") ELSE ths[t]]
  BY DEF Destroy
<1>2. \A t \in Threads : ths[t].at \in {"none", "cached"}
  BY DEF Destroy, Alive
<1>3. \A t \in Threads : ths[t].at = "cached" => t \in ToSet(thc)
  <2>1. DOMAIN thc = 1..Len(thc)
    BY LenProperties DEF FlagsIInv, CacheOf
  <2> QED
    BY <2>1 DEF ThcOK, Held, ToSet
<1>4. \A t \in Threads : ths'[t].at = "none"
  BY <1>1, <1>2, <1>3, AtOfNew
<1>5. Len(<<>>) = 0
  OBVIOUS
<1>6. Ordered(<<>>) /\ Fits(<<>>)
  BY <1>5, LimitIs DEF Ordered, Fits
<1> QED
  BY <1>1, <1>2, <1>4, <1>6 DEF ThcOK


-----------------------------------------------------------------------------
(***************************************************************************)
(* Threads that are in use stay so                                         *)
(***************************************************************************)

Idle == {"none", "cached", "left"}

\* No thread is started, ends or falls asleep.
Goes(th, th2) ==
    \A x \in Threads : \/ th2[x].at = th[x].at
                       \/ th[x].at \notin Idle /\ th2[x].at \notin Idle \cup {"asleep"}

LEMMA OneGoes ==
  ASSUME NEW th, NEW t \in Threads, NEW th2, \A x \in Threads \ {t} : th2[x].at = th[x].at,
         th[t].at \notin Idle, th2[t].at \notin Idle, th2[t].at # "asleep"
  PROVE  Goes(th, th2)
BY DEF Goes

LEMMA ServeGoes ==
  ASSUME ths \in [Threads -> ThreadType], NEW t \in Threads,
         TakeTask(t) \/ SeeFlags(t) \/ GcLeave(t) \/ GcRun(t) \/ GcFree(t)
         \/ GcDue(t) \/ Wake(t)
  PROVE  Goes(ths, ths') /\ UNCHANGED thc
<1>1. ths[t] \in ThreadType
  OBVIOUS
<1>2. CASE TakeTask(t)
  <2>1. PICK at \in {"run", "taken"}, o \in used : ths' = [ths EXCEPT ![t].task = o, ![t].at = at]
    BY <1>2 DEF TakeTask
  <2>2. ths[t].at = "ready" /\ UNCHANGED thc
    BY <1>2 DEF TakeTask
  <2>3. (\A x \in Threads \ {t} : ths'[x].at = ths[x].at) /\ ths'[t].at = at
    BY <1>1, <2>1 DEF ThreadType
  <2>4. ths[t].at \notin Idle /\ ths'[t].at \notin Idle /\ ths'[t].at # "asleep"
    BY <2>2, <2>3 DEF Idle
  <2>5. Goes(ths, ths')
    BY <2>3, <2>4, OneGoes
  <2> QED
    BY <2>2, <2>5
<1>3. CASE SeeFlags(t)
  <2>1. ths[t].at = "taken" /\ UNCHANGED thc
    BY <1>3 DEF SeeFlags
  <2>2. \/ ths' = [ths EXCEPT ![t].at = "unset", ![t].seen = ths[t].flags]
        \/ ths' = [ths EXCEPT ![t].at = "run"]
        \/ FlushLocal([ths EXCEPT ![t].at = "run"], t)
    BY <1>3 DEF SeeFlags
  <2>3. (\A x \in Threads \ {t} : ths'[x].at = ths[x].at) /\ ths'[t].at \in {"unset", "run"}
    BY <1>1, <2>2 DEF ThreadType, FlushLocal
  <2>4. ths[t].at \notin Idle /\ ths'[t].at \notin Idle /\ ths'[t].at # "asleep"
    BY <2>1, <2>3 DEF Idle
  <2>5. Goes(ths, ths')
    BY <2>3, <2>4, OneGoes
  <2> QED
    BY <2>1, <2>5
<1>4. CASE GcLeave(t)
  <2>1. ths[t].at = "unset" /\ UNCHANGED thc
    BY <1>4 DEF GcLeave
  <2>2. (\A x \in Threads \ {t} : ths'[x].at = ths[x].at) /\ ths'[t].at = "taken"
    BY <1>1, <1>4 DEF ThreadType, GcLeave
  <2>4. ths[t].at \notin Idle /\ ths'[t].at \notin Idle /\ ths'[t].at # "asleep"
    BY <2>1, <2>2 DEF Idle
  <2>5. Goes(ths, ths')
    BY <2>2, <2>4, OneGoes
  <2> QED
    BY <2>1, <2>5
<1>5. CASE GcRun(t)
  <2>1. PICK limit : /\ ths' = [ths EXCEPT ![t].at = "free", ![t].limit = 0,
                                           ![t].rmq = FlushQ(pool.xq, limit)]
                     /\ ths[t].at = "gc" /\ UNCHANGED thc
    BY <1>5 DEF GcRun
  <2>2. (\A x \in Threads \ {t} : ths'[x].at = ths[x].at) /\ ths'[t].at = "free"
    BY <1>1, <2>1 DEF ThreadType
  <2>4. ths[t].at \notin Idle /\ ths'[t].at \notin Idle /\ ths'[t].at # "asleep"
    BY <2>1, <2>2 DEF Idle
  <2>5. Goes(ths, ths')
    BY <2>2, <2>4, OneGoes
  <2> QED
    BY <2>1, <2>5
<1>6. CASE GcFree(t)
  <2>1. ths[t].at = "free" /\ UNCHANGED thc
    BY <1>6 DEF GcFree
  <2>2. (\A x \in Threads \ {t} : ths'[x].at = ths[x].at) /\ ths'[t].at = "ready"
    BY <1>1, <1>6 DEF ThreadType, GcFree
  <2>4. ths[t].at \notin Idle /\ ths'[t].at \notin Idle /\ ths'[t].at # "asleep"
    BY <2>1, <2>2 DEF Idle
  <2>5. Goes(ths, ths')
    BY <2>2, <2>4, OneGoes
  <2> QED
    BY <2>1, <2>5
<1>7. CASE GcDue(t) \/ Wake(t)
  <2>1. ths[t].at = "asleep" /\ UNCHANGED thc /\ ths' = [ths EXCEPT ![t].at = "ready"]
    BY <1>7 DEF GcDue, Wake
  <2>2. (\A x \in Threads \ {t} : ths'[x].at = ths[x].at) /\ ths'[t].at = "ready"
    BY <1>1, <2>1 DEF ThreadType
  <2>4. ths[t].at \notin Idle /\ ths'[t].at \notin Idle /\ ths'[t].at # "asleep"
    BY <2>1, <2>2 DEF Idle
  <2>5. Goes(ths, ths')
    BY <2>2, <2>4, OneGoes
  <2> QED
    BY <2>1, <2>5
<1> QED
  BY <1>2, <1>3, <1>4, <1>5, <1>6, <1>7

LEMMA DoneGoes ==
  ASSUME ths \in [Threads -> ThreadType], NEW t \in Threads, TaskDone(t)
  PROVE  Goes(ths, ths') /\ UNCHANGED thc
<1> DEFINE o == ths[t].task
           q == <<o>> \o ths[t].qcache
           th == [ths EXCEPT ![t].at = "ready", ![t].task = NoObject, ![t].qcache = q]
<1>1. ths[t] \in ThreadType /\ ths[t].at = "run" /\ UNCHANGED thc
  BY DEF TaskDone
<1>2. \/ FlushLocal(th, t) \/ ths' = th
      \/ ths' = [th EXCEPT ![t].qcache = ths[t].qcache]
  BY DEF TaskDone
<1> HIDE DEF q
<1>3. (\A x \in Threads \ {t} : th[x].at = ths[x].at) /\ th[t].at = "ready"
  BY <1>1 DEF ThreadType
<1>4. (\A x \in Threads \ {t} : ths'[x].at = ths[x].at) /\ ths'[t].at = "ready"
  BY <1>1, <1>2 DEF ThreadType, FlushLocal
<1> QED
  BY <1>1, <1>4, OneGoes DEF Idle

LEMMA MarkGoes ==
  ASSUME ths \in [Threads -> ThreadType], NEW t \in Threads, Mark(t)
  PROVE  Goes(ths, ths') /\ UNCHANGED thc
<1> DEFINE at == IF ths[t].at = "asleep" THEN "ready" ELSE ths[t].at
<1>1. ths[t] \in ThreadType /\ UNCHANGED thc /\ ths[t].at \notin Idle
  BY DEF Mark, Alive, Idle
<1>2. ths' = [ths EXCEPT ![t].flags = @ \cup {"RM"}, ![t].at = at]
  BY <1>1 DEF Mark, ThreadType
<1>3. at \notin Idle /\ at # "asleep"
  BY <1>1 DEF Idle
<1> HIDE DEF at
<1>4. (\A x \in Threads \ {t} : ths'[x].at = ths[x].at) /\ ths'[t].at = at
  BY <1>1, <1>2 DEF ThreadType
<1> QED
  BY <1>1, <1>3, <1>4, OneGoes

LEMMA ReviveGoes ==
  ASSUME ths \in [Threads -> ThreadType], NEW t \in Threads, Revives(t)
  PROVE  Goes(ths, ths') /\ UNCHANGED thc
<1>1. UNCHANGED thc /\ ths' = [ths EXCEPT ![t].flags = @ \ {"RM"}]
  BY DEF Revives
<1>2. \A x \in Threads : ths'[x].at = ths[x].at
  BY <1>1 DEF ThreadType
<1> QED
  BY <1>1, <1>2 DEF Goes

LEMMA AskGoes ==
  ASSUME ths \in [Threads -> ThreadType], NEW c, AskThreads(c)
  PROVE  Goes(ths, ths') /\ UNCHANGED thc
<1>1. ths' = FlushAll(ths) /\ UNCHANGED thc
  BY DEF AskThreads
<1>2. \A x \in Threads : FlushAll(ths)[x].at = ths[x].at
  BY FlushAllAlike
<1> QED
  BY <1>1, <1>2 DEF Goes

-----------------------------------------------------------------------------
(***************************************************************************)
(* The core                                                                *)
(***************************************************************************)

CoreIn(g) ==
    /\ IsCore(g) /\ g.GC \in Threads \cup {NoThread} /\ g.delay \in BOOLEAN
    /\ g.due \in BOOLEAN /\ g.status \in {"created", "destroying", "destroyed"}
    /\ g.cleaning \in BOOLEAN /\ g.attr \in {CreatedAttr, ReleaseAttr}

LEMMA OneTimeIs ==
  ASSUME CoreIn(gc)
  PROVE  GcOneTime \in Int
<1>1. gc.attr \in Int \X Int \X Int
  BY ObjAssumption DEF CoreIn, ObjAssumption
<1> QED
  BY <1>1 DEF GcOneTime

\* The core g2 is g but for the GC and its time.
SameLife(g, g2) == CoreIn(g2) /\ g2.status = g.status /\ g2.cleaning = g.cleaning

LEMMA RestLife ==
  ASSUME NEW g, CoreIn(g), NEW th, NEW t \in Threads, NEW q
  PROVE  SameLife(g, Rest(th, t, q, g).gc) /\ SameLife(g, Left(th, t, q, g).gc)
<1> DEFINE g2 == [g EXCEPT !.dying = IF "RM" \in th[t].flags THEN @ - 1 ELSE @,
                           !.GC = IF @ = t THEN NoThread ELSE @]
<1>1. SameLife(g, g) /\ SameLife(g, g2)
  <2>1. /\ IsCore(g2) /\ g2.delay = g.delay /\ g2.due = g.due /\ g2.status = g.status
        /\ g2.cleaning = g.cleaning /\ g2.attr = g.attr
        /\ g2.GC = IF g.GC = t THEN NoThread ELSE g.GC
    BY DEF CoreIn, IsCore, CoreFields
  <2> HIDE DEF g2
  <2> QED
    BY <2>1 DEF SameLife, CoreIn
<1>2. Left(th, t, q, g).gc = g2
  BY DEF Left
<1>3. Rest(th, t, q, g).gc \in {g, g2}
  BY DEF Rest, Left
<1> QED
  BY <1>1, <1>2, <1>3

LEMMA SelectedLife ==
  ASSUME CoreIn(gc), NEW t \in Threads, NEW q
  PROVE  SameLife(gc, Selected(t, q).gc)
<1> DEFINE mine == [gc EXCEPT !.GC = t]
           none == IF "GC" \in ths[t].flags THEN [gc EXCEPT !.GC = NoThread] ELSE gc
           off == [gc EXCEPT !.due = FALSE, !.delay = FALSE]
<1>1. SameLife(gc, mine)
  <2>1. /\ IsCore(mine) /\ mine.delay = gc.delay /\ mine.due = gc.due
        /\ mine.status = gc.status /\ mine.cleaning = gc.cleaning /\ mine.attr = gc.attr
        /\ mine.GC = t
    BY DEF CoreIn, IsCore, CoreFields
  <2> HIDE DEF mine
  <2> QED
    BY <2>1 DEF SameLife, CoreIn
<1>2. SameLife(gc, none)
  <2> DEFINE out == [gc EXCEPT !.GC = NoThread]
  <2>1. /\ IsCore(out) /\ out.delay = gc.delay /\ out.due = gc.due
        /\ out.status = gc.status /\ out.cleaning = gc.cleaning /\ out.attr = gc.attr
        /\ out.GC = NoThread
    BY DEF CoreIn, IsCore, CoreFields
  <2>2. none \in {gc, out}
    OBVIOUS
  <2> HIDE DEF out, none
  <2> QED
    BY <2>1, <2>2 DEF SameLife, CoreIn
<1>3. SameLife(gc, off)
  <2>1. /\ IsCore(off) /\ off.delay = FALSE /\ off.due = FALSE
        /\ off.status = gc.status /\ off.cleaning = gc.cleaning /\ off.attr = gc.attr
        /\ off.GC = gc.GC
    BY DEF CoreIn, IsCore, CoreFields
  <2> HIDE DEF off
  <2> QED
    BY <2>1 DEF SameLife, CoreIn
<1>4. \/ Selected(t, q).gc = mine
      \/ \E th, g : g \in {mine, none, off} /\ Selected(t, q) = Rest(th, t, q, g)
  <2> DEFINE own == [ths EXCEPT ![t].qcache = <<>>, ![t].flags = @ \ {"FLUSH"}]
             th == IF Len(q) = 0 THEN FlushAll(own) ELSE own
             f == ths[t].flags
             joined == [th EXCEPT ![t].flags = @ \cup {"GC"}]
             out == [th EXCEPT ![t].flags = @ \ {"GC"}]
             doing == [joined EXCEPT ![t].at = "gc", ![t].limit = Len(q) - GcOneTime]
  <2>1. Selected(t, q) =
        IF Enough(Len(q)) THEN Rest(out, t, q, none)
        ELSE IF PutOff(f, Len(q)) THEN Rest(th, t, q, off)
        ELSE IF ~gc.due THEN Rest(joined, t, q, mine)
        ELSE [ths |-> doing, gc |-> mine, xq |-> q]
    BY DEF Selected
  <2> HIDE DEF own, th, f, joined, out, doing, none, off, mine
  <2> QED
    BY <2>1
<1> HIDE DEF none, off, mine
<1>5. \A g \in {mine, none, off} : CoreIn(g) /\ g.status = gc.status /\ g.cleaning = gc.cleaning
  BY <1>1, <1>2, <1>3 DEF SameLife
<1>6. ASSUME NEW th, NEW g \in {mine, none, off}, Selected(t, q) = Rest(th, t, q, g)
      PROVE  SameLife(gc, Selected(t, q).gc)
  BY <1>5, <1>6, RestLife DEF SameLife
<1> QED
  BY <1>1, <1>4, <1>6


-----------------------------------------------------------------------------
(***************************************************************************)
(* The invariant, and the steps of callers and threads that start          *)
(***************************************************************************)

PcType == [Callers -> {"out", "empty", "create", "gc"}]

\* A pool that is released gets no new objects, has threads for its tasks, and at
\* last neither.
LifeOK ==
    /\ gc.status # "created" => \A c \in Callers : pc[c] \in {"out", "gc"}
    /\ gc.status = "destroying" /\ used # {} =>
         /\ \E t \in Threads : ths[t].at \notin Idle
         /\ \A t \in Threads : ths[t].at # "asleep"
    /\ gc.status = "destroyed" =>
         /\ used = {} /\ pool.blocks = <<>> /\ pool.xq = <<>>
         /\ \A t \in Threads : ths[t].at = "none"

PlaceIInv ==
    /\ ObjectsKept(pool, used, ths) /\ ThcOK(thc, ths)
    /\ CoreIn(gc) /\ pc \in PcType /\ LifeOK

LEMMA Known ==
  ASSUME FlagsIInv, PlaceIInv
  PROVE  /\ AreThreads(ths) /\ IsCore(gc) /\ ths \in [Threads -> ThreadType]
         /\ ObjectsKept(pool, used, ths) /\ ThcOK(thc, ths) /\ CoreIn(gc)
         /\ pc \in PcType /\ LifeOK
<1>1. AreThreads(ths) /\ IsCore(gc)
  BY DEF FlagsIInv, Agree
<1>2. ths \in [Threads -> ThreadType]
  BY <1>1, TypeOfThreads DEF PlaceIInv
<1> QED
  BY <1>1, <1>2 DEF PlaceIInv

LEMMA ThcStays ==
  ASSUME ThcOK(thc, ths), UNCHANGED thc, Goes(ths, ths')
  PROVE  ThcOK(thc', ths')
<1>1. \A x \in Threads : ths'[x].at = "cached" => ths[x].at = "cached"
  BY DEF Goes, Idle
<1> QED
  BY <1>1 DEF ThcOK

LEMMA LifeStays ==
  ASSUME LifeOK, gc'.status = gc.status, gc.status # "destroyed", Goes(ths, ths'),
         gc.status # "created" =>
            used' \subseteq used /\ \A c \in Callers : pc'[c] \in {"out", "gc"}
  PROVE  LifeOK'
<1>1. \A x \in Threads : /\ ths[x].at \notin Idle => ths'[x].at \notin Idle
                         /\ ths'[x].at = "asleep" => ths[x].at = "asleep"
  BY DEF Goes
<1>2. ASSUME gc'.status = "destroying", used' # {}
      PROVE  /\ \E t \in Threads : ths'[t].at \notin Idle
             /\ \A t \in Threads : ths'[t].at # "asleep"
  <2>1. gc.status = "destroying" /\ used # {}
    BY <1>2
  <2>2. (\E t \in Threads : ths[t].at \notin Idle) /\ \A t \in Threads : ths[t].at # "asleep"
    BY <2>1 DEF LifeOK
  <2> QED
    BY <1>1, <2>2
<1> QED
  BY <1>2 DEF LifeOK

\* What users do.
LEMMA GetStep ==
  ASSUME FlagsIInv, PlaceIInv, NEW c \in Callers, CacheGet(c) \/ AskThreads(c)
  PROVE  PlaceIInv'
<1>1. ObjectsKept(pool', used', ths')
  BY GetPlaces DEF PlaceIInv
<1>2. Goes(ths, ths') /\ UNCHANGED thc
  BY Known, AskGoes DEF CacheGet, Goes
<1>3. ThcOK(thc', ths')
  BY <1>2, Known, ThcStays
<1>4. CoreIn(gc') /\ gc'.status = gc.status /\ pc' \in PcType /\ gc.status = "created"
  <2>1. CASE CacheGet(c)
    <3>1. gc' = [gc EXCEPT !.delay = @ \/ gc.GC # NoThread] /\ gc.status = "created"
      BY <2>1 DEF CacheGet
    <3>2. CoreIn(gc') /\ gc'.status = gc.status
      <4> DEFINE d == gc.delay \/ gc.GC # NoThread
      <4>1. d \in BOOLEAN
        OBVIOUS
      <4>2. gc' = [gc EXCEPT !.delay = d]
        BY <3>1
      <4> HIDE DEF d
      <4>3. /\ IsCore(gc') /\ gc'.delay = d /\ gc'.due = gc.due /\ gc'.status = gc.status
            /\ gc'.cleaning = gc.cleaning /\ gc'.attr = gc.attr /\ gc'.GC = gc.GC
        BY <4>2, Known DEF IsCore, CoreFields
      <4> QED
        BY <4>1, <4>3, Known DEF CoreIn
    <3>3. \E p \in {"out", "empty"} : pc' = [pc EXCEPT ![c] = p]
      BY <2>1 DEF CacheGet, Fetch
    <3> QED
      BY <3>1, <3>2, <3>3, Known DEF PcType
  <2>2. CASE AskThreads(c)
    <3>1. pc[c] = "empty" /\ pc' = [pc EXCEPT ![c] = "create"] /\ UNCHANGED gc
      BY <2>2 DEF AskThreads
    <3>2. gc.status = "created"
      BY <3>1, Known DEF LifeOK
    <3> QED
      BY <3>1, <3>2, Known DEF PcType
  <2> QED
    BY <2>1, <2>2
<1>5. LifeOK'
  BY <1>2, <1>4, Known, LifeStays
<1> QED
  BY <1>1, <1>3, <1>4, <1>5 DEF PlaceIInv

LEMMA CreateStep ==
  ASSUME FlagsIInv, PlaceIInv, "ascending" \in Careful, NEW c \in Callers, CacheCreate(c)
  PROVE  PlaceIInv'
<1>1. ObjectsKept(pool', used', ths')
  BY CreatePlaces DEF PlaceIInv
<1>2. /\ UNCHANGED <<thc, ths, gc>> /\ pc[c] = "create" /\ pc' = [pc EXCEPT ![c] = "out"]
  BY DEF CacheCreate, Fetch
<1>3. Goes(ths, ths') /\ gc.status = "created"
  BY <1>2, Known DEF Goes, LifeOK
<1>4. pc' \in PcType
  BY <1>2, Known DEF PcType
<1>5. LifeOK'
  BY <1>2, <1>3, Known, LifeStays
<1> QED
  BY <1>1, <1>2, <1>4, <1>5 DEF PlaceIInv

LEMMA PutStep ==
  ASSUME FlagsIInv, PlaceIInv, NEW c \in Callers, CachePut(c)
  PROVE  PlaceIInv'
<1>1. ObjectsKept(pool', used', ths')
  BY PutPlaces DEF PlaceIInv
<1>2. /\ UNCHANGED <<thc, ths, gc>>
      /\ \E next \in {"out", "gc"} : pc' = [pc EXCEPT ![c] = next]
      /\ used # {} /\ used' \subseteq used
  <2>1. PICK O \in (SUBSET used) \ {{}} : used' = used \ O
    BY DEF CachePut
  <2>2. O # {} /\ O \subseteq used
    OBVIOUS
  <2>3. used # {}
    BY <2>2
  <2>4. used' \subseteq used
    BY <2>1
  <2> QED
    BY <2>3, <2>4 DEF CachePut
<1>3. Goes(ths, ths') /\ gc.status # "destroyed"
  BY <1>2, Known DEF Goes, LifeOK
<1>4. pc' \in PcType
  BY <1>2, Known DEF PcType
<1>5. gc.status # "created" => \A x \in Callers : pc'[x] \in {"out", "gc"}
  BY <1>2, Known DEF LifeOK, PcType
<1>6. LifeOK'
  BY <1>2, <1>3, <1>5, Known, LifeStays
<1> QED
  BY <1>1, <1>2, <1>4, <1>6 DEF PlaceIInv

LEMMA StartStep ==
  ASSUME FlagsIInv, PlaceIInv, NEW t \in Threads, Starts(t) \/ StartFails(t),
         gc.status # "destroyed", pc' \in PcType, UNCHANGED <<pool, used, gc>>,
         gc.status # "created" => /\ \A c \in Callers : pc'[c] \in {"out", "gc"}
                                  /\ Starts(t)
  PROVE  PlaceIInv'
<1>1. ObjectsKept(pool', used', ths')
  BY Known, StartsPlaces
<1>2. ThcOK(thc', ths')
  BY Known, StartsThc
<1>3. LifeOK'
  <2>1. CASE gc.status = "created"
    BY <2>1 DEF LifeOK
  <2>2. CASE gc.status = "destroying"
    <3>1. ths' = [ths EXCEPT ![t] = NewThread("ready")]
      BY <2>2 DEF Starts
    <3>2. ths'[t].at = "ready" /\ \A x \in Threads \ {t} : ths'[x] = ths[x]
      BY <3>1, Known, AtOfNew
    <3>3. "ready" \notin Idle
      BY DEF Idle
    <3> QED
      BY <2>2, <3>2, <3>3, Known DEF LifeOK
  <2> QED
    BY <2>1, <2>2, Known DEF CoreIn
<1> QED
  BY <1>1, <1>2, <1>3, Known DEF PlaceIInv

LEMMA ReviveCore ==
  ASSUME CoreIn(gc), NEW t \in Threads, Revives(t)
  PROVE  CoreIn(gc') /\ gc'.status = gc.status
<1>1. gc' = [gc EXCEPT !.dying = @ - 1] /\ IsCore(gc) /\ gc.dying > 0
  BY DEF Revives, CoreIn
<1>2. /\ gc'.GC = gc.GC /\ gc'.due = gc.due /\ gc'.delay = gc.delay
      /\ gc'.status = gc.status /\ gc'.cleaning = gc.cleaning /\ gc'.attr = gc.attr
  BY <1>1 DEF IsCore, CoreFields
<1>3. IsCore(gc')
  BY <1>1 DEF IsCore, CoreFields
<1> QED
  BY <1>2, <1>3 DEF CoreIn

LEMMA TryStep ==
  ASSUME FlagsIInv, PlaceIInv, NEW c \in Callers, TryGC(c)
  PROVE  PlaceIInv'
<1>1. UNCHANGED <<pool, used>> /\ pc' = [pc EXCEPT ![c] = "out"]
  BY DEF TryGC
<1>2. pc' \in PcType
  BY <1>1, Known DEF PcType
<1>3. gc.status # "created" => \A x \in Callers : pc'[x] \in {"out", "gc"}
  BY <1>1, Known DEF LifeOK, PcType
<1>4. \/ UNCHANGED <<ths, thc, gc>>
      \/ Flushablel(pool.xq, GcWakeup)
  BY DEF TryGC
<1>5. \/ UNCHANGED <<ths, thc, gc>>
      \/ \E t \in Threads : /\ ths[t].at = "asleep" /\ ths' = [ths EXCEPT ![t].at = "ready"]
                            /\ UNCHANGED <<thc, gc>>
      \/ \E t \in Threads : Revives(t) \/ (Starts(t) /\ UNCHANGED gc)
  BY DEF TryGC, Alive
<1>6. CASE UNCHANGED <<ths, thc, gc>>
  <2>1. ObjectsKept(pool', used', ths') /\ ThcOK(thc', ths') /\ CoreIn(gc')
    BY <1>1, <1>6, Known
  <2>2. LifeOK'
    BY <1>1, <1>3, <1>6, Known DEF LifeOK
  <2> QED
    BY <1>2, <2>1, <2>2 DEF PlaceIInv
<1>7. CASE ~UNCHANGED <<ths, thc, gc>>
  <2>1. gc.status # "destroyed"
    <3> SUFFICES ASSUME gc.status = "destroyed" PROVE FALSE
      OBVIOUS
    <3>1. pool.xq = <<>>
      BY Known DEF LifeOK
    <3>2. Len(<<>>) = 0
      OBVIOUS
    <3>3. GcWakeup \in Int
      <4>1. gc.attr \in Int \X Int \X Int
        BY Known, ObjAssumption DEF CoreIn, ObjAssumption
      <4> QED
        BY <4>1 DEF GcWakeup
    <3>4. ~Flushablel(pool.xq, GcWakeup)
      BY <3>1, <3>2, <3>3 DEF Flushablel
    <3> QED
      BY <1>4, <1>7, <3>4
  <2>2. ASSUME NEW t \in Threads, ths[t].at = "asleep", ths' = [ths EXCEPT ![t].at = "ready"],
               UNCHANGED <<thc, gc>>
        PROVE  PlaceIInv'
    <3>1. ObjectsKept(pool', used', ths')
      BY <1>1, <2>2, Known, WokenPlaces
    <3>2. Goes(ths, ths')
      <4>1. ths[t] \in ThreadType /\ ths \in [Threads -> ThreadType]
        BY Known
      <4>2. (\A x \in Threads \ {t} : ths'[x].at = ths[x].at) /\ ths'[t].at = "ready"
        BY <2>2, <4>1 DEF ThreadType
      <4>3. ths[t].at \notin Idle /\ ths'[t].at \notin Idle /\ ths'[t].at # "asleep"
        BY <2>2, <4>2 DEF Idle
      <4> QED
        BY <4>2, <4>3, OneGoes
    <3>3. ThcOK(thc', ths')
      BY <2>2, <3>2, Known, ThcStays
    <3>4. LifeOK'
      BY <1>1, <1>3, <2>1, <2>2, <3>2, Known, LifeStays
    <3> QED
      BY <1>1, <1>2, <2>2, <3>1, <3>3, <3>4, Known DEF PlaceIInv
  <2>3. ASSUME NEW t \in Threads, Starts(t), UNCHANGED gc
        PROVE  PlaceIInv'
    BY <1>1, <1>2, <1>3, <2>1, <2>3, StartStep
  <2>4. ASSUME NEW t \in Threads, Revives(t)
        PROVE  PlaceIInv'
    <3>1. ObjectsKept(pool', used', ths')
      BY <1>1, <2>4, Known, RevivePlaces
    <3>2. Goes(ths, ths') /\ UNCHANGED thc
      BY <2>4, Known, ReviveGoes
    <3>3. ThcOK(thc', ths')
      BY <3>2, Known, ThcStays
    <3>4. CoreIn(gc') /\ gc'.status = gc.status
      BY <2>4, Known, ReviveCore
    <3>5. LifeOK'
      BY <1>1, <1>3, <2>1, <3>2, <3>4, Known, LifeStays
    <3> QED
      BY <1>1, <1>2, <3>1, <3>3, <3>4, <3>5 DEF PlaceIInv
  <2> QED
    BY <1>5, <1>7, <2>2, <2>3, <2>4
<1> QED
  BY <1>6, <1>7


-----------------------------------------------------------------------------
(***************************************************************************)
(* Steps of threads keep the invariant                                     *)
(***************************************************************************)

\* The steps of a thread that neither starts nor ends
LEMMA ServeStep ==
  ASSUME FlagsIInv, FlagsIInv', PlaceIInv, NEW t \in Threads,
         TakeTask(t) \/ SeeFlags(t) \/ GcLeave(t) \/ GcRun(t) \/ GcFree(t)
         \/ GcDue(t) \/ Wake(t) \/ TaskDone(t) \/ Mark(t) \/ Revive(t)
  PROVE  PlaceIInv'
<1>1. ObjectsKept(pool', used', ths')
  BY Known, TakePlaces, SeePlaces, LeavePlaces, GcPlaces, WakePlaces, DonePlaces,
     MarkPlaces, RevivePlaces DEF Revive
<1>2. Goes(ths, ths') /\ UNCHANGED thc
  BY Known, ServeGoes, DoneGoes, MarkGoes, ReviveGoes DEF Revive
<1>3. ThcOK(thc', ths')
  BY <1>2, Known, ThcStays
<1>4. used' \subseteq used /\ UNCHANGED pc /\ ths[t].at # "none"
  BY DEF TakeTask, SeeFlags, GcLeave, GcRun, GcFree, GcDue, Wake, TaskDone, Mark,
         Revive, Revives, Alive
<1>5. CoreIn(gc') /\ gc'.status = gc.status
  <2>1. IsCore(gc') /\ IsCore(gc)
    BY Known DEF FlagsIInv, Agree
  <2>2. \/ UNCHANGED gc
        \/ gc' = [gc EXCEPT !.GC = NoThread]
        \/ gc' = [gc EXCEPT !.due = FALSE, !.delay = FALSE]
        \/ gc' = [gc EXCEPT !.due = TRUE]
        \/ gc' = [gc EXCEPT !.dying = @ + 1]
        \/ gc' = [gc EXCEPT !.dying = @ - 1] /\ gc.dying > 0
    BY DEF TakeTask, SeeFlags, GcLeave, GcRun, GcFree, GcDue, Wake, TaskDone, Mark,
           Revive, Revives
  <2>3. /\ gc'.GC \in {gc.GC, NoThread} /\ gc'.due \in {gc.due, TRUE, FALSE}
        /\ gc'.delay \in {gc.delay, FALSE} /\ gc'.status = gc.status
        /\ gc'.cleaning = gc.cleaning /\ gc'.attr = gc.attr
    BY <2>1, <2>2 DEF IsCore, CoreFields
  <2> QED
    BY <2>1, <2>3, Known DEF CoreIn
<1>6. gc.status # "destroyed"
  BY <1>4, Known DEF LifeOK
<1>7. LifeOK'
  BY <1>2, <1>4, <1>5, <1>6, Known, LifeStays DEF LifeOK
<1> QED
  BY <1>1, <1>3, <1>4, <1>5, <1>7, Known DEF PlaceIInv

\* A thread that has found no task, or is not needed, gives all it has.
LEMMA NoTaskPlaces ==
  ASSUME FlagsIInv, PlaceIInv, NEW t \in Threads, NoTask(t) \/ Retire(t)
  PROVE  /\ ObjectsKept(pool', used', ths') /\ SameLife(gc, gc')
         /\ \A x \in Threads \ {t} : ths'[x].at = ths[x].at
         /\ ths'[t].at \in {"asleep", "left", "gc"} /\ ths[t].at \in {"ready", "asleep"}
<1> DEFINE q == AddQlDir(pool.xq, ths[t].qcache)
<1>1. ths[t].at \in {"ready", "asleep"} /\ UNCHANGED used
  BY DEF NoTask, Retire
<1>2. PICK w : Placed(w, pool, used, ths)
  BY DEF PlaceIInv, ObjectsKept
<1>3. ths[t].task = NoObject /\ ths[t].rmq = <<>>
  <2>1. ths[t].at \notin Working /\ ths[t].at # "free"
    BY <1>1 DEF Working
  <2> QED
    BY <1>2, <2>1, Outside0
<1>4. q \in Seq(Objects)
  <2>1. pool.xq \in Seq(Objects)
    <3>1. Lists(pool.xq, At(w, Cached)) /\ At(w, Cached) \subseteq Objects
      BY <1>2, PlacedFacts, AtFacts
    <3> QED
      BY <3>1, ListFacts
  <2>2. ths[t].qcache \in Seq(Objects)
    BY Known DEF ThreadType
  <2> QED
    BY <2>1, <2>2, ConcatProperties DEF AddQlDir
<1>5. \E r : Becomes(r) /\ SameLife(gc, r.gc) /\ Leaves(r, ths, t, q)
  <2>1. CASE NoTask(t) /\ MayGC(t)
    <3>1. Becomes(Selected(t, q)) /\ ths[t].at = "ready"
      BY <2>1 DEF NoTask
    <3>2. SameLife(gc, Selected(t, q).gc)
      BY Known, SelectedLife
    <3>3. GcOneTime \in Int
      BY Known, OneTimeIs
    <3> HIDE DEF q
    <3>4. Leaves(Selected(t, q), ths, t, q)
      BY <1>3, <1>4, <3>1, <3>3, Known, SelectedLeaves
    <3> QED
      BY <3>1, <3>2, <3>4
  <2>2. CASE NoTask(t) /\ ~MayGC(t)
    <3>1. Becomes(Rest(ths, t, pool.xq, gc))
      BY <2>2 DEF NoTask
    <3>2. SameLife(gc, Rest(ths, t, pool.xq, gc).gc)
      BY Known, RestLife
    <3>3. Leaves(Rest(ths, t, pool.xq, gc), ths, t, q)
      BY <1>3, Known, RestLeaves
    <3> QED
      BY <3>1, <3>2, <3>3
  <2>3. CASE Retire(t)
    <3>1. Becomes(Left(ths, t, pool.xq, gc))
      BY <2>3 DEF Retire
    <3>2. SameLife(gc, Left(ths, t, pool.xq, gc).gc)
      BY Known, RestLife
    <3>3. Leaves(Left(ths, t, pool.xq, gc), ths, t, q)
      BY Known, LeftLeaves
    <3> QED
      BY <3>1, <3>2, <3>3
  <2> QED
    BY <2>1, <2>2, <2>3
<1> HIDE DEF q
<1>6. PICK r : Becomes(r) /\ SameLife(gc, r.gc) /\ Leaves(r, ths, t, q)
  BY <1>5
<1>7. ths' = r.ths /\ gc' = r.gc /\ pool' = [pool EXCEPT !.xq = q]
  BY <1>6 DEF Becomes, Leaves
<1>8. pool' = [pool EXCEPT !.xq = AddQlDir(@, ths[t].qcache)]
  BY <1>7 DEF q
<1>9. ObjectsKept(pool', used', ths')
  <2> DEFINE th2 == r.ths
  <2>1. (\A x \in Threads \ {t} : Alike(ths[x], th2[x])) /\ Bare(th2[t])
    BY <1>6 DEF Leaves
  <2>2. ths[t].at \notin Working /\ ths[t].at # "free"
    BY <1>1 DEF Working
  <2> HIDE DEF th2
  <2>3. ObjectsKept([pool EXCEPT !.xq = AddQlDir(@, ths[t].qcache)], used, th2)
    BY <2>1, <2>2, Known, GaveAll
  <2> QED
    BY <1>1, <1>7, <1>8, <2>3 DEF th2
<1> QED
  BY <1>1, <1>6, <1>7, <1>9 DEF Leaves

LEMMA NoTaskStep ==
  ASSUME FlagsIInv, PlaceIInv, NEW t \in Threads, NoTask(t) \/ Retire(t)
  PROVE  PlaceIInv'
<1>1. /\ ObjectsKept(pool', used', ths') /\ SameLife(gc, gc')
      /\ \A x \in Threads \ {t} : ths'[x].at = ths[x].at
      /\ ths'[t].at \in {"asleep", "left", "gc"} /\ ths[t].at \in {"ready", "asleep"}
  BY NoTaskPlaces
<1>2. UNCHANGED <<thc, used, pc>>
  BY DEF NoTask, Retire
<1>3. ThcOK(thc', ths')
  <2>1. \A x \in Threads : ths'[x].at = "cached" => ths[x].at = "cached"
    BY <1>1
  <2> QED
    BY <1>2, <2>1, Known DEF ThcOK
<1>4. CoreIn(gc') /\ gc'.status = gc.status
  BY <1>1 DEF SameLife
<1>5. gc.status = "destroying" => used = {}
  BY <1>1, Known DEF NoTask, Retire, LifeOK
<1>6. gc.status # "destroyed"
  BY <1>1, Known DEF LifeOK
<1>7. LifeOK'
  BY <1>2, <1>4, <1>5, <1>6, Known DEF LifeOK
<1> QED
  BY <1>1, <1>2, <1>3, <1>4, <1>7, Known DEF PlaceIInv

LEMMA RecycleStep ==
  ASSUME FlagsIInv, PlaceIInv, NEW t \in Threads, Recycle(t)
  PROVE  PlaceIInv'
<1> DEFINE r == AddLimit(thc, t, ThreadLimit)
<1>1. /\ UNCHANGED <<pool, used, gc, pc>> /\ ths[t].at = "left"
      /\ ths' = [u \in Threads |->
                   IF u \in r.rmq THEN NewThread("none")
                   ELSE IF u = t THEN NewThread("cached") ELSE ths[u]]
  BY DEF Recycle
<1>2. /\ thc \in Seq(Threads) /\ Distinct(thc)
      /\ \A i \in 1..Len(thc) : thc[i] \in Threads /\ ths[thc[i]].at = "cached"
  BY ElementOfSeq DEF FlagsIInv, CacheOf
<1>3. \A i \in 1..Len(thc) : thc[i] # t
  BY <1>1, <1>2
<1>4. \A u \in r.rmq : u = t \/ \E j \in 1..Len(thc) : u = thc[j]
  <2>1. /\ r.q \in Seq(Threads) /\ Distinct(r.q)
        /\ \A i \in 1..Len(r.q) : r.q[i] \notin r.rmq
        /\ \A i \in 1..Len(r.q) : r.q[i] = t \/ \E j \in 1..Len(thc) : r.q[i] = thc[j]
        /\ \A u \in r.rmq : u = t \/ \E j \in 1..Len(thc) : u = thc[j]
    BY <1>2, <1>3, AddLimitKeeps, LimitIs
  <2> QED
    BY <2>1
<1> HIDE DEF r
<1>5. ASSUME NEW x \in Threads
      PROVE  Alike(ths[x], ths'[x]) /\ (ths[x].at \notin {"cached", "left"} => ths'[x] = ths[x])
             /\ (ths'[x] = ths[x] \/ ths'[x].at \in {"none", "cached"})
  <2>1. CASE x \in r.rmq \/ x = t
    <3>1. ths[x].at \in {"cached", "left"}
      BY <1>1, <1>2, <1>4, <2>1
    <3>2. \E where \in {"none", "cached"} : ths'[x] = NewThread(where)
      BY <1>1, <2>1
    <3> QED
      BY <3>1, <3>2, AtOfNew DEF Alike
  <2>2. CASE x \notin r.rmq /\ x # t
    BY <1>1, <2>2 DEF Alike
  <2> QED
    BY <2>1, <2>2
<1>6. ObjectsKept(pool', used', ths')
  BY <1>1, <1>5, Known, AlikePlaces
<1>7. ThcOK(thc', ths')
  BY Known, RecycleThc
<1>8. gc.status # "destroyed"
  BY <1>1, Known DEF LifeOK
<1>9. LifeOK'
  <2>1. \A x \in Threads : /\ ths[x].at \notin Idle => ths'[x].at \notin Idle
                           /\ ths'[x].at = "asleep" => ths[x].at = "asleep"
    BY <1>5 DEF Idle
  <2> QED
    BY <1>1, <1>8, <2>1, Known DEF LifeOK
<1> QED
  BY <1>1, <1>6, <1>7, <1>9, Known DEF PlaceIInv


-----------------------------------------------------------------------------
(***************************************************************************)
(* The end of the pool keeps the invariant, and its start                  *)
(***************************************************************************)

LEMMA ReleaseStep ==
  ASSUME FlagsIInv, FlagsIInv', PlaceIInv, NEW clean \in BOOLEAN, Release(clean)
  PROVE  PlaceIInv'
<1>1. /\ UNCHANGED <<pool, thc, used, pc>> /\ gc.status = "created"
      /\ \A c \in Callers : pc[c] = "out"
      /\ used # {} => Alive # {}
      /\ ths' = [t \in Threads |-> IF ths[t].at = "asleep"
                                   THEN [ths[t] EXCEPT !.at = "ready"] ELSE ths[t]]
  BY DEF Release
<1>2. ASSUME NEW x \in Threads
      PROVE  Alike(ths[x], ths'[x])
             /\ ths'[x].at = IF ths[x].at = "asleep" THEN "ready" ELSE ths[x].at
  <2> DEFINE r == ths[x]
             r2 == [r EXCEPT !.at = "ready"]
  <2>1. r \in ThreadType
    BY Known
  <2>2. CASE ths[x].at = "asleep"
    <3>1. ths'[x] = r2 /\ r.at = "asleep"
      BY <1>1, <2>2
    <3> HIDE DEF r
    <3>2. "ready" \in Location /\ "ready" \notin Working /\ "asleep" \notin Working
      BY DEF Location, Working
    <3>3. /\ r2 \in ThreadType /\ r2.at = "ready" /\ r2.task = r.task
          /\ r2.qcache = r.qcache /\ r2.rmq = r.rmq
      <4>1. r2.at = "ready" /\ r2.task = r.task /\ r2.qcache = r.qcache /\ r2.rmq = r.rmq
        BY <2>1 DEF ThreadType
      <4>2. r2 \in ThreadType
        BY <2>1, <3>2 DEF ThreadType
      <4> QED
        BY <4>1, <4>2
    <3> HIDE DEF r2
    <3>4. SameObjects(r, r2)
      BY <3>1, <3>2, <3>3 DEF SameObjects
    <3> QED
      BY <2>2, <3>1, <3>3, <3>4 DEF Alike, r
  <2>3. CASE ths[x].at # "asleep"
    BY <1>1, <2>3 DEF Alike
  <2> QED
    BY <2>2, <2>3
<1>3. ObjectsKept(pool', used', ths')
  BY <1>1, <1>2, Known, AlikePlaces
<1>4. Goes(ths, ths')
  BY <1>2 DEF Goes, Idle
<1>5. ThcOK(thc', ths')
  BY <1>1, <1>4, Known, ThcStays
<1>6. CoreIn(gc') /\ gc'.status = "destroying"
  <2> DEFINE b == clean \/ Alive = {}
  <2>1. b \in BOOLEAN
    OBVIOUS
  <2>2. gc' = [gc EXCEPT !.status = "destroying", !.attr = ReleaseAttr, !.cleaning = b]
    BY DEF Release
  <2> HIDE DEF b
  <2>3. /\ gc'.GC = gc.GC /\ gc'.due = gc.due /\ gc'.delay = gc.delay
        /\ gc'.status = "destroying" /\ gc'.cleaning = b /\ gc'.attr = ReleaseAttr
    BY <2>2, Known DEF IsCore, CoreFields
  <2>4. IsCore(gc')
    BY DEF FlagsIInv, Agree
  <2> QED
    BY <2>1, <2>3, <2>4, Known DEF CoreIn
<1>7. LifeOK'
  <2>1. \A t \in Threads : ths'[t].at # "asleep"
    BY <1>2
  <2>2. ASSUME used # {} PROVE \E t \in Threads : ths'[t].at \notin Idle
    <3>1. PICK t \in Threads : ths[t].at \notin Idle
      BY <1>1, <2>2 DEF Alive, Idle
    <3> QED
      BY <1>2, <3>1 DEF Idle
  <2> QED
    BY <1>1, <1>6, <2>1, <2>2 DEF LifeOK
<1> QED
  BY <1>1, <1>3, <1>5, <1>6, <1>7, Known DEF PlaceIInv

LEMMA DestroyStep ==
  ASSUME FlagsIInv, FlagsIInv', PlaceIInv, Destroy
  PROVE  PlaceIInv'
<1>1. /\ UNCHANGED <<used, pc>> /\ gc.status = "destroying" /\ Alive = {}
      /\ pool' = Destroyed([pool EXCEPT !.xq = Remaining(@, 0)], FlushQ(pool.xq, 0))
      /\ gc' = [gc EXCEPT !.status = "destroyed"]
      /\ ths' = [t \in Threads |-> IF t \in ToSet(thc) THEN NewThread("none") ELSE ths[t]]
  BY DEF Destroy
<1>2. /\ ThcOK(thc', ths') /\ \A t \in Threads : ths'[t].at = "none"
      /\ \A t \in Threads : ths[t].at \in {"none", "cached"}
  BY Known, DestroyThc
<1>3. used = {}
  BY <1>1, Known DEF LifeOK, Alive, Idle
<1>4. PICK w : Placed(w, pool, used, ths)
  BY Known DEF ObjectsKept
<1> DEFINE r == Destroyed([pool EXCEPT !.xq = Remaining(@, 0)], FlushQ(pool.xq, 0))
<1>5. r.blocks = <<>> /\ r.xq = <<>> /\ ObjectsKept(r, used, ths)
  <2>1. r = Destroyed([pool EXCEPT !.xq = Remaining(@, 0)], FlushQ(pool.xq, 0))
    OBVIOUS
  <2> HIDE DEF r
  <2>2. r.blocks = <<>> /\ r.xq = <<>> /\ \E v : Placed(v, r, used, ths)
    BY <1>2, <1>3, <1>4, <2>1, Emptied
  <2> QED
    BY <2>2 DEF ObjectsKept
<1> HIDE DEF r
<1>6. \A x \in Threads : Alike(ths[x], ths'[x])
  BY <1>1, <1>2 DEF Alike
<1>7. ObjectsKept(r, used, ths')
  BY <1>5, <1>6, ThreadsKept
<1>8. pool' = r /\ used' = used
  BY <1>1 DEF r
<1>9. CoreIn(gc') /\ gc'.status = "destroyed"
  <2>1. /\ gc'.GC = gc.GC /\ gc'.due = gc.due /\ gc'.delay = gc.delay
        /\ gc'.status = "destroyed" /\ gc'.cleaning = gc.cleaning /\ gc'.attr = gc.attr
    BY <1>1, Known DEF IsCore, CoreFields
  <2>2. IsCore(gc')
    BY DEF FlagsIInv, Agree
  <2> QED
    BY <2>1, <2>2, Known DEF CoreIn
<1>10. LifeOK'
  BY <1>1, <1>2, <1>3, <1>5, <1>8, <1>9, Known DEF LifeOK
<1> QED
  BY <1>1, <1>2, <1>7, <1>8, <1>9, <1>10, Known DEF PlaceIInv

LEMMA PlacesAtFirst ==
  ASSUME ObjInit
  PROVE  PlaceIInv
<1> DEFINE w == [o \in Objects |-> Nowhere]
           where(t) == IF t \in Buffer THEN "cached" ELSE "none"
<1>1. FlagsIInv
  BY FlagsAtFirst
<1>2. /\ pool = [blocks |-> <<>>, nput |-> 0, xq |-> <<>>, astray |-> FALSE]
      /\ thc = SetToSeq(Buffer) /\ used = {}
      /\ ths = [t \in Threads |-> NewThread(where(t))]
      /\ gc.GC = NoThread /\ gc.delay = FALSE /\ gc.due = TRUE /\ gc.status = "created"
      /\ gc.cleaning = FALSE /\ gc.attr = CreatedAttr
      /\ pc = [c \in Callers |-> "out"]
  BY DEF ObjInit
<1>3. /\ w \in [Objects -> Somewhere] /\ \A p : p # Nowhere => At(w, p) = {}
      /\ At(w, Nowhere) = Objects
  BY PlacesThere DEF At
<1> HIDE DEF w
<1>4. /\ At(w, Cached) = {} /\ At(w, InUse) = {} /\ At(w, BackIn) = {}
      /\ \A t : At(w, TaskOf(t)) = {} /\ At(w, QcacheOf(t)) = {} /\ At(w, RmqOf(t)) = {}
  BY <1>3, PlacesDiffer
<1>5. Lists(<<>>, {})
  BY EmptyLists
<1>6. BlocksHold(<<>>, {}) /\ Begins(<<>>) = {}
  <2>1. Len(<<>>) = 0 /\ <<>> \in Seq(BlockType)
    OBVIOUS
  <2>2. \A i \in 1..0 : FALSE
    OBVIOUS
  <2> QED
    BY <2>1, <2>2 DEF BlocksHold, Sorted, Begins
<1>7. IsPool(pool, {}, {}) /\ Taken(pool) = {}
  <2> DEFINE none == {}
             e == <<>>
  <2>1. /\ Lists(e, none) /\ BlocksHold(e, none) /\ none \in SUBSET Objects
        /\ 0 = Cardinality(none)
    BY <1>5, <1>6, FS_EmptySet
  <2>2. pool = [blocks |-> e, nput |-> 0, xq |-> e, astray |-> FALSE]
    BY <1>2
  <2> HIDE DEF none, e
  <2>3. IsPool(pool, none, none)
    BY <2>1, <2>2, PoolIs
  <2>4. Taken(pool) = Begins(pool.blocks)
    BY <2>3, TakenIs
  <2>5. pool.blocks = e
    BY <2>2
  <2> QED
    BY <1>6, <2>3, <2>4, <2>5 DEF none, e
<1>8. PoolIn(w, pool)
  <2>1. IsPool(pool, At(w, Cached), At(w, BackIn))
    BY <1>4, <1>7
  <2>2. At(w, Nowhere) = {o \in Objects : Page(o) \notin Taken(pool)}
    BY <1>3, <1>7
  <2> QED
    BY <2>1, <2>2 DEF PoolIn
<1>9. ASSUME NEW t \in Threads
      PROVE  ThreadIn(w, t, ths[t]) /\ ths[t].at = where(t)
  <2> DEFINE a == where(t)
             r == NewThread(a)
  <2>1. a \in {"none", "cached"} /\ ths[t] = r
    BY <1>2
  <2> HIDE DEF a
  <2>2. Bare(r) /\ r.at = a
    BY <2>1, NewThreadBare, AtOfNew
  <2> HIDE DEF r
  <2>3. ThreadIn(w, t, r)
    BY <1>4, <1>5, <2>1, <2>2 DEF ThreadIn, ThreadOf, Bare
  <2> QED
    BY <2>1, <2>2, <2>3 DEF a
<1>10. ObjectsKept(pool, used, ths)
  <2>1. used = At(w, InUse)
    BY <1>2, <1>4
  <2>2. Placed(w, pool, used, ths)
    BY <1>3, <1>8, <1>9, <2>1 DEF Placed
  <2> QED
    BY <2>2 DEF ObjectsKept
<1>11. ThcOK(thc, ths)
  <2>1. Lists(thc, Buffer)
    BY <1>2, SetListed, FS_Subset, ObjAssumption DEF ObjAssumption
  <2>2. Len(thc) \in Nat /\ \A i \in 1..Len(thc) : ~NeedDestroy(thc[i])
    BY <2>1, ListFacts DEF NeedDestroy
  <2>3. Ordered(thc)
    BY <2>2 DEF Ordered
  <2>4. Fits(thc)
    <3>1. CASE Len(thc) = 0
      BY <3>1, LimitIs DEF Fits
    <3>2. CASE Len(thc) # 0
      <4>1. 1 \in 1..Len(thc)
        BY <2>2, <3>2
      <4> QED
        BY <2>2, <4>1 DEF Fits
    <3> QED
      BY <3>1, <3>2
  <2>5. \A t \in Threads : ths[t].at = "cached" => Held(thc, t)
    BY <1>9, <2>1 DEF Held, Lists
  <2> QED
    BY <2>3, <2>4, <2>5 DEF ThcOK
<1>12. CoreIn(gc)
  BY <1>1, <1>2 DEF CoreIn, FlagsIInv, Agree
<1>13. LifeOK /\ pc \in PcType
  BY <1>2 DEF LifeOK, PcType
<1> QED
  BY <1>10, <1>11, <1>12, <1>13 DEF PlaceIInv

LEMMA PlaceStep ==
  ASSUME FlagsIInv, PlaceIInv, [ObjNext]_vars, {"ascending", "marks"} \subseteq Careful
  PROVE  PlaceIInv'
<1>1. FlagsIInv'
  BY FlagsStep
<1>2. CASE UNCHANGED vars
  BY <1>2 DEF PlaceIInv, LifeOK, vars
<1>3. ASSUME NEW c \in Callers,
             CacheGet(c) \/ AskThreads(c) \/ CacheCreate(c) \/ CachePut(c) \/ TryGC(c)
      PROVE  PlaceIInv'
  BY <1>3, GetStep, CreateStep, PutStep, TryStep
<1>4. ASSUME NEW t \in Threads,
             TakeTask(t) \/ SeeFlags(t) \/ GcLeave(t) \/ GcRun(t) \/ GcFree(t)
             \/ GcDue(t) \/ Wake(t) \/ TaskDone(t) \/ Mark(t) \/ Revive(t)
      PROVE  PlaceIInv'
  BY <1>1, <1>4, ServeStep
<1>5. ASSUME NEW t \in Threads, NoTask(t) \/ Retire(t)
      PROVE  PlaceIInv'
  BY <1>5, NoTaskStep
<1>6. ASSUME NEW t \in Threads, Recycle(t)
      PROVE  PlaceIInv'
  BY <1>6, RecycleStep
<1>7. ASSUME NEW t \in Threads, StartThread(t) \/ StartFails(t)
      PROVE  PlaceIInv'
  <2>1. /\ gc.status = "created" /\ UNCHANGED <<pool, used, gc, pc>>
        /\ Starts(t) \/ StartFails(t)
    BY <1>7 DEF StartThread, StartFails
  <2> QED
    BY <2>1, Known, StartStep
<1>8. ASSUME NEW clean \in BOOLEAN, Release(clean)
      PROVE  PlaceIInv'
  BY <1>1, <1>8, ReleaseStep
<1>9. CASE Destroy
  BY <1>1, <1>9, DestroyStep
<1> QED
  BY <1>2, <1>3, <1>4, <1>5, <1>6, <1>7, <1>8, <1>9 DEF ObjNext, Serve


-----------------------------------------------------------------------------
(***************************************************************************)
(* What the invariant says, and the theorems                               *)
(***************************************************************************)

LEMMA PutBackIs ==
  ASSUME NEW C, NEW P, IsPool(pool, C, P)
  PROVE  PutBack = P
<1>1. BlocksHold(pool.blocks, P)
  BY PoolShape
<1>2. DOMAIN pool.blocks = 1..Len(pool.blocks)
  BY <1>1, SortedFacts DEF BlocksHold
<1>3. \A b \in 1..Len(pool.blocks) : ToSet(pool.blocks[b].putq) = PutAt(P, pool.blocks[b].begin)
  BY <1>1, ListFacts DEF BlocksHold
<1>4. PutBack = UNION {PutAt(P, pool.blocks[b].begin) : b \in 1..Len(pool.blocks)}
  BY <1>2, <1>3 DEF PutBack
<1>5. \A o \in P : \E b \in 1..Len(pool.blocks) : o \in PutAt(P, pool.blocks[b].begin)
  BY <1>1 DEF BlocksHold, Begins, PutAt
<1>6. \A b \in 1..Len(pool.blocks) : PutAt(P, pool.blocks[b].begin) \subseteq P
  BY DEF PutAt
<1> QED
  BY <1>4, <1>5, <1>6

\* An object is in the place that w tells, and in no other.
LEMMA ThereIs ==
  ASSUME NEW w, Placed(w, pool, used, ths), NEW o \in Objects, NEW p \in Places
  PROVE  o \in There(p) <=> w[o] = p
<1>1. /\ used = At(w, InUse) /\ IsPool(pool, At(w, Cached), At(w, BackIn))
      /\ Lists(pool.xq, At(w, Cached))
      /\ \A t \in Threads : ThreadIn(w, t, ths[t])
  BY PlacedFacts
<1>2. \A q : o \in At(w, q) <=> w[o] = q
  BY DEF At
<1>3. There(p) \cap Objects = At(w, p)
  <2>1. CASE p = Cached
    <3>1. There(p) = ToSet(pool.xq)
      BY <2>1 DEF There, Cached
    <3> QED
      BY <1>1, <2>1, <3>1, ListFacts, AtFacts
  <2>2. CASE p = InUse
    <3>1. There(p) = used
      BY <2>2 DEF There, InUse
    <3> QED
      BY <1>1, <2>2, <3>1, AtFacts
  <2>3. CASE p = BackIn
    <3>1. There(p) = PutBack
      BY <2>3 DEF There, BackIn
    <3> QED
      BY <1>1, <2>3, <3>1, PutBackIs, AtFacts
  <2>4. ASSUME NEW t \in Threads, p = TaskOf(t) PROVE There(p) \cap Objects = At(w, p)
    <3>1. There(p) = {ths[t].task}
      BY <2>4 DEF There, TaskOf
    <3>2. At(w, p) = {ths[t].task} \ {NoObject} /\ ths[t].task \in Objects \cup {NoObject}
      <4>1. ThreadIn(w, t, ths[t])
        BY <1>1
      <4> QED
        BY <2>4, <4>1 DEF ThreadIn, ThreadOf, ThreadType
    <3>3. NoObject \notin Objects
      BY ObjAssumption DEF ObjAssumption
    <3> QED
      BY <3>1, <3>2, <3>3
  <2>5. ASSUME NEW t \in Threads, p = QcacheOf(t) PROVE There(p) \cap Objects = At(w, p)
    <3>1. There(p) = ToSet(ths[t].qcache)
      BY <2>5 DEF There, QcacheOf
    <3>2. Lists(ths[t].qcache, At(w, p))
      <4>1. ThreadIn(w, t, ths[t])
        BY <1>1
      <4> QED
        BY <2>5, <4>1 DEF ThreadIn, ThreadOf
    <3> QED
      BY <3>1, <3>2, ListFacts, AtFacts
  <2>6. ASSUME NEW t \in Threads, p = RmqOf(t) PROVE There(p) \cap Objects = At(w, p)
    <3>1. There(p) = ToSet(ths[t].rmq)
      BY <2>6 DEF There, RmqOf
    <3>2. Lists(ths[t].rmq, At(w, p))
      <4>1. ThreadIn(w, t, ths[t])
        BY <1>1
      <4> QED
        BY <2>6, <4>1 DEF ThreadIn, ThreadOf
    <3> QED
      BY <3>1, <3>2, ListFacts, AtFacts
  <2>7. \/ p \in {Cached, InUse, BackIn}
        \/ \E t \in Threads : p \in {TaskOf(t), QcacheOf(t), RmqOf(t)}
    BY DEF Places, Cached, InUse, BackIn, TaskOf, QcacheOf, RmqOf
  <2> QED
    BY <2>1, <2>2, <2>3, <2>4, <2>5, <2>6, <2>7
<1> QED
  BY <1>2, <1>3

LEMMA OnePlaceHolds ==
  ASSUME FlagsIInv, PlaceIInv
  PROVE  OnePlace
<1>1. PICK w : Placed(w, pool, used, ths)
  BY Known DEF ObjectsKept
<1>2. /\ w \in [Objects -> Somewhere] /\ used = At(w, InUse)
      /\ IsPool(pool, At(w, Cached), At(w, BackIn)) /\ Lists(pool.xq, At(w, Cached))
      /\ At(w, Nowhere) = {o \in Objects : Page(o) \notin Taken(pool)}
      /\ \A t \in Threads : ThreadIn(w, t, ths[t])
  BY <1>1, PlacedFacts
<1>3. BlocksHold(pool.blocks, At(w, BackIn))
  BY <1>2, PoolShape
<1>4. ObjTypeOK
  <2>1. pool \in PoolType
    BY <1>2 DEF IsPool
  <2>2. thc \in Seq(Threads)
    BY DEF FlagsIInv, CacheOf
  <2>3. used \subseteq Objects
    BY <1>2, AtFacts
  <2>4. gc \in CoreType
    <3>1. gc = [f \in CoreFields |-> gc[f]] /\ gc.dying \in Nat
      BY Known, Shapes DEF IsCore
    <3>2. /\ gc.GC \in Threads \cup {NoThread} /\ gc.delay \in BOOLEAN
          /\ gc.due \in BOOLEAN /\ gc.status \in {"created", "destroying", "destroyed"}
          /\ gc.cleaning \in BOOLEAN /\ gc.attr \in {CreatedAttr, ReleaseAttr}
      BY Known DEF CoreIn
    <3>3. gc = [GC |-> gc.GC, delay |-> gc.delay, due |-> gc.due, dying |-> gc.dying,
                status |-> gc.status, cleaning |-> gc.cleaning, attr |-> gc.attr]
      BY <3>1 DEF CoreFields
    <3> QED
      BY <3>1, <3>2, <3>3 DEF CoreType
  <2>5. pc \in [Callers -> {"out", "empty", "create", "gc"}]
    BY Known DEF PcType
  <2> QED
    BY <2>1, <2>2, <2>3, <2>4, <2>5, Known DEF ObjTypeOK
<1>5. OnceEach
  <2>1. IsInjective(pool.xq)
    BY <1>2, ListFacts
  <2>2. ASSUME NEW t \in Threads
        PROVE  IsInjective(ths[t].qcache) /\ IsInjective(ths[t].rmq)
    <3>1. Lists(ths[t].qcache, At(w, QcacheOf(t))) /\ Lists(ths[t].rmq, At(w, RmqOf(t)))
      BY <1>2 DEF ThreadIn, ThreadOf
    <3> QED
      BY <3>1, ListFacts
  <2>3. ASSUME NEW b \in DOMAIN pool.blocks
        PROVE  IsInjective(pool.blocks[b].putq)
    <3>1. b \in 1..Len(pool.blocks)
      BY <1>3, SortedFacts DEF BlocksHold
    <3>2. Lists(pool.blocks[b].putq, PutAt(At(w, BackIn), pool.blocks[b].begin))
      BY <1>3, <3>1 DEF BlocksHold
    <3> QED
      BY <3>2, ListFacts
  <2> QED
    BY <2>1, <2>2, <2>3 DEF OnceEach
<1>6. ASSUME NEW o \in Objects
      PROVE  LET at == {p \in Places : o \in There(p)}
             IN  IF Page(o) \in Taken(pool) THEN \E p \in Places : at = {p} ELSE at = {}
  <2> DEFINE at == {p \in Places : o \in There(p)}
  <2>1. \A p \in Places : o \in There(p) <=> w[o] = p
    BY <1>1, ThereIs
  <2>2. at = {p \in Places : w[o] = p}
    BY <2>1
  <2>3. w[o] \in Somewhere
    BY <1>2
  <2>4. w[o] = Nowhere <=> Page(o) \notin Taken(pool)
    BY <1>2 DEF At
  <2>5. Nowhere \notin Places
    BY DEF Nowhere, Places
  <2> HIDE DEF at
  <2>6. CASE Page(o) \in Taken(pool)
    <3>1. w[o] \in Places
      BY <2>3, <2>4, <2>6 DEF Somewhere
    <3>2. at = {w[o]}
      BY <2>2, <3>1
    <3> QED
      BY <2>6, <3>1, <3>2 DEF at
  <2>7. CASE Page(o) \notin Taken(pool)
    BY <2>2, <2>4, <2>5, <2>7 DEF at
  <2> QED
    BY <2>6, <2>7
<1>7. ASSUME NEW b \in DOMAIN pool.blocks, NEW o \in ToSet(pool.blocks[b].putq)
      PROVE  Page(o) = pool.blocks[b].begin
  <2>1. b \in 1..Len(pool.blocks)
    BY <1>3, SortedFacts DEF BlocksHold
  <2>2. Lists(pool.blocks[b].putq, PutAt(At(w, BackIn), pool.blocks[b].begin))
    BY <1>3, <2>1 DEF BlocksHold
  <2>3. o \in PutAt(At(w, BackIn), pool.blocks[b].begin)
    BY <2>2, ListFacts
  <2> QED
    BY <2>3 DEF PutAt
<1>8. \A t \in Threads : ths[t].at = "cached" <=> t \in ToSet(thc)
  <2>1. DOMAIN thc = 1..Len(thc)
    BY LenProperties DEF FlagsIInv, CacheOf
  <2>2. \A t \in Threads : ths[t].at = "cached" => Held(thc, t)
    BY Known DEF ThcOK
  <2>3. \A i \in 1..Len(thc) : ths[thc[i]].at = "cached"
    BY DEF FlagsIInv, CacheOf
  <2> QED
    BY <2>1, <2>2, <2>3 DEF Held, ToSet
<1> QED
  BY <1>4, <1>5, <1>6, <1>7, <1>8 DEF OnePlace

LEMMA PoolSoundHolds ==
  ASSUME FlagsIInv, PlaceIInv
  PROVE  PoolSound
<1>1. PICK w : Placed(w, pool, used, ths)
  BY Known DEF ObjectsKept
<1>2. IsPool(pool, At(w, Cached), At(w, BackIn))
  BY <1>1, PlacedFacts
<1>3. BlocksHold(pool.blocks, At(w, BackIn)) /\ pool.nput = Cardinality(At(w, BackIn))
  BY <1>2, PoolShape
<1>4. PutBack = At(w, BackIn)
  BY <1>2, PutBackIs
<1>5. ASSUME NEW b \in DOMAIN pool.blocks
      PROVE  /\ Len(pool.blocks[b].putq) < BlockObjs
             /\ b > 1 => pool.blocks[b - 1].begin < pool.blocks[b].begin
  <2>1. b \in 1..Len(pool.blocks) /\ Len(pool.blocks) \in Nat
    BY <1>3, SortedFacts DEF BlocksHold
  <2>2. Len(pool.blocks[b].putq) < BlockObjs
    BY <1>3, <2>1 DEF BlocksHold
  <2>3. ASSUME b > 1 PROVE pool.blocks[b - 1].begin < pool.blocks[b].begin
    <3>1. b - 1 \in 1..Len(pool.blocks) /\ b - 1 < b
      BY <2>1, <2>3
    <3> QED
      BY <1>3, <2>1, <3>1 DEF BlocksHold, Sorted
  <2> QED
    BY <2>2, <2>3
<1> QED
  BY <1>3, <1>4, <1>5 DEF PoolSound

LEMMA AllFreedHolds ==
  ASSUME FlagsIInv, PlaceIInv
  PROVE  AllFreed
BY Known DEF AllFreed, LifeOK

LEMMA ObjectsInvariant ==
  ASSUME {"ascending", "marks"} \subseteq Careful
  PROVE  ObjSpec => [](FlagsIInv /\ PlaceIInv)
<1>1. ObjInit => FlagsIInv /\ PlaceIInv
  BY FlagsAtFirst, PlacesAtFirst
<1>2. FlagsIInv /\ PlaceIInv /\ [ObjNext]_vars => FlagsIInv' /\ PlaceIInv'
  BY FlagsStep, PlaceStep
<1> QED
  BY <1>1, <1>2, PTL DEF ObjSpec

\* With any number of threads, callers, pages and objects, any limits and attributes:
\* whatever is cached, kept by threads, flushed and put back, each object of each block
\* is always in exactly one place, once, and objects of freed blocks are nowhere;
\* a thread_t is in its cache exactly if it is not in use -- if blocks are found
\* at addresses for which the search stays inside the array, and no thread is
\* marked, or used again though it was marked, inside cpool_core_GC_leave.
THEOREM OnePlaceAlways ==
  ASSUME {"ascending", "marks"} \subseteq Careful
  PROVE  ObjSpec => []OnePlace
<1>1. FlagsIInv /\ PlaceIInv => OnePlace
  BY OnePlaceHolds
<1> QED
  BY <1>1, ObjectsInvariant, PTL

\* Under the same conditions the blocks of an objpool are always sorted, none has all
\* its objects, and nput counts those that were put back.
THEOREM PoolSoundAlways ==
  ASSUME {"ascending", "marks"} \subseteq Careful
  PROVE  ObjSpec => []PoolSound
<1>1. FlagsIInv /\ PlaceIInv => PoolSound
  BY PoolSoundHolds
<1> QED
  BY <1>1, ObjectsInvariant, PTL

\* Under the same conditions a pool that is destroyed has freed each of its blocks
\* and each thread_t: no object is left in a cache, a task or a thread.
THEOREM AllFreedAlways ==
  ASSUME {"ascending", "marks"} \subseteq Careful
  PROVE  ObjSpec => []AllFreed
<1>1. FlagsIInv /\ PlaceIInv => AllFreed
  BY AllFreedHolds
<1> QED
  BY <1>1, ObjectsInvariant, PTL

==============================================================================
