--------------------------- MODULE CpoolCoreProofs ---------------------------
(***************************************************************************)
(* What the functions of the thread manager keep, whatever threads they    *)
(* pick: the type of the state, the soundness of its sets, and the balance *)
(* of the reference count; from "Lists" on, the lists and counters it      *)
(* decides by.                                                             *)
(*                                                                         *)
(* Then, from "The pool" on: it is referred to by what is there and        *)
(* released once.  TypeOK, AliveRuns, RefsAccounted and FreedOnce are      *)
(* invariants of CpoolCore, for every number of threads, every bound and   *)
(* every set of calls.                                                     *)
(*                                                                         *)
(* Last, from "The invariant" on: the bookkeeping of the threads is right, *)
(* and work that is ready has a thread that will look for it.  Counters,   *)
(* UnbornOwned, NoStrandedWork, WorkConserving and NoTaskFreed are         *)
(* invariants, and with them CpoolCore is shown to implement TaskPool.     *)
(***************************************************************************)
EXTENDS CpoolCore, FiniteSetTheorems, TLAPS

\* The sets fit together: who is marked dead is in the pool and no longer
\* runs, who has no pthread yet is in the pool, on one thq at most.
Sound(p) ==
    /\ p.rm \subseteq p.ths
    /\ p.run = Threads \ p.rm
    /\ p.unborn \subseteq p.ths
    /\ \A t \in Threads : p.thq[t] \subseteq p.unborn
    /\ \A t, o \in Threads : t # o => p.thq[t] \cap p.thq[o] = {}

Good(p) == p \in CoreType /\ Sound(p)

\* From p to q threads may only be added, each with a reference.
Grows(p, q) ==
    /\ p.ths \subseteq q.ths
    /\ q.ref - Cardinality(q.ths) = p.ref - Cardinality(p.ths)
    /\ q.user_ref = p.user_ref
    /\ q.status = p.status
    /\ q.release_cleaning = p.release_cleaning
    /\ q.unborn \cap p.ths = p.unborn
    /\ \A t \in Threads : p.thq[t] \subseteq q.thq[t]

Keeps(p, q) == Good(q) /\ Grows(p, q)

-----------------------------------------------------------------------------

\* Sets of threads have a size.
LEMMA SizeOfThreads ==
  ASSUME NEW S \in SUBSET Threads
  PROVE  IsFiniteSet(S) /\ Cardinality(S) \in Nat
BY ThreadsAssumption, FS_Subset, FS_CardinalityType

\* Growing is transitive, and nothing is the least growth.
LEMMA KeepsTransitive ==
  ASSUME NEW p, NEW q, NEW r, Keeps(p, q), Keeps(q, r)
  PROVE  Keeps(p, r)
BY DEF Keeps, Grows

LEMMA KeepsReflexive ==
  ASSUME NEW p, Good(p)
  PROVE  Keeps(p, p)
BY DEF Keeps, Grows, Good, Sound

\* Two states that differ in the counters and flags only are equally sound.
LEMMA KeepsSame ==
  ASSUME NEW p, Good(p), NEW q \in CoreType,
         q.ths = p.ths, q.ref = p.ref, q.user_ref = p.user_ref,
         q.status = p.status, q.release_cleaning = p.release_cleaning,
         q.unborn = p.unborn, q.thq = p.thq, q.rm = p.rm, q.run = p.run
  PROVE  Keeps(p, q)
BY DEF Keeps, Grows, Good, Sound

-----------------------------------------------------------------------------

\* Signalling sleepers keeps the state good.
LEMMA SignalKeeps ==
  ASSUME NEW p, Good(p), NEW W \in SUBSET Threads
  PROVE  Keeps(p, Signal(p, W))
<1>1. Cardinality(W) \in Int
  BY SizeOfThreads
<1>2. /\ p.waked \cup W \in SUBSET Threads
      /\ p.waitq \ W \in SUBSET Threads
      /\ p.n_qths_wait - Cardinality(W) \in Int
      /\ p.n_qths_waked + Cardinality(W) \in Int
  BY <1>1 DEF Good, CoreType
<1>3. Signal(p, W) \in CoreType
  BY <1>2, Zenon DEF Good, CoreType, Signal
<1>4. /\ Signal(p, W).ths = p.ths /\ Signal(p, W).ref = p.ref
      /\ Signal(p, W).user_ref = p.user_ref
      /\ Signal(p, W).status = p.status
      /\ Signal(p, W).release_cleaning = p.release_cleaning
      /\ Signal(p, W).unborn = p.unborn /\ Signal(p, W).thq = p.thq
      /\ Signal(p, W).rm = p.rm /\ Signal(p, W).run = p.run
  BY DEF Good, CoreType, Signal
<1> QED
  BY <1>3, <1>4, KeepsSame

\* Whichever sleepers cpool_core_wakeup_n_sleeping_threadsl picks.
LEMMA WakeupKeeps ==
  ASSUME NEW p, Good(p), NEW n, NEW q \in Wakeup(p, n)
  PROVE  Keeps(p, q)
<1>1. PICK W \in SUBSET p.waitq : q = Signal(p, W)
  BY Zenon DEF Wakeup, WakeupAll, kSubset
<1>2. W \in SUBSET Threads
  BY <1>1 DEF Good, CoreType
<1> QED
  BY <1>1, <1>2, SignalKeeps

LEMMA WakeupAllKeeps ==
  ASSUME NEW p, Good(p)
  PROVE  Keeps(p, WakeupAll(p))
<1>1. p.waitq \in SUBSET Threads
  BY DEF Good, CoreType
<1> QED
  BY <1>1, SignalKeeps DEF WakeupAll

\* Reusing dying threads keeps the state good: mark and run flag change
\* together.
LEMMA ReviveKeeps ==
  ASSUME NEW p, Good(p), NEW R \in SUBSET (p.ths \cap p.rm)
  PROVE  Keeps(p, Revive(p, R))
<1> DEFINE asleep  == {t \in R : p.stat[t] = "WAIT"}
           busy    == {t \in R : p.stat[t] = "RUN"}
           rescued == {t \in R : p.stat[t] = "FORCE_QUIT"}
           q == [p EXCEPT !.rm = @ \ R,
                          !.run = @ \cup R,
                          !.real_pool = @ + Cardinality(R),
                          !.dying = @ - Cardinality(R),
                          !.sleeping = @ + Cardinality(asleep),
                          !.dying_run = @ - Cardinality(busy),
                          !.real_free = @ + Cardinality(R \ (asleep \cup busy)),
                          !.stat = [t \in Threads |->
                                      IF t \in rescued THEN "FREE" ELSE @[t]]]
<1>1. /\ R \in SUBSET Threads /\ asleep \in SUBSET Threads
      /\ busy \in SUBSET Threads /\ R \ (asleep \cup busy) \in SUBSET Threads
      /\ asleep \ p.waked \in SUBSET Threads
  BY DEF Good, CoreType
<1>2. /\ Cardinality(R) \in Int /\ Cardinality(asleep) \in Int
      /\ Cardinality(busy) \in Int
      /\ Cardinality(R \ (asleep \cup busy)) \in Int
  BY <1>1, SizeOfThreads
<1>3. Revive(p, R) = Signal(q, asleep \ p.waked)
  BY DEF Revive
<1> HIDE DEF asleep, busy
<1>4. /\ p.rm \ R \in SUBSET Threads /\ p.run \cup R \in SUBSET Threads
      /\ p.real_pool + Cardinality(R) \in Int
      /\ p.dying - Cardinality(R) \in Int
      /\ p.sleeping + Cardinality(asleep) \in Int
      /\ p.dying_run - Cardinality(busy) \in Int
      /\ p.real_free + Cardinality(R \ (asleep \cup busy)) \in Int
      /\ [t \in Threads |-> IF t \in rescued THEN "FREE" ELSE p.stat[t]]
           \in [Threads -> ThreadStatus]
  BY <1>1, <1>2 DEF Good, CoreType, ThreadStatus
<1> HIDE DEF rescued
<1>5. q \in CoreType
  BY <1>4, Zenon DEF Good, CoreType
<1>6. /\ q.ths = p.ths /\ q.ref = p.ref /\ q.user_ref = p.user_ref
      /\ q.status = p.status /\ q.release_cleaning = p.release_cleaning
      /\ q.unborn = p.unborn /\ q.thq = p.thq
      /\ q.rm = p.rm \ R /\ q.run = p.run \cup R
  BY DEF Good, CoreType
<1> HIDE DEF q
<1>7. Keeps(p, q)
  BY <1>1, <1>5, <1>6 DEF Keeps, Good, Sound, Grows
<1> QED
  BY <1>1, <1>3, <1>7, SignalKeeps, KeepsTransitive DEF Keeps

\* New thread objects each bring a reference, and those a pool thread has to
\* create are on its thq only.
LEMMA EnlistKeeps ==
  ASSUME NEW p, Good(p), NEW self \in Threads \cup {NoSelf},
         NEW N \in SUBSET (Threads \ p.ths)
  PROVE  Keeps(p, Enlist(p, self, N))
<1> DEFINE q == [p EXCEPT !.ths = @ \cup N,
                          !.ref = @ + Cardinality(N),
                          !.n_qths = @ + Cardinality(N),
                          !.real_free = @ + Cardinality(N),
                          !.real_pool = @ + Cardinality(N)]
<1>1. Cardinality(N) \in Nat /\ IsFiniteSet(N)
  BY SizeOfThreads
<1>2. /\ p.ths \cup N \in SUBSET Threads
      /\ p.ref + Cardinality(N) \in Int
      /\ p.n_qths + Cardinality(N) \in Int
      /\ p.real_free + Cardinality(N) \in Int
      /\ p.real_pool + Cardinality(N) \in Int
  BY <1>1 DEF Good, CoreType
<1>3. q \in CoreType
  BY <1>2, Zenon DEF Good, CoreType
<1>4. /\ q.ths = p.ths \cup N /\ q.ref = p.ref + Cardinality(N)
      /\ q.user_ref = p.user_ref
      /\ q.status = p.status /\ q.release_cleaning = p.release_cleaning
      /\ q.unborn = p.unborn /\ q.thq = p.thq
      /\ q.rm = p.rm /\ q.run = p.run
  BY DEF Good, CoreType
<1>5. Enlist(p, self, N) = IF self = NoSelf THEN q
        ELSE [q EXCEPT !.thq[self] = @ \cup N, !.unborn = @ \cup N]
  BY DEF Enlist
<1> HIDE DEF q
<1>6. Cardinality(p.ths \cup N) = Cardinality(p.ths) + Cardinality(N)
  <2>1. IsFiniteSet(p.ths) /\ Cardinality(p.ths) \in Nat
    BY SizeOfThreads DEF Good, CoreType
  <2>2. p.ths \cap N = {}
    OBVIOUS
  <2>3. Cardinality(p.ths \cap N) = 0
    BY <2>2, FS_EmptySet
  <2>4. Cardinality(p.ths \cup N)
          = Cardinality(p.ths) + Cardinality(N) - Cardinality(p.ths \cap N)
    BY <1>1, <2>1, FS_Union
  <2> QED
    BY <1>1, <2>1, <2>3, <2>4
<1>7. Cardinality(p.ths) \in Nat /\ p.ref \in Int
  BY SizeOfThreads DEF Good, CoreType
<1>8. Keeps(p, q)
  BY <1>1, <1>3, <1>4, <1>6, <1>7 DEF Keeps, Good, Sound, Grows
<1>9. CASE self = NoSelf
  BY <1>5, <1>8, <1>9
<1>10. CASE self # NoSelf
  <2> DEFINE r == [q EXCEPT !.thq[self] = @ \cup N, !.unborn = @ \cup N]
  <2>1. /\ [q.thq EXCEPT ![self] = @ \cup N] \in [Threads -> SUBSET Threads]
        /\ q.unborn \cup N \in SUBSET Threads
    BY <1>3, <1>10 DEF CoreType
  <2>2. r \in CoreType
    BY <2>1, <1>3, Zenon DEF CoreType
  <2>3. /\ r.ths = q.ths /\ r.ref = q.ref /\ r.user_ref = q.user_ref
        /\ r.status = q.status /\ r.release_cleaning = q.release_cleaning
        /\ r.unborn = q.unborn \cup N
        /\ r.thq = [q.thq EXCEPT ![self] = @ \cup N]
        /\ r.rm = q.rm /\ r.run = q.run
    BY <1>3, <1>10 DEF CoreType
  <2> HIDE DEF r
  <2>4. \A t \in Threads : r.thq[t] = IF t = self THEN p.thq[t] \cup N ELSE p.thq[t]
    BY <1>3, <1>4, <2>3 DEF CoreType
  <2>5. Sound(r)
    BY <1>4, <1>8, <1>10, <2>3, <2>4 DEF Keeps, Good, Sound, CoreType
  <2>6. Grows(p, r)
    BY <1>4, <1>8, <2>3, <2>4 DEF Keeps, Good, Sound, Grows
  <2> QED
    BY <1>5, <1>10, <2>2, <2>5, <2>6 DEF Keeps, Good, r
<1> QED
  BY <1>9, <1>10

\* Whichever threads are reused and created.
LEMMA AddThreadsKeeps ==
  ASSUME NEW p, Good(p), NEW self \in Threads \cup {NoSelf}, NEW n,
         NEW q \in AddThreads(p, self, n)
  PROVE  Keeps(p, q)
<1>1. PICK R \in SUBSET (p.ths \cap p.rm), N \in SUBSET (Threads \ p.ths) :
        q = Enlist(Revive(p, R), self, N)
  BY DEF AddThreads, kSubset
<1>2. Keeps(p, Revive(p, R))
  BY ReviveKeeps
<1>3. Revive(p, R).ths = p.ths
  BY DEF Revive, Signal, Good, CoreType
<1>4. Keeps(Revive(p, R), q)
  BY <1>1, <1>2, <1>3, EnlistKeeps DEF Keeps
<1> QED
  BY <1>2, <1>4, KeepsTransitive

LEMMA EnsureServicesKeeps ==
  ASSUME NEW p, Good(p), NEW self \in Threads \cup {NoSelf},
         NEW q \in EnsureServices(p, self)
  PROVE  Keeps(p, q)
<1>1. \/ q = p
      \/ q \in Wakeup(p, Least(2, Limit))
      \/ \E n : q \in AddThreads(p, self, n)
  BY Zenon DEF EnsureServices
<1> QED
  BY <1>1, KeepsReflexive, WakeupKeeps, AddThreadsKeeps

-----------------------------------------------------------------------------

\* Marking threads dead changes mark and run flag together.
LEMMA MarkDeadKeeps ==
  ASSUME NEW p, Good(p), NEW D \in SUBSET (p.ths \ p.rm)
  PROVE  Keeps(p, MarkDead(p, D))
<1> DEFINE asleep == {t \in D : p.stat[t] = "WAIT"}
           busy   == {t \in D : p.stat[t] = "RUN"}
           q == [p EXCEPT !.rm = @ \cup D,
                          !.run = @ \ D,
                          !.real_pool = @ - Cardinality(D),
                          !.dying = @ + Cardinality(D),
                          !.sleeping = @ - Cardinality(asleep),
                          !.dying_run = @ + Cardinality(busy),
                          !.real_free = @ - Cardinality(D \ (asleep \cup busy))]
<1>1. /\ D \in SUBSET Threads /\ asleep \in SUBSET Threads
      /\ busy \in SUBSET Threads /\ D \ (asleep \cup busy) \in SUBSET Threads
      /\ asleep \ p.waked \in SUBSET Threads
  BY DEF Good, CoreType
<1>2. /\ Cardinality(D) \in Int /\ Cardinality(asleep) \in Int
      /\ Cardinality(busy) \in Int
      /\ Cardinality(D \ (asleep \cup busy)) \in Int
  BY <1>1, SizeOfThreads
<1>3. MarkDead(p, D) = Signal(q, asleep \ p.waked)
  BY DEF MarkDead
<1> HIDE DEF asleep, busy
<1>4. /\ p.rm \cup D \in SUBSET Threads /\ p.run \ D \in SUBSET Threads
      /\ p.real_pool - Cardinality(D) \in Int
      /\ p.dying + Cardinality(D) \in Int
      /\ p.sleeping - Cardinality(asleep) \in Int
      /\ p.dying_run + Cardinality(busy) \in Int
      /\ p.real_free - Cardinality(D \ (asleep \cup busy)) \in Int
  BY <1>1, <1>2 DEF Good, CoreType
<1>5. q \in CoreType
  BY <1>4, Zenon DEF Good, CoreType
<1>6. /\ q.ths = p.ths /\ q.ref = p.ref /\ q.user_ref = p.user_ref
      /\ q.status = p.status /\ q.release_cleaning = p.release_cleaning
      /\ q.unborn = p.unborn /\ q.thq = p.thq
      /\ q.rm = p.rm \cup D /\ q.run = p.run \ D
  BY DEF Good, CoreType
<1> HIDE DEF q
<1>7. Keeps(p, q)
  BY <1>1, <1>5, <1>6 DEF Keeps, Good, Sound, Grows
<1> QED
  BY <1>1, <1>3, <1>7, SignalKeeps, KeepsTransitive DEF Keeps

LEMMA DecThreadsKeeps ==
  ASSUME NEW p, Good(p), NEW n, NEW q \in DecThreads(p, n)
  PROVE  Keeps(p, q)
<1>1. q = p \/ \E D \in SUBSET (p.ths \ p.rm) : q = MarkDead(p, D)
  <2> DEFINE alive == p.ths \ p.rm
             busy  == {t \in alive : p.stat[t] = "RUN"}
             idle  == alive \ busy
  <2>1. \/ q = p
        \/ \E k, D : D \in kSubset(k, idle) /\ q = MarkDead(p, D)
        \/ \E k, D : D \in kSubset(k, busy) /\ q = MarkDead(p, idle \cup D)
    BY Zenon DEF DecThreads
  <2> QED
    BY <2>1 DEF kSubset
<1> QED
  BY <1>1, KeepsReflexive, MarkDeadKeeps

LEMMA FlushThreadsKeeps ==
  ASSUME NEW p, Good(p), NEW q \in FlushThreads(p)
  PROVE  Keeps(p, q)
BY DecThreadsKeeps DEF FlushThreads

LEMMA AdjustAbsKeeps ==
  ASSUME NEW p, Good(p), NEW max \in Int, NEW min \in Int,
         NEW q \in AdjustAbs(p, max, min)
  PROVE  Keeps(p, q)
<1> DEFINE s == [p EXCEPT !.maxthreads = max,
                          !.minthreads = IF Dynamic THEN min ELSE max]
<1>1. (IF Dynamic THEN min ELSE max) \in Int
  OBVIOUS
<1>2. s \in CoreType
  BY <1>1, Zenon DEF Good, CoreType
<1>3. /\ s.ths = p.ths /\ s.ref = p.ref /\ s.user_ref = p.user_ref
      /\ s.status = p.status /\ s.release_cleaning = p.release_cleaning
      /\ s.unborn = p.unborn /\ s.thq = p.thq
      /\ s.rm = p.rm /\ s.run = p.run
  BY DEF Good, CoreType
<1>4. \/ \E n : q \in AddThreads(s, NoSelf, n)
      \/ \E n : q \in DecThreads(s, n)
      \/ q = WakeupAll(s)
  BY Zenon DEF AdjustAbs
<1> HIDE DEF s
<1>5. Keeps(p, s)
  BY <1>2, <1>3, KeepsSame
<1>6. Keeps(s, q)
  BY <1>4, <1>5, AddThreadsKeeps, DecThreadsKeeps, WakeupAllKeeps DEF Keeps
<1> QED
  BY <1>5, <1>6, KeepsTransitive

-----------------------------------------------------------------------------

LEMMA SetStatusKeeps ==
  ASSUME NEW p, Good(p), NEW t \in Threads, NEW s \in ThreadStatus
  PROVE  Keeps(p, [p EXCEPT !.stat[t] = s])
<1>1. [p.stat EXCEPT ![t] = s] \in [Threads -> ThreadStatus]
  BY DEF Good, CoreType
<1>2. [p EXCEPT !.stat[t] = s] \in CoreType
  BY <1>1, Zenon DEF Good, CoreType
<1>3. /\ [p EXCEPT !.stat[t] = s].ths = p.ths
      /\ [p EXCEPT !.stat[t] = s].ref = p.ref
      /\ [p EXCEPT !.stat[t] = s].user_ref = p.user_ref
      /\ [p EXCEPT !.stat[t] = s].status = p.status
      /\ [p EXCEPT !.stat[t] = s].release_cleaning = p.release_cleaning
      /\ [p EXCEPT !.stat[t] = s].unborn = p.unborn
      /\ [p EXCEPT !.stat[t] = s].thq = p.thq
      /\ [p EXCEPT !.stat[t] = s].rm = p.rm
      /\ [p EXCEPT !.stat[t] = s].run = p.run
  BY DEF Good, CoreType
<1> QED
  BY <1>2, <1>3, KeepsSame

LEMMA WithStatusKeeps ==
  ASSUME NEW p, NEW S, \A q \in S : Keeps(p, q),
         NEW t \in Threads, NEW s \in ThreadStatus, NEW r \in WithStatus(S, t, s)
  PROVE  Keeps(p, r)
<1>1. PICK q \in S : r = [q EXCEPT !.stat[t] = s]
  BY DEF WithStatus
<1>2. Keeps(p, q) /\ Good(q)
  BY DEF Keeps
<1> QED
  BY <1>1, <1>2, SetStatusKeeps, KeepsTransitive

LEMMA StatusRunKeeps ==
  ASSUME NEW p, Good(p), NEW t \in Threads, NEW r \in StatusRun(p, t)
  PROVE  Keeps(p, r)
<1> DEFINE dead == t \in p.rm
           a == IF dead THEN p.dying_run + 1 ELSE p.dying_run
           b == IF dead THEN p.real_free ELSE p.real_free - 1
           q == [p EXCEPT !.running = @ + 1,
                          !.dying_run = IF dead THEN @ + 1 ELSE @,
                          !.real_free = IF dead THEN @ ELSE @ - 1]
           S == IF NoServer(q) /\ q.npendings # 0
                THEN EnsureServices(q, t) ELSE {q}
<1>1. r \in WithStatus(S, t, "RUN")
  BY DEF StatusRun
<1>2. p.running + 1 \in Int /\ a \in Int /\ b \in Int
  BY DEF Good, CoreType
<1>3. q \in CoreType
  BY <1>2, Zenon DEF Good, CoreType
<1>4. Keeps(p, q)
  BY <1>3, KeepsSame DEF Good, CoreType
<1> HIDE DEF q
<1>5. \A s \in S : Keeps(p, s)
  BY <1>4, EnsureServicesKeeps, KeepsTransitive DEF Keeps
<1> HIDE DEF S
<1> QED
  BY <1>1, <1>5, WithStatusKeeps DEF ThreadStatus

LEMMA StatusCompleteKeeps ==
  ASSUME NEW p, Good(p), NEW t \in Threads
  PROVE  Keeps(p, StatusComplete(p, t))
<1> DEFINE dead == t \in p.rm
           q == StatusComplete(p, t)
<1>1. /\ p.running - 1 \in Int
      /\ (IF dead THEN p.dying_run - 1 ELSE p.dying_run) \in Int
      /\ (IF dead THEN p.real_free ELSE p.real_free + 1) \in Int
      /\ [p.stat EXCEPT ![t] = "COMPLETE"] \in [Threads -> ThreadStatus]
  BY DEF Good, CoreType, ThreadStatus
<1>2. q \in CoreType
  BY <1>1, Zenon DEF Good, CoreType, StatusComplete
<1>3. /\ q.ths = p.ths /\ q.ref = p.ref /\ q.user_ref = p.user_ref
      /\ q.status = p.status /\ q.release_cleaning = p.release_cleaning
      /\ q.unborn = p.unborn /\ q.thq = p.thq
      /\ q.rm = p.rm /\ q.run = p.run
  BY DEF Good, CoreType, StatusComplete
<1> HIDE DEF q
<1>4. Keeps(p, q)
  BY <1>2, <1>3, KeepsSame
<1> QED
  BY <1>4 DEF q

LEMMA StatusWaitKeeps ==
  ASSUME NEW p, Good(p), NEW t \in Threads
  PROVE  Keeps(p, StatusWait(p, t))
<1> DEFINE dead == t \in p.rm
           q == StatusWait(p, t)
<1>1. /\ (IF dead THEN p.real_free ELSE p.real_free - 1) \in Int
      /\ (IF dead THEN p.sleeping ELSE p.sleeping + 1) \in Int
      /\ p.waked \ {t} \in SUBSET Threads
      /\ p.waitq \cup {t} \in SUBSET Threads
      /\ p.n_qths_wait + 1 \in Int
      /\ [p.stat EXCEPT ![t] = "WAIT"] \in [Threads -> ThreadStatus]
  BY DEF Good, CoreType, ThreadStatus
<1>2. q \in CoreType
  BY <1>1, Zenon DEF Good, CoreType, StatusWait
<1>3. /\ q.ths = p.ths /\ q.ref = p.ref /\ q.user_ref = p.user_ref
      /\ q.status = p.status /\ q.release_cleaning = p.release_cleaning
      /\ q.unborn = p.unborn /\ q.thq = p.thq
      /\ q.rm = p.rm /\ q.run = p.run
  BY DEF Good, CoreType, StatusWait
<1> HIDE DEF q
<1>4. Keeps(p, q)
  BY <1>2, <1>3, KeepsSame
<1> QED
  BY <1>4 DEF q

\* A thread that quits is marked dead and stops running in one step.
LEMMA StatusForceQuitKeeps ==
  ASSUME NEW p, Good(p), NEW t \in p.ths
  PROVE  Keeps(p, StatusForceQuit(p, t))
<1> DEFINE dead == t \in p.rm
           q == StatusForceQuit(p, t)
<1>1. /\ t \in Threads
      /\ p.rm \cup {t} \in SUBSET Threads /\ p.run \ {t} \in SUBSET Threads
      /\ (IF dead THEN p.dying ELSE p.dying + 1) \in Int
      /\ (IF dead THEN p.real_pool ELSE p.real_pool - 1) \in Int
      /\ (IF dead THEN p.real_free ELSE p.real_free - 1) \in Int
      /\ [p.stat EXCEPT ![t] = "FORCE_QUIT"] \in [Threads -> ThreadStatus]
  BY DEF Good, CoreType, ThreadStatus
<1>2. q \in CoreType
  BY <1>1, Zenon DEF Good, CoreType, StatusForceQuit
<1>3. /\ q.ths = p.ths /\ q.ref = p.ref /\ q.user_ref = p.user_ref
      /\ q.status = p.status /\ q.release_cleaning = p.release_cleaning
      /\ q.unborn = p.unborn /\ q.thq = p.thq
      /\ q.rm = p.rm \cup {t} /\ q.run = p.run \ {t}
  BY <1>1 DEF Good, CoreType, StatusForceQuit
<1> HIDE DEF q
<1>4. Keeps(p, q)
  BY <1>1, <1>2, <1>3 DEF Keeps, Good, Sound, Grows
<1> QED
  BY <1>4 DEF q

LEMMA LeaveWaitKeeps ==
  ASSUME NEW p, Good(p), NEW t \in Threads, NEW r \in LeaveWait(p, t)
  PROVE  Keeps(p, r)
<1> DEFINE q == [p EXCEPT !.n_qths_waked = IF t \in p.waked THEN @ - 1 ELSE @]
           s == [q EXCEPT !.sleeping = @ - 1,
                          !.run = IF t \in q.rm THEN @ \ {t} ELSE @,
                          !.real_free = IF t \in q.rm THEN @ ELSE @ + 1]
<1>1. (IF t \in p.waked THEN p.n_qths_waked - 1 ELSE p.n_qths_waked) \in Int
  BY DEF Good, CoreType
<1>2. q \in CoreType
  BY <1>1, Zenon DEF Good, CoreType
<1>3. Keeps(p, q)
  BY <1>2, KeepsSame DEF Good, CoreType
<1>4. \/ t \in q.rm /\ t \notin q.run /\ (r = q \/ r \in EnsureServices(q, t))
      \/ ~(t \in q.rm /\ t \notin q.run) /\ r = s
  BY Zenon DEF LeaveWait
<1> HIDE DEF q
<1>5. CASE r = q \/ r \in EnsureServices(q, t)
  BY <1>3, <1>5, EnsureServicesKeeps, KeepsTransitive DEF Keeps
<1>6. CASE ~(t \in q.rm /\ t \notin q.run) /\ r = s
  <2>1. t \notin q.rm
    BY <1>3, <1>6 DEF Keeps, Good, Sound
  <2>2. /\ q.sleeping - 1 \in Int
        /\ (IF t \in q.rm THEN q.run \ {t} ELSE q.run) \in SUBSET Threads
        /\ (IF t \in q.rm THEN q.real_free ELSE q.real_free + 1) \in Int
    BY <1>2 DEF CoreType
  <2>3. s \in CoreType
    BY <1>2, <2>2, Zenon DEF CoreType
  <2>4. Keeps(q, s)
    BY <1>2, <1>3, <2>1, <2>3, KeepsSame DEF CoreType, Keeps
  <2> QED
    BY <1>3, <1>6, <2>4, KeepsTransitive
<1> QED
  BY <1>4, <1>5, <1>6

LEMMA StatusFreeKeeps ==
  ASSUME NEW p, Good(p), NEW t \in Threads, NEW r \in StatusFree(p, t)
  PROVE  Keeps(p, r)
<1>1. \A q \in LeaveWait(p, t) : Keeps(p, q)
  BY LeaveWaitKeeps
<1> QED
  BY <1>1, WithStatusKeeps DEF StatusFree, ThreadStatus

\* A sleeper that retires is marked dead before LeaveWait and stops running in
\* it: in between the state is not sound.
LEMMA StatusTimedOutKeeps ==
  ASSUME NEW p, Good(p), NEW t \in p.ths,
         NEW retire \in BOOLEAN, retire => MayRetire(p, t),
         NEW r \in StatusTimedOut(p, t, retire)
  PROVE  Keeps(p, r)
<1> DEFINE q == [p EXCEPT !.rm = @ \cup {t}, !.dying = @ + 1, !.real_pool = @ - 1]
<1>1. t \in Threads
  BY DEF Good, CoreType
<1>2. \A s \in CoreType :
        /\ Dequeued(s, t) \in CoreType
        /\ Dequeued(s, t).ths = s.ths /\ Dequeued(s, t).ref = s.ref
        /\ Dequeued(s, t).user_ref = s.user_ref
        /\ Dequeued(s, t).status = s.status
        /\ Dequeued(s, t).release_cleaning = s.release_cleaning
        /\ Dequeued(s, t).unborn = s.unborn /\ Dequeued(s, t).thq = s.thq
        /\ Dequeued(s, t).rm = s.rm /\ Dequeued(s, t).run = s.run
  <2> TAKE s \in CoreType
  <2>1. s.waitq \ {t} \in SUBSET Threads /\ s.n_qths_wait - 1 \in Int
    BY DEF CoreType
  <2>2. Dequeued(s, t) \in CoreType
    BY <2>1, Zenon DEF CoreType, Dequeued
  <2> QED
    BY <2>2 DEF CoreType, Dequeued
<1>3. CASE ~retire
  <2>1. r \in WithStatus(LeaveWait(Dequeued(p, t), t), t, "TIMEDOUT")
    BY <1>3 DEF StatusTimedOut
  <2>2. Keeps(p, Dequeued(p, t))
    BY <1>2, KeepsSame DEF Good
  <2>3. \A s \in LeaveWait(Dequeued(p, t), t) : Keeps(p, s)
    BY <1>1, <2>2, LeaveWaitKeeps, KeepsTransitive DEF Keeps
  <2> QED
    BY <1>1, <2>1, <2>3, WithStatusKeeps DEF ThreadStatus
<1>4. CASE retire
  <2>1. r \in WithStatus(LeaveWait(Dequeued(q, t), t), t, "TIMEDOUT")
    BY <1>4 DEF StatusTimedOut
  <2>2. t \notin p.rm /\ t \in p.run
    BY <1>1, <1>4 DEF MayRetire, Good, Sound
  <2>3. /\ p.rm \cup {t} \in SUBSET Threads
        /\ p.dying + 1 \in Int /\ p.real_pool - 1 \in Int
    BY <1>1 DEF Good, CoreType
  <2>4. q \in CoreType
    BY <2>3, Zenon DEF Good, CoreType
  <2>5. /\ q.ths = p.ths /\ q.ref = p.ref /\ q.user_ref = p.user_ref
        /\ q.status = p.status /\ q.release_cleaning = p.release_cleaning
        /\ q.unborn = p.unborn /\ q.thq = p.thq
        /\ q.rm = p.rm \cup {t} /\ q.run = p.run
    BY DEF Good, CoreType
  <2> DEFINE d == Dequeued(q, t)
             w == [d EXCEPT !.n_qths_waked = IF t \in d.waked THEN @ - 1 ELSE @]
             s == [w EXCEPT !.sleeping = @ - 1,
                            !.run = IF t \in w.rm THEN @ \ {t} ELSE @,
                            !.real_free = IF t \in w.rm THEN @ ELSE @ + 1]
  <2> HIDE DEF q
  <2>6. /\ d \in CoreType
        /\ d.ths = p.ths /\ d.ref = p.ref /\ d.user_ref = p.user_ref
        /\ d.status = p.status /\ d.release_cleaning = p.release_cleaning
        /\ d.unborn = p.unborn /\ d.thq = p.thq
        /\ d.rm = p.rm \cup {t} /\ d.run = p.run
    BY <1>2, <2>4, <2>5
  <2>7. ~(t \in w.rm /\ t \notin w.run) => LeaveWait(d, t) = {s}
    BY Zenon DEF LeaveWait
  <2> HIDE DEF d
  <2>8. (IF t \in d.waked THEN d.n_qths_waked - 1 ELSE d.n_qths_waked) \in Int
    BY <2>6 DEF CoreType
  <2>9. w \in CoreType
    BY <2>6, <2>8, Zenon DEF CoreType
  <2>10. /\ w.ths = p.ths /\ w.ref = p.ref /\ w.user_ref = p.user_ref
         /\ w.status = p.status /\ w.release_cleaning = p.release_cleaning
         /\ w.unborn = p.unborn /\ w.thq = p.thq
         /\ w.rm = p.rm \cup {t} /\ w.run = p.run
    BY <2>6 DEF CoreType
  <2> HIDE DEF w
  <2>11. LeaveWait(d, t) = {s}
    BY <2>2, <2>7, <2>10
  <2>12. /\ w.sleeping - 1 \in Int
         /\ (IF t \in w.rm THEN w.run \ {t} ELSE w.run) \in SUBSET Threads
         /\ (IF t \in w.rm THEN w.real_free ELSE w.real_free + 1) \in Int
    BY <2>9 DEF CoreType
  <2>13. s \in CoreType
    BY <2>9, <2>12, Zenon DEF CoreType
  <2>14. /\ s.ths = p.ths /\ s.ref = p.ref /\ s.user_ref = p.user_ref
         /\ s.status = p.status /\ s.release_cleaning = p.release_cleaning
         /\ s.unborn = p.unborn /\ s.thq = p.thq
         /\ s.rm = p.rm \cup {t} /\ s.run = p.run \ {t}
    BY <2>9, <2>10 DEF CoreType
  <2> HIDE DEF s
  <2>15. Keeps(p, s)
    BY <1>1, <2>13, <2>14 DEF Keeps, Good, Sound, Grows
  <2>16. r \in WithStatus({s}, t, "TIMEDOUT")
    BY <2>1, <2>11 DEF d
  <2>17. \A x \in {s} : Keeps(p, x)
    BY <2>15
  <2>18. "TIMEDOUT" \in ThreadStatus
    BY DEF ThreadStatus
  <2> QED
    BY <1>1, <2>16, <2>17, <2>18, WithStatusKeeps
<1> QED
  BY <1>3, <1>4

-----------------------------------------------------------------------------

\* A thread that leaves takes no other with it and keeps its reference.
LEMMA StatusLeaveSound ==
  ASSUME NEW p, Good(p), NEW t \in p.ths \ p.unborn
  PROVE  LET q == StatusLeave(p, t) IN
         /\ Good(q)
         /\ q.ths = p.ths \ {t} /\ q.unborn = p.unborn
         /\ q.thq = [p.thq EXCEPT ![t] = {}]
         /\ q.ref = p.ref /\ q.user_ref = p.user_ref
         /\ q.status = p.status /\ q.release_cleaning = p.release_cleaning
<1> DEFINE q == StatusLeave(p, t)
<1>1. /\ t \in Threads
      /\ p.ths \ {t} \in SUBSET Threads /\ p.n_qths - 1 \in Int
      /\ (IF t \in p.rm THEN p.dying - 1 ELSE p.dying) \in Int
      /\ p.rm \ {t} \in SUBSET Threads /\ p.run \cup {t} \in SUBSET Threads
      /\ p.waked \cup {t} \in SUBSET Threads
      /\ [p.thq EXCEPT ![t] = {}] \in [Threads -> SUBSET Threads]
      /\ [p.stat EXCEPT ![t] = "INIT"] \in [Threads -> ThreadStatus]
  BY DEF Good, CoreType, ThreadStatus
<1>2. q \in CoreType
  BY <1>1, Zenon DEF Good, CoreType, StatusLeave
<1>3. /\ q.ths = p.ths \ {t} /\ q.ref = p.ref /\ q.user_ref = p.user_ref
      /\ q.status = p.status /\ q.release_cleaning = p.release_cleaning
      /\ q.unborn = p.unborn /\ q.thq = [p.thq EXCEPT ![t] = {}]
      /\ q.rm = p.rm \ {t} /\ q.run = p.run \cup {t}
  BY <1>1 DEF Good, CoreType, StatusLeave
<1> HIDE DEF q
<1>4. \A u \in Threads : q.thq[u] = IF u = t THEN {} ELSE p.thq[u]
  BY <1>1, <1>3 DEF Good, CoreType
<1>5. Sound(q)
  BY <1>1, <1>3, <1>4 DEF Good, Sound
<1>6. /\ Good(q)
      /\ q.ths = p.ths \ {t} /\ q.unborn = p.unborn
      /\ q.thq = [p.thq EXCEPT ![t] = {}]
      /\ q.ref = p.ref /\ q.user_ref = p.user_ref
      /\ q.status = p.status /\ q.release_cleaning = p.release_cleaning
  BY <1>2, <1>3, <1>5 DEF Good
<1> QED
  BY <1>6 DEF q

\* Giving a thread object up drops it together with its reference.
LEMMA DiscardSound ==
  ASSUME NEW p, Good(p), NEW self \in Threads, NEW u \in p.thq[self],
         NEW died
  PROVE  LET q == Discard(p, self, u, died) IN
         /\ Good(q)
         /\ q.ths = p.ths \ {u} /\ q.unborn = p.unborn \ {u}
         /\ q.thq = [p.thq EXCEPT ![self] = @ \ {u}]
         /\ q.ref = p.ref - 1 /\ q.user_ref = p.user_ref
         /\ q.status = p.status /\ q.release_cleaning = p.release_cleaning
<1> DEFINE q == Discard(p, self, u, died)
<1>1. /\ u \in Threads
      /\ p.ths \ {u} \in SUBSET Threads /\ p.n_qths - 1 \in Int
      /\ (IF died THEN p.dying - 1 ELSE p.dying) \in Int
      /\ (IF died THEN p.real_pool ELSE p.real_pool - 1) \in Int
      /\ (IF died THEN p.real_free ELSE p.real_free - 1) \in Int
      /\ p.ref - 1 \in Int
      /\ p.rm \ {u} \in SUBSET Threads /\ p.run \cup {u} \in SUBSET Threads
      /\ p.unborn \ {u} \in SUBSET Threads
      /\ [p.thq EXCEPT ![self] = p.thq[self] \ {u}] \in [Threads -> SUBSET Threads]
  BY DEF Good, CoreType
<1>2. q \in CoreType
  BY <1>1, Zenon DEF Good, CoreType, Discard
<1>3. /\ q.ths = p.ths \ {u} /\ q.ref = p.ref - 1 /\ q.user_ref = p.user_ref
      /\ q.status = p.status /\ q.release_cleaning = p.release_cleaning
      /\ q.unborn = p.unborn \ {u}
      /\ q.thq = [p.thq EXCEPT ![self] = @ \ {u}]
      /\ q.rm = p.rm \ {u} /\ q.run = p.run \cup {u}
  BY <1>1 DEF Good, CoreType, Discard
<1> HIDE DEF q
<1>4. \A t \in Threads : q.thq[t] = IF t = self THEN p.thq[t] \ {u} ELSE p.thq[t]
  BY <1>1, <1>3 DEF Good, CoreType
<1>5. Sound(q)
  BY <1>1, <1>3, <1>4 DEF Good, Sound
<1>6. /\ Good(q)
      /\ q.ths = p.ths \ {u} /\ q.unborn = p.unborn \ {u}
      /\ q.thq = [p.thq EXCEPT ![self] = @ \ {u}]
      /\ q.ref = p.ref - 1 /\ q.user_ref = p.user_ref
      /\ q.status = p.status /\ q.release_cleaning = p.release_cleaning
  BY <1>2, <1>3, <1>5 DEF Good
<1> QED
  BY <1>6 DEF q

LEMMA LaunchedSound ==
  ASSUME NEW p, Good(p), NEW self \in Threads, NEW u \in p.thq[self]
  PROVE  LET q == Launched(p, self, u) IN
         /\ Good(q)
         /\ q.ths = p.ths /\ q.unborn = p.unborn \ {u}
         /\ q.thq = [p.thq EXCEPT ![self] = @ \ {u}]
         /\ q.ref = p.ref /\ q.user_ref = p.user_ref
         /\ q.status = p.status /\ q.release_cleaning = p.release_cleaning
<1> DEFINE q == Launched(p, self, u)
<1>1. /\ u \in Threads
      /\ p.unborn \ {u} \in SUBSET Threads
      /\ [p.thq EXCEPT ![self] = p.thq[self] \ {u}] \in [Threads -> SUBSET Threads]
  BY DEF Good, CoreType
<1>2. q \in CoreType
  BY <1>1, Zenon DEF Good, CoreType, Launched
<1>3. /\ q.ths = p.ths /\ q.ref = p.ref /\ q.user_ref = p.user_ref
      /\ q.status = p.status /\ q.release_cleaning = p.release_cleaning
      /\ q.unborn = p.unborn \ {u}
      /\ q.thq = [p.thq EXCEPT ![self] = @ \ {u}]
      /\ q.rm = p.rm /\ q.run = p.run
  BY <1>1 DEF Good, CoreType, Launched
<1> HIDE DEF q
<1>4. \A t \in Threads : q.thq[t] = IF t = self THEN p.thq[t] \ {u} ELSE p.thq[t]
  BY <1>1, <1>3 DEF Good, CoreType
<1>5. Sound(q)
  BY <1>1, <1>3, <1>4 DEF Good, Sound
<1>6. /\ Good(q)
      /\ q.ths = p.ths /\ q.unborn = p.unborn \ {u}
      /\ q.thq = [p.thq EXCEPT ![self] = @ \ {u}]
      /\ q.ref = p.ref /\ q.user_ref = p.user_ref
      /\ q.status = p.status /\ q.release_cleaning = p.release_cleaning
  BY <1>2, <1>3, <1>5 DEF Good
<1> QED
  BY <1>6 DEF q

-----------------------------------------------------------------------------
(***************************************************************************)
(* What they do to the lists and counters the thread manager decides by:   *)
(* these go on describing the threads, and whoever is called to the tasks  *)
(* comes.  The service of the waiting tasks rests on this.                 *)
(*                                                                         *)
(* What the functions of CpoolThreads keep, of any core p.  A holds the    *)
(* threads that sleep, B those that run something: inside a function they  *)
(* may already differ from what stat says, since a thread that changes its *)
(* status counts itself first, calls others, and writes stat last.         *)
(***************************************************************************)

\* The lists and their lengths.
Lists(p, A) ==
    /\ A \subseteq p.ths
    /\ p.n_qths = Cardinality(p.ths)
    /\ p.waitq = A \ p.waked
    /\ p.n_qths_wait = Cardinality(p.waitq)
    /\ p.n_qths_waked = Cardinality(A \cap p.waked)

\* A sleeper that is marked dead was signalled.
Told(p) == \A t \in p.rm : p.stat[t] = "WAIT" => t \in p.waked

\* Thread objects that are in no pool neither sleep nor run.
Outside(p) == \A t \in Threads \ p.ths : p.stat[t] \notin {"WAIT", "RUN"}

Counted(p, A) == Lists(p, A) /\ Told(p) /\ Outside(p)

\* The numbers of threads by what they do.  Who is marked dead does nothing.
Classes(p, A, B) ==
    /\ A \subseteq p.ths /\ B \subseteq p.ths
    /\ A \cap B = {} /\ (A \cup B) \cap p.rm = {}
    /\ \A t \in p.rm : p.stat[t] \notin {"WAIT", "RUN"}
    /\ p.dying = Cardinality(p.rm)
    /\ p.real_pool = Cardinality(p.ths \ p.rm)
    /\ p.running = Cardinality(B) /\ p.dying_run = 0
    /\ p.sleeping = Cardinality(A)
    /\ p.real_free = Cardinality(p.ths \ (p.rm \cup A \cup B))

\* A thread that is, or will be, looking for work.
Server(p) == \E t \in p.ths : t \notin p.waitq \cup p.rm

\* Who has no pthread yet is left to somebody.
Owned(p) == \A u \in p.unborn : \E t \in Threads : u \in p.thq[t]

\* Either a thread is on its way to the tasks, or there is none to be had.
Conserved(p) == ~NoServer(p) \/ (p.waitq = {} /\ p.real_pool >= p.maxthreads)

-----------------------------------------------------------------------------

\* Sizes of sets of threads.
LEMMA SizeOfUnion ==
  ASSUME NEW S \in SUBSET Threads, NEW T \in SUBSET Threads, S \cap T = {}
  PROVE  Cardinality(S \cup T) = Cardinality(S) + Cardinality(T)
<1>1. /\ IsFiniteSet(S) /\ IsFiniteSet(T)
      /\ Cardinality(S) \in Nat /\ Cardinality(T) \in Nat
  BY SizeOfThreads
<1>2. Cardinality(S \cap T) = 0
  BY FS_EmptySet
<1>3. Cardinality(S \cup T)
        = Cardinality(S) + Cardinality(T) - Cardinality(S \cap T)
  BY <1>1, FS_Union
<1> QED
  BY <1>1, <1>2, <1>3

LEMMA SizeOfDifference ==
  ASSUME NEW S \in SUBSET Threads, NEW T \in SUBSET S
  PROVE  /\ Cardinality(S \ T) = Cardinality(S) - Cardinality(T)
         /\ Cardinality(T) <= Cardinality(S)
<1>1. /\ S \ T \in SUBSET Threads /\ T \in SUBSET Threads
      /\ (S \ T) \cap T = {} /\ (S \ T) \cup T = S
  OBVIOUS
<1>2. Cardinality((S \ T) \cup T) = Cardinality(S \ T) + Cardinality(T)
  BY <1>1, SizeOfUnion
<1>3. /\ Cardinality(S \ T) \in Nat /\ Cardinality(T) \in Nat
      /\ Cardinality(S) \in Nat
  BY <1>1, SizeOfThreads
<1>4. Cardinality(S) = Cardinality(S \ T) + Cardinality(T)
  BY <1>1, <1>2
<1> QED
  BY <1>3, <1>4

LEMMA SizeOfOne ==
  ASSUME NEW S \in SUBSET Threads, NEW t \in Threads
  PROVE  /\ t \notin S => Cardinality(S \cup {t}) = Cardinality(S) + 1
         /\ t \in S => Cardinality(S \ {t}) = Cardinality(S) - 1
         /\ Cardinality(S) = 0 <=> S = {}
         /\ Cardinality(S) \in Nat
<1>1. IsFiniteSet(S) /\ Cardinality(S) \in Nat
  BY SizeOfThreads
<1> QED
  BY <1>1, FS_AddElement, FS_RemoveElement, FS_EmptySet

-----------------------------------------------------------------------------

\* What no function that calls threads changes.
Orders(p, q) ==
    /\ q.maxthreads = p.maxthreads /\ q.minthreads = p.minthreads
    /\ q.paused = p.paused /\ q.npendings = p.npendings
    /\ q.n_qdispatchs = p.n_qdispatchs

\* ... and who may be called by it, on behalf of self: sleepers, marked threads,
\* new objects that are left to self.
Summoned(p, q, self) ==
    /\ Orders(p, q)
    /\ q.rm \subseteq p.rm /\ q.waitq \subseteq p.waitq /\ p.ths \subseteq q.ths
    /\ \A t \in Threads :
         /\ q.stat[t] = "WAIT" <=> p.stat[t] = "WAIT"
         /\ q.stat[t] = "RUN" <=> p.stat[t] = "RUN"
    /\ \E N \in SUBSET Threads :
         /\ q.unborn = p.unborn \cup N
         /\ N # {} => self \in Threads
         /\ \A t \in Threads : q.thq[t] = IF t = self THEN p.thq[t] \cup N ELSE p.thq[t]

LEMMA SummonedTransitive ==
  ASSUME NEW p, NEW q, NEW r, NEW self, Summoned(p, q, self), Summoned(q, r, self)
  PROVE  Summoned(p, r, self)
<1>1. PICK N \in SUBSET Threads :
        /\ q.unborn = p.unborn \cup N /\ (N # {} => self \in Threads)
        /\ \A t \in Threads : q.thq[t] = IF t = self THEN p.thq[t] \cup N ELSE p.thq[t]
  BY DEF Summoned
<1>2. PICK M \in SUBSET Threads :
        /\ r.unborn = q.unborn \cup M /\ (M # {} => self \in Threads)
        /\ \A t \in Threads : r.thq[t] = IF t = self THEN q.thq[t] \cup M ELSE q.thq[t]
  BY DEF Summoned
<1>3. /\ N \cup M \in SUBSET Threads
      /\ r.unborn = p.unborn \cup (N \cup M)
      /\ N \cup M # {} => self \in Threads
      /\ \A t \in Threads : r.thq[t] = IF t = self THEN p.thq[t] \cup (N \cup M)
                                       ELSE p.thq[t]
  BY <1>1, <1>2
<1>4. /\ Orders(p, r) /\ r.rm \subseteq p.rm
      /\ r.waitq \subseteq p.waitq /\ p.ths \subseteq r.ths
  BY DEF Summoned, Orders
<1>5. \A t \in Threads : /\ r.stat[t] = "WAIT" <=> p.stat[t] = "WAIT"
                         /\ r.stat[t] = "RUN" <=> p.stat[t] = "RUN"
  BY DEF Summoned
<1> HIDE DEF Orders
<1> QED
  BY <1>3, <1>4, <1>5 DEF Summoned

\* All that a function that calls threads does to the bookkeeping.
Helps(p, q, self, A) ==
    /\ Good(q) /\ Counted(q, A) /\ Summoned(p, q, self)
    /\ \A B : Classes(p, A, B) => Classes(q, A, B) /\ p.real_pool <= q.real_pool

LEMMA HelpsTransitive ==
  ASSUME NEW p, Good(p), NEW q, NEW r, NEW self, NEW A,
         Helps(p, q, self, A), Helps(q, r, self, A)
  PROVE  Helps(p, r, self, A)
<1>1. Summoned(p, r, self)
  BY SummonedTransitive DEF Helps
<1>2. p.real_pool \in Int /\ q.real_pool \in Int /\ r.real_pool \in Int
  BY DEF Helps, Good, CoreType
<1>3. ASSUME NEW B, Classes(p, A, B)
      PROVE  Classes(r, A, B) /\ p.real_pool <= r.real_pool
  <2>1. Classes(q, A, B) /\ p.real_pool <= q.real_pool
    BY <1>3 DEF Helps
  <2>2. Classes(r, A, B) /\ q.real_pool <= r.real_pool
    BY <2>1 DEF Helps
  <2> QED
    BY <1>2, <2>1, <2>2
<1> QED
  BY <1>1, <1>3 DEF Helps

\* To do nothing is of no harm.
LEMMA HelpsNothing ==
  ASSUME NEW p, Good(p), NEW self, NEW A, Counted(p, A)
  PROVE  Helps(p, p, self, A)
<1>1. Summoned(p, p, self)
  <2>1. Orders(p, p)
    BY DEF Orders
  <2>2. /\ {} \in SUBSET Threads /\ p.unborn = p.unborn \cup {}
        /\ \A t \in Threads : p.thq[t] = IF t = self THEN p.thq[t] \cup {} ELSE p.thq[t]
    OBVIOUS
  <2> QED
    BY <2>1, <2>2 DEF Summoned
<1>2. p.real_pool <= p.real_pool
  BY DEF Good, CoreType
<1> QED
  BY <1>1, <1>2 DEF Helps

\* Signalling moves sleepers from one list to the other.
LEMMA SignalCounted ==
  ASSUME NEW p, Good(p), NEW A, Counted(p, A), NEW W \in SUBSET p.waitq,
         NEW self, NEW q, q = Signal(p, W)
  PROVE  /\ Helps(p, q, self, A)
         /\ q.waitq = p.waitq \ W
         /\ q.n_qths_waked = p.n_qths_waked + Cardinality(W)
         /\ q.ths = p.ths /\ q.rm = p.rm
         /\ q.real_pool = p.real_pool /\ q.real_free = p.real_free
<1>1. p \in CoreType
  BY DEF Good
<1>2. /\ q.waitq = p.waitq \ W /\ q.waked = p.waked \cup W
      /\ q.n_qths_wait = p.n_qths_wait - Cardinality(W)
      /\ q.n_qths_waked = p.n_qths_waked + Cardinality(W)
  BY <1>1 DEF Signal, CoreType
<1>3. /\ q.ths = p.ths /\ q.rm = p.rm /\ q.stat = p.stat
      /\ q.thq = p.thq /\ q.unborn = p.unborn
  BY <1>1 DEF Signal, CoreType
<1>4. /\ q.n_qths = p.n_qths /\ q.running = p.running /\ q.dying = p.dying
      /\ q.dying_run = p.dying_run /\ q.sleeping = p.sleeping
      /\ q.real_pool = p.real_pool /\ q.real_free = p.real_free
  BY <1>1 DEF Signal, CoreType
<1>5. Orders(p, q)
  BY <1>1 DEF Signal, CoreType, Orders
<1>6. /\ A \in SUBSET Threads /\ p.waitq \in SUBSET Threads
      /\ p.waitq = A \ p.waked /\ p.waked \in SUBSET Threads
  BY <1>1 DEF Counted, Lists, CoreType
<1>7. Lists(q, A)
  <2>1. /\ A \cap q.waked = (A \cap p.waked) \cup W
        /\ (A \cap p.waked) \cap W = {}
        /\ A \cap p.waked \in SUBSET Threads /\ W \in SUBSET Threads
    BY <1>2, <1>6
  <2>2. /\ Cardinality(A \cap q.waked) = Cardinality(A \cap p.waked) + Cardinality(W)
        /\ Cardinality(p.waitq \ W) = Cardinality(p.waitq) - Cardinality(W)
    BY <1>6, <2>1, SizeOfUnion, SizeOfDifference
  <2> QED
    BY <1>2, <1>3, <1>4, <1>6, <2>2 DEF Counted, Lists
<1>8. Told(q) /\ Outside(q)
  BY <1>2, <1>3 DEF Counted, Told, Outside
<1>9. \A B : Classes(p, A, B) => Classes(q, A, B) /\ p.real_pool <= q.real_pool
  <2>1. p.real_pool <= q.real_pool
    BY <1>1, <1>4 DEF CoreType
  <2> QED
    BY <1>3, <1>4, <2>1 DEF Classes
<1>10. Summoned(p, q, self)
  <2>1. q.unborn = p.unborn \cup {}
    BY <1>3
  <2>2. \A t \in Threads : q.thq[t] = IF t = self THEN p.thq[t] \cup {} ELSE p.thq[t]
    BY <1>3
  <2> QED
    BY <1>2, <1>3, <1>5, <2>1, <2>2 DEF Summoned
<1>11. Good(q)
  BY <1>6, SignalKeeps DEF Keeps
<1> QED
  BY <1>2, <1>3, <1>4, <1>7, <1>8, <1>9, <1>10, <1>11 DEF Helps, Counted

\* A marked thread that is reused counts as a free one: it neither sleeps nor
\* runs, as long as Classes holds; and it need not be signalled.
LEMMA ReviveCounted ==
  ASSUME NEW p, Good(p), NEW A, Counted(p, A),
         NEW R \in SUBSET (p.ths \cap p.rm), NEW self, NEW s, s = Revive(p, R)
  PROVE  /\ Helps(p, s, self, A)
         /\ s.waitq = p.waitq /\ s.n_qths_waked = p.n_qths_waked
         /\ s.ths = p.ths /\ s.rm = p.rm \ R
         /\ s.real_pool = p.real_pool + Cardinality(R)
         /\ \A B : Classes(p, A, B) => s.real_free = p.real_free + Cardinality(R)
<1> DEFINE asleep  == {t \in R : p.stat[t] = "WAIT"}
           busy    == {t \in R : p.stat[t] = "RUN"}
           rescued == {t \in R : p.stat[t] = "FORCE_QUIT"}
           q == [p EXCEPT !.rm = @ \ R,
                          !.run = @ \cup R,
                          !.real_pool = @ + Cardinality(R),
                          !.dying = @ - Cardinality(R),
                          !.sleeping = @ + Cardinality(asleep),
                          !.dying_run = @ - Cardinality(busy),
                          !.real_free = @ + Cardinality(R \ (asleep \cup busy)),
                          !.stat = [t \in Threads |->
                                      IF t \in rescued THEN "FREE" ELSE @[t]]]
<1>1. s = Signal(q, asleep \ p.waked)
  BY DEF Revive
<1>2. p \in CoreType
  BY DEF Good
<1>3. asleep \ p.waked = {}
  BY DEF Counted, Told
<1>4. \A t \in Threads : q.stat[t] = IF t \in rescued THEN "FREE" ELSE p.stat[t]
  BY <1>2 DEF CoreType
<1>5. \A t \in rescued : p.stat[t] = "FORCE_QUIT"
  OBVIOUS
<1>6. /\ (\A t \in R : p.stat[t] \notin {"WAIT", "RUN"}) => asleep = {} /\ busy = {}
      /\ asleep \in SUBSET Threads /\ busy \in SUBSET Threads
  BY <1>2 DEF CoreType
<1> HIDE DEF asleep, busy, rescued
<1>7. /\ q.ths = p.ths /\ q.rm = p.rm \ R /\ q.waked = p.waked
      /\ q.waitq = p.waitq /\ q.thq = p.thq /\ q.unborn = p.unborn
  BY <1>2 DEF CoreType
<1>8. /\ q.n_qths = p.n_qths /\ q.running = p.running
      /\ q.n_qths_wait = p.n_qths_wait /\ q.n_qths_waked = p.n_qths_waked
      /\ q.dying = p.dying - Cardinality(R)
      /\ q.dying_run = p.dying_run - Cardinality(busy)
      /\ q.sleeping = p.sleeping + Cardinality(asleep)
      /\ q.real_pool = p.real_pool + Cardinality(R)
      /\ q.real_free = p.real_free + Cardinality(R \ (asleep \cup busy))
  BY <1>2 DEF CoreType
<1>9. Orders(p, q)
  BY <1>2 DEF CoreType, Orders
<1>10. /\ Cardinality(R) \in Int /\ Cardinality(asleep) \in Int
       /\ Cardinality(busy) \in Int
       /\ Cardinality(R \ (asleep \cup busy)) \in Int
  <2>1. R \in SUBSET Threads /\ R \ (asleep \cup busy) \in SUBSET Threads
    BY <1>2 DEF CoreType
  <2> QED
    BY <1>6, <2>1, SizeOfThreads
<1>11. q \in CoreType
  <2>1. /\ p.rm \ R \in SUBSET Threads /\ p.run \cup R \in SUBSET Threads
        /\ p.real_pool + Cardinality(R) \in Int
        /\ p.dying - Cardinality(R) \in Int
        /\ p.sleeping + Cardinality(asleep) \in Int
        /\ p.dying_run - Cardinality(busy) \in Int
        /\ p.real_free + Cardinality(R \ (asleep \cup busy)) \in Int
        /\ [t \in Threads |-> IF t \in rescued THEN "FREE" ELSE p.stat[t]]
             \in [Threads -> ThreadStatus]
    BY <1>2, <1>10 DEF CoreType, ThreadStatus
  <2> QED
    BY <1>2, <2>1, Zenon DEF CoreType
<1>12. q.run = p.run \cup R
  BY <1>2 DEF CoreType
<1> HIDE DEF q
<1>13. Good(q)
  <2>1. Sound(p) /\ p.run \in SUBSET Threads /\ p.rm \in SUBSET Threads
    BY <1>2 DEF Good, CoreType
  <2>2. q.rm \subseteq q.ths /\ q.unborn \subseteq q.ths
    BY <1>7, <2>1 DEF Sound
  <2>3. q.run = Threads \ q.rm
    BY <1>7, <1>12, <2>1 DEF Sound
  <2>4. /\ \A t \in Threads : q.thq[t] \subseteq q.unborn
        /\ \A t, o \in Threads : t # o => q.thq[t] \cap q.thq[o] = {}
    BY <1>7, <2>1 DEF Sound
  <2> QED
    BY <1>11, <2>2, <2>3, <2>4 DEF Good, Sound
<1>14. Counted(q, A)
  <2>1. \A t \in Threads \ p.ths : t \notin p.rm
    BY <1>2 DEF Good, Sound
  <2>2. p.rm \in SUBSET Threads
    BY <1>2 DEF CoreType
  <2> QED
    BY <1>4, <1>5, <1>7, <1>8, <2>1, <2>2 DEF Counted, Lists, Told, Outside
<1>15. Summoned(p, q, self)
  <2>1. q.unborn = p.unborn \cup {}
    BY <1>7
  <2>2. \A t \in Threads : q.thq[t] = IF t = self THEN p.thq[t] \cup {} ELSE p.thq[t]
    BY <1>7
  <2>3. q.rm \subseteq p.rm
    BY <1>7
  <2>4. \A t \in Threads : /\ q.stat[t] = "WAIT" <=> p.stat[t] = "WAIT"
                           /\ q.stat[t] = "RUN" <=> p.stat[t] = "RUN"
    BY <1>4, <1>5
  <2> QED
    BY <1>7, <1>9, <2>1, <2>2, <2>3, <2>4 DEF Summoned
<1>16. ASSUME NEW B, Classes(p, A, B)
       PROVE  /\ Classes(q, A, B)
              /\ q.real_pool = p.real_pool + Cardinality(R)
              /\ q.real_free = p.real_free + Cardinality(R)
  <2>1. asleep = {} /\ busy = {}
    BY <1>16, <1>6 DEF Classes
  <2>2. Cardinality({}) = 0 /\ R \ (asleep \cup busy) = R
    BY <2>1, FS_EmptySet
  <2>3. /\ A \in SUBSET Threads /\ B \in SUBSET Threads
        /\ p.ths \in SUBSET Threads /\ p.rm \in SUBSET Threads
        /\ R \in SUBSET Threads /\ R \subseteq p.rm /\ R \subseteq p.ths
    BY <1>2, <1>16 DEF CoreType, Classes
  <2>4. /\ (A \cup B) \cap p.rm = {}
        /\ p.ths \ (p.rm \ R) = (p.ths \ p.rm) \cup R
        /\ (p.ths \ p.rm) \cap R = {}
        /\ p.ths \ ((p.rm \ R) \cup A \cup B) = (p.ths \ (p.rm \cup A \cup B)) \cup R
        /\ (p.ths \ (p.rm \cup A \cup B)) \cap R = {}
    BY <1>16, <2>3 DEF Classes
  <2>5. /\ Cardinality(p.rm \ R) = Cardinality(p.rm) - Cardinality(R)
        /\ Cardinality(p.ths \ (p.rm \ R)) = Cardinality(p.ths \ p.rm) + Cardinality(R)
        /\ Cardinality(p.ths \ ((p.rm \ R) \cup A \cup B))
             = Cardinality(p.ths \ (p.rm \cup A \cup B)) + Cardinality(R)
    <3>1. /\ p.ths \ p.rm \in SUBSET Threads
          /\ p.ths \ (p.rm \cup A \cup B) \in SUBSET Threads
      BY <2>3
    <3> QED
      BY <2>3, <2>4, <3>1, SizeOfUnion, SizeOfDifference
  <2>6. \A t \in q.rm : q.stat[t] \notin {"WAIT", "RUN"}
    BY <1>4, <1>7, <1>16, <2>3 DEF Classes
  <2>7. /\ q.dying = p.dying - Cardinality(R) /\ q.dying_run = p.dying_run
        /\ q.sleeping = p.sleeping /\ q.running = p.running
        /\ q.real_pool = p.real_pool + Cardinality(R)
        /\ q.real_free = p.real_free + Cardinality(R)
    BY <1>2, <1>8, <2>1, <2>2 DEF CoreType
  <2> QED
    BY <1>7, <1>16, <2>4, <2>5, <2>6, <2>7 DEF Classes
<1>17. p.real_pool <= q.real_pool
  <2>1. R \in SUBSET Threads
    BY <1>2 DEF CoreType
  <2>2. Cardinality(R) \in Nat
    BY <2>1, SizeOfThreads
  <2> QED
    BY <1>2, <1>8, <2>2 DEF CoreType
<1>18. Helps(p, q, self, A)
  BY <1>13, <1>14, <1>15, <1>16, <1>17 DEF Helps
<1>19. PICK W : W \in SUBSET q.waitq /\ W = {} /\ s = Signal(q, W)
  BY <1>1, <1>3
<1>20. /\ Helps(q, s, self, A)
       /\ s.waitq = q.waitq \ W
       /\ s.n_qths_waked = q.n_qths_waked + Cardinality(W)
       /\ s.ths = q.ths /\ s.rm = q.rm
       /\ s.real_pool = q.real_pool /\ s.real_free = q.real_free
  <2>1. Good(q) /\ Counted(q, A) /\ W \in SUBSET q.waitq /\ s = Signal(q, W)
    BY <1>13, <1>14, <1>19
  <2>2. Helps(q, s, self, A) /\ s.ths = q.ths /\ s.rm = q.rm
    BY <2>1, SignalCounted
  <2>3. s.waitq = q.waitq \ W
    BY <2>1, SignalCounted
  <2>4. s.n_qths_waked = q.n_qths_waked + Cardinality(W)
    BY <2>1, SignalCounted
  <2>5. s.real_pool = q.real_pool /\ s.real_free = q.real_free
    BY <2>1, SignalCounted
  <2> QED
    BY <2>2, <2>3, <2>4, <2>5
<1>21. s.n_qths_waked = p.n_qths_waked
  BY <1>2, <1>8, <1>19, <1>20, FS_EmptySet DEF CoreType
<1>22. Helps(p, s, self, A)
  BY <1>18, <1>20, HelpsTransitive
<1> QED
  BY <1>7, <1>8, <1>16, <1>19, <1>20, <1>21, <1>22

\* New threads are free ones.
LEMMA EnlistCounted ==
  ASSUME NEW p, Good(p), NEW A, Counted(p, A), NEW self \in Threads \cup {NoSelf},
         NEW N \in SUBSET (Threads \ p.ths), NEW r, r = Enlist(p, self, N)
  PROVE  /\ Helps(p, r, self, A)
         /\ r.waitq = p.waitq /\ r.n_qths_waked = p.n_qths_waked
         /\ r.real_pool = p.real_pool + Cardinality(N)
         /\ r.real_free = p.real_free + Cardinality(N)
<1> DEFINE q == [p EXCEPT !.ths = @ \cup N,
                          !.ref = @ + Cardinality(N),
                          !.n_qths = @ + Cardinality(N),
                          !.real_free = @ + Cardinality(N),
                          !.real_pool = @ + Cardinality(N)]
<1>1. p \in CoreType /\ N \in SUBSET Threads
  BY DEF Good
<1>2. /\ q.ths = p.ths \cup N /\ q.n_qths = p.n_qths + Cardinality(N)
      /\ q.real_free = p.real_free + Cardinality(N)
      /\ q.real_pool = p.real_pool + Cardinality(N)
  BY <1>1 DEF CoreType
<1>3. /\ q.rm = p.rm /\ q.stat = p.stat /\ q.waked = p.waked /\ q.waitq = p.waitq
      /\ q.thq = p.thq /\ q.unborn = p.unborn /\ q.n_qths_wait = p.n_qths_wait
      /\ q.n_qths_waked = p.n_qths_waked /\ q.running = p.running
      /\ q.dying = p.dying /\ q.dying_run = p.dying_run
      /\ q.sleeping = p.sleeping
  BY <1>1 DEF CoreType
<1>4. Orders(p, q)
  BY <1>1 DEF CoreType, Orders
<1>5. q.thq \in [Threads -> SUBSET Threads] /\ q.unborn \in SUBSET Threads
  BY <1>1, <1>3 DEF CoreType
<1>6. self \in Threads =>
        LET x == [q EXCEPT !.thq[self] = @ \cup N, !.unborn = @ \cup N] IN
        /\ x.ths = q.ths /\ x.n_qths = q.n_qths
        /\ x.real_free = q.real_free /\ x.real_pool = q.real_pool
        /\ x.rm = q.rm /\ x.stat = q.stat /\ x.waked = q.waked /\ x.waitq = q.waitq
        /\ x.n_qths_wait = q.n_qths_wait /\ x.n_qths_waked = q.n_qths_waked
        /\ x.running = q.running /\ x.dying = q.dying
        /\ x.dying_run = q.dying_run /\ x.sleeping = q.sleeping
        /\ x.maxthreads = q.maxthreads /\ x.minthreads = q.minthreads
        /\ x.paused = q.paused /\ x.npendings = q.npendings
        /\ x.n_qdispatchs = q.n_qdispatchs
        /\ x.unborn = q.unborn \cup N
        /\ \A t \in Threads : x.thq[t] = IF t = self THEN q.thq[t] \cup N ELSE q.thq[t]
  BY <1>1 DEF CoreType
<1>7. r = IF self = NoSelf THEN q
          ELSE [q EXCEPT !.thq[self] = @ \cup N, !.unborn = @ \cup N]
  BY DEF Enlist
<1> HIDE DEF q
<1>8. /\ r.ths = q.ths /\ r.n_qths = q.n_qths
      /\ r.real_free = q.real_free /\ r.real_pool = q.real_pool
      /\ r.rm = q.rm /\ r.stat = q.stat /\ r.waked = q.waked /\ r.waitq = q.waitq
      /\ r.n_qths_wait = q.n_qths_wait /\ r.n_qths_waked = q.n_qths_waked
      /\ r.running = q.running /\ r.dying = q.dying
      /\ r.dying_run = q.dying_run /\ r.sleeping = q.sleeping
      /\ Orders(q, r)
  BY <1>6, <1>7 DEF Orders
<1>9. Summoned(p, r, self)
  <2>1. Orders(p, r)
    BY <1>4, <1>8 DEF Orders
  <2>2. PICK M \in SUBSET Threads :
          /\ r.unborn = p.unborn \cup M /\ (M # {} => self \in Threads)
          /\ \A t \in Threads : r.thq[t] = IF t = self THEN p.thq[t] \cup M ELSE p.thq[t]
    <3>1. CASE self = NoSelf
      <4>1. r.unborn = p.unborn \cup {} /\ r.thq = p.thq
        BY <1>3, <1>7, <3>1
      <4> QED
        BY <4>1
    <3>2. CASE self # NoSelf
      BY <1>1, <1>3, <1>6, <1>7, <3>2
    <3> QED
      BY <3>1, <3>2
  <2> QED
    BY <1>2, <1>3, <1>8, <2>1, <2>2 DEF Summoned
<1>10. p.ths \in SUBSET Threads /\ p.rm \subseteq p.ths /\ p.ths \cap N = {}
  BY <1>1 DEF Good, Sound, CoreType
<1>11. Counted(r, A)
  <2>1. Cardinality(p.ths \cup N) = Cardinality(p.ths) + Cardinality(N)
    BY <1>1, <1>10, SizeOfUnion
  <2>2. Lists(r, A)
    BY <1>2, <1>3, <1>8, <2>1 DEF Counted, Lists
  <2> QED
    BY <1>2, <1>3, <1>8, <2>2 DEF Counted, Told, Outside
<1>12. ASSUME NEW B, Classes(p, A, B)
       PROVE  Classes(r, A, B)
  <2>1. A \subseteq p.ths /\ B \subseteq p.ths
    BY <1>12 DEF Classes
  <2>2. /\ (p.ths \cup N) \ p.rm = (p.ths \ p.rm) \cup N
        /\ (p.ths \cup N) \ (p.rm \cup A \cup B) = (p.ths \ (p.rm \cup A \cup B)) \cup N
    BY <1>10, <2>1
  <2>3. /\ Cardinality((p.ths \cup N) \ p.rm) = Cardinality(p.ths \ p.rm) + Cardinality(N)
        /\ Cardinality((p.ths \cup N) \ (p.rm \cup A \cup B))
             = Cardinality(p.ths \ (p.rm \cup A \cup B)) + Cardinality(N)
    <3>1. /\ p.ths \ p.rm \in SUBSET Threads
          /\ p.ths \ (p.rm \cup A \cup B) \in SUBSET Threads
          /\ (p.ths \ p.rm) \cap N = {}
          /\ (p.ths \ (p.rm \cup A \cup B)) \cap N = {}
      BY <1>10
    <3> QED
      BY <1>1, <2>2, <3>1, SizeOfUnion
  <2> QED
    BY <1>2, <1>3, <1>8, <1>12, <2>1, <2>3 DEF Classes
<1>13. p.real_pool <= r.real_pool
  <2>1. Cardinality(N) \in Nat
    BY <1>1, SizeOfThreads
  <2> QED
    BY <1>1, <1>2, <1>8, <2>1 DEF CoreType
<1>14. Good(r)
  BY EnlistKeeps DEF Keeps
<1> QED
  BY <1>2, <1>3, <1>8, <1>9, <1>11, <1>12, <1>13, <1>14 DEF Helps

\* Calling sleepers leaves none asleep, or one on the way.
LEMMA WakeupCounted ==
  ASSUME NEW p, Good(p), NEW A, Counted(p, A), NEW n \in Int,
         NEW self, NEW q \in Wakeup(p, n)
  PROVE  /\ Helps(p, q, self, A)
         /\ q.real_pool = p.real_pool
         /\ p.waitq # {} => q.n_qths_waked # 0
         /\ p.waitq = {} => q.waitq = {} /\ q.n_qths_waked = p.n_qths_waked
         /\ q.real_free = p.real_free
<1>1. PICK W \in SUBSET p.waitq :
        q = Signal(p, W) /\ (Cardinality(p.waitq) # 0 => Cardinality(W) # 0)
  <2>1. p.waitq \in SUBSET Threads
    BY DEF Good, CoreType
  <2>2. Cardinality(p.waitq) \in Nat
    BY <2>1, SizeOfThreads
  <2>3. CASE n <= 0
    BY <2>3 DEF Wakeup, WakeupAll
  <2>4. CASE n > 0
    <3>1. PICK W \in SUBSET p.waitq :
            q = Signal(p, W) /\ Cardinality(W) = Least(n, Cardinality(p.waitq))
      BY <2>4 DEF Wakeup, kSubset
    <3>2. Cardinality(p.waitq) # 0 => Least(n, Cardinality(p.waitq)) # 0
      BY <2>2, <2>4 DEF Least
    <3> QED
      BY <3>1, <3>2
  <2> QED
    BY <2>3, <2>4
<1>2. /\ Helps(p, q, self, A)
      /\ q.waitq = p.waitq \ W
      /\ q.n_qths_waked = p.n_qths_waked + Cardinality(W)
      /\ q.real_pool = p.real_pool /\ q.real_free = p.real_free
  BY <1>1, SignalCounted
<1>3. /\ p.waitq \in SUBSET Threads /\ W \in SUBSET Threads
      /\ A \cap p.waked \in SUBSET Threads
  BY DEF Good, CoreType
<1>4. /\ Cardinality(W) \in Nat /\ p.n_qths_waked \in Nat
      /\ Cardinality(p.waitq) = 0 <=> p.waitq = {}
      /\ Cardinality(W) = 0 <=> W = {}
  BY <1>3, SizeOfThreads, FS_EmptySet DEF Counted, Lists
<1> QED
  BY <1>1, <1>2, <1>4

\* As many threads as are asked for are reused or created, unless there are
\* no more thread objects or one cannot be created.
LEMMA AddThreadsCounted ==
  ASSUME NEW p, Good(p), NEW A, Counted(p, A), NEW self \in Threads \cup {NoSelf},
         NEW n \in Int, NEW q \in AddThreads(p, self, n)
  PROVE  /\ Helps(p, q, self, A)
         /\ q.waitq = p.waitq /\ q.n_qths_waked = p.n_qths_waked
         /\ \A B : Classes(p, A, B) =>
              /\ q.real_free - p.real_free = q.real_pool - p.real_pool
              /\ q.real_pool - p.real_pool <= (IF n <= 0 THEN 0 ELSE n)
              /\ n >= 0 /\ ~CreateMayFail =>
                   q.real_pool - p.real_pool = Least(n, Cardinality(Threads) - p.real_pool)
<1> DEFINE r == ReuseCount(p, n)
<1>1. PICK R \in SUBSET (p.ths \cap p.rm), m \in LaunchCount(p, self, n - r),
           N \in SUBSET (Threads \ p.ths) :
        /\ Cardinality(R) = r /\ Cardinality(N) = m
        /\ q = Enlist(Revive(p, R), self, N)
  BY DEF AddThreads, kSubset
<1>2. PICK s : s = Revive(p, R)
  OBVIOUS
<1>3. /\ Helps(p, s, self, A)
      /\ s.waitq = p.waitq /\ s.n_qths_waked = p.n_qths_waked
      /\ s.ths = p.ths
  BY <1>2, ReviveCounted
<1>4. s.real_pool = p.real_pool + Cardinality(R)
  BY <1>2, ReviveCounted
<1>5. \A B : Classes(p, A, B) => s.real_free = p.real_free + Cardinality(R)
  BY <1>2, ReviveCounted
<1>6. Good(s) /\ Counted(s, A) /\ N \in SUBSET (Threads \ s.ths) /\ q = Enlist(s, self, N)
  BY <1>1, <1>2, <1>3 DEF Helps
<1>7. /\ Helps(s, q, self, A)
      /\ q.waitq = s.waitq /\ q.n_qths_waked = s.n_qths_waked
  BY <1>6, EnlistCounted
<1>8. /\ q.real_pool = s.real_pool + Cardinality(N)
      /\ q.real_free = s.real_free + Cardinality(N)
  <2>1. Good(s) /\ Counted(s, A)
    BY <1>6
  <2>2. \A x : x = Enlist(s, self, N) => x.real_pool = s.real_pool + Cardinality(N)
    BY <1>6, <2>1, EnlistCounted
  <2>3. \A x : x = Enlist(s, self, N) => x.real_free = s.real_free + Cardinality(N)
    BY <1>6, <2>1, EnlistCounted
  <2> QED
    BY <1>6, <2>2, <2>3
<1>9. Helps(p, q, self, A)
  BY <1>3, <1>7, HelpsTransitive
<1>10. ASSUME NEW B, Classes(p, A, B)
       PROVE  /\ q.real_free - p.real_free = q.real_pool - p.real_pool
              /\ q.real_pool - p.real_pool <= (IF n <= 0 THEN 0 ELSE n)
              /\ n >= 0 /\ ~CreateMayFail =>
                   q.real_pool - p.real_pool = Least(n, Cardinality(Threads) - p.real_pool)
  <2>1. /\ p.real_pool \in Int /\ p.real_free \in Int
        /\ p.ths \in SUBSET Threads /\ p.rm \in SUBSET Threads /\ p.rm \subseteq p.ths
    BY DEF Good, Sound, CoreType
  <2>2. /\ Cardinality(R) \in Nat /\ Cardinality(N) \in Nat
        /\ Cardinality(p.rm) \in Nat /\ Cardinality(p.ths \ p.rm) \in Nat
        /\ Cardinality(Threads \ p.ths) \in Nat /\ Cardinality(Threads) \in Nat
        /\ Cardinality(p.ths) \in Nat
    <3>1. /\ R \in SUBSET Threads /\ N \in SUBSET Threads
          /\ p.ths \ p.rm \in SUBSET Threads /\ Threads \ p.ths \in SUBSET Threads
          /\ Threads \in SUBSET Threads
      BY <2>1
    <3> QED
      BY <2>1, <3>1, SizeOfThreads
  <2>3. p.ths \cap p.rm = p.rm
    BY <2>1
  <2>4. p.dying = Cardinality(p.rm) /\ p.real_pool = Cardinality(p.ths \ p.rm)
    BY <1>10 DEF Classes
  <2>5. r = IF n <= 0 THEN 0 ELSE Least(n, Cardinality(p.rm))
    BY <2>2, <2>3, <2>4 DEF ReuseCount, Least
  <2>6. /\ Cardinality(Threads \ p.ths) = Cardinality(Threads) - Cardinality(p.ths)
        /\ p.real_pool = Cardinality(p.ths) - Cardinality(p.rm)
    <3>1. /\ Threads \in SUBSET Threads /\ p.ths \in SUBSET Threads
          /\ p.rm \in SUBSET p.ths
      BY <2>1
    <3>2. Cardinality(Threads \ p.ths) = Cardinality(Threads) - Cardinality(p.ths)
      BY <3>1, SizeOfDifference
    <3>3. Cardinality(p.ths \ p.rm) = Cardinality(p.ths) - Cardinality(p.rm)
      BY <3>1, SizeOfDifference
    <3> QED
      BY <2>4, <3>2, <3>3
  <2>7. /\ q.real_pool - p.real_pool = r + Cardinality(N)
        /\ q.real_free - p.real_free = r + Cardinality(N)
    BY <1>1, <1>4, <1>5, <1>8, <1>10, <2>1, <2>2
  <2> DEFINE most == Least(n - r, Cardinality(Threads \ p.ths))
  <2>8. /\ n - r <= 0 => Cardinality(N) = 0
        /\ n - r > 0 => Cardinality(N) <= most
        /\ n - r > 0 /\ ~CreateMayFail => Cardinality(N) = most
    <3>1. r \in Int /\ most \in Int
      BY <2>2, <2>5 DEF Least
    <3>2. LaunchCount(p, self, n - r)
            = IF n - r <= 0 THEN {0}
              ELSE IF CreateMayFail /\ self = NoSelf THEN 0..most ELSE {most}
      BY DEF LaunchCount
    <3> HIDE DEF most, r
    <3> QED
      BY <1>1, <3>1, <3>2, CreateAssumption
  <2> HIDE DEF r
  <2> QED
    BY <2>1, <2>2, <2>5, <2>6, <2>7, <2>8 DEF Least
<1> QED
  BY <1>3, <1>7, <1>9, <1>10

\* Is there anything to run ?
Work(p) == p.n_qdispatchs # 0 \/ (~p.paused /\ p.npendings # 0)

\* cpool_core_ensure_servicesl keeps the books ...
LEMMA EnsureServicesCounted ==
  ASSUME NEW p, Good(p), NEW A, Counted(p, A), NEW self \in Threads \cup {NoSelf},
         NEW q \in EnsureServices(p, self)
  PROVE  /\ Helps(p, q, self, A)
         /\ \A B : Classes(p, A, B) /\ p.real_pool <= p.maxthreads =>
              q.real_pool <= q.maxthreads
<1> DEFINE wanted == (IF p.paused THEN 0 ELSE p.npendings)
                       + (IF p.n_qdispatchs # 0 THEN 1 ELSE 0)
           spare == p.maxthreads - p.real_pool
           n == Least(Least(spare, Limit), wanted)
<1>1. \/ q = p
      \/ q \in Wakeup(p, Least(2, Limit))
      \/ spare > 0 /\ q \in AddThreads(p, self, n)
  BY Zenon DEF EnsureServices
<1>2. /\ n \in Int /\ Least(2, Limit) \in Int /\ n <= spare
      /\ p.maxthreads \in Int /\ p.real_pool \in Int
  BY LimitAssumption DEF Least, Good, CoreType
<1>3. CASE q = p
  BY <1>3, HelpsNothing
<1>4. CASE q \in Wakeup(p, Least(2, Limit))
  <2>1. Helps(p, q, self, A) /\ q.real_pool = p.real_pool
    BY <1>2, <1>4, WakeupCounted
  <2>2. q.maxthreads = p.maxthreads
    BY <2>1 DEF Helps, Summoned, Orders
  <2> QED
    BY <2>1, <2>2
<1>5. CASE spare > 0 /\ q \in AddThreads(p, self, n)
  <2> HIDE DEF n
  <2>1. Helps(p, q, self, A)
    BY <1>2, <1>5, AddThreadsCounted
  <2>2. ASSUME NEW B, Classes(p, A, B)
        PROVE  q.real_pool - p.real_pool <= (IF n <= 0 THEN 0 ELSE n)
    BY <1>2, <1>5, <2>2, AddThreadsCounted
  <2>3. q.maxthreads = p.maxthreads /\ q.real_pool \in Int
    BY <2>1 DEF Helps, Summoned, Orders, Good, CoreType
  <2> QED
    BY <1>2, <1>5, <2>1, <2>2, <2>3
<1> QED
  BY <1>1, <1>3, <1>4, <1>5

\* ... and is what it is called for: whatever there is to run will be looked
\* for, unless all threads the pool may have are at work.
LEMMA EnsureServicesServes ==
  ASSUME NEW p, Good(p), NEW A, Counted(p, A), NEW B, Classes(p, A, B),
         NEW self \in Threads \cup {NoSelf}, NEW q \in EnsureServices(p, self),
         ~CreateMayFail, Work(p), p.maxthreads <= Cardinality(Threads),
         Dynamic \/ p.real_pool >= p.maxthreads
  PROVE  Conserved(q)
<1> DEFINE ready == IF p.paused THEN 0 ELSE p.npendings
           wanted == ready + (IF p.n_qdispatchs # 0 THEN 1 ELSE 0)
           spare == p.maxthreads - p.real_pool
           n == Least(Least(spare, Limit), wanted)
<1>1. /\ p.maxthreads \in Int /\ p.real_pool \in Int /\ p.real_free \in Int
      /\ p.npendings \in Nat /\ p.n_qdispatchs \in Nat /\ p.paused \in BOOLEAN
  BY DEF Good, CoreType
<1>2. wanted > 0 /\ ~(p.n_qdispatchs = 0 /\ ready = 0) /\ wanted \in Nat
  BY <1>1 DEF Work
<1>3. /\ ~NoServer(p) => q = p
      /\ NoServer(p) /\ p.waitq # {} => q \in Wakeup(p, Least(2, Limit))
      /\ NoServer(p) /\ p.waitq = {} /\ spare > 0 => q \in AddThreads(p, self, n)
      /\ NoServer(p) /\ p.waitq = {} /\ ~(spare > 0) => q = p
  BY <1>2, Zenon DEF EnsureServices
<1>4. /\ Limit \in Nat /\ Least(2, Limit) \in Int
      /\ spare > 0 => Limit > 0
  BY <1>1, LimitAssumption DEF Least
<1>5. CASE ~NoServer(p)
  BY <1>3, <1>5 DEF Conserved
<1>6. CASE NoServer(p) /\ p.waitq # {}
  <2> DEFINE k == Least(2, Limit)
  <2>1. k \in Int /\ q \in Wakeup(p, k)
    BY <1>3, <1>4, <1>6
  <2> HIDE DEF k
  <2>2. q.n_qths_waked # 0
    BY <1>6, <2>1, WakeupCounted
  <2> QED
    BY <2>2 DEF Conserved, NoServer
<1>7. CASE NoServer(p) /\ p.waitq = {} /\ spare > 0
  <2>1. n \in Nat /\ n > 0
    BY <1>1, <1>2, <1>4, <1>7 DEF Least
  <2> HIDE DEF n
  <2>2. q \in AddThreads(p, self, n) /\ n \in Int
    BY <1>3, <1>7, <2>1
  <2>3. q.real_free - p.real_free = q.real_pool - p.real_pool
    BY <2>2, AddThreadsCounted
  <2>4. q.real_pool - p.real_pool = Least(n, Cardinality(Threads) - p.real_pool)
    BY <2>1, <2>2, AddThreadsCounted
  <2>5. Cardinality(Threads) \in Nat
    BY SizeOfThreads
  <2>6. Least(n, Cardinality(Threads) - p.real_pool) > 0
    BY <1>1, <1>7, <2>1, <2>5 DEF Least
  <2>7. p.real_free = 0
    BY <1>7 DEF NoServer
  <2>8. q.real_free \in Int
    <3>1. Good(q)
      BY <2>2, AddThreadsKeeps DEF Keeps
    <3> QED
      BY <3>1 DEF Good, CoreType
  <2>9. q.real_free # 0
    BY <2>3, <2>4, <2>6, <2>7, <2>8
  <2> QED
    BY <2>9 DEF Conserved, NoServer
<1>8. CASE NoServer(p) /\ p.waitq = {} /\ ~(spare > 0)
  BY <1>1, <1>3, <1>8 DEF Conserved
<1> QED
  BY <1>5, <1>6, <1>7, <1>8

\* A conserving pool has a server.
LEMMA ConservedServer ==
  ASSUME NEW p, Good(p), NEW A, Counted(p, A), NEW B, Classes(p, A, B),
         Conserved(p), p.maxthreads > 0
  PROVE  Server(p)
<1>1. /\ p.ths \in SUBSET Threads /\ p.rm \in SUBSET Threads
      /\ p.waitq = A \ p.waked /\ A \subseteq p.ths /\ A \cap p.rm = {}
      /\ p.maxthreads \in Int /\ p.real_pool \in Int
  BY DEF Good, CoreType, Classes, Counted, Lists
<1>2. CASE p.real_free # 0
  <2>1. p.ths \ (p.rm \cup A \cup B) # {}
    BY <1>2, FS_EmptySet DEF Classes
  <2> QED
    BY <1>1, <2>1 DEF Server
<1>3. CASE p.n_qths_waked # 0
  <2>1. A \cap p.waked # {}
    BY <1>3, FS_EmptySet DEF Counted, Lists
  <2> QED
    BY <1>1, <2>1 DEF Server
<1>4. CASE p.waitq = {} /\ p.real_pool >= p.maxthreads
  <2>1. p.ths \ p.rm # {}
    BY <1>1, <1>4, FS_EmptySet DEF Classes
  <2> QED
    BY <1>4, <2>1 DEF Server
<1> QED
  BY <1>2, <1>3, <1>4 DEF Conserved, NoServer

-----------------------------------------------------------------------------

\* The threads, but for their status, are the same in p and q.
Alike(p, q) ==
    /\ q.ths = p.ths /\ q.rm = p.rm /\ q.waked = p.waked /\ q.waitq = p.waitq
    /\ q.thq = p.thq /\ q.unborn = p.unborn
    /\ q.n_qths = p.n_qths /\ q.n_qths_wait = p.n_qths_wait
    /\ q.n_qths_waked = p.n_qths_waked /\ q.running = p.running
    /\ q.dying = p.dying /\ q.dying_run = p.dying_run /\ q.sleeping = p.sleeping
    /\ q.real_pool = p.real_pool /\ q.real_free = p.real_free
    /\ q.maxthreads = p.maxthreads /\ q.minthreads = p.minthreads

\* Only the threads in T go to sleep, wake up, run something or leave.
Moves(p, r, T) ==
    \A o \in Threads \ T :
      /\ o \in p.ths => o \in r.ths
      /\ r.stat[o] = "WAIT" <=> p.stat[o] = "WAIT"
      /\ r.stat[o] = "RUN" <=> p.stat[o] = "RUN"

\* ... nobody else is marked dead or asked to create threads, and those that
\* are to be created stay somebody's.
Acts(p, r, T) ==
    /\ Moves(p, r, T)
    /\ r.maxthreads = p.maxthreads /\ r.minthreads = p.minthreads
    /\ Owned(p) => Owned(r)
    /\ \A o \in Threads \ T :
         /\ o \in r.rm => o \in p.rm
         /\ r.thq[o] = p.thq[o]

LEMMA AlikeCounted ==
  ASSUME NEW p, NEW q, Alike(p, q), q.stat = p.stat, NEW A
  PROVE  /\ Counted(p, A) => Counted(q, A)
         /\ \A B : Classes(p, A, B) => Classes(q, A, B)
         /\ Conserved(p) => Conserved(q)
         /\ Server(p) <=> Server(q)
         /\ \A T : Acts(p, q, T)
<1>1. Counted(p, A) => Counted(q, A)
  BY DEF Alike, Counted, Lists, Told, Outside
<1>2. \A B : Classes(p, A, B) => Classes(q, A, B)
  BY DEF Alike, Classes
<1>3. Conserved(p) => Conserved(q)
  BY DEF Alike, Conserved, NoServer
<1>4. Server(p) <=> Server(q)
  BY DEF Alike, Server
<1>5. \A T : Acts(p, q, T)
  BY DEF Alike, Acts, Moves, Owned
<1> QED
  BY <1>1, <1>2, <1>3, <1>4, <1>5

LEMMA ActsTransitive ==
  ASSUME NEW p, NEW q, NEW r, NEW T, Acts(p, q, T), Acts(q, r, T)
  PROVE  Acts(p, r, T)
BY DEF Acts, Moves

\* Calling others is no change of theirs.
LEMMA SummonedActs ==
  ASSUME NEW p, NEW q, NEW self, NEW T, Summoned(p, q, self),
         self \in Threads => self \in T
  PROVE  Acts(p, q, T)
<1>1. PICK N \in SUBSET Threads :
        /\ q.unborn = p.unborn \cup N /\ (N # {} => self \in Threads)
        /\ \A t \in Threads : q.thq[t] = IF t = self THEN p.thq[t] \cup N ELSE p.thq[t]
  BY DEF Summoned
<1>2. Owned(p) => Owned(q)
  BY <1>1 DEF Owned
<1>3. \A o \in Threads \ T : q.thq[o] = p.thq[o]
  BY <1>1
<1> QED
  BY <1>2, <1>3 DEF Summoned, Orders, Acts, Moves

\* A thread of the pool that stays awake writes its status.
SetStatus(p, t, s) == [p EXCEPT !.stat[t] = s]

LEMMA SetStatusCounted ==
  ASSUME NEW p, Good(p), NEW A, Counted(p, A), NEW t \in p.ths,
         NEW s \in ThreadStatus \ {"WAIT"}, NEW r, r = SetStatus(p, t, s)
  PROVE  /\ Good(r) /\ Counted(r, A)
         /\ Acts(p, r, {t}) /\ r.stat[t] = s
         /\ Alike(p, r) /\ Orders(p, r)
         /\ \A B : Classes(p, A, B) /\ (t \notin p.rm \/ s # "RUN") => Classes(r, A, B)
<1>1. p \in CoreType /\ t \in Threads
  BY DEF Good, CoreType
<1>2. Alike(p, r)
  BY <1>1 DEF Alike, CoreType, SetStatus
<1>3. Orders(p, r)
  BY <1>1 DEF Orders, CoreType, SetStatus
<1>4. \A o \in Threads : r.stat[o] = IF o = t THEN s ELSE p.stat[o]
  BY <1>1 DEF CoreType, SetStatus
<1>5. Counted(r, A)
  <2>1. \A o \in p.rm : o \in Threads
    BY <1>1 DEF CoreType
  <2>2. Lists(r, A)
    BY <1>2 DEF Counted, Lists, Alike
  <2> QED
    BY <1>2, <1>4, <2>1, <2>2 DEF Counted, Told, Outside, Alike
<1>6. Acts(p, r, {t})
  BY <1>2, <1>4 DEF Alike, Acts, Moves, Owned
<1>7. ASSUME NEW B, Classes(p, A, B), t \notin p.rm \/ s # "RUN"
      PROVE  Classes(r, A, B)
  <2>1. \A o \in p.rm : o \in Threads
    BY <1>1 DEF CoreType
  <2>2. \A o \in r.rm : r.stat[o] \notin {"WAIT", "RUN"}
    BY <1>2, <1>4, <1>7, <2>1 DEF Alike, Classes
  <2> QED
    BY <1>2, <1>7, <2>2 DEF Alike, Classes
<1>8. Good(r)
  BY <1>1, SetStatusKeeps, Zenon DEF Keeps, SetStatus
<1> QED
  BY <1>1, <1>2, <1>3, <1>4, <1>5, <1>6, <1>7, <1>8

\* A thread that goes to run something, and calls others if it is the last one
\* that looks for tasks.
Ran(p, r, t, A) ==
    /\ Good(r) /\ Counted(r, A)
    /\ Acts(p, r, {t}) /\ r.stat[t] = "RUN" /\ Orders(p, r)
    /\ r.rm \subseteq p.rm /\ r.waitq \subseteq p.waitq /\ p.ths \subseteq r.ths
    /\ \A B : Classes(p, A, B) /\ t \notin p.rm \cup B =>
         /\ Classes(r, A, B \cup {t})
         /\ p.real_pool <= r.real_pool
         /\ p.real_pool <= p.maxthreads => r.real_pool <= r.maxthreads
         /\ /\ ~CreateMayFail /\ Dynamic /\ ~p.paused /\ p.npendings # 0
            /\ p.maxthreads <= Cardinality(Threads)
            => Conserved(r)

LEMMA StatusRunCounted ==
  ASSUME NEW p, Good(p), NEW A, Counted(p, A), NEW t \in p.ths \ A,
         NEW r \in StatusRun(p, t)
  PROVE  Ran(p, r, t, A)
<1> DEFINE dead == t \in p.rm
           q == [p EXCEPT !.running = @ + 1,
                          !.dying_run = IF dead THEN @ + 1 ELSE @,
                          !.real_free = IF dead THEN @ ELSE @ - 1]
<1>1. p \in CoreType /\ t \in Threads
  BY DEF Good, CoreType
<1>2. /\ q.ths = p.ths /\ q.rm = p.rm /\ q.waked = p.waked /\ q.waitq = p.waitq
      /\ q.stat = p.stat /\ q.thq = p.thq /\ q.unborn = p.unborn
      /\ q.n_qths = p.n_qths /\ q.n_qths_wait = p.n_qths_wait
      /\ q.n_qths_waked = p.n_qths_waked /\ q.running = p.running + 1
      /\ q.dying = p.dying /\ q.sleeping = p.sleeping
      /\ q.real_pool = p.real_pool
      /\ t \notin p.rm => q.dying_run = p.dying_run /\ q.real_free = p.real_free - 1
  BY <1>1 DEF CoreType
<1>3. Orders(p, q)
  BY <1>1 DEF CoreType, Orders
<1>4. Good(q)
  <2>1. /\ p.running + 1 \in Int
        /\ (IF dead THEN p.dying_run + 1 ELSE p.dying_run) \in Int
        /\ (IF dead THEN p.real_free ELSE p.real_free - 1) \in Int
    BY <1>1 DEF CoreType
  <2>2. q \in CoreType
    BY <1>1, <2>1, Zenon DEF CoreType
  <2>3. /\ q.ref = p.ref /\ q.user_ref = p.user_ref /\ q.status = p.status
        /\ q.release_cleaning = p.release_cleaning /\ q.run = p.run
    BY <1>1 DEF CoreType
  <2> HIDE DEF q
  <2>4. Keeps(p, q)
    BY <1>2, <2>2, <2>3, KeepsSame
  <2> QED
    BY <2>4 DEF Keeps
<1>5. PICK x \in IF NoServer(q) /\ q.npendings # 0 THEN EnsureServices(q, t) ELSE {q} :
        r = SetStatus(x, t, "RUN")
  BY DEF StatusRun, WithStatus, SetStatus
<1> HIDE DEF q
<1>6. Counted(q, A)
  BY <1>2 DEF Counted, Lists, Told, Outside
<1>7. Helps(q, x, t, A)
  BY <1>1, <1>4, <1>5, <1>6, HelpsNothing, EnsureServicesCounted
<1>8. /\ Good(x) /\ Counted(x, A) /\ Summoned(q, x, t)
      /\ x.rm \subseteq p.rm /\ x.waitq \subseteq p.waitq /\ p.ths \subseteq x.ths
  BY <1>2, <1>7 DEF Helps, Summoned
<1>9. "RUN" \in ThreadStatus \ {"WAIT"} /\ t \in x.ths
  BY <1>8 DEF ThreadStatus
<1>10. /\ Good(r) /\ Counted(r, A)
       /\ Acts(x, r, {t}) /\ r.stat[t] = "RUN"
       /\ Alike(x, r) /\ Orders(x, r)
  <2>1. Good(r) /\ Counted(r, A)
    BY <1>5, <1>8, <1>9, SetStatusCounted
  <2>2. Acts(x, r, {t}) /\ r.stat[t] = "RUN"
    BY <1>5, <1>8, <1>9, SetStatusCounted
  <2>3. Alike(x, r) /\ Orders(x, r)
    BY <1>5, <1>8, <1>9, SetStatusCounted
  <2> QED
    BY <2>1, <2>2, <2>3
<1>11. Acts(p, r, {t})
  <2>1. Acts(p, q, {t})
    BY <1>2, <1>3 DEF Acts, Moves, Owned, Orders
  <2>2. Acts(q, x, {t})
    BY <1>8, SummonedActs
  <2> QED
    BY <1>10, <2>1, <2>2, ActsTransitive
<1>12. Orders(p, r)
  BY <1>3, <1>8, <1>10 DEF Orders, Summoned
<1>13. ASSUME NEW B, Classes(p, A, B), t \notin p.rm \cup B
       PROVE  /\ Classes(r, A, B \cup {t})
              /\ p.real_pool <= r.real_pool
              /\ p.real_pool <= p.maxthreads => r.real_pool <= r.maxthreads
              /\ /\ ~CreateMayFail /\ Dynamic /\ ~p.paused /\ p.npendings # 0
                 /\ p.maxthreads <= Cardinality(Threads)
                 => Conserved(r)
  <2>1. Classes(q, A, B \cup {t})
    <3>1. /\ A \subseteq p.ths /\ B \subseteq p.ths /\ A \cap B = {}
          /\ (A \cup B) \cap p.rm = {} /\ p.ths \in SUBSET Threads
      BY <1>1, <1>13 DEF Classes, CoreType
    <3> DEFINE S == p.ths \ (p.rm \cup A \cup B)
    <3>2. /\ S \in SUBSET Threads /\ t \in S /\ B \in SUBSET Threads
          /\ p.ths \ (p.rm \cup A \cup (B \cup {t})) = S \ {t}
      BY <1>13, <3>1
    <3>3. Cardinality(S \ {t}) = Cardinality(S) - 1
      BY <3>2, SizeOfOne
    <3>4. Cardinality(B \cup {t}) = Cardinality(B) + 1
      BY <1>13, <3>2, SizeOfOne
    <3>5. (A \cup (B \cup {t})) \cap p.rm = {} /\ A \cap (B \cup {t}) = {}
      BY <1>13, <3>1
    <3>6. q.real_free = Cardinality(p.ths \ (p.rm \cup A \cup (B \cup {t})))
      BY <1>2, <1>13, <3>2, <3>3 DEF Classes
    <3> HIDE DEF S
    <3> QED
      BY <1>2, <1>13, <3>1, <3>4, <3>5, <3>6 DEF Classes
  <2>2. Classes(x, A, B \cup {t}) /\ q.real_pool <= x.real_pool
    BY <1>7, <2>1 DEF Helps
  <2>3. Classes(r, A, B \cup {t})
    BY <1>5, <1>8, <1>9, <1>13, <2>2, SetStatusCounted
  <2>4. p.real_pool <= p.maxthreads => x.real_pool <= x.maxthreads
    <3>1. q.maxthreads = p.maxthreads /\ q.real_pool = p.real_pool
      BY <1>2, <1>3 DEF Orders
    <3>2. CASE x = q
      BY <3>1, <3>2
    <3>3. CASE x \in EnsureServices(q, t)
      BY <1>1, <1>4, <1>6, <2>1, <3>1, <3>3, EnsureServicesCounted
    <3> QED
      BY <1>5, <3>2, <3>3
  <2>5. ASSUME ~CreateMayFail, Dynamic, ~p.paused, p.npendings # 0,
               p.maxthreads <= Cardinality(Threads)
        PROVE  Conserved(x)
    <3>1. Work(q) /\ q.npendings # 0 /\ q.maxthreads <= Cardinality(Threads)
      BY <1>3, <2>5 DEF Orders, Work
    <3>2. CASE NoServer(q)
      BY <1>1, <1>4, <1>5, <1>6, <2>1, <2>5, <3>1, <3>2, EnsureServicesServes
    <3>3. CASE ~NoServer(q)
      BY <1>5, <3>3 DEF Conserved
    <3> QED
      BY <3>2, <3>3
  <2>6. Conserved(x) => Conserved(r)
    BY <1>10 DEF Alike, Conserved, NoServer
  <2>7. r.real_pool = x.real_pool /\ r.maxthreads = x.maxthreads /\ q.real_pool = p.real_pool
    BY <1>2, <1>10 DEF Alike
  <2> QED
    BY <2>2, <2>3, <2>4, <2>5, <2>6, <2>7
<1>14. r.rm \subseteq p.rm /\ r.waitq \subseteq p.waitq /\ p.ths \subseteq r.ths
  BY <1>8, <1>10 DEF Alike
<1> QED
  BY <1>10, <1>11, <1>12, <1>13, <1>14 DEF Ran

\* A thread that is done is free again.
Completed(p, r, t, A) ==
    /\ Good(r) /\ Counted(r, A)
    /\ Acts(p, r, {t}) /\ r.stat[t] = "COMPLETE" /\ Orders(p, r)
    /\ \A B : Classes(p, A, B) /\ t \in B =>
         /\ Classes(r, A, B \ {t})
         /\ r.real_pool = p.real_pool /\ r.real_free # 0

LEMMA StatusCompleteCounted ==
  ASSUME NEW p, Good(p), NEW A, Counted(p, A), NEW t \in p.ths,
         NEW r, r = StatusComplete(p, t)
  PROVE  Completed(p, r, t, A)
<1>1. p \in CoreType /\ t \in Threads
  BY DEF Good, CoreType
<1>2. /\ r.ths = p.ths /\ r.rm = p.rm /\ r.waked = p.waked /\ r.waitq = p.waitq
      /\ r.thq = p.thq /\ r.unborn = p.unborn
      /\ r.n_qths = p.n_qths /\ r.n_qths_wait = p.n_qths_wait
      /\ r.n_qths_waked = p.n_qths_waked /\ r.running = p.running - 1
      /\ r.dying = p.dying /\ r.sleeping = p.sleeping
      /\ r.real_pool = p.real_pool
      /\ t \notin p.rm => r.dying_run = p.dying_run /\ r.real_free = p.real_free + 1
  BY <1>1 DEF CoreType, StatusComplete
<1>3. Orders(p, r)
  BY <1>1 DEF CoreType, Orders, StatusComplete
<1>4. \A o \in Threads : r.stat[o] = IF o = t THEN "COMPLETE" ELSE p.stat[o]
  BY <1>1 DEF CoreType, StatusComplete
<1>5. \A o \in p.rm : o \in Threads
  BY <1>1 DEF CoreType
<1>6. Good(r)
  BY <1>1, StatusCompleteKeeps, Zenon DEF Keeps
<1>7. Counted(r, A)
  <2>1. Lists(r, A)
    BY <1>2 DEF Counted, Lists
  <2> QED
    BY <1>2, <1>4, <1>5, <2>1 DEF Counted, Told, Outside
<1>8. Acts(p, r, {t})
  BY <1>2, <1>3, <1>4 DEF Acts, Moves, Owned, Orders
<1>9. ASSUME NEW B, Classes(p, A, B), t \in B
      PROVE  /\ Classes(r, A, B \ {t})
             /\ r.real_pool = p.real_pool /\ r.real_free # 0
  <2>1. /\ A \subseteq p.ths /\ B \subseteq p.ths /\ A \cap B = {}
        /\ (A \cup B) \cap p.rm = {} /\ p.ths \in SUBSET Threads
    BY <1>1, <1>9 DEF Classes, CoreType
  <2> DEFINE S == p.ths \ (p.rm \cup A \cup B)
  <2>2. /\ S \in SUBSET Threads /\ t \notin S /\ B \in SUBSET Threads
        /\ p.ths \ (p.rm \cup A \cup (B \ {t})) = S \cup {t}
    BY <1>9, <2>1
  <2>3. Cardinality(S \cup {t}) = Cardinality(S) + 1 /\ Cardinality(S) \in Nat
    BY <1>1, <2>2, SizeOfOne
  <2>4. Cardinality(B \ {t}) = Cardinality(B) - 1
    BY <1>1, <1>9, <2>2, SizeOfOne
  <2>5. (A \cup (B \ {t})) \cap p.rm = {} /\ A \cap (B \ {t}) = {} /\ t \notin p.rm
    BY <1>9, <2>1
  <2>6. /\ r.real_free = Cardinality(p.ths \ (p.rm \cup A \cup (B \ {t})))
        /\ r.real_free # 0
    <3>1. p.real_free = Cardinality(S)
      BY <1>9 DEF Classes
    <3>2. r.real_free = p.real_free + 1
      BY <1>2, <2>5
    <3> HIDE DEF S
    <3>3. Cardinality(p.ths \ (p.rm \cup A \cup (B \ {t}))) = Cardinality(S \cup {t})
      BY <2>2, Zenon
    <3> QED
      BY <2>3, <3>1, <3>2, <3>3
  <2>7. \A o \in r.rm : r.stat[o] \notin {"WAIT", "RUN"}
    BY <1>2, <1>4, <1>5, <1>9, <2>5 DEF Classes
  <2> HIDE DEF S
  <2> QED
    BY <1>2, <1>9, <2>1, <2>4, <2>5, <2>6, <2>7 DEF Classes
<1> QED
  BY <1>1, <1>3, <1>4, <1>6, <1>7, <1>8, <1>9 DEF Completed

\* A thread that goes to sleep can be called.
LEMMA StatusWaitCounted ==
  ASSUME NEW p, Good(p), NEW A, Counted(p, A), NEW t \in p.ths \ (A \cup p.rm),
         NEW r, r = StatusWait(p, t)
  PROVE  /\ Good(r) /\ Counted(r, A \cup {t})
         /\ Acts(p, r, {t}) /\ r.stat[t] = "WAIT" /\ Orders(p, r)
         /\ r.rm = p.rm /\ r.ths = p.ths
         /\ \A B : Classes(p, A, B) /\ t \notin B =>
              Classes(r, A \cup {t}, B) /\ r.real_pool = p.real_pool
<1>1. p \in CoreType /\ t \in Threads
  BY DEF Good, CoreType
<1>2. /\ r.ths = p.ths /\ r.rm = p.rm /\ r.waked = p.waked \ {t}
      /\ r.waitq = p.waitq \cup {t}
      /\ r.thq = p.thq /\ r.unborn = p.unborn
      /\ r.n_qths = p.n_qths /\ r.n_qths_wait = p.n_qths_wait + 1
      /\ r.n_qths_waked = p.n_qths_waked /\ r.running = p.running
      /\ r.dying = p.dying /\ r.dying_run = p.dying_run
      /\ r.real_pool = p.real_pool
      /\ r.sleeping = p.sleeping + 1 /\ r.real_free = p.real_free - 1
  BY <1>1 DEF CoreType, StatusWait
<1>3. Orders(p, r)
  BY <1>1 DEF CoreType, Orders, StatusWait
<1>4. \A o \in Threads : r.stat[o] = IF o = t THEN "WAIT" ELSE p.stat[o]
  BY <1>1 DEF CoreType, StatusWait
<1>5. /\ \A o \in p.rm : o \in Threads /\ o # t
      /\ p.ths \in SUBSET Threads
  BY <1>1 DEF CoreType
<1>6. Good(r)
  BY <1>1, StatusWaitKeeps, Zenon DEF Keeps
<1>7. Counted(r, A \cup {t})
  <2>1. /\ A \subseteq p.ths /\ p.waitq = A \ p.waked /\ p.waitq \in SUBSET Threads
        /\ t \notin p.waitq
    BY <1>1 DEF Counted, Lists, CoreType
  <2>2. Cardinality(p.waitq \cup {t}) = Cardinality(p.waitq) + 1
    BY <1>1, <2>1, SizeOfOne
  <2>3. /\ (A \cup {t}) \ (p.waked \ {t}) = p.waitq \cup {t}
        /\ (A \cup {t}) \cap (p.waked \ {t}) = A \cap p.waked
        /\ A \cup {t} \subseteq p.ths
    BY <2>1
  <2>4. Lists(r, A \cup {t})
    BY <1>2, <2>2, <2>3 DEF Counted, Lists
  <2> QED
    BY <1>2, <1>4, <1>5, <2>4 DEF Counted, Told, Outside
<1>8. Acts(p, r, {t})
  BY <1>2, <1>3, <1>4 DEF Acts, Moves, Owned, Orders
<1>9. ASSUME NEW B, Classes(p, A, B), t \notin B
      PROVE  Classes(r, A \cup {t}, B) /\ r.real_pool = p.real_pool
  <2>1. /\ A \subseteq p.ths /\ B \subseteq p.ths /\ A \cap B = {}
        /\ (A \cup B) \cap p.rm = {}
    BY <1>9 DEF Classes
  <2> DEFINE S == p.ths \ (p.rm \cup A \cup B)
  <2>2. /\ S \in SUBSET Threads /\ t \in S /\ A \in SUBSET Threads
        /\ p.ths \ (p.rm \cup (A \cup {t}) \cup B) = S \ {t}
    BY <1>5, <1>9, <2>1
  <2>3. Cardinality(S \ {t}) = Cardinality(S) - 1
    BY <1>1, <2>2, SizeOfOne
  <2>4. Cardinality(A \cup {t}) = Cardinality(A) + 1
    BY <1>1, <2>2, SizeOfOne
  <2>5. ((A \cup {t}) \cup B) \cap p.rm = {} /\ (A \cup {t}) \cap B = {}
    BY <1>9, <2>1
  <2>6. r.real_free = Cardinality(p.ths \ (p.rm \cup (A \cup {t}) \cup B))
    BY <1>2, <1>9, <2>2, <2>3 DEF Classes
  <2>7. \A o \in r.rm : r.stat[o] \notin {"WAIT", "RUN"}
    BY <1>2, <1>4, <1>5, <1>9 DEF Classes
  <2> HIDE DEF S
  <2> QED
    BY <1>2, <1>9, <2>1, <2>4, <2>5, <2>6, <2>7 DEF Classes
<1> QED
  BY <1>1, <1>2, <1>3, <1>4, <1>6, <1>7, <1>8, <1>9

\* A thread that gives up is a marked one.
LEMMA StatusForceQuitCounted ==
  ASSUME NEW p, Good(p), NEW A, Counted(p, A), NEW t \in p.ths \ A,
         NEW r, r = StatusForceQuit(p, t)
  PROVE  /\ Good(r) /\ Counted(r, A)
         /\ Acts(p, r, {t}) /\ r.stat[t] = "FORCE_QUIT" /\ Orders(p, r)
         /\ \A B : Classes(p, A, B) /\ t \notin B \cup p.rm =>
              Classes(r, A, B) /\ r.real_pool <= p.real_pool
<1>1. p \in CoreType /\ t \in Threads
  BY DEF Good, CoreType
<1>2. /\ r.ths = p.ths /\ r.rm = p.rm \cup {t} /\ r.waked = p.waked
      /\ r.waitq = p.waitq
      /\ r.thq = p.thq /\ r.unborn = p.unborn
      /\ r.n_qths = p.n_qths /\ r.n_qths_wait = p.n_qths_wait
      /\ r.n_qths_waked = p.n_qths_waked /\ r.running = p.running
      /\ r.dying_run = p.dying_run /\ r.sleeping = p.sleeping
      /\ t \notin p.rm => /\ r.dying = p.dying + 1
                          /\ r.real_pool = p.real_pool - 1
                          /\ r.real_free = p.real_free - 1
  BY <1>1 DEF CoreType, StatusForceQuit
<1>3. Orders(p, r)
  BY <1>1 DEF CoreType, Orders, StatusForceQuit
<1>4. \A o \in Threads : r.stat[o] = IF o = t THEN "FORCE_QUIT" ELSE p.stat[o]
  BY <1>1 DEF CoreType, StatusForceQuit
<1>5. /\ \A o \in p.rm : o \in Threads
      /\ p.ths \in SUBSET Threads /\ p.rm \in SUBSET Threads
  BY <1>1 DEF CoreType
<1>6. Good(r)
  BY StatusForceQuitKeeps, Zenon DEF Keeps
<1>7. Counted(r, A)
  <2>1. Lists(r, A)
    BY <1>2 DEF Counted, Lists
  <2> QED
    BY <1>1, <1>2, <1>4, <1>5, <2>1 DEF Counted, Told, Outside
<1>8. Acts(p, r, {t})
  BY <1>2, <1>3, <1>4 DEF Acts, Moves, Owned, Orders
<1>9. ASSUME NEW B, Classes(p, A, B), t \notin B \cup p.rm
      PROVE  Classes(r, A, B) /\ r.real_pool <= p.real_pool
  <2>1. /\ A \subseteq p.ths /\ B \subseteq p.ths /\ A \cap B = {}
        /\ (A \cup B) \cap p.rm = {}
    BY <1>9 DEF Classes
  <2> DEFINE S == p.ths \ (p.rm \cup A \cup B)
  <2>2. /\ S \in SUBSET Threads /\ t \in S
        /\ p.ths \ p.rm \in SUBSET Threads /\ t \in p.ths \ p.rm
        /\ p.ths \ ((p.rm \cup {t}) \cup A \cup B) = S \ {t}
        /\ p.ths \ (p.rm \cup {t}) = (p.ths \ p.rm) \ {t}
    BY <1>5, <1>9, <2>1
  <2>3. /\ Cardinality(S \ {t}) = Cardinality(S) - 1
        /\ Cardinality((p.ths \ p.rm) \ {t}) = Cardinality(p.ths \ p.rm) - 1
        /\ Cardinality(p.rm \cup {t}) = Cardinality(p.rm) + 1
        /\ Cardinality(p.ths \ p.rm) \in Nat
    BY <1>1, <1>5, <1>9, <2>2, SizeOfOne
  <2>4. (A \cup B) \cap (p.rm \cup {t}) = {}
    BY <1>9, <2>1
  <2>5. /\ r.real_free = Cardinality(p.ths \ ((p.rm \cup {t}) \cup A \cup B))
        /\ r.real_pool = Cardinality(p.ths \ (p.rm \cup {t}))
        /\ r.dying = Cardinality(p.rm \cup {t})
        /\ r.real_pool <= p.real_pool
    <3>1. /\ p.real_free = Cardinality(S) /\ p.dying = Cardinality(p.rm)
          /\ p.real_pool = Cardinality(p.ths \ p.rm)
      BY <1>9 DEF Classes
    <3>2. /\ r.dying = p.dying + 1 /\ r.real_pool = p.real_pool - 1
          /\ r.real_free = p.real_free - 1
      BY <1>2, <1>9
    <3> HIDE DEF S
    <3>3. /\ Cardinality(p.ths \ ((p.rm \cup {t}) \cup A \cup B)) = Cardinality(S \ {t})
          /\ Cardinality(p.ths \ (p.rm \cup {t})) = Cardinality((p.ths \ p.rm) \ {t})
      BY <2>2, Zenon
    <3> QED
      BY <2>3, <3>1, <3>2, <3>3
  <2>6. \A o \in r.rm : r.stat[o] \notin {"WAIT", "RUN"}
    BY <1>1, <1>2, <1>4, <1>5, <1>9 DEF Classes
  <2> HIDE DEF S
  <2> QED
    BY <1>2, <1>9, <2>1, <2>4, <2>5, <2>6 DEF Classes
<1> QED
  BY <1>1, <1>2, <1>3, <1>4, <1>6, <1>7, <1>8, <1>9

-----------------------------------------------------------------------------

\* A sleeper that goes on, signalled or not, is taken off the books of the
\* sleepers: off the queue if it is still there, off the signalled ones if not.
Unlisted(p, t) ==
    [Dequeued(p, t) EXCEPT !.n_qths_waked = IF t \in p.waked THEN @ - 1 ELSE @]

\* Nobody is marked, put to sleep or made to leave.
Stays(p, r) ==
    r.ths = p.ths /\ r.rm = p.rm /\ r.waitq \subseteq p.waitq /\ r.thq = p.thq

LEMMA UnlistedCounted ==
  ASSUME NEW p, Good(p), NEW A, Counted(p, A), NEW t \in A,
         NEW w, w = Unlisted(p, t)
  PROVE  /\ Good(w) /\ Counted(w, A \ {t})
         /\ Acts(p, w, {t}) /\ Orders(p, w) /\ Stays(p, w)
         /\ \A B : Classes(p, A, B) => Classes(w, A, B) /\ w.real_pool = p.real_pool
<1>1. p \in CoreType /\ t \in Threads /\ t \in p.ths
  BY DEF Good, CoreType, Counted, Lists
<1>2. /\ w.ths = p.ths /\ w.rm = p.rm /\ w.waked = p.waked
      /\ w.stat = p.stat /\ w.thq = p.thq /\ w.unborn = p.unborn
      /\ w.n_qths = p.n_qths /\ w.running = p.running
      /\ w.dying = p.dying /\ w.dying_run = p.dying_run
      /\ w.real_pool = p.real_pool
      /\ w.sleeping = p.sleeping /\ w.real_free = p.real_free
  BY <1>1 DEF CoreType, Unlisted, Dequeued
<1>3. /\ t \in p.waked => /\ w.waitq = p.waitq /\ w.n_qths_wait = p.n_qths_wait
                          /\ w.n_qths_waked = p.n_qths_waked - 1
      /\ t \notin p.waked => /\ w.waitq = p.waitq \ {t}
                             /\ w.n_qths_wait = p.n_qths_wait - 1
                             /\ w.n_qths_waked = p.n_qths_waked
  BY <1>1 DEF CoreType, Unlisted, Dequeued
<1>4. Orders(p, w)
  BY <1>1 DEF CoreType, Unlisted, Dequeued, Orders
<1>5. /\ w.ref = p.ref /\ w.user_ref = p.user_ref /\ w.status = p.status
      /\ w.release_cleaning = p.release_cleaning /\ w.run = p.run
  BY <1>1 DEF CoreType, Unlisted, Dequeued
<1>6. w \in CoreType
  <2>1. CASE t \in p.waked
    <3>1. p.n_qths_waked - 1 \in Int
      BY <1>1 DEF CoreType
    <3>2. w = [p EXCEPT !.n_qths_waked = p.n_qths_waked - 1]
      BY <1>1, <2>1, Zenon DEF Unlisted, Dequeued
    <3> QED
      BY <1>1, <3>1, <3>2, Zenon DEF CoreType
  <2>2. CASE t \notin p.waked
    <3>1. p.n_qths_wait - 1 \in Int /\ p.waitq \ {t} \in SUBSET Threads
      BY <1>1 DEF CoreType
    <3> DEFINE d == [p EXCEPT !.waitq = @ \ {t}, !.n_qths_wait = @ - 1]
    <3>2. d \in CoreType
      BY <1>1, <3>1, Zenon DEF CoreType
    <3>3. w = [d EXCEPT !.n_qths_waked = d.n_qths_waked]
      BY <2>2, Zenon DEF Unlisted, Dequeued
    <3>4. d.n_qths_waked \in Int
      BY <3>2 DEF CoreType
    <3> HIDE DEF d
    <3> QED
      BY <3>2, <3>3, <3>4, Zenon DEF CoreType
  <2> QED
    BY <2>1, <2>2
<1>7. Good(w)
  <2>1. Keeps(p, w)
    BY <1>2, <1>5, <1>6, KeepsSame
  <2> QED
    BY <2>1 DEF Keeps
<1>8. Counted(w, A \ {t})
  <2>1. /\ A \subseteq p.ths /\ p.waitq = A \ p.waked
        /\ p.waitq \in SUBSET Threads /\ A \cap p.waked \in SUBSET Threads
        /\ p.n_qths_wait = Cardinality(p.waitq)
        /\ p.n_qths_waked = Cardinality(A \cap p.waked)
        /\ p.n_qths = Cardinality(p.ths)
    BY <1>1 DEF Counted, Lists, CoreType
  <2>2. CASE t \in p.waked
    <3>1. (A \ {t}) \ p.waked = p.waitq /\ (A \ {t}) \cap p.waked = (A \cap p.waked) \ {t}
      BY <2>1, <2>2
    <3>2. Cardinality((A \cap p.waked) \ {t}) = Cardinality(A \cap p.waked) - 1
      BY <1>1, <2>1, <2>2, SizeOfOne
    <3>3. Lists(w, A \ {t})
      BY <1>2, <1>3, <2>1, <2>2, <3>1, <3>2 DEF Lists
    <3> QED
      BY <1>2, <3>3 DEF Counted, Told, Outside
  <2>3. CASE t \notin p.waked
    <3>1. (A \ {t}) \ p.waked = p.waitq \ {t} /\ (A \ {t}) \cap p.waked = A \cap p.waked
      BY <2>1, <2>3
    <3>2. Cardinality(p.waitq \ {t}) = Cardinality(p.waitq) - 1
      BY <1>1, <2>1, <2>3, SizeOfOne
    <3>3. Lists(w, A \ {t})
      BY <1>2, <1>3, <2>1, <2>3, <3>1, <3>2 DEF Lists
    <3> QED
      BY <1>2, <3>3 DEF Counted, Told, Outside
  <2> QED
    BY <2>2, <2>3
<1>9. Acts(p, w, {t})
  BY <1>2, <1>4 DEF Acts, Moves, Owned, Orders
<1>10. \A B : Classes(p, A, B) => Classes(w, A, B) /\ w.real_pool = p.real_pool
  BY <1>2 DEF Classes
<1>11. w.waitq \subseteq p.waitq
  BY <1>3
<1> QED
  BY <1>2, <1>4, <1>7, <1>8, <1>9, <1>10, <1>11 DEF Stays

\* What LeaveWait makes of a thread that does not retire: a free one, or a
\* marked one that calls others to the tasks it leaves.
MayBecome(w, t, x) ==
    \/ t \in w.rm /\ (x = w \/ x \in EnsureServices(w, t))
    \/ t \notin w.rm /\ x = [w EXCEPT !.sleeping = @ - 1,
                                      !.run = IF t \in w.rm THEN @ \ {t} ELSE @,
                                      !.real_free = IF t \in w.rm THEN @ ELSE @ + 1]

\* t, with status s, is no sleeper any more, and what A and B were is kept up.
WentOn(w, r, t, s, A) ==
    /\ Good(r) /\ Counted(r, A \ {t})
    /\ Acts(w, r, {t}) /\ r.stat[t] = s /\ Orders(w, r)
    /\ t \notin w.rm => Stays(w, r)
    /\ \A B : Classes(w, A, B) =>
         /\ Classes(r, A \ {t}, B)
         /\ r.real_pool = w.real_pool /\ r.real_free # 0

LEMMA WokenCounted ==
  ASSUME NEW w, Good(w), NEW A, NEW t \in A, Counted(w, A \ {t}), A \subseteq w.ths,
         NEW x, MayBecome(w, t, x),
         NEW s \in ThreadStatus \ {"WAIT", "RUN"}, NEW r, r = SetStatus(x, t, s)
  PROVE  WentOn(w, r, t, s, A)
<1>1. w \in CoreType /\ t \in Threads /\ t \in w.ths
  BY DEF Good, CoreType
<1>2. /\ Good(x) /\ Counted(x, A \ {t}) /\ Acts(w, x, {t}) /\ Orders(w, x) /\ t \in x.ths
      /\ t \notin w.rm => x.rm = w.rm /\ x.waitq = w.waitq /\ x.ths = w.ths /\ x.thq = w.thq
      /\ \A B : Classes(w, A, B) =>
           /\ Classes(x, A \ {t}, B)
           /\ x.real_pool = w.real_pool /\ x.real_free # 0
  <2>1. CASE t \in w.rm
    <3>1. Helps(w, x, t, A \ {t})
      BY <1>1, <2>1, HelpsNothing, EnsureServicesCounted DEF MayBecome
    <3>2. /\ Good(x) /\ Counted(x, A \ {t}) /\ Summoned(w, x, t)
          /\ Orders(w, x) /\ t \in x.ths
      BY <1>1, <3>1 DEF Helps, Summoned
    <3>3. Acts(w, x, {t})
      BY <3>2, SummonedActs
    <3>4. \A B : ~Classes(w, A, B)
      BY <2>1 DEF Classes
    <3> QED
      BY <2>1, <3>2, <3>3, <3>4
  <2>2. CASE t \notin w.rm
    <3>1. x = [w EXCEPT !.sleeping = @ - 1,
                        !.run = IF t \in w.rm THEN @ \ {t} ELSE @,
                        !.real_free = IF t \in w.rm THEN @ ELSE @ + 1]
      BY <2>2 DEF MayBecome
    <3>2. /\ x.ths = w.ths /\ x.rm = w.rm /\ x.waked = w.waked /\ x.waitq = w.waitq
          /\ x.stat = w.stat /\ x.thq = w.thq /\ x.unborn = w.unborn
          /\ x.n_qths = w.n_qths /\ x.running = w.running
          /\ x.n_qths_wait = w.n_qths_wait /\ x.n_qths_waked = w.n_qths_waked
          /\ x.dying = w.dying /\ x.dying_run = w.dying_run
          /\ x.real_pool = w.real_pool
          /\ x.sleeping = w.sleeping - 1 /\ x.real_free = w.real_free + 1
      BY <1>1, <2>2, <3>1 DEF CoreType
    <3>3. /\ x.ref = w.ref /\ x.user_ref = w.user_ref /\ x.status = w.status
          /\ x.release_cleaning = w.release_cleaning /\ x.run = w.run
      BY <1>1, <2>2, <3>1 DEF CoreType
    <3>4. Orders(w, x)
      BY <1>1, <2>2, <3>1 DEF CoreType, Orders
    <3>5. x \in CoreType
      <4>1. /\ w.sleeping - 1 \in Int
            /\ (IF t \in w.rm THEN w.run \ {t} ELSE w.run) \in SUBSET Threads
            /\ (IF t \in w.rm THEN w.real_free ELSE w.real_free + 1) \in Int
        BY <1>1 DEF CoreType
      <4> QED
        BY <1>1, <3>1, <4>1, Zenon DEF CoreType
    <3>6. Good(x)
      <4>1. Keeps(w, x)
        BY <3>2, <3>3, <3>5, KeepsSame
      <4> QED
        BY <4>1 DEF Keeps
    <3>7. Counted(x, A \ {t})
      BY <3>2 DEF Counted, Lists, Told, Outside
    <3>8. Acts(w, x, {t})
      BY <3>2, <3>4 DEF Acts, Moves, Owned, Orders
    <3>9. ASSUME NEW B, Classes(w, A, B)
          PROVE  Classes(x, A \ {t}, B) /\ x.real_free # 0
      <4>1. /\ B \subseteq w.ths /\ A \cap B = {}
            /\ (A \cup B) \cap w.rm = {} /\ w.ths \in SUBSET Threads
        BY <1>1, <3>9 DEF Classes, CoreType
      <4> DEFINE S == w.ths \ (w.rm \cup A \cup B)
      <4>2. /\ S \in SUBSET Threads /\ t \notin S /\ A \in SUBSET Threads
            /\ w.ths \ (w.rm \cup (A \ {t}) \cup B) = S \cup {t}
        BY <1>1, <4>1
      <4>3. /\ Cardinality(S \cup {t}) = Cardinality(S) + 1 /\ Cardinality(S) \in Nat
            /\ Cardinality(A \ {t}) = Cardinality(A) - 1
        BY <1>1, <4>2, SizeOfOne
      <4>4. w.real_free = Cardinality(S)
        BY <3>9 DEF Classes
      <4>5. ((A \ {t}) \cup B) \cap w.rm = {} /\ (A \ {t}) \cap B = {}
        BY <4>1
      <4> HIDE DEF S
      <4>6. Cardinality(w.ths \ (w.rm \cup (A \ {t}) \cup B)) = Cardinality(S \cup {t})
        BY <4>2, Zenon
      <4>7. /\ x.real_free = Cardinality(w.ths \ (w.rm \cup (A \ {t}) \cup B))
            /\ x.real_free # 0
        BY <3>2, <4>3, <4>4, <4>6
      <4> QED
        BY <3>2, <3>9, <4>1, <4>3, <4>5, <4>7 DEF Classes
    <3> QED
      BY <1>1, <2>2, <3>2, <3>4, <3>6, <3>7, <3>8, <3>9
  <2> QED
    BY <2>1, <2>2
<1>3. s \in ThreadStatus \ {"WAIT"} /\ s # "RUN"
  OBVIOUS
<1>4. Good(r) /\ Counted(r, A \ {t})
  BY <1>2, <1>3, SetStatusCounted
<1>5. Acts(x, r, {t}) /\ r.stat[t] = s
  <2>1. Acts(x, r, {t})
    BY <1>2, <1>3, SetStatusCounted
  <2>2. x \in CoreType
    BY <1>2 DEF Good
  <2>3. r.stat[t] = s
    BY <1>1, <2>2 DEF SetStatus, CoreType
  <2> QED
    BY <2>1, <2>3
<1>6. Alike(x, r) /\ Orders(x, r)
  BY <1>2, <1>3, SetStatusCounted
<1>7. \A B : Classes(x, A \ {t}, B) => Classes(r, A \ {t}, B)
  BY <1>2, <1>3, SetStatusCounted
<1>8. Acts(w, r, {t})
  BY <1>2, <1>5, ActsTransitive
<1>9. Orders(w, r)
  BY <1>2, <1>6 DEF Orders
<1> QED
  BY <1>2, <1>4, <1>5, <1>6, <1>7, <1>8, <1>9 DEF Alike, WentOn, Stays

\* A sleeper that goes on and does not retire.
LEMMA GoesOnCounted ==
  ASSUME NEW p, Good(p), NEW A, Counted(p, A), NEW t \in A,
         NEW s \in ThreadStatus \ {"WAIT", "RUN"},
         NEW r \in WithStatus(LeaveWait(Dequeued(p, t), t), t, s)
  PROVE  WentOn(p, r, t, s, A)
<1> DEFINE w == Unlisted(p, t)
<1>1. p \in CoreType /\ t \in Threads /\ t \in p.ths /\ A \subseteq p.ths
  BY DEF Good, CoreType, Counted, Lists
<1>2. Good(w) /\ Counted(w, A \ {t}) /\ Acts(p, w, {t}) /\ Orders(p, w)
  BY UnlistedCounted
<1>3. Stays(p, w)
  BY UnlistedCounted
<1>4. \A B : Classes(p, A, B) => Classes(w, A, B) /\ w.real_pool = p.real_pool
  BY UnlistedCounted
<1>5. PICK x \in LeaveWait(Dequeued(p, t), t) : r = SetStatus(x, t, s)
  BY DEF WithStatus, SetStatus
<1>6. Dequeued(p, t).waked = p.waked
  BY <1>1 DEF Dequeued, CoreType
<1>7. x \in IF t \in w.rm /\ t \notin w.run
            THEN IF NoServer(w) /\ w.npendings # 0 THEN EnsureServices(w, t) ELSE {w}
            ELSE { [w EXCEPT !.sleeping = @ - 1,
                             !.run = IF t \in w.rm THEN @ \ {t} ELSE @,
                             !.real_free = IF t \in w.rm THEN @ ELSE @ + 1] }
  BY <1>5, <1>6, Zenon DEF LeaveWait, Unlisted
<1> HIDE DEF w
<1>8. t \in w.rm => t \notin w.run
  BY <1>2 DEF Good, Sound
<1>9. MayBecome(w, t, x)
  <2>1. CASE t \in w.rm
    BY <1>7, <1>8, <2>1, Zenon DEF MayBecome
  <2>2. CASE t \notin w.rm
    BY <1>7, <2>2, Zenon DEF MayBecome
  <2> QED
    BY <2>1, <2>2
<1>10. A \subseteq w.ths
  BY <1>1, <1>3 DEF Stays
<1>11. WentOn(w, r, t, s, A)
  BY <1>2, <1>5, <1>9, <1>10, WokenCounted
<1>12. Acts(p, r, {t})
  BY <1>2, <1>11, ActsTransitive DEF WentOn
<1>13. Orders(p, r)
  BY <1>2, <1>11 DEF Orders, WentOn
<1> QED
  BY <1>3, <1>4, <1>11, <1>12, <1>13 DEF WentOn, Stays

\* A sleeper that retires.
LEMMA RetiresCounted ==
  ASSUME NEW p, Good(p), NEW A, Counted(p, A), NEW t \in A, t \notin p.rm,
         MayRetire(p, t), NEW r \in StatusTimedOut(p, t, TRUE)
  PROVE  /\ Good(r) /\ Counted(r, A \ {t})
         /\ Acts(p, r, {t}) /\ r.stat[t] = "TIMEDOUT" /\ Orders(p, r) /\ r.thq = p.thq
         /\ \A B : Classes(p, A, B) =>
              Classes(r, A \ {t}, B) /\ r.real_pool = p.real_pool - 1
<1> DEFINE q == [p EXCEPT !.rm = @ \cup {t}, !.dying = @ + 1, !.real_pool = @ - 1]
           d == Dequeued(q, t)
           w == [d EXCEPT !.n_qths_waked = IF t \in d.waked THEN @ - 1 ELSE @]
           x == [w EXCEPT !.sleeping = @ - 1,
                          !.run = IF t \in w.rm THEN @ \ {t} ELSE @,
                          !.real_free = IF t \in w.rm THEN @ ELSE @ + 1]
<1>1. p \in CoreType /\ t \in Threads /\ t \in p.ths /\ A \subseteq p.ths /\ t \in p.run
  BY DEF Good, Sound, CoreType, Counted, Lists
<1>2. /\ q.ths = p.ths /\ q.rm = p.rm \cup {t} /\ q.waked = p.waked
      /\ q.waitq = p.waitq /\ q.stat = p.stat /\ q.thq = p.thq /\ q.unborn = p.unborn
      /\ q.n_qths = p.n_qths /\ q.running = p.running
      /\ q.n_qths_wait = p.n_qths_wait /\ q.n_qths_waked = p.n_qths_waked
      /\ q.dying = p.dying + 1 /\ q.dying_run = p.dying_run
      /\ q.real_pool = p.real_pool - 1 /\ q.run = p.run
      /\ q.sleeping = p.sleeping /\ q.real_free = p.real_free /\ Orders(p, q)
  BY <1>1 DEF CoreType, Orders
<1>3. DOMAIN q = DOMAIN p
  BY DEF CoreType
<1> HIDE DEF q
<1>4. /\ d.ths = p.ths /\ d.rm = p.rm \cup {t} /\ d.waked = p.waked
      /\ d.stat = p.stat /\ d.thq = p.thq /\ d.unborn = p.unborn
      /\ d.n_qths = p.n_qths /\ d.running = p.running
      /\ d.n_qths_waked = p.n_qths_waked
      /\ d.dying = p.dying + 1 /\ d.dying_run = p.dying_run
      /\ d.real_pool = p.real_pool - 1 /\ d.run = p.run
      /\ d.sleeping = p.sleeping /\ d.real_free = p.real_free /\ Orders(p, d)
      /\ t \in p.waked => d.waitq = p.waitq /\ d.n_qths_wait = p.n_qths_wait
      /\ t \notin p.waked => d.waitq = p.waitq \ {t} /\ d.n_qths_wait = p.n_qths_wait - 1
      /\ DOMAIN d = DOMAIN p
  BY <1>1, <1>2, <1>3 DEF Dequeued, CoreType, Orders
<1> HIDE DEF d
<1>5. /\ w.ths = p.ths /\ w.rm = p.rm \cup {t} /\ w.waked = p.waked
      /\ w.stat = p.stat /\ w.thq = p.thq /\ w.unborn = p.unborn
      /\ w.n_qths = p.n_qths /\ w.running = p.running
      /\ w.dying = p.dying + 1 /\ w.dying_run = p.dying_run
      /\ w.real_pool = p.real_pool - 1 /\ w.run = p.run
      /\ w.sleeping = p.sleeping /\ w.real_free = p.real_free /\ Orders(p, w)
      /\ t \in p.waked => /\ w.waitq = p.waitq /\ w.n_qths_wait = p.n_qths_wait
                          /\ w.n_qths_waked = p.n_qths_waked - 1
      /\ t \notin p.waked => /\ w.waitq = p.waitq \ {t}
                             /\ w.n_qths_wait = p.n_qths_wait - 1
                             /\ w.n_qths_waked = p.n_qths_waked
      /\ DOMAIN w = DOMAIN p
  BY <1>1, <1>4 DEF CoreType, Orders
<1>6. LeaveWait(d, t) = {x}
  <2>1. t \in w.rm /\ t \in w.run
    BY <1>1, <1>5
  <2> QED
    BY <2>1, Zenon DEF LeaveWait
<1> HIDE DEF w
<1>7. /\ x.ths = p.ths /\ x.rm = p.rm \cup {t} /\ x.waked = p.waked
      /\ x.stat = p.stat /\ x.thq = p.thq /\ x.unborn = p.unborn
      /\ x.n_qths = p.n_qths /\ x.running = p.running
      /\ x.dying = p.dying + 1 /\ x.dying_run = p.dying_run
      /\ x.real_pool = p.real_pool - 1
      /\ x.sleeping = p.sleeping - 1 /\ x.real_free = p.real_free /\ Orders(p, x)
      /\ t \in p.waked => /\ x.waitq = p.waitq /\ x.n_qths_wait = p.n_qths_wait
                          /\ x.n_qths_waked = p.n_qths_waked - 1
      /\ t \notin p.waked => /\ x.waitq = p.waitq \ {t}
                             /\ x.n_qths_wait = p.n_qths_wait - 1
                             /\ x.n_qths_waked = p.n_qths_waked
      /\ DOMAIN x = DOMAIN p
  BY <1>1, <1>5 DEF CoreType, Orders
<1>8. r = SetStatus(x, t, "TIMEDOUT")
  <2>1. StatusTimedOut(p, t, TRUE) = WithStatus(LeaveWait(d, t), t, "TIMEDOUT")
    BY Zenon DEF StatusTimedOut, d, q
  <2>2. r \in WithStatus({x}, t, "TIMEDOUT")
    BY <1>6, <2>1
  <2> HIDE DEF x
  <2> QED
    BY <2>2 DEF WithStatus, SetStatus
<1> HIDE DEF x
<1>9. /\ r.ths = x.ths /\ r.rm = x.rm /\ r.waked = x.waked
      /\ r.thq = x.thq /\ r.unborn = x.unborn
      /\ r.n_qths = x.n_qths /\ r.running = x.running
      /\ r.dying = x.dying /\ r.dying_run = x.dying_run
      /\ r.real_pool = x.real_pool
      /\ r.sleeping = x.sleeping /\ r.real_free = x.real_free /\ Orders(x, r)
      /\ r.waitq = x.waitq /\ r.n_qths_wait = x.n_qths_wait
      /\ r.n_qths_waked = x.n_qths_waked
      /\ \A o \in Threads : r.stat[o] = IF o = t THEN "TIMEDOUT" ELSE p.stat[o]
  BY <1>1, <1>7, <1>8 DEF CoreType, Orders, SetStatus
<1>10. Orders(p, r)
  BY <1>7, <1>9 DEF Orders
<1>11. /\ A \subseteq p.ths /\ p.waitq = A \ p.waked /\ p.rm \in SUBSET Threads
       /\ p.waitq \in SUBSET Threads /\ A \cap p.waked \in SUBSET Threads
       /\ p.n_qths_wait = Cardinality(p.waitq)
       /\ p.n_qths_waked = Cardinality(A \cap p.waked)
       /\ p.n_qths = Cardinality(p.ths) /\ p.ths \in SUBSET Threads
  BY <1>1 DEF Counted, Lists, CoreType
<1>12. Lists(r, A \ {t})
  <2>1. CASE t \in p.waked
    <3>1. (A \ {t}) \ p.waked = p.waitq /\ (A \ {t}) \cap p.waked = (A \cap p.waked) \ {t}
      BY <1>11, <2>1
    <3>2. Cardinality((A \cap p.waked) \ {t}) = Cardinality(A \cap p.waked) - 1
      BY <1>1, <1>11, <2>1, SizeOfOne
    <3>3. /\ r.waitq = p.waitq /\ r.n_qths_wait = p.n_qths_wait
          /\ r.n_qths_waked = p.n_qths_waked - 1
          /\ r.n_qths = p.n_qths /\ r.ths = p.ths /\ r.waked = p.waked
      BY <1>7, <1>9, <2>1
    <3>4. /\ r.waitq = (A \ {t}) \ r.waked /\ A \ {t} \subseteq r.ths
          /\ r.n_qths = Cardinality(r.ths)
      BY <1>11, <3>1, <3>3
    <3>5. /\ r.n_qths_wait = Cardinality(r.waitq)
          /\ r.n_qths_waked = Cardinality((A \ {t}) \cap r.waked)
      BY <1>11, <3>1, <3>2, <3>3
    <3> QED
      BY <3>4, <3>5 DEF Lists
  <2>2. CASE t \notin p.waked
    <3>1. (A \ {t}) \ p.waked = p.waitq \ {t} /\ (A \ {t}) \cap p.waked = A \cap p.waked
      BY <1>11, <2>2
    <3>2. Cardinality(p.waitq \ {t}) = Cardinality(p.waitq) - 1
      BY <1>1, <1>11, <2>2, SizeOfOne
    <3>3. /\ r.waitq = p.waitq \ {t} /\ r.n_qths_wait = p.n_qths_wait - 1
          /\ r.n_qths_waked = p.n_qths_waked
          /\ r.n_qths = p.n_qths /\ r.ths = p.ths /\ r.waked = p.waked
      BY <1>7, <1>9, <2>2
    <3>4. /\ r.waitq = (A \ {t}) \ r.waked /\ A \ {t} \subseteq r.ths
          /\ r.n_qths = Cardinality(r.ths)
      BY <1>11, <3>1, <3>3
    <3>5. /\ r.n_qths_wait = Cardinality(r.waitq)
          /\ r.n_qths_waked = Cardinality((A \ {t}) \cap r.waked)
      BY <1>11, <3>1, <3>2, <3>3
    <3> QED
      BY <3>4, <3>5 DEF Lists
  <2> QED
    BY <2>1, <2>2
<1>13. Counted(r, A \ {t})
  BY <1>1, <1>7, <1>9, <1>11, <1>12 DEF Counted, Told, Outside
<1>14. Acts(p, r, {t})
  BY <1>7, <1>9, <1>10 DEF Acts, Moves, Owned, Orders
<1>15. ASSUME NEW B, Classes(p, A, B)
       PROVE  Classes(r, A \ {t}, B) /\ r.real_pool = p.real_pool - 1
  <2>1. /\ B \subseteq p.ths /\ A \cap B = {} /\ (A \cup B) \cap p.rm = {}
    BY <1>15 DEF Classes
  <2>2. /\ p.ths \ ((p.rm \cup {t}) \cup (A \ {t}) \cup B) = p.ths \ (p.rm \cup A \cup B)
        /\ p.ths \ (p.rm \cup {t}) = (p.ths \ p.rm) \ {t}
        /\ p.ths \ p.rm \in SUBSET Threads /\ t \in p.ths \ p.rm /\ A \in SUBSET Threads
    BY <1>1, <1>11
  <2>3. /\ Cardinality((p.ths \ p.rm) \ {t}) = Cardinality(p.ths \ p.rm) - 1
        /\ Cardinality(p.rm \cup {t}) = Cardinality(p.rm) + 1
        /\ Cardinality(A \ {t}) = Cardinality(A) - 1
    BY <1>1, <1>11, <2>2, SizeOfOne
  <2>4. /\ p.real_free = Cardinality(p.ths \ (p.rm \cup A \cup B))
        /\ p.dying = Cardinality(p.rm) /\ p.sleeping = Cardinality(A)
        /\ p.real_pool = Cardinality(p.ths \ p.rm)
    BY <1>15 DEF Classes
  <2>5. /\ r.real_free = Cardinality(p.ths \ ((p.rm \cup {t}) \cup (A \ {t}) \cup B))
        /\ r.dying = Cardinality(p.rm \cup {t}) /\ r.sleeping = Cardinality(A \ {t})
        /\ r.real_pool = Cardinality(p.ths \ (p.rm \cup {t}))
    <3>1. /\ Cardinality(p.ths \ ((p.rm \cup {t}) \cup (A \ {t}) \cup B))
               = Cardinality(p.ths \ (p.rm \cup A \cup B))
          /\ Cardinality(p.ths \ (p.rm \cup {t})) = Cardinality((p.ths \ p.rm) \ {t})
      BY <2>2, Zenon
    <3> QED
      BY <1>7, <1>9, <2>3, <2>4, <3>1
  <2>6. ((A \ {t}) \cup B) \cap (p.rm \cup {t}) = {} /\ (A \ {t}) \cap B = {}
    BY <2>1
  <2>7. \A o \in r.rm : r.stat[o] \notin {"WAIT", "RUN"}
    BY <1>7, <1>9, <1>11, <1>15 DEF Classes
  <2> QED
    BY <1>7, <1>9, <1>11, <1>15, <2>1, <2>5, <2>6, <2>7 DEF Classes
<1>16. Good(r)
  <2>1. TRUE \in BOOLEAN
    OBVIOUS
  <2> QED
    BY <1>1, <2>1, StatusTimedOutKeeps DEF Keeps
<1> QED
  BY <1>1, <1>7, <1>9, <1>10, <1>13, <1>14, <1>15, <1>16

-----------------------------------------------------------------------------

\* A marked thread leaves.
LEMMA StatusLeaveCounted ==
  ASSUME NEW p, Good(p), NEW A, Counted(p, A), NEW t \in p.ths \ (A \cup p.unborn),
         NEW r, r = StatusLeave(p, t)
  PROVE  /\ Good(r) /\ Counted(r, A)
         /\ Moves(p, r, {t}) /\ r.stat[t] = "INIT" /\ Orders(p, r)
         /\ p.thq[t] = {} => Acts(p, r, {t})
         /\ r.ths = p.ths \ {t} /\ r.rm = p.rm \ {t} /\ r.waitq = p.waitq
         /\ r.thq[t] = {}
         /\ t \in p.rm => \A B : Classes(p, A, B) =>
              /\ Classes(r, A, B)
              /\ r.real_pool = p.real_pool /\ r.real_free = p.real_free
<1>1. p \in CoreType /\ t \in Threads
  BY DEF Good, CoreType
<1>2. /\ r.ths = p.ths \ {t} /\ r.rm = p.rm \ {t} /\ r.waked = p.waked \cup {t}
      /\ r.waitq = p.waitq /\ r.unborn = p.unborn
      /\ r.n_qths = p.n_qths - 1 /\ r.n_qths_wait = p.n_qths_wait
      /\ r.n_qths_waked = p.n_qths_waked /\ r.running = p.running
      /\ r.dying_run = p.dying_run /\ r.sleeping = p.sleeping
      /\ r.real_pool = p.real_pool /\ r.real_free = p.real_free
      /\ t \in p.rm => r.dying = p.dying - 1
  BY <1>1 DEF CoreType, StatusLeave
<1>3. Orders(p, r)
  BY <1>1 DEF CoreType, Orders, StatusLeave
<1>4. \A o \in Threads : /\ r.stat[o] = IF o = t THEN "INIT" ELSE p.stat[o]
                         /\ r.thq[o] = IF o = t THEN {} ELSE p.thq[o]
  BY <1>1 DEF CoreType, StatusLeave
<1>5. /\ \A o \in p.rm : o \in Threads
      /\ p.ths \in SUBSET Threads /\ p.rm \in SUBSET Threads /\ p.rm \subseteq p.ths
  BY <1>1 DEF CoreType, Good, Sound
<1>6. Good(r)
  BY StatusLeaveSound
<1>7. Counted(r, A)
  <2>1. /\ A \subseteq p.ths /\ t \notin A
        /\ Cardinality(p.ths \ {t}) = Cardinality(p.ths) - 1
    BY <1>1, <1>5, SizeOfOne DEF Counted, Lists
  <2>2. A \ (p.waked \cup {t}) = A \ p.waked /\ A \cap (p.waked \cup {t}) = A \cap p.waked
    BY <2>1
  <2>3. /\ A \subseteq r.ths /\ r.n_qths = Cardinality(r.ths)
        /\ r.waitq = A \ r.waked
    BY <1>2, <2>1, <2>2 DEF Counted, Lists
  <2>4. /\ r.n_qths_wait = Cardinality(r.waitq)
        /\ r.n_qths_waked = Cardinality(A \cap r.waked)
    BY <1>2, <2>2 DEF Counted, Lists
  <2>5. Told(r) /\ Outside(r)
    BY <1>2, <1>4, <1>5 DEF Counted, Told, Outside
  <2> QED
    BY <2>3, <2>4, <2>5 DEF Counted, Lists
<1>8. Moves(p, r, {t})
  BY <1>2, <1>4 DEF Moves
<1>9. ASSUME p.thq[t] = {}
      PROVE  Acts(p, r, {t})
  <2>1. Owned(p) => Owned(r)
    BY <1>2, <1>4, <1>9 DEF Owned
  <2> QED
    BY <1>2, <1>3, <1>4, <1>8, <2>1 DEF Acts, Orders
<1>10. ASSUME t \in p.rm, NEW B, Classes(p, A, B)
       PROVE  Classes(r, A, B)
  <2>1. /\ A \subseteq p.ths /\ B \subseteq p.ths
        /\ A \cap B = {} /\ (A \cup B) \cap p.rm = {}
    BY <1>10 DEF Classes
  <2>2. /\ A \subseteq r.ths /\ B \subseteq r.ths /\ (A \cup B) \cap r.rm = {}
        /\ (p.ths \ {t}) \ (p.rm \ {t}) = p.ths \ p.rm
        /\ (p.ths \ {t}) \ ((p.rm \ {t}) \cup A \cup B) = p.ths \ (p.rm \cup A \cup B)
    BY <1>2, <1>10, <2>1
  <2>3. Cardinality(p.rm \ {t}) = Cardinality(p.rm) - 1
    BY <1>1, <1>5, <1>10, SizeOfOne
  <2>4. /\ r.real_pool = Cardinality(r.ths \ r.rm)
        /\ r.real_free = Cardinality(r.ths \ (r.rm \cup A \cup B))
    BY <1>2, <1>10, <2>2 DEF Classes
  <2>5. \A o \in r.rm : r.stat[o] \notin {"WAIT", "RUN"}
    BY <1>2, <1>4, <1>5, <1>10 DEF Classes
  <2> QED
    BY <1>2, <1>10, <2>1, <2>2, <2>3, <2>4, <2>5 DEF Classes
<1> QED
  BY <1>1, <1>2, <1>3, <1>4, <1>6, <1>7, <1>8, <1>9, <1>10

\* A thread object whose pthread cannot be created goes, as a free thread.
GivenUp(p, r, t, u, died, A) ==
    /\ Good(r) /\ Counted(r, A)
    /\ Acts(p, r, {t, u}) /\ r.stat = p.stat
    /\ r.ths = p.ths \ {u} /\ r.rm = p.rm \ {u} /\ r.thq[u] \subseteq p.thq[u]
    /\ ~died /\ u \notin p.rm => \A B : Classes(p, A, B) /\ u \notin B =>
         Classes(r, A, B) /\ r.real_pool <= p.real_pool

LEMMA DiscardCounted ==
  ASSUME NEW p, Good(p), NEW A, Counted(p, A), NEW t \in Threads,
         NEW u \in p.thq[t], u \notin A, p.stat[u] \notin {"WAIT", "RUN"},
         NEW died \in BOOLEAN, NEW r, r = Discard(p, t, u, died)
  PROVE  GivenUp(p, r, t, u, died, A)
<1>1. /\ p \in CoreType /\ u \in Threads /\ u \in p.ths /\ u \in p.unborn
      /\ \A o \in Threads \ {t} : u \notin p.thq[o]
  BY DEF Good, Sound, CoreType
<1>2. /\ r.ths = p.ths \ {u} /\ r.rm = p.rm \ {u} /\ r.waked = p.waked
      /\ r.waitq = p.waitq /\ r.unborn = p.unborn \ {u} /\ r.stat = p.stat
      /\ r.n_qths = p.n_qths - 1 /\ r.n_qths_wait = p.n_qths_wait
      /\ r.n_qths_waked = p.n_qths_waked /\ r.running = p.running
      /\ r.dying_run = p.dying_run /\ r.sleeping = p.sleeping
      /\ ~died => /\ r.real_pool = p.real_pool - 1 /\ r.real_free = p.real_free - 1
                  /\ r.dying = p.dying
  BY <1>1 DEF CoreType, Discard
<1>3. Orders(p, r)
  BY <1>1 DEF CoreType, Orders, Discard
<1>4. \A o \in Threads : r.thq[o] = IF o = t THEN p.thq[o] \ {u} ELSE p.thq[o]
  BY <1>1 DEF CoreType, Discard
<1>5. /\ \A o \in p.rm : o \in Threads
      /\ p.ths \in SUBSET Threads /\ p.rm \in SUBSET Threads /\ p.rm \subseteq p.ths
  BY <1>1 DEF CoreType, Good, Sound
<1>6. Good(r)
  BY DiscardSound
<1>7. Counted(r, A)
  <2>1. /\ A \subseteq p.ths \ {u}
        /\ Cardinality(p.ths \ {u}) = Cardinality(p.ths) - 1
    BY <1>1, <1>5, SizeOfOne DEF Counted, Lists
  <2>2. Lists(r, A)
    BY <1>2, <2>1 DEF Counted, Lists
  <2>3. Told(r) /\ Outside(r)
    BY <1>2, <1>5 DEF Counted, Told, Outside
  <2> QED
    BY <2>2, <2>3 DEF Counted
<1>8. Acts(p, r, {t, u})
  <2>1. Owned(p) => Owned(r)
    BY <1>2, <1>4 DEF Owned
  <2>2. Moves(p, r, {t, u})
    BY <1>2 DEF Moves
  <2> QED
    BY <1>2, <1>3, <1>4, <2>1, <2>2 DEF Acts, Orders
<1>9. ASSUME ~died, u \notin p.rm, NEW B, Classes(p, A, B), u \notin B
      PROVE  Classes(r, A, B) /\ r.real_pool <= p.real_pool
  <2>1. /\ A \subseteq p.ths /\ B \subseteq p.ths
        /\ A \cap B = {} /\ (A \cup B) \cap p.rm = {}
    BY <1>9 DEF Classes
  <2> DEFINE S == p.ths \ (p.rm \cup A \cup B)
  <2>2. /\ A \subseteq p.ths \ {u} /\ B \subseteq p.ths \ {u} /\ p.rm \ {u} = p.rm
        /\ (p.ths \ {u}) \ p.rm = (p.ths \ p.rm) \ {u}
        /\ (p.ths \ {u}) \ (p.rm \cup A \cup B) = S \ {u}
        /\ S \in SUBSET Threads /\ u \in S
        /\ p.ths \ p.rm \in SUBSET Threads /\ u \in p.ths \ p.rm
    BY <1>1, <1>5, <1>9, <2>1
  <2>3. /\ Cardinality(S \ {u}) = Cardinality(S) - 1
        /\ Cardinality((p.ths \ p.rm) \ {u}) = Cardinality(p.ths \ p.rm) - 1
        /\ Cardinality(p.ths \ p.rm) \in Nat
    BY <1>1, <2>2, SizeOfOne
  <2>4. p.real_free = Cardinality(S) /\ p.real_pool = Cardinality(p.ths \ p.rm)
    BY <1>9 DEF Classes
  <2> HIDE DEF S
  <2>5. r.rm = p.rm /\ r.ths = p.ths \ {u}
    BY <1>2, <2>2
  <2>6. /\ Cardinality(r.ths \ r.rm) = Cardinality((p.ths \ p.rm) \ {u})
        /\ Cardinality(r.ths \ (r.rm \cup A \cup B)) = Cardinality(S \ {u})
    BY <2>2, <2>5, Zenon
  <2>7. /\ r.real_pool = Cardinality(r.ths \ r.rm)
        /\ r.real_free = Cardinality(r.ths \ (r.rm \cup A \cup B))
        /\ r.real_pool <= p.real_pool
    BY <1>2, <1>9, <2>3, <2>4, <2>6
  <2> QED
    BY <1>2, <1>9, <2>1, <2>2, <2>5, <2>7 DEF Classes
<1> QED
  BY <1>1, <1>2, <1>4, <1>6, <1>7, <1>8, <1>9 DEF GivenUp

\* A thread object that gets its pthread was a thread of the pool before.
Begun(p, r, t, A) ==
    /\ Good(r) /\ Counted(r, A)
    /\ Acts(p, r, {t}) /\ r.stat = p.stat /\ Orders(p, r)
    /\ r.rm = p.rm /\ r.real_pool = p.real_pool
    /\ \A B : Classes(p, A, B) => Classes(r, A, B)
    /\ Conserved(p) => Conserved(r)
    /\ Server(p) => Server(r)

LEMMA LaunchedCounted ==
  ASSUME NEW p, Good(p), NEW A, Counted(p, A), NEW t \in Threads,
         NEW u \in p.thq[t], NEW r, r = Launched(p, t, u)
  PROVE  Begun(p, r, t, A)
<1>1. p \in CoreType /\ \A o \in Threads \ {t} : u \notin p.thq[o]
  BY DEF Good, Sound, CoreType
<1>2. /\ r.ths = p.ths /\ r.rm = p.rm /\ r.waked = p.waked /\ r.waitq = p.waitq
      /\ r.stat = p.stat /\ r.unborn = p.unborn \ {u}
      /\ r.n_qths = p.n_qths /\ r.n_qths_wait = p.n_qths_wait
      /\ r.n_qths_waked = p.n_qths_waked /\ r.running = p.running
      /\ r.dying = p.dying /\ r.dying_run = p.dying_run /\ r.sleeping = p.sleeping
      /\ r.real_pool = p.real_pool /\ r.real_free = p.real_free
  BY <1>1 DEF CoreType, Launched
<1>3. Orders(p, r)
  BY <1>1 DEF CoreType, Orders, Launched
<1>4. \A o \in Threads : r.thq[o] = IF o = t THEN p.thq[o] \ {u} ELSE p.thq[o]
  BY <1>1 DEF CoreType, Launched
<1>5. Good(r)
  BY LaunchedSound
<1>6. Counted(r, A)
  BY <1>2 DEF Counted, Lists, Told, Outside
<1>7. Acts(p, r, {t})
  <2>1. Owned(p) => Owned(r)
    BY <1>2, <1>4 DEF Owned
  <2> QED
    BY <1>2, <1>3, <1>4, <2>1 DEF Acts, Moves, Orders
<1>8. \A B : Classes(p, A, B) => Classes(r, A, B)
  BY <1>2 DEF Classes
<1>9. (Conserved(p) => Conserved(r)) /\ (Server(p) => Server(r))
  BY <1>2, <1>3 DEF Conserved, NoServer, Server, Orders
<1> QED
  BY <1>2, <1>3, <1>5, <1>6, <1>7, <1>8, <1>9 DEF Begun

-----------------------------------------------------------------------------

\* Resizing the pool marks threads dead or calls some, and keeps the lists.
Resized(p, r, A) == Good(r) /\ Counted(r, A) /\ Moves(p, r, {})

LEMMA HelpsResized ==
  ASSUME NEW p, NEW r, NEW A, Helps(p, r, NoSelf, A)
  PROVE  Resized(p, r, A)
<1>1. Acts(p, r, {})
  BY SummonedActs, NoSelfAssumption DEF Helps
<1> QED
  BY <1>1 DEF Resized, Helps, Acts

\* The sleepers among those that are marked dead are signalled at once.
LEMMA MarkDeadCounted ==
  ASSUME NEW p, Good(p), NEW A, A = {t \in p.ths : p.stat[t] = "WAIT"}, Counted(p, A),
         NEW D \in SUBSET (p.ths \ p.rm), NEW r, r = MarkDead(p, D)
  PROVE  Resized(p, r, A)
<1> DEFINE asleep == {t \in D : p.stat[t] = "WAIT"}
           busy   == {t \in D : p.stat[t] = "RUN"}
           q == [p EXCEPT !.rm = @ \cup D,
                          !.run = @ \ D,
                          !.real_pool = @ - Cardinality(D),
                          !.dying = @ + Cardinality(D),
                          !.sleeping = @ - Cardinality(asleep),
                          !.dying_run = @ + Cardinality(busy),
                          !.real_free = @ - Cardinality(D \ (asleep \cup busy))]
           W == asleep \ p.waked
<1>1. p \in CoreType /\ A \in SUBSET Threads /\ p.ths \in SUBSET Threads
  BY DEF Good, CoreType
<1>2. r = Signal(q, W)
  BY DEF MarkDead
<1>3. /\ W \in SUBSET p.waitq /\ p.waitq = A \ p.waked /\ p.waitq \in SUBSET Threads
      /\ \A t \in D : p.stat[t] = "WAIT" => t \in p.waked \cup W
  BY <1>1 DEF Counted, Lists, CoreType
<1> HIDE DEF asleep, busy, W
<1>4. /\ r.ths = p.ths /\ r.rm = p.rm \cup D /\ r.stat = p.stat
      /\ r.waked = p.waked \cup W /\ r.waitq = p.waitq \ W
      /\ r.n_qths = p.n_qths
      /\ r.n_qths_wait = p.n_qths_wait - Cardinality(W)
      /\ r.n_qths_waked = p.n_qths_waked + Cardinality(W)
  BY <1>1, <1>2 DEF Signal, CoreType
<1>5. Good(r)
  BY MarkDeadKeeps DEF Keeps
<1>6. Lists(r, A)
  <2>1. /\ A \cap r.waked = (A \cap p.waked) \cup W
        /\ (A \cap p.waked) \cap W = {}
        /\ A \cap p.waked \in SUBSET Threads /\ W \in SUBSET Threads
        /\ A \ r.waked = p.waitq \ W
    BY <1>1, <1>3, <1>4
  <2>2. /\ Cardinality(A \cap r.waked) = Cardinality(A \cap p.waked) + Cardinality(W)
        /\ Cardinality(p.waitq \ W) = Cardinality(p.waitq) - Cardinality(W)
    BY <1>3, <2>1, SizeOfUnion, SizeOfDifference
  <2> QED
    BY <1>4, <2>1, <2>2 DEF Counted, Lists
<1>7. Told(r) /\ Outside(r)
  BY <1>3, <1>4 DEF Counted, Told, Outside
<1>8. Moves(p, r, {})
  BY <1>4 DEF Moves
<1> QED
  BY <1>5, <1>6, <1>7, <1>8 DEF Resized, Counted

LEMMA DecThreadsCounted ==
  ASSUME NEW p, Good(p), NEW A, A = {t \in p.ths : p.stat[t] = "WAIT"}, Counted(p, A),
         NEW n, NEW r \in DecThreads(p, n)
  PROVE  Resized(p, r, A)
<1>1. r = p \/ \E D \in SUBSET (p.ths \ p.rm) : r = MarkDead(p, D)
  <2> DEFINE alive == p.ths \ p.rm
             busy  == {t \in alive : p.stat[t] = "RUN"}
             idle  == alive \ busy
  <2>1. \/ r = p
        \/ \E k, D : D \in kSubset(k, idle) /\ r = MarkDead(p, D)
        \/ \E k, D : D \in kSubset(k, busy) /\ r = MarkDead(p, idle \cup D)
    BY Zenon DEF DecThreads
  <2> QED
    BY <2>1 DEF kSubset
<1>2. Resized(p, p, A)
  BY DEF Resized, Moves
<1> QED
  BY <1>1, <1>2, MarkDeadCounted

LEMMA AdjustAbsCounted ==
  ASSUME NEW p, Good(p), NEW A, A = {t \in p.ths : p.stat[t] = "WAIT"}, Counted(p, A),
         NEW max \in Int, NEW min \in Int, NEW r \in AdjustAbs(p, max, min)
  PROVE  Resized(p, r, A)
<1> DEFINE low == IF Dynamic THEN min ELSE max
           s == [p EXCEPT !.maxthreads = max, !.minthreads = low]
<1>1. p \in CoreType /\ low \in Int
  BY DEF Good, CoreType
<1>2. s \in CoreType
  BY <1>1, Zenon DEF CoreType
<1>3. /\ s.ths = p.ths /\ s.rm = p.rm /\ s.waked = p.waked /\ s.waitq = p.waitq
      /\ s.stat = p.stat /\ s.thq = p.thq /\ s.unborn = p.unborn
      /\ s.n_qths = p.n_qths /\ s.n_qths_wait = p.n_qths_wait
      /\ s.n_qths_waked = p.n_qths_waked
      /\ s.ref = p.ref /\ s.user_ref = p.user_ref /\ s.status = p.status
      /\ s.release_cleaning = p.release_cleaning /\ s.run = p.run
  BY <1>1 DEF CoreType
<1>4. \/ r \in AddThreads(s, NoSelf, s.minthreads - s.real_pool)
      \/ r \in DecThreads(s, s.real_pool - s.maxthreads)
      \/ r = WakeupAll(s)
  BY Zenon DEF AdjustAbs
<1> HIDE DEF s, low
<1>5. Good(s)
  <2>1. Keeps(p, s)
    BY <1>2, <1>3, KeepsSame
  <2> QED
    BY <2>1 DEF Keeps
<1>6. Counted(s, A) /\ Moves(p, s, {}) /\ A = {t \in s.ths : s.stat[t] = "WAIT"}
  BY <1>3 DEF Counted, Lists, Told, Outside, Moves
<1>7. Resized(s, r, A)
  <2>1. CASE r \in AddThreads(s, NoSelf, s.minthreads - s.real_pool)
    <3>1. s.minthreads - s.real_pool \in Int
      BY <1>2 DEF CoreType
    <3> QED
      BY <1>5, <1>6, <2>1, <3>1, AddThreadsCounted, HelpsResized
  <2>2. CASE r \in DecThreads(s, s.real_pool - s.maxthreads)
    BY <1>5, <1>6, <2>2, DecThreadsCounted
  <2>3. CASE r = WakeupAll(s)
    <3>1. \A x : x = Signal(s, s.waitq) => Helps(s, x, NoSelf, A)
      BY <1>5, <1>6, SignalCounted
    <3> QED
      BY <2>3, <3>1, HelpsResized DEF WakeupAll
  <2> QED
    BY <1>4, <2>1, <2>2, <2>3
<1> QED
  BY <1>6, <1>7 DEF Resized, Moves

-----------------------------------------------------------------------------
(***************************************************************************)
(* The pool                                                                *)
(***************************************************************************)

\* Where a thread is agrees with where the pool has it: one that has started
\* is in ths and has its pthread, and one in doubt is on the thq of a thread
\* that is creating threads.
Placed ==
    /\ \A t \in Threads : pc[t] # "entry" => t \in core.ths \ core.unborn
    /\ \A t \in Threads : suspect[t] # NoSelf =>
                            pc[t] = "create" /\ suspect[t] \in core.thq[t]

\* What makes TypeOK, AliveRuns and RefsAccounted inductive.
ThreadsInv == TypeOK /\ Sound(core) /\ Placed /\ RefsAccounted

\* The variables no step of a thread changes the type of.
OtherTypesOK ==
    /\ pc \in [Threads -> Location]
    /\ timed \subseteq Threads
    /\ again \subseteq Threads
    /\ batch \in [Threads -> Nat]
    /\ suspect \in [Threads -> Threads \cup {NoSelf}]
    /\ exq \subseteq Threads
    /\ held \in Nat
    /\ releasing \in Nat
    /\ releaser \in Releaser
    /\ cleaners \in Nat
    /\ resizes \in Nat

LEMMA TypeSplit == TypeOK <=> core \in CoreType /\ OtherTypesOK
BY DEF TypeOK, OtherTypesOK

LEMMA TypeSplitNext == TypeOK' <=> core' \in CoreType /\ OtherTypesOK'
BY DEF TypeOK, OtherTypesOK

\* Steps that only let the set of threads grow, by whoever is placed already.
LEMMA GrowingStep ==
  ASSUME ThreadsInv, Keeps(core, core'), OtherTypesOK',
         \A t \in Threads : pc'[t] # "entry" => t \in core.ths \ core.unborn,
         \A t \in Threads : suspect'[t] # NoSelf =>
                              pc'[t] = "create" /\ suspect'[t] \in core.thq[t],
         releasing' = releasing
  PROVE  ThreadsInv'
<1>1. TypeOK'
  BY TypeSplitNext DEF Keeps, Good
<1>2. Sound(core')
  BY DEF Keeps, Good
<1>3. Placed'
  BY DEF Placed, Keeps, Grows
<1>4. RefsAccounted'
  <2>1. Cardinality(core.ths) \in Nat /\ Cardinality(core'.ths) \in Nat
    BY SizeOfThreads DEF Keeps, Good, ThreadsInv, TypeOK, CoreType
  <2>2. core.ref \in Int /\ core'.ref \in Int /\ core.user_ref \in Int /\ releasing \in Nat
    BY DEF Keeps, Good, ThreadsInv, TypeOK, CoreType
  <2>3. core.ref = core.user_ref + Cardinality(core.ths) + releasing
    BY DEF ThreadsInv, RefsAccounted
  <2>4. /\ core'.ref - Cardinality(core'.ths) = core.ref - Cardinality(core.ths)
        /\ core'.user_ref = core.user_ref
    BY DEF Keeps, Grows
  <2>5. core'.ref = core'.user_ref + Cardinality(core'.ths) + releasing'
    BY <2>1, <2>2, <2>3, <2>4
  <2> QED
    BY <2>5 DEF RefsAccounted
<1> QED
  BY <1>1, <1>2, <1>3, <1>4 DEF ThreadsInv

\* ... and among those the steps of one thread t that stays in the pool.
LEMMA ThreadGoes ==
  ASSUME ThreadsInv, NEW t \in core.ths \ core.unborn, NEW l \in Location,
         Keeps(core, core'), Goto(t, l), OtherTypesOK',
         suspect' = [suspect EXCEPT ![t] = NoSelf], releasing' = releasing
  PROVE  ThreadsInv'
<1>1. t \in Threads
  BY DEF ThreadsInv, TypeOK, CoreType
<1>2. \A u \in Threads : pc'[u] = IF u = t THEN l ELSE pc[u]
  BY <1>1 DEF Goto, ThreadsInv, TypeOK
<1>3. \A u \in Threads : suspect'[u] = IF u = t THEN NoSelf ELSE suspect[u]
  BY <1>1 DEF ThreadsInv, TypeOK
<1> QED
  BY <1>1, <1>2, <1>3, GrowingStep DEF ThreadsInv, Placed

\* A user's call, which moves no thread.
LEMMA UserCalls ==
  ASSUME ThreadsInv, Keeps(core, core'), OtherTypesOK',
         pc' = pc, suspect' = suspect, releasing' = releasing
  PROVE  ThreadsInv'
BY GrowingStep DEF ThreadsInv, Placed

-----------------------------------------------------------------------------

LEMMA NewCoreGood ==
  ASSUME NEW max \in Int, NEW min \in Int, NEW suspend \in BOOLEAN
  PROVE  LET p == NewCore(max, min, suspend) IN
         /\ Good(p)
         /\ p.ths = {} /\ p.ref = 1 /\ p.user_ref = 1
         /\ p.status = "created" /\ p.release_cleaning = FALSE
<1> DEFINE p == NewCore(max, min, suspend)
<1>1. /\ [t \in Threads |-> "INIT"] \in [Threads -> ThreadStatus]
      /\ [t \in Threads |-> {}] \in [Threads -> SUBSET Threads]
      /\ "created" \in CoreStatus
      /\ {} \in SUBSET Threads /\ Threads \in SUBSET Threads
      /\ 0 \in Int /\ 1 \in Int /\ 0 \in Nat
  BY DEF ThreadStatus, CoreStatus
<1>2. p \in CoreType
  BY <1>1, Zenon DEF NewCore, CoreType
<1>3. /\ p.ths = {} /\ p.ref = 1 /\ p.user_ref = 1
      /\ p.status = "created" /\ p.release_cleaning = FALSE
      /\ p.rm = {} /\ p.run = Threads /\ p.unborn = {}
      /\ p.thq = [t \in Threads |-> {}]
  BY DEF NewCore
<1> HIDE DEF p
<1>4. Good(p)
  BY <1>2, <1>3 DEF Good, Sound
<1> QED
  BY <1>3, <1>4 DEF p

LEMMA ThreadsInvInit ==
  ASSUME Init
  PROVE  ThreadsInv
<1> DEFINE min == IF Dynamic THEN InitMin ELSE InitMax
           p == NewCore(InitMax, min, InitPaused)
<1>1. min \in Int /\ InitMax \in Int /\ InitPaused \in BOOLEAN
  BY BoundAssumption
<1>2. core \in AddThreads(p, NoSelf, min)
  BY DEF Init
<1>3. Good(p) /\ p.ths = {} /\ p.ref = 1 /\ p.user_ref = 1
  BY <1>1, NewCoreGood
<1> HIDE DEF p, min
<1>4. Keeps(p, core)
  BY <1>2, <1>3, AddThreadsKeeps
<1>5. OtherTypesOK
  BY DEF Init, OtherTypesOK, Location, Releaser
<1>6. TypeOK
  BY <1>4, <1>5, TypeSplit DEF Keeps, Good
<1>7. Placed
  BY DEF Init, Placed
<1>8. RefsAccounted
  <2>1. core.ref - Cardinality(core.ths) = 1 - Cardinality({}) /\ core.user_ref = 1
    BY <1>3, <1>4 DEF Keeps, Grows
  <2>2. Cardinality({}) = 0 /\ Cardinality(core.ths) \in Nat /\ core.ref \in Int
    BY <1>6, FS_EmptySet, SizeOfThreads DEF TypeOK, CoreType
  <2>3. releasing = 0
    BY DEF Init
  <2>4. core.ref = core.user_ref + Cardinality(core.ths) + releasing
    BY <2>1, <2>2, <2>3
  <2> QED
    BY <2>4 DEF RefsAccounted
<1> QED
  BY <1>4, <1>6, <1>7, <1>8 DEF ThreadsInv, Keeps, Good

-----------------------------------------------------------------------------

\* What a step of a thread leaves to the protocol of release: it is not seen
\* by a user, and it leaves a thread, or a thread's reference, behind.
ThreadFrame ==
    /\ core'.status = core.status /\ core'.user_ref = core.user_ref
    /\ core'.release_cleaning = core.release_cleaning
    /\ held' = held /\ cleaners' = cleaners
    /\ releaser = "no" => releaser' = "no"
    /\ core'.ths # {} \/ releasing' > 0

LEMMA SuspectFree ==
  ASSUME ThreadsInv, NEW t \in Threads, pc[t] # "create"
  PROVE  suspect = [suspect EXCEPT ![t] = NoSelf]
<1>1. suspect \in [Threads -> Threads \cup {NoSelf}] /\ suspect[t] = NoSelf
  BY DEF ThreadsInv, TypeOK, Placed
<1> QED
  BY <1>1

\* The common part of most steps.
LEMMA PlainThreadStep ==
  ASSUME ThreadsInv, NEW t \in core.ths \ core.unborn, NEW l \in Location,
         pc[t] # "create", Keeps(core, core'), Goto(t, l), OtherTypesOK',
         UNCHANGED <<suspect, held, releasing, releaser, cleaners>>
  PROVE  ThreadsInv' /\ ThreadFrame
<1>1. t \in Threads
  BY DEF ThreadsInv, TypeOK, CoreType
<1>2. suspect' = [suspect EXCEPT ![t] = NoSelf]
  BY <1>1, SuspectFree
<1>3. ThreadsInv'
  BY <1>2, ThreadGoes
<1>4. ThreadFrame
  BY DEF ThreadFrame, Keeps, Grows
<1> QED
  BY <1>3, <1>4

LEMMA GotoTypeOK ==
  ASSUME ThreadsInv, NEW t \in Threads, NEW l \in Location, Goto(t, l)
  PROVE  pc' \in [Threads -> Location]
BY DEF Goto, ThreadsInv, TypeOK

LEMMA InThePool ==
  ASSUME ThreadsInv, NEW t \in Threads, pc[t] # "entry"
  PROVE  t \in core.ths \ core.unborn
BY DEF ThreadsInv, Placed

LEMMA GoodCore ==
  ASSUME ThreadsInv
  PROVE  Good(core)
BY DEF ThreadsInv, Good, TypeOK

LEMMA JoinStep ==
  ASSUME ThreadsInv, NEW t \in Threads, Join(t)
  PROVE  ThreadsInv' /\ ThreadFrame
<1>1. Keeps(core, core')
  BY GoodCore, SetStatusKeeps DEF Join, ThreadStatus
<1>2. OtherTypesOK'
  BY GotoTypeOK DEF Join, ThreadsInv, TypeOK, OtherTypesOK, Location
<1> QED
  BY <1>1, <1>2, PlainThreadStep DEF Join, Location

\* Taking a task: p is the core with what was taken removed from its queue.
LEMMA TakenStep ==
  ASSUME ThreadsInv, NEW t \in Threads, pc[t] = "gettask",
         NEW p \in CoreType, NEW k \in Nat, Taken(t, p, k), Keeps(core, p)
  PROVE  ThreadsInv' /\ ThreadFrame
<1>1. t \in core.ths \ core.unborn
  BY InThePool
<1>2. Keeps(core, core')
  <2>1. core' \in StatusRun(p, t) \/ core' = p
    BY DEF Taken
  <2> QED
    BY <2>1, StatusRunKeeps, KeepsTransitive DEF Keeps
<1>3. \E l \in {"create", "exec"} : Goto(t, l)
  BY DEF Taken
<1>4. OtherTypesOK'
  <2>1. pc' \in [Threads -> Location]
    BY <1>3, GotoTypeOK DEF Location
  <2>2. batch' \in [Threads -> Nat]
    BY DEF Taken, ThreadsInv, TypeOK
  <2> QED
    BY <2>1, <2>2 DEF Taken, ThreadsInv, TypeOK, OtherTypesOK
<1> QED
  BY <1>1, <1>2, <1>3, <1>4, PlainThreadStep DEF Taken, Location

LEMMA TakeDispatchStep ==
  ASSUME ThreadsInv, NEW t \in Threads, TakeDispatch(t)
  PROVE  ThreadsInv' /\ ThreadFrame
<1> DEFINE k == Least(core.n_qdispatchs, Batch)
           p == [core EXCEPT !.n_qdispatchs = @ - k]
<1>1. core \in CoreType /\ core.n_qdispatchs \in Nat /\ core.n_qdispatchs > 0
  BY DEF TakeDispatch, ThreadsInv, TypeOK, CoreType
<1>2. k \in Nat
  BY <1>1, BoundAssumption DEF Least
<1>3. core.n_qdispatchs - k \in Nat
  BY <1>1, <1>2, BoundAssumption DEF k, Least
<1> HIDE DEF k
<1>4. p \in CoreType
  BY <1>1, <1>3, Zenon DEF CoreType
<1>5. Keeps(core, p)
  BY <1>1, <1>4, GoodCore, KeepsSame DEF CoreType
<1>6. pc[t] = "gettask" /\ Taken(t, p, k)
  BY DEF TakeDispatch, k
<1> HIDE DEF p
<1> QED
  BY <1>2, <1>4, <1>5, <1>6, TakenStep

LEMMA TakeTaskStep ==
  ASSUME ThreadsInv, NEW t \in Threads, TakeTask(t)
  PROVE  ThreadsInv' /\ ThreadFrame
<1> DEFINE p == [core EXCEPT !.npendings = @ - 1]
<1>1. core \in CoreType /\ core.npendings - 1 \in Nat
  BY DEF TakeTask, ThreadsInv, TypeOK, CoreType
<1>2. p \in CoreType
  BY <1>1, Zenon DEF CoreType
<1>3. Keeps(core, p)
  BY <1>1, <1>2, GoodCore, KeepsSame DEF CoreType
<1>4. pc[t] = "gettask" /\ Taken(t, p, 0) /\ 0 \in Nat
  BY DEF TakeTask
<1> HIDE DEF p
<1> QED
  BY <1>2, <1>3, <1>4, TakenStep

LEMMA QuitStep ==
  ASSUME ThreadsInv, NEW t \in Threads, Quit(t)
  PROVE  ThreadsInv' /\ ThreadFrame
<1>1. t \in core.ths \ core.unborn
  BY InThePool DEF Quit
<1>2. Keeps(core, core')
  BY <1>1, GoodCore, StatusForceQuitKeeps DEF Quit
<1>3. OtherTypesOK'
  BY GotoTypeOK DEF Quit, ThreadsInv, TypeOK, OtherTypesOK, Location
<1> QED
  BY <1>1, <1>2, <1>3, PlainThreadStep DEF Quit, Location

LEMMA SleepStep ==
  ASSUME ThreadsInv, NEW t \in Threads, Sleep(t)
  PROVE  ThreadsInv' /\ ThreadFrame
<1>1. t \in core.ths \ core.unborn
  BY InThePool DEF Sleep
<1>2. Keeps(core, core')
  BY GoodCore, StatusWaitKeeps DEF Sleep
<1>3. timed' \subseteq Threads
  BY DEF Sleep, ThreadsInv, TypeOK
<1>4. OtherTypesOK'
  BY <1>3, GotoTypeOK DEF Sleep, ThreadsInv, TypeOK, OtherTypesOK, Location
<1> QED
  BY <1>1, <1>2, <1>4, PlainThreadStep DEF Sleep, Location

LEMMA WakeStep ==
  ASSUME ThreadsInv, NEW t \in Threads, Wake(t)
  PROVE  ThreadsInv' /\ ThreadFrame
<1>1. t \in core.ths \ core.unborn
  BY InThePool DEF Wake
<1>2. Keeps(core, core')
  BY GoodCore, StatusFreeKeeps DEF Wake
<1>3. OtherTypesOK'
  BY GotoTypeOK DEF Wake, ThreadsInv, TypeOK, OtherTypesOK, Location
<1> QED
  BY <1>1, <1>2, <1>3, PlainThreadStep DEF Wake, Location

LEMMA TimeOutStep ==
  ASSUME ThreadsInv, NEW t \in Threads, TimeOut(t)
  PROVE  ThreadsInv' /\ ThreadFrame
<1>1. t \in core.ths \ core.unborn
  BY InThePool DEF TimeOut
<1>2. PICK retire \in {FALSE} \cup {MayRetire(core, t)} :
        core' \in StatusTimedOut(core, t, retire)
  BY DEF TimeOut
<1>3. retire \in BOOLEAN /\ (retire => MayRetire(core, t))
  BY <1>2 DEF MayRetire
<1>4. Keeps(core, core')
  BY <1>1, <1>2, <1>3, GoodCore, StatusTimedOutKeeps
<1>5. OtherTypesOK'
  BY GotoTypeOK DEF TimeOut, ThreadsInv, TypeOK, OtherTypesOK, Location
<1> QED
  BY <1>1, <1>4, <1>5, PlainThreadStep DEF TimeOut, Location

\* t is done with u, which it has launched (drop = {}) or given up (drop = {u}).
LEMMA CreatorStep ==
  ASSUME ThreadsInv, NEW t \in Threads, pc[t] = "create",
         NEW u \in core.thq[t], NEW drop \in {{}, {u}},
         NEW Q \in SUBSET Threads, LoopOn(t, Q), Good(core'),
         core'.ths = core.ths \ drop,
         core'.ref = core.ref - Cardinality(drop),
         core'.user_ref = core.user_ref,
         core'.status = core.status,
         core'.release_cleaning = core.release_cleaning,
         core'.unborn = core.unborn \ {u},
         core'.thq = [core.thq EXCEPT ![t] = @ \ {u}],
         releaser' \in Releaser, releaser = "no" => releaser' = "no",
         UNCHANGED <<timed, again, batch, held, releasing, cleaners, resizes>>
  PROVE  ThreadsInv' /\ ThreadFrame
<1>1. /\ u \in Threads /\ u \in core.ths /\ u \in core.unborn
      /\ t \in core.ths \ core.unborn /\ u # t
  BY InThePool DEF ThreadsInv, Sound, TypeOK, CoreType
<1>2. PICK l \in {"create", "lost", "exec"} : Goto(t, l)
  BY DEF LoopOn
<1>3. \A v \in Threads : pc'[v] = IF v = t THEN l ELSE pc[v]
  BY <1>2 DEF Goto, ThreadsInv, TypeOK
<1>4. \A v \in Threads : suspect'[v] = IF v = t THEN NoSelf ELSE suspect[v]
  BY DEF LoopOn, ThreadsInv, TypeOK
<1>5. \A v \in Threads : v # t => core'.thq[v] = core.thq[v]
  BY DEF ThreadsInv, TypeOK, CoreType
<1>6. TypeOK'
  <2>1. pc' \in [Threads -> Location]
    BY <1>2, GotoTypeOK DEF Location
  <2>2. suspect' \in [Threads -> Threads \cup {NoSelf}] /\ exq' \subseteq Threads
    BY DEF LoopOn, ThreadsInv, TypeOK
  <2>3. OtherTypesOK'
    BY <2>1, <2>2 DEF ThreadsInv, TypeOK, OtherTypesOK
  <2> QED
    BY <2>3, TypeSplitNext DEF Good
<1>7. Placed'
  BY <1>1, <1>3, <1>4, <1>5 DEF Placed, ThreadsInv
<1>8. RefsAccounted'
  <2>1. IsFiniteSet(core.ths) /\ Cardinality(core.ths) \in Nat
    BY SizeOfThreads DEF ThreadsInv, TypeOK, CoreType
  <2>2. core.ref = core.user_ref + Cardinality(core.ths) + releasing
    BY DEF ThreadsInv, RefsAccounted
  <2>3. core.ref \in Int /\ core.user_ref \in Int /\ releasing \in Nat
    BY DEF ThreadsInv, TypeOK, CoreType
  <2>a. /\ releasing' = releasing /\ core'.user_ref = core.user_ref
        /\ core'.ref = core.ref - Cardinality(drop)
    OBVIOUS
  <2>4. CASE drop = {}
    <3>a. core'.ths = core.ths
      BY <2>4
    <3>1. Cardinality(drop) = 0 /\ Cardinality(core'.ths) = Cardinality(core.ths)
      BY <2>4, <3>a, FS_EmptySet, Zenon
    <3>2. core'.ref = core'.user_ref + Cardinality(core'.ths) + releasing'
      BY <2>1, <2>2, <2>3, <2>a, <3>1
    <3> QED
      BY <3>2 DEF RefsAccounted
  <2>5. CASE drop = {u}
    <3>1. Cardinality(drop) = 1
      BY <2>5, FS_Singleton
    <3>2. Cardinality(core.ths \ {u}) = Cardinality(core.ths) - 1
      BY <1>1, <2>1, FS_RemoveElement
    <3>3. Cardinality(core'.ths) = Cardinality(core.ths \ {u})
      BY <2>5, Zenon
    <3>4. core'.ref = core'.user_ref + Cardinality(core'.ths) + releasing'
      BY <2>1, <2>2, <2>3, <2>a, <3>1, <3>2, <3>3
    <3> QED
      BY <3>4 DEF RefsAccounted
  <2> QED
    BY <2>4, <2>5
<1>9. ThreadsInv'
  BY <1>6, <1>7, <1>8 DEF ThreadsInv, Good
<1>10. ThreadFrame
  BY <1>1 DEF ThreadFrame
<1> QED
  BY <1>9, <1>10

LEMMA CreateThreadStep ==
  ASSUME ThreadsInv, NEW t \in Threads, CreateThread(t)
  PROVE  ThreadsInv' /\ ThreadFrame
<1>1. PICK u \in core.thq[t] : core' = Launched(core, t, u)
  BY DEF CreateThread
<1>2. core.ref - Cardinality({}) = core.ref /\ core.ths \ {} = core.ths
  BY FS_EmptySet DEF ThreadsInv, TypeOK, CoreType
<1>3. /\ Good(core')
      /\ core'.ths = core.ths \ {} /\ core'.unborn = core.unborn \ {u}
      /\ core'.thq = [core.thq EXCEPT ![t] = @ \ {u}]
      /\ core'.ref = core.ref - Cardinality({}) /\ core'.user_ref = core.user_ref
      /\ core'.status = core.status
      /\ core'.release_cleaning = core.release_cleaning
  BY <1>1, <1>2, GoodCore, LaunchedSound
<1>4. exq \in SUBSET Threads /\ releaser \in Releaser
  BY DEF ThreadsInv, TypeOK
<1> QED
  BY <1>3, <1>4, CreatorStep DEF CreateThread

LEMMA DiscardStep ==
  ASSUME ThreadsInv, NEW t \in Threads, NEW u \in core.thq[t], NEW died,
         core' = Discard(core, t, u, died)
  PROVE  /\ Good(core')
         /\ core'.ths = core.ths \ {u} /\ core'.unborn = core.unborn \ {u}
         /\ core'.thq = [core.thq EXCEPT ![t] = @ \ {u}]
         /\ core'.ref = core.ref - 1 /\ core'.user_ref = core.user_ref
         /\ core'.status = core.status
         /\ core'.release_cleaning = core.release_cleaning
BY GoodCore, DiscardSound

LEMMA CreateFailsStep ==
  ASSUME ThreadsInv, NEW t \in Threads, CreateFails(t)
  PROVE  ThreadsInv' /\ ThreadFrame
<1>1. PICK u \in core.thq[t] : core' = Discard(core, t, u, FALSE)
  BY DEF CreateFails
<1>2. core.ref - Cardinality({u}) = core.ref - 1
  BY FS_Singleton, Zenon
<1>3. /\ Good(core')
      /\ core'.ths = core.ths \ {u} /\ core'.unborn = core.unborn \ {u}
      /\ core'.thq = [core.thq EXCEPT ![t] = @ \ {u}]
      /\ core'.ref = core.ref - 1 /\ core'.user_ref = core.user_ref
      /\ core'.status = core.status
      /\ core'.release_cleaning = core.release_cleaning
  BY <1>1, DiscardStep
<1>4. exq \cup {t} \in SUBSET Threads /\ releaser \in Releaser
  BY DEF ThreadsInv, TypeOK
<1>5. {u} \in {{}, {u}} /\ core'.ref = core.ref - Cardinality({u})
  BY <1>2, <1>3
<1> QED
  BY <1>3, <1>4, <1>5, CreatorStep DEF CreateFails

LEMMA SuspectStep ==
  ASSUME ThreadsInv, NEW t \in Threads, Suspect(t)
  PROVE  ThreadsInv' /\ ThreadFrame
<1>1. PICK u \in core.thq[t] : suspect' = [suspect EXCEPT ![t] = u]
  BY DEF Suspect
<1>2. t \in core.ths \ core.unborn
  BY InThePool DEF Suspect
<1>3. u \in Threads
  BY DEF ThreadsInv, TypeOK, CoreType
<1>4. \A v \in Threads : suspect'[v] = IF v = t THEN u ELSE suspect[v]
  BY <1>1 DEF ThreadsInv, TypeOK
<1>5. OtherTypesOK'
  BY <1>1, <1>3 DEF Suspect, ThreadsInv, TypeOK, OtherTypesOK
<1>6. Keeps(core, core')
  BY GoodCore, KeepsReflexive DEF Suspect
<1>7. ThreadsInv'
  BY <1>4, <1>5, <1>6, GrowingStep DEF Suspect, ThreadsInv, Placed
<1> QED
  BY <1>2, <1>7 DEF Suspect, ThreadFrame

LEMMA RecheckStep ==
  ASSUME ThreadsInv, NEW t \in Threads, Recheck(t)
  PROVE  ThreadsInv' /\ ThreadFrame
<1> DEFINE u == suspect[t]
<1>1. u \in core.thq[t] /\ pc[t] = "create"
  BY DEF Recheck, ThreadsInv, Placed
<1>2. UNCHANGED <<timed, again, batch, held, releasing, cleaners, resizes>>
  BY DEF Recheck
<1>3. core.ref \in Int /\ releaser \in Releaser
      /\ exq \in SUBSET Threads /\ exq \cup {t} \in SUBSET Threads
  BY DEF ThreadsInv, TypeOK, CoreType
<1>4. CASE core' = Launched(core, t, u) /\ LoopOn(t, exq) /\ UNCHANGED releaser
  <2>1. core.ref - Cardinality({}) = core.ref /\ core.ths \ {} = core.ths
    BY <1>3, FS_EmptySet
  <2>2. /\ Good(core')
        /\ core'.ths = core.ths \ {} /\ core'.unborn = core.unborn \ {u}
        /\ core'.thq = [core.thq EXCEPT ![t] = @ \ {u}]
        /\ core'.ref = core.ref - Cardinality({}) /\ core'.user_ref = core.user_ref
        /\ core'.status = core.status
        /\ core'.release_cleaning = core.release_cleaning
    BY <1>1, <1>4, <2>1, GoodCore, LaunchedSound
  <2> QED
    BY <1>1, <1>2, <1>3, <1>4, <2>2, CreatorStep
<1>5. CASE /\ core' = Discard(core, t, u, TRUE)
           /\ LoopOn(t, exq \cup {t})
           /\ BroadcastIf(core'.dying = 0)
  <2>1. core.ref - Cardinality({u}) = core.ref - 1
    BY FS_Singleton, Zenon
  <2>2. /\ Good(core')
        /\ core'.ths = core.ths \ {u} /\ core'.unborn = core.unborn \ {u}
        /\ core'.thq = [core.thq EXCEPT ![t] = @ \ {u}]
        /\ core'.ref = core.ref - 1 /\ core'.user_ref = core.user_ref
        /\ core'.status = core.status
        /\ core'.release_cleaning = core.release_cleaning
    BY <1>1, <1>5, DiscardStep
  <2>3. releaser' \in Releaser /\ (releaser = "no" => releaser' = "no")
    BY <1>3, <1>5 DEF BroadcastIf, Releaser
  <2>4. {u} \in {{}, {u}} /\ core'.ref = core.ref - Cardinality({u})
    BY <2>1, <2>2
  <2> QED
    BY <1>1, <1>2, <1>3, <1>5, <2>2, <2>3, <2>4, CreatorStep
<1> QED
  BY <1>4, <1>5 DEF Recheck

LEMMA MarkAgainStep ==
  ASSUME ThreadsInv, NEW t \in Threads, MarkAgain(t)
  PROVE  ThreadsInv' /\ ThreadFrame
<1>1. t \in core.ths \ core.unborn
  BY InThePool DEF MarkAgain
<1>2. OtherTypesOK'
  BY DEF MarkAgain, ThreadsInv, TypeOK, OtherTypesOK
<1>3. Keeps(core, core')
  BY GoodCore, KeepsReflexive DEF MarkAgain
<1>4. ThreadsInv'
  BY <1>2, <1>3, UserCalls DEF MarkAgain
<1> QED
  BY <1>1, <1>4 DEF MarkAgain, ThreadFrame

LEMMA FinishTaskStep ==
  ASSUME ThreadsInv, NEW t \in Threads, FinishTask(t)
  PROVE  ThreadsInv' /\ ThreadFrame
<1>1. t \in core.ths \ core.unborn
  BY InThePool DEF FinishTask
<1>2. Keeps(core, core')
  BY GoodCore, KeepsReflexive, StatusCompleteKeeps DEF FinishTask
<1>3. PICK l \in {"requeue", "exec", "test"} : Goto(t, l)
  BY DEF FinishTask, AfterTask
<1>4. OtherTypesOK'
  BY <1>3, GotoTypeOK DEF FinishTask, ThreadsInv, TypeOK, OtherTypesOK, Location
<1> QED
  BY <1>1, <1>2, <1>3, <1>4, PlainThreadStep DEF FinishTask, Location

LEMMA FinishDispatchedStep ==
  ASSUME ThreadsInv, NEW t \in Threads, FinishDispatched(t)
  PROVE  ThreadsInv' /\ ThreadFrame
<1>1. t \in core.ths \ core.unborn
  BY InThePool DEF FinishDispatched
<1>2. Keeps(core, core')
  BY GoodCore, KeepsReflexive, StatusCompleteKeeps DEF FinishDispatched
<1>3. PICK l \in {"requeue", "exec", "test"} : Goto(t, l)
  BY DEF FinishDispatched, AfterTask
<1>4. batch' \in [Threads -> Nat]
  <2>1. batch \in [Threads -> Nat] /\ batch[t] - 1 \in Nat
    BY DEF FinishDispatched, ThreadsInv, TypeOK
  <2> QED
    BY <2>1 DEF FinishDispatched
<1>5. OtherTypesOK'
  BY <1>3, <1>4, GotoTypeOK
     DEF FinishDispatched, ThreadsInv, TypeOK, OtherTypesOK, Location
<1> QED
  BY <1>1, <1>2, <1>3, <1>5, PlainThreadStep DEF FinishDispatched, Location

\* One task more to run.
LEMMA OneMorePending ==
  ASSUME ThreadsInv
  PROVE  Keeps(core, [core EXCEPT !.npendings = @ + 1])
<1> DEFINE p == [core EXCEPT !.npendings = @ + 1]
<1>1. core \in CoreType /\ core.npendings + 1 \in Nat
  BY DEF ThreadsInv, TypeOK, CoreType
<1>2. p \in CoreType
  BY <1>1, Zenon DEF CoreType
<1> QED
  BY <1>1, <1>2, GoodCore, KeepsSame DEF CoreType

LEMMA RequeueStep ==
  ASSUME ThreadsInv, NEW t \in Threads, Requeue(t)
  PROVE  ThreadsInv' /\ ThreadFrame
<1> DEFINE p == [core EXCEPT !.npendings = @ + 1]
<1>1. t \in core.ths \ core.unborn
  BY InThePool DEF Requeue
<1>2. Keeps(core, p)
  BY OneMorePending
<1>3. core' = p \/ core' \in EnsureServices(p, NoSelf)
  BY DEF Requeue
<1> HIDE DEF p
<1>4. Keeps(core, core')
  BY <1>2, <1>3, EnsureServicesKeeps, KeepsTransitive DEF Keeps
<1>5. PICK l \in {"exec", "test"} : Goto(t, l)
  BY DEF Requeue
<1>6. OtherTypesOK'
  BY <1>5, GotoTypeOK DEF Requeue, ThreadsInv, TypeOK, OtherTypesOK, Location
<1> QED
  BY <1>1, <1>4, <1>5, <1>6, PlainThreadStep DEF Requeue, Location

LEMMA TestStep ==
  ASSUME ThreadsInv, NEW t \in Threads, Test(t)
  PROVE  ThreadsInv' /\ ThreadFrame
<1>1. t \in core.ths \ core.unborn
  BY InThePool DEF Test
<1>2. Keeps(core, core')
  BY GoodCore, KeepsReflexive DEF Test
<1>3. PICK l \in {"gettask", "leave"} : Goto(t, l)
  BY DEF Test
<1>4. OtherTypesOK'
  BY <1>3, GotoTypeOK DEF Test, ThreadsInv, TypeOK, OtherTypesOK, Location
<1> QED
  BY <1>1, <1>2, <1>3, <1>4, PlainThreadStep DEF Test, Location

LEMMA CollectStep ==
  ASSUME ThreadsInv, NEW t \in Threads, Collect(t)
  PROVE  ThreadsInv' /\ ThreadFrame
<1>1. t \in core.ths \ core.unborn
  BY InThePool DEF Collect
<1>2. Keeps(core, core')
  BY GoodCore, KeepsReflexive DEF Collect
<1>3. OtherTypesOK'
  BY GotoTypeOK DEF Collect, ThreadsInv, TypeOK, OtherTypesOK, Location
<1> QED
  BY <1>1, <1>2, <1>3, PlainThreadStep DEF Collect, Location

LEMMA StayStep ==
  ASSUME ThreadsInv, NEW t \in Threads, Stay(t)
  PROVE  ThreadsInv' /\ ThreadFrame
<1>1. t \in core.ths \ core.unborn
  BY InThePool DEF Stay
<1>2. Keeps(core, core')
  BY GoodCore, KeepsReflexive DEF Stay
<1>3. OtherTypesOK'
  BY GotoTypeOK DEF Stay, ThreadsInv, TypeOK, OtherTypesOK, Location
<1> QED
  BY <1>1, <1>2, <1>3, PlainThreadStep DEF Stay, Location

\* The thread goes, its reference stays until it calls cpool_core_release_ex.
LEMMA LeaveStep ==
  ASSUME ThreadsInv, NEW t \in Threads, Leave(t)
  PROVE  ThreadsInv' /\ ThreadFrame
<1>1. t \in core.ths \ core.unborn /\ pc[t] = "leave"
  BY InThePool DEF Leave
<1>2. core' = StatusLeave(core, t) /\ releasing' = releasing + 1 /\ Goto(t, "entry")
  BY DEF Leave
<1>3. /\ Good(core')
      /\ core'.ths = core.ths \ {t} /\ core'.unborn = core.unborn
      /\ core'.thq = [core.thq EXCEPT ![t] = {}]
      /\ core'.ref = core.ref /\ core'.user_ref = core.user_ref
      /\ core'.status = core.status
      /\ core'.release_cleaning = core.release_cleaning
  BY <1>1, <1>2, GoodCore, StatusLeaveSound
<1>4. releasing \in Nat /\ releasing' \in Nat /\ releasing' > 0
  BY <1>2 DEF ThreadsInv, TypeOK
<1>5. releaser' \in Releaser /\ (releaser = "no" => releaser' = "no")
  BY DEF Leave, BroadcastIf, Releaser, ThreadsInv, TypeOK
<1>6. TypeOK'
  <2>1. pc' \in [Threads -> Location] /\ timed' \subseteq Threads
    BY <1>2, GotoTypeOK DEF Leave, ThreadsInv, TypeOK, Location
  <2>2. OtherTypesOK'
    BY <1>4, <1>5, <2>1 DEF Leave, ThreadsInv, TypeOK, OtherTypesOK
  <2> QED
    BY <1>3, <2>2, TypeSplitNext DEF Good
<1>7. Placed'
  <2>1. \A v \in Threads : pc'[v] = IF v = t THEN "entry" ELSE pc[v]
    BY <1>2 DEF Goto, ThreadsInv, TypeOK
  <2>2. suspect' = suspect /\ suspect[t] = NoSelf
    BY <1>1 DEF Leave, ThreadsInv, TypeOK, Placed
  <2>3. \A v \in Threads : v # t => core'.thq[v] = core.thq[v]
    BY <1>3 DEF ThreadsInv, TypeOK, CoreType
  <2> QED
    BY <1>3, <2>1, <2>2, <2>3 DEF ThreadsInv, Placed
<1>8. RefsAccounted'
  <2>1. IsFiniteSet(core.ths) /\ Cardinality(core.ths) \in Nat
    BY SizeOfThreads DEF ThreadsInv, TypeOK, CoreType
  <2>2. core.ref = core.user_ref + Cardinality(core.ths) + releasing
    BY DEF ThreadsInv, RefsAccounted
  <2>3. core.ref \in Int /\ core.user_ref \in Int
    BY DEF ThreadsInv, TypeOK, CoreType
  <2>4. Cardinality(core.ths \ {t}) = Cardinality(core.ths) - 1
    BY <1>1, <2>1, FS_RemoveElement
  <2>5. Cardinality(core'.ths) = Cardinality(core.ths \ {t})
    BY <1>3, Zenon
  <2>6. core'.ref = core'.user_ref + Cardinality(core'.ths) + releasing'
    BY <1>2, <1>3, <1>4, <2>1, <2>2, <2>3, <2>4, <2>5
  <2> QED
    BY <2>6 DEF RefsAccounted
<1>9. ThreadsInv'
  BY <1>3, <1>6, <1>7, <1>8 DEF ThreadsInv, Good
<1>10. ThreadFrame
  BY <1>3, <1>4, <1>5 DEF ThreadFrame, Leave
<1> QED
  BY <1>9, <1>10

\* Every step of a thread.
LEMMA ThreadSteps ==
  ASSUME ThreadsInv, NEW t \in Threads, Step(t) \/ TimeOut(t) \/ MarkAgain(t)
  PROVE  ThreadsInv' /\ ThreadFrame
BY JoinStep, TakeDispatchStep, TakeTaskStep, QuitStep, SleepStep, WakeStep,
   TimeOutStep, CreateThreadStep, CreateFailsStep, SuspectStep, RecheckStep,
   MarkAgainStep, FinishTaskStep, FinishDispatchedStep, RequeueStep, TestStep,
   CollectStep, StayStep, LeaveStep, Zenon DEF Step

-----------------------------------------------------------------------------

\* What a call of a user, other than release, leaves to the protocol of
\* release: it is made with a reference, and keeps it.
UserFrame ==
    /\ core'.status = core.status /\ core'.user_ref >= core.user_ref
    /\ core'.release_cleaning = core.release_cleaning
    /\ Created \/ held > 0
    /\ cleaners' = cleaners /\ releaser' = releaser

LEMMA PlainUserStep ==
  ASSUME ThreadsInv, Keeps(core, core'), Unmoved, held' \in Nat, resizes' \in Nat,
         Created \/ held > 0
  PROVE  ThreadsInv' /\ UserFrame
<1>1. OtherTypesOK'
  BY DEF Unmoved, ThreadsInv, TypeOK, OtherTypesOK
<1>2. ThreadsInv'
  BY <1>1, UserCalls DEF Unmoved
<1>3. core.user_ref \in Int
  BY DEF ThreadsInv, TypeOK, CoreType
<1> QED
  BY <1>2, <1>3 DEF UserFrame, Unmoved, Keeps, Grows

LEMMA QueueStep ==
  ASSUME ThreadsInv, Queue
  PROVE  ThreadsInv' /\ UserFrame
<1> DEFINE p == [core EXCEPT !.npendings = @ + 1]
<1>1. Keeps(core, p)
  BY OneMorePending
<1>2. core' = p \/ core' \in Wakeup(p, 1) \/ core' \in EnsureServices(p, NoSelf)
  BY DEF Queue
<1> HIDE DEF p
<1>3. Keeps(core, core')
  BY <1>1, <1>2, WakeupKeeps, EnsureServicesKeeps, KeepsTransitive DEF Keeps
<1> QED
  BY <1>3, PlainUserStep DEF Queue, ThreadsInv, TypeOK

\* The queues of tasks are no concern of the threads' bookkeeping.
LEMMA TasksMove ==
  ASSUME ThreadsInv, NEW a \in Nat, NEW b \in Nat
  PROVE  Keeps(core, [core EXCEPT !.npendings = a, !.n_qdispatchs = b])
<1> DEFINE p == [core EXCEPT !.npendings = a, !.n_qdispatchs = b]
<1>1. p \in CoreType
  BY Zenon DEF ThreadsInv, TypeOK, CoreType
<1>2. core \in CoreType
  BY DEF ThreadsInv, TypeOK
<1> QED
  BY <1>1, <1>2, GoodCore, KeepsSame DEF CoreType

LEMMA RemoveAllStep ==
  ASSUME ThreadsInv, RemoveAll
  PROVE  ThreadsInv' /\ UserFrame
<1>1. core \in CoreType /\ core.npendings \in Nat /\ core.n_qdispatchs \in Nat
  BY DEF ThreadsInv, TypeOK, CoreType
<1>2. [core EXCEPT !.npendings = 0]
        = [core EXCEPT !.npendings = 0, !.n_qdispatchs = core.n_qdispatchs]
  BY <1>1 DEF CoreType
<1>3. Keeps(core, core')
  BY <1>1, <1>2, TasksMove DEF RemoveAll
<1>4. held' \in Nat
  BY <1>1 DEF RemoveAll, ThreadsInv, TypeOK
<1> QED
  BY <1>3, <1>4, PlainUserStep DEF RemoveAll, ThreadsInv, TypeOK

LEMMA DispatchRemovedStep ==
  ASSUME ThreadsInv, DispatchRemoved
  PROVE  ThreadsInv' /\ UserFrame
<1>1. core \in CoreType /\ core.npendings \in Nat /\ core.n_qdispatchs \in Nat
  BY DEF ThreadsInv, TypeOK, CoreType
<1>2. PICK n \in 0..held :
        LET p == [core EXCEPT !.n_qdispatchs = @ + n]
        IN  core' \in IF n > 0 /\ NeedEnsure(p) THEN EnsureServices(p, NoSelf) ELSE {p}
  BY DEF DispatchRemoved
<1> DEFINE p == [core EXCEPT !.n_qdispatchs = @ + n]
<1>3. core' = p \/ core' \in EnsureServices(p, NoSelf)
  BY <1>2
<1>4. p = [core EXCEPT !.npendings = core.npendings, !.n_qdispatchs = core.n_qdispatchs + n]
  BY <1>1 DEF CoreType
<1>5. core.n_qdispatchs + n \in Nat
  BY <1>1
<1>6. Keeps(core, p)
  BY <1>1, <1>4, <1>5, TasksMove
<1> HIDE DEF p
<1>7. Keeps(core, core')
  BY <1>3, <1>6, EnsureServicesKeeps, KeepsTransitive DEF Keeps
<1> QED
  BY <1>7, PlainUserStep DEF DispatchRemoved, ThreadsInv, TypeOK

LEMMA PausedMoves ==
  ASSUME ThreadsInv, NEW b \in BOOLEAN
  PROVE  Keeps(core, [core EXCEPT !.paused = b])
<1> DEFINE p == [core EXCEPT !.paused = b]
<1>1. p \in CoreType
  BY Zenon DEF ThreadsInv, TypeOK, CoreType
<1>2. core \in CoreType
  BY DEF ThreadsInv, TypeOK
<1> QED
  BY <1>1, <1>2, GoodCore, KeepsSame DEF CoreType

LEMMA SuspendStep ==
  ASSUME ThreadsInv, Suspend
  PROVE  ThreadsInv' /\ UserFrame
BY PausedMoves, PlainUserStep DEF Suspend, ThreadsInv, TypeOK

LEMMA ResumeStep ==
  ASSUME ThreadsInv, Resume
  PROVE  ThreadsInv' /\ UserFrame
<1> DEFINE p == [core EXCEPT !.paused = FALSE]
<1>1. Keeps(core, p)
  BY PausedMoves
<1>2. PICK q : /\ q = p \/ q \in Wakeup(p, p.npendings)
               /\ core' = q \/ core' \in EnsureServices(q, NoSelf)
  <2>1. PICK q \in IF ~Dynamic /\ p.npendings # 0 THEN Wakeup(p, p.npendings) ELSE {p} :
          core' \in IF q.npendings # 0 THEN EnsureServices(q, NoSelf) ELSE {q}
    BY DEF Resume
  <2> HIDE DEF p
  <2> QED
    BY <2>1
<1> HIDE DEF p
<1>3. Keeps(core, q)
  BY <1>1, <1>2, WakeupKeeps, KeepsTransitive DEF Keeps
<1>4. Keeps(core, core')
  BY <1>2, <1>3, EnsureServicesKeeps, KeepsTransitive DEF Keeps
<1> QED
  BY <1>4, PlainUserStep DEF Resume, ThreadsInv, TypeOK

LEMMA FlushStep ==
  ASSUME ThreadsInv, Flush
  PROVE  ThreadsInv' /\ UserFrame
<1>1. Keeps(core, core')
  BY GoodCore, FlushThreadsKeeps DEF Flush
<1> QED
  BY <1>1, PlainUserStep DEF Flush, ThreadsInv, TypeOK

LEMMA AdjustStep ==
  ASSUME ThreadsInv, Adjust
  PROVE  ThreadsInv' /\ UserFrame
<1>1. PICK a \in AdjustArgs : core' \in AdjustAbs(core, a[1], a[2])
  BY DEF Adjust
<1>2. a[1] \in Int /\ a[2] \in Int
  BY BoundAssumption
<1>3. Keeps(core, core')
  BY <1>1, <1>2, GoodCore, AdjustAbsKeeps
<1> QED
  BY <1>3, PlainUserStep DEF Adjust, ThreadsInv, TypeOK

\* The reference count and the status change, the threads do not.
WithRefs(p, a, b, s) == [p EXCEPT !.ref = a, !.user_ref = b, !.status = s]

LEMMA ReferenceStep ==
  ASSUME ThreadsInv, NEW a \in Int, NEW b \in Int, NEW s \in CoreStatus
  PROVE  LET p == WithRefs(core, a, b, s) IN
         /\ Good(p)
         /\ p.ref = a /\ p.user_ref = b /\ p.status = s
         /\ p.ths = core.ths /\ p.unborn = core.unborn /\ p.thq = core.thq
         /\ p.release_cleaning = core.release_cleaning
<1> DEFINE p == WithRefs(core, a, b, s)
<1>1. core \in CoreType /\ Sound(core)
  BY DEF ThreadsInv, TypeOK
<1>2. p \in CoreType
  BY <1>1, Zenon DEF CoreType, WithRefs
<1>3. /\ p.ref = a /\ p.user_ref = b /\ p.status = s
      /\ p.ths = core.ths /\ p.unborn = core.unborn /\ p.thq = core.thq
      /\ p.rm = core.rm /\ p.run = core.run
      /\ p.release_cleaning = core.release_cleaning
  BY <1>1 DEF CoreType, WithRefs
<1> HIDE DEF p
<1>4. Good(p)
  BY <1>1, <1>2, <1>3 DEF Good, Sound
<1> QED
  BY <1>3, <1>4 DEF p

LEMMA AddRefStep ==
  ASSUME ThreadsInv, AddRef
  PROVE  ThreadsInv' /\ UserFrame
<1>1. /\ core \in CoreType /\ core.ref \in Int /\ core.user_ref \in Int
      /\ core.status \in CoreStatus /\ releasing \in Nat
  BY DEF ThreadsInv, TypeOK, CoreType
<1>2. core' = WithRefs(core, core.ref + 1, core.user_ref + 1, core.status)
  BY <1>1 DEF AddRef, CoreType, WithRefs
<1>3. core.ref + 1 \in Int /\ core.user_ref + 1 \in Int
  BY <1>1
<1>4. /\ Good(core')
      /\ core'.ref = core.ref + 1 /\ core'.user_ref = core.user_ref + 1
      /\ core'.status = core.status
      /\ core'.ths = core.ths /\ core'.unborn = core.unborn /\ core'.thq = core.thq
      /\ core'.release_cleaning = core.release_cleaning
  BY <1>1, <1>2, <1>3, ReferenceStep
<1>5. OtherTypesOK'
  BY DEF AddRef, Unmoved, ThreadsInv, TypeOK, OtherTypesOK
<1>6. RefsAccounted'
  <2>1. core.ref = core.user_ref + Cardinality(core.ths) + releasing
    BY DEF ThreadsInv, RefsAccounted
  <2>2. Cardinality(core.ths) \in Nat /\ Cardinality(core'.ths) = Cardinality(core.ths)
    BY <1>4, SizeOfThreads DEF ThreadsInv, TypeOK, CoreType
  <2>3. core'.ref = core'.user_ref + Cardinality(core'.ths) + releasing'
    BY <1>1, <1>4, <2>1, <2>2 DEF AddRef, Unmoved
  <2> QED
    BY <2>3 DEF RefsAccounted
<1>7. ThreadsInv'
  BY <1>4, <1>5, <1>6, TypeSplitNext DEF AddRef, Unmoved, ThreadsInv, Good, Placed
<1> QED
  BY <1>1, <1>4, <1>7 DEF AddRef, Unmoved, UserFrame

\* Every call of a user but release.
LEMMA UserSteps ==
  ASSUME ThreadsInv,
         \/ Queue \/ RemoveAll \/ DispatchRemoved \/ Suspend \/ Resume
         \/ Flush \/ Adjust \/ AddRef
  PROVE  ThreadsInv' /\ UserFrame
BY QueueStep, RemoveAllStep, DispatchRemovedStep, SuspendStep, ResumeStep,
   FlushStep, AdjustStep, AddRefStep

-----------------------------------------------------------------------------
(***************************************************************************)
(* The release of the pool                                                 *)
(***************************************************************************)


\* Who may free the pool, phase by phase.  While users hold the pool nobody
\* does.  When the last of them left, either no thread was left (then the
\* last user waits for references, or has found that there is none), or the
\* last thread to drop its reference will do it.
ReleaseInv ==
    /\ core.user_ref \in Nat
    /\ Created <=> core.user_ref > 0
    /\ held > 0 => Created
    /\ Created => cleaners = 0 /\ releaser = "no" /\ ~core.release_cleaning
    /\ core.status = "destroying" /\ core.release_cleaning =>
         /\ core.ths = {}
         /\ \/ releaser # "no" /\ cleaners = 0
            \/ releaser = "no" /\ cleaners = 1 /\ core.ref = 0
    /\ core.status = "destroying" /\ ~core.release_cleaning =>
         /\ releaser = "no"
         /\ \/ cleaners = 0 /\ (core.ths # {} \/ releasing > 0)
            \/ cleaners = 1 /\ core.ths = {} /\ releasing = 0
    /\ core.status = "destroyed" =>
         /\ cleaners = 0 /\ releaser = "no" /\ core.ths = {} /\ releasing = 0

ReleaseIInv == ThreadsInv /\ ReleaseInv

\* What RefsAccounted says, as arithmetic.
LEMMA RefsArithmetic ==
  ASSUME ThreadsInv
  PROVE  /\ core.ref = core.user_ref + Cardinality(core.ths) + releasing
         /\ core.ref \in Int /\ core.user_ref \in Int /\ releasing \in Nat
         /\ Cardinality(core.ths) \in Nat
         /\ core.ths # {} => Cardinality(core.ths) > 0
         /\ core.ths = {} => Cardinality(core.ths) = 0
<1>1. IsFiniteSet(core.ths) /\ Cardinality(core.ths) \in Nat
  BY SizeOfThreads DEF ThreadsInv, TypeOK, CoreType
<1>2. Cardinality(core.ths) = 0 <=> core.ths = {}
  BY <1>1, FS_EmptySet
<1> QED
  BY <1>1, <1>2 DEF ThreadsInv, TypeOK, CoreType, RefsAccounted

\* Steps that move no thread and change the references in balance.
LEMMA ReferencesChange ==
  ASSUME ThreadsInv, Good(core'), core.ths \subseteq core'.ths,
         core'.unborn \cap core.ths = core.unborn,
         \A t \in Threads : core.thq[t] \subseteq core'.thq[t],
         core'.ref = core'.user_ref + Cardinality(core'.ths) + releasing',
         OtherTypesOK', UNCHANGED <<pc, suspect>>
  PROVE  ThreadsInv'
<1>1. TypeOK' /\ Sound(core')
  BY TypeSplitNext DEF Good
<1>2. Placed'
  BY DEF ThreadsInv, Placed
<1> QED
  BY <1>1, <1>2 DEF ThreadsInv, RefsAccounted

-----------------------------------------------------------------------------

LEMMA ReleaseByThreadStep ==
  ASSUME ReleaseIInv, ReleaseByThread
  PROVE  ReleaseIInv'
<1>1. /\ ThreadsInv /\ core \in CoreType
      /\ core.status \in CoreStatus /\ releaser \in Releaser /\ cleaners \in Nat
  BY DEF ReleaseIInv, ThreadsInv, TypeOK, CoreType
<1>2. core' = WithRefs(core, core.ref - 1, core.user_ref, core.status)
  BY <1>1 DEF ReleaseByThread, CoreType, WithRefs
<1>3. core.ref - 1 \in Int /\ core.user_ref \in Int
  BY <1>1, RefsArithmetic
<1>4. /\ Good(core')
      /\ core'.ref = core.ref - 1 /\ core'.user_ref = core.user_ref
      /\ core'.status = core.status
      /\ core'.ths = core.ths /\ core'.unborn = core.unborn /\ core'.thq = core.thq
      /\ core'.release_cleaning = core.release_cleaning
  BY <1>1, <1>2, <1>3, ReferenceStep
<1>5. /\ releasing > 0 /\ releasing' = releasing - 1
      /\ cleaners' = IF core'.ref = 0 /\ ~core.release_cleaning
                     THEN cleaners + 1 ELSE cleaners
      /\ releaser = "no" => releaser' = "no"
      /\ releaser # "no" => releaser' # "no"
      /\ releaser' \in Releaser
      /\ UNCHANGED <<pc, timed, again, batch, suspect, exq, held, resizes>>
  BY <1>1 DEF ReleaseByThread, BroadcastIf, Releaser
<1>6. ThreadsInv'
  <2>1. releasing' \in Nat /\ cleaners' \in Nat
    BY <1>1, <1>5, RefsArithmetic
  <2>2. OtherTypesOK'
    BY <1>1, <1>5, <2>1 DEF ThreadsInv, TypeOK, OtherTypesOK
  <2>3. Cardinality(core'.ths) = Cardinality(core.ths)
    BY <1>4
  <2>4. core'.ref = core'.user_ref + Cardinality(core'.ths) + releasing'
    BY <1>1, <1>4, <1>5, <2>3, RefsArithmetic
  <2>5. core'.unborn \cap core.ths = core.unborn
    BY <1>1, <1>4 DEF ThreadsInv, Sound
  <2> QED
    BY <1>1, <1>4, <1>5, <2>2, <2>4, <2>5, ReferencesChange
<1>7. core'.ref = core.user_ref + Cardinality(core.ths) + releasing'
  BY <1>1, <1>4, <1>5, RefsArithmetic
<1>8. Created' <=> Created
  BY <1>4 DEF Created
<1>9. ReleaseInv'
  <2>1. CASE Created
    <3>1. core.user_ref > 0 /\ cleaners = 0 /\ releaser = "no" /\ ~core.release_cleaning
      BY <2>1 DEF ReleaseIInv, ReleaseInv
    <3>2. core'.ref # 0
      BY <1>1, <1>5, <1>7, <3>1, RefsArithmetic
    <3> QED
      BY <1>1, <1>4, <1>5, <1>8, <2>1, <3>1, <3>2 DEF ReleaseIInv, ReleaseInv, Created
  <2>2. CASE core.status = "destroying" /\ core.release_cleaning
    <3>1. core.user_ref = 0 /\ releaser # "no" /\ cleaners = 0 /\ core.ths = {}
      BY <1>1, <1>5, <2>2, RefsArithmetic DEF ReleaseIInv, ReleaseInv, Created
    <3> QED
      BY <1>1, <1>4, <1>5, <1>8, <2>2, <3>1 DEF ReleaseIInv, ReleaseInv, Created
  <2>3. CASE core.status = "destroying" /\ ~core.release_cleaning
    <3>1. core.user_ref = 0 /\ releaser = "no" /\ cleaners = 0
      BY <1>1, <1>5, <2>3, RefsArithmetic DEF ReleaseIInv, ReleaseInv, Created
    <3>2. core'.ref = 0 <=> core.ths = {} /\ releasing' = 0
      BY <1>1, <1>5, <1>7, <3>1, RefsArithmetic
    <3>3. \/ core.ths = {} /\ releasing' = 0
          \/ core.ths # {} \/ releasing' > 0
      BY <1>1, <1>5, RefsArithmetic
    <3> QED
      BY <1>1, <1>4, <1>5, <1>8, <2>3, <3>1, <3>2, <3>3
         DEF ReleaseIInv, ReleaseInv, Created
  <2>4. CASE core.status = "destroyed"
    BY <1>1, <1>5, <2>4, RefsArithmetic DEF ReleaseIInv, ReleaseInv
  <2> QED
    BY <1>1, <2>1, <2>2, <2>3, <2>4 DEF Created, CoreStatus
<1> QED
  BY <1>6, <1>9 DEF ReleaseIInv

\* A suspended pool gives its tasks up, its threads only grow.
LEMMA SweepPendingKeeps ==
  ASSUME NEW p, Good(p), NEW q \in SweepPending(p)
  PROVE  Keeps(p, q)
<1> DEFINE r == [p EXCEPT !.n_qdispatchs = @ + p.npendings, !.npendings = 0]
<1>1. p \in CoreType /\ p.n_qdispatchs + p.npendings \in Nat
  BY DEF Good, CoreType
<1>2. r \in CoreType
  BY <1>1, Zenon DEF CoreType
<1>3. Keeps(p, r)
  BY <1>1, <1>2, KeepsSame DEF CoreType
<1>4. q = p \/ q \in EnsureServices(r, NoSelf)
  BY DEF SweepPending
<1> HIDE DEF r
<1> QED
  BY <1>3, <1>4, EnsureServicesKeeps, KeepsReflexive, KeepsTransitive DEF Keeps

LEMMA CleaningSound ==
  ASSUME NEW p, Good(p), NEW b \in BOOLEAN, NEW q,
         q = [p EXCEPT !.release_cleaning = b]
  PROVE  /\ Good(q)
         /\ q.release_cleaning = b
         /\ q.ths = p.ths /\ q.unborn = p.unborn /\ q.thq = p.thq
         /\ q.ref = p.ref /\ q.user_ref = p.user_ref /\ q.status = p.status
<1>1. p \in CoreType
  BY DEF Good
<1>2. q \in CoreType
  BY <1>1, Zenon DEF CoreType
<1>3. /\ q.ths = p.ths /\ q.unborn = p.unborn /\ q.thq = p.thq
      /\ q.ref = p.ref /\ q.user_ref = p.user_ref /\ q.status = p.status
      /\ q.rm = p.rm /\ q.run = p.run /\ q.release_cleaning = b
  BY <1>1 DEF CoreType
<1>4. Sound(q)
  BY <1>3 DEF Good, Sound
<1> QED
  BY <1>2, <1>3, <1>4 DEF Good

LEMMA ReleaseStep ==
  ASSUME ReleaseIInv, Release
  PROVE  ReleaseIInv' /\ core'.status # "destroyed"
<1>1. /\ ThreadsInv /\ core \in CoreType /\ core.status = "created"
      /\ "created" \in CoreStatus /\ "destroying" \in CoreStatus
      /\ releaser \in Releaser /\ cleaners \in Nat
  BY DEF ReleaseIInv, Release, Created, ThreadsInv, TypeOK, CoreStatus
<1>2. /\ core.user_ref > (IF held > 0 THEN 1 ELSE 0)
      /\ UNCHANGED <<pc, timed, again, batch, suspect, exq, held, releasing, resizes>>
  BY DEF Release
<1>3. /\ core.user_ref \in Nat /\ held \in Nat
      /\ cleaners = 0 /\ releaser = "no" /\ ~core.release_cleaning
  BY <1>1 DEF ReleaseIInv, ReleaseInv, ThreadsInv, TypeOK, Created
<1>4. core.ref - 1 \in Int /\ core.user_ref - 1 \in Int
  BY <1>1, <1>3, RefsArithmetic
<1>5. core.unborn \subseteq core.ths
  BY <1>1 DEF ThreadsInv, Sound
<1> DEFINE p == [core EXCEPT !.ref = @ - 1, !.user_ref = @ - 1]
<1>6. CASE core.user_ref - 1 # 0
  <2>1. core' = p /\ UNCHANGED <<releaser, cleaners>>
    BY <1>1, <1>6 DEF Release, CoreType
  <2>2. core' = WithRefs(core, core.ref - 1, core.user_ref - 1, "created")
    BY <1>1, <2>1 DEF CoreType, WithRefs
  <2>3. /\ Good(core')
        /\ core'.ref = core.ref - 1 /\ core'.user_ref = core.user_ref - 1
        /\ core'.status = "created"
        /\ core'.ths = core.ths /\ core'.unborn = core.unborn /\ core'.thq = core.thq
        /\ core'.release_cleaning = core.release_cleaning
    BY <1>1, <1>4, <2>2, ReferenceStep
  <2>4. OtherTypesOK'
    BY <1>1, <1>2, <2>1 DEF ThreadsInv, TypeOK, OtherTypesOK
  <2>5. Cardinality(core'.ths) = Cardinality(core.ths)
    BY <2>3
  <2>6. core'.ref = core'.user_ref + Cardinality(core'.ths) + releasing'
    BY <1>1, <1>2, <2>3, <2>5, RefsArithmetic
  <2>7. core'.unborn \cap core.ths = core.unborn
    BY <1>5, <2>3
  <2>8. ThreadsInv'
    BY <1>1, <1>2, <2>3, <2>4, <2>6, <2>7, ReferencesChange
  <2>9. ReleaseInv'
    BY <1>2, <1>3, <1>6, <2>1, <2>3 DEF ReleaseInv, Created
  <2> QED
    BY <2>3, <2>8, <2>9 DEF ReleaseIInv
<1>7. CASE core.user_ref - 1 = 0
  <2> DEFINE d == [p EXCEPT !.status = "destroying"]
  <2>1. LastRelease(p)
    BY <1>1, <1>7 DEF Release, CoreType
  <2>2. d = WithRefs(core, core.ref - 1, core.user_ref - 1, "destroying")
    BY <1>1 DEF CoreType, WithRefs
  <2>3. PICK q \in SweepPending(d) :
          LET w == WakeupAll(q)
              mine == w.ths = {}
          IN  /\ core' = [w EXCEPT !.release_cleaning = mine]
              /\ releaser' = IF mine /\ w.ref # 0 THEN "waiting" ELSE releaser
              /\ cleaners' = IF mine /\ w.ref = 0 THEN cleaners + 1 ELSE cleaners
    BY <2>1 DEF LastRelease
  <2> HIDE DEF p, d
  <2>4. /\ Good(d)
        /\ d.ref = core.ref - 1 /\ d.user_ref = core.user_ref - 1
        /\ d.status = "destroying"
        /\ d.ths = core.ths /\ d.unborn = core.unborn /\ d.thq = core.thq
    BY <1>1, <1>4, <2>2, ReferenceStep
  <2> DEFINE w == WakeupAll(q)
             mine == w.ths = {}
  <2>5. Keeps(d, w)
    BY <2>4, SweepPendingKeeps, WakeupAllKeeps, KeepsTransitive DEF Keeps
  <2>6. /\ core' = [w EXCEPT !.release_cleaning = mine]
        /\ releaser' = IF mine /\ w.ref # 0 THEN "waiting" ELSE releaser
        /\ cleaners' = IF mine /\ w.ref = 0 THEN cleaners + 1 ELSE cleaners
    BY <2>3
  <2>7. mine \in BOOLEAN /\ (mine <=> w.ths = {}) /\ Good(w)
    BY <2>5 DEF Keeps
  <2> HIDE DEF w, mine
  <2>8. /\ Good(core') /\ core'.release_cleaning = mine
        /\ core'.ths = w.ths /\ core'.unborn = w.unborn /\ core'.thq = w.thq
        /\ core'.ref = w.ref /\ core'.user_ref = w.user_ref /\ core'.status = w.status
    <3>1. core' = [w EXCEPT !.release_cleaning = mine]
      BY <2>6
    <3>2. mine \in BOOLEAN /\ Good(w)
      BY <2>7
    <3> QED
      BY ONLY <3>1, <3>2, CleaningSound, ZenonT(60)
  <2>9. /\ d.ths \subseteq w.ths
        /\ w.ref - Cardinality(w.ths) = d.ref - Cardinality(d.ths)
        /\ w.user_ref = d.user_ref /\ w.status = d.status
        /\ w.unborn \cap d.ths = d.unborn
        /\ \A t \in Threads : d.thq[t] \subseteq w.thq[t]
    BY <2>5 DEF Keeps, Grows
  <2>10. Cardinality(core'.ths) \in Nat /\ core'.ref \in Int
    BY <2>8, SizeOfThreads DEF Good, CoreType
  <2>11. core'.ref = core'.user_ref + Cardinality(core'.ths) + releasing'
    <3>1. Cardinality(core'.ths) = Cardinality(w.ths)
          /\ Cardinality(d.ths) = Cardinality(core.ths)
      BY <2>4, <2>8, Zenon
    <3>2. core'.ref - Cardinality(core'.ths) = core.ref - 1 - Cardinality(core.ths)
      BY <2>4, <2>8, <2>9, <3>1
    <3>3. core'.user_ref = core.user_ref - 1
      BY <2>4, <2>8, <2>9
    <3> QED
      BY <1>1, <1>2, <2>10, <3>2, <3>3, RefsArithmetic
  <2>12. releaser' \in Releaser /\ cleaners' \in Nat
    BY <1>1, <2>6 DEF Releaser
  <2>13. OtherTypesOK'
    BY <1>1, <1>2, <2>12 DEF ThreadsInv, TypeOK, OtherTypesOK
  <2>14. ThreadsInv'
    BY <1>1, <1>2, <2>4, <2>8, <2>9, <2>11, <2>13, ReferencesChange
  <2>15. ReleaseInv'
    <3>1. core'.user_ref = 0 /\ core'.status = "destroying" /\ held' = 0
      BY <1>2, <1>3, <1>7, <2>4, <2>8, <2>9
    <3>2. /\ core'.release_cleaning <=> core'.ths = {}
          /\ releaser' = IF core'.ths = {} /\ core'.ref # 0 THEN "waiting" ELSE "no"
          /\ cleaners' = IF core'.ths = {} /\ core'.ref = 0 THEN 1 ELSE 0
      BY <1>3, <2>6, <2>7, <2>8
    <3> QED
      BY <3>1, <3>2 DEF ReleaseInv, Created
  <2> QED
    BY <2>4, <2>8, <2>9, <2>14, <2>15 DEF ReleaseIInv
<1> QED
  BY <1>6, <1>7

LEMMA ReleaserWakesStep ==
  ASSUME ReleaseIInv, ReleaserWakes
  PROVE  ReleaseIInv'
<1>1. ThreadsInv /\ core.status \in CoreStatus /\ cleaners \in Nat
  BY DEF ReleaseIInv, ThreadsInv, TypeOK, CoreType
<1>2. /\ releaser = "woken"
      /\ UNCHANGED <<core, pc, timed, again, batch, suspect, exq, held, releasing, resizes>>
      /\ \/ (core.ths # {} \/ core.ref # 0) /\ releaser' = "waiting" /\ cleaners' = cleaners
         \/ core.ths = {} /\ core.ref = 0 /\ releaser' = "no" /\ cleaners' = cleaners + 1
  BY DEF ReleaserWakes
<1>3. core.status = "destroying" /\ core.release_cleaning
  BY <1>1, <1>2 DEF ReleaseIInv, ReleaseInv, CoreStatus, Created
<1>4. releaser' \in Releaser /\ cleaners' \in Nat
  BY <1>1, <1>2 DEF Releaser
<1>5. OtherTypesOK'
  BY <1>1, <1>2, <1>4 DEF ThreadsInv, TypeOK, OtherTypesOK
<1>6. ThreadsInv'
  BY <1>1, <1>2, <1>5, TypeSplitNext
     DEF ThreadsInv, TypeOK, Placed, RefsAccounted
<1>7. ReleaseInv'
  BY <1>2, <1>3 DEF ReleaseIInv, ReleaseInv, Created
<1> QED
  BY <1>6, <1>7 DEF ReleaseIInv

LEMMA ReleaserStirsStep ==
  ASSUME ReleaseIInv, ReleaserStirs
  PROVE  ReleaseIInv'
<1>1. /\ ThreadsInv /\ releaser = "waiting" /\ releaser' = "woken"
      /\ UNCHANGED <<core, pc, timed, again, batch, suspect, exq, held, releasing,
                     cleaners, resizes>>
  BY DEF ReleaseIInv, ReleaserStirs
<1>2. releaser' \in Releaser
  BY <1>1 DEF Releaser
<1>3. OtherTypesOK'
  BY <1>1, <1>2 DEF ThreadsInv, TypeOK, OtherTypesOK
<1>4. ThreadsInv'
  BY <1>1, <1>3, TypeSplitNext DEF ThreadsInv, TypeOK, Placed, RefsAccounted
<1>5. ReleaseInv'
  BY <1>1 DEF ReleaseIInv, ReleaseInv, Created
<1> QED
  BY <1>4, <1>5 DEF ReleaseIInv

LEMMA DestroyStep ==
  ASSUME ReleaseIInv, Destroy
  PROVE  ReleaseIInv'
<1>1. /\ ThreadsInv /\ core \in CoreType /\ core.status \in CoreStatus
      /\ "destroyed" \in CoreStatus /\ cleaners \in Nat
  BY DEF ReleaseIInv, ThreadsInv, TypeOK, CoreType, CoreStatus
<1>2. /\ cleaners > 0 /\ cleaners' = cleaners - 1
      /\ UNCHANGED <<pc, timed, again, batch, suspect, exq, held, releasing,
                     releaser, resizes>>
  BY DEF Destroy
<1>3. core' = WithRefs(core, core.ref, core.user_ref, "destroyed")
  BY <1>1 DEF Destroy, CoreType, WithRefs
<1>4. /\ Good(core')
      /\ core'.ref = core.ref /\ core'.user_ref = core.user_ref
      /\ core'.status = "destroyed"
      /\ core'.ths = core.ths /\ core'.unborn = core.unborn /\ core'.thq = core.thq
  BY <1>1, <1>3, ReferenceStep, RefsArithmetic
<1>5. /\ core.status = "destroying" /\ cleaners = 1
      /\ core.ths = {} /\ releaser = "no" /\ core.user_ref = 0 /\ held = 0
  BY <1>1, <1>2, RefsArithmetic
     DEF ReleaseIInv, ReleaseInv, CoreStatus, Created, ThreadsInv, TypeOK
<1>6. releasing = 0
  BY <1>1, <1>5, RefsArithmetic DEF ReleaseIInv, ReleaseInv
<1>7. OtherTypesOK'
  BY <1>1, <1>2, <1>5 DEF ThreadsInv, TypeOK, OtherTypesOK
<1>8. core'.ref = core'.user_ref + Cardinality(core'.ths) + releasing'
  <2>1. Cardinality(core'.ths) = Cardinality(core.ths)
    BY <1>4
  <2> QED
    BY <1>1, <1>2, <1>4, <2>1, RefsArithmetic
<1>9. core'.unborn \cap core.ths = core.unborn
  BY <1>1, <1>4 DEF ThreadsInv, Sound
<1>10. ThreadsInv'
  BY <1>1, <1>2, <1>4, <1>7, <1>8, <1>9, ReferencesChange
<1>11. ReleaseInv'
  BY <1>2, <1>4, <1>5, <1>6 DEF ReleaseInv, Created
<1> QED
  BY <1>10, <1>11 DEF ReleaseIInv

\* A thread that makes a step is in the pool.
LEMMA ActorInPool ==
  ASSUME ThreadsInv, NEW t \in Threads, Step(t) \/ TimeOut(t) \/ MarkAgain(t)
  PROVE  core.ths # {}
<1>1. pc[t] # "entry" \/ t \in core.ths
  BY DEF Step, TimeOut, MarkAgain, Join, TakeDispatch, TakeTask, Quit, Sleep,
         Wake, CreateThread, CreateFails, Suspect, Recheck, FinishTask,
         FinishDispatched, Requeue, Test, Collect, Stay, Leave
<1> QED
  BY <1>1, InThePool

LEMMA ThreadReleaseStep ==
  ASSUME ReleaseIInv, NEW t \in Threads, Step(t) \/ TimeOut(t) \/ MarkAgain(t)
  PROVE  ReleaseIInv'
<1>1. ThreadsInv' /\ ThreadFrame /\ core.ths # {}
  BY ThreadSteps, ActorInPool DEF ReleaseIInv
<1>2. core.status \in CoreStatus
  BY DEF ReleaseIInv, ThreadsInv, TypeOK, CoreType
<1>3. ReleaseInv'
  BY <1>1, <1>2 DEF ReleaseIInv, ReleaseInv, ThreadFrame, Created, CoreStatus
<1> QED
  BY <1>1, <1>3 DEF ReleaseIInv

LEMMA UserReleaseStep ==
  ASSUME ReleaseIInv,
         \/ Queue \/ RemoveAll \/ DispatchRemoved \/ Suspend \/ Resume
         \/ Flush \/ Adjust \/ AddRef
  PROVE  ReleaseIInv'
<1>1. ThreadsInv' /\ UserFrame
  BY UserSteps DEF ReleaseIInv
<1>2. Created /\ core'.user_ref \in Int
  BY <1>1 DEF ReleaseIInv, ReleaseInv, UserFrame, ThreadsInv, TypeOK, CoreType
<1>3. ReleaseInv'
  BY <1>1, <1>2 DEF ReleaseIInv, ReleaseInv, UserFrame, Created
<1> QED
  BY <1>1, <1>3 DEF ReleaseIInv

LEMMA UnchangedStep ==
  ASSUME ReleaseIInv, UNCHANGED vars
  PROVE  ReleaseIInv'
BY Zenon DEF ReleaseIInv, ReleaseInv, ThreadsInv, TypeOK, Placed, RefsAccounted,
   Created, vars

-----------------------------------------------------------------------------

LEMMA ReleaseIInvInit ==
  ASSUME Init
  PROVE  ReleaseIInv /\ Created
<1> DEFINE min == IF Dynamic THEN InitMin ELSE InitMax
           p == NewCore(InitMax, min, InitPaused)
<1>1. min \in Int /\ InitMax \in Int /\ InitPaused \in BOOLEAN
  BY BoundAssumption
<1>2. core \in AddThreads(p, NoSelf, min)
  BY DEF Init
<1>3. Good(p) /\ p.user_ref = 1 /\ p.status = "created" /\ ~p.release_cleaning
  BY <1>1, NewCoreGood
<1> HIDE DEF p, min
<1>4. Keeps(p, core)
  BY <1>2, <1>3, AddThreadsKeeps
<1>5. core.user_ref = 1 /\ core.status = "created" /\ ~core.release_cleaning
  BY <1>3, <1>4 DEF Keeps, Grows
<1>6. held = 0 /\ cleaners = 0 /\ releaser = "no"
  BY DEF Init
<1> QED
  BY <1>5, <1>6, ThreadsInvInit DEF ReleaseIInv, ReleaseInv, Created

LEMMA ReleaseIInvNext ==
  ASSUME ReleaseIInv, [Next]_vars
  PROVE  ReleaseIInv'
<1>1. CASE \E t \in Threads : Step(t) \/ TimeOut(t) \/ MarkAgain(t)
  BY <1>1, ThreadReleaseStep
<1>2. CASE ReleaseByThread
  BY <1>2, ReleaseByThreadStep
<1>3. CASE ReleaserWakes
  BY <1>3, ReleaserWakesStep
<1>4. CASE Destroy
  BY <1>4, DestroyStep
<1>8. CASE ReleaserStirs
  BY <1>8, ReleaserStirsStep
<1>5. CASE Users
  BY <1>5, ReleaseStep, UserReleaseStep DEF Users
<1>6. CASE Gone
  BY <1>6, UnchangedStep DEF Gone
<1>7. CASE UNCHANGED vars
  BY <1>7, UnchangedStep
<1> QED
  BY <1>1, <1>2, <1>3, <1>4, <1>5, <1>6, <1>7, <1>8 DEF Next

LEMMA ReleaseIInvAlways == Spec => []ReleaseIInv
<1>1. Init => ReleaseIInv
  BY ReleaseIInvInit
<1>2. ReleaseIInv /\ [Next]_vars => ReleaseIInv'
  BY ReleaseIInvNext
<1> QED
  BY <1>1, <1>2, PTL DEF Spec

\* Every variable keeps its type: no task counter becomes negative, whatever
\* users and threads do to them, and no thread object is lost.
THEOREM TypeCorrect == Spec => []TypeOK
<1>1. ReleaseIInv => TypeOK
  BY DEF ReleaseIInv, ThreadsInv
<1> QED
  BY <1>1, ReleaseIInvAlways, PTL

\* A thread goes on looking for work exactly if it is not marked dead.
THEOREM AliveRunsAlways == Spec => []AliveRuns
<1>1. ReleaseIInv => AliveRuns
  BY DEF ReleaseIInv, ThreadsInv, Sound, AliveRuns
<1> QED
  BY <1>1, ReleaseIInvAlways, PTL

\* The reference count always equals the users, the threads in the pool and
\* those that left it without having dropped their reference yet.
THEOREM RefsAlwaysAccounted == Spec => []RefsAccounted
<1>1. ReleaseIInv => RefsAccounted
  BY DEF ReleaseIInv, ThreadsInv
<1> QED
  BY <1>1, ReleaseIInvAlways, PTL

\* Whatever the race between the last user and the last threads to leave, one
\* of them and only one frees the pool, and nobody is left in it then.
THEOREM PoolFreedOnce == Spec => []FreedOnce
<1>1. ReleaseIInv => FreedOnce
  <2> SUFFICES ASSUME ReleaseIInv, cleaners > 0 \/ core.status = "destroyed"
               PROVE  /\ cleaners = (IF core.status = "destroyed" THEN 0 ELSE 1)
                      /\ core.ref = 0 /\ core.ths = {}
                      /\ releasing = 0 /\ releaser = "no"
    BY DEF FreedOnce
  <2>1. ThreadsInv /\ core.status \in CoreStatus
    BY DEF ReleaseIInv, ThreadsInv, TypeOK, CoreType
  <2>2. /\ cleaners = (IF core.status = "destroyed" THEN 0 ELSE 1)
        /\ core.ths = {} /\ releaser = "no" /\ core.user_ref = 0
        /\ core.ref = 0 \/ releasing = 0
    BY <2>1 DEF ReleaseIInv, ReleaseInv, Created, CoreStatus
  <2> QED
    BY <2>1, <2>2, RefsArithmetic
<1> QED
  BY <1>1, ReleaseIInvAlways, PTL

-----------------------------------------------------------------------------
(***************************************************************************)
(* The invariant.  It goes with ReleaseIInv, which has the types, the      *)
(* soundness of the sets and the protocol of release.                      *)
(***************************************************************************)

\* Who runs something, as Asleep is who sleeps.
Busy == {t \in core.ths : core.stat[t] = "RUN"}

\* What a thread has for its status where it is.
StatusFits(t) ==
    /\ core.stat[t] = "WAIT" <=> pc[t] = "asleep"
    /\ core.stat[t] = "RUN" <=>
          Dynamic /\ \/ pc[t] \in {"create", "exec", "lost"}
                     \/ pc[t] = "requeue" /\ batch[t] > 0

\* Who is marked dead has only to leave, and threads are asked to create others
\* only on their way to doing so.
Undisturbed(t) ==
    /\ t \in core.rm => pc[t] \in {"test", "leave"}
    /\ core.thq[t] # {} => pc[t] = "create"
    /\ suspect[t] = NoSelf

\* As long as nobody resizes the pool.
Unresized ==
    /\ Classes(core, Asleep, Busy)
    /\ \A t \in Threads : Undisturbed(t)
    /\ Owned(core)
    /\ core.maxthreads = InitMax
    /\ core.minthreads = (IF Dynamic THEN InitMin ELSE InitMax)
    /\ core.real_pool <= core.maxthreads

\* ... and if pthread_create does not fail, work has a server.
Served ==
    /\ Created => core.real_pool >= core.minthreads
    /\ WorkReady => Server(core)
    /\ TaskReady /\ Created => Conserved(core)

ServiceInv ==
    /\ Counted(core, Asleep)
    /\ \A t \in Threads : StatusFits(t)
    /\ resizes = 0 => Unresized
    /\ resizes = 0 /\ ~CreateMayFail => Served

-----------------------------------------------------------------------------
(***************************************************************************)
(* The steps of CpoolCore                                                  *)
(***************************************************************************)

\* A step in which only the threads in T do something of their own, after
\* which A sleep and B run something.
LEMMA ActorsStep ==
  ASSUME ReleaseIInv, ServiceInv, NEW T \in SUBSET Threads, NEW A, NEW B,
         Good(core'), Counted(core', A), Moves(core, core', T),
         \A o \in Threads \ T :
           pc'[o] = pc[o] /\ batch'[o] = batch[o] /\ suspect'[o] = suspect[o],
         \A t \in T : StatusFits(t)',
         A = (Asleep \ T) \cup {t \in T : core'.stat[t] = "WAIT"},
         B = (Busy \ T) \cup {t \in T : core'.stat[t] = "RUN"},
         resizes' = 0 =>
           /\ resizes = 0 /\ Acts(core, core', T) /\ Classes(core', A, B)
           /\ core'.real_pool <= core'.maxthreads
           /\ \A t \in T : Undisturbed(t)',
         resizes' = 0 /\ ~CreateMayFail => Served'
  PROVE  ServiceInv'
<1>1. /\ core.ths \in SUBSET Threads /\ core'.ths \in SUBSET Threads
      /\ Outside(core) /\ Outside(core')
  BY DEF ReleaseIInv, ThreadsInv, TypeOK, CoreType, Good, ServiceInv, Counted
<1>2. \A o \in Threads \ T : /\ core'.stat[o] = "WAIT" <=> core.stat[o] = "WAIT"
                             /\ core'.stat[o] = "RUN" <=> core.stat[o] = "RUN"
                             /\ o \in core.ths => o \in core'.ths
  BY DEF Moves
<1>3. \A o \in Threads : core.stat[o] \in {"WAIT", "RUN"} => o \in core.ths
  BY <1>1 DEF Outside
<1>4. \A o \in Threads : core'.stat[o] \in {"WAIT", "RUN"} => o \in core'.ths
  BY <1>1 DEF Outside
<1>5. Asleep' = A
  BY <1>1, <1>2, <1>3, <1>4 DEF Asleep
<1>6. Busy' = B
  BY <1>1, <1>2, <1>3, <1>4 DEF Busy
<1>7. \A t \in Threads : StatusFits(t)'
  <2> SUFFICES ASSUME NEW t \in Threads \ T
               PROVE  StatusFits(t)'
    OBVIOUS
  <2>1. StatusFits(t)
    BY DEF ServiceInv
  <2>2. pc'[t] = pc[t] /\ batch'[t] = batch[t]
    OBVIOUS
  <2> QED
    BY <1>2, <2>1, <2>2 DEF StatusFits
<1>8. ASSUME resizes' = 0
      PROVE  Unresized'
  <2>1. Unresized /\ Acts(core, core', T)
    BY <1>8 DEF ServiceInv
  <2>2. \A t \in Threads : Undisturbed(t)'
    <3> SUFFICES ASSUME NEW t \in Threads \ T
                 PROVE  Undisturbed(t)'
      BY <1>8
    <3>1. Undisturbed(t)
      BY <2>1 DEF Unresized
    <3>2. (t \in core'.rm => t \in core.rm) /\ core'.thq[t] = core.thq[t]
      BY <2>1 DEF Acts
    <3>3. pc'[t] = pc[t] /\ suspect'[t] = suspect[t]
      OBVIOUS
    <3> QED
      BY <3>1, <3>2, <3>3 DEF Undisturbed
  <2>3. /\ core'.maxthreads = core.maxthreads /\ core'.minthreads = core.minthreads
        /\ Owned(core')
    BY <2>1 DEF Acts, Unresized
  <2>4. Classes(core', Asleep', Busy') /\ core'.real_pool <= core'.maxthreads
    BY <1>5, <1>6, <1>8
  <2> QED
    BY <2>1, <2>2, <2>3, <2>4 DEF Unresized
<1> QED
  BY <1>5, <1>7, <1>8 DEF ServiceInv

\* A step of a thread t, which goes to l.
LEMMA ThreadServes ==
  ASSUME ReleaseIInv, ServiceInv, NEW t \in Threads, NEW l \in Location, NEW A, NEW B,
         Good(core'), Counted(core', A), Moves(core, core', {t}),
         Goto(t, l), suspect' = suspect, resizes' = resizes,
         \A o \in Threads \ {t} : batch'[o] = batch[o],
         StatusFits(t)',
         A = IF core'.stat[t] = "WAIT" THEN Asleep \cup {t} ELSE Asleep \ {t},
         B = IF core'.stat[t] = "RUN" THEN Busy \cup {t} ELSE Busy \ {t},
         resizes = 0 =>
           /\ Acts(core, core', {t}) /\ Classes(core', A, B)
           /\ core'.real_pool <= core'.maxthreads
           /\ t \in core'.rm => l \in {"test", "leave"}
           /\ core'.thq[t] # {} => l = "create",
         resizes = 0 /\ ~CreateMayFail => Served'
  PROVE  ServiceInv'
<1>1. /\ pc'[t] = l
      /\ \A o \in Threads \ {t} : pc'[o] = pc[o]
  BY DEF Goto, ReleaseIInv, ThreadsInv, TypeOK
<1>2. /\ A = (Asleep \ {t}) \cup {o \in {t} : core'.stat[o] = "WAIT"}
      /\ B = (Busy \ {t}) \cup {o \in {t} : core'.stat[o] = "RUN"}
  OBVIOUS
<1>3. resizes = 0 => Undisturbed(t)'
  <2> SUFFICES ASSUME resizes = 0
               PROVE  Undisturbed(t)'
    OBVIOUS
  <2>1. suspect[t] = NoSelf
    BY DEF ServiceInv, Unresized, Undisturbed
  <2> QED
    BY <1>1, <2>1 DEF Undisturbed
<1>4. /\ {t} \in SUBSET Threads
      /\ \A o \in {t} : StatusFits(o)'
      /\ resizes = 0 => \A o \in {t} : Undisturbed(o)'
  BY <1>3
<1>5. \A o \in Threads \ {t} :
        pc'[o] = pc[o] /\ batch'[o] = batch[o] /\ suspect'[o] = suspect[o]
  BY <1>1
<1> QED
  BY <1>2, <1>4, <1>5, ActorsStep

\* A step that moves no thread.
LEMMA OthersServe ==
  ASSUME ReleaseIInv, ServiceInv,
         Good(core'), Counted(core', Asleep), Moves(core, core', {}),
         UNCHANGED <<pc, batch, suspect>>,
         resizes' = 0 =>
           /\ resizes = 0 /\ Acts(core, core', {}) /\ Classes(core', Asleep, Busy)
           /\ core'.real_pool <= core'.maxthreads,
         resizes' = 0 /\ ~CreateMayFail => Served'
  PROVE  ServiceInv'
<1>1. /\ Asleep = (Asleep \ {}) \cup {t \in {} : core'.stat[t] = "WAIT"}
      /\ Busy = (Busy \ {}) \cup {t \in {} : core'.stat[t] = "RUN"}
      /\ {} \in SUBSET Threads
      /\ \A t \in {} : StatusFits(t)'
      /\ \A t \in {} : Undisturbed(t)'
      /\ \A o \in Threads \ {} :
           pc'[o] = pc[o] /\ batch'[o] = batch[o] /\ suspect'[o] = suspect[o]
  OBVIOUS
<1> QED
  BY <1>1, ActorsStep

-----------------------------------------------------------------------------

\* What the invariants say of a thread of the pool, and of its limits.
LEMMA ThreadFacts ==
  ASSUME ReleaseIInv, ServiceInv, NEW t \in Threads
  PROVE  /\ Good(core) /\ Counted(core, Asleep) /\ StatusFits(t)
         /\ t \in Asleep <=> core.stat[t] = "WAIT"
         /\ t \in Busy <=> core.stat[t] = "RUN"
         /\ pc[t] # "entry" => t \in core.ths \ core.unborn
         /\ resizes = 0 =>
              /\ Classes(core, Asleep, Busy) /\ core.real_pool <= core.maxthreads
              /\ pc[t] \notin {"test", "leave"} => t \notin core.rm
              /\ pc[t] # "create" => core.thq[t] = {}
<1>1. ThreadsInv /\ Good(core)
  BY GoodCore DEF ReleaseIInv
<1>2. Counted(core, Asleep) /\ StatusFits(t)
  BY DEF ServiceInv
<1>3. /\ t \in Asleep <=> core.stat[t] = "WAIT"
      /\ t \in Busy <=> core.stat[t] = "RUN"
  BY <1>2 DEF Asleep, Busy, Counted, Outside
<1>4. pc[t] # "entry" => t \in core.ths \ core.unborn
  BY <1>1, InThePool
<1>5. resizes = 0 =>
        /\ Classes(core, Asleep, Busy) /\ core.real_pool <= core.maxthreads
        /\ pc[t] \notin {"test", "leave"} => t \notin core.rm
        /\ pc[t] # "create" => core.thq[t] = {}
  BY DEF ServiceInv, Unresized, Undisturbed
<1> QED
  BY <1>1, <1>2, <1>3, <1>4, <1>5

LEMMA LimitFacts ==
  ASSUME ReleaseIInv, ServiceInv, resizes = 0
  PROVE  /\ core.maxthreads > 0 /\ core.maxthreads <= Cardinality(Threads)
         /\ core.maxthreads \in Int
         /\ ~Dynamic => core.minthreads = core.maxthreads
<1>1. core.maxthreads = InitMax /\ (~Dynamic => core.minthreads = InitMax)
  BY DEF ServiceInv, Unresized
<1> QED
  BY <1>1, BoundAssumption

\* Work is served ...
LEMMA ServedAlike ==
  ASSUME Served, Alike(core, core'),
         Created' => Created, WorkReady' => WorkReady, TaskReady' => TaskReady
  PROVE  Served'
<1>1. Server(core) => Server(core')
  BY DEF Alike, Server
<1>2. Conserved(core) => Conserved(core')
  BY DEF Alike, Conserved, NoServer
<1>3. core'.real_pool = core.real_pool /\ core'.minthreads = core.minthreads
  BY DEF Alike
<1> QED
  BY <1>1, <1>2, <1>3 DEF Served

\* ... if a server is on the way or all of the pool's threads are busy.
LEMMA ConservedServes ==
  ASSUME NEW A, NEW B, Good(core'), Counted(core', A), Classes(core', A, B),
         Conserved(core'), core'.maxthreads > 0,
         Created' => core'.real_pool >= core'.minthreads
  PROVE  Served'
<1>1. \A q : /\ Good(q) /\ Counted(q, A) /\ Classes(q, A, B)
             /\ Conserved(q) /\ q.maxthreads > 0
             => Server(q)
  BY ConservedServer
<1>2. Server(core')
  BY <1>1
<1> QED
  BY <1>2 DEF Served

-----------------------------------------------------------------------------

\* Where a thread gets to: t goes to l with the status it has.
LEMMA WentTo ==
  ASSUME ReleaseIInv, NEW t \in Threads, NEW l \in Location, Goto(t, l)
  PROVE  pc'[t] = l
BY DEF ReleaseIInv, ThreadsInv, TypeOK, Goto

LEMMA JoinServes ==
  ASSUME ReleaseIInv, ServiceInv, NEW t \in Threads, Join(t)
  PROVE  ServiceInv'
<1>1. /\ pc[t] = "entry" /\ t \in core.ths
      /\ core' = SetStatus(core, t, "JOIN") /\ Goto(t, "gettask")
      /\ UNCHANGED <<batch, suspect, resizes>>
  BY DEF Join, SetStatus
<1>2. /\ Good(core) /\ Counted(core, Asleep) /\ StatusFits(t)
      /\ t \in Asleep <=> core.stat[t] = "WAIT"
      /\ t \in Busy <=> core.stat[t] = "RUN"
  BY ThreadFacts
<1>3. t \notin Asleep /\ t \notin Busy
  BY <1>1, <1>2 DEF StatusFits
<1>4. "JOIN" \in ThreadStatus \ {"WAIT"} /\ "gettask" \in Location
  BY DEF ThreadStatus, Location
<1>5. Good(core') /\ Counted(core', Asleep)
  BY <1>1, <1>2, <1>4, SetStatusCounted
<1>6. Acts(core, core', {t}) /\ core'.stat[t] = "JOIN"
  <2>1. \A x : x = SetStatus(core, t, "JOIN") => Acts(core, x, {t})
    BY <1>1, <1>2, <1>4, SetStatusCounted
  <2>2. \A x : x = SetStatus(core, t, "JOIN") => x.stat[t] = "JOIN"
    BY <1>2 DEF SetStatus, Good, CoreType
  <2> QED
    BY <1>1, <2>1, <2>2
<1>7. Alike(core, core') /\ Orders(core, core')
  BY <1>1, <1>2, <1>4, SetStatusCounted
<1>8. \A B : Classes(core, Asleep, B) => Classes(core', Asleep, B)
  <2>1. \A x : x = SetStatus(core, t, "JOIN") =>
          \A B : Classes(core, Asleep, B) => Classes(x, Asleep, B)
    BY <1>1, <1>2, <1>4, SetStatusCounted
  <2> QED
    BY <1>1, <2>1
<1>9. pc'[t] = "gettask"
  BY <1>1, <1>4, WentTo
<1>10. StatusFits(t)'
  BY <1>6, <1>9 DEF StatusFits
<1>11. ASSUME resizes = 0
       PROVE  /\ Classes(core', Asleep, Busy) /\ core'.real_pool <= core'.maxthreads
              /\ t \notin core'.rm /\ core'.thq[t] = {}
  <2>1. /\ Classes(core, Asleep, Busy) /\ core.real_pool <= core.maxthreads
        /\ t \notin core.rm /\ core.thq[t] = {}
    BY <1>1, <1>11, ThreadFacts
  <2> QED
    BY <1>7, <1>8, <2>1 DEF Alike
<1>12. ASSUME resizes = 0, ~CreateMayFail
       PROVE  Served'
  <2>1. Served
    BY <1>12 DEF ServiceInv
  <2>2. core'.status = core.status
    BY <1>1, <1>2 DEF SetStatus, Good, CoreType
  <2> QED
    BY <1>7, <2>1, <2>2, ServedAlike DEF Created, WorkReady, TaskReady, Orders
<1>13. /\ Asleep = IF core'.stat[t] = "WAIT" THEN Asleep \cup {t} ELSE Asleep \ {t}
       /\ Busy = IF core'.stat[t] = "RUN" THEN Busy \cup {t} ELSE Busy \ {t}
  BY <1>3, <1>6
<1>14. Moves(core, core', {t})
  BY <1>6 DEF Acts
<1> QED
  BY <1>1, <1>4, <1>5, <1>6, <1>10, <1>11, <1>12, <1>13, <1>14, ThreadServes

\* Steps of t that leave the core alone.
LEMMA IdleServes ==
  ASSUME ReleaseIInv, ServiceInv, NEW t \in Threads, NEW l \in Location,
         Goto(t, l), UNCHANGED <<core, batch, suspect, resizes>>,
         StatusFits(t)',
         resizes = 0 => /\ t \in core.rm => l \in {"test", "leave"}
                        /\ core.thq[t] # {} => l = "create"
  PROVE  ServiceInv'
<1>1. /\ Good(core) /\ Counted(core, Asleep)
      /\ t \in Asleep <=> core.stat[t] = "WAIT"
      /\ t \in Busy <=> core.stat[t] = "RUN"
  BY ThreadFacts
<1>2. core' = core /\ batch' = batch
  OBVIOUS
<1>3. Good(core') /\ Counted(core', Asleep)
  BY <1>1, <1>2
<1>4. Acts(core, core', {t}) /\ Moves(core, core', {t})
  BY <1>2 DEF Acts, Moves
<1>5. /\ Asleep = IF core'.stat[t] = "WAIT" THEN Asleep \cup {t} ELSE Asleep \ {t}
      /\ Busy = IF core'.stat[t] = "RUN" THEN Busy \cup {t} ELSE Busy \ {t}
  BY <1>1, <1>2
<1>6. resizes = 0 => /\ Classes(core', Asleep, Busy)
                     /\ core'.real_pool <= core'.maxthreads
                     /\ t \in core'.rm => l \in {"test", "leave"}
                     /\ core'.thq[t] # {} => l = "create"
  BY <1>2, ThreadFacts
<1>7. ASSUME resizes = 0, ~CreateMayFail
      PROVE  Served'
  <2>1. Served
    BY <1>7 DEF ServiceInv
  <2> QED
    BY <1>2, <2>1 DEF Served, Created, WorkReady, TaskReady
<1> QED
  BY <1>2, <1>3, <1>4, <1>5, <1>6, <1>7, ThreadServes

LEMMA TestServes ==
  ASSUME ReleaseIInv, ServiceInv, NEW t \in Threads, Test(t)
  PROVE  ServiceInv'
<1>1. PICK l \in {"gettask", "leave"} :
        /\ Goto(t, l) /\ l = IF t \in core.run THEN "gettask" ELSE "leave"
        /\ pc[t] = "test" /\ UNCHANGED <<core, batch, suspect, resizes>>
  BY DEF Test
<1>2. l \in Location /\ pc'[t] = l
  BY <1>1, WentTo DEF Location
<1>3. StatusFits(t)'
  <2>1. StatusFits(t) /\ core' = core
    BY <1>1, ThreadFacts
  <2> QED
    BY <1>1, <1>2, <2>1 DEF StatusFits
<1>4. t \in core.rm => l = "leave"
  BY <1>1 DEF ReleaseIInv, ThreadsInv, Sound
<1>5. resizes = 0 => core.thq[t] = {}
  BY <1>1, ThreadFacts
<1> QED
  BY <1>1, <1>2, <1>3, <1>4, <1>5, IdleServes

LEMMA CollectServes ==
  ASSUME ReleaseIInv, ServiceInv, NEW t \in Threads, Collect(t)
  PROVE  ServiceInv'
<1>1. /\ pc[t] = "gettask" /\ Goto(t, "test")
      /\ UNCHANGED <<core, batch, suspect, resizes>>
  BY DEF Collect
<1>2. "test" \in Location /\ pc'[t] = "test"
  BY <1>1, WentTo DEF Location
<1>3. StatusFits(t)'
  <2>1. StatusFits(t) /\ core' = core
    BY <1>1, ThreadFacts
  <2> QED
    BY <1>1, <1>2, <2>1 DEF StatusFits
<1>4. resizes = 0 => core.thq[t] = {}
  BY <1>1, ThreadFacts
<1> QED
  BY <1>1, <1>2, <1>3, <1>4, IdleServes

LEMMA StayServes ==
  ASSUME ReleaseIInv, ServiceInv, NEW t \in Threads, Stay(t)
  PROVE  ServiceInv'
<1>1. /\ pc[t] = "leave" /\ t \in core.run /\ Goto(t, "gettask")
      /\ UNCHANGED <<core, batch, suspect, resizes>>
  BY DEF Stay
<1>2. "gettask" \in Location /\ pc'[t] = "gettask"
  BY <1>1, WentTo DEF Location
<1>3. StatusFits(t)'
  <2>1. StatusFits(t) /\ core' = core
    BY <1>1, ThreadFacts
  <2> QED
    BY <1>1, <1>2, <2>1 DEF StatusFits
<1>4. t \notin core.rm
  BY <1>1 DEF ReleaseIInv, ThreadsInv, Sound
<1>5. resizes = 0 => core.thq[t] = {}
  BY <1>1, ThreadFacts
<1> QED
  BY <1>1, <1>2, <1>3, <1>4, <1>5, IdleServes

LEMMA MarkAgainServes ==
  ASSUME ReleaseIInv, ServiceInv, NEW t \in Threads, MarkAgain(t)
  PROVE  ServiceInv'
<1>1. /\ pc[t] = "exec" /\ pc' = pc
      /\ UNCHANGED <<core, batch, suspect, resizes>>
  BY DEF MarkAgain
<1>2. "exec" \in Location /\ Goto(t, "exec")
  BY <1>1 DEF Location, Goto, ReleaseIInv, ThreadsInv, TypeOK
<1>3. StatusFits(t)'
  <2>1. StatusFits(t) /\ core' = core /\ batch' = batch /\ pc' = pc
    BY <1>1, ThreadFacts
  <2> QED
    BY <2>1 DEF StatusFits
<1>4. resizes = 0 => t \notin core.rm /\ core.thq[t] = {}
  BY <1>1, ThreadFacts
<1> QED
  BY <1>1, <1>2, <1>3, <1>4, IdleServes

-----------------------------------------------------------------------------

\* A thread that finds nothing to take leaves no work behind.
LEMMA NoWork ==
  ASSUME ReleaseIInv, NothingToTake \/ (\E t \in Threads : MayRetire(core, t)),
         Orders(core, core')
  PROVE  ~WorkReady' /\ ~TaskReady'
<1>1. core.n_qdispatchs \in Nat /\ core.npendings \in Nat
  BY DEF ReleaseIInv, ThreadsInv, TypeOK, CoreType
<1> QED
  BY <1>1 DEF NothingToTake, MayRetire, WorkReady, TaskReady, Orders

LEMMA QuitServes ==
  ASSUME ReleaseIInv, ServiceInv, NEW t \in Threads, Quit(t)
  PROVE  ServiceInv'
<1>1. /\ pc[t] = "gettask" /\ NothingToTake /\ (~Created \/ t \in core.rm)
      /\ core' = StatusForceQuit(core, t) /\ Goto(t, "test")
      /\ UNCHANGED <<batch, suspect, resizes>>
  BY DEF Quit, MustQuit
<1>2. /\ Good(core) /\ Counted(core, Asleep)
      /\ t \notin Asleep /\ t \notin Busy /\ t \in core.ths
  BY <1>1, ThreadFacts DEF StatusFits
<1>3. "test" \in Location /\ pc'[t] = "test"
  BY <1>1, WentTo DEF Location
<1>4. Good(core') /\ Counted(core', Asleep)
  BY <1>1, <1>2, StatusForceQuitCounted
<1>5. Acts(core, core', {t}) /\ Orders(core, core')
  BY <1>1, <1>2, StatusForceQuitCounted
<1>6. /\ core'.stat[t] = "FORCE_QUIT" /\ core'.thq = core.thq
      /\ core'.status = core.status
  BY <1>1, <1>2 DEF StatusForceQuit, Good, CoreType
<1>7. StatusFits(t)'
  BY <1>3, <1>6 DEF StatusFits
<1>8. ASSUME resizes = 0
      PROVE  /\ Classes(core', Asleep, Busy) /\ core'.real_pool <= core'.maxthreads
             /\ core'.thq[t] = {} /\ ~Created
  <2>1. /\ Classes(core, Asleep, Busy) /\ core.real_pool <= core.maxthreads
        /\ t \notin core.rm /\ core.thq[t] = {}
    BY <1>1, <1>8, ThreadFacts
  <2>2. \A x : x = StatusForceQuit(core, t) =>
          Classes(x, Asleep, Busy) /\ x.real_pool <= core.real_pool
    BY <1>2, <2>1, StatusForceQuitCounted
  <2>3. core'.real_pool \in Int /\ core.real_pool \in Int /\ core.maxthreads \in Int
    BY <1>2, <1>4 DEF Good, CoreType
  <2>4. core'.maxthreads = core.maxthreads
    BY <1>5 DEF Orders
  <2>5. core'.real_pool <= core.real_pool /\ Classes(core', Asleep, Busy)
    BY <1>1, <2>2
  <2> QED
    BY <1>1, <1>6, <2>1, <2>3, <2>4, <2>5
<1>9. ASSUME resizes = 0, ~CreateMayFail
      PROVE  Served'
  <2>1. ~WorkReady' /\ ~TaskReady'
    BY <1>1, <1>5, NoWork
  <2>2. ~Created'
    BY <1>6, <1>8, <1>9 DEF Created
  <2> QED
    BY <2>1, <2>2 DEF Served
<1>10. /\ Asleep = IF core'.stat[t] = "WAIT" THEN Asleep \cup {t} ELSE Asleep \ {t}
       /\ Busy = IF core'.stat[t] = "RUN" THEN Busy \cup {t} ELSE Busy \ {t}
  BY <1>2, <1>6
<1>11. Moves(core, core', {t})
  BY <1>5 DEF Acts
<1> QED
  BY <1>1, <1>3, <1>4, <1>5, <1>7, <1>8, <1>9, <1>10, <1>11, ThreadServes

LEMMA SleepServes ==
  ASSUME ReleaseIInv, ServiceInv, NEW t \in Threads, Sleep(t)
  PROVE  ServiceInv'
<1>1. /\ pc[t] = "gettask" /\ NothingToTake /\ t \notin core.rm
      /\ core' = StatusWait(core, t) /\ Goto(t, "asleep")
      /\ UNCHANGED <<batch, suspect, resizes>>
  BY DEF Sleep
<1>2. /\ Good(core) /\ Counted(core, Asleep)
      /\ t \in core.ths \ (Asleep \cup core.rm) /\ t \notin Busy
  BY <1>1, ThreadFacts DEF StatusFits
<1>3. "asleep" \in Location /\ pc'[t] = "asleep"
  BY <1>1, WentTo DEF Location
<1>4. Good(core') /\ Counted(core', Asleep \cup {t})
  BY <1>1, <1>2, StatusWaitCounted
<1>5. Acts(core, core', {t}) /\ Orders(core, core')
  BY <1>1, <1>2, StatusWaitCounted
<1>6. /\ core'.stat[t] = "WAIT" /\ core'.thq = core.thq
      /\ core'.status = core.status /\ core'.rm = core.rm
  BY <1>1, <1>2 DEF StatusWait, Good, CoreType
<1>7. StatusFits(t)'
  BY <1>3, <1>6 DEF StatusFits
<1>8. ASSUME resizes = 0
      PROVE  /\ Classes(core', Asleep \cup {t}, Busy)
             /\ core'.real_pool = core.real_pool
             /\ core'.real_pool <= core'.maxthreads
             /\ core'.thq[t] = {} /\ t \notin core'.rm
  <2>1. /\ Classes(core, Asleep, Busy) /\ core.real_pool <= core.maxthreads
        /\ core.thq[t] = {}
    BY <1>1, <1>8, ThreadFacts
  <2>2. \A x : x = StatusWait(core, t) =>
          Classes(x, Asleep \cup {t}, Busy) /\ x.real_pool = core.real_pool
    BY <1>2, <2>1, StatusWaitCounted
  <2>3. core'.maxthreads = core.maxthreads
    BY <1>5 DEF Orders
  <2> QED
    BY <1>1, <1>6, <2>1, <2>2, <2>3
<1>9. ASSUME resizes = 0, ~CreateMayFail
      PROVE  Served'
  <2>1. ~WorkReady' /\ ~TaskReady'
    BY <1>1, <1>5, NoWork
  <2>2. Created => core.real_pool >= core.minthreads
    BY <1>9 DEF ServiceInv, Served
  <2> QED
    BY <1>5, <1>6, <1>8, <1>9, <2>1, <2>2 DEF Served, Orders, Created
<1>10. /\ Asleep \cup {t} = IF core'.stat[t] = "WAIT" THEN Asleep \cup {t} ELSE Asleep \ {t}
       /\ Busy = IF core'.stat[t] = "RUN" THEN Busy \cup {t} ELSE Busy \ {t}
  BY <1>2, <1>6
<1>11. Moves(core, core', {t})
  BY <1>5 DEF Acts
<1> QED
  BY <1>1, <1>3, <1>4, <1>5, <1>7, <1>8, <1>9, <1>10, <1>11, ThreadServes

\* A sleeper goes on, with status s.
LEMMA GoesOnServes ==
  ASSUME ReleaseIInv, ServiceInv, NEW t \in Threads, pc[t] = "asleep",
         NEW s \in ThreadStatus \ {"WAIT", "RUN"},
         core' \in WithStatus(LeaveWait(Dequeued(core, t), t), t, s),
         Goto(t, "test"), UNCHANGED <<batch, suspect, resizes>>,
         core'.status = core.status
  PROVE  ServiceInv'
<1>1. /\ Good(core) /\ Counted(core, Asleep) /\ t \in Asleep /\ t \notin Busy
  BY ThreadFacts DEF StatusFits
<1>2. "test" \in Location /\ pc'[t] = "test"
  BY WentTo DEF Location
<1>3. WentOn(core, core', t, s, Asleep)
  BY <1>1, GoesOnCounted
<1>4. /\ Good(core') /\ Counted(core', Asleep \ {t})
      /\ Acts(core, core', {t}) /\ Orders(core, core') /\ core'.stat[t] = s
  BY <1>3 DEF WentOn
<1>5. StatusFits(t)'
  BY <1>2, <1>4 DEF StatusFits
<1>6. ASSUME resizes = 0
      PROVE  /\ Classes(core', Asleep \ {t}, Busy)
             /\ core'.real_pool = core.real_pool /\ core'.real_free # 0
             /\ core'.real_pool <= core'.maxthreads
             /\ core'.thq[t] = {}
  <2>1. /\ Classes(core, Asleep, Busy) /\ core.real_pool <= core.maxthreads
        /\ core.thq[t] = {} /\ t \notin core.rm
    BY <1>6, ThreadFacts
  <2>2. Stays(core, core') /\ core'.maxthreads = core.maxthreads
    BY <1>3, <2>1 DEF WentOn, Orders
  <2>3. /\ Classes(core', Asleep \ {t}, Busy)
        /\ core'.real_pool = core.real_pool /\ core'.real_free # 0
    BY <1>3, <2>1 DEF WentOn
  <2> QED
    BY <2>1, <2>2, <2>3 DEF Stays
<1>7. ASSUME resizes = 0, ~CreateMayFail
      PROVE  Served'
  <2>1. Conserved(core')
    BY <1>6, <1>7 DEF Conserved, NoServer
  <2>2. core'.maxthreads > 0
    BY <1>4, <1>7, LimitFacts DEF Orders
  <2>3. Created' => core'.real_pool >= core'.minthreads
    BY <1>4, <1>6, <1>7 DEF ServiceInv, Served, Created, Orders
  <2> QED
    BY <1>4, <1>6, <1>7, <2>1, <2>2, <2>3, ConservedServes
<1>8. /\ Asleep \ {t} = IF core'.stat[t] = "WAIT" THEN Asleep \cup {t} ELSE Asleep \ {t}
      /\ Busy = IF core'.stat[t] = "RUN" THEN Busy \cup {t} ELSE Busy \ {t}
  BY <1>1, <1>4
<1>9. Moves(core, core', {t})
  BY <1>4 DEF Acts
<1> QED
  BY <1>2, <1>4, <1>5, <1>6, <1>7, <1>8, <1>9, ThreadServes

\* What the proof of ReleaseIInv says of a step of a thread.
LEMMA ThreadStepFrame ==
  ASSUME ReleaseIInv, NEW t \in Threads, Step(t) \/ TimeOut(t) \/ MarkAgain(t)
  PROVE  Good(core') /\ core'.status = core.status
<1>1. ThreadsInv' /\ ThreadFrame
  BY ThreadSteps DEF ReleaseIInv
<1> QED
  BY <1>1 DEF ThreadsInv, TypeOK, Good, ThreadFrame

LEMMA WakeServes ==
  ASSUME ReleaseIInv, ServiceInv, NEW t \in Threads, Wake(t)
  PROVE  ServiceInv'
<1>1. /\ pc[t] = "asleep" /\ t \in core.waked /\ core' \in StatusFree(core, t)
      /\ Goto(t, "test") /\ UNCHANGED <<batch, suspect, resizes>>
  BY DEF Wake
<1>2. core' \in WithStatus(LeaveWait(Dequeued(core, t), t), t, "FREE")
  BY <1>1 DEF StatusFree, Dequeued
<1>3. "FREE" \in ThreadStatus \ {"WAIT", "RUN"}
  BY DEF ThreadStatus
<1>4. core'.status = core.status
  BY ThreadStepFrame DEF Step
<1> QED
  BY <1>1, <1>2, <1>3, <1>4, GoesOnServes

LEMMA RetireServes ==
  ASSUME ReleaseIInv, ServiceInv, NEW t \in Threads, pc[t] = "asleep",
         MayRetire(core, t), core' \in StatusTimedOut(core, t, TRUE),
         Goto(t, "test"), UNCHANGED <<batch, suspect, resizes>>,
         core'.status = core.status
  PROVE  ServiceInv'
<1>1. /\ Good(core) /\ Counted(core, Asleep) /\ t \in Asleep /\ t \notin Busy
      /\ t \notin core.rm
  BY ThreadFacts DEF StatusFits, MayRetire
<1>2. "test" \in Location /\ pc'[t] = "test"
  BY WentTo DEF Location
<1>3. Good(core') /\ Counted(core', Asleep \ {t})
  BY <1>1, RetiresCounted
<1>4. Acts(core, core', {t}) /\ Orders(core, core')
  BY <1>1, RetiresCounted
<1>5. core'.stat[t] = "TIMEDOUT" /\ core'.thq = core.thq
  BY <1>1, RetiresCounted
<1>6. StatusFits(t)'
  BY <1>2, <1>5 DEF StatusFits
<1>7. ASSUME resizes = 0
      PROVE  /\ Classes(core', Asleep \ {t}, Busy)
             /\ core'.real_pool = core.real_pool - 1
             /\ core'.real_pool <= core'.maxthreads
             /\ core'.thq[t] = {}
  <2>1. /\ Classes(core, Asleep, Busy) /\ core.real_pool <= core.maxthreads
        /\ core.thq[t] = {}
    BY <1>7, ThreadFacts
  <2>2. Classes(core', Asleep \ {t}, Busy) /\ core'.real_pool = core.real_pool - 1
    BY <1>1, <2>1, RetiresCounted
  <2>3. core'.maxthreads = core.maxthreads
    BY <1>4 DEF Orders
  <2>4. core.real_pool \in Int /\ core.maxthreads \in Int
    BY <1>1 DEF Good, CoreType
  <2> QED
    BY <1>5, <2>1, <2>2, <2>3, <2>4
<1>8. ASSUME resizes = 0, ~CreateMayFail
      PROVE  Served'
  <2>1. ~WorkReady' /\ ~TaskReady'
    BY <1>4, NoWork
  <2>2. core'.real_pool >= core'.minthreads
    <3>1. core.real_pool \in Int /\ core.minthreads \in Int
      BY <1>1 DEF Good, CoreType
    <3>2. core.real_pool > core.minthreads /\ core'.minthreads = core.minthreads
      BY <1>4 DEF MayRetire, Orders
    <3> QED
      BY <1>7, <1>8, <3>1, <3>2
  <2> QED
    BY <2>1, <2>2 DEF Served
<1>9. /\ Asleep \ {t} = IF core'.stat[t] = "WAIT" THEN Asleep \cup {t} ELSE Asleep \ {t}
      /\ Busy = IF core'.stat[t] = "RUN" THEN Busy \cup {t} ELSE Busy \ {t}
  BY <1>1, <1>5
<1>10. Moves(core, core', {t})
  BY <1>4 DEF Acts
<1> QED
  BY <1>2, <1>3, <1>4, <1>6, <1>7, <1>8, <1>9, <1>10, ThreadServes

LEMMA TimeOutServes ==
  ASSUME ReleaseIInv, ServiceInv, NEW t \in Threads, TimeOut(t)
  PROVE  ServiceInv'
<1>1. PICK retire \in {FALSE} \cup {MayRetire(core, t)} :
        core' \in StatusTimedOut(core, t, retire)
  BY DEF TimeOut
<1>2. /\ pc[t] = "asleep" /\ Goto(t, "test")
      /\ UNCHANGED <<batch, suspect, resizes>>
  BY DEF TimeOut
<1>3. core'.status = core.status
  BY ThreadStepFrame
<1>4. CASE retire = FALSE
  <2>1. core' \in WithStatus(LeaveWait(Dequeued(core, t), t), t, "TIMEDOUT")
    BY <1>1, <1>4 DEF StatusTimedOut
  <2>2. "TIMEDOUT" \in ThreadStatus \ {"WAIT", "RUN"}
    BY DEF ThreadStatus
  <2> QED
    BY <1>2, <1>3, <2>1, <2>2, GoesOnServes
<1>5. CASE retire # FALSE
  <2>1. retire = TRUE /\ MayRetire(core, t)
    BY <1>1, <1>5 DEF MayRetire
  <2> QED
    BY <1>1, <1>2, <1>3, <2>1, RetireServes
<1> QED
  BY <1>4, <1>5

LEMMA LeaveServes ==
  ASSUME ReleaseIInv, ServiceInv, NEW t \in Threads, Leave(t)
  PROVE  ServiceInv'
<1>1. /\ pc[t] = "leave" /\ t \notin core.run
      /\ core' = StatusLeave(core, t) /\ Goto(t, "entry")
      /\ UNCHANGED <<batch, suspect, resizes>>
  BY DEF Leave
<1>2. /\ Good(core) /\ Counted(core, Asleep)
      /\ t \in core.ths \ (Asleep \cup core.unborn) /\ t \notin Busy /\ t \notin Asleep
  BY <1>1, ThreadFacts DEF StatusFits
<1>3. "entry" \in Location /\ pc'[t] = "entry"
  BY <1>1, WentTo DEF Location
<1>4. Good(core') /\ Counted(core', Asleep)
  BY <1>1, <1>2, StatusLeaveCounted
<1>5. Moves(core, core', {t}) /\ Orders(core, core')
  BY <1>1, <1>2, StatusLeaveCounted
<1>6. /\ core'.stat[t] = "INIT" /\ core'.thq[t] = {}
      /\ core'.status = core.status /\ core'.rm = core.rm \ {t}
      /\ core'.ths = core.ths \ {t} /\ core'.waitq = core.waitq
      /\ core'.real_pool = core.real_pool /\ core'.real_free = core.real_free
      /\ core'.n_qths_waked = core.n_qths_waked
  BY <1>1, <1>2 DEF StatusLeave, Good, CoreType
<1>7. StatusFits(t)'
  BY <1>3, <1>6 DEF StatusFits
<1>8. t \in core.rm
  BY <1>1 DEF ReleaseIInv, ThreadsInv, Sound
<1>9. ASSUME resizes = 0
      PROVE  /\ Classes(core', Asleep, Busy)
             /\ core'.real_pool <= core'.maxthreads
             /\ Acts(core, core', {t})
  <2>1. /\ Classes(core, Asleep, Busy) /\ core.real_pool <= core.maxthreads
        /\ core.thq[t] = {}
    BY <1>1, <1>9, ThreadFacts
  <2>2. \A x : x = StatusLeave(core, t) => Acts(core, x, {t})
    BY <1>2, <2>1, StatusLeaveCounted
  <2>3. \A x : x = StatusLeave(core, t) => Classes(x, Asleep, Busy)
    BY <1>2, <1>8, <2>1, StatusLeaveCounted
  <2> QED
    BY <1>1, <1>5, <1>6, <2>1, <2>2, <2>3 DEF Orders
<1>10. ASSUME resizes = 0, ~CreateMayFail
       PROVE  Served'
  <2>1. Served
    BY <1>10 DEF ServiceInv
  <2>2. Server(core) => Server(core')
    BY <1>6, <1>8 DEF Server
  <2>3. Conserved(core) => Conserved(core')
    BY <1>5, <1>6 DEF Conserved, NoServer, Orders
  <2>4. /\ WorkReady' <=> WorkReady
        /\ TaskReady' <=> TaskReady
        /\ Created' <=> Created
    BY <1>5, <1>6 DEF Orders, WorkReady, TaskReady, Created
  <2> QED
    BY <1>5, <1>6, <2>1, <2>2, <2>3, <2>4 DEF Served, Orders
<1>11. /\ Asleep = IF core'.stat[t] = "WAIT" THEN Asleep \cup {t} ELSE Asleep \ {t}
       /\ Busy = IF core'.stat[t] = "RUN" THEN Busy \cup {t} ELSE Busy \ {t}
  BY <1>2, <1>6
<1> QED
  BY <1>1, <1>3, <1>4, <1>5, <1>6, <1>7, <1>9, <1>10, <1>11, ThreadServes

-----------------------------------------------------------------------------

\* What was taken is no longer in the core p that t goes on with.
Taking(p) ==
    /\ p \in CoreType /\ Alike(core, p) /\ p.stat = core.stat /\ p.paused = core.paused
    /\ p.status = core.status /\ p.npendings <= core.npendings
    /\ Good(p)

LEMMA TakenServes ==
  ASSUME ReleaseIInv, ServiceInv, NEW t \in Threads, pc[t] = "gettask",
         NEW p, Taking(p), NEW k \in Nat, Taken(t, p, k),
         core'.status = core.status
  PROVE  ServiceInv'
<1>1. /\ core' \in IF Dynamic THEN StatusRun(p, t) ELSE {p}
      /\ UNCHANGED <<suspect, resizes>>
      /\ \A o \in Threads \ {t} : batch'[o] = batch[o]
  BY DEF Taken, ReleaseIInv, ThreadsInv, TypeOK
<1>2. PICK l \in {"create", "exec"} :
        Goto(t, l) /\ l = IF core'.thq[t] # {} THEN "create" ELSE "exec"
  BY DEF Taken
<1>3. l \in Location /\ pc'[t] = l
  BY <1>2, WentTo DEF Location
<1>4. /\ Good(core) /\ Counted(core, Asleep)
      /\ t \in core.ths /\ t \notin Asleep /\ t \notin Busy /\ core.stat[t] # "RUN"
  BY ThreadFacts DEF StatusFits
<1>5. /\ Counted(p, Asleep) /\ \A B : Classes(core, Asleep, B) => Classes(p, Asleep, B)
  <2>1. Alike(core, p) /\ p.stat = core.stat
    BY DEF Taking
  <2>2. Counted(core, Asleep) => Counted(p, Asleep)
    BY <2>1, AlikeCounted
  <2>3. \A B : Classes(core, Asleep, B) => Classes(p, Asleep, B)
    BY <2>1, AlikeCounted
  <2> QED
    BY <1>4, <2>2, <2>3
<1>6. \A T : Acts(core, p, T)
  BY DEF Taking, Alike, Acts, Moves, Owned
<1>7. /\ Good(p) /\ t \in p.ths \ Asleep /\ p.rm = core.rm /\ p.waitq = core.waitq
      /\ p.maxthreads = core.maxthreads /\ p.minthreads = core.minthreads
      /\ p.real_pool = core.real_pool
  BY <1>4 DEF Taking, Alike
<1>8. t \notin core.waitq
  BY <1>4 DEF Counted, Lists
<1>9. CASE Dynamic
  <2>1. core' \in StatusRun(p, t)
    BY <1>1, <1>9
  <2>2. Ran(p, core', t, Asleep)
    BY <1>5, <1>7, <2>1, StatusRunCounted
  <2>3. Good(core') /\ Counted(core', Asleep)
    BY <2>2 DEF Ran
  <2>4. Acts(p, core', {t}) /\ core'.stat[t] = "RUN"
    BY <2>2 DEF Ran
  <2>5. Orders(p, core')
    BY <2>2 DEF Ran
  <2>6. /\ core'.rm \subseteq p.rm /\ core'.waitq \subseteq p.waitq
        /\ p.ths \subseteq core'.ths
    BY <2>2 DEF Ran
  <2>7. Acts(core, core', {t})
    BY <1>6, <2>4, ActsTransitive
  <2>8. StatusFits(t)'
    BY <1>2, <1>3, <1>9, <2>4 DEF StatusFits
  <2>9. ASSUME resizes = 0
        PROVE  /\ Classes(core', Asleep, Busy \cup {t})
               /\ core'.real_pool <= core'.maxthreads
               /\ t \notin core'.rm
    <3>1. /\ Classes(core, Asleep, Busy) /\ core.real_pool <= core.maxthreads
          /\ t \notin core.rm
      BY <2>9, ThreadFacts
    <3>2. Classes(p, Asleep, Busy) /\ t \notin p.rm \cup Busy
      BY <1>4, <1>5, <1>7, <3>1
    <3>3. Classes(core', Asleep, Busy \cup {t})
      BY <2>2, <3>2 DEF Ran
    <3>4. p.real_pool <= p.maxthreads => core'.real_pool <= core'.maxthreads
      BY <2>2, <3>2 DEF Ran
    <3> QED
      BY <1>7, <2>6, <3>1, <3>3, <3>4
  <2>10. ASSUME resizes = 0, ~CreateMayFail
         PROVE  Served'
    <3>1. Served /\ Classes(p, Asleep, Busy) /\ t \notin p.rm \cup Busy
      BY <1>4, <1>5, <1>7, <2>10, ThreadFacts DEF ServiceInv
    <3>2. Server(core')
      BY <1>7, <1>8, <2>6, <3>1 DEF Server
    <3>3. p.real_pool <= core'.real_pool
      BY <2>2, <3>1 DEF Ran
    <3>4. Created' => core'.real_pool >= core'.minthreads
      <4>1. Created' => p.real_pool >= p.minthreads
        BY <1>7, <3>1 DEF Served, Created
      <4>2. p.real_pool \in Int /\ core'.real_pool \in Int /\ p.minthreads \in Int
        BY <1>7, <2>3 DEF Good, CoreType
      <4> QED
        BY <2>5, <3>3, <4>1, <4>2 DEF Orders
    <3>5. ASSUME TaskReady'
          PROVE  Conserved(core')
      <4>1. ~p.paused /\ p.npendings # 0
        BY <2>5, <3>5 DEF TaskReady, Orders
      <4>2. p.maxthreads <= Cardinality(Threads)
        BY <1>7, <2>10, LimitFacts
      <4> QED
        BY <1>9, <2>2, <2>10, <3>1, <4>1, <4>2 DEF Ran
    <3> QED
      BY <3>2, <3>4, <3>5 DEF Served
  <2>11. /\ Asleep = IF core'.stat[t] = "WAIT" THEN Asleep \cup {t} ELSE Asleep \ {t}
         /\ Busy \cup {t} = IF core'.stat[t] = "RUN" THEN Busy \cup {t} ELSE Busy \ {t}
    BY <1>4, <2>4
  <2>12. Moves(core, core', {t})
    BY <2>7 DEF Acts
  <2> QED
    BY <1>1, <1>2, <1>3, <2>3, <2>7, <2>8, <2>9, <2>10, <2>11, <2>12, ThreadServes
<1>10. CASE ~Dynamic
  <2>1. core' = p
    BY <1>1, <1>10
  <2>2. /\ Good(core') /\ Counted(core', Asleep) /\ core'.stat = core.stat
        /\ core'.thq = core.thq
    BY <1>5, <1>7, <2>1 DEF Taking, Alike
  <2>3. Acts(core, core', {t}) /\ Moves(core, core', {t})
    BY <1>6, <2>1 DEF Acts
  <2>4. StatusFits(t)'
    <3>1. core'.stat[t] # "WAIT" /\ core'.stat[t] # "RUN"
      BY <1>4, <2>2, ThreadFacts
    <3> QED
      BY <1>2, <1>3, <1>10, <3>1 DEF StatusFits
  <2>5. ASSUME resizes = 0
        PROVE  /\ Classes(core', Asleep, Busy)
               /\ core'.real_pool <= core'.maxthreads
               /\ t \notin core'.rm /\ core'.thq[t] = {}
    <3>1. /\ Classes(core, Asleep, Busy) /\ core.real_pool <= core.maxthreads
          /\ t \notin core.rm /\ core.thq[t] = {}
      BY <2>5, ThreadFacts
    <3> QED
      BY <1>5, <1>7, <2>1, <2>2, <3>1
  <2>6. ASSUME resizes = 0, ~CreateMayFail
        PROVE  Served'
    <3>1. Served
      BY <2>6 DEF ServiceInv
    <3>2. TaskReady' => TaskReady
      BY <2>1 DEF Taking, TaskReady, Good, CoreType, ReleaseIInv, ThreadsInv, TypeOK
    <3>3. Conserved(core) => Conserved(core')
      BY <2>1 DEF Taking, Alike, Conserved, NoServer
    <3>4. Server(core')
      BY <1>4, <1>7, <1>8, <2>1, <2>5, <2>6 DEF Server
    <3> QED
      BY <1>7, <2>1, <3>1, <3>2, <3>3, <3>4 DEF Served, Created
  <2>7. /\ Asleep = IF core'.stat[t] = "WAIT" THEN Asleep \cup {t} ELSE Asleep \ {t}
        /\ Busy = IF core'.stat[t] = "RUN" THEN Busy \cup {t} ELSE Busy \ {t}
    BY <1>4, <2>2, ThreadFacts
  <2> QED
    BY <1>1, <1>2, <1>3, <2>2, <2>3, <2>4, <2>5, <2>6, <2>7, ThreadServes
<1> QED
  BY <1>9, <1>10

LEMMA TakingDispatch ==
  ASSUME ReleaseIInv, NEW t \in Threads, TakeDispatch(t)
  PROVE  \E p, k : /\ pc[t] = "gettask" /\ k \in 1..core.n_qdispatchs
                   /\ Taking(p) /\ Taken(t, p, k)
                   /\ p.n_qdispatchs = core.n_qdispatchs - k
                   /\ p.npendings = core.npendings
<1> DEFINE k == Least(core.n_qdispatchs, Batch)
           p == [core EXCEPT !.n_qdispatchs = @ - k]
<1>1. /\ Good(core) /\ core \in CoreType /\ core.n_qdispatchs \in Nat
      /\ core.n_qdispatchs > 0
  BY GoodCore DEF TakeDispatch, ReleaseIInv, Good, CoreType
<1>2. k \in 1..core.n_qdispatchs /\ core.n_qdispatchs - k \in Nat
  BY <1>1, BoundAssumption DEF Least
<1>3. pc[t] = "gettask" /\ Taken(t, p, k)
  BY DEF TakeDispatch
<1> HIDE DEF k
<1>4. p \in CoreType
  BY <1>1, <1>2, Zenon DEF CoreType
<1>5. Keeps(core, p)
  BY <1>1, <1>4, KeepsSame DEF CoreType
<1>6. Alike(core, p)
  BY <1>1 DEF Alike, CoreType
<1>7. /\ p.stat = core.stat /\ p.paused = core.paused
      /\ p.status = core.status /\ p.npendings <= core.npendings
      /\ p.n_qdispatchs = core.n_qdispatchs - k /\ p.npendings = core.npendings
  BY <1>1 DEF CoreType
<1> HIDE DEF p
<1>8. Taking(p)
  BY <1>4, <1>5, <1>6, <1>7 DEF Taking, Keeps
<1> QED
  BY <1>2, <1>3, <1>7, <1>8

LEMMA TakingTask ==
  ASSUME ReleaseIInv, NEW t \in Threads, TakeTask(t)
  PROVE  \E p : /\ pc[t] = "gettask" /\ Taking(p) /\ Taken(t, p, 0)
                /\ p.npendings = core.npendings - 1
                /\ p.n_qdispatchs = core.n_qdispatchs
<1> DEFINE p == [core EXCEPT !.npendings = @ - 1]
<1>1. Good(core) /\ core \in CoreType /\ core.npendings - 1 \in Nat
  BY GoodCore DEF TakeTask, ReleaseIInv, Good, CoreType
<1>2. pc[t] = "gettask" /\ Taken(t, p, 0)
  BY DEF TakeTask
<1>3. p \in CoreType
  BY <1>1, Zenon DEF CoreType
<1>4. Keeps(core, p)
  BY <1>1, <1>3, KeepsSame DEF CoreType
<1>5. Alike(core, p)
  BY <1>1 DEF Alike, CoreType
<1>6. /\ p.stat = core.stat /\ p.paused = core.paused
      /\ p.status = core.status /\ p.npendings <= core.npendings
      /\ p.npendings = core.npendings - 1 /\ p.n_qdispatchs = core.n_qdispatchs
  BY <1>1 DEF CoreType
<1> HIDE DEF p
<1>7. Taking(p)
  BY <1>3, <1>4, <1>5, <1>6 DEF Taking, Keeps
<1> QED
  BY <1>2, <1>6, <1>7

LEMMA TakeDispatchServes ==
  ASSUME ReleaseIInv, ServiceInv, NEW t \in Threads, TakeDispatch(t)
  PROVE  ServiceInv'
<1>1. core'.status = core.status /\ core.n_qdispatchs \in Nat
  BY ThreadStepFrame DEF Step, ReleaseIInv, ThreadsInv, TypeOK, CoreType
<1>2. \A k \in 1..core.n_qdispatchs : k \in Nat
  BY <1>1
<1> QED
  BY <1>1, <1>2, TakingDispatch, TakenServes

LEMMA TakeTaskServes ==
  ASSUME ReleaseIInv, ServiceInv, NEW t \in Threads, TakeTask(t)
  PROVE  ServiceInv'
<1>1. core'.status = core.status /\ 0 \in Nat
  BY ThreadStepFrame DEF Step
<1> QED
  BY <1>1, TakingTask, TakenServes

-----------------------------------------------------------------------------

\* t has done one of the things it took, the last one if batch'[t] is 0.
LEMMA DoneServes ==
  ASSUME ReleaseIInv, ServiceInv, NEW t \in Threads, pc[t] = "exec",
         core' = IF Dynamic /\ batch'[t] = 0 THEN StatusComplete(core, t) ELSE core,
         NEW l \in {"requeue", "exec", "test"}, Goto(t, l),
         l = "exec" => batch'[t] > 0, l = "test" => batch'[t] = 0,
         batch'[t] \in Nat,
         \A o \in Threads \ {t} : batch'[o] = batch[o],
         UNCHANGED <<suspect, resizes>>
  PROVE  ServiceInv'
<1>1. /\ Good(core) /\ Counted(core, Asleep) /\ t \in core.ths
      /\ t \notin Asleep /\ core.stat[t] # "WAIT"
      /\ t \in Busy <=> Dynamic
      /\ core.stat[t] = "RUN" <=> Dynamic
  BY ThreadFacts DEF StatusFits
<1>2. l \in Location /\ pc'[t] = l
  BY WentTo DEF Location
<1>3. CASE Dynamic /\ batch'[t] = 0
  <2>1. core' = StatusComplete(core, t)
    BY <1>3
  <2>2. Completed(core, core', t, Asleep)
    BY <1>1, <2>1, StatusCompleteCounted
  <2>3. /\ Good(core') /\ Counted(core', Asleep)
        /\ Acts(core, core', {t}) /\ core'.stat[t] = "COMPLETE" /\ Orders(core, core')
    BY <2>2 DEF Completed
  <2>4. core'.rm = core.rm /\ core'.thq = core.thq /\ core'.status = core.status
    BY <1>1, <2>1 DEF StatusComplete, Good, CoreType
  <2>5. StatusFits(t)'
    BY <1>2, <1>3, <2>3 DEF StatusFits
  <2>6. ASSUME resizes = 0
        PROVE  /\ Classes(core', Asleep, Busy \ {t})
               /\ core'.real_pool = core.real_pool /\ core'.real_free # 0
               /\ core'.real_pool <= core'.maxthreads
               /\ t \notin core'.rm /\ core'.thq[t] = {}
    <3>1. /\ Classes(core, Asleep, Busy) /\ core.real_pool <= core.maxthreads
          /\ t \notin core.rm /\ core.thq[t] = {} /\ t \in Busy
      BY <1>1, <1>3, <2>6, ThreadFacts
    <3>2. /\ Classes(core', Asleep, Busy \ {t})
          /\ core'.real_pool = core.real_pool /\ core'.real_free # 0
      BY <2>2, <3>1 DEF Completed
    <3> QED
      BY <2>3, <2>4, <3>1, <3>2 DEF Orders
  <2>7. ASSUME resizes = 0, ~CreateMayFail
        PROVE  Served'
    <3>1. Conserved(core')
      BY <2>6, <2>7 DEF Conserved, NoServer
    <3>2. core'.maxthreads > 0
      BY <2>3, <2>7, LimitFacts DEF Orders
    <3>3. Created' => core'.real_pool >= core'.minthreads
      BY <2>3, <2>4, <2>6, <2>7 DEF ServiceInv, Served, Created, Orders
    <3> QED
      BY <2>3, <2>6, <2>7, <3>1, <3>2, <3>3, ConservedServes
  <2>8. /\ Asleep = IF core'.stat[t] = "WAIT" THEN Asleep \cup {t} ELSE Asleep \ {t}
        /\ Busy \ {t} = IF core'.stat[t] = "RUN" THEN Busy \cup {t} ELSE Busy \ {t}
    BY <1>1, <2>3
  <2>9. Moves(core, core', {t})
    BY <2>3 DEF Acts
  <2> QED
    BY <1>2, <2>3, <2>5, <2>6, <2>7, <2>8, <2>9, ThreadServes
<1>4. CASE ~(Dynamic /\ batch'[t] = 0)
  <2>1. core' = core
    BY <1>4
  <2>2. Good(core') /\ Counted(core', Asleep)
    BY <1>1, <2>1
  <2>3. Acts(core, core', {t}) /\ Moves(core, core', {t})
    BY <2>1 DEF Acts, Moves
  <2>4. StatusFits(t)'
    BY <1>1, <1>2, <1>4, <2>1 DEF StatusFits
  <2>5. resizes = 0 => /\ Classes(core', Asleep, Busy)
                       /\ core'.real_pool <= core'.maxthreads
                       /\ t \notin core'.rm /\ core'.thq[t] = {}
    BY <2>1, ThreadFacts
  <2>6. ASSUME resizes = 0, ~CreateMayFail
        PROVE  Served'
    <3>1. Served
      BY <2>6 DEF ServiceInv
    <3> QED
      BY <2>1, <3>1 DEF Served, Created, WorkReady, TaskReady
  <2>7. /\ Asleep = IF core'.stat[t] = "WAIT" THEN Asleep \cup {t} ELSE Asleep \ {t}
        /\ Busy = IF core'.stat[t] = "RUN" THEN Busy \cup {t} ELSE Busy \ {t}
    BY <1>1, <2>1
  <2> QED
    BY <1>2, <2>2, <2>3, <2>4, <2>5, <2>6, <2>7, ThreadServes
<1> QED
  BY <1>3, <1>4

LEMMA FinishTaskServes ==
  ASSUME ReleaseIInv, ServiceInv, NEW t \in Threads, FinishTask(t)
  PROVE  ServiceInv'
<1>1. /\ pc[t] = "exec" /\ batch[t] = 0 /\ UNCHANGED <<batch, suspect, resizes>>
      /\ core' = IF Dynamic THEN StatusComplete(core, t) ELSE core
  BY DEF FinishTask
<1>2. PICK l \in {"requeue", "test"} : Goto(t, l)
  BY DEF FinishTask, AfterTask
<1> QED
  BY <1>1, <1>2, DoneServes

LEMMA FinishDispatchedServes ==
  ASSUME ReleaseIInv, ServiceInv, NEW t \in Threads, FinishDispatched(t)
  PROVE  ServiceInv'
<1>1. /\ pc[t] = "exec" /\ batch[t] > 0 /\ UNCHANGED <<suspect, resizes>>
      /\ core' = IF Dynamic /\ batch[t] = 1 THEN StatusComplete(core, t) ELSE core
      /\ batch' = [batch EXCEPT ![t] = @ - 1]
  BY DEF FinishDispatched
<1>2. /\ batch'[t] = batch[t] - 1 /\ batch[t] \in Nat
      /\ \A o \in Threads \ {t} : batch'[o] = batch[o]
  BY <1>1 DEF ReleaseIInv, ThreadsInv, TypeOK
<1>3. PICK l \in {"requeue", "exec", "test"} :
        /\ Goto(t, l)
        /\ l = "exec" => batch[t] - 1 > 0
        /\ l = "test" => ~(batch[t] - 1 > 0)
  BY DEF FinishDispatched, AfterTask
<1> QED
  BY <1>1, <1>2, <1>3, DoneServes

-----------------------------------------------------------------------------

\* p is the core but for its tasks, its references and its flags.
Like(p) == Good(p) /\ Alike(core, p) /\ p.stat = core.stat

LEMMA LikeFacts ==
  ASSUME ReleaseIInv, ServiceInv, NEW p, Like(p)
  PROVE  /\ Good(p) /\ Counted(p, Asleep)
         /\ resizes = 0 => Classes(p, Asleep, Busy)
         /\ p.maxthreads = core.maxthreads /\ p.minthreads = core.minthreads
         /\ p.real_pool = core.real_pool
<1>1. Alike(core, p) /\ p.stat = core.stat /\ Good(p)
  BY DEF Like
<1>2. Counted(core, Asleep) /\ (resizes = 0 => Classes(core, Asleep, Busy))
  BY DEF ServiceInv, Unresized
<1>3. Counted(core, Asleep) => Counted(p, Asleep)
  BY <1>1, AlikeCounted
<1>4. \A B : Classes(core, Asleep, B) => Classes(p, Asleep, B)
  BY <1>1, AlikeCounted
<1>5. /\ p.maxthreads = core.maxthreads /\ p.minthreads = core.minthreads
      /\ p.real_pool = core.real_pool
  BY <1>1 DEF Alike
<1> QED
  BY <1>1, <1>2, <1>3, <1>4, <1>5

\* Its servers are the core's.
LEMMA LikeServers ==
  ASSUME ReleaseIInv, ServiceInv, NEW p, Like(p)
  PROVE  /\ Conserved(core) => Conserved(p)
         /\ Server(core) => Server(p)
<1>1. Alike(core, p) /\ p.stat = core.stat
  BY DEF Like
<1>2. Conserved(core) => Conserved(p)
  BY <1>1 DEF Conserved, NoServer, Alike
<1>3. Server(core) => Server(p)
  BY <1>1 DEF Server, Alike
<1> QED
  BY <1>2, <1>3

\* What a step does that calls threads, whoever makes it.
Called(T) ==
    /\ Good(core') /\ Counted(core', Asleep)
    /\ Acts(core, core', T)
    /\ \A t \in Threads : /\ core'.stat[t] = "WAIT" <=> core.stat[t] = "WAIT"
                          /\ core'.stat[t] = "RUN" <=> core.stat[t] = "RUN"
                          /\ t \in core'.rm => t \in core.rm
                          /\ core'.thq[t] = core.thq[t]
    /\ core'.waitq \subseteq core.waitq /\ core.ths \subseteq core'.ths
    /\ core'.maxthreads = core.maxthreads /\ core'.minthreads = core.minthreads
    /\ resizes = 0 => Classes(core', Asleep, Busy) /\ core.real_pool <= core'.real_pool

LEMMA CallsOthers ==
  ASSUME ReleaseIInv, ServiceInv, NEW p, Like(p),
         Helps(p, core', NoSelf, Asleep), NEW T
  PROVE  Called(T)
<1>1. /\ Good(p) /\ Counted(p, Asleep) /\ (resizes = 0 => Classes(p, Asleep, Busy))
      /\ p.maxthreads = core.maxthreads /\ p.minthreads = core.minthreads
      /\ p.real_pool = core.real_pool
  BY LikeFacts
<1>2. /\ p.rm = core.rm /\ p.waitq = core.waitq /\ p.ths = core.ths
      /\ p.thq = core.thq /\ p.stat = core.stat
  BY DEF Like, Alike
<1>3. /\ Good(core') /\ Counted(core', Asleep) /\ Summoned(p, core', NoSelf)
      /\ \A B : Classes(p, Asleep, B) =>
           Classes(core', Asleep, B) /\ p.real_pool <= core'.real_pool
  BY DEF Helps
<1>4. Acts(p, core', T)
  BY <1>3, SummonedActs, NoSelfAssumption
<1>5. Acts(core, p, T)
  BY DEF Like, Alike, Acts, Moves, Owned
<1>6. Acts(core, core', T)
  BY <1>4, <1>5, ActsTransitive
<1>7. \A t \in Threads : core'.thq[t] = p.thq[t]
  BY <1>3, NoSelfAssumption DEF Summoned
<1>8. /\ \A t \in Threads : /\ core'.stat[t] = "WAIT" <=> p.stat[t] = "WAIT"
                            /\ core'.stat[t] = "RUN" <=> p.stat[t] = "RUN"
                            /\ t \in core'.rm => t \in p.rm
      /\ core'.waitq \subseteq p.waitq /\ p.ths \subseteq core'.ths
      /\ core'.maxthreads = p.maxthreads /\ core'.minthreads = p.minthreads
  BY <1>3 DEF Summoned, Orders
<1> QED
  BY <1>1, <1>2, <1>3, <1>6, <1>7, <1>8 DEF Called

\* cpool_core_ensure_servicesl on behalf of a user, or of a thread that only
\* queues a task.
LEMMA EnsureCalls ==
  ASSUME ReleaseIInv, ServiceInv, NEW p, Like(p), NEW q \in EnsureServices(p, NoSelf)
  PROVE  /\ Helps(p, q, NoSelf, Asleep)
         /\ resizes = 0 => q.real_pool <= q.maxthreads
         /\ resizes = 0 /\ ~CreateMayFail /\ Created /\ Work(p) => Conserved(q)
<1>1. /\ Good(p) /\ Counted(p, Asleep) /\ (resizes = 0 => Classes(p, Asleep, Busy))
      /\ p.maxthreads = core.maxthreads /\ p.minthreads = core.minthreads
      /\ p.real_pool = core.real_pool
  BY LikeFacts
<1>2. NoSelf \in Threads \cup {NoSelf}
  OBVIOUS
<1>3. Helps(p, q, NoSelf, Asleep)
  BY <1>1, <1>2, EnsureServicesCounted
<1>4. ASSUME resizes = 0
      PROVE  q.real_pool <= q.maxthreads
  <2>1. Classes(p, Asleep, Busy) /\ p.real_pool <= p.maxthreads
    BY <1>1, <1>4 DEF ServiceInv, Unresized
  <2>2. \A B : Classes(p, Asleep, B) /\ p.real_pool <= p.maxthreads =>
          q.real_pool <= q.maxthreads
    BY <1>1, <1>2, EnsureServicesCounted
  <2> QED
    BY <2>1, <2>2
<1>5. ASSUME resizes = 0, ~CreateMayFail, Created, Work(p)
      PROVE  Conserved(q)
  <2>1. p.maxthreads <= Cardinality(Threads)
    BY <1>1, <1>5, LimitFacts
  <2>2. Dynamic \/ p.real_pool >= p.maxthreads
    <3>1. Created => core.real_pool >= core.minthreads
      BY <1>5 DEF ServiceInv, Served
    <3> QED
      BY <1>1, <1>5, <3>1, LimitFacts
  <2> QED
    BY <1>1, <1>2, <1>5, <2>1, <2>2, EnsureServicesServes
<1> QED
  BY <1>3, <1>4, <1>5

\* ... which it need not be called for.
LEMMA NoNeed ==
  ASSUME NEW p, Good(p), NEW A, Counted(p, A), ~NeedEnsure(p)
  PROVE  Conserved(p)
<1>1. /\ p.waitq \in SUBSET Threads /\ p.n_qths_wait = Cardinality(p.waitq)
      /\ p.maxthreads \in Int /\ p.real_pool \in Int
  BY DEF Good, CoreType, Counted, Lists
<1>2. Cardinality(p.waitq) = 0 => p.waitq = {}
  BY <1>1, SizeOfThreads, FS_EmptySet
<1> QED
  BY <1>1, <1>2 DEF NeedEnsure, Conserved

LEMMA RequeueServes ==
  ASSUME ReleaseIInv, ServiceInv, NEW t \in Threads, Requeue(t)
  PROVE  ServiceInv'
<1> DEFINE p == [core EXCEPT !.npendings = @ + 1]
<1>1. Good(core) /\ core \in CoreType
  BY GoodCore DEF ReleaseIInv, Good
<1>2. /\ pc[t] = "requeue"
      /\ core' \in IF NeedEnsure(p) /\ ~p.paused
                   THEN EnsureServices(p, NoSelf) ELSE {p}
      /\ UNCHANGED <<batch, suspect, resizes>>
  BY DEF Requeue
<1>3. PICK l \in {"exec", "test"} :
        Goto(t, l) /\ l = IF batch[t] > 0 THEN "exec" ELSE "test"
  BY DEF Requeue
<1>4. l \in Location /\ pc'[t] = l
  BY <1>3, WentTo DEF Location
<1>5. Like(p)
  <2>1. Keeps(core, p)
    BY OneMorePending DEF ReleaseIInv
  <2>2. Alike(core, p) /\ p.stat = core.stat
    BY <1>1 DEF Alike, CoreType
  <2> QED
    BY <2>1, <2>2 DEF Like, Keeps
<1>6. /\ p.npendings = core.npendings + 1 /\ p.paused = core.paused
      /\ core.npendings \in Nat
  BY <1>1 DEF CoreType
<1> HIDE DEF p
<1>7. Helps(p, core', NoSelf, Asleep) /\ (resizes = 0 => core'.real_pool <= core'.maxthreads)
  <2>1. CASE core' \in EnsureServices(p, NoSelf)
    BY <1>5, <2>1, EnsureCalls
  <2>2. CASE core' = p
    <3>1. Helps(p, p, NoSelf, Asleep)
      BY <1>5, LikeFacts, HelpsNothing
    <3> QED
      BY <1>5, <2>2, <3>1, LikeFacts DEF ServiceInv, Unresized
  <2> QED
    BY <1>2, <2>1, <2>2
<1>8. Called({t})
  BY <1>5, <1>7, CallsOthers
<1>9. /\ Good(core') /\ Counted(core', Asleep)
      /\ Acts(core, core', {t}) /\ Moves(core, core', {t})
      /\ core'.stat[t] = "WAIT" <=> core.stat[t] = "WAIT"
      /\ core'.stat[t] = "RUN" <=> core.stat[t] = "RUN"
      /\ t \in core'.rm => t \in core.rm
      /\ core'.thq[t] = core.thq[t]
  BY <1>8 DEF Called, Acts
<1>10. StatusFits(t) /\ t \in core.ths
  BY <1>2, ThreadFacts
<1>11. StatusFits(t)'
  BY <1>2, <1>3, <1>4, <1>9, <1>10 DEF StatusFits
<1>12. ASSUME resizes = 0
       PROVE  /\ Classes(core', Asleep, Busy) /\ t \notin core'.rm /\ core'.thq[t] = {}
  BY <1>2, <1>8, <1>9, <1>12, ThreadFacts DEF Called
<1>13. ASSUME resizes = 0, ~CreateMayFail
       PROVE  Served'
  <2>1. core'.status = core.status
    BY ThreadStepFrame DEF Step
  <2>2. Created' => core'.real_pool >= core'.minthreads
    <3>1. Created => core.real_pool >= core.minthreads
      BY <1>13 DEF ServiceInv, Served
    <3>2. core.real_pool <= core'.real_pool /\ core'.minthreads = core.minthreads
      BY <1>8, <1>13 DEF Called
    <3>3. core.real_pool \in Int /\ core'.real_pool \in Int /\ core.minthreads \in Int
      BY <1>1, <1>9 DEF Good, CoreType
    <3> QED
      BY <2>1, <3>1, <3>2, <3>3 DEF Created
  <2>3. Server(core')
    <3>1. t \notin core.waitq
      BY <1>2, ThreadFacts DEF StatusFits, Counted, Lists
    <3> QED
      BY <1>8, <1>10, <1>12, <1>13, <3>1 DEF Called, Server
  <2>4. ASSUME TaskReady', Created'
        PROVE  Conserved(core')
    <3>1. Orders(p, core')
      BY <1>7 DEF Helps, Summoned
    <3>2. ~p.paused /\ Work(p) /\ Created
      BY <1>6, <2>1, <2>4, <3>1 DEF TaskReady, Orders, Work, Created
    <3>3. CASE NeedEnsure(p)
      BY <1>2, <1>5, <1>13, <3>2, <3>3, EnsureCalls
    <3>4. CASE ~NeedEnsure(p)
      <4>1. core' = p
        BY <1>2, <3>4
      <4> QED
        BY <1>5, <3>4, <4>1, LikeFacts, NoNeed
    <3> QED
      BY <3>3, <3>4
  <2> QED
    BY <2>2, <2>3, <2>4 DEF Served
<1>14. /\ Asleep = IF core'.stat[t] = "WAIT" THEN Asleep \cup {t} ELSE Asleep \ {t}
       /\ Busy = IF core'.stat[t] = "RUN" THEN Busy \cup {t} ELSE Busy \ {t}
  BY <1>9, ThreadFacts
<1> QED
  BY <1>2, <1>3, <1>4, <1>7, <1>9, <1>11, <1>12, <1>13, <1>14, ThreadServes

-----------------------------------------------------------------------------

LEMMA CreateThreadServes ==
  ASSUME ReleaseIInv, ServiceInv, NEW t \in Threads, CreateThread(t)
  PROVE  ServiceInv'
<1>1. PICK u \in core.thq[t] : core' = Launched(core, t, u)
  BY DEF CreateThread
<1>2. /\ pc[t] = "create" /\ suspect[t] = NoSelf /\ UNCHANGED <<batch, resizes>>
      /\ suspect' = [suspect EXCEPT ![t] = NoSelf]
  BY DEF CreateThread, LoopOn
<1>3. suspect' = suspect
  BY <1>2 DEF ReleaseIInv, ThreadsInv, TypeOK
<1>4. PICK l \in {"create", "exec", "lost"} :
        Goto(t, l) /\ (core'.thq[t] # {} => l = "create")
  BY DEF CreateThread, LoopOn
<1>5. l \in Location /\ pc'[t] = l
  BY <1>4, WentTo DEF Location
<1>6. Good(core) /\ Counted(core, Asleep) /\ StatusFits(t)
  BY ThreadFacts
<1>7. Begun(core, core', t, Asleep)
  BY <1>1, <1>6, LaunchedCounted
<1>8. /\ Good(core') /\ Counted(core', Asleep)
      /\ Acts(core, core', {t}) /\ Moves(core, core', {t})
      /\ core'.stat = core.stat /\ Orders(core, core')
      /\ core'.rm = core.rm /\ core'.real_pool = core.real_pool
  BY <1>7 DEF Begun, Acts
<1>9. StatusFits(t)'
  BY <1>2, <1>4, <1>5, <1>6, <1>8 DEF StatusFits
<1>10. ASSUME resizes = 0
       PROVE  /\ Classes(core', Asleep, Busy) /\ t \notin core'.rm
              /\ core'.real_pool <= core'.maxthreads
  BY <1>2, <1>7, <1>8, <1>10, ThreadFacts DEF Begun, Orders
<1>11. ASSUME resizes = 0, ~CreateMayFail
       PROVE  Served'
  <2>1. Served
    BY <1>11 DEF ServiceInv
  <2>2. (Conserved(core) => Conserved(core')) /\ (Server(core) => Server(core'))
    BY <1>7 DEF Begun
  <2>3. core'.status = core.status
    BY ThreadStepFrame DEF Step
  <2> QED
    BY <1>8, <2>1, <2>2, <2>3 DEF Served, Orders, Created, WorkReady, TaskReady
<1>12. /\ Asleep = IF core'.stat[t] = "WAIT" THEN Asleep \cup {t} ELSE Asleep \ {t}
       /\ Busy = IF core'.stat[t] = "RUN" THEN Busy \cup {t} ELSE Busy \ {t}
  BY <1>8, ThreadFacts
<1> QED
  BY <1>2, <1>3, <1>4, <1>5, <1>8, <1>9, <1>10, <1>11, <1>12, ThreadServes

\* An object on the thq of a thread has no pthread, and does nothing.
LEMMA Untouched ==
  ASSUME ReleaseIInv, ServiceInv, NEW t \in Threads, NEW u \in core.thq[t]
  PROVE  /\ u \in Threads /\ pc[u] = "entry"
         /\ core.stat[u] \notin {"WAIT", "RUN"} /\ u \notin Asleep /\ u \notin Busy
         /\ resizes = 0 => u \notin core.rm
<1>1. u \in Threads /\ u \in core.unborn
  BY GoodCore DEF ReleaseIInv, Good, Sound, CoreType
<1>2. pc[u] = "entry"
  BY <1>1, ThreadFacts
<1>3. core.stat[u] \notin {"WAIT", "RUN"}
  BY <1>1, <1>2, ThreadFacts DEF StatusFits
<1> QED
  BY <1>1, <1>2, <1>3, ThreadFacts

LEMMA GivesUpServes ==
  ASSUME ReleaseIInv, ServiceInv, NEW t \in Threads, pc[t] = "create",
         NEW u \in core.thq[t], NEW died \in BOOLEAN,
         core' = Discard(core, t, u, died), NEW Q, LoopOn(t, Q),
         UNCHANGED <<batch, resizes>>,
         resizes = 0 => CreateMayFail /\ ~died
  PROVE  ServiceInv'
<1>1. suspect' = [suspect EXCEPT ![t] = NoSelf]
  BY DEF LoopOn
<1>2. PICK l \in {"create", "exec", "lost"} :
        Goto(t, l) /\ (core'.thq[t] # {} => l = "create")
  BY DEF LoopOn
<1>3. /\ l \in Location /\ pc'[t] = l
      /\ \A o \in Threads \ {t} : pc'[o] = pc[o]
  BY <1>2, WentTo DEF Location, Goto, ReleaseIInv, ThreadsInv, TypeOK
<1>4. /\ suspect'[t] = NoSelf
      /\ \A o \in Threads \ {t} : suspect'[o] = suspect[o]
  BY <1>1 DEF ReleaseIInv, ThreadsInv, TypeOK
<1>5. /\ Good(core) /\ Counted(core, Asleep) /\ StatusFits(t)
      /\ t \in Asleep <=> core.stat[t] = "WAIT"
      /\ t \in Busy <=> core.stat[t] = "RUN"
  BY ThreadFacts
<1>6. /\ u \in Threads /\ pc[u] = "entry" /\ u # t
      /\ core.stat[u] \notin {"WAIT", "RUN"} /\ u \notin Asleep /\ u \notin Busy
      /\ resizes = 0 => u \notin core.rm
  BY Untouched
<1>7. GivenUp(core, core', t, u, died, Asleep)
  BY <1>5, <1>6, DiscardCounted
<1>8. /\ Good(core') /\ Counted(core', Asleep)
      /\ Acts(core, core', {t, u}) /\ Moves(core, core', {t, u})
      /\ core'.stat = core.stat
      /\ core'.rm = core.rm \ {u} /\ core'.thq[u] \subseteq core.thq[u]
  BY <1>7 DEF GivenUp, Acts
<1>9. StatusFits(t)' /\ StatusFits(u)'
  <2>1. StatusFits(u)
    BY <1>6, ThreadFacts
  <2>2. batch' = batch /\ pc'[u] = pc[u]
    BY <1>3, <1>6
  <2> QED
    BY <1>2, <1>3, <1>5, <1>8, <2>1, <2>2 DEF StatusFits
<1>10. ASSUME resizes = 0
       PROVE  /\ Classes(core', Asleep, Busy) /\ core'.real_pool <= core'.maxthreads
              /\ Undisturbed(t)' /\ Undisturbed(u)'
  <2>1. /\ Classes(core, Asleep, Busy) /\ core.real_pool <= core.maxthreads
        /\ t \notin core.rm
    BY <1>10, ThreadFacts
  <2>2. Classes(core', Asleep, Busy) /\ core'.real_pool <= core.real_pool
    BY <1>6, <1>7, <1>10, <2>1 DEF GivenUp
  <2>3. core'.maxthreads = core.maxthreads
    BY <1>8 DEF Acts
  <2>4. core'.real_pool \in Int /\ core.real_pool \in Int /\ core.maxthreads \in Int
    BY <1>5, <1>8 DEF Good, CoreType
  <2>5. Undisturbed(t)'
    BY <1>2, <1>3, <1>4, <1>8, <2>1 DEF Undisturbed
  <2>6. Undisturbed(u)'
    <3>1. core.thq[u] = {} /\ suspect[u] = NoSelf
      BY <1>6, <1>10 DEF ServiceInv, Unresized, Undisturbed
    <3> QED
      BY <1>3, <1>4, <1>6, <1>8, <3>1 DEF Undisturbed
  <2> QED
    BY <2>1, <2>2, <2>3, <2>4, <2>5, <2>6
<1>11. /\ Asleep = (Asleep \ {t, u}) \cup {o \in {t, u} : core'.stat[o] = "WAIT"}
       /\ Busy = (Busy \ {t, u}) \cup {o \in {t, u} : core'.stat[o] = "RUN"}
  BY <1>5, <1>6, <1>8
<1>12. /\ {t, u} \in SUBSET Threads
       /\ \A o \in {t, u} : StatusFits(o)'
       /\ resizes = 0 => \A o \in {t, u} : Undisturbed(o)'
       /\ \A o \in Threads \ {t, u} :
            pc'[o] = pc[o] /\ batch'[o] = batch[o] /\ suspect'[o] = suspect[o]
  BY <1>3, <1>4, <1>6, <1>9, <1>10
<1> QED
  BY <1>8, <1>10, <1>11, <1>12, ActorsStep

LEMMA CreateFailsServes ==
  ASSUME ReleaseIInv, ServiceInv, NEW t \in Threads, CreateFails(t)
  PROVE  ServiceInv'
<1>1. PICK u \in core.thq[t] : core' = Discard(core, t, u, FALSE)
  BY DEF CreateFails
<1>2. /\ CreateMayFail /\ pc[t] = "create" /\ UNCHANGED <<batch, resizes>>
      /\ LoopOn(t, exq \cup {t})
  BY DEF CreateFails
<1> QED
  BY <1>1, <1>2, GivesUpServes

\* Who has been found dead on a thq has been marked by a call that resizes.
LEMMA SuspectServes ==
  ASSUME ReleaseIInv, ServiceInv, NEW t \in Threads, Suspect(t)
  PROVE  ServiceInv'
<1>1. PICK u \in core.thq[t] \cap core.rm : suspect' = [suspect EXCEPT ![t] = u]
  BY DEF Suspect
<1>2. UNCHANGED <<core, pc, batch, resizes>>
  BY DEF Suspect
<1>3. resizes # 0
  BY <1>1, Untouched
<1>4. Counted(core, Asleep) /\ \A o \in Threads : StatusFits(o)
  BY DEF ServiceInv
<1>5. Asleep' = Asleep /\ \A o \in Threads : StatusFits(o)'
  BY <1>2, <1>4 DEF Asleep, StatusFits
<1> QED
  BY <1>2, <1>3, <1>4, <1>5 DEF ServiceInv

LEMMA RecheckServes ==
  ASSUME ReleaseIInv, ServiceInv, NEW t \in Threads, Recheck(t)
  PROVE  ServiceInv'
<1> DEFINE u == suspect[t]
<1>1. /\ pc[t] = "create" /\ u # NoSelf /\ UNCHANGED <<batch, resizes>>
      /\ u \in core.thq[t]
  BY DEF Recheck, ReleaseIInv, ThreadsInv, Placed
<1>2. resizes # 0
  BY <1>1 DEF ServiceInv, Unresized, Undisturbed
<1>3. CASE core' = Discard(core, t, u, TRUE) /\ LoopOn(t, exq \cup {t})
  BY <1>1, <1>2, <1>3, GivesUpServes
<1>4. CASE core' = Launched(core, t, u) /\ LoopOn(t, exq)
  <2>1. PICK l \in {"create", "exec", "lost"} : Goto(t, l)
    BY <1>4 DEF LoopOn
  <2>2. /\ pc'[t] = l
        /\ \A o \in Threads \ {t} : pc'[o] = pc[o] /\ suspect'[o] = suspect[o]
    BY <1>4, <2>1 DEF LoopOn, Goto, ReleaseIInv, ThreadsInv, TypeOK
  <2>3. Good(core) /\ Counted(core, Asleep) /\ StatusFits(t)
    BY ThreadFacts
  <2>4. Begun(core, core', t, Asleep)
    BY <1>1, <1>4, <2>3, LaunchedCounted
  <2>5. /\ Good(core') /\ Counted(core', Asleep) /\ Moves(core, core', {t})
        /\ core'.stat = core.stat
    BY <2>4 DEF Begun, Acts
  <2>6. StatusFits(t)'
    BY <1>1, <2>2, <2>3, <2>5 DEF StatusFits
  <2>7. /\ {t} \in SUBSET Threads
        /\ \A o \in {t} : StatusFits(o)'
        /\ \A o \in Threads \ {t} :
             pc'[o] = pc[o] /\ batch'[o] = batch[o] /\ suspect'[o] = suspect[o]
    BY <1>1, <2>2, <2>6
  <2>8. Asleep = (Asleep \ {t}) \cup {o \in {t} : core'.stat[o] = "WAIT"}
    BY <2>5, ThreadFacts
  <2>9. resizes' # 0
    BY <1>1, <1>2
  <2> QED
    BY <2>5, <2>7, <2>8, <2>9, ActorsStep
<1> QED
  BY <1>3, <1>4 DEF Recheck

-----------------------------------------------------------------------------

\* A step that moves no thread and calls none.
LEMMA LikeServes ==
  ASSUME ReleaseIInv, ServiceInv, Like(core'),
         UNCHANGED <<pc, batch, suspect, resizes>>,
         Created' => Created, WorkReady' => WorkReady, TaskReady' => TaskReady
  PROVE  ServiceInv'
<1>1. /\ Good(core') /\ Counted(core', Asleep)
      /\ resizes = 0 => Classes(core', Asleep, Busy)
      /\ core'.maxthreads = core.maxthreads /\ core'.real_pool = core.real_pool
  BY LikeFacts
<1>2. Alike(core, core') /\ core'.stat = core.stat
  BY DEF Like
<1>3. Acts(core, core', {}) /\ Moves(core, core', {})
  BY <1>2 DEF Alike, Acts, Moves, Owned
<1>4. ASSUME resizes = 0
      PROVE  core'.real_pool <= core'.maxthreads
  BY <1>1, <1>4 DEF ServiceInv, Unresized
<1>5. ASSUME resizes = 0, ~CreateMayFail
      PROVE  Served'
  BY <1>2, <1>5, ServedAlike DEF ServiceInv
<1> QED
  BY <1>1, <1>3, <1>4, <1>5, OthersServe

\* A step that moves no thread and calls some, or need not call any.
LEMMA CalledServes ==
  ASSUME ReleaseIInv, ServiceInv, NEW p, Like(p),
         Helps(p, core', NoSelf, Asleep),
         UNCHANGED <<pc, batch, suspect, resizes>>, Created' => Created,
         resizes = 0 => core'.real_pool <= core'.maxthreads,
         resizes = 0 /\ ~CreateMayFail =>
           \/ Conserved(core')
           \/ ~Created' /\ (WorkReady' => Server(core'))
  PROVE  ServiceInv'
<1>1. Called({})
  BY CallsOthers
<1>2. /\ Good(core') /\ Counted(core', Asleep)
      /\ Acts(core, core', {}) /\ Moves(core, core', {})
      /\ core'.maxthreads = core.maxthreads /\ core'.minthreads = core.minthreads
      /\ resizes = 0 => Classes(core', Asleep, Busy) /\ core.real_pool <= core'.real_pool
  BY <1>1 DEF Called, Acts
<1>3. ASSUME resizes = 0, ~CreateMayFail
      PROVE  Served'
  <2>1. Created' => core'.real_pool >= core'.minthreads
    <3>1. Created => core.real_pool >= core.minthreads
      BY <1>3 DEF ServiceInv, Served
    <3>2. core.real_pool \in Int /\ core'.real_pool \in Int /\ core.minthreads \in Int
      BY <1>2, ThreadFacts, GoodCore DEF ReleaseIInv, Good, CoreType
    <3> QED
      BY <1>2, <1>3, <3>1, <3>2
  <2>2. CASE Conserved(core')
    <3>1. core'.maxthreads > 0
      BY <1>2, <1>3, LimitFacts
    <3> QED
      BY <1>2, <1>3, <2>1, <2>2, <3>1, ConservedServes
  <2>3. CASE ~Created' /\ (WorkReady' => Server(core'))
    BY <2>3 DEF Served
  <2> QED
    BY <1>3, <2>2, <2>3
<1> QED
  BY <1>2, <1>3, OthersServe

\* In a pool of fixed size all the threads are there.
LEMMA WakeupCalls ==
  ASSUME ReleaseIInv, ServiceInv, NEW p, Like(p), NEW n \in Int,
         NEW q \in Wakeup(p, n)
  PROVE  /\ Helps(p, q, NoSelf, Asleep) /\ q.real_pool = p.real_pool
         /\ resizes = 0 => q.real_pool <= q.maxthreads
         /\ resizes = 0 /\ ~CreateMayFail /\ Created /\ ~Dynamic =>
              Conserved(q) /\ q.real_pool >= q.maxthreads
<1>1. /\ Good(p) /\ Counted(p, Asleep)
      /\ p.maxthreads = core.maxthreads /\ p.minthreads = core.minthreads
      /\ p.real_pool = core.real_pool
  BY LikeFacts
<1>2. Helps(p, q, NoSelf, Asleep) /\ q.real_pool = p.real_pool
  BY <1>1, WakeupCounted
<1>3. /\ p.waitq # {} => q.n_qths_waked # 0
      /\ p.waitq = {} => q.waitq = {}
  BY <1>1, WakeupCounted
<1>4. q.maxthreads = p.maxthreads
  BY <1>2 DEF Helps, Summoned, Orders
<1>5. resizes = 0 => core.real_pool <= core.maxthreads
  BY DEF ServiceInv, Unresized
<1>6. ASSUME resizes = 0, ~CreateMayFail, Created, ~Dynamic
      PROVE  Conserved(q) /\ q.real_pool >= q.maxthreads
  <2>1. Created => core.real_pool >= core.minthreads
    BY <1>6 DEF ServiceInv, Served
  <2>2. q.real_pool >= q.maxthreads
    BY <1>1, <1>2, <1>4, <1>6, <2>1, LimitFacts
  <2> QED
    BY <1>3, <2>2 DEF Conserved, NoServer
<1> QED
  BY <1>1, <1>2, <1>4, <1>5, <1>6

LEMMA QueueServes ==
  ASSUME ReleaseIInv, ServiceInv, Queue
  PROVE  ServiceInv'
<1> DEFINE p == [core EXCEPT !.npendings = @ + 1]
<1>1. Good(core) /\ core \in CoreType
  BY GoodCore DEF ReleaseIInv, Good
<1>2. /\ Created
      /\ core' \in IF p.paused THEN {p}
                   ELSE IF ~Dynamic THEN Wakeup(p, 1)
                   ELSE IF NeedEnsure(p) THEN EnsureServices(p, NoSelf)
                   ELSE {p}
      /\ UNCHANGED <<pc, batch, suspect, resizes>>
  BY DEF Queue, Unmoved
<1>3. Like(p)
  <2>1. Keeps(core, p)
    BY OneMorePending DEF ReleaseIInv
  <2>2. Alike(core, p) /\ p.stat = core.stat
    BY <1>1 DEF Alike, CoreType
  <2> QED
    BY <2>1, <2>2 DEF Like, Keeps
<1>4. /\ p.npendings = core.npendings + 1 /\ p.paused = core.paused
      /\ p.n_qdispatchs = core.n_qdispatchs /\ core.npendings \in Nat
  BY <1>1 DEF CoreType
<1> HIDE DEF p
<1>5. CASE p.paused
  <2>1. core' = p
    BY <1>2, <1>5
  <2> QED
    BY <1>2, <1>3, <1>4, <1>5, <2>1, LikeServes DEF WorkReady, TaskReady
<1>6. CASE ~p.paused /\ ~Dynamic
  BY <1>2, <1>3, <1>6, WakeupCalls, CalledServes
<1>7. CASE ~p.paused /\ Dynamic /\ NeedEnsure(p)
  <2>1. Work(p)
    BY <1>4, <1>7 DEF Work
  <2> QED
    BY <1>2, <1>3, <1>7, <2>1, EnsureCalls, CalledServes
<1>8. CASE ~p.paused /\ Dynamic /\ ~NeedEnsure(p)
  <2>1. core' = p
    BY <1>2, <1>8
  <2>2. Helps(p, p, NoSelf, Asleep) /\ Conserved(p)
    BY <1>3, <1>8, LikeFacts, HelpsNothing, NoNeed
  <2>3. resizes = 0 => p.real_pool <= p.maxthreads
    BY <1>3, LikeFacts DEF ServiceInv, Unresized
  <2> QED
    BY <1>2, <1>3, <2>1, <2>2, <2>3, CalledServes
<1> QED
  BY <1>5, <1>6, <1>7, <1>8

LEMMA RemoveAllServes ==
  ASSUME ReleaseIInv, ServiceInv, RemoveAll
  PROVE  ServiceInv'
<1>1. core \in CoreType /\ Good(core)
  BY GoodCore DEF ReleaseIInv, Good
<1>2. core' = [core EXCEPT !.npendings = 0] /\ Created
  BY DEF RemoveAll
<1>3. UNCHANGED <<pc, batch, suspect, resizes>>
  BY DEF RemoveAll, Unmoved
<1>4. Good(core')
  BY UserSteps, GoodCore, UserReleaseStep DEF ReleaseIInv, ThreadsInv, Good, TypeOK
<1>5. Like(core')
  BY <1>1, <1>2, <1>4 DEF Like, Alike, CoreType
<1>6. /\ core'.npendings = 0 /\ core'.n_qdispatchs = core.n_qdispatchs
  BY <1>1, <1>2 DEF CoreType
<1> QED
  BY <1>2, <1>3, <1>5, <1>6, LikeServes DEF WorkReady, TaskReady

LEMMA DispatchRemovedServes ==
  ASSUME ReleaseIInv, ServiceInv, DispatchRemoved
  PROVE  ServiceInv'
<1>1. core \in CoreType /\ Good(core) /\ held \in Nat
  BY GoodCore DEF ReleaseIInv, Good, ThreadsInv, TypeOK
<1>2. Created /\ UNCHANGED <<pc, batch, suspect, resizes>>
  BY DEF DispatchRemoved, Unmoved, ReleaseIInv, ReleaseInv
<1>3. PICK n \in 0..held :
        LET p == [core EXCEPT !.n_qdispatchs = @ + n]
        IN  core' \in IF n > 0 /\ NeedEnsure(p)
                      THEN EnsureServices(p, NoSelf) ELSE {p}
  BY DEF DispatchRemoved
<1> DEFINE p == [core EXCEPT !.n_qdispatchs = @ + n]
<1>4. core' \in IF n > 0 /\ NeedEnsure(p) THEN EnsureServices(p, NoSelf) ELSE {p}
  BY <1>3
<1>5. Like(p)
  <2>1. core.n_qdispatchs + n \in Nat
    BY <1>1 DEF CoreType
  <2>2. p \in CoreType
    BY <1>1, <2>1, Zenon DEF CoreType
  <2>3. Keeps(core, p)
    BY <1>1, <2>2, KeepsSame DEF CoreType
  <2>4. Alike(core, p) /\ p.stat = core.stat
    BY <1>1 DEF Alike, CoreType
  <2> QED
    BY <2>3, <2>4 DEF Like, Keeps
<1>6. /\ p.npendings = core.npendings /\ p.paused = core.paused
      /\ p.n_qdispatchs = core.n_qdispatchs + n /\ core.n_qdispatchs \in Nat
  BY <1>1 DEF CoreType
<1> HIDE DEF p
<1>7. CASE n = 0
  <2>1. core' = p
    BY <1>4, <1>7
  <2> QED
    BY <1>2, <1>5, <1>6, <1>7, <2>1, LikeServes DEF WorkReady, TaskReady
<1>8. CASE n > 0 /\ NeedEnsure(p)
  <2>1. Work(p)
    BY <1>6, <1>8 DEF Work
  <2> QED
    BY <1>2, <1>4, <1>5, <1>8, <2>1, EnsureCalls, CalledServes
<1>9. CASE n > 0 /\ ~NeedEnsure(p)
  <2>1. core' = p
    BY <1>4, <1>9
  <2>2. Helps(p, p, NoSelf, Asleep) /\ Conserved(p)
    BY <1>5, <1>9, LikeFacts, HelpsNothing, NoNeed
  <2>3. resizes = 0 => p.real_pool <= p.maxthreads
    BY <1>5, LikeFacts DEF ServiceInv, Unresized
  <2> QED
    BY <1>2, <1>5, <2>1, <2>2, <2>3, CalledServes
<1> QED
  BY <1>7, <1>8, <1>9

LEMMA SuspendServes ==
  ASSUME ReleaseIInv, ServiceInv, Suspend
  PROVE  ServiceInv'
<1>1. core \in CoreType /\ Good(core)
  BY GoodCore DEF ReleaseIInv, Good
<1>2. core' = [core EXCEPT !.paused = TRUE] /\ Created
  BY DEF Suspend
<1>3. UNCHANGED <<pc, batch, suspect, resizes>>
  BY DEF Suspend, Unmoved
<1>4. Good(core')
  BY <1>2, PausedMoves DEF ReleaseIInv, Keeps
<1>5. Like(core')
  BY <1>1, <1>2, <1>4 DEF Like, Alike, CoreType
<1>6. core'.paused /\ core'.n_qdispatchs = core.n_qdispatchs
  BY <1>1, <1>2 DEF CoreType
<1> QED
  BY <1>2, <1>3, <1>5, <1>6, LikeServes DEF WorkReady, TaskReady

LEMMA ResumeServes ==
  ASSUME ReleaseIInv, ServiceInv, Resume
  PROVE  ServiceInv'
<1> DEFINE p == [core EXCEPT !.paused = FALSE]
<1>1. core \in CoreType /\ Good(core)
  BY GoodCore DEF ReleaseIInv, Good
<1>2. Created /\ UNCHANGED <<pc, batch, suspect, resizes>>
  BY DEF Resume, Unmoved
<1>3. PICK q \in IF ~Dynamic /\ p.npendings # 0 THEN Wakeup(p, p.npendings) ELSE {p} :
        core' \in IF q.npendings # 0 THEN EnsureServices(q, NoSelf) ELSE {q}
  BY DEF Resume
<1>4. Like(p)
  <2>1. Keeps(core, p)
    BY PausedMoves DEF ReleaseIInv
  <2>2. Alike(core, p) /\ p.stat = core.stat
    BY <1>1 DEF Alike, CoreType
  <2> QED
    BY <2>1, <2>2 DEF Like, Keeps
<1>5. /\ p.npendings = core.npendings /\ p.paused = FALSE
      /\ p.n_qdispatchs = core.n_qdispatchs /\ p.npendings \in Int
  BY <1>1 DEF CoreType
<1> HIDE DEF p
<1>6. CASE p.npendings = 0
  <2>1. core' = p
    BY <1>3, <1>6
  <2> QED
    BY <1>2, <1>4, <1>5, <1>6, <2>1, LikeServes DEF WorkReady, TaskReady
<1>7. CASE p.npendings # 0 /\ Dynamic
  <2>1. core' \in EnsureServices(p, NoSelf) /\ Work(p)
    BY <1>3, <1>5, <1>7 DEF Work
  <2> QED
    BY <1>2, <1>4, <2>1, EnsureCalls, CalledServes
<1>8. CASE p.npendings # 0 /\ ~Dynamic
  <2>1. q \in Wakeup(p, p.npendings)
    BY <1>3, <1>8
  <2>2. /\ Helps(p, q, NoSelf, Asleep) /\ (resizes = 0 => q.real_pool <= q.maxthreads)
        /\ resizes = 0 /\ ~CreateMayFail => q.real_pool >= q.maxthreads
    BY <1>2, <1>4, <1>5, <1>8, <2>1, WakeupCalls
  <2>3. /\ Good(q) /\ Counted(q, Asleep) /\ Orders(p, q)
        /\ \A B : Classes(p, Asleep, B) => Classes(q, Asleep, B)
    BY <2>2 DEF Helps, Summoned
  <2>4. core' \in EnsureServices(q, NoSelf) /\ Work(q) /\ q.maxthreads = p.maxthreads
    BY <1>3, <1>5, <1>8, <2>3 DEF Orders, Work
  <2>5. NoSelf \in Threads \cup {NoSelf}
    OBVIOUS
  <2>6. Helps(q, core', NoSelf, Asleep)
    BY <2>3, <2>4, <2>5, EnsureServicesCounted
  <2>7. Helps(p, core', NoSelf, Asleep)
    BY <1>4, <2>2, <2>6, HelpsTransitive DEF Like
  <2>8. resizes = 0 => Classes(q, Asleep, Busy)
    BY <1>4, <2>3, LikeFacts
  <2>9. resizes = 0 => core'.real_pool <= core'.maxthreads
    <3>1. \A B : Classes(q, Asleep, B) /\ q.real_pool <= q.maxthreads =>
            core'.real_pool <= core'.maxthreads
      BY <2>3, <2>4, <2>5, EnsureServicesCounted
    <3> QED
      BY <2>2, <2>8, <3>1
  <2>10. ASSUME resizes = 0, ~CreateMayFail
         PROVE  Conserved(core')
    <3>1. q.maxthreads <= Cardinality(Threads)
      BY <1>4, <2>4, <2>10, LikeFacts, LimitFacts
    <3> QED
      BY <2>2, <2>3, <2>4, <2>5, <2>8, <2>10, <3>1, EnsureServicesServes
  <2> QED
    BY <1>2, <1>4, <2>7, <2>9, <2>10, CalledServes
<1> QED
  BY <1>6, <1>7, <1>8, DynamicAssumption

-----------------------------------------------------------------------------

\* After a call that resizes the pool only the lists are vouched for.
LEMMA ResizedServes ==
  ASSUME ReleaseIInv, ServiceInv, Resized(core, core', Asleep),
         UNCHANGED <<pc, batch, suspect>>, resizes' = resizes + 1
  PROVE  ServiceInv'
<1>1. Good(core') /\ Counted(core', Asleep) /\ Moves(core, core', {})
  BY DEF Resized
<1>2. resizes' # 0
  BY DEF ReleaseIInv, ThreadsInv, TypeOK
<1> QED
  BY <1>1, <1>2, OthersServe

LEMMA FlushServes ==
  ASSUME ReleaseIInv, ServiceInv, Flush
  PROVE  ServiceInv'
<1>1. /\ core' \in DecThreads(core, core.real_pool - core.minthreads)
      /\ resizes' = resizes + 1 /\ UNCHANGED <<pc, batch, suspect>>
  BY DEF Flush, Unmoved, FlushThreads
<1>2. Good(core) /\ Counted(core, Asleep)
  BY GoodCore DEF ReleaseIInv, ServiceInv
<1>3. Asleep = {t \in core.ths : core.stat[t] = "WAIT"}
  BY DEF Asleep
<1>4. Resized(core, core', Asleep)
  BY <1>1, <1>2, <1>3, DecThreadsCounted
<1> QED
  BY <1>1, <1>4, ResizedServes

LEMMA AdjustServes ==
  ASSUME ReleaseIInv, ServiceInv, Adjust
  PROVE  ServiceInv'
<1>1. PICK a \in AdjustArgs : core' \in AdjustAbs(core, a[1], a[2])
  BY DEF Adjust
<1>2. resizes' = resizes + 1 /\ UNCHANGED <<pc, batch, suspect>>
  BY DEF Adjust, Unmoved
<1>3. a[1] \in Int /\ a[2] \in Int
  BY BoundAssumption
<1>4. Good(core) /\ Counted(core, Asleep)
  BY GoodCore DEF ReleaseIInv, ServiceInv
<1>5. Asleep = {t \in core.ths : core.stat[t] = "WAIT"}
  BY DEF Asleep
<1>6. Resized(core, core', Asleep)
  BY <1>1, <1>3, <1>4, <1>5, AdjustAbsCounted
<1> QED
  BY <1>2, <1>6, ResizedServes

LEMMA AddRefServes ==
  ASSUME ReleaseIInv, ServiceInv, AddRef
  PROVE  ServiceInv'
<1>1. core \in CoreType
  BY DEF ReleaseIInv, ThreadsInv, TypeOK
<1>2. /\ core' = [core EXCEPT !.ref = @ + 1, !.user_ref = @ + 1] /\ Created
      /\ UNCHANGED <<pc, batch, suspect, resizes>>
  BY DEF AddRef, Unmoved
<1>3. Good(core')
  BY UserReleaseStep, GoodCore DEF ReleaseIInv, ThreadsInv, TypeOK, Good
<1>4. Like(core')
  BY <1>1, <1>2, <1>3 DEF Like, Alike, CoreType
<1>5. /\ core'.npendings = core.npendings /\ core'.paused = core.paused
      /\ core'.n_qdispatchs = core.n_qdispatchs
  BY <1>1, <1>2 DEF CoreType
<1> QED
  BY <1>2, <1>4, <1>5, LikeServes DEF WorkReady, TaskReady

LEMMA ReleaseByThreadServes ==
  ASSUME ReleaseIInv, ServiceInv, ReleaseByThread
  PROVE  ServiceInv'
<1>1. core \in CoreType
  BY DEF ReleaseIInv, ThreadsInv, TypeOK
<1>2. /\ core' = [core EXCEPT !.ref = @ - 1]
      /\ UNCHANGED <<pc, batch, suspect, resizes>>
  BY DEF ReleaseByThread
<1>3. Good(core')
  BY ReleaseByThreadStep DEF ReleaseIInv, ThreadsInv, TypeOK, Good
<1>4. Like(core')
  BY <1>1, <1>2, <1>3 DEF Like, Alike, CoreType
<1>5. /\ core'.npendings = core.npendings /\ core'.paused = core.paused
      /\ core'.n_qdispatchs = core.n_qdispatchs /\ core'.status = core.status
  BY <1>1, <1>2 DEF CoreType
<1> QED
  BY <1>2, <1>4, <1>5, LikeServes DEF WorkReady, TaskReady, Created

LEMMA ReleaserServes ==
  ASSUME ReleaseIInv, ServiceInv,
         ReleaserWakes \/ ReleaserStirs \/ UNCHANGED vars
  PROVE  ServiceInv'
<1>1. UNCHANGED <<core, pc, batch, suspect, resizes>>
  BY DEF ReleaserWakes, ReleaserStirs, vars
<1>2. Like(core')
  <2>1. Good(core)
    BY GoodCore DEF ReleaseIInv
  <2> QED
    BY <1>1, <2>1 DEF Like, Alike
<1> QED
  BY <1>1, <1>2, LikeServes DEF WorkReady, TaskReady, Created

LEMMA DestroyServes ==
  ASSUME ReleaseIInv, ServiceInv, Destroy
  PROVE  ServiceInv'
<1>1. core \in CoreType
  BY DEF ReleaseIInv, ThreadsInv, TypeOK
<1>2. /\ core' = [core EXCEPT !.status = "destroyed"]
      /\ UNCHANGED <<pc, batch, suspect, resizes>>
  BY DEF Destroy
<1>3. Good(core')
  BY DestroyStep DEF ReleaseIInv, ThreadsInv, TypeOK, Good
<1>4. Like(core')
  BY <1>1, <1>2, <1>3 DEF Like, Alike, CoreType
<1>5. /\ core'.npendings = core.npendings /\ core'.paused = core.paused
      /\ core'.n_qdispatchs = core.n_qdispatchs /\ core'.status = "destroyed"
  BY <1>1, <1>2 DEF CoreType
<1> QED
  BY <1>2, <1>4, <1>5, LikeServes DEF WorkReady, TaskReady, Created

\* The last user gives up what is pending in a suspended pool, wakes all the
\* sleepers, and may say that it is going to free the pool.
LEMMA LastReleaseServes ==
  ASSUME ReleaseIInv, ServiceInv, Created, Good(core'),
         NEW p, Like(p), p.status = "destroying",
         p.npendings = core.npendings, p.paused = core.paused,
         p.n_qdispatchs = core.n_qdispatchs,
         NEW q \in SweepPending(p), NEW b \in BOOLEAN,
         core' = [WakeupAll(q) EXCEPT !.release_cleaning = b],
         UNCHANGED <<pc, batch, suspect, resizes>>
  PROVE  ServiceInv'
<1> DEFINE o == [p EXCEPT !.n_qdispatchs = @ + p.npendings, !.npendings = 0]
           w == WakeupAll(q)
           swept == p.paused /\ p.npendings # 0
<1>1. p \in CoreType /\ p.npendings \in Nat /\ p.n_qdispatchs \in Nat
  BY DEF Like, Good, CoreType
<1>2. Keeps(p, q) /\ Good(p)
  BY SweepPendingKeeps DEF Like
<1>3. Like(o)
  <2>1. o \in CoreType
    <3>1. p.n_qdispatchs + p.npendings \in Nat
      BY <1>1
    <3> QED
      BY <1>1, <3>1, Zenon DEF CoreType
  <2>2. Keeps(p, o)
    BY <1>1, <1>2, <2>1, KeepsSame DEF CoreType
  <2>3. Alike(core, o) /\ o.stat = core.stat
    BY <1>1 DEF Like, Alike, CoreType
  <2> QED
    BY <2>2, <2>3 DEF Like, Keeps
<1>4. o.npendings = 0 /\ o.n_qdispatchs = p.n_qdispatchs + p.npendings
  BY <1>1 DEF CoreType
<1>5. q \in IF swept THEN EnsureServices(o, NoSelf) ELSE {p}
  BY DEF SweepPending
<1> HIDE DEF o
<1>6. PICK f \in {o, p} : /\ Like(f) /\ Helps(f, q, NoSelf, Asleep)
                          /\ resizes = 0 => q.real_pool <= q.maxthreads
                          /\ resizes = 0 /\ ~CreateMayFail /\ swept => Conserved(q)
                          /\ ~swept => q = p
  <2>1. CASE swept
    <3>1. Work(o)
      BY <1>1, <1>4, <2>1 DEF Work
    <3> QED
      BY <1>3, <1>5, <2>1, <3>1, EnsureCalls
  <2>2. CASE ~swept
    <3>1. q = p
      BY <1>5, <2>2
    <3>2. Helps(p, p, NoSelf, Asleep)
      BY LikeFacts, HelpsNothing
    <3>3. resizes = 0 => p.real_pool <= p.maxthreads
      BY LikeFacts DEF ServiceInv, Unresized
    <3> QED
      BY <2>2, <3>1, <3>2, <3>3
  <2> QED
    BY <2>1, <2>2
<1>7. Good(q) /\ Counted(q, Asleep) /\ Good(f)
  BY <1>6 DEF Helps, Like
<1>8. q.waitq \in SUBSET q.waitq /\ w = Signal(q, q.waitq)
  BY DEF WakeupAll
<1>9. /\ Helps(q, w, NoSelf, Asleep)
      /\ w.ths = q.ths /\ w.rm = q.rm
      /\ w.real_pool = q.real_pool
  BY <1>7, <1>8, SignalCounted
<1>10. w.waitq = q.waitq \ q.waitq
  BY <1>7, <1>8, SignalCounted
<1>11. Helps(f, w, NoSelf, Asleep)
  BY <1>6, <1>7, <1>9, HelpsTransitive
<1>12. w \in CoreType
  BY <1>11 DEF Helps, Good
<1> HIDE DEF w
<1>13. Alike(w, core') /\ core'.stat = w.stat /\ Orders(w, core') /\ core'.status = w.status
  BY <1>12 DEF w, Alike, Orders, CoreType
<1>14. Helps(f, core', NoSelf, Asleep)
  <2>1. Counted(w, Asleep) => Counted(core', Asleep)
    BY <1>13, AlikeCounted
  <2>2. \A B : Classes(w, Asleep, B) => Classes(core', Asleep, B)
    BY <1>13, AlikeCounted
  <2>3. Summoned(f, w, NoSelf)
    BY <1>11 DEF Helps
  <2>4. Summoned(f, core', NoSelf)
    <3>1. /\ core'.unborn = w.unborn \cup {} /\ {} \in SUBSET Threads
          /\ \A t \in Threads :
               core'.thq[t] = IF t = NoSelf THEN w.thq[t] \cup {} ELSE w.thq[t]
      BY <1>13 DEF Alike
    <3>2. \E N \in SUBSET Threads :
            /\ core'.unborn = w.unborn \cup N
            /\ N # {} => NoSelf \in Threads
            /\ \A t \in Threads :
                 core'.thq[t] = IF t = NoSelf THEN w.thq[t] \cup N ELSE w.thq[t]
      BY <3>1, Zenon
    <3>3. Summoned(w, core', NoSelf)
      BY <1>13, <3>2 DEF Summoned, Alike
    <3> QED
      BY <2>3, <3>3, SummonedTransitive
  <2>5. core'.real_pool = w.real_pool
    BY <1>13 DEF Alike
  <2> QED
    BY <1>11, <2>1, <2>2, <2>4, <2>5 DEF Helps
<1>15. resizes = 0 => core'.real_pool <= core'.maxthreads
  BY <1>6, <1>9, <1>13 DEF Helps, Summoned, Orders, Alike
<1>16. ~Created'
  <2>1. w.status = q.status
    BY <1>7, WakeupAllKeeps DEF w, Keeps, Grows
  <2> QED
    BY <1>2, <1>13, <2>1 DEF Keeps, Grows, Created
<1>17. ASSUME resizes = 0, ~CreateMayFail, WorkReady'
       PROVE  Server(core')
  <2>1. Server(q)
    <3>1. CASE swept
      <4>1. Classes(f, Asleep, Busy)
        BY <1>6, <1>17, LikeFacts
      <4>2. Classes(q, Asleep, Busy) /\ q.maxthreads = f.maxthreads
        BY <1>6, <4>1 DEF Helps, Summoned, Orders
      <4>3. q.maxthreads > 0
        BY <1>6, <1>17, <4>2, LikeFacts, LimitFacts
      <4> QED
        BY <1>6, <1>7, <1>17, <3>1, <4>2, <4>3, ConservedServer
    <3>2. CASE ~swept
      <4>1. Orders(q, w)
        BY <1>9 DEF Helps, Summoned
      <4>2. WorkReady
        BY <1>6, <1>13, <1>17, <3>2, <4>1 DEF Orders, WorkReady, TaskReady
      <4>3. Server(core)
        BY <1>17, <4>2 DEF ServiceInv, Served
      <4> QED
        BY <1>6, <3>2, <4>3, LikeServers
    <3> QED
      BY <3>1, <3>2
  <2> QED
    BY <1>9, <1>10, <1>13, <2>1 DEF Server, Alike
<1> QED
  BY <1>6, <1>14, <1>15, <1>16, <1>17, CalledServes

LEMMA ReleaseServes ==
  ASSUME ReleaseIInv, ServiceInv, Release
  PROVE  ServiceInv'
<1> DEFINE p == [core EXCEPT !.ref = @ - 1, !.user_ref = @ - 1]
           d == [p EXCEPT !.status = "destroying"]
<1>1. core \in CoreType /\ core.ref - 1 \in Int /\ core.user_ref - 1 \in Int
  BY DEF ReleaseIInv, ThreadsInv, TypeOK, CoreType
<1>2. /\ Created /\ UNCHANGED <<pc, batch, suspect, resizes>>
      /\ IF p.user_ref = 0 THEN LastRelease(p) ELSE core' = p
  BY DEF Release
<1>3. Good(core')
  BY ReleaseStep DEF ReleaseIInv, ThreadsInv, TypeOK, Good
<1>4. CASE core' = p
  <2>1. Like(core')
    BY <1>1, <1>3, <1>4 DEF Like, Alike, CoreType
  <2>2. /\ core'.npendings = core.npendings /\ core'.paused = core.paused
        /\ core'.n_qdispatchs = core.n_qdispatchs
    BY <1>1, <1>4 DEF CoreType
  <2> QED
    BY <1>2, <2>1, <2>2, LikeServes DEF WorkReady, TaskReady
<1>5. CASE LastRelease(p)
  <2>1. d = WithRefs(core, core.ref - 1, core.user_ref - 1, "destroying")
    BY <1>1 DEF WithRefs, CoreType
  <2>2. Good(d)
    <3>1. "destroying" \in CoreStatus
      BY DEF CoreStatus
    <3> QED
      BY <1>1, <2>1, <3>1, ReferenceStep DEF ReleaseIInv
  <2>3. Like(d)
    <3>1. Alike(core, d) /\ d.stat = core.stat
      BY <1>1 DEF Alike, CoreType
    <3> QED
      BY <2>2, <3>1 DEF Like
  <2>4. /\ d.npendings = core.npendings /\ d.paused = core.paused
        /\ d.n_qdispatchs = core.n_qdispatchs /\ d.status = "destroying"
    BY <1>1 DEF CoreType
  <2>5. PICK q \in SweepPending(d) :
          core' = [WakeupAll(q) EXCEPT !.release_cleaning = (WakeupAll(q).ths = {})]
    BY <1>5 DEF LastRelease
  <2> HIDE DEF d
  <2>6. (WakeupAll(q).ths = {}) \in BOOLEAN
    OBVIOUS
  <2> QED
    BY <1>2, <1>3, <2>3, <2>4, <2>5, <2>6, LastReleaseServes
<1> QED
  BY <1>2, <1>4, <1>5

-----------------------------------------------------------------------------

\* The reserved threads are there from the start.
LEMMA ServiceInvInit ==
  ASSUME Init
  PROVE  ServiceInv /\ core.npendings = 0 /\ core.n_qdispatchs = 0
<1> DEFINE n == IF Dynamic THEN InitMin ELSE InitMax
           p == NewCore(InitMax, n, InitPaused)
<1>1. /\ n \in Nat /\ InitMax \in Nat \ {0} /\ InitPaused \in BOOLEAN
      /\ n <= InitMax /\ InitMax <= Cardinality(Threads)
  BY BoundAssumption
<1>2. /\ core \in AddThreads(p, NoSelf, n) /\ pc = [t \in Threads |-> "entry"]
      /\ batch = [t \in Threads |-> 0] /\ suspect = [t \in Threads |-> NoSelf]
  BY DEF Init
<1>3. Good(p)
  <2>1. n \in Int /\ InitMax \in Int
    BY <1>1
  <2> HIDE DEF n
  <2> QED
    BY <1>1, <2>1, NewCoreGood
<1>4. /\ p.ths = {} /\ p.rm = {} /\ p.waitq = {} /\ p.unborn = {}
      /\ p.n_qths = 0 /\ p.n_qths_wait = 0 /\ p.n_qths_waked = 0
      /\ p.running = 0 /\ p.dying = 0 /\ p.dying_run = 0
      /\ p.sleeping = 0 /\ p.real_pool = 0 /\ p.real_free = 0
      /\ \A t \in Threads : p.stat[t] = "INIT" /\ p.thq[t] = {}
      /\ p.maxthreads = InitMax /\ p.minthreads = n
      /\ p.npendings = 0 /\ p.n_qdispatchs = 0
  BY DEF NewCore
<1>5. Cardinality({}) = 0
  BY FS_EmptySet
<1>6. Counted(p, {})
  BY <1>4, <1>5 DEF Counted, Lists, Told, Outside
<1>7. Classes(p, {}, {})
  BY <1>4, <1>5 DEF Classes
<1> HIDE DEF p, n
<1>8. n \in Int /\ NoSelf \in Threads \cup {NoSelf}
  BY <1>1
<1>9. Helps(p, core, NoSelf, {})
  BY <1>2, <1>3, <1>6, <1>8, AddThreadsCounted
<1>10. /\ core.real_pool <= n
       /\ ~CreateMayFail => core.real_pool = n
  <2>1. \A B : Classes(p, {}, B) =>
          /\ core.real_free - p.real_free = core.real_pool - p.real_pool
          /\ core.real_pool - p.real_pool <= (IF n <= 0 THEN 0 ELSE n)
          /\ n >= 0 /\ ~CreateMayFail =>
               core.real_pool - p.real_pool = Least(n, Cardinality(Threads) - p.real_pool)
    BY <1>2, <1>3, <1>6, <1>8, AddThreadsCounted
  <2>2. /\ core.real_pool - 0 <= (IF n <= 0 THEN 0 ELSE n)
        /\ ~CreateMayFail => core.real_pool - 0 = Least(n, Cardinality(Threads) - 0)
    BY <1>1, <1>4, <1>7, <2>1
  <2>3. core.real_pool \in Int /\ Cardinality(Threads) \in Nat
    BY <1>9, SizeOfThreads DEF Helps, Good, CoreType
  <2> QED
    BY <1>1, <2>2, <2>3 DEF Least
<1>11. /\ Good(core) /\ Counted(core, {}) /\ Classes(core, {}, {})
       /\ Summoned(p, core, NoSelf)
  BY <1>7, <1>9 DEF Helps
<1>12. /\ core.unborn = {} /\ core.maxthreads = InitMax /\ core.minthreads = n
       /\ core.npendings = 0 /\ core.n_qdispatchs = 0 /\ core.rm = {}
       /\ \A t \in Threads : /\ core.stat[t] \notin {"WAIT", "RUN"}
                             /\ core.thq[t] = {}
  <2>1. PICK N \in SUBSET Threads :
          /\ core.unborn = p.unborn \cup N
          /\ N # {} => NoSelf \in Threads
          /\ \A t \in Threads :
               core.thq[t] = IF t = NoSelf THEN p.thq[t] \cup N ELSE p.thq[t]
    BY <1>11 DEF Summoned
  <2>2. N = {}
    BY <2>1, NoSelfAssumption
  <2>3. /\ Orders(p, core) /\ core.rm \subseteq p.rm
        /\ \A t \in Threads : /\ core.stat[t] = "WAIT" <=> p.stat[t] = "WAIT"
                              /\ core.stat[t] = "RUN" <=> p.stat[t] = "RUN"
    BY <1>11 DEF Summoned
  <2> QED
    BY <1>4, <2>1, <2>2, <2>3, NoSelfAssumption DEF Orders
<1>13. core.ths \in SUBSET Threads
  BY <1>11 DEF Good, CoreType
<1>14. Asleep = {} /\ Busy = {}
  BY <1>12, <1>13 DEF Asleep, Busy
<1>15. \A t \in Threads : StatusFits(t) /\ Undisturbed(t)
  BY <1>2, <1>12 DEF StatusFits, Undisturbed
<1>16. Unresized
  <2>1. core.real_pool <= core.maxthreads
    BY <1>1, <1>10, <1>11, <1>12 DEF Good, CoreType
  <2> QED
    BY <1>11, <1>12, <1>14, <1>15, <2>1 DEF Unresized, Owned, n
<1>17. ~CreateMayFail => Served
  BY <1>1, <1>10, <1>12 DEF Served, WorkReady, TaskReady
<1> QED
  BY <1>11, <1>12, <1>14, <1>15, <1>16, <1>17 DEF ServiceInv

LEMMA ThreadsServe ==
  ASSUME ReleaseIInv, ServiceInv, NEW t \in Threads, Step(t) \/ TimeOut(t) \/ MarkAgain(t)
  PROVE  ServiceInv'
<1>1. CASE Join(t)
  BY <1>1, JoinServes
<1>2. CASE TakeDispatch(t)
  BY <1>2, TakeDispatchServes
<1>3. CASE TakeTask(t)
  BY <1>3, TakeTaskServes
<1>4. CASE Quit(t)
  BY <1>4, QuitServes
<1>5. CASE Sleep(t)
  BY <1>5, SleepServes
<1>6. CASE Wake(t)
  BY <1>6, WakeServes
<1>7. CASE CreateThread(t)
  BY <1>7, CreateThreadServes
<1>8. CASE CreateFails(t)
  BY <1>8, CreateFailsServes
<1>9. CASE Suspect(t)
  BY <1>9, SuspectServes
<1>10. CASE Recheck(t)
  BY <1>10, RecheckServes
<1>11. CASE FinishTask(t)
  BY <1>11, FinishTaskServes
<1>12. CASE FinishDispatched(t)
  BY <1>12, FinishDispatchedServes
<1>13. CASE Requeue(t)
  BY <1>13, RequeueServes
<1>14. CASE Test(t)
  BY <1>14, TestServes
<1>15. CASE Stay(t)
  BY <1>15, StayServes
<1>19. CASE Collect(t)
  BY <1>19, CollectServes
<1>16. CASE Leave(t)
  BY <1>16, LeaveServes
<1>17. CASE TimeOut(t)
  BY <1>17, TimeOutServes
<1>18. CASE MarkAgain(t)
  BY <1>18, MarkAgainServes
<1> QED
  BY <1>1, <1>2, <1>3, <1>4, <1>5, <1>6, <1>7, <1>8, <1>9, <1>10, <1>11, <1>12,
     <1>13, <1>14, <1>15, <1>16, <1>17, <1>18, <1>19 DEF Step

LEMMA UsersServe ==
  ASSUME ReleaseIInv, ServiceInv, Users
  PROVE  ServiceInv'
<1>1. CASE Queue
  BY <1>1, QueueServes
<1>2. CASE RemoveAll
  BY <1>2, RemoveAllServes
<1>3. CASE DispatchRemoved
  BY <1>3, DispatchRemovedServes
<1>4. CASE Suspend
  BY <1>4, SuspendServes
<1>5. CASE Resume
  BY <1>5, ResumeServes
<1>6. CASE Flush
  BY <1>6, FlushServes
<1>7. CASE Adjust
  BY <1>7, AdjustServes
<1>8. CASE AddRef
  BY <1>8, AddRefServes
<1>9. CASE Release
  BY <1>9, ReleaseServes
<1> QED
  BY <1>1, <1>2, <1>3, <1>4, <1>5, <1>6, <1>7, <1>8, <1>9 DEF Users

LEMMA ServiceInvNext ==
  ASSUME ReleaseIInv, ServiceInv, [Next]_vars
  PROVE  ServiceInv'
<1>1. CASE \E t \in Threads : Step(t) \/ TimeOut(t) \/ MarkAgain(t)
  BY <1>1, ThreadsServe
<1>2. CASE ReleaseByThread
  BY <1>2, ReleaseByThreadServes
<1>3. CASE ReleaserStirs \/ ReleaserWakes \/ UNCHANGED vars
  BY <1>3, ReleaserServes
<1>4. CASE Destroy
  BY <1>4, DestroyServes
<1>5. CASE Users
  BY <1>5, UsersServe
<1> QED
  BY <1>1, <1>2, <1>3, <1>4, <1>5 DEF Next, Gone

LEMMA ServiceInvAlways == Spec => [](ReleaseIInv /\ ServiceInv)
<1>1. Init => ReleaseIInv /\ ServiceInv
  BY ReleaseIInvInit, ServiceInvInit
<1>2. ReleaseIInv /\ ServiceInv /\ [Next]_vars => (ReleaseIInv /\ ServiceInv)'
  BY ReleaseIInvNext, ServiceInvNext
<1> QED
  BY <1>1, <1>2, PTL DEF Spec

-----------------------------------------------------------------------------

(***************************************************************************)
(* Who runs.  nthreads_running is changed by the two functions that change *)
(* a status to and from THREAD_STAT_RUN only, so that it is right in a     *)
(* pool that is resized, too.                                              *)
(***************************************************************************)

\* The same threads run in p and q, and the number of them is the same.
SameRuns(p, q) ==
    /\ q.running = p.running
    /\ \A t \in Threads : q.stat[t] = "RUN" <=> p.stat[t] = "RUN"

LEMMA SignalRuns ==
  ASSUME NEW p \in CoreType, NEW n, NEW q \in Wakeup(p, n)
  PROVE  SameRuns(p, q)
BY DEF SameRuns, Wakeup, WakeupAll, Signal, CoreType

LEMMA AddThreadsRuns ==
  ASSUME NEW p \in CoreType, NEW self, NEW n, NEW q \in AddThreads(p, self, n)
  PROVE  SameRuns(p, q)
<1>1. PICK R, N : q = Enlist(Revive(p, R), self, N)
  BY DEF AddThreads
<1> DEFINE r == Revive(p, R)
<1>2. /\ r.running = p.running
      /\ \A t \in Threads : r.stat[t] = IF t \in R /\ p.stat[t] = "FORCE_QUIT"
                                        THEN "FREE" ELSE p.stat[t]
  BY DEF Revive, Signal, CoreType
<1>3. DOMAIN r = DOMAIN p
  BY DEF Revive, Signal, CoreType
<1> HIDE DEF r
<1>4. q.running = r.running /\ q.stat = r.stat
  BY <1>1, <1>3 DEF Enlist, r, CoreType
<1> QED
  BY <1>2, <1>4 DEF SameRuns

LEMMA EnsureRuns ==
  ASSUME NEW p \in CoreType, NEW self, NEW q \in EnsureServices(p, self)
  PROVE  SameRuns(p, q)
<1>1. CASE q = p
  BY <1>1 DEF SameRuns
<1>2. CASE \E n : q \in Wakeup(p, n)
  BY <1>2, SignalRuns
<1>3. CASE \E n : q \in AddThreads(p, self, n)
  BY <1>3, AddThreadsRuns
<1> QED
  BY <1>1, <1>2, <1>3 DEF EnsureServices

LEMMA DecThreadsRuns ==
  ASSUME NEW p \in CoreType, NEW n, NEW q \in DecThreads(p, n)
  PROVE  SameRuns(p, q)
<1>1. \A D : SameRuns(p, MarkDead(p, D))
  BY DEF SameRuns, MarkDead, Signal, CoreType
<1>2. q = p \/ \E D : q = MarkDead(p, D)
  BY DEF DecThreads
<1> QED
  BY <1>1, <1>2 DEF SameRuns

LEMMA AdjustRuns ==
  ASSUME NEW p \in CoreType, NEW max \in Int, NEW min \in Int,
         NEW q \in AdjustAbs(p, max, min)
  PROVE  SameRuns(p, q)
<1> DEFINE s == [p EXCEPT !.maxthreads = max, !.minthreads = IF Dynamic THEN min ELSE max]
<1>1. s \in CoreType /\ SameRuns(p, s)
  BY DEF CoreType, SameRuns
<1>2. \/ \E n : q \in AddThreads(s, NoSelf, n)
      \/ \E n : q \in DecThreads(s, n)
      \/ q = WakeupAll(s)
  BY DEF AdjustAbs
<1> HIDE DEF s
<1>3. SameRuns(s, q)
  <2>1. CASE \E n : q \in AddThreads(s, NoSelf, n)
    BY <1>1, <2>1, AddThreadsRuns
  <2>2. CASE \E n : q \in DecThreads(s, n)
    BY <1>1, <2>2, DecThreadsRuns
  <2>3. CASE q = WakeupAll(s)
    BY <1>1, <2>3 DEF WakeupAll, Signal, SameRuns, CoreType
  <2> QED
    BY <1>2, <2>1, <2>2, <2>3
<1> QED
  BY <1>1, <1>3 DEF SameRuns

\* A thread stops waiting, but does not run yet.
LEMMA LeaveWaitRuns ==
  ASSUME NEW p \in CoreType, NEW t \in Threads, p.stat[t] = "WAIT",
         Sound(p) \/ t \in p.run,
         NEW s \in ThreadStatus \ {"RUN"}, NEW q \in WithStatus(LeaveWait(p, t), t, s)
  PROVE  SameRuns(p, q)
<1> DEFINE w == [p EXCEPT !.n_qths_waked = IF t \in p.waked THEN @ - 1 ELSE @]
<1>1. w \in CoreType /\ w.running = p.running /\ w.stat = p.stat
  <2>1. (IF t \in p.waked THEN p.n_qths_waked - 1 ELSE p.n_qths_waked) \in Int
    BY DEF CoreType
  <2> QED
    BY <2>1 DEF CoreType
<1>2. PICK x \in LeaveWait(p, t) : q = [x EXCEPT !.stat[t] = s]
  BY DEF WithStatus
<1>3. SameRuns(w, x) /\ DOMAIN x = DOMAIN w /\ x.stat \in [Threads -> ThreadStatus]
  <2>1. CASE x = w
    BY <1>1, <2>1 DEF SameRuns, CoreType
  <2>2. CASE Sound(p) /\ x \in EnsureServices(w, t)
    <3>1. Good(w)
      BY <1>1, <2>2 DEF Good, Sound, CoreType
    <3> HIDE DEF w
    <3>2. SameRuns(w, x) /\ Good(x)
      BY <1>1, <2>2, <3>1, EnsureRuns, EnsureServicesKeeps DEF Keeps
    <3> QED
      BY <1>1, <3>2 DEF Good, CoreType
  <2>3. CASE x = [w EXCEPT !.sleeping = @ - 1,
                           !.run = IF t \in w.rm THEN @ \ {t} ELSE @,
                           !.real_free = IF t \in w.rm THEN @ ELSE @ + 1]
    <3> HIDE DEF w
    <3> QED
      BY <1>1, <2>3 DEF SameRuns, CoreType
  <2>4. w.rm = p.rm /\ w.run = p.run
    BY DEF CoreType
  <2> QED
    BY <1>2, <2>1, <2>2, <2>3, <2>4 DEF LeaveWait
<1>4. t \in DOMAIN x.stat /\ "stat" \in DOMAIN x /\ "running" \in DOMAIN x
  BY <1>1, <1>3 DEF CoreType
<1> HIDE DEF w
<1>5. q.running = x.running /\ q.stat = [x.stat EXCEPT ![t] = s]
  BY <1>2, <1>4
<1> QED
  BY <1>1, <1>3, <1>5 DEF SameRuns

\* Status changes to and from RUN.
LEMMA StatusRunRuns ==
  ASSUME NEW p, Good(p), NEW t \in Threads, NEW q \in StatusRun(p, t)
  PROVE  /\ q.running = p.running + 1
         /\ \A u \in Threads : q.stat[u] = "RUN" <=> u = t \/ p.stat[u] = "RUN"
<1> DEFINE dead == t \in p.rm
           w == [p EXCEPT !.running = @ + 1,
                          !.dying_run = IF dead THEN @ + 1 ELSE @,
                          !.real_free = IF dead THEN @ ELSE @ - 1]
<1>1. Good(w) /\ w.running = p.running + 1 /\ w.stat = p.stat
  <2>1. /\ p.running + 1 \in Int
        /\ (IF dead THEN p.dying_run + 1 ELSE p.dying_run) \in Int
        /\ (IF dead THEN p.real_free ELSE p.real_free - 1) \in Int
    BY DEF Good, CoreType
  <2> QED
    BY <2>1 DEF Good, Sound, CoreType
<1>2. PICK x \in {w} \cup EnsureServices(w, t) : q = [x EXCEPT !.stat[t] = "RUN"]
  BY DEF StatusRun, WithStatus
<1> HIDE DEF w
<1>3. SameRuns(w, x) /\ Good(x)
  BY <1>1, <1>2, EnsureRuns, EnsureServicesKeeps DEF Good, Keeps, SameRuns
<1> QED
  BY <1>1, <1>2, <1>3 DEF SameRuns, Good, CoreType

LEMMA StatusCompleteRuns ==
  ASSUME NEW p \in CoreType, NEW t \in Threads, NEW q, q = StatusComplete(p, t)
  PROVE  /\ q.running = p.running - 1
         /\ \A u \in Threads : q.stat[u] = "RUN" <=> u # t /\ p.stat[u] = "RUN"
BY DEF StatusComplete, CoreType

-----------------------------------------------------------------------------

\* Steps of threads.
LEMMA OthersRun ==
  ASSUME ReleaseIInv, ServiceInv, NEW t \in Threads,
         Step(t) \/ TimeOut(t) \/ MarkAgain(t),
         ~TakeDispatch(t), ~TakeTask(t), ~FinishTask(t), ~FinishDispatched(t)
  PROVE  SameRuns(core, core')
<1>1. /\ Good(core) /\ core \in CoreType /\ StatusFits(t) /\ Sound(core)
      /\ t \in core.run \/ t \in core.rm
  BY ThreadFacts DEF Good, Sound
<1>2. CASE Join(t)
  BY <1>1, <1>2 DEF Join, CoreType, SameRuns, StatusFits
<1>3. CASE Quit(t)
  BY <1>1, <1>3 DEF Quit, StatusForceQuit, CoreType, SameRuns, StatusFits
<1>4. CASE Sleep(t)
  BY <1>1, <1>4 DEF Sleep, StatusWait, CoreType, SameRuns, StatusFits
<1>5. CASE Wake(t)
  <2>1. core.stat[t] = "WAIT" /\ core' \in WithStatus(LeaveWait(core, t), t, "FREE")
    BY <1>1, <1>5 DEF Wake, StatusFree, StatusFits
  <2>2. "FREE" \in ThreadStatus \ {"RUN"}
    BY DEF ThreadStatus
  <2> QED
    BY <1>1, <2>1, <2>2, LeaveWaitRuns
<1>6. CASE TimeOut(t)
  <2>1. PICK retire \in {FALSE} \cup {MayRetire(core, t)} :
          core' \in StatusTimedOut(core, t, retire)
    BY <1>6 DEF TimeOut
  <2> DEFINE a == IF retire THEN [core EXCEPT !.rm = @ \cup {t}, !.dying = @ + 1,
                                              !.real_pool = @ - 1]
                  ELSE core
             b == Dequeued(a, t)
  <2>2. /\ a \in CoreType /\ a.running = core.running /\ a.stat = core.stat
        /\ a = core \/ t \in a.run
    <3>1. core.dying + 1 \in Int /\ core.real_pool - 1 \in Int
      BY <1>1 DEF CoreType
    <3>2. retire => MayRetire(core, t)
      BY <2>1
    <3>3. retire => t \in core.run
      BY <1>1, <3>2 DEF MayRetire
    <3> QED
      BY <1>1, <3>1, <3>3 DEF CoreType
  <2>3. core' \in WithStatus(LeaveWait(b, t), t, "TIMEDOUT")
    BY <2>1 DEF StatusTimedOut
  <2> HIDE DEF a
  <2>4. /\ b \in CoreType /\ b.running = a.running /\ b.stat = a.stat
        /\ b.run = a.run /\ b.rm = a.rm /\ b.ths = a.ths
        /\ b.unborn = a.unborn /\ b.thq = a.thq
    <3>1. a.n_qths_wait - 1 \in Int
      BY <2>2 DEF CoreType
    <3> QED
      BY <2>2, <3>1 DEF Dequeued, CoreType
  <2>5. Sound(b) \/ t \in b.run
    BY <1>1, <2>2, <2>4 DEF Sound
  <2>6. b.stat[t] = "WAIT" /\ "TIMEDOUT" \in ThreadStatus \ {"RUN"}
    BY <1>1, <1>6, <2>2, <2>4 DEF TimeOut, StatusFits, ThreadStatus
  <2>7. SameRuns(b, core')
    <3> HIDE DEF b
    <3> QED
      BY <2>3, <2>4, <2>5, <2>6, LeaveWaitRuns
  <2> HIDE DEF b
  <2> QED
    BY <2>2, <2>4, <2>7 DEF SameRuns
<1>7. CASE CreateThread(t) \/ CreateFails(t) \/ Recheck(t)
  <2>1. \A u, x : x = Launched(core, t, u) => SameRuns(core, x)
    BY <1>1 DEF Launched, CoreType, SameRuns
  <2>2. \A u, died, x : x = Discard(core, t, u, died) => SameRuns(core, x)
    BY <1>1 DEF Discard, CoreType, SameRuns
  <2>3. CASE CreateThread(t)
    BY <2>1, <2>3 DEF CreateThread
  <2>4. CASE CreateFails(t)
    BY <2>2, <2>4 DEF CreateFails
  <2>5. CASE Recheck(t)
    BY <2>1, <2>2, <2>5 DEF Recheck
  <2> QED
    BY <1>7, <2>3, <2>4, <2>5
<1>8. CASE Requeue(t)
  <2> DEFINE p == [core EXCEPT !.npendings = @ + 1]
  <2>1. p \in CoreType /\ p.running = core.running /\ p.stat = core.stat
    <3>1. core.npendings + 1 \in Nat
      BY <1>1 DEF CoreType
    <3> QED
      BY <1>1, <3>1 DEF CoreType
  <2>2. core' = p \/ core' \in EnsureServices(p, NoSelf)
    BY <1>8 DEF Requeue
  <2> HIDE DEF p
  <2> QED
    BY <2>1, <2>2, EnsureRuns DEF SameRuns
<1>9. CASE Suspect(t) \/ Test(t) \/ Collect(t) \/ Stay(t) \/ MarkAgain(t)
  BY <1>9 DEF Suspect, Test, Collect, Stay, MarkAgain, SameRuns
<1>10. CASE Leave(t)
  BY <1>1, <1>10 DEF Leave, StatusLeave, CoreType, SameRuns, StatusFits
<1> QED
  BY <1>2, <1>3, <1>4, <1>5, <1>6, <1>7, <1>8, <1>9, <1>10 DEF Step

\* ... and of everybody else.
LEMMA CallsRun ==
  ASSUME ReleaseIInv, ServiceInv,
         ReleaseByThread \/ ReleaserStirs \/ ReleaserWakes \/ Destroy \/ Users
  PROVE  SameRuns(core, core')
<1>1. core \in CoreType /\ core.npendings \in Nat /\ core.n_qdispatchs \in Nat
  BY GoodCore DEF ReleaseIInv, Good, CoreType
<1> DEFINE LikeCore(p) == p \in CoreType /\ p.running = core.running /\ p.stat = core.stat
<1>2. ASSUME NEW p, LikeCore(p), NEW self, core' \in {p} \cup EnsureServices(p, self)
      PROVE  SameRuns(core, core')
  BY <1>2, EnsureRuns DEF SameRuns
<1>3. CASE ReleaseByThread \/ ReleaserStirs \/ ReleaserWakes \/ Destroy
  BY <1>1, <1>3 DEF ReleaseByThread, ReleaserStirs, ReleaserWakes, Destroy, CoreType, SameRuns
<1>4. CASE RemoveAll \/ Suspend \/ AddRef
  BY <1>1, <1>4 DEF RemoveAll, Suspend, AddRef, CoreType, SameRuns
<1>5. CASE Queue
  <2> DEFINE p == [core EXCEPT !.npendings = @ + 1]
  <2>1. LikeCore(p)
    <3>1. core.npendings + 1 \in Nat
      BY <1>1
    <3> QED
      BY <1>1, <3>1 DEF CoreType
  <2>2. core' \in {p} \cup EnsureServices(p, NoSelf) \/ core' \in Wakeup(p, 1)
    BY <1>5 DEF Queue
  <2> HIDE DEF p
  <2> QED
    BY <1>2, <2>1, <2>2, SignalRuns DEF SameRuns
<1>6. CASE DispatchRemoved
  <2>1. PICK n \in 0..held : \A p : p = [core EXCEPT !.n_qdispatchs = @ + n] =>
                               core' \in {p} \cup EnsureServices(p, NoSelf)
    BY <1>6 DEF DispatchRemoved
  <2> DEFINE p == [core EXCEPT !.n_qdispatchs = @ + n]
  <2>2. core.n_qdispatchs + n \in Nat
    BY <1>1
  <2>3. LikeCore(p)
    BY <1>1, <2>2 DEF CoreType
  <2> HIDE DEF p
  <2>4. core' \in {p} \cup EnsureServices(p, NoSelf)
    BY <2>1 DEF p
  <2> QED
    BY <1>2, <2>3, <2>4
<1>7. CASE Resume
  <2> DEFINE p == [core EXCEPT !.paused = FALSE]
  <2>1. LikeCore(p) /\ Sound(p)
    BY <1>1, GoodCore DEF CoreType, ReleaseIInv, Good, Sound
  <2>2. PICK q : /\ q = p \/ \E n : q \in Wakeup(p, n)
                 /\ core' \in {q} \cup EnsureServices(q, NoSelf)
    BY <1>7 DEF Resume
  <2> HIDE DEF p
  <2>3. q \in CoreType /\ SameRuns(p, q)
    BY <2>1, <2>2, SignalRuns, WakeupKeeps DEF Keeps, Good, SameRuns
  <2> QED
    BY <2>1, <2>2, <2>3, EnsureRuns DEF SameRuns
<1>8. CASE Flush \/ Adjust
  <2>1. CASE Flush
    BY <1>1, <2>1, DecThreadsRuns DEF Flush, FlushThreads
  <2>2. CASE Adjust
    <3>1. PICK a \in AdjustArgs : core' \in AdjustAbs(core, a[1], a[2])
      BY <2>2 DEF Adjust
    <3>2. a[1] \in Int /\ a[2] \in Int
      BY <3>1, BoundAssumption
    <3> QED
      BY <1>1, <3>1, <3>2, AdjustRuns
  <2> QED
    BY <1>8, <2>1, <2>2
<1>9. CASE Release
  <2> DEFINE p == [core EXCEPT !.ref = @ - 1, !.user_ref = @ - 1]
  <2>1. LikeCore(p) /\ Sound(p)
    <3>1. core.ref - 1 \in Int /\ core.user_ref - 1 \in Int
      BY <1>1 DEF CoreType
    <3> QED
      BY <1>1, <3>1, GoodCore DEF CoreType, ReleaseIInv, Good, Sound
  <2>2. core' = p \/ LastRelease(p)
    BY <1>9 DEF Release
  <2> HIDE DEF p
  <2>3. ASSUME LastRelease(p)
        PROVE  SameRuns(core, core')
    <3> DEFINE d == [p EXCEPT !.status = "destroying"]
               e == [d EXCEPT !.n_qdispatchs = @ + d.npendings, !.npendings = 0]
    <3>1. LikeCore(d) /\ Sound(d)
      BY <2>1 DEF CoreType, Sound, CoreStatus
    <3>2. PICK q \in SweepPending(d) : \E b \in BOOLEAN :
             core' = [WakeupAll(q) EXCEPT !.release_cleaning = b]
      BY <2>3 DEF LastRelease
    <3>3. q = d \/ q \in EnsureServices(e, NoSelf)
      BY <3>2 DEF SweepPending
    <3> HIDE DEF d
    <3>4. LikeCore(e) /\ Sound(e)
      <4>1. d.n_qdispatchs + d.npendings \in Nat
        BY <3>1 DEF CoreType
      <4> QED
        BY <3>1, <4>1 DEF CoreType, Sound
    <3> HIDE DEF e
    <3>5. q \in CoreType /\ SameRuns(core, q)
      BY <3>1, <3>3, <3>4, EnsureRuns, EnsureServicesKeeps DEF Keeps, Good, SameRuns
    <3> QED
      BY <3>2, <3>5 DEF WakeupAll, Signal, SameRuns, CoreType
  <2> QED
    BY <2>1, <2>2, <2>3 DEF SameRuns
<1> QED
  BY <1>3, <1>4, <1>5, <1>6, <1>7, <1>8, <1>9 DEF Users

\* Whoever takes or finishes something is the only one to change over.
LEMMA RunningNext ==
  ASSUME ReleaseIInv, ServiceInv, ServiceInv', core.running = Cardinality(Busy),
         [Next]_vars
  PROVE  core'.running = Cardinality(Busy')
<1>1. /\ Good(core) /\ core \in CoreType /\ Busy \in SUBSET Threads
      /\ \A t \in Threads : t \in Busy <=> core.stat[t] = "RUN"
  BY GoodCore DEF ReleaseIInv, ServiceInv, Counted, Outside, Good, Busy, CoreType
<1>2. core' \in CoreType
  BY ReleaseIInvNext DEF ReleaseIInv, ThreadsInv, TypeOK
<1>3. Busy' \in SUBSET Threads /\ \A t \in Threads : t \in Busy' <=> core'.stat[t] = "RUN"
  BY <1>2 DEF ServiceInv, Counted, Outside, Busy, CoreType
<1>4. ASSUME SameRuns(core, core')
      PROVE  core'.running = Cardinality(Busy')
  <2>1. Busy' = Busy
    BY <1>1, <1>3, <1>4 DEF SameRuns
  <2> QED
    BY <1>4, <2>1 DEF SameRuns
<1>5. CASE UNCHANGED vars
  BY <1>4, <1>5 DEF vars, SameRuns
<1>6. ASSUME NEW t \in Threads, Step(t) \/ TimeOut(t) \/ MarkAgain(t)
      PROVE  core'.running = Cardinality(Busy')
  <2>1. CASE TakeDispatch(t) \/ TakeTask(t)
    <3>1. PICK p, k : pc[t] = "gettask" /\ Taking(p) /\ Taken(t, p, k)
      <4>1. CASE TakeDispatch(t)
        BY <4>1, TakingDispatch
      <4>2. CASE TakeTask(t)
        BY <4>2, TakingTask
      <4> QED
        BY <2>1, <4>1, <4>2
    <3>2. /\ Good(p) /\ p.running = core.running
          /\ \A u \in Threads : p.stat[u] = "RUN" <=> core.stat[u] = "RUN"
      BY <3>1 DEF Taking, Alike
    <3>3. CASE core' = p
      BY <1>4, <3>2, <3>3 DEF SameRuns
    <3>4. CASE core' \in StatusRun(p, t)
      <4>1. /\ core'.running = core.running + 1
            /\ \A u \in Threads : core'.stat[u] = "RUN" <=> u = t \/ core.stat[u] = "RUN"
        BY <3>2, <3>4, StatusRunRuns
      <4>2. t \notin Busy
        BY <1>1, <3>1 DEF ServiceInv, StatusFits
      <4>3. Busy' = Busy \cup {t}
        BY <1>1, <1>3, <4>1
      <4> QED
        BY <1>1, <4>1, <4>2, <4>3, SizeOfOne
    <3> QED
      BY <3>1, <3>3, <3>4 DEF Taken
  <2>2. CASE FinishTask(t) \/ FinishDispatched(t)
    <3>1. CASE core' = core
      BY <1>4, <3>1 DEF SameRuns
    <3>2. CASE Dynamic /\ core' = StatusComplete(core, t)
      <4>1. /\ core'.running = core.running - 1
            /\ \A u \in Threads : core'.stat[u] = "RUN" <=> u # t /\ core.stat[u] = "RUN"
        BY <1>1, <3>2, StatusCompleteRuns
      <4>2. t \in Busy
        BY <1>1, <2>2, <3>2 DEF ServiceInv, StatusFits, FinishTask, FinishDispatched
      <4>3. Busy' = Busy \ {t}
        BY <1>1, <1>3, <4>1
      <4> QED
        BY <1>1, <4>1, <4>2, <4>3, SizeOfOne
    <3> QED
      BY <2>2, <3>1, <3>2 DEF FinishTask, FinishDispatched
  <2>3. CASE ~TakeDispatch(t) /\ ~TakeTask(t) /\ ~FinishTask(t) /\ ~FinishDispatched(t)
    BY <1>4, <1>6, <2>3, OthersRun
  <2> QED
    BY <2>1, <2>2, <2>3
<1> QED
  BY <1>4, <1>5, <1>6, CallsRun DEF Next, Gone

LEMMA RunningAlways == Spec => [](core.running = Cardinality(Busy))
<1>1. Init => core.running = Cardinality(Busy)
  BY ServiceInvInit DEF Init, ServiceInv, Unresized, Classes
<1>2. /\ ReleaseIInv /\ ServiceInv /\ ServiceInv' /\ core.running = Cardinality(Busy)
      /\ [Next]_vars
      => (core.running = Cardinality(Busy))'
  BY RunningNext
<1> QED
  BY <1>1, <1>2, ServiceInvAlways, PTL DEF Spec

-----------------------------------------------------------------------------

\* The lists and counters that ensure_servicesl and need_ensure_servicesl decide
\* by describe the threads, in every order of sleeping, signalling, timing out,
\* quitting and creating: the lists and the running threads always, the other
\* classes as long as nobody resized the pool, and also if pthread_create fails.
THEOREM CountersAlways == Spec => []Counters
<1>1. ReleaseIInv /\ ServiceInv /\ core.running = Cardinality(Busy) => Counters
  <2> SUFFICES ASSUME ReleaseIInv, ServiceInv, core.running = Cardinality(Busy)
               PROVE  Counters
    OBVIOUS
  <2>1. ThreadCounters
    BY DEF ServiceInv, Counted, Lists, ThreadCounters
  <2>2. ASSUME resizes = 0
        PROVE  DyingCounted /\ ClassesCounted
    <3>1. Classes(core, Asleep, Busy)
      BY <2>2 DEF ServiceInv, Unresized
    <3>2. DyingCounted
      BY <3>1 DEF Classes, DyingCounted
    <3>3. ClassesCounted
      <4> DEFINE alive == core.ths \ core.rm
                 busy == {t \in core.ths : core.stat[t] = "RUN"}
      <4>1. /\ Busy = busy /\ busy \cap core.rm = {} /\ alive \cap Asleep = Asleep
            /\ alive \ (busy \cup Asleep) = core.ths \ (core.rm \cup Asleep \cup Busy)
        BY <3>1 DEF Busy, Classes
      <4>2. /\ core.dying_run = 0 /\ core.sleeping = Cardinality(Asleep)
            /\ core.real_free = Cardinality(core.ths \ (core.rm \cup Asleep \cup Busy))
        BY <3>1 DEF Classes
      <4>3. Cardinality(busy \cap core.rm) = 0
        BY <4>1, FS_EmptySet
      <4> HIDE DEF alive, busy
      <4>4. /\ core.dying_run = Cardinality(busy \cap core.rm)
            /\ core.sleeping = Cardinality(alive \cap Asleep)
            /\ core.real_free = Cardinality(alive \ (busy \cup Asleep))
        BY <4>1, <4>2, <4>3
      <4> QED
        BY <4>4 DEF ClassesCounted, alive, busy
    <3> QED
      BY <3>2, <3>3
  <2>3. RunningCounted
    BY DEF RunningCounted, Busy
  <2> QED
    BY <2>1, <2>2, <2>3 DEF Counters
<1> QED
  BY <1>1, ServiceInvAlways, RunningAlways, PTL

\* A thread object without a pthread is on the thq of one thread, which is going
\* to create it (do_create_threads), as long as nobody resized the pool.
THEOREM UnbornOwnedAlways == Spec => [](resizes = 0 => UnbornOwned)
<1>1. ReleaseIInv /\ ServiceInv => (resizes = 0 => UnbornOwned)
  <2> SUFFICES ASSUME ReleaseIInv, ServiceInv, resizes = 0
               PROVE  UnbornOwned
    OBVIOUS
  <2>1. Good(core)
    BY GoodCore DEF ReleaseIInv
  <2>2. \A t \in Threads : core.thq[t] \subseteq core.unborn
    BY <2>1 DEF Good, Sound
  <2>3. ASSUME NEW u \in core.unborn
        PROVE  \E t \in core.ths :
                 /\ u \in core.thq[t] /\ pc[t] = "create"
                 /\ \A o \in Threads \ {t} : u \notin core.thq[o]
    <3>1. PICK t \in Threads : u \in core.thq[t]
      BY <2>3 DEF ServiceInv, Unresized, Owned
    <3>2. pc[t] = "create"
      BY <3>1 DEF ServiceInv, Unresized, Undisturbed
    <3>3. t \in core.ths
      BY <3>2, InThePool DEF ReleaseIInv
    <3>4. \A o \in Threads \ {t} : u \notin core.thq[o]
      BY <2>1, <3>1 DEF Good, Sound
    <3> QED
      BY <3>1, <3>2, <3>3, <3>4
  <2> QED
    BY <2>2, <2>3 DEF UnbornOwned
<1> QED
  BY <1>1, ServiceInvAlways, PTL

\* No wakeup is lost: what is ready has a thread that will look for it, unless
\* the pool was resized (CoreStranded.cfg) or the system has no thread to give:
\* without either hypothesis TLC finds ready tasks with all threads asleep or
\* with no thread at all.
THEOREM NoStrandedWorkAlways ==
  ASSUME ~CreateMayFail
  PROVE  Spec => [](resizes = 0 => NoStrandedWork)
<1>1. ReleaseIInv /\ ServiceInv => (resizes = 0 => NoStrandedWork)
  BY DEF ServiceInv, Served, Server, NoStrandedWork
<1> QED
  BY <1>1, ServiceInvAlways, PTL

\* ... and while users hold the pool tasks wait only if a server is on the way
\* or all the threads the pool may have are there and none is asleep.
THEOREM WorkConservingAlways ==
  ASSUME ~CreateMayFail
  PROVE  Spec => [](resizes = 0 => WorkConserving)
<1>1. ReleaseIInv /\ ServiceInv => (resizes = 0 => WorkConserving)
  BY DEF ServiceInv, Served, Conserved, WorkConserving
<1> QED
  BY <1>1, ServiceInvAlways, PTL

-----------------------------------------------------------------------------
(***************************************************************************)
(* The pool that is freed is empty                                         *)
(***************************************************************************)

\* If no task queues itself again, none becomes ready once the last user left,
\* who has swept a suspended pool.
Swept ==
    /\ again = {} /\ \A t \in Threads : pc[t] # "requeue"
    /\ ~Created /\ core.paused => core.npendings = 0

\* The tasks in q are those in p, and may run if those may.
SameTasks(p, q) ==
    /\ q.paused = p.paused /\ q.npendings = p.npendings
    /\ q.n_qdispatchs = p.n_qdispatchs

\* A thread that takes nothing and queues nothing leaves the tasks alone ...
LEMMA TasksStay ==
  ASSUME ReleaseIInv, ServiceInv, NEW t \in Threads,
         Step(t) \/ TimeOut(t) \/ MarkAgain(t),
         ~TakeDispatch(t), ~TakeTask(t), ~Requeue(t)
  PROVE  SameTasks(core, core')
<1> DEFINE Kept(x) == SameTasks(core, x)
<1>1. /\ Good(core) /\ core \in CoreType /\ Counted(core, Asleep) /\ StatusFits(t)
      /\ t \in Asleep <=> core.stat[t] = "WAIT"
      /\ pc[t] # "entry" => t \in core.ths \ core.unborn
  BY ThreadFacts DEF Good
<1>2. \A x : Orders(core, x) => Kept(x)
  BY DEF Orders, SameTasks
<1>3. CASE Join(t)
  BY <1>1, <1>3 DEF Join, CoreType, SameTasks
<1>5. CASE Quit(t)
  BY <1>1, <1>5 DEF Quit, StatusForceQuit, CoreType, SameTasks
<1>6. CASE Sleep(t)
  BY <1>1, <1>6 DEF Sleep, StatusWait, CoreType, SameTasks
<1>7. ASSUME pc[t] = "asleep", NEW s \in ThreadStatus \ {"WAIT", "RUN"},
             core' \in WithStatus(LeaveWait(Dequeued(core, t), t), t, s)
      PROVE  Kept(core')
  <2>1. t \in Asleep
    BY <1>1, <1>7 DEF StatusFits
  <2>2. WentOn(core, core', t, s, Asleep)
    BY <1>1, <1>7, <2>1, GoesOnCounted
  <2> QED
    BY <1>2, <2>2 DEF WentOn
<1>8. CASE Wake(t)
  <2>1. core' \in WithStatus(LeaveWait(Dequeued(core, t), t), t, "FREE")
    BY <1>8 DEF Wake, StatusFree, Dequeued
  <2>2. "FREE" \in ThreadStatus \ {"WAIT", "RUN"}
    BY DEF ThreadStatus
  <2> QED
    BY <1>7, <1>8, <2>1, <2>2 DEF Wake
<1>9. CASE TimeOut(t)
  <2>1. PICK retire \in {FALSE} \cup {MayRetire(core, t)} :
          core' \in StatusTimedOut(core, t, retire)
    BY <1>9 DEF TimeOut
  <2>2. CASE retire = FALSE
    <3>1. core' \in WithStatus(LeaveWait(Dequeued(core, t), t), t, "TIMEDOUT")
      BY <2>1, <2>2 DEF StatusTimedOut
    <3>2. "TIMEDOUT" \in ThreadStatus \ {"WAIT", "RUN"}
      BY DEF ThreadStatus
    <3> QED
      BY <1>7, <1>9, <3>1, <3>2 DEF TimeOut
  <2>3. CASE retire # FALSE
    <3>1. retire = TRUE /\ MayRetire(core, t) /\ t \notin core.rm /\ t \in Asleep
      BY <1>1, <1>9, <2>1, <2>3 DEF MayRetire, TimeOut, StatusFits
    <3>2. core' \in StatusTimedOut(core, t, TRUE)
      BY <2>1, <3>1
    <3>3. Orders(core, core')
      BY <1>1, <3>1, <3>2, RetiresCounted
    <3> QED
      BY <1>2, <3>3
  <2> QED
    BY <2>2, <2>3
<1>10. CASE CreateThread(t) \/ CreateFails(t) \/ Recheck(t)
  <2>1. \A u, x : x = Launched(core, t, u) => Kept(x)
    BY <1>1 DEF Launched, CoreType, SameTasks
  <2>2. \A u, died, x : x = Discard(core, t, u, died) => Kept(x)
    BY <1>1 DEF Discard, CoreType, SameTasks
  <2>3. CASE CreateThread(t)
    BY <2>1, <2>3 DEF CreateThread
  <2>4. CASE CreateFails(t)
    BY <2>2, <2>4 DEF CreateFails
  <2>5. CASE Recheck(t)
    BY <2>1, <2>2, <2>5 DEF Recheck
  <2> QED
    BY <1>10, <2>3, <2>4, <2>5
<1>11. CASE FinishTask(t) \/ FinishDispatched(t)
  <2>1. t \in core.ths
    BY <1>1, <1>11 DEF FinishTask, FinishDispatched
  <2>2. \A x : x = StatusComplete(core, t) => Completed(core, x, t, Asleep)
    BY <1>1, <2>1, StatusCompleteCounted
  <2>3. core' = StatusComplete(core, t) \/ core' = core
    BY <1>11 DEF FinishTask, FinishDispatched
  <2> QED
    BY <1>2, <2>2, <2>3 DEF Completed, SameTasks
<1>12. CASE Suspect(t) \/ Test(t) \/ Collect(t) \/ Stay(t) \/ MarkAgain(t)
  BY <1>1, <1>12 DEF Suspect, Test, Collect, Stay, MarkAgain, SameTasks
<1>13. CASE Leave(t)
  BY <1>1, <1>13 DEF Leave, StatusLeave, CoreType, SameTasks
<1> QED
  BY <1>3, <1>5, <1>6, <1>8, <1>9, <1>10, <1>11, <1>12, <1>13 DEF Step

\* ... and so does one from what it has left of them.
LEMMA TakenTasks ==
  ASSUME ReleaseIInv, ServiceInv, NEW t \in Threads, pc[t] = "gettask",
         NEW p, Taking(p), NEW k, Taken(t, p, k)
  PROVE  SameTasks(p, core')
<1>1. /\ Good(p) /\ t \in p.ths \ Asleep /\ Counted(p, Asleep)
  <2>1. /\ Good(core) /\ Counted(core, Asleep) /\ StatusFits(t)
        /\ t \in Asleep <=> core.stat[t] = "WAIT"
        /\ t \in core.ths
    BY ThreadFacts
  <2> QED
    BY <2>1, AlikeCounted DEF Taking, Alike, StatusFits
<1>2. CASE core' = p
  BY <1>2 DEF SameTasks
<1>3. CASE core' \in StatusRun(p, t)
  <2>1. Ran(p, core', t, Asleep)
    BY <1>1, <1>3, StatusRunCounted
  <2> QED
    BY <2>1 DEF Ran, Orders, SameTasks
<1> QED
  BY <1>2, <1>3 DEF Taken

\* Threads only take what is ready.
LEMMA ThreadsTake ==
  ASSUME ReleaseIInv, ServiceInv, NEW t \in Threads,
         Step(t) \/ TimeOut(t) \/ MarkAgain(t), ~Requeue(t)
  PROVE  core'.paused = core.paused /\ core'.npendings <= core.npendings
<1>1. CASE TakeDispatch(t) \/ TakeTask(t)
  <2>1. PICK p, k : Taking(p) /\ Taken(t, p, k) /\ pc[t] = "gettask"
    <3>1. CASE TakeDispatch(t)
      BY <3>1, TakingDispatch
    <3>2. CASE TakeTask(t)
      BY <3>2, TakingTask
    <3> QED
      BY <1>1, <3>1, <3>2
  <2>2. SameTasks(p, core')
    BY <2>1, TakenTasks
  <2> QED
    BY <2>1, <2>2 DEF Taking, SameTasks
<1>2. CASE ~TakeDispatch(t) /\ ~TakeTask(t)
  <2>1. SameTasks(core, core')
    BY <1>2, TasksStay
  <2>2. core.npendings \in Nat
    BY DEF ReleaseIInv, ThreadsInv, TypeOK, CoreType
  <2> QED
    BY <2>1, <2>2 DEF SameTasks
<1> QED
  BY <1>1, <1>2

\* Who has taken nothing queues nothing again.
LEMMA NobodyRequeues ==
  ASSUME ReleaseIInv, Swept, "again" \notin Calls, [Next]_vars
  PROVE  again' = {} /\ \A t \in Threads : pc'[t] # "requeue"
<1>1. again = {} /\ pc \in [Threads -> Location] /\ \A t \in Threads : pc[t] # "requeue"
  BY DEF Swept, ReleaseIInv, ThreadsInv, TypeOK
<1>2. ASSUME NEW t \in Threads, Step(t) \/ TimeOut(t) \/ MarkAgain(t)
      PROVE  /\ again' = again
             /\ pc' = pc \/ \E l \in Location \ {"requeue"} : pc' = [pc EXCEPT ![t] = l]
  <2>1. ~MarkAgain(t) /\ ~Requeue(t)
    BY <1>1 DEF MarkAgain, Requeue
  <2>2. CASE \/ Join(t) \/ Quit(t) \/ Sleep(t) \/ Wake(t) \/ TimeOut(t)
             \/ Test(t) \/ Collect(t) \/ Stay(t) \/ Leave(t)
    BY <2>2 DEF Join, Quit, Sleep, Wake, TimeOut, Test, Collect, Stay, Leave, Goto, Location
  <2>3. CASE TakeDispatch(t) \/ TakeTask(t)
    <3>1. \A p, k : Taken(t, p, k) =>
            /\ again' = again
            /\ \E l \in Location \ {"requeue"} : pc' = [pc EXCEPT ![t] = l]
      BY DEF Taken, Goto, Location
    <3> QED
      BY <2>3, <3>1 DEF TakeDispatch, TakeTask
  <2>4. CASE CreateThread(t) \/ CreateFails(t) \/ Recheck(t)
    <3>1. \A Q : LoopOn(t, Q) =>
            \E l \in Location \ {"requeue"} : pc' = [pc EXCEPT ![t] = l]
      BY DEF LoopOn, Goto, Location
    <3> QED
      BY <2>4, <3>1 DEF CreateThread, CreateFails, Recheck
  <2>5. CASE FinishTask(t) \/ FinishDispatched(t)
    BY <1>1, <2>5 DEF FinishTask, FinishDispatched, AfterTask, Goto, Location
  <2>6. CASE Suspect(t)
    BY <2>6 DEF Suspect
  <2> QED
    BY <1>2, <2>1, <2>2, <2>3, <2>4, <2>5, <2>6 DEF Step
<1>3. CASE \E t \in Threads : Step(t) \/ TimeOut(t) \/ MarkAgain(t)
  <2>1. PICK t \in Threads : Step(t) \/ TimeOut(t) \/ MarkAgain(t)
    BY <1>3
  <2>2. /\ again' = again
        /\ pc' = pc \/ \E l \in Location \ {"requeue"} : pc' = [pc EXCEPT ![t] = l]
    BY <1>2, <2>1
  <2> QED
    BY <1>1, <2>2
<1>4. CASE UNCHANGED <<pc, again>>
  BY <1>1, <1>4
<1>5. CASE ReleaseByThread \/ ReleaserStirs \/ ReleaserWakes \/ Destroy \/ UNCHANGED vars
  BY <1>4, <1>5 DEF ReleaseByThread, ReleaserStirs, ReleaserWakes, Destroy, vars
<1>6. CASE Users
  BY <1>4, <1>6 DEF Users, Queue, RemoveAll, DispatchRemoved, Suspend, Resume, Flush,
     Adjust, AddRef, Release, Unmoved
<1> QED
  BY <1>3, <1>5, <1>6 DEF Next, Gone

\* The last user of a suspended pool leaves nothing pending in it, but to be
\* handled as removed.
LEMMA LastReleaseTasks ==
  ASSUME ReleaseIInv, ServiceInv, Release, core.user_ref = 1
  PROVE  /\ core'.status = "destroying" /\ core'.paused = core.paused
         /\ IF core.paused
            THEN /\ core'.npendings = 0
                 /\ core'.n_qdispatchs = core.n_qdispatchs + core.npendings
            ELSE /\ core'.npendings = core.npendings
                 /\ core'.n_qdispatchs = core.n_qdispatchs
<1> DEFINE p == [core EXCEPT !.ref = @ - 1, !.user_ref = @ - 1]
           d == [p EXCEPT !.status = "destroying"]
           o == [d EXCEPT !.n_qdispatchs = @ + d.npendings, !.npendings = 0]
<1>1. /\ core \in CoreType /\ core.ref - 1 \in Int /\ core.user_ref - 1 \in Int
      /\ core.npendings \in Nat /\ core.n_qdispatchs + core.npendings \in Nat
  BY DEF ReleaseIInv, ThreadsInv, TypeOK, CoreType
<1>2. LastRelease(p)
  <2>1. p.user_ref = 0
    BY <1>1 DEF CoreType
  <2> QED
    BY <2>1 DEF Release
<1>3. /\ d.paused = core.paused /\ d.npendings = core.npendings
      /\ d.n_qdispatchs = core.n_qdispatchs /\ d.status = "destroying"
      /\ o.paused = core.paused /\ o.npendings = 0
      /\ o.n_qdispatchs = core.n_qdispatchs + core.npendings
  BY <1>1 DEF CoreType
<1>4. d \in CoreType
  <2>1. "destroying" \in CoreStatus
    BY DEF CoreStatus
  <2> QED
    BY <1>1, <2>1, Zenon DEF CoreType
<1>5. Like(d)
  <2>1. d = WithRefs(core, core.ref - 1, core.user_ref - 1, "destroying")
    BY <1>1 DEF WithRefs, CoreType
  <2>2. Good(d)
    <3>1. "destroying" \in CoreStatus
      BY DEF CoreStatus
    <3> QED
      BY <1>1, <2>1, <3>1, ReferenceStep DEF ReleaseIInv
  <2>3. Alike(core, d) /\ d.stat = core.stat
    BY <1>1 DEF Alike, CoreType
  <2> QED
    BY <2>2, <2>3 DEF Like
<1>6. Like(o)
  <2>1. d.n_qdispatchs + d.npendings \in Nat
    BY <1>1 DEF CoreType
  <2>2. o \in CoreType
    BY <1>4, <2>1, Zenon DEF CoreType
  <2>3. Keeps(d, o)
    <3>1. /\ o.ths = d.ths /\ o.ref = d.ref /\ o.user_ref = d.user_ref
          /\ o.status = d.status /\ o.release_cleaning = d.release_cleaning
          /\ o.unborn = d.unborn /\ o.thq = d.thq /\ o.rm = d.rm /\ o.run = d.run
      BY <1>1 DEF CoreType
    <3> HIDE DEF d, o
    <3> QED
      BY <1>5, <2>2, <3>1, KeepsSame DEF Like
  <2>4. Alike(core, o) /\ o.stat = core.stat
    BY <1>1 DEF Alike, CoreType
  <2> QED
    BY <2>3, <2>4 DEF Like, Keeps
<1>7. PICK q \in SweepPending(d) :
        core' = [WakeupAll(q) EXCEPT !.release_cleaning = (WakeupAll(q).ths = {})]
  BY <1>2 DEF LastRelease
<1>8. q \in IF d.paused /\ d.npendings # 0 THEN EnsureServices(o, NoSelf) ELSE {d}
  BY DEF SweepPending
<1> HIDE DEF d, o
<1>9. PICK f \in {o, d} : /\ Like(f) /\ Helps(f, q, NoSelf, Asleep)
                          /\ f = IF d.paused /\ d.npendings # 0 THEN o ELSE d
  <2>1. CASE d.paused /\ d.npendings # 0
    BY <1>6, <1>8, <2>1, EnsureCalls
  <2>2. CASE ~(d.paused /\ d.npendings # 0)
    <3>1. Helps(d, d, NoSelf, Asleep)
      BY <1>5, LikeFacts, HelpsNothing
    <3> QED
      BY <1>5, <1>8, <2>2, <3>1
  <2> QED
    BY <2>1, <2>2
<1>10. Good(q) /\ Counted(q, Asleep) /\ Orders(f, q)
  BY <1>9 DEF Helps, Summoned
<1>11. q.waitq \in SUBSET q.waitq /\ WakeupAll(q) = Signal(q, q.waitq)
  BY DEF WakeupAll
<1>12. Helps(q, WakeupAll(q), NoSelf, Asleep)
  BY <1>10, <1>11, SignalCounted
<1>13. WakeupAll(q) \in CoreType /\ Orders(q, WakeupAll(q))
  BY <1>12 DEF Helps, Summoned, Good
<1> DEFINE w == WakeupAll(q)
<1>14. w.status = "destroying"
  <2>1. Keeps(d, q)
    BY <1>5, <1>7, SweepPendingKeeps DEF Like
  <2>2. Keeps(q, w)
    BY <1>10, WakeupAllKeeps
  <2> QED
    BY <1>3, <2>1, <2>2 DEF Keeps, Grows
<1> HIDE DEF w
<1>15. /\ core'.npendings = w.npendings /\ core'.paused = w.paused
       /\ core'.n_qdispatchs = w.n_qdispatchs /\ core'.status = w.status
  BY <1>7, <1>13 DEF w, CoreType
<1>16. /\ core'.npendings = f.npendings /\ core'.paused = f.paused
       /\ core'.n_qdispatchs = f.n_qdispatchs
  BY <1>10, <1>13, <1>15 DEF w, Orders
<1>17. CASE d.paused /\ d.npendings # 0
  <2>1. /\ core'.npendings = 0 /\ core'.paused = core.paused
        /\ core'.n_qdispatchs = core.n_qdispatchs + core.npendings
    BY <1>3, <1>9, <1>16, <1>17
  <2> QED
    BY <1>3, <1>14, <1>15, <1>17, <2>1
<1>18. CASE ~(d.paused /\ d.npendings # 0)
  <2>1. /\ core'.npendings = core.npendings /\ core'.paused = core.paused
        /\ core'.n_qdispatchs = core.n_qdispatchs
    BY <1>3, <1>9, <1>16, <1>18
  <2>2. core.paused => core.npendings = 0
    BY <1>3, <1>18
  <2>3. core.paused => core'.n_qdispatchs = core.n_qdispatchs + core.npendings
    <3>1. core.n_qdispatchs \in Nat
      BY <1>1 DEF CoreType
    <3> QED
      BY <2>1, <2>2, <3>1
  <2> QED
    BY <1>14, <1>15, <2>1, <2>2, <2>3
<1> QED
  BY <1>17, <1>18

\* Who drops another reference than the last one changes nothing else.
LEMMA NotLastRelease ==
  ASSUME ReleaseIInv, Release, core.user_ref # 1
  PROVE  SameTasks(core, core') /\ core'.status = core.status /\ Created
<1> DEFINE p == [core EXCEPT !.ref = @ - 1, !.user_ref = @ - 1]
<1>1. core \in CoreType /\ core.user_ref \in Int
  BY DEF ReleaseIInv, ThreadsInv, TypeOK, CoreType
<1>2. /\ p.user_ref = core.user_ref - 1 /\ p.status = core.status
      /\ SameTasks(core, p)
  BY <1>1 DEF CoreType, SameTasks
<1>3. Created /\ (p.user_ref # 0 => core' = p)
  BY DEF Release
<1> HIDE DEF p
<1>4. core' = p
  BY <1>1, <1>2, <1>3
<1> QED
  BY <1>2, <1>3, <1>4

LEMMA SweptInit ==
  ASSUME Init
  PROVE  Swept
<1>1. ReleaseIInv /\ Created
  BY ReleaseIInvInit
<1> QED
  BY <1>1 DEF Init, Swept

LEMMA SweptNext ==
  ASSUME ReleaseIInv, ServiceInv, Swept, "again" \notin Calls, [Next]_vars
  PROVE  Swept'
<1>1. again' = {} /\ \A t \in Threads : pc'[t] # "requeue"
  BY NobodyRequeues
<1>2. core \in CoreType /\ core.npendings \in Nat
  BY DEF ReleaseIInv, ThreadsInv, TypeOK, CoreType
<1>3. core' \in CoreType /\ core'.npendings \in Nat
  BY ReleaseIInvNext DEF ReleaseIInv, ThreadsInv, TypeOK, CoreType
<1>4. ASSUME ~Created', core'.paused
      PROVE  core'.npendings = 0
  <2>1. /\ core'.npendings <= core.npendings /\ core'.paused = core.paused
        /\ ~Created
        => core'.npendings = 0
    BY <1>2, <1>3, <1>4 DEF Swept
  <2>2. CASE \E t \in Threads : Step(t) \/ TimeOut(t) \/ MarkAgain(t)
    <3>1. PICK t \in Threads : Step(t) \/ TimeOut(t) \/ MarkAgain(t)
      BY <2>2
    <3>2. ~Requeue(t)
      BY DEF Swept, Requeue
    <3>3. core'.status = core.status
      BY <3>1, ThreadStepFrame
    <3>4. core'.npendings <= core.npendings /\ core'.paused = core.paused
      BY <3>1, <3>2, ThreadsTake
    <3> QED
      BY <1>4, <2>1, <3>3, <3>4 DEF Created
  <2>3. CASE ReleaserStirs \/ ReleaserWakes \/ UNCHANGED vars
    <3>1. core' = core
      BY <2>3 DEF ReleaserStirs, ReleaserWakes, vars
    <3>2. /\ core'.npendings <= core.npendings /\ core'.paused = core.paused
          /\ core'.status = core.status
      BY <1>2, <3>1
    <3> QED
      BY <1>4, <2>1, <3>2 DEF Created
  <2>4. CASE ReleaseByThread
    <3>1. core' = [core EXCEPT !.ref = @ - 1]
      BY <2>4 DEF ReleaseByThread
    <3>2. /\ core'.npendings <= core.npendings /\ core'.paused = core.paused
          /\ core'.status = core.status
      BY <1>2, <3>1 DEF CoreType
    <3> QED
      BY <1>4, <2>1, <3>2 DEF Created
  <2>5. CASE Destroy
    <3>1. core' = [core EXCEPT !.status = "destroyed"] /\ ~Created
      BY <2>5 DEF Destroy, ReleaseIInv, ReleaseInv
    <3>2. core'.npendings <= core.npendings /\ core'.paused = core.paused
      BY <1>2, <3>1 DEF CoreType
    <3> QED
      BY <2>1, <3>1, <3>2
  <2>6. CASE Release
    BY <1>4, <2>6, LastReleaseTasks, NotLastRelease DEF Created
  <2>7. CASE Users /\ ~Release
    <3>1. UserFrame
      BY <2>7, UserSteps DEF Users, ReleaseIInv
    <3> QED
      BY <1>4, <3>1 DEF UserFrame, ReleaseIInv, ReleaseInv, Created
  <2> QED
    BY <2>2, <2>3, <2>4, <2>5, <2>6, <2>7 DEF Next, Gone, Users
<1> QED
  BY <1>1, <1>4 DEF Swept

LEMMA SweptAlways ==
  ASSUME "again" \notin Calls
  PROVE  Spec => []Swept
<1>1. Init => Swept
  BY SweptInit
<1>2. ReleaseIInv /\ ServiceInv /\ Swept /\ [Next]_vars => Swept'
  BY SweptNext
<1> QED
  BY <1>1, <1>2, ServiceInvAlways, PTL DEF Spec

\* cpool_core_dtor finds no task in the pool it frees, as it asserts, unless a
\* task queued itself again while the pool was released (CoreDtor.cfg).
THEOREM NoTaskFreedAlways ==
  ASSUME ~CreateMayFail, "again" \notin Calls
  PROVE  Spec => [](resizes = 0 => NoTaskFreed)
<1>1. ReleaseIInv /\ ServiceInv /\ Swept => (resizes = 0 => NoTaskFreed)
  <2> SUFFICES ASSUME ReleaseIInv, ServiceInv, Swept, resizes = 0, cleaners > 0
               PROVE  core.npendings = 0 /\ core.n_qdispatchs = 0 /\ core.n_qths = 0
    BY DEF NoTaskFreed
  <2>1. core.ths = {} /\ ~Created
    BY DEF ReleaseIInv, ReleaseInv, ThreadsInv, TypeOK, CoreType, CoreStatus, Created
  <2>2. core.n_qths = 0
    BY <2>1, FS_EmptySet DEF ServiceInv, Counted, Lists
  <2>3. ~WorkReady
    BY <2>1 DEF ServiceInv, Served, Server
  <2>4. core.npendings \in Nat /\ core.n_qdispatchs \in Nat
    BY DEF ReleaseIInv, ThreadsInv, TypeOK, CoreType
  <2> QED
    BY <2>1, <2>2, <2>3, <2>4 DEF WorkReady, TaskReady, Swept
<1> QED
  BY <1>1, SweptAlways, ServiceInvAlways, PTL

-----------------------------------------------------------------------------
(***************************************************************************)
(* CpoolCore implements TaskPool: what its threads and users do to the     *)
(* tasks are the steps that TaskPool allows, each step of the core one of  *)
(* them or none.                                                           *)
(***************************************************************************)

(***************************************************************************)
(* Sums over the threads                                                   *)
(***************************************************************************)

\* The units of t in the set whose size Total is.
Units(t, n) == {t} \X (1..n)

LEMMA SizeOfUnits ==
  ASSUME NEW t, NEW n \in Nat
  PROVE  IsFiniteSet(Units(t, n)) /\ Cardinality(Units(t, n)) = n
<1>1. IsFiniteSet({t}) /\ Cardinality({t}) = 1
  BY FS_Singleton
<1>2. IsFiniteSet(1..n) /\ Cardinality(1..n) = n
  BY FS_Interval
<1>3. IsFiniteSet({t} \X (1..n))
      /\ Cardinality({t} \X (1..n)) = Cardinality({t}) * Cardinality(1..n)
  BY <1>1, <1>2, FS_Product
<1> QED
  BY <1>1, <1>2, <1>3 DEF Units

\* The units of the threads in T.
UnitsOf(T, h) == UNION {Units(t, h[t]) : t \in T}

LEMMA UnitsFinite ==
  ASSUME NEW T \in SUBSET Threads, NEW h \in [Threads -> Nat]
  PROVE  IsFiniteSet(UnitsOf(T, h)) /\ Cardinality(UnitsOf(T, h)) \in Nat
<1> DEFINE S == {Units(t, h[t]) : t \in T}
           f == [t \in T |-> Units(t, h[t])]
<1>1. IsFiniteSet(T)
  BY SizeOfThreads
<1>2. f \in Surjection(T, S)
  BY DEF Surjection
<1>3. IsFiniteSet(S)
  BY <1>1, <1>2, FS_Surjection
<1>4. \A s \in S : IsFiniteSet(s)
  BY SizeOfUnits
<1>5. IsFiniteSet(UNION S)
  BY <1>3, <1>4, FS_UNION
<1> QED
  BY <1>5, FS_CardinalityType DEF UnitsOf

LEMMA TotalOfUnits ==
  ASSUME NEW h
  PROVE  Total(h) = Cardinality(UnitsOf(Threads, h))
BY DEF Total, UnitsOf, Units

\* The sum is that of one thread and that of the others.
LEMMA TotalSplit ==
  ASSUME NEW h \in [Threads -> Nat], NEW t \in Threads
  PROVE  /\ Cardinality(UnitsOf(Threads \ {t}, h)) \in Nat
         /\ Total(h) = Cardinality(UnitsOf(Threads \ {t}, h)) + h[t]
<1> DEFINE O == UnitsOf(Threads \ {t}, h)
           U == Units(t, h[t])
<1>1. IsFiniteSet(O) /\ Cardinality(O) \in Nat
  BY UnitsFinite
<1>2. IsFiniteSet(U) /\ Cardinality(U) = h[t] /\ h[t] \in Nat
  BY SizeOfUnits
<1>3. UnitsOf(Threads, h) = O \cup U
  BY DEF UnitsOf
<1>4. O \cap U = {}
  <2> SUFFICES ASSUME NEW x \in O, x \in U
               PROVE  FALSE
    OBVIOUS
  <2>1. PICK o \in Threads \ {t} : x \in Units(o, h[o])
    BY DEF UnitsOf
  <2> QED
    BY <2>1 DEF Units
<1> HIDE DEF O, U
<1>5. Cardinality(O \cup U) = Cardinality(O) + Cardinality(U) - Cardinality(O \cap U)
  BY <1>1, <1>2, FS_Union
<1>6. Cardinality(O \cap U) = 0
  BY <1>4, FS_EmptySet
<1>7. Total(h) = Cardinality(O \cup U)
  BY <1>3, TotalOfUnits
<1>8. Total(h) = Cardinality(O) + h[t]
  BY <1>1, <1>2, <1>5, <1>6, <1>7
<1> QED
  BY <1>1, <1>8 DEF O

\* What one thread adds or takes away.
LEMMA TotalChanges ==
  ASSUME NEW h \in [Threads -> Nat], NEW g \in [Threads -> Nat], NEW t \in Threads,
         \A o \in Threads \ {t} : g[o] = h[o]
  PROVE  /\ Total(h) \in Nat /\ Total(g) \in Nat
         /\ Total(g) = Total(h) + g[t] - h[t]
         /\ h[t] <= Total(h)
<1>1. UnitsOf(Threads \ {t}, g) = UnitsOf(Threads \ {t}, h)
  BY DEF UnitsOf
<1> DEFINE n == Cardinality(UnitsOf(Threads \ {t}, h))
<1>2. n \in Nat /\ Total(h) = n + h[t] /\ Total(g) = n + g[t]
  BY <1>1, TotalSplit
<1>3. h[t] \in Nat /\ g[t] \in Nat
  OBVIOUS
<1> HIDE DEF n
<1> QED
  BY <1>2, <1>3

LEMMA TotalNothing ==
  ASSUME NEW h \in [Threads -> Nat], \A t \in Threads : h[t] = 0
  PROVE  Total(h) = 0
<1>1. \A t \in Threads : Units(t, h[t]) = {}
  BY DEF Units
<1>2. UnitsOf(Threads, h) = {}
  BY <1>1 DEF UnitsOf
<1> QED
  BY <1>2, TotalOfUnits, FS_EmptySet

-----------------------------------------------------------------------------
(***************************************************************************)
(* What TaskPool sees of a state                                           *)
(***************************************************************************)

LEMMA PhaseIs ==
  ASSUME ReleaseIInv
  PROVE  /\ Phase = IF Created THEN "open"
                    ELSE IF core.status = "destroyed" THEN "gone" ELSE "closing"
         /\ InHand \in [Threads -> Nat]
<1>1. /\ core.user_ref \in Nat /\ (Created <=> core.user_ref > 0)
      /\ batch \in [Threads -> Nat]
  BY DEF ReleaseIInv, ReleaseInv, ThreadsInv, TypeOK
<1>2. Phase = IF Created THEN "open"
              ELSE IF core.status = "destroyed" THEN "gone" ELSE "closing"
  BY <1>1 DEF Phase
<1>3. InHand \in [Threads -> Nat]
  BY <1>1 DEF InHand
<1> QED
  BY <1>2, <1>3

LEMMA PhaseNext ==
  ASSUME ReleaseIInv'
  PROVE  /\ Phase' = IF Created' THEN "open"
                     ELSE IF core'.status = "destroyed" THEN "gone" ELSE "closing"
         /\ InHand' \in [Threads -> Nat]
<1>1. /\ core'.user_ref \in Nat /\ (Created' <=> core'.user_ref > 0)
      /\ batch' \in [Threads -> Nat]
  BY DEF ReleaseIInv, ReleaseInv, ThreadsInv, TypeOK
<1>2. Phase' = IF Created' THEN "open"
               ELSE IF core'.status = "destroyed" THEN "gone" ELSE "closing"
  BY <1>1 DEF Phase
<1>3. InHand' \in [Threads -> Nat]
  BY <1>1 DEF InHand
<1> QED
  BY <1>2, <1>3

\* The numbers it sees.
LEMMA NumbersOf ==
  ASSUME ReleaseIInv
  PROVE  /\ core.npendings \in Nat /\ core.n_qdispatchs \in Nat /\ held \in Nat
         /\ core.paused \in BOOLEAN
BY DEF ReleaseIInv, ThreadsInv, TypeOK, CoreType

\* t is the only thread that takes or finishes something.
LEMMA HandsMove ==
  ASSUME ReleaseIInv, ReleaseIInv', NEW t \in Threads,
         \A o \in Threads \ {t} : pc'[o] = pc[o] /\ batch'[o] = batch[o]
  PROVE  /\ Total(InHand) \in Nat /\ Total(InHand)' \in Nat
         /\ Total(InHand)' = Total(InHand) + InHand'[t] - InHand[t]
         /\ InHand[t] <= Total(InHand)
<1>1. InHand \in [Threads -> Nat] /\ InHand' \in [Threads -> Nat]
  BY PhaseIs, PhaseNext
<1>2. \A o \in Threads \ {t} : InHand'[o] = InHand[o]
  BY DEF InHand
<1> QED
  BY <1>1, <1>2, TotalChanges

\* A step TaskPool does not see.
LEMMA Unseen ==
  ASSUME SameTasks(core, core'), Phase' = Phase, held' = held, InHand' = InHand
  PROVE  UNCHANGED Pool!avars
<1>1. /\ core'.npendings = core.npendings /\ core'.paused = core.paused
      /\ core'.n_qdispatchs + held' = core.n_qdispatchs + held
  BY DEF SameTasks
<1>2. Total(InHand)' = Total(InHand)
  OBVIOUS
<1> QED
  BY <1>1, <1>2 DEF Pool!avars

\* A thread that goes from one place where it has nothing in hand to another,
\* or does not leave those where it has, has in hand what it had.
LEMMA HandsKept ==
  ASSUME ReleaseIInv, NEW t \in Threads, NEW l, Goto(t, l), batch' = batch,
         \/ {pc[t], l} \subseteq {"entry", "gettask", "asleep", "test", "leave"}
         \/ {pc[t], l} \subseteq {"create", "exec", "lost"}
  PROVE  InHand' = InHand
<1>1. pc \in [Threads -> Location] /\ pc' = [pc EXCEPT ![t] = l]
  BY DEF Goto, ReleaseIInv, ThreadsInv, TypeOK
<1>2. \A o \in Threads \ {t} : pc'[o] = pc[o]
  BY <1>1
<1>3. pc'[t] = l
  BY <1>1
<1> QED
  BY <1>2, <1>3 DEF InHand

\* No thread makes a step in a pool that is gone, or changes the phase.
LEMMA ThreadPhase ==
  ASSUME ReleaseIInv, ReleaseIInv', NEW t \in Threads,
         Step(t) \/ TimeOut(t) \/ MarkAgain(t)
  PROVE  Phase' = Phase /\ Phase # "gone" /\ held' = held
<1>1. ThreadFrame /\ core.ths # {}
  BY ThreadSteps, ActorInPool DEF ReleaseIInv
<1>2. core.status # "destroyed"
  BY <1>1 DEF ReleaseIInv, ReleaseInv
<1> QED
  BY <1>1, <1>2, PhaseIs, PhaseNext DEF ThreadFrame, Created

-----------------------------------------------------------------------------
(***************************************************************************)
(* The steps of the threads                                                *)
(***************************************************************************)

\* The steps in which a thread takes, queues and finishes nothing.
LEMMA IdleStepUnseen ==
  ASSUME ReleaseIInv, ReleaseIInv', ServiceInv, NEW t \in Threads,
         \/ Join(t) \/ Quit(t) \/ Sleep(t) \/ Wake(t) \/ TimeOut(t)
         \/ CreateThread(t) \/ CreateFails(t) \/ Suspect(t) \/ Recheck(t)
         \/ Test(t) \/ Collect(t) \/ Stay(t) \/ Leave(t) \/ MarkAgain(t)
  PROVE  UNCHANGED Pool!avars
<1>1. Step(t) \/ TimeOut(t) \/ MarkAgain(t)
  BY DEF Step
<1>2. Phase' = Phase /\ held' = held
  BY <1>1, ThreadPhase
<1>3. ~TakeDispatch(t) /\ ~TakeTask(t) /\ ~Requeue(t) /\ InHand' = InHand
  <2>1. CASE \/ Join(t) \/ Quit(t) \/ Sleep(t) \/ Wake(t) \/ TimeOut(t)
             \/ Test(t) \/ Collect(t) \/ Stay(t) \/ Leave(t)
    <3>1. CASE Quit(t) \/ Sleep(t) \/ Collect(t)
      <4>1. /\ ~TakeDispatch(t) /\ ~TakeTask(t) /\ ~Requeue(t)
        BY <3>1, NumbersOf
           DEF Quit, Sleep, Collect, NothingToTake, TakeDispatch, TakeTask, Requeue
      <4> QED
        BY <3>1, <4>1, HandsKept DEF Quit, Sleep, Collect
    <3>2. CASE ~(Quit(t) \/ Sleep(t) \/ Collect(t))
      <4>1. ~TakeDispatch(t) /\ ~TakeTask(t) /\ ~Requeue(t)
        BY <2>1, <3>2 DEF Join, Wake, TimeOut, Test, Stay, Leave, TakeDispatch,
           TakeTask, Requeue
      <4>2. \E l \in {"gettask", "test", "leave", "entry"} :
              Goto(t, l) /\ batch' = batch /\ pc[t] \in {"entry", "asleep", "test", "leave"}
        BY <2>1, <3>2 DEF Join, Wake, TimeOut, Test, Stay, Leave
      <4> QED
        BY <4>1, <4>2, HandsKept
    <3> QED
      BY <3>1, <3>2
  <2>2. CASE CreateThread(t) \/ CreateFails(t) \/ Recheck(t)
    <3>1. \A Q : LoopOn(t, Q) => \E l \in {"create", "exec", "lost"} : Goto(t, l)
      BY DEF LoopOn
    <3>2. /\ pc[t] = "create" /\ batch' = batch
          /\ \E l \in {"create", "exec", "lost"} : Goto(t, l)
      BY <2>2, <3>1 DEF CreateThread, CreateFails, Recheck
    <3>3. InHand' = InHand
      BY <3>2, HandsKept
    <3> QED
      BY <3>2, <3>3 DEF TakeDispatch, TakeTask, Requeue
  <2>3. CASE Suspect(t) \/ MarkAgain(t)
    <3>1. pc' = pc /\ batch' = batch /\ pc[t] \in {"create", "exec"}
      BY <2>3 DEF Suspect, MarkAgain
    <3> QED
      BY <3>1 DEF InHand, TakeDispatch, TakeTask, Requeue
  <2> QED
    BY <2>1, <2>2, <2>3
<1>4. SameTasks(core, core')
  BY <1>1, <1>3, TasksStay
<1> QED
  BY <1>2, <1>3, <1>4, Unseen

\* A thread that takes k removed tasks, or one that is ready if k is 0.
LEMMA TakenHands ==
  ASSUME ReleaseIInv, ReleaseIInv', NEW t \in Threads, pc[t] = "gettask",
         NEW p, NEW k \in Nat, Taken(t, p, k)
  PROVE  /\ Total(InHand) \in Nat
         /\ Total(InHand)' = Total(InHand) + (IF k = 0 THEN 1 ELSE k)
<1>1. /\ pc \in [Threads -> Location] /\ batch \in [Threads -> Nat]
      /\ batch' = [batch EXCEPT ![t] = k]
      /\ \E l \in {"create", "exec"} : Goto(t, l)
  BY DEF Taken, ReleaseIInv, ThreadsInv, TypeOK
<1>2. /\ \A o \in Threads \ {t} : pc'[o] = pc[o] /\ batch'[o] = batch[o]
      /\ pc'[t] \in {"create", "exec"} /\ batch'[t] = k
  BY <1>1 DEF Goto
<1>3. InHand[t] = 0 /\ InHand'[t] = IF k = 0 THEN 1 ELSE k
  BY <1>2 DEF InHand
<1> QED
  BY <1>2, <1>3, HandsMove

LEMMA TakeDispatchHandles ==
  ASSUME ReleaseIInv, ReleaseIInv', ServiceInv, NEW t \in Threads, TakeDispatch(t)
  PROVE  Pool!Handle
<1>1. PICK p, k : /\ pc[t] = "gettask" /\ k \in 1..core.n_qdispatchs
                  /\ Taking(p) /\ Taken(t, p, k)
                  /\ p.n_qdispatchs = core.n_qdispatchs - k
                  /\ p.npendings = core.npendings
  BY TakingDispatch
<1>2. /\ core'.paused = core.paused /\ core'.npendings = core.npendings
      /\ core'.n_qdispatchs = core.n_qdispatchs - k
  BY <1>1, TakenTasks DEF SameTasks, Taking
<1>3. Phase' = Phase /\ Phase # "gone" /\ held' = held
  BY ThreadPhase DEF Step
<1>4. core.n_qdispatchs \in Nat /\ held \in Nat
  BY NumbersOf
<1>5. k \in Nat /\ k # 0
  BY <1>1, <1>4
<1>6. Total(InHand)' = Total(InHand) + k
  BY <1>1, <1>5, TakenHands
<1>7. /\ core.n_qdispatchs + held > 0
      /\ k \in 1..(core.n_qdispatchs + held)
      /\ core'.n_qdispatchs + held' = (core.n_qdispatchs + held) - k
  BY <1>1, <1>2, <1>3, <1>4
<1> QED
  BY <1>2, <1>3, <1>6, <1>7 DEF Pool!Handle

LEMMA TakeTaskStarts ==
  ASSUME ReleaseIInv, ReleaseIInv', ServiceInv, NEW t \in Threads, TakeTask(t)
  PROVE  Pool!Start
<1>1. PICK p : /\ pc[t] = "gettask" /\ Taking(p) /\ Taken(t, p, 0)
               /\ p.npendings = core.npendings - 1
               /\ p.n_qdispatchs = core.n_qdispatchs
  BY TakingTask
<1>2. /\ core'.paused = core.paused /\ core'.npendings = core.npendings - 1
      /\ core'.n_qdispatchs = core.n_qdispatchs
  BY <1>1, TakenTasks DEF SameTasks, Taking
<1>3. Phase' = Phase /\ Phase # "gone" /\ held' = held
  BY ThreadPhase DEF Step
<1>4. Total(InHand)' = Total(InHand) + 1
  BY <1>1, TakenHands
<1>5. ~core.paused /\ core.npendings > 0
  BY NumbersOf DEF TakeTask
<1> QED
  BY <1>2, <1>3, <1>4, <1>5 DEF Pool!Start

\* A thread that has done one of the things it took, and is not asked to queue
\* it again, has one thing less in hand.
LEMMA FinishDone ==
  ASSUME ReleaseIInv, ReleaseIInv', ServiceInv, NEW t \in Threads,
         FinishTask(t) \/ FinishDispatched(t)
  PROVE  Pool!Done \/ UNCHANGED Pool!avars
<1>1. pc[t] = "exec" /\ pc \in [Threads -> Location] /\ batch \in [Threads -> Nat]
  BY DEF FinishTask, FinishDispatched, ReleaseIInv, ThreadsInv, TypeOK
<1>2. Phase' = Phase /\ Phase # "gone" /\ held' = held
  BY ThreadPhase DEF Step
<1>3. SameTasks(core, core')
  BY <1>1, TasksStay DEF Step, TakeDispatch, TakeTask, Requeue
<1>4. PICK left \in Nat :
        /\ left = IF batch[t] = 0 THEN 0 ELSE batch[t] - 1
        /\ batch' = [batch EXCEPT ![t] = left]
        /\ AfterTask(t, left)
  <2>1. CASE FinishTask(t)
    <3>1. batch[t] = 0 /\ batch' = batch /\ AfterTask(t, 0)
      BY <2>1 DEF FinishTask
    <3>2. batch = [batch EXCEPT ![t] = batch[t]]
      BY <1>1
    <3> QED
      BY <3>1, <3>2
  <2>2. CASE FinishDispatched(t)
    <3>1. /\ batch[t] \in Nat /\ batch[t] > 0 /\ AfterTask(t, batch[t] - 1)
          /\ batch' = [batch EXCEPT ![t] = batch[t] - 1]
      BY <1>1, <2>2 DEF FinishDispatched
    <3>2. PICK left : left = batch[t] - 1
      OBVIOUS
    <3>3. /\ left \in Nat /\ left = (IF batch[t] = 0 THEN 0 ELSE batch[t] - 1)
          /\ batch' = [batch EXCEPT ![t] = left] /\ AfterTask(t, left)
      BY <3>1, <3>2
    <3> QED
      BY <3>3
  <2> QED
    BY <2>1, <2>2
<1>5. /\ \A o \in Threads \ {t} : pc'[o] = pc[o] /\ batch'[o] = batch[o]
      /\ pc'[t] = (IF t \in again THEN "requeue" ELSE IF left > 0 THEN "exec" ELSE "test")
      /\ batch'[t] = left
  BY <1>1, <1>4 DEF AfterTask, Goto
<1>6. InHand[t] = left + 1
  BY <1>1, <1>4 DEF InHand
<1>7. InHand'[t] = IF t \in again THEN left + 1 ELSE left
  BY <1>5 DEF InHand
<1>8. CASE t \in again
  <2>1. InHand' = InHand
    <3>1. \A o \in Threads : InHand'[o] = InHand[o]
      BY <1>5, <1>6, <1>7, <1>8 DEF InHand
    <3> QED
      BY <3>1 DEF InHand
  <2> QED
    BY <1>2, <1>3, <2>1, Unseen
<1>9. CASE t \notin again
  <2>1. /\ Total(InHand) \in Nat /\ InHand[t] <= Total(InHand)
        /\ Total(InHand)' = Total(InHand) + InHand'[t] - InHand[t]
    BY <1>5, HandsMove
  <2>2. Total(InHand) > 0 /\ Total(InHand)' = Total(InHand) - 1
    BY <1>6, <1>7, <1>9, <2>1
  <2> QED
    BY <1>2, <1>3, <2>2 DEF Pool!Done, SameTasks
<1> QED
  BY <1>8, <1>9

\* cpool_core_ensure_servicesl calls threads and leaves the tasks alone.
LEMMA EnsuredTasks ==
  ASSUME ReleaseIInv, ServiceInv, NEW p, Like(p), NEW q \in EnsureServices(p, NoSelf)
  PROVE  SameTasks(p, q)
BY EnsureCalls DEF Helps, Summoned, Orders, SameTasks

\* A state with another number of tasks is like the core.
LEMMA PendingLike ==
  ASSUME ReleaseIInv, NEW n \in Nat, NEW p, p = [core EXCEPT !.npendings = n]
  PROVE  /\ Like(p) /\ p.paused = core.paused
         /\ p.npendings = n /\ p.n_qdispatchs = core.n_qdispatchs
<1>1. Good(core) /\ core \in CoreType
  BY GoodCore DEF ReleaseIInv, Good
<1>2. p \in CoreType
  BY <1>1, Zenon DEF CoreType
<1>3. Keeps(core, p)
  BY <1>1, <1>2, KeepsSame DEF CoreType
<1>4. Alike(core, p) /\ p.stat = core.stat
  BY <1>1 DEF Alike, CoreType
<1>5. p.paused = core.paused /\ p.npendings = n /\ p.n_qdispatchs = core.n_qdispatchs
  BY <1>1 DEF CoreType
<1> QED
  BY <1>3, <1>4, <1>5 DEF Like, Keeps

LEMMA RemovedLike ==
  ASSUME ReleaseIInv, NEW m \in Nat, NEW p, p = [core EXCEPT !.n_qdispatchs = m]
  PROVE  /\ Like(p) /\ p.paused = core.paused
         /\ p.n_qdispatchs = m /\ p.npendings = core.npendings
<1>1. Good(core) /\ core \in CoreType
  BY GoodCore DEF ReleaseIInv, Good
<1>2. p \in CoreType
  BY <1>1, Zenon DEF CoreType
<1>3. Keeps(core, p)
  BY <1>1, <1>2, KeepsSame DEF CoreType
<1>4. Alike(core, p) /\ p.stat = core.stat
  BY <1>1 DEF Alike, CoreType
<1>5. p.paused = core.paused /\ p.n_qdispatchs = m /\ p.npendings = core.npendings
  BY <1>1 DEF CoreType
<1> QED
  BY <1>3, <1>4, <1>5 DEF Like, Keeps

LEMMA RequeueResubmits ==
  ASSUME ReleaseIInv, ReleaseIInv', ServiceInv, NEW t \in Threads, Requeue(t)
  PROVE  Pool!Resubmit
<1> DEFINE p == [core EXCEPT !.npendings = @ + 1]
<1>1. /\ pc[t] = "requeue" /\ pc \in [Threads -> Location] /\ batch \in [Threads -> Nat]
      /\ batch' = batch /\ Goto(t, IF batch[t] > 0 THEN "exec" ELSE "test")
  BY DEF Requeue, ReleaseIInv, ThreadsInv, TypeOK
<1>2. core' \in EnsureServices(p, NoSelf) \cup {p}
  BY DEF Requeue
<1>3. PICK n : n = core.npendings + 1
  OBVIOUS
<1>4. n \in Nat /\ p = [core EXCEPT !.npendings = n]
  BY <1>3, NumbersOf
<1> HIDE DEF p
<1>5. /\ Like(p) /\ p.paused = core.paused
      /\ p.npendings = n /\ p.n_qdispatchs = core.n_qdispatchs
  BY <1>4, PendingLike
<1>6. SameTasks(p, core')
  BY <1>2, <1>5, EnsuredTasks DEF SameTasks
<1>7. Phase' = Phase /\ Phase # "gone" /\ held' = held
  BY ThreadPhase DEF Step
<1>8. /\ \A o \in Threads \ {t} : pc'[o] = pc[o] /\ batch'[o] = batch[o]
      /\ pc'[t] = (IF batch[t] > 0 THEN "exec" ELSE "test")
  BY <1>1 DEF Goto
<1>9. InHand[t] = batch[t] + 1 /\ InHand'[t] = batch[t] /\ batch[t] \in Nat
  BY <1>1, <1>8 DEF InHand
<1>10. /\ Total(InHand) \in Nat /\ InHand[t] <= Total(InHand)
       /\ Total(InHand)' = Total(InHand) + InHand'[t] - InHand[t]
  BY <1>8, HandsMove
<1>11. Total(InHand) > 0 /\ Total(InHand)' = Total(InHand) - 1
  BY <1>9, <1>10
<1> QED
  BY <1>3, <1>5, <1>6, <1>7, <1>11 DEF Pool!Resubmit, SameTasks

-----------------------------------------------------------------------------
(***************************************************************************)
(* The calls of the users                                                  *)
(***************************************************************************)

\* A user's call in a pool it holds, which moves no thread and closes nothing.
LEMMA UserPhase ==
  ASSUME ReleaseIInv, ReleaseIInv',
         \/ Queue \/ RemoveAll \/ DispatchRemoved \/ Suspend \/ Resume
         \/ Flush \/ Adjust \/ AddRef
  PROVE  /\ Phase = "open" /\ Phase' = "open"
         /\ InHand' = InHand /\ Total(InHand)' = Total(InHand)
<1>1. UserFrame
  BY UserSteps DEF ReleaseIInv
<1>2. Created /\ Created'
  BY <1>1 DEF UserFrame, ReleaseIInv, ReleaseInv, Created
<1>3. InHand' = InHand
  BY DEF Queue, RemoveAll, DispatchRemoved, Suspend, Resume, Flush, Adjust, AddRef,
         Unmoved, InHand
<1> QED
  BY <1>2, <1>3, PhaseIs, PhaseNext

LEMMA QueueSubmits ==
  ASSUME ReleaseIInv, ReleaseIInv', ServiceInv, Queue
  PROVE  Pool!Submit
<1> DEFINE p == [core EXCEPT !.npendings = @ + 1]
<1>1. PICK n : n = core.npendings + 1
  OBVIOUS
<1>2. n \in Nat /\ p = [core EXCEPT !.npendings = n]
  BY <1>1, NumbersOf
<1>3. core' \in {p} \cup Wakeup(p, 1) \cup EnsureServices(p, NoSelf)
  BY DEF Queue
<1> HIDE DEF p
<1>4. /\ Like(p) /\ p.paused = core.paused
      /\ p.npendings = n /\ p.n_qdispatchs = core.n_qdispatchs
  BY <1>2, PendingLike
<1>5. SameTasks(p, core')
  <2>1. CASE core' = p
    BY <2>1 DEF SameTasks
  <2>2. CASE core' \in Wakeup(p, 1)
    <3>1. 1 \in Int
      OBVIOUS
    <3> QED
      BY <1>4, <2>2, <3>1, WakeupCalls DEF Helps, Summoned, Orders, SameTasks
  <2>3. CASE core' \in EnsureServices(p, NoSelf)
    BY <1>4, <2>3, EnsuredTasks
  <2> QED
    BY <1>3, <2>1, <2>2, <2>3
<1>6. held' = held
  BY DEF Queue
<1> QED
  BY <1>1, <1>4, <1>5, <1>6, UserPhase DEF Pool!Submit, SameTasks

LEMMA RemoveAllRemoves ==
  ASSUME ReleaseIInv, ReleaseIInv', RemoveAll
  PROVE  Pool!Remove
<1>1. /\ core.npendings \in Nat /\ core.n_qdispatchs \in Nat /\ held \in Nat
      /\ core \in CoreType
  BY NumbersOf DEF ReleaseIInv, ThreadsInv, TypeOK
<1>2. core' = [core EXCEPT !.npendings = 0] /\ held' = held + core.npendings
  BY DEF RemoveAll
<1>3. /\ core'.npendings = 0 /\ core'.n_qdispatchs = core.n_qdispatchs
      /\ core'.paused = core.paused
  BY <1>1, <1>2 DEF CoreType
<1>4. /\ core.npendings > 0
      /\ core'.n_qdispatchs + held' = (core.n_qdispatchs + held) + core.npendings
  BY <1>1, <1>2, <1>3 DEF RemoveAll
<1> QED
  BY <1>3, <1>4, UserPhase DEF Pool!Remove

LEMMA DispatchRemovedDrops ==
  ASSUME ReleaseIInv, ReleaseIInv', ServiceInv, DispatchRemoved
  PROVE  Pool!Drop \/ UNCHANGED Pool!avars
<1>1. PICK n \in 0..held :
        LET p == [core EXCEPT !.n_qdispatchs = @ + n]
        IN  core' \in IF n > 0 /\ NeedEnsure(p)
                      THEN EnsureServices(p, NoSelf) ELSE {p}
  BY DEF DispatchRemoved
<1>2. core.npendings \in Nat /\ core.n_qdispatchs \in Nat /\ held \in Nat
  BY NumbersOf
<1> DEFINE p == [core EXCEPT !.n_qdispatchs = @ + n]
<1>3. PICK m : m = core.n_qdispatchs + n
  OBVIOUS
<1>4. core' \in {p} \cup EnsureServices(p, NoSelf)
  BY <1>1
<1>5. m \in Nat /\ p = [core EXCEPT !.n_qdispatchs = m]
  BY <1>2, <1>3
<1> HIDE DEF p
<1>6. /\ Like(p) /\ p.paused = core.paused
      /\ p.npendings = core.npendings /\ p.n_qdispatchs = m
  BY <1>5, RemovedLike
<1>7. SameTasks(p, core')
  BY <1>4, <1>6, EnsuredTasks DEF SameTasks
<1>8. /\ core'.npendings = core.npendings /\ core'.paused = core.paused
      /\ core'.n_qdispatchs = core.n_qdispatchs + n
  BY <1>3, <1>6, <1>7 DEF SameTasks
<1> DEFINE k == held - n
<1>9. held > 0 /\ held' = 0
  BY DEF DispatchRemoved
<1>10. /\ k \in 0..(core.n_qdispatchs + held)
       /\ core'.n_qdispatchs + held' = (core.n_qdispatchs + held) - k
  BY <1>2, <1>8, <1>9
<1>11. Phase = "open" /\ Phase' = "open" /\ Total(InHand)' = Total(InHand)
  BY UserPhase
<1> HIDE DEF k
<1>12. CASE k = 0
  <2>1. core'.n_qdispatchs + held' = core.n_qdispatchs + held
    BY <1>2, <1>10, <1>12
  <2> QED
    BY <1>8, <1>11, <2>1 DEF Pool!avars
<1>13. CASE k # 0
  <2>1. k \in 1..(core.n_qdispatchs + held)
    BY <1>2, <1>10, <1>13
  <2> QED
    BY <1>8, <1>10, <1>11, <2>1 DEF Pool!Drop
<1> QED
  BY <1>12, <1>13

LEMMA SuspendSuspends ==
  ASSUME ReleaseIInv, ReleaseIInv', Suspend
  PROVE  Pool!Suspend
<1>1. /\ core'.npendings = core.npendings /\ core'.n_qdispatchs = core.n_qdispatchs
      /\ core'.paused = TRUE
  BY DEF Suspend, ReleaseIInv, ThreadsInv, TypeOK, CoreType
<1>2. held' = held
  BY DEF Suspend
<1> QED
  BY <1>1, <1>2, UserPhase DEF Pool!Suspend

LEMMA ResumeResumes ==
  ASSUME ReleaseIInv, ReleaseIInv', ServiceInv, Resume
  PROVE  Pool!Resume
<1> DEFINE p == [core EXCEPT !.paused = FALSE]
<1>1. core \in CoreType /\ Good(core)
  BY GoodCore DEF ReleaseIInv, Good
<1>2. PICK q \in IF ~Dynamic /\ p.npendings # 0 THEN Wakeup(p, p.npendings) ELSE {p} :
        core' \in IF q.npendings # 0 THEN EnsureServices(q, NoSelf) ELSE {q}
  BY DEF Resume
<1>3. Like(p)
  <2>1. Keeps(core, p)
    BY PausedMoves DEF ReleaseIInv
  <2>2. Alike(core, p) /\ p.stat = core.stat
    BY <1>1 DEF Alike, CoreType
  <2> QED
    BY <2>1, <2>2 DEF Like, Keeps
<1>4. /\ p.npendings = core.npendings /\ p.paused = FALSE
      /\ p.n_qdispatchs = core.n_qdispatchs /\ p.npendings \in Int
  BY <1>1 DEF CoreType
<1> HIDE DEF p
<1>5. SameTasks(p, q) /\ Good(q) /\ Counted(q, Asleep)
  <2>1. CASE q = p
    BY <1>3, <2>1, LikeFacts DEF SameTasks
  <2>2. CASE q \in Wakeup(p, p.npendings)
    BY <1>3, <1>4, <2>2, WakeupCalls DEF Helps, Summoned, Orders, SameTasks
  <2> QED
    BY <1>2, <2>1, <2>2
<1>6. SameTasks(q, core')
  <2>1. CASE core' = q
    BY <2>1 DEF SameTasks
  <2>2. CASE core' \in EnsureServices(q, NoSelf)
    <3>1. NoSelf \in Threads \cup {NoSelf}
      OBVIOUS
    <3>2. Helps(q, core', NoSelf, Asleep)
      BY <1>5, <2>2, <3>1, EnsureServicesCounted
    <3> QED
      BY <3>2 DEF Helps, Summoned, Orders, SameTasks
  <2> QED
    BY <1>2, <2>1, <2>2
<1>7. held' = held
  BY DEF Resume
<1> QED
  BY <1>4, <1>5, <1>6, <1>7, UserPhase DEF Pool!Resume, SameTasks

\* Retiring threads leaves the tasks alone.
LEMMA DecThreadsTasks ==
  ASSUME NEW p, p \in CoreType, NEW n, NEW r \in DecThreads(p, n)
  PROVE  SameTasks(p, r)
<1>1. \A D : SameTasks(p, MarkDead(p, D))
  BY DEF SameTasks, MarkDead, Signal, CoreType
<1>2. r = p \/ \E D : r = MarkDead(p, D)
  BY Zenon DEF DecThreads
<1> QED
  BY <1>1, <1>2 DEF SameTasks

LEMMA AdjustAbsTasks ==
  ASSUME NEW p, Good(p), NEW A, A = {t \in p.ths : p.stat[t] = "WAIT"}, Counted(p, A),
         NEW max \in Int, NEW min \in Int, NEW r \in AdjustAbs(p, max, min)
  PROVE  SameTasks(p, r)
<1> DEFINE low == IF Dynamic THEN min ELSE max
           s == [p EXCEPT !.maxthreads = max, !.minthreads = low]
<1>1. p \in CoreType /\ low \in Int
  BY DEF Good, CoreType
<1>2. s \in CoreType
  BY <1>1, Zenon DEF CoreType
<1>3. /\ s.ths = p.ths /\ s.rm = p.rm /\ s.waked = p.waked /\ s.waitq = p.waitq
      /\ s.stat = p.stat /\ s.thq = p.thq /\ s.unborn = p.unborn
      /\ s.n_qths = p.n_qths /\ s.n_qths_wait = p.n_qths_wait
      /\ s.n_qths_waked = p.n_qths_waked
      /\ s.ref = p.ref /\ s.user_ref = p.user_ref /\ s.status = p.status
      /\ s.release_cleaning = p.release_cleaning /\ s.run = p.run
  BY <1>1 DEF CoreType
<1>4. SameTasks(p, s)
  BY <1>1 DEF SameTasks, CoreType
<1>5. \/ r \in AddThreads(s, NoSelf, s.minthreads - s.real_pool)
      \/ r \in DecThreads(s, s.real_pool - s.maxthreads)
      \/ r = WakeupAll(s)
  BY Zenon DEF AdjustAbs
<1> HIDE DEF s, low
<1>6. Good(s) /\ Counted(s, A)
  <2>1. Keeps(p, s)
    BY <1>2, <1>3, KeepsSame
  <2>2. Counted(s, A)
    BY <1>3 DEF Counted, Lists, Told, Outside
  <2> QED
    BY <2>1, <2>2 DEF Keeps
<1>7. SameTasks(s, r)
  <2>1. CASE r \in AddThreads(s, NoSelf, s.minthreads - s.real_pool)
    <3>1. s.minthreads - s.real_pool \in Int /\ NoSelf \in Threads \cup {NoSelf}
      BY <1>2 DEF CoreType
    <3>2. Helps(s, r, NoSelf, A)
      BY <1>6, <2>1, <3>1, AddThreadsCounted
    <3> QED
      BY <3>2 DEF Helps, Summoned, Orders, SameTasks
  <2>2. CASE r \in DecThreads(s, s.real_pool - s.maxthreads)
    BY <1>2, <2>2, DecThreadsTasks
  <2>3. CASE r = WakeupAll(s)
    BY <1>2, <2>3 DEF WakeupAll, Signal, SameTasks, CoreType
  <2> QED
    BY <1>5, <2>1, <2>2, <2>3
<1> QED
  BY <1>4, <1>7 DEF SameTasks

\* Resizing the pool and referring to it are nothing to TaskPool.
LEMMA OtherCallsUnseen ==
  ASSUME ReleaseIInv, ReleaseIInv', ServiceInv, Flush \/ Adjust \/ AddRef
  PROVE  UNCHANGED Pool!avars
<1>1. /\ core \in CoreType /\ Good(core) /\ Counted(core, Asleep)
      /\ Asleep = {t \in core.ths : core.stat[t] = "WAIT"}
  BY GoodCore DEF ReleaseIInv, Good, ServiceInv, Asleep
<1>2. SameTasks(core, core')
  <2>1. CASE Flush
    BY <1>1, <2>1, DecThreadsTasks DEF Flush, FlushThreads
  <2>2. CASE Adjust
    <3>1. PICK a \in AdjustArgs : core' \in AdjustAbs(core, a[1], a[2])
      BY <2>2 DEF Adjust
    <3>2. a[1] \in Int /\ a[2] \in Int
      BY BoundAssumption
    <3> QED
      BY <1>1, <3>1, <3>2, AdjustAbsTasks
  <2>3. CASE AddRef
    BY <1>1, <2>3 DEF AddRef, SameTasks, CoreType
  <2> QED
    BY <2>1, <2>2, <2>3
<1>3. held' = held
  BY DEF Flush, Adjust, AddRef, Unmoved
<1> QED
  BY <1>2, <1>3, UserPhase, Unseen

-----------------------------------------------------------------------------
(***************************************************************************)
(* The release of the pool                                                 *)
(***************************************************************************)

LEMMA ReleaseCloses ==
  ASSUME ReleaseIInv, ReleaseIInv', ServiceInv, Release
  PROVE  Pool!Close \/ UNCHANGED Pool!avars
<1>1. /\ Created /\ held' = held /\ InHand' = InHand
  BY DEF Release, InHand
<1>2. Total(InHand)' = Total(InHand)
  BY <1>1
<1>3. CASE core.user_ref = 1
  <2>1. /\ core'.status = "destroying" /\ core'.paused = core.paused
        /\ IF core.paused
           THEN /\ core'.npendings = 0
                /\ core'.n_qdispatchs = core.n_qdispatchs + core.npendings
           ELSE /\ core'.npendings = core.npendings
                /\ core'.n_qdispatchs = core.n_qdispatchs
    BY <1>3, LastReleaseTasks
  <2>2. Phase = "open" /\ Phase' = "closing"
    BY <1>1, <2>1, PhaseIs, PhaseNext DEF Created
  <2>3. core.paused =>
          core'.n_qdispatchs + held' = (core.n_qdispatchs + held) + core.npendings
    BY <1>1, <2>1, NumbersOf
  <2> QED
    BY <1>1, <1>2, <2>1, <2>2, <2>3 DEF Pool!Close
<1>4. CASE core.user_ref # 1
  <2>1. SameTasks(core, core') /\ core'.status = core.status
    BY <1>4, NotLastRelease
  <2>2. Phase' = Phase
    BY <2>1, PhaseIs, PhaseNext DEF Created
  <2> QED
    BY <1>1, <2>1, <2>2, Unseen
<1> QED
  BY <1>3, <1>4

\* References that threads drop and the waking of the last user are not seen.
LEMMA ReleaserUnseen ==
  ASSUME ReleaseIInv, ReleaseIInv',
         ReleaseByThread \/ ReleaserStirs \/ ReleaserWakes \/ UNCHANGED vars
  PROVE  UNCHANGED Pool!avars
<1>1. SameTasks(core, core') /\ core'.status = core.status
  BY DEF ReleaseByThread, ReleaserStirs, ReleaserWakes, vars, SameTasks,
         ReleaseIInv, ThreadsInv, TypeOK, CoreType
<1>2. held' = held /\ InHand' = InHand
  BY DEF ReleaseByThread, ReleaserStirs, ReleaserWakes, vars, InHand
<1>3. Phase' = Phase
  BY <1>1, PhaseIs, PhaseNext DEF Created
<1> QED
  BY <1>1, <1>2, <1>3, Unseen

\* Who frees the pool finds it closed, and leaves the tasks alone if there are
\* any; there are none if NoTaskFreed holds.
LEMMA DestroyFrees ==
  ASSUME ReleaseIInv, ReleaseIInv', Destroy, NoTaskFreed
  PROVE  Pool!Free
<1>1. /\ cleaners > 0 /\ core'.status = "destroyed" /\ SameTasks(core, core')
      /\ held' = held /\ InHand' = InHand
  BY DEF Destroy, InHand, SameTasks, ReleaseIInv, ThreadsInv, TypeOK, CoreType
<1>2. /\ core.status = "destroying" /\ core.ths = {} /\ held = 0
  BY <1>1 DEF ReleaseIInv, ReleaseInv, ThreadsInv, TypeOK, CoreType, CoreStatus, Created
<1>3. Phase = "closing" /\ Phase' = "gone"
  BY <1>1, <1>2, PhaseIs, PhaseNext DEF Created
<1>4. core.npendings = 0 /\ core.n_qdispatchs = 0
  BY <1>1 DEF NoTaskFreed
<1>5. Total(InHand) = 0 /\ Total(InHand)' = Total(InHand)
  <2>1. \A t \in Threads : pc[t] = "entry"
    BY <1>2, InThePool DEF ReleaseIInv
  <2>2. InHand \in [Threads -> Nat] /\ \A t \in Threads : InHand[t] = 0
    BY <2>1, PhaseIs DEF InHand
  <2> QED
    BY <1>1, <2>2, TotalNothing
<1> QED
  BY <1>1, <1>2, <1>3, <1>4, <1>5 DEF Pool!Free, SameTasks

-----------------------------------------------------------------------------
(***************************************************************************)
(* The implementation                                                      *)
(***************************************************************************)

LEMMA PoolInit ==
  ASSUME Init
  PROVE  Pool!Init
<1>1. ReleaseIInv /\ Created
  BY ReleaseIInvInit
<1>2. core.npendings = 0 /\ core.n_qdispatchs = 0 /\ held = 0
  BY ServiceInvInit DEF Init
<1>3. Phase = "open" /\ core.paused \in BOOLEAN
  BY <1>1, PhaseIs, NumbersOf
<1>4. Total(InHand) = 0
  <2>1. InHand \in [Threads -> Nat] /\ \A t \in Threads : InHand[t] = 0
    BY <1>1, PhaseIs DEF Init, InHand
  <2> QED
    BY <2>1, TotalNothing
<1> QED
  BY <1>2, <1>3, <1>4 DEF Pool!Init

LEMMA PoolStep ==
  ASSUME ReleaseIInv, ServiceInv, [Next]_vars, ~Destroy
  PROVE  [Pool!Next]_Pool!avars
<1>0. ReleaseIInv'
  BY ReleaseIInvNext
<1>1. CASE \E t \in Threads : Step(t) \/ TimeOut(t) \/ MarkAgain(t)
  <2>1. PICK t \in Threads : Step(t) \/ TimeOut(t) \/ MarkAgain(t)
    BY <1>1
  <2>2. CASE TakeDispatch(t)
    BY <1>0, <2>2, TakeDispatchHandles DEF Pool!Next
  <2>3. CASE TakeTask(t)
    BY <1>0, <2>3, TakeTaskStarts DEF Pool!Next
  <2>4. CASE FinishTask(t) \/ FinishDispatched(t)
    BY <1>0, <2>4, FinishDone DEF Pool!Next
  <2>5. CASE Requeue(t)
    BY <1>0, <2>5, RequeueResubmits DEF Pool!Next
  <2>6. CASE \/ Join(t) \/ Quit(t) \/ Sleep(t) \/ Wake(t) \/ TimeOut(t)
             \/ CreateThread(t) \/ CreateFails(t) \/ Suspect(t) \/ Recheck(t)
             \/ Test(t) \/ Collect(t) \/ Stay(t) \/ Leave(t) \/ MarkAgain(t)
    BY <1>0, <2>6, IdleStepUnseen
  <2> QED
    BY <2>1, <2>2, <2>3, <2>4, <2>5, <2>6 DEF Step
<1>2. CASE Users
  <2>1. CASE Queue
    BY <1>0, <2>1, QueueSubmits DEF Pool!Next
  <2>2. CASE RemoveAll
    BY <1>0, <2>2, RemoveAllRemoves DEF Pool!Next
  <2>3. CASE DispatchRemoved
    BY <1>0, <2>3, DispatchRemovedDrops DEF Pool!Next
  <2>4. CASE Suspend
    BY <1>0, <2>4, SuspendSuspends DEF Pool!Next
  <2>5. CASE Resume
    BY <1>0, <2>5, ResumeResumes DEF Pool!Next
  <2>6. CASE Flush \/ Adjust \/ AddRef
    BY <1>0, <2>6, OtherCallsUnseen
  <2>7. CASE Release
    BY <1>0, <2>7, ReleaseCloses DEF Pool!Next
  <2> QED
    BY <1>2, <2>1, <2>2, <2>3, <2>4, <2>5, <2>6, <2>7 DEF Users
<1>3. CASE ReleaseByThread \/ ReleaserStirs \/ ReleaserWakes \/ UNCHANGED vars
  BY <1>0, <1>3, ReleaserUnseen
<1> QED
  BY <1>1, <1>2, <1>3 DEF Next, Gone

\* Whatever threads and users do to the tasks, until the pool is freed, is what
\* TaskPool allows: every task that was queued is run or handled as removed once,
\* none starts in a suspended pool, and none appears in it after its last user
\* left but those that queue themselves again.
THEOREM TasksAsPromised == Spec => PoolUntilFreed
<1>1. Init => Pool!Init
  BY PoolInit
<1>2. ReleaseIInv /\ ServiceInv /\ [Next]_vars => [Pool!Next \/ Destroy]_(Pool!avars)
  BY PoolStep
<1> QED
  BY <1>1, <1>2, ServiceInvAlways, PTL DEF Spec, PoolUntilFreed

\* Only flush and adjust resize a pool.
LEMMA NeverResized ==
  ASSUME Calls \cap {"flush", "adjust"} = {}
  PROVE  Spec => [](resizes = 0)
<1>1. Init => resizes = 0
  BY DEF Init
<1>2. resizes = 0 /\ [Next]_vars => (resizes = 0)'
  <2>1. ~Flush /\ ~Adjust
    BY DEF Flush, Adjust
  <2>2. ASSUME NEW t \in Threads, Step(t) \/ TimeOut(t) \/ MarkAgain(t)
        PROVE  resizes' = resizes
    BY <2>2 DEF Step, TimeOut, MarkAgain, Join, TakeDispatch, TakeTask, Taken, Quit,
       Sleep, Wake, CreateThread, CreateFails, Suspect, Recheck, FinishTask,
       FinishDispatched, Requeue, Test, Collect, Stay, Leave
  <2>3. ASSUME ReleaseByThread \/ ReleaserStirs \/ ReleaserWakes \/ Destroy \/ Users
        PROVE  resizes' = resizes
    BY <2>1, <2>3 DEF ReleaseByThread, ReleaserStirs, ReleaserWakes, Destroy, Users,
       Queue, RemoveAll, DispatchRemoved, Suspend, Resume, AddRef, Release
  <2> QED
    BY <2>2, <2>3 DEF Next, Gone, vars
<1> QED
  BY <1>1, <1>2, PTL DEF Spec

\* CpoolCore implements TaskPool, the freeing of an empty pool included: if
\* nobody resizes the pool, no task queues itself again, and the system has the
\* threads the pool asks for, see NoTaskFreedAlways.
THEOREM CoreImplementsTaskPool ==
  ASSUME ~CreateMayFail, Calls \cap {"again", "flush", "adjust"} = {}
  PROVE  Spec => PoolSafe
<1>1. Init => Pool!Init
  BY PoolInit
<1>2. /\ ReleaseIInv /\ ServiceInv /\ (resizes = 0 => NoTaskFreed) /\ resizes = 0
      /\ [Next]_vars
      => [Pool!Next]_(Pool!avars)
  <2> SUFFICES ASSUME ReleaseIInv, ServiceInv, NoTaskFreed, [Next]_vars
               PROVE  [Pool!Next]_(Pool!avars)
    OBVIOUS
  <2>1. CASE Destroy
    BY <2>1, ReleaseIInvNext, DestroyFrees DEF Pool!Next
  <2>2. CASE ~Destroy
    BY <2>2, PoolStep
  <2> QED
    BY <2>1, <2>2
<1>3. Spec => [](resizes = 0 => NoTaskFreed)
  BY NoTaskFreedAlways
<1>4. Spec => [](resizes = 0)
  BY NeverResized
<1>5. Spec => Pool!Init /\ [][Pool!Next]_(Pool!avars)
  BY <1>1, <1>2, <1>3, <1>4, ServiceInvAlways, PTL DEF Spec
<1> QED
  BY <1>5 DEF PoolSafe, Pool!Safe
=============================================================================
