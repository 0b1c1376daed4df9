---------------------------- MODULE CpoolRtProofs ----------------------------
(***************************************************************************)
(* The waits of the routine pool: CpoolRt implements CpoolCore, so that    *)
(* what is proved of the core holds with waiters, too, nobody waits in a   *)
(* pool that is freed, whoever waits for the tasks is remembered as long   *)
(* as nobody calls stpool_wakeup, and nobody is told too early that they   *)
(* are done.                                                               *)
(***************************************************************************)
EXTENDS CpoolRt, CpoolCoreProofs

-----------------------------------------------------------------------------
(***************************************************************************)
(* CpoolRt implements CpoolCore                                            *)
(***************************************************************************)

LEMMA RtStepsAreCoreSteps ==
  ASSUME ReleaseIInv, [RtNext]_rtvars
  PROVE  [Next]_vars
<1>1. ASSUME NEW t \in Threads, WorkerStep(t) \/ TimeOutGC(t)
      PROVE  [Next]_vars
  <2>1. Step(t) \/ TimeOut(t) \/ UNCHANGED vars
    BY <1>1, Zenon DEF WorkerStep, SleepNotifies, LeaveNotifies, QuitGC, CollectGC,
                       TimeOutGC, GCLeaves, Step
  <2> QED
    BY <2>1 DEF Next
<1>2. ASSUME NEW w \in Waiters, WaiterStep(w) \/ Waits(w)
      PROVE  [Next]_vars
  <2>1. CASE Wait(w)
    <3>1. PICK k \in Kinds :
            core' = IF k = "suspend" THEN [core EXCEPT !.paused = TRUE] ELSE core
      BY <2>1 DEF Wait
    <3>2. Created /\ Unmoved /\ UNCHANGED <<held, resizes>>
      BY <2>1 DEF Wait
    <3>3. CASE core' = core
      BY <3>2, <3>3 DEF Unmoved, vars
    <3>4. CASE core' # core
      <4>1. k = "suspend" /\ core' = [core EXCEPT !.paused = TRUE]
        BY <3>1, <3>4
      <4>2. core \in CoreType /\ core.paused \in BOOLEAN
        BY DEF ReleaseIInv, ThreadsInv, TypeOK, CoreType
      <4>3. CASE core.paused
        <5>1. [core EXCEPT !.paused = TRUE] = core
          BY <4>2, <4>3 DEF CoreType
        <5> QED
          BY <5>1, <4>1, <3>4
      <4>4. CASE ~core.paused
        BY <3>2, <4>1, <4>4, RtAssumption DEF Suspend, Next, Users
      <4> QED
        BY <4>2, <4>3, <4>4
    <3> QED
      BY <3>3, <3>4
  <2>2. CASE WaiterStep(w) \/ WaiterStirs(w) \/ Invoke(w)
    BY <2>2 DEF WaiterStep, WaiterWakes, Erase, WaiterStirs, Invoke
  <2> QED
    BY <1>2, <2>1, <2>2 DEF Waits
<1>3. CASE Background
  BY <1>3 DEF Background, RemoveDispatches, RemoveCounts, RemoveTriesWakeup,
              Shutdown, SyncerWakes, DestroyAfterSync, Next, Users
<1>4. CASE RtUsers
  BY <1>4 DEF RtUsers, Accepted, RemoveStarts, ReleaseNotifies, ThrottleCtl,
              Next, Users
<1>5. CASE ((ReleaserStirs \/ Gone) /\ UNCHANGED rt) \/ SyncerStirs
  BY <1>5 DEF SyncerStirs, Next
<1>6. CASE UNCHANGED rtvars
  BY <1>6 DEF rtvars
<1> QED
  BY <1>1, <1>2, <1>3, <1>4, <1>5, <1>6 DEF RtNext

\* The waits and all that is done for them take nothing from the promises of
\* the core: every step of CpoolRt is a step of CpoolCore or none of its own.
THEOREM RtImplementsCore == RtSpec => Spec
<1>1. RtInit => Init /\ ReleaseIInv
  BY ReleaseIInvInit DEF RtInit
<1>2. ReleaseIInv /\ [RtNext]_rtvars => [Next]_vars /\ ReleaseIInv'
  BY RtStepsAreCoreSteps, ReleaseIInvNext
<1> QED
  BY <1>1, <1>2, PTL DEF RtSpec, Spec

\* Two of the core's promises, for the pool with its waiters.
THEOREM RtPoolFreedOnce == RtSpec => []FreedOnce
BY RtImplementsCore, PoolFreedOnce, PTL

-----------------------------------------------------------------------------
(***************************************************************************)
(* Nobody waits in a pool that is freed                                    *)
(***************************************************************************)

\* Who waits has a reason to.  Whoever frees the pool starts to see the
\* waiters off when no user holds the pool any more, is done only when nobody
\* is inside, and nobody comes in after that.
WaitersInv ==
    /\ rt \in RtType
    /\ \A w \in Waiters : rt.wpc[w] \in {"parked", "woken"} => rt.kind[w] \in AllKinds
    /\ rt.syncer # "no" => ~Created
    /\ rt.syncer = "done" \/ core.status = "destroyed" => NobodyInside(rt)

\* The GC thread gives the GC up before it does anything with what it takes.
GCInv ==
    rt.GC # NoSelf =>
      pc[rt.GC] \in {"gettask", "asleep", "test", "leave", "create", "exec"}

RtIInv == ReleaseIInv /\ WaitersInv /\ GCInv

\* Nobody enters or leaves the waits, and whoever frees the pool is as far as
\* before, awake or not.
SameWaiters(r, s) ==
    /\ s.kind = r.kind
    /\ \A w \in Waiters : s.wpc[w] \in {"parked", "woken"}
                           <=> r.wpc[w] \in {"parked", "woken"}
    /\ s.syncer = "no" <=> r.syncer = "no"
    /\ s.syncer = "done" <=> r.syncer = "done"

\* A waiter counts: a function that waits has not been left.
LEMMA NobodyInsideMeans ==
  ASSUME NEW r \in RtType,
         \A w \in Waiters : r.wpc[w] \in {"parked", "woken"} => r.kind[w] \in AllKinds
  PROVE  NobodyInside(r) <=> \A w \in Waiters : r.wpc[w] \notin {"parked", "woken"}
<1>1. \A K : Inside(r, K) \subseteq Waiters
  BY DEF Inside
<1>2. \A K : Cardinality(Inside(r, K)) = 0 <=> Inside(r, K) = {}
  BY <1>1, FS_Subset, FS_EmptySet, RtAssumption
<1>3. NobodyInside(r) <=> /\ Inside(r, TaskKinds) = {}
                          /\ Inside(r, {"throttle_wait"}) = {}
  BY <1>2 DEF NobodyInside, tsk_wref, ev_wref
<1> QED
  BY <1>3 DEF Inside, TaskKinds, AllKinds

LEMMA BroadcastType ==
  ASSUME NEW r \in RtType
  PROVE  /\ Broadcast(r) \in RtType /\ SameWaiters(r, Broadcast(r))
         /\ \A w \in Waiters : Broadcast(r).wpc[w] # "parked"
         /\ Broadcast(r).syncer # "waiting"
BY DEF RtType, WaitLocation, Broadcast, SameWaiters

\* To raise the event, or to ask for it, keeps the types and lets nobody in or
\* out ...
LEMMA EventQuiet ==
  ASSUME NEW r \in RtType, NEW p
  PROVE  /\ AskIdle(r, p) \in RtType /\ SameWaiters(r, AskIdle(r, p))
         /\ NotifyFree(r) \in RtType /\ SameWaiters(r, NotifyFree(r))
         /\ TryNotify(r, p) \in RtType /\ SameWaiters(r, TryNotify(r, p))
<1>1. ASSUME NEW q \in RtType
      PROVE  AskIdle(q, p) \in RtType /\ SameWaiters(q, AskIdle(q, p))
  <2>1. (q.event_free_notified /\ Idle(q, p)) \in BOOLEAN
    OBVIOUS
  <2>2. AskIdle(q, p) = [q EXCEPT !.event_free_notified =
                                    (q.event_free_notified /\ Idle(q, p))]
    BY DEF AskIdle
  <2> QED
    BY <2>1, <2>2 DEF RtType, SameWaiters
<1>2. ASSUME NEW q \in RtType
      PROVE  NotifyFree(q) \in RtType /\ SameWaiters(q, NotifyFree(q))
  <2>1. [Broadcast(q) EXCEPT !.tsk_need_notify = FALSE] \in RtType
    BY BroadcastType DEF RtType
  <2>2. SameWaiters(q, [Broadcast(q) EXCEPT !.tsk_need_notify = FALSE])
    BY BroadcastType DEF RtType, SameWaiters
  <2>3. SameWaiters(q, q)
    BY DEF SameWaiters
  <2> QED
    BY <2>1, <2>2, <2>3 DEF NotifyFree
<1>3. TryNotify(r, p) \in RtType /\ SameWaiters(r, TryNotify(r, p))
  <2> DEFINE q == [r EXCEPT !.event_free_notified = TRUE]
  <2>1. q \in RtType /\ SameWaiters(r, q)
    BY DEF RtType, SameWaiters
  <2>2. NotifyFree(q) \in RtType /\ SameWaiters(r, NotifyFree(q))
    BY <2>1, <1>2 DEF SameWaiters
  <2> QED
    BY <2>2, <1>1 DEF TryNotify
<1> QED
  BY <1>1, <1>2, <1>3

\* ... and so do stpool_wakeup and the last waiter of its kind.
LEMMA InterruptQuiet ==
  ASSUME NEW r \in RtType, NEW w \in Waiters
  PROVE  /\ Interrupted(r, w) \in RtType /\ SameWaiters(r, Interrupted(r, w))
         /\ SyncEnv(r, w) \in RtType /\ SameWaiters(r, SyncEnv(r, w))
<1>1. Interrupted(r, w) \in RtType /\ SameWaiters(r, Interrupted(r, w))
  <2>1. CASE r.kind[w] = "throttle_wait"
    BY <2>1 DEF Interrupted, RtType, SameWaiters
  <2>2. CASE r.kind[w] # "throttle_wait"
    <3> DEFINE b == Broadcast(r)
    <3>1. b \in RtType /\ SameWaiters(r, b)
      BY BroadcastType
    <3>2. Interrupted(r, w) = [b EXCEPT !.intr = b.intr \cup {w}, !.tsk_need_notify = FALSE]
      BY <2>2 DEF Interrupted
    <3> HIDE DEF b
    <3>3. b.intr \cup {w} \in SUBSET Waiters
      BY <3>1 DEF RtType
    <3> DEFINE i == b.intr \cup {w}
    <3> HIDE DEF i
    <3>4. [b EXCEPT !.intr = i, !.tsk_need_notify = FALSE] \in RtType
      BY <3>1, <3>3 DEF RtType, i
    <3> QED
      BY <3>1, <3>2, <3>4 DEF RtType, SameWaiters, i
  <2> QED
    BY <2>1, <2>2
<1>2. SyncEnv(r, w) \in RtType /\ SameWaiters(r, SyncEnv(r, w))
  <2>1. [Broadcast(r) EXCEPT !.ref_sync = 0] \in RtType
    BY BroadcastType DEF RtType
  <2>2. SameWaiters(r, [Broadcast(r) EXCEPT !.ref_sync = 0])
    BY BroadcastType DEF RtType, SameWaiters
  <2>3. SameWaiters(r, r)
    BY DEF SameWaiters
  <2> QED
    BY <2>1, <2>2, <2>3 DEF SyncEnv
<1> QED
  BY <1>1, <1>2

\* A waiter's own pass through its loop.
LEMMA LookQuiet ==
  ASSUME NEW r \in RtType, NEW p, NEW w \in Waiters, NEW s \in Look(r, p, w)
  PROVE  /\ s \in RtType /\ s.kind = r.kind
         /\ \A v \in Waiters \ {w} : s.wpc[v] \in {"parked", "woken"}
                                   <=> r.wpc[v] \in {"parked", "woken"}
         /\ s.syncer = "no" <=> r.syncer = "no"
         /\ s.syncer = "done" <=> r.syncer = "done"
<1> DEFINE q == IF r.kind[w] \in TaskKinds THEN AskIdle(r, p) ELSE r
<1>1. q \in RtType /\ SameWaiters(r, q)
  BY EventQuiet DEF SameWaiters
<1> HIDE DEF q
<1>2. CASE \E l \in {"done", "failed"} : s = [q EXCEPT !.wpc[w] = l]
  BY <1>1, <1>2 DEF RtType, WaitLocation, SameWaiters
<1>3. CASE s \in Park(q, w)
  <2> DEFINE n == IF q.kind[w] \in TaskKinds
                  THEN [q EXCEPT !.tsk_need_notify = TRUE]
                  ELSE [q EXCEPT !.ev_need_notify = TRUE]
  <2>1. n \in RtType /\ SameWaiters(r, n)
    BY <1>1 DEF RtType, SameWaiters
  <2>2. Interruptible(n) \subseteq Waiters
    BY DEF Interruptible
  <2>3. PICK m : /\ m = n \/ \E v \in Interruptible(n) : m = Interrupted(n, v)
                 /\ s = [m EXCEPT !.wpc[w] = "parked"]
    BY <1>3 DEF Park
  <2> HIDE DEF n
  <2>4. m \in RtType /\ SameWaiters(n, m)
    <3>1. CASE m = n
      BY <2>1, <3>1 DEF SameWaiters
    <3>2. CASE \E v \in Interruptible(n) : m = Interrupted(n, v)
      BY <2>1, <2>2, <3>2, InterruptQuiet
    <3> QED
      BY <2>3, <3>1, <3>2
  <2> QED
    BY <2>1, <2>3, <2>4 DEF RtType, WaitLocation, SameWaiters
<1> QED
  BY <1>2, <1>3 DEF Look, q

LEMMA QuietStep ==
  ASSUME WaitersInv, rt' \in RtType, SameWaiters(rt, rt'),
         ~Created => ~Created', core'.status = "destroyed" => core.status = "destroyed"
  PROVE  WaitersInv'
<1>1. NobodyInside(rt') <=> NobodyInside(rt)
  BY NobodyInsideMeans DEF WaitersInv, SameWaiters
<1> QED
  BY <1>1 DEF WaitersInv, SameWaiters

-----------------------------------------------------------------------------

\* A thread may take up the GC or leave it, and raise the event when it does and
\* when it goes to sleep or leaves; the others leave the waiters alone.
LEMMA WorkerTells ==
  ASSUME rt \in RtType, NEW t \in Threads, WorkerStep(t) \/ TimeOutGC(t)
  PROVE  \E q : \E x \in Threads \cup {NoSelf} :
           /\ \/ q = [rt EXCEPT !.GC = x]
              \/ q = TryNotify([rt EXCEPT !.GC = x], core)
           /\ rt' = q \/ rt' = TryNotify(q, core')
<1> DEFINE ToldBy(q) == \E x \in Threads \cup {NoSelf} :
                        \/ q = [rt EXCEPT !.GC = x]
                        \/ q = TryNotify([rt EXCEPT !.GC = x], core)
<1>1. ToldBy(rt)
  BY DEF RtType
<1>2. ToldBy(LeaveGC(rt, t))
  <2> DEFINE x == IF rt.GC = t THEN NoSelf ELSE rt.GC
  <2>1. LeaveGC(rt, t) = [rt EXCEPT !.GC = x] /\ x \in Threads \cup {NoSelf}
    BY DEF LeaveGC, RtType
  <2> HIDE DEF x
  <2> QED
    BY <2>1
<1>3. ASSUME NEW q \in AskGC(rt, core, t)
      PROVE  ToldBy(q)
  <2>1. \/ q = rt \/ q = LeaveGC(rt, t)
        \/ q = TryNotify([rt EXCEPT !.GC = t], core)
    BY <1>3 DEF AskGC
  <2> QED
    BY <1>1, <1>2, <2>1
<1> HIDE DEF ToldBy
<1>4. \E q : ToldBy(q) /\ (rt' = q \/ rt' = TryNotify(q, core'))
  <2>1. CASE SleepNotifies(t)
    BY <1>3, <2>1 DEF SleepNotifies
  <2>2. CASE QuitGC(t) \/ CollectGC(t)
    BY <1>3, <2>2 DEF QuitGC, CollectGC
  <2>3. CASE LeaveNotifies(t) \/ GCLeaves(t)
    BY <1>2, <2>3 DEF LeaveNotifies, GCLeaves
  <2>4. CASE rt' = rt
    BY <1>1, <2>4
  <2>5. SleepNotifies(t) \/ QuitGC(t) \/ CollectGC(t) \/ LeaveNotifies(t)
        \/ GCLeaves(t) \/ rt' = rt
    BY Zenon DEF WorkerStep, TimeOutGC
  <2> QED
    BY <2>1, <2>2, <2>3, <2>4, <2>5
<1> QED
  BY <1>4 DEF ToldBy

LEMMA WorkerKeepsWaiters ==
  ASSUME RtIInv, NEW t \in Threads, WorkerStep(t) \/ TimeOutGC(t)
  PROVE  WaitersInv'
<1>1. core'.status = core.status
  <2>1. Step(t) \/ TimeOut(t) \/ UNCHANGED vars
    BY Zenon DEF WorkerStep, SleepNotifies, LeaveNotifies, QuitGC, CollectGC,
                 TimeOutGC, GCLeaves, Step
  <2> QED
    BY <2>1, ThreadSteps DEF RtIInv, ReleaseIInv, ThreadFrame, vars
<1>2. rt \in RtType
  BY DEF RtIInv, WaitersInv
<1>told. PICK q : \E x \in Threads \cup {NoSelf} :
          /\ \/ q = [rt EXCEPT !.GC = x]
             \/ q = TryNotify([rt EXCEPT !.GC = x], core)
          /\ rt' = q \/ rt' = TryNotify(q, core')
  BY <1>2, WorkerTells
<1>3. PICK x \in Threads \cup {NoSelf} :
        /\ \/ q = [rt EXCEPT !.GC = x]
           \/ q = TryNotify([rt EXCEPT !.GC = x], core)
        /\ rt' = q \/ rt' = TryNotify(q, core')
  BY <1>told
<1> DEFINE g == [rt EXCEPT !.GC = x]
<1>4. g \in RtType /\ SameWaiters(rt, g)
  BY <1>2 DEF RtType, SameWaiters
<1>5. q = g \/ q = TryNotify(g, core)
  BY <1>3
<1> HIDE DEF g
<1>6. q \in RtType /\ SameWaiters(rt, q)
  BY <1>4, <1>5, EventQuiet DEF SameWaiters
<1>7. rt' \in RtType /\ SameWaiters(rt, rt')
  BY <1>3, <1>6, EventQuiet DEF SameWaiters
<1> QED
  BY <1>1, <1>7, QuietStep DEF RtIInv, Created

LEMMA WaiterKeepsWaiters ==
  ASSUME RtIInv, NEW w \in Waiters, WaiterStep(w) \/ Waits(w)
  PROVE  WaitersInv'
<1>1. rt \in RtType /\ SameWaiters(rt, rt)
  BY DEF RtIInv, WaitersInv, SameWaiters
<1>2. CASE Wait(w)
  <2>1. core'.status = core.status /\ Created
    BY <1>2 DEF Wait, RtIInv, ReleaseIInv, ThreadsInv, TypeOK, CoreType
  <2>2. PICK k \in Kinds :
          rt' \in Look([rt EXCEPT !.kind[w] = k, !.wpc[w] = "woken"], core', w)
    BY <1>2 DEF Wait
  <2> DEFINE r == [rt EXCEPT !.kind[w] = k, !.wpc[w] = "woken"]
  <2>3. k \in AllKinds
    BY RtAssumption
  <2>4. r \in RtType /\ r.syncer = rt.syncer
    BY <1>1, <2>3 DEF RtType, WaitLocation
  <2>5. \A v \in Waiters : r.wpc[v] \in {"parked", "woken"} => r.kind[v] \in AllKinds
    BY <1>1, <2>3 DEF RtType, RtIInv, WaitersInv
  <2>6. r.kind[w] \in AllKinds
    BY <1>1, <2>3 DEF RtType
  <2>7. rt' \in Look(r, core', w)
    BY <2>2
  <2> HIDE DEF r
  <2>8. /\ rt' \in RtType /\ rt'.kind = r.kind
        /\ \A v \in Waiters \ {w} : rt'.wpc[v] \in {"parked", "woken"}
                                  <=> r.wpc[v] \in {"parked", "woken"}
        /\ rt'.syncer = "no" <=> r.syncer = "no"
        /\ rt'.syncer = "done" <=> r.syncer = "done"
    BY <2>4, <2>7, LookQuiet
  <2>9. \A v \in Waiters : rt'.wpc[v] \in {"parked", "woken"} => rt'.kind[v] \in AllKinds
    BY <2>5, <2>6, <2>8
  <2>10. rt.syncer = "no"
    BY <2>1 DEF RtIInv, WaitersInv
  <2> QED
    BY <2>1, <2>4, <2>8, <2>9, <2>10 DEF WaitersInv, Created
<1>3. CASE WaiterWakes(w)
  <2> DEFINE r == SyncEnv(rt, w)
  <2>1. UNCHANGED vars /\ rt.wpc[w] = "woken" /\ rt' \in Look(r, core, w)
    BY <1>3 DEF WaiterWakes
  <2>2. r \in RtType /\ SameWaiters(rt, r)
    BY <1>1, InterruptQuiet
  <2> HIDE DEF r
  <2>3. /\ rt' \in RtType /\ rt'.kind = r.kind
        /\ \A v \in Waiters \ {w} : rt'.wpc[v] \in {"parked", "woken"}
                                  <=> r.wpc[v] \in {"parked", "woken"}
        /\ rt'.syncer = "no" <=> r.syncer = "no"
        /\ rt'.syncer = "done" <=> r.syncer = "done"
    BY <2>1, <2>2, LookQuiet
  <2>4. \A v \in Waiters : rt'.wpc[v] \in {"parked", "woken"} => rt'.kind[v] \in AllKinds
    BY <2>1, <2>2, <2>3 DEF RtIInv, WaitersInv, SameWaiters
  <2>5. ~NobodyInside(rt)
    BY <1>1, <2>1, NobodyInsideMeans DEF RtIInv, WaitersInv
  <2>6. rt.syncer # "done" /\ core.status # "destroyed"
    BY <2>5 DEF RtIInv, WaitersInv
  <2>7. core' = core
    BY <2>1 DEF vars
  <2> QED
    BY <2>2, <2>3, <2>4, <2>6, <2>7 DEF WaitersInv, RtIInv, SameWaiters, Created
<1>4. CASE WaiterStirs(w)
  <2>1. core' = core /\ rt.wpc[w] = "parked" /\ rt' = [rt EXCEPT !.wpc[w] = "woken"]
    BY <1>4 DEF WaiterStirs, vars
  <2>2. rt' \in RtType /\ SameWaiters(rt, rt')
    BY <1>1, <2>1 DEF RtType, WaitLocation, SameWaiters
  <2> QED
    BY <2>1, <2>2, QuietStep DEF RtIInv, Created
<1>5. CASE Erase(w)
  <2>1. /\ core' = core /\ rt.wpc[w] \in {"done", "failed"}
        /\ rt' = [rt EXCEPT !.wpc[w] = "out", !.kind[w] = "none", !.intr = @ \ {w}]
    BY <1>5 DEF Erase, vars
  <2>2. rt' \in RtType
    BY <1>1, <2>1 DEF RtType, WaitLocation
  <2>3. /\ rt'.syncer = rt.syncer
        /\ \A v \in Waiters : rt'.wpc[v] \in {"parked", "woken"} =>
             rt.wpc[v] \in {"parked", "woken"} /\ rt'.kind[v] = rt.kind[v]
    BY <1>1, <2>1 DEF RtType
  <2>4. \A v \in Waiters : rt'.wpc[v] \in {"parked", "woken"} => rt'.kind[v] \in AllKinds
    BY <2>3 DEF RtIInv, WaitersInv
  <2>5. NobodyInside(rt) => NobodyInside(rt')
    BY <1>1, <2>2, <2>3, <2>4, NobodyInsideMeans DEF RtIInv, WaitersInv
  <2> QED
    BY <2>1, <2>2, <2>3, <2>4, <2>5 DEF RtIInv, WaitersInv, Created
<1>6. CASE Invoke(w)
  <2>1. core' = core /\ rt' = Interrupted(rt, w)
    BY <1>6 DEF Invoke, vars
  <2> QED
    BY <1>1, <2>1, InterruptQuiet, QuietStep DEF RtIInv, Created
<1> QED
  BY <1>2, <1>3, <1>4, <1>5, <1>6 DEF WaiterStep, Waits

\* Whoever frees the pool goes on only if nobody is inside.
LEMMA SyncWaits ==
  ASSUME NEW r \in RtType
  PROVE  /\ Sync(r) \in RtType /\ Sync(r).kind = r.kind /\ Sync(r).wpc = r.wpc
         /\ Sync(r).syncer = "done" => NobodyInside(Sync(r))
<1>1. CASE NobodyInside(r)
  <2> DEFINE s == [r EXCEPT !.syncer = "done"]
  <2>1. Sync(r) = s
    BY <1>1 DEF Sync
  <2>2. s \in RtType /\ s.kind = r.kind /\ s.wpc = r.wpc
    BY DEF RtType
  <2> HIDE DEF s
  <2>3. \A K : Inside(s, K) = Inside(r, K)
    BY <2>2 DEF Inside
  <2>4. NobodyInside(s)
    BY <1>1, <2>3 DEF NobodyInside, tsk_wref, ev_wref
  <2> QED
    BY <2>1, <2>2, <2>4
<1>2. CASE ~NobodyInside(r)
  <2>1. Sync(r) = [r EXCEPT !.ref_sync = r.ref_sync + 1, !.syncer = "waiting"]
    BY <1>2 DEF Sync
  <2>2. r.ref_sync + 1 \in Int
    BY DEF RtType
  <2> QED
    BY <2>1, <2>2 DEF RtType
<1> QED
  BY <1>1, <1>2

LEMMA FreeingKeepsWaiters ==
  ASSUME RtIInv, Shutdown \/ SyncerWakes \/ SyncerStirs \/ DestroyAfterSync
  PROVE  WaitersInv'
<1>1. /\ rt \in RtType /\ SameWaiters(rt, rt) /\ core \in CoreType
      /\ \A w \in Waiters : rt.wpc[w] \in {"parked", "woken"} => rt.kind[w] \in AllKinds
  BY DEF RtIInv, WaitersInv, SameWaiters, ReleaseIInv, ThreadsInv, TypeOK
<1>2. ASSUME NEW r \in RtType, SameWaiters(rt, r), rt' = Sync(r), core' = core,
             ~Created, core.status # "destroyed"
      PROVE  WaitersInv'
  <2>1. /\ rt' \in RtType /\ rt'.kind = r.kind /\ rt'.wpc = r.wpc
        /\ rt'.syncer = "done" => NobodyInside(rt')
    BY <1>2, SyncWaits
  <2> QED
    BY <1>1, <1>2, <2>1 DEF WaitersInv, SameWaiters, Created
<1>3. CASE Shutdown
  <2>1. cleaners > 0 /\ rt' = Sync(Broadcast(rt)) /\ core' = core
    BY <1>3 DEF Shutdown, vars
  <2>2. ~Created /\ core.status # "destroyed"
    BY <2>1 DEF RtIInv, ReleaseIInv, ReleaseInv
  <2> QED
    BY <1>1, <1>2, <2>1, <2>2, BroadcastType
<1>4. CASE SyncerWakes
  <2> DEFINE r == [rt EXCEPT !.ref_sync = @ - 1]
  <2>1. rt.syncer = "woken" /\ rt' = Sync(r) /\ core' = core
    BY <1>4 DEF SyncerWakes, vars
  <2>2. r \in RtType /\ SameWaiters(rt, r)
    BY <1>1 DEF RtType, SameWaiters
  <2>3. ~Created
    BY <2>1 DEF RtIInv, WaitersInv
  <2> HIDE DEF r
  <2>4. CASE core.status # "destroyed"
    BY <1>2, <2>1, <2>2, <2>3, <2>4
  <2>5. CASE core.status = "destroyed"
    <3>1. NobodyInside(rt)
      BY <2>5 DEF RtIInv, WaitersInv
    <3>2. /\ rt' \in RtType /\ rt'.kind = r.kind /\ rt'.wpc = r.wpc
      BY <2>1, <2>2, SyncWaits
    <3>3. \A w \in Waiters : rt'.wpc[w] \notin {"parked", "woken"}
      BY <1>1, <2>2, <3>1, <3>2, NobodyInsideMeans DEF SameWaiters
    <3>4. NobodyInside(rt')
      BY <3>2, <3>3, NobodyInsideMeans
    <3> QED
      BY <2>1, <2>3, <3>2, <3>3, <3>4 DEF WaitersInv, Created
  <2> QED
    BY <2>4, <2>5
<1>5. CASE SyncerStirs
  <2>1. core' = core /\ rt.syncer = "waiting" /\ rt' = [rt EXCEPT !.syncer = "woken"]
    BY <1>5 DEF SyncerStirs, vars
  <2>2. rt' \in RtType /\ SameWaiters(rt, rt')
    BY <1>1, <2>1 DEF RtType, SameWaiters
  <2> QED
    BY <2>1, <2>2, QuietStep DEF RtIInv, Created
<1>6. CASE DestroyAfterSync
  <2>1. rt' = rt /\ rt.syncer = "done" /\ core'.status = "destroyed"
    BY <1>1, <1>6 DEF DestroyAfterSync, Destroy, CoreType
  <2> QED
    BY <2>1 DEF RtIInv, WaitersInv, Created
<1> QED
  BY <1>3, <1>4, <1>5, <1>6

LEMMA OthersKeepWaiters ==
  ASSUME RtIInv,
         \/ RemoveDispatches \/ RemoveCounts \/ RemoveTriesWakeup \/ RtUsers
         \/ (ReleaseByThread \/ ReleaserWakes \/ ReleaserStirs \/ Gone) /\ UNCHANGED rt
         \/ UNCHANGED rtvars
  PROVE  WaitersInv'
<1>1. /\ rt \in RtType /\ SameWaiters(rt, rt) /\ core \in CoreType /\ held \in Nat
  BY DEF RtIInv, WaitersInv, SameWaiters, ReleaseIInv, ThreadsInv, TypeOK
<1>2. ASSUME rt' = rt, core'.status = core.status
      PROVE  WaitersInv'
  BY <1>1, <1>2, QuietStep DEF RtIInv, Created
<1>3. CASE (ReleaseByThread \/ ReleaserWakes \/ ReleaserStirs \/ Gone) /\ UNCHANGED rt
  BY <1>1, <1>2, <1>3 DEF ReleaseByThread, ReleaserWakes, ReleaserStirs, Gone, vars,
                          CoreType
<1>4. CASE UNCHANGED rtvars
  BY <1>2, <1>4 DEF rtvars, vars
<1>5. CASE RemoveDispatches
  <2>1. rt' = [rt EXCEPT !.uncounted = held] /\ core'.status = core.status
    BY <1>5, UserSteps DEF RemoveDispatches, RtIInv, ReleaseIInv, UserFrame
  <2>2. rt' \in RtType /\ SameWaiters(rt, rt')
    BY <1>1, <2>1 DEF RtType, SameWaiters
  <2> QED
    BY <2>1, <2>2, QuietStep DEF RtIInv, Created
<1>6. CASE RemoveCounts
  <2> DEFINE c == core.npendings = 0
  <2>1. core' = core /\ rt' = [rt EXCEPT !.uncounted = 0, !.checking = c]
    BY <1>6 DEF RemoveCounts, vars
  <2>2. c \in BOOLEAN
    OBVIOUS
  <2> HIDE DEF c
  <2>3. rt' \in RtType /\ SameWaiters(rt, rt')
    BY <1>1, <2>1, <2>2 DEF RtType, SameWaiters
  <2> QED
    BY <2>1, <2>3, QuietStep DEF RtIInv, Created
<1>7. CASE RemoveTriesWakeup
  <2> DEFINE r == AskIdle(rt, core)
  <2>1. core' = core /\ rt' = [r EXCEPT !.checking = FALSE]
    BY <1>7 DEF RemoveTriesWakeup, vars
  <2>2. r \in RtType /\ SameWaiters(rt, r)
    BY <1>1, EventQuiet
  <2> HIDE DEF r
  <2>3. rt' \in RtType /\ SameWaiters(rt, rt')
    BY <2>1, <2>2 DEF RtType, SameWaiters
  <2> QED
    BY <2>1, <2>3, QuietStep DEF RtIInv, Created
<1>8. CASE RtUsers
  <2>1. CASE ReleaseNotifies
    <3>1. core'.status # "destroyed" /\ Created
      BY <2>1, ReleaseStep DEF ReleaseNotifies, Release, RtIInv
    <3>2. rt' = rt \/ rt' = Broadcast(rt)
      BY <2>1 DEF ReleaseNotifies
    <3> DEFINE b == Broadcast(rt)
    <3>3. b \in RtType /\ SameWaiters(rt, b)
      BY <1>1, BroadcastType
    <3>4. rt' = rt \/ rt' = b
      BY <3>2
    <3> HIDE DEF b
    <3>5. rt' \in RtType /\ SameWaiters(rt, rt')
      BY <1>1, <3>3, <3>4
    <3> QED
      BY <3>1, <3>5, QuietStep DEF RtIInv, Created
  <2>2. CASE ThrottleCtl
    <3>1. PICK on \in BOOLEAN :
            LET r == [rt EXCEPT !.throttle_on = on]
            IN  rt' = IF ~on /\ r.ev_need_notify
                      THEN [Broadcast(r) EXCEPT !.ev_need_notify = FALSE] ELSE r
      BY <2>2 DEF ThrottleCtl
    <3> DEFINE r == [rt EXCEPT !.throttle_on = on]
    <3>2. core' = core
      BY <2>2 DEF ThrottleCtl, vars
    <3>3. r \in RtType /\ SameWaiters(rt, r)
      BY <1>1 DEF RtType, SameWaiters
    <3>4. rt' = r \/ rt' = [Broadcast(r) EXCEPT !.ev_need_notify = FALSE]
      BY <3>1
    <3> HIDE DEF r
    <3>5. CASE rt' = r
      BY <3>2, <3>3, <3>5, QuietStep DEF RtIInv, Created
    <3>6. CASE rt' = [Broadcast(r) EXCEPT !.ev_need_notify = FALSE]
      <4> DEFINE b == Broadcast(r)
                 s == [b EXCEPT !.ev_need_notify = FALSE]
      <4>1. b \in RtType /\ SameWaiters(r, b)
        BY <3>3, BroadcastType
      <4> HIDE DEF b
      <4>2. s \in RtType /\ SameWaiters(rt, s)
        BY <3>3, <4>1 DEF RtType, SameWaiters
      <4>3. rt' = s
        BY <3>6 DEF b
      <4> HIDE DEF s
      <4>4. rt' \in RtType /\ SameWaiters(rt, rt')
        BY <4>2, <4>3
      <4> QED
        BY <3>2, <4>4, QuietStep DEF RtIInv, Created
    <3> QED
      BY <3>4, <3>5, <3>6
  <2>3. CASE Accepted
    <3>1. rt' = rt
      BY <2>3 DEF Accepted
    <3>2. core'.status = core.status
      BY <2>3, UserSteps, ThreadSteps DEF Accepted, RtIInv, ReleaseIInv, UserFrame,
                                          ThreadFrame
    <3> QED
      BY <1>2, <3>1, <3>2
  <2>4. CASE RemoveStarts \/ ((Resume \/ Flush \/ Adjust \/ AddRef) /\ UNCHANGED rt)
    BY <1>2, <2>4, UserSteps DEF RemoveStarts, RtIInv, ReleaseIInv, UserFrame
  <2> QED
    BY <1>8, <2>1, <2>2, <2>3, <2>4 DEF RtUsers
<1> QED
  BY <1>3, <1>4, <1>5, <1>6, <1>7, <1>8

\* What concerns the waiters does not concern the GC: the event and the end of
\* the pool, ...
LEMMA SyncKeepsGC ==
  ASSUME NEW r \in RtType
  PROVE  Broadcast(r).GC = r.GC /\ Sync(r).GC = r.GC
BY DEF RtType, Broadcast, Sync

LEMMA TryKeepsGC ==
  ASSUME NEW r \in RtType, NEW p
  PROVE  AskIdle(r, p).GC = r.GC /\ TryNotify(r, p).GC = r.GC
<1>1. AskIdle(r, p).GC = r.GC
  BY DEF RtType, AskIdle
<1>2. TryNotify(r, p).GC = r.GC
  <2> DEFINE q == [r EXCEPT !.event_free_notified = TRUE]
  <2>1. q \in RtType /\ q.GC = r.GC
    BY DEF RtType
  <2> HIDE DEF q
  <2>2. NotifyFree(q).GC = q.GC
    BY <2>1, BroadcastType, SyncKeepsGC DEF NotifyFree, RtType
  <2> QED
    BY <1>1, <2>1, <2>2 DEF TryNotify, q
<1> QED
  BY <1>1, <1>2

\* ... and what a waiter and who interrupts it do.
LEMMA GCUntouched ==
  ASSUME NEW r \in RtType, NEW p, NEW w \in Waiters
  PROVE  /\ Interrupted(r, w).GC = r.GC /\ SyncEnv(r, w).GC = r.GC
         /\ \A s \in Look(r, p, w) : s.GC = r.GC
<1>3. ASSUME NEW q \in RtType, NEW v \in Waiters
      PROVE  Interrupted(q, v).GC = q.GC /\ SyncEnv(q, v).GC = q.GC
  <2> DEFINE b == Broadcast(q)
  <2>1. b \in RtType /\ b.GC = q.GC
    BY <1>3, BroadcastType, SyncKeepsGC
  <2>2. /\ \/ Interrupted(q, v) = [q EXCEPT !.crashed = TRUE]
           \/ Interrupted(q, v) = [b EXCEPT !.intr = @ \cup {v},
                                            !.tsk_need_notify = FALSE]
        /\ SyncEnv(q, v) = q \/ SyncEnv(q, v) = [b EXCEPT !.ref_sync = 0]
    BY DEF Interrupted, SyncEnv
  <2> HIDE DEF b
  <2> QED
    BY <2>1, <2>2 DEF RtType
<1>4. ASSUME NEW s \in Look(r, p, w)
      PROVE  s.GC = r.GC
  <2> DEFINE q == IF r.kind[w] \in TaskKinds THEN AskIdle(r, p) ELSE r
  <2>1. q \in RtType /\ q.GC = r.GC
    BY EventQuiet, TryKeepsGC
  <2> HIDE DEF q
  <2>2. CASE \E l \in {"done", "failed"} : s = [q EXCEPT !.wpc[w] = l]
    BY <2>1, <2>2 DEF RtType
  <2>3. CASE s \in Park(q, w)
    <3> DEFINE n == IF q.kind[w] \in TaskKinds
                    THEN [q EXCEPT !.tsk_need_notify = TRUE]
                    ELSE [q EXCEPT !.ev_need_notify = TRUE]
    <3>1. n \in RtType /\ n.GC = q.GC
      BY <2>1 DEF RtType
    <3>2. Interruptible(n) \subseteq Waiters
      BY DEF Interruptible
    <3>3. PICK m : /\ m = n \/ \E v \in Interruptible(n) : m = Interrupted(n, v)
                   /\ s = [m EXCEPT !.wpc[w] = "parked"]
      BY <2>3 DEF Park
    <3> HIDE DEF n
    <3>4. m \in RtType /\ m.GC = q.GC
      <4>1. CASE m = n
        BY <3>1, <4>1
      <4>2. CASE \E v \in Interruptible(n) : m = Interrupted(n, v)
        <5>1. PICK v \in Waiters : m = Interrupted(n, v)
          BY <3>2, <4>2
        <5>2. Interrupted(n, v) \in RtType
          BY <3>1, InterruptQuiet
        <5>3. Interrupted(n, v).GC = n.GC
          BY <1>3, <3>1
        <5> QED
          BY <3>1, <5>1, <5>2, <5>3
      <4> QED
        BY <3>3, <4>1, <4>2
    <3> QED
      BY <2>1, <3>3, <3>4 DEF RtType
  <2> QED
    BY <1>4, <2>2, <2>3 DEF Look, q
<1> QED
  BY <1>3, <1>4

LEMMA GCInvNext ==
  ASSUME RtIInv, [RtNext]_rtvars
  PROVE  GCInv'
<1>1. /\ rt \in RtType /\ GCInv /\ NoSelf \notin Threads
      /\ pc \in [Threads -> Location]
  BY NoSelfAssumption DEF RtIInv, WaitersInv, ReleaseIInv, ThreadsInv, TypeOK
<1>2. ASSUME pc' = pc, rt'.GC \in {rt.GC, NoSelf}
      PROVE  GCInv'
  BY <1>1, <1>2 DEF GCInv
<1>3. ASSUME NEW t \in Threads, NEW l, Goto(t, l),
             rt'.GC \in {rt.GC, NoSelf} \/ rt'.GC = t,
             rt'.GC = t => l \in {"gettask", "asleep", "test", "leave", "create", "exec"}
      PROVE  GCInv'
  BY <1>1, <1>3 DEF GCInv, Goto, RtType
<1>4. ASSUME NEW t \in Threads, WorkerStep(t) \/ TimeOutGC(t)
      PROVE  GCInv'
  <2>1. LeaveGC(rt, t) \in RtType /\ LeaveGC(rt, t).GC \in {rt.GC, NoSelf} \ {t}
    BY <1>1 DEF LeaveGC, RtType
  <2>2. ASSUME NEW q \in AskGC(rt, core, t)
        PROVE  q \in RtType /\ (q.GC \in {rt.GC, NoSelf} \/ q.GC = t)
    <3>1. [rt EXCEPT !.GC = t] \in RtType /\ [rt EXCEPT !.GC = t].GC = t
      BY <1>1 DEF RtType
    <3>2. /\ TryNotify([rt EXCEPT !.GC = t], core) \in RtType
          /\ TryNotify([rt EXCEPT !.GC = t], core).GC = t
      BY <3>1, EventQuiet, TryKeepsGC
    <3> QED
      BY <1>1, <2>1, <2>2, <3>2 DEF AskGC
  <2>3. CASE SleepNotifies(t)
    BY <1>3, <2>2, <2>3, TryKeepsGC DEF SleepNotifies, Sleep
  <2>4. CASE QuitGC(t) \/ CollectGC(t)
    BY <1>3, <2>2, <2>4 DEF QuitGC, CollectGC, Quit, Collect
  <2>5. CASE LeaveNotifies(t)
    BY <1>3, <2>1, <2>5, TryKeepsGC DEF LeaveNotifies, Leave
  <2>6. CASE GCLeaves(t)
    BY <1>2, <2>1, <2>6 DEF GCLeaves, vars
  <2>7. CASE TimeOutGC(t)
    BY <1>3, <2>7 DEF TimeOutGC, TimeOut
  <2>8. ASSUME UNCHANGED rt,
               \/ Join(t) \/ TakeDispatch(t) \/ TakeTask(t) \/ Wake(t)
               \/ Requeue(t) \/ Test(t) \/ Stay(t)
        PROVE  GCInv'
    BY <1>3, <2>8 DEF Join, TakeDispatch, TakeTask, Taken, Wake, Requeue, Test, Stay
  <2>9. ASSUME UNCHANGED rt, rt.GC # t,
               \/ CreateThread(t) \/ CreateFails(t) \/ Suspect(t) \/ Recheck(t)
               \/ FinishTask(t) \/ FinishDispatched(t)
        PROVE  GCInv'
    <3>1. \/ pc' = pc
          \/ \E l : Goto(t, l)
      BY <2>9 DEF CreateThread, CreateFails, Suspect, Recheck, LoopOn, FinishTask,
                  FinishDispatched, AfterTask
    <3> QED
      BY <1>2, <1>3, <2>9, <3>1
  <2> QED
    BY <1>4, <2>3, <2>4, <2>5, <2>6, <2>7, <2>8, <2>9, Zenon DEF WorkerStep
<1>5. ASSUME NEW w \in Waiters, WaiterStep(w) \/ Waits(w)
      PROVE  GCInv'
  <2>1. CASE Wait(w)
    <3>1. PICK k \in Kinds :
            rt' \in Look([rt EXCEPT !.kind[w] = k, !.wpc[w] = "woken"], core', w)
      BY <2>1 DEF Wait
    <3> DEFINE r == [rt EXCEPT !.kind[w] = k, !.wpc[w] = "woken"]
    <3>2. r \in RtType /\ r.GC = rt.GC
      BY <1>1, RtAssumption DEF RtType, WaitLocation
    <3>3. rt' \in Look(r, core', w)
      BY <3>1
    <3> HIDE DEF r
    <3>4. pc' = pc
      BY <2>1 DEF Wait, Unmoved
    <3> QED
      BY <1>2, <3>2, <3>3, <3>4, GCUntouched
  <2>2. CASE WaiterWakes(w)
    <3>1. rt' \in Look(SyncEnv(rt, w), core, w) /\ pc' = pc
      BY <2>2 DEF WaiterWakes, vars
    <3> DEFINE r == SyncEnv(rt, w)
    <3>2. r \in RtType
      BY <1>1, InterruptQuiet
    <3>3. r.GC = rt.GC
      BY <1>1, GCUntouched
    <3>4. rt' \in Look(r, core, w)
      BY <3>1
    <3> HIDE DEF r
    <3>5. rt'.GC = r.GC
      BY <3>2, <3>4, GCUntouched
    <3> QED
      BY <1>2, <3>1, <3>3, <3>5
  <2>3. CASE Invoke(w)
    BY <1>1, <1>2, <2>3, GCUntouched DEF Invoke, vars
  <2>4. CASE WaiterStirs(w) \/ Erase(w)
    BY <1>1, <1>2, <2>4 DEF WaiterStirs, Erase, vars, RtType
  <2> QED
    BY <1>5, <2>1, <2>2, <2>3, <2>4 DEF WaiterStep, Waits
<1>6. CASE Background \/ SyncerStirs
  <2>1. CASE Shutdown
    BY <1>1, <1>2, <2>1, BroadcastType, SyncKeepsGC DEF Shutdown, vars
  <2>2. CASE SyncerWakes
    <3> DEFINE r == [rt EXCEPT !.ref_sync = @ - 1]
    <3>1. rt' = Sync(r) /\ r \in RtType /\ r.GC = rt.GC /\ pc' = pc
      BY <1>1, <2>2 DEF SyncerWakes, RtType, vars
    <3> HIDE DEF r
    <3> QED
      BY <1>2, <3>1, SyncKeepsGC
  <2>3. CASE RemoveTriesWakeup
    <3> DEFINE r == AskIdle(rt, core)
    <3>1. rt' = [r EXCEPT !.checking = FALSE] /\ pc' = pc
      BY <2>3 DEF RemoveTriesWakeup, vars
    <3>2. r \in RtType /\ r.GC = rt.GC
      BY <1>1, EventQuiet DEF AskIdle, RtType
    <3> HIDE DEF r
    <3> QED
      BY <1>2, <3>1, <3>2 DEF RtType
  <2>4. CASE RemoveDispatches \/ RemoveCounts \/ SyncerStirs
    <3>1. rt'.GC = rt.GC
      BY <1>1, <2>4 DEF RemoveDispatches, RemoveCounts, SyncerStirs, RtType
    <3>2. pc' = pc
      BY <2>4 DEF RemoveDispatches, RemoveCounts, SyncerStirs, DispatchRemoved, Unmoved,
                  vars
    <3> QED
      BY <1>2, <3>1, <3>2
  <2>5. CASE \/ DestroyAfterSync
             \/ (ReleaseByThread \/ ReleaserWakes) /\ UNCHANGED rt
    <3>1. pc' = pc /\ rt' = rt
      BY <2>5, Zenon DEF DestroyAfterSync, Destroy, ReleaseByThread, ReleaserWakes
    <3> QED
      BY <1>2, <3>1
  <2> QED
    BY <1>6, <2>1, <2>2, <2>3, <2>4, <2>5 DEF Background
<1>7. CASE RtUsers
  <2>1. CASE ReleaseNotifies
    <3>1. pc' = pc /\ (rt' = rt \/ rt' = Broadcast(rt))
      BY <2>1 DEF ReleaseNotifies, Release
    <3> QED
      BY <1>1, <1>2, <3>1, SyncKeepsGC
  <2>2. CASE ThrottleCtl
    <3>1. PICK on \in BOOLEAN :
            LET r == [rt EXCEPT !.throttle_on = on]
            IN  rt' = IF ~on /\ r.ev_need_notify
                      THEN [Broadcast(r) EXCEPT !.ev_need_notify = FALSE] ELSE r
      BY <2>2 DEF ThrottleCtl
    <3> DEFINE r == [rt EXCEPT !.throttle_on = on]
               b == Broadcast(r)
    <3>2. r \in RtType /\ r.GC = rt.GC
      BY <1>1 DEF RtType
    <3>3. rt' = r \/ rt' = [b EXCEPT !.ev_need_notify = FALSE]
      BY <3>1
    <3> HIDE DEF r
    <3>4. b \in RtType /\ b.GC = rt.GC
      BY <3>2, BroadcastType, SyncKeepsGC
    <3> HIDE DEF b
    <3>5. rt'.GC = rt.GC /\ pc' = pc
      BY <2>2, <3>2, <3>3, <3>4 DEF RtType, ThrottleCtl, vars
    <3> QED
      BY <1>2, <3>5
  <2>3. CASE \/ Accepted \/ RemoveStarts
             \/ (Resume \/ Flush \/ Adjust \/ AddRef) /\ UNCHANGED rt
    <3>1. pc' = pc /\ rt' = rt
      BY <2>3 DEF Accepted, RemoveStarts, Queue, MarkAgain, RemoveAll, Resume, Flush,
                  Adjust, AddRef, Unmoved
    <3> QED
      BY <1>2, <3>1
  <2> QED
    BY <1>7, <2>1, <2>2, <2>3 DEF RtUsers
<1>8. CASE ((ReleaserStirs \/ Gone) /\ UNCHANGED rt) \/ UNCHANGED rtvars
  BY <1>2, <1>8 DEF rtvars, vars, ReleaserStirs, Gone
<1> QED
  BY <1>4, <1>5, <1>6, <1>7, <1>8 DEF RtNext

LEMMA RtIInvInit == RtInit => RtIInv
<1> SUFFICES ASSUME RtInit PROVE RtIInv
  OBVIOUS
<1>1. ReleaseIInv /\ Created
  BY ReleaseIInvInit DEF RtInit
<1>2. rt \in RtType /\ \A w \in Waiters : rt.wpc[w] = "out"
  BY DEF RtInit, RtType, WaitLocation
<1> QED
  BY <1>1, <1>2 DEF RtInit, RtIInv, WaitersInv, GCInv, Created

LEMMA RtIInvNext == RtIInv /\ [RtNext]_rtvars => RtIInv'
<1> SUFFICES ASSUME RtIInv, [RtNext]_rtvars PROVE RtIInv'
  OBVIOUS
<1>1. ReleaseIInv'
  BY RtStepsAreCoreSteps, ReleaseIInvNext DEF RtIInv
<1>2. WaitersInv'
  <2>1. CASE \E t \in Threads : WorkerStep(t) \/ TimeOutGC(t)
    BY <2>1, WorkerKeepsWaiters
  <2>2. CASE \E w \in Waiters : WaiterStep(w) \/ Waits(w)
    BY <2>2, WaiterKeepsWaiters
  <2>3. CASE Background
    BY <2>3, FreeingKeepsWaiters, OthersKeepWaiters DEF Background
  <2>4. CASE RtUsers \/ ((ReleaserStirs \/ Gone) /\ UNCHANGED rt) \/ UNCHANGED rtvars
    BY <2>4, OthersKeepWaiters
  <2>5. CASE SyncerStirs
    BY <2>5, FreeingKeepsWaiters
  <2> QED
    BY <2>1, <2>2, <2>3, <2>4, <2>5 DEF RtNext
<1> QED
  BY <1>1, <1>2, GCInvNext DEF RtIInv

LEMMA RtIInvAlways == RtSpec => []RtIInv
BY RtIInvInit, RtIInvNext, PTL DEF RtSpec

\* The waiters and all that is kept for them have their types.
THEOREM RtTypeCorrect == RtSpec => []RtTypeOK
<1>1. RtIInv => RtTypeOK
  BY DEF RtIInv, ReleaseIInv, ThreadsInv, WaitersInv, RtTypeOK
<1> QED
  BY <1>1, RtIInvAlways, PTL

\* cpool_rt_core_dtor asserts that nobody waits in the pool it frees: whoever
\* frees the pool sees the waiters off first.
THEOREM NoWaiterFreedAlways == RtSpec => []NoWaiterFreed
<1>1. RtIInv => NoWaiterFreed
  BY DEF RtIInv, WaitersInv, NobodyInside, NoWaiterFreed
<1> QED
  BY <1>1, RtIInvAlways, PTL

-----------------------------------------------------------------------------
(***************************************************************************)
(* Who waits for the tasks is remembered                                   *)
(***************************************************************************)

\* What NeedKept says of r.
Kept(r) == (\E w \in Waiters : r.wpc[w] = "parked" /\ r.kind[w] \in TaskKinds)
           => r.tsk_need_notify

LEMMA EventKeeps ==
  ASSUME NEW r \in RtType, Kept(r), NEW p
  PROVE  Kept(AskIdle(r, p)) /\ Kept(TryNotify(r, p))
<1>1. ASSUME NEW q, q.wpc = r.wpc, q.kind = r.kind,
             q.tsk_need_notify = r.tsk_need_notify
      PROVE  Kept(q)
  BY <1>1 DEF Kept
<1>2. Kept(AskIdle(r, p))
  <2> DEFINE b == r.event_free_notified /\ Idle(r, p)
  <2>1. AskIdle(r, p) = [r EXCEPT !.event_free_notified = b]
    BY DEF AskIdle
  <2> HIDE DEF b
  <2> QED
    BY <1>1, <2>1 DEF RtType
<1>3. Kept(TryNotify(r, p))
  <2> DEFINE q == [r EXCEPT !.event_free_notified = TRUE]
  <2>1. q \in RtType /\ Kept(q)
    BY <1>1 DEF RtType
  <2>2. Kept(NotifyFree(q))
    <3>1. \A w \in Waiters : NotifyFree(q) # q => NotifyFree(q).wpc[w] # "parked"
      <4>1. NotifyFree(q) # q =>
              NotifyFree(q) = [Broadcast(q) EXCEPT !.tsk_need_notify = FALSE]
        BY DEF NotifyFree
      <4>2. [Broadcast(q) EXCEPT !.tsk_need_notify = FALSE].wpc = Broadcast(q).wpc
        BY <2>1, BroadcastType DEF RtType
      <4> QED
        BY <2>1, <4>1, <4>2, BroadcastType
    <3> QED
      BY <2>1, <3>1 DEF Kept
  <2> QED
    BY <1>2, <2>2 DEF TryNotify
<1> QED
  BY <1>2, <1>3

LEMMA BroadcastKeeps ==
  ASSUME NEW r \in RtType, NEW s, s.wpc = Broadcast(r).wpc
  PROVE  Kept(s)
BY BroadcastType DEF Kept

\* Without stpool_wakeup a waiter that goes to sleep has just said so.
LEMMA LookKeeps ==
  ASSUME NEW r \in RtType, \A v \in Waiters :
            r.wpc[v] = "parked" => (r.kind[v] \in TaskKinds => r.tsk_need_notify),
         NEW p, NEW w \in Waiters, NEW s \in Look(r, p, w), "wakeup" \notin RtCalls
  PROVE  Kept(s)
<1> DEFINE q == IF r.kind[w] \in TaskKinds THEN AskIdle(r, p) ELSE r
<1>1. q \in RtType /\ Kept(q)
  BY EventQuiet, EventKeeps DEF Kept
<1> HIDE DEF q
<1>2. CASE \E l \in {"done", "failed"} : s = [q EXCEPT !.wpc[w] = l]
  BY <1>1, <1>2 DEF RtType, Kept
<1>3. CASE s \in Park(q, w)
  <2> DEFINE n == IF q.kind[w] \in TaskKinds
                  THEN [q EXCEPT !.tsk_need_notify = TRUE]
                  ELSE [q EXCEPT !.ev_need_notify = TRUE]
  <2>1. s = [n EXCEPT !.wpc[w] = "parked"]
    BY <1>3 DEF Park, Interruptible
  <2>2. CASE q.kind[w] \in TaskKinds
    BY <1>1, <2>1, <2>2 DEF RtType, Kept
  <2>3. CASE q.kind[w] \notin TaskKinds
    BY <1>1, <2>1, <2>3 DEF RtType, Kept
  <2> QED
    BY <2>2, <2>3
<1> QED
  BY <1>2, <1>3 DEF Look, q

LEMMA SyncKeeps ==
  ASSUME NEW r \in RtType, Kept(r)
  PROVE  Kept(Sync(r))
BY DEF Sync, Kept, RtType

LEMMA KeptNext ==
  ASSUME "wakeup" \notin RtCalls, rt \in RtType, Kept(rt), [RtNext]_rtvars
  PROVE  Kept(rt')
<1>1. ASSUME NEW t \in Threads, WorkerStep(t) \/ TimeOutGC(t)
      PROVE  Kept(rt')
  <2>told. PICK q : \E x \in Threads \cup {NoSelf} :
            /\ \/ q = [rt EXCEPT !.GC = x]
               \/ q = TryNotify([rt EXCEPT !.GC = x], core)
            /\ rt' = q \/ rt' = TryNotify(q, core')
    BY <1>1, WorkerTells
  <2>1. PICK x \in Threads \cup {NoSelf} :
          /\ \/ q = [rt EXCEPT !.GC = x]
             \/ q = TryNotify([rt EXCEPT !.GC = x], core)
          /\ rt' = q \/ rt' = TryNotify(q, core')
    BY <2>told
  <2> DEFINE g == [rt EXCEPT !.GC = x]
  <2>2. g \in RtType /\ Kept(g) /\ (q = g \/ q = TryNotify(g, core))
    BY <2>1 DEF RtType, Kept
  <2> HIDE DEF g
  <2>3. q \in RtType /\ Kept(q)
    BY <2>2, EventQuiet, EventKeeps
  <2> QED
    BY <2>1, <2>3, EventKeeps
<1>2. ASSUME NEW w \in Waiters, WaiterStep(w) \/ Waits(w)
      PROVE  Kept(rt')
  <2>1. CASE Wait(w)
    <3>1. PICK k \in Kinds :
            rt' \in Look([rt EXCEPT !.kind[w] = k, !.wpc[w] = "woken"], core', w)
      BY <2>1 DEF Wait
    <3> DEFINE r == [rt EXCEPT !.kind[w] = k, !.wpc[w] = "woken"]
    <3>2. r \in RtType /\ Kept(r)
      BY RtAssumption DEF RtType, WaitLocation, Kept
    <3> HIDE DEF r
    <3> QED
      BY <3>1, <3>2, LookKeeps DEF Kept, r
  <2>2. CASE WaiterWakes(w)
    <3>1. rt' \in Look(SyncEnv(rt, w), core, w)
      BY <2>2 DEF WaiterWakes
    <3>2. SyncEnv(rt, w) \in RtType
      BY InterruptQuiet
    <3>3. Kept(SyncEnv(rt, w))
      <4> DEFINE s == [Broadcast(rt) EXCEPT !.ref_sync = 0]
      <4>1. s.wpc = Broadcast(rt).wpc
        BY BroadcastType DEF RtType
      <4>2. Kept(s)
        BY <4>1, BroadcastKeeps
      <4> HIDE DEF s
      <4> QED
        BY <4>2 DEF SyncEnv, s
    <3> QED
      BY <3>1, <3>2, <3>3, LookKeeps DEF Kept
  <2>3. CASE WaiterStirs(w)
    BY <2>3 DEF WaiterStirs, RtType, Kept
  <2>5. CASE Erase(w)
    <3>1. rt' = [rt EXCEPT !.wpc[w] = "out", !.kind[w] = "none", !.intr = @ \ {w}]
      BY <2>5 DEF Erase
    <3>2. \A v \in Waiters : rt'.wpc[v] = "parked" =>
            rt.wpc[v] = "parked" /\ rt'.kind[v] = rt.kind[v]
      BY <3>1 DEF RtType
    <3>3. rt'.tsk_need_notify = rt.tsk_need_notify
      BY <3>1 DEF RtType
    <3> QED
      BY <3>2, <3>3 DEF Kept
  <2>4. ~Invoke(w)
    BY DEF Invoke, Interruptible
  <2> QED
    BY <1>2, <2>1, <2>2, <2>3, <2>4, <2>5 DEF WaiterStep, Waits
<1>3. CASE Background \/ SyncerStirs
  <2>1. CASE Shutdown
    <3>1. rt' = Sync(Broadcast(rt))
      BY <2>1 DEF Shutdown
    <3> QED
      BY <3>1, BroadcastType, BroadcastKeeps, SyncKeeps
  <2>2. CASE SyncerWakes
    <3> DEFINE r == [rt EXCEPT !.ref_sync = @ - 1]
    <3>1. rt' = Sync(r) /\ r \in RtType /\ Kept(r)
      BY <2>2 DEF SyncerWakes, RtType, Kept
    <3> QED
      BY <3>1, SyncKeeps
  <2>3. CASE RemoveTriesWakeup
    <3> DEFINE r == AskIdle(rt, core)
    <3>1. rt' = [r EXCEPT !.checking = FALSE] /\ r \in RtType /\ Kept(r)
      BY <2>3, EventQuiet, EventKeeps DEF RemoveTriesWakeup
    <3> HIDE DEF r
    <3> QED
      BY <3>1 DEF RtType, Kept
  <2>4. CASE RemoveDispatches \/ RemoveCounts \/ SyncerStirs
    BY <2>4 DEF RemoveDispatches, RemoveCounts, SyncerStirs, RtType, Kept
  <2>5. CASE DestroyAfterSync \/ UNCHANGED rt
    BY <2>5 DEF DestroyAfterSync
  <2> QED
    BY <1>3, <2>1, <2>2, <2>3, <2>4, <2>5 DEF Background
<1>4. CASE RtUsers
  <2>1. CASE ReleaseNotifies
    <3>1. rt' = rt \/ rt' = Broadcast(rt)
      BY <2>1 DEF ReleaseNotifies
    <3> QED
      BY <3>1, BroadcastKeeps
  <2>2. CASE ThrottleCtl
    <3>1. PICK on \in BOOLEAN :
            LET r == [rt EXCEPT !.throttle_on = on]
            IN  rt' = IF ~on /\ r.ev_need_notify
                      THEN [Broadcast(r) EXCEPT !.ev_need_notify = FALSE] ELSE r
      BY <2>2 DEF ThrottleCtl
    <3> DEFINE r == [rt EXCEPT !.throttle_on = on]
               s == [Broadcast(r) EXCEPT !.ev_need_notify = FALSE]
    <3>2. r \in RtType /\ Kept(r)
      BY DEF RtType, Kept
    <3>3. rt' = r \/ rt' = s
      BY <3>1
    <3> HIDE DEF r
    <3>4. s.wpc = Broadcast(r).wpc
      BY <3>2, BroadcastType DEF RtType
    <3>5. Kept(s)
      BY <3>2, <3>4, BroadcastKeeps
    <3> QED
      BY <3>2, <3>3, <3>5
  <2>3. CASE \/ Accepted \/ RemoveStarts
             \/ (Resume \/ Flush \/ Adjust \/ AddRef) /\ UNCHANGED rt
    BY <2>3 DEF Accepted, RemoveStarts
  <2> QED
    BY <1>4, <2>1, <2>2, <2>3 DEF RtUsers
<1>5. CASE ((ReleaserStirs \/ Gone) /\ UNCHANGED rt) \/ UNCHANGED rtvars
  BY <1>5 DEF rtvars
<1> QED
  BY <1>1, <1>2, <1>3, <1>4, <1>5 DEF RtNext

\* The flag tsk_need_notify, which one of the waiters may clear and the event
\* does clear, is set as long as anybody sleeps until the tasks are done.
THEOREM NeedKeptAlways ==
  ASSUME "wakeup" \notin RtCalls
  PROVE  RtSpec => []NeedKept
<1>1. RtInit => Kept(rt)
  BY DEF RtInit, Kept
<1>2. RtIInv /\ Kept(rt) /\ [RtNext]_rtvars => Kept(rt)'
  BY KeptNext DEF RtIInv, WaitersInv
<1>3. Kept(rt) <=> NeedKept
  BY DEF Kept, NeedKept
<1> QED
  BY <1>1, <1>2, <1>3, RtIInvAlways, PTL DEF RtSpec

-----------------------------------------------------------------------------
(***************************************************************************)
(* Nobody is told too early                                                *)
(***************************************************************************)

\* Raising the event, asking for it and interrupting wake waiters at most, and
\* change nothing else of what they wait for.
Wakes(r, s) ==
    /\ s.wpc \in {r.wpc, Broadcast(r).wpc} /\ s.kind = r.kind
    /\ s.uncounted = r.uncounted /\ s.throttle_on = r.throttle_on
    /\ s.GC = r.GC

LEMMA WakesNobodyDone ==
  ASSUME NEW r \in RtType, NEW s, s.wpc \in {r.wpc, Broadcast(r).wpc},
         NEW w \in Waiters
  PROVE  s.wpc[w] = "done" <=> r.wpc[w] = "done"
BY DEF Broadcast, RtType

LEMMA EventWakes ==
  ASSUME NEW r \in RtType, NEW p
  PROVE  Wakes(r, AskIdle(r, p)) /\ Wakes(r, TryNotify(r, p))
<1>1. Wakes(r, AskIdle(r, p))
  <2> DEFINE b == r.event_free_notified /\ Idle(r, p)
  <2>1. AskIdle(r, p) = [r EXCEPT !.event_free_notified = b]
    BY DEF AskIdle
  <2> HIDE DEF b
  <2> QED
    BY <2>1 DEF Wakes, RtType
<1>2. Wakes(r, TryNotify(r, p))
  <2> DEFINE q == [r EXCEPT !.event_free_notified = TRUE]
  <2>1. q \in RtType /\ Wakes(r, q) /\ Broadcast(q).wpc = Broadcast(r).wpc
    BY DEF RtType, Wakes, Broadcast
  <2> HIDE DEF q
  <2>2. Wakes(q, NotifyFree(q))
    <3> DEFINE b == Broadcast(q)
    <3>1. /\ b \in RtType /\ b.wpc = Broadcast(q).wpc /\ b.kind = q.kind
          /\ b.uncounted = q.uncounted /\ b.throttle_on = q.throttle_on
          /\ b.GC = q.GC
      BY <2>1, BroadcastType DEF Broadcast, RtType
    <3>2. NotifyFree(q) = q \/ NotifyFree(q) = [b EXCEPT !.tsk_need_notify = FALSE]
      BY DEF NotifyFree
    <3> HIDE DEF b
    <3> QED
      BY <3>1, <3>2 DEF Wakes, RtType
  <2>3. Wakes(r, NotifyFree(q))
    BY <2>1, <2>2 DEF Wakes
  <2> QED
    BY <1>1, <2>3 DEF TryNotify, q
<1> QED
  BY <1>1, <1>2

LEMMA InterruptWakes ==
  ASSUME NEW r \in RtType, NEW w \in Waiters
  PROVE  Wakes(r, Interrupted(r, w)) /\ Wakes(r, SyncEnv(r, w))
<1> DEFINE b == Broadcast(r)
<1>1. /\ b \in RtType /\ b.wpc = Broadcast(r).wpc /\ b.kind = r.kind
      /\ b.uncounted = r.uncounted /\ b.throttle_on = r.throttle_on
      /\ b.GC = r.GC
  BY BroadcastType DEF Broadcast, RtType
<1>2. \/ Interrupted(r, w) = [r EXCEPT !.crashed = TRUE]
      \/ Interrupted(r, w) = [b EXCEPT !.intr = b.intr \cup {w}, !.tsk_need_notify = FALSE]
  BY DEF Interrupted
<1>3. SyncEnv(r, w) = r \/ SyncEnv(r, w) = [b EXCEPT !.ref_sync = 0]
  BY DEF SyncEnv
<1> HIDE DEF b
<1> DEFINE i == b.intr \cup {w}
<1> HIDE DEF i
<1>4. Wakes(r, [b EXCEPT !.intr = i, !.tsk_need_notify = FALSE])
  BY <1>1 DEF Wakes, RtType
<1>5. Wakes(r, Interrupted(r, w))
  BY <1>2, <1>4 DEF Wakes, RtType, i
<1> QED
  BY <1>1, <1>3, <1>5 DEF Wakes, RtType

\* In a pass through its loop only w may come to the end of its call, and it has
\* found what it waits for.
LEMMA LookFinds ==
  ASSUME NEW r \in RtType, NEW p, NEW w \in Waiters, NEW s \in Look(r, p, w),
         NEW v \in Waiters, s.wpc[v] = "done", r.wpc[v] # "done"
  PROVE  v = w /\ s.kind = r.kind /\ Over(r, p, w)
<1> DEFINE q == IF r.kind[w] \in TaskKinds THEN AskIdle(r, p) ELSE r
<1>1. q \in RtType /\ Wakes(r, q)
  BY EventQuiet, EventWakes DEF Wakes
<1> HIDE DEF q
<1>2. q.wpc[v] # "done"
  BY <1>1, WakesNobodyDone DEF Wakes
<1>3. CASE Over(q, p, w) /\ s = [q EXCEPT !.wpc[w] = "done"]
  <2>1. v = w /\ s.kind = r.kind
    BY <1>1, <1>2, <1>3 DEF RtType, Wakes
  <2>2. Over(r, p, w)
    BY <1>1, <1>3 DEF Over, Wakes, HeldByDispatcher, Idle, AwakeGC
  <2> QED
    BY <2>1, <2>2
<1>4. s # [q EXCEPT !.wpc[w] = "failed"]
  BY <1>1, <1>2 DEF RtType
<1>5. s \notin Park(q, w)
  <2> SUFFICES ASSUME s \in Park(q, w)
               PROVE  FALSE
    OBVIOUS
  <2> DEFINE n == IF q.kind[w] \in TaskKinds
                  THEN [q EXCEPT !.tsk_need_notify = TRUE]
                  ELSE [q EXCEPT !.ev_need_notify = TRUE]
  <2>1. n \in RtType /\ n.wpc = q.wpc
    BY <1>1 DEF RtType
  <2>2. Interruptible(n) \subseteq Waiters
    BY DEF Interruptible
  <2>3. PICK m : /\ m = n \/ \E u \in Interruptible(n) : m = Interrupted(n, u)
                 /\ s = [m EXCEPT !.wpc[w] = "parked"]
    BY DEF Park
  <2> HIDE DEF n
  <2>4. m \in RtType /\ m.wpc \in {n.wpc, Broadcast(n).wpc}
    BY <2>1, <2>2, <2>3, InterruptQuiet, InterruptWakes DEF Wakes
  <2>5. m.wpc[v] # "done"
    BY <1>2, <2>1, <2>4, WakesNobodyDone
  <2> QED
    BY <2>3, <2>4, <2>5 DEF RtType
<1> QED
  BY <1>3, <1>4, <1>5 DEF Look, q

\* Besides, nobody's call comes to its end.
LEMMA OthersTellNobody ==
  ASSUME rt \in RtType, [RtNext]_rtvars,
         ~ \E w \in Waiters : Wait(w) \/ WaiterWakes(w),
         NEW v \in Waiters, rt'.wpc[v] = "done"
  PROVE  rt.wpc[v] = "done"
<1>1. ASSUME rt'.wpc = rt.wpc
      PROVE  rt.wpc[v] = "done"
  BY <1>1
<1>2. ASSUME rt'.wpc \in {rt.wpc, Broadcast(rt).wpc}
      PROVE  rt.wpc[v] = "done"
  BY <1>2, WakesNobodyDone
<1>3. ASSUME NEW t \in Threads, WorkerStep(t) \/ TimeOutGC(t)
      PROVE  rt.wpc[v] = "done"
  <2>told. PICK q : \E x \in Threads \cup {NoSelf} :
            /\ \/ q = [rt EXCEPT !.GC = x]
               \/ q = TryNotify([rt EXCEPT !.GC = x], core)
            /\ rt' = q \/ rt' = TryNotify(q, core')
    BY <1>3, WorkerTells
  <2>1. PICK x \in Threads \cup {NoSelf} :
          /\ \/ q = [rt EXCEPT !.GC = x]
             \/ q = TryNotify([rt EXCEPT !.GC = x], core)
          /\ rt' = q \/ rt' = TryNotify(q, core')
    BY <2>told
  <2> DEFINE g == [rt EXCEPT !.GC = x]
  <2>2. g \in RtType /\ g.wpc = rt.wpc /\ (q = g \/ q = TryNotify(g, core))
    BY <2>1 DEF RtType
  <2> HIDE DEF g
  <2>3. q \in RtType /\ (q.wpc[v] = "done" <=> g.wpc[v] = "done")
    BY <2>2, EventQuiet, EventWakes, WakesNobodyDone DEF Wakes
  <2>4. rt'.wpc[v] = "done" <=> q.wpc[v] = "done"
    BY <2>1, <2>3, EventWakes, WakesNobodyDone DEF Wakes
  <2> QED
    BY <2>2, <2>3, <2>4
<1>4. ASSUME NEW w \in Waiters, WaiterStirs(w) \/ Erase(w) \/ Invoke(w)
      PROVE  rt.wpc[v] = "done"
  <2>1. CASE Invoke(w)
    BY <1>2, <2>1, InterruptWakes DEF Invoke, Wakes
  <2>2. CASE WaiterStirs(w)
    BY <2>2 DEF WaiterStirs, RtType
  <2>3. CASE Erase(w)
    BY <2>3 DEF Erase, RtType
  <2> QED
    BY <1>4, <2>1, <2>2, <2>3
<1>5. CASE Background \/ SyncerStirs
  <2>1. CASE Shutdown
    BY <1>2, <2>1, BroadcastType, SyncWaits DEF Shutdown
  <2>2. CASE SyncerWakes
    <3> DEFINE r == [rt EXCEPT !.ref_sync = @ - 1]
    <3>1. rt' = Sync(r) /\ r \in RtType /\ r.wpc = rt.wpc
      BY <2>2 DEF SyncerWakes, RtType
    <3> QED
      BY <1>1, <3>1, SyncWaits
  <2>3. CASE RemoveTriesWakeup
    <3> DEFINE r == AskIdle(rt, core)
    <3>1. rt' = [r EXCEPT !.checking = FALSE] /\ r \in RtType /\ Wakes(rt, r)
      BY <2>3, EventQuiet, EventWakes DEF RemoveTriesWakeup
    <3> HIDE DEF r
    <3> QED
      BY <1>2, <3>1 DEF RtType, Wakes
  <2>4. CASE RemoveDispatches \/ RemoveCounts \/ SyncerStirs
    BY <1>1, <2>4 DEF RemoveDispatches, RemoveCounts, SyncerStirs, RtType
  <2>5. CASE DestroyAfterSync \/ UNCHANGED rt
    BY <1>1, <2>5 DEF DestroyAfterSync
  <2> QED
    BY <1>5, <2>1, <2>2, <2>3, <2>4, <2>5 DEF Background
<1>6. CASE RtUsers
  <2>1. CASE ReleaseNotifies
    BY <1>2, <2>1 DEF ReleaseNotifies
  <2>2. CASE ThrottleCtl
    <3>1. PICK on \in BOOLEAN :
            LET r == [rt EXCEPT !.throttle_on = on]
            IN  rt' = IF ~on /\ r.ev_need_notify
                      THEN [Broadcast(r) EXCEPT !.ev_need_notify = FALSE] ELSE r
      BY <2>2 DEF ThrottleCtl
    <3> DEFINE r == [rt EXCEPT !.throttle_on = on]
    <3>2. r \in RtType /\ r.wpc = rt.wpc /\ Broadcast(r).wpc = Broadcast(rt).wpc
      BY DEF RtType, Broadcast
    <3>3. rt' = r \/ rt' = [Broadcast(r) EXCEPT !.ev_need_notify = FALSE]
      BY <3>1
    <3> HIDE DEF r
    <3>4. [Broadcast(r) EXCEPT !.ev_need_notify = FALSE].wpc = Broadcast(r).wpc
      BY <3>2, BroadcastType DEF RtType
    <3> QED
      BY <1>2, <3>2, <3>3, <3>4
  <2>3. CASE \/ Accepted \/ RemoveStarts
             \/ (Resume \/ Flush \/ Adjust \/ AddRef) /\ UNCHANGED rt
    BY <1>1, <2>3 DEF Accepted, RemoveStarts
  <2> QED
    BY <1>6, <2>1, <2>2, <2>3 DEF RtUsers
<1>7. CASE ((ReleaserStirs \/ Gone) /\ UNCHANGED rt) \/ UNCHANGED rtvars
  BY <1>1, <1>7 DEF rtvars
<1> QED
  BY <1>3, <1>4, <1>5, <1>6, <1>7 DEF RtNext, Waits, WaiterStep

\* Whoever returns from suspend or wait_all has just seen an idle pool.
LEMMA WhoReturnsSaw ==
  ASSUME rt \in RtType, core \in CoreType, held \in Nat, [RtNext]_rtvars,
         NEW w \in Waiters, NEW k \in TaskKinds, Returns(w, k)
  PROVE  /\ Idle(rt, core) \/ Idle(rt, [core EXCEPT !.paused = TRUE])
         /\ LeavesGCInTime => ~GCLate
         /\ held = 0 /\ core.n_qdispatchs = 0
         /\ k = "wait_all" => core.npendings = 0
<1>1. PICK v \in Waiters : Wait(v) \/ WaiterWakes(v)
  BY OthersTellNobody DEF Returns
<1>2. PICK r, p : /\ r \in RtType /\ r.uncounted \in Nat /\ r.wpc[w] # "done"
                  /\ r.GC = rt.GC
                  /\ p = core \/ p = [core EXCEPT !.paused = TRUE]
                  /\ rt' \in Look(r, p, v)
  <2>1. CASE Wait(v)
    <3>1. PICK j \in Kinds :
            /\ core' = IF j = "suspend" THEN [core EXCEPT !.paused = TRUE] ELSE core
            /\ rt' \in Look([rt EXCEPT !.kind[v] = j, !.wpc[v] = "woken"], core', v)
      BY <2>1 DEF Wait
    <3> DEFINE r == [rt EXCEPT !.kind[v] = j, !.wpc[v] = "woken"]
    <3>2. r \in RtType /\ r.uncounted \in Nat /\ r.wpc[w] # "done" /\ r.GC = rt.GC
      BY RtAssumption DEF RtType, WaitLocation, Returns
    <3> QED
      BY <3>1, <3>2
  <2>2. CASE WaiterWakes(v)
    <3> DEFINE r == SyncEnv(rt, v)
    <3>1. rt' \in Look(r, core, v) /\ rt.wpc[w] # "done"
      BY <2>2 DEF WaiterWakes, Returns
    <3>2. r \in RtType /\ Wakes(rt, r)
      BY InterruptQuiet, InterruptWakes
    <3> HIDE DEF r
    <3>3. r.wpc[w] # "done"
      BY <3>1, <3>2, WakesNobodyDone DEF Wakes
    <3>4. r.uncounted \in Nat /\ r.GC = rt.GC
      BY <3>2 DEF RtType, Wakes
    <3> QED
      BY <3>1, <3>2, <3>3, <3>4
  <2> QED
    BY <1>1, <2>1, <2>2
<1>3. w = v /\ rt'.kind = r.kind /\ Over(r, p, v)
  BY <1>2, LookFinds DEF Returns
<1>4. /\ Idle(r, p) /\ HeldByDispatcher(r) = 0
      /\ k = "wait_all" => p.npendings = 0
  BY <1>3 DEF Over, Returns, TaskKinds
<1>5. p.n_qdispatchs = core.n_qdispatchs /\ p.npendings = core.npendings
  BY <1>2 DEF CoreType
<1>6. held = 0
  BY <1>2, <1>4 DEF HeldByDispatcher
<1>7. core.n_qdispatchs = 0
  BY <1>4, <1>5 DEF Idle
<1>8. Idle(rt, p)
  BY <1>2, <1>4 DEF Idle, AwakeGC
<1>9. LeavesGCInTime => ~GCLate
  BY <1>1 DEF Wait, WaiterWakes
<1> QED
  BY <1>2, <1>4, <1>5, <1>6, <1>7, <1>8, <1>9

\* What an idle pool looks like: in one of a fixed size all threads sleep, but
\* for the GC thread, which has nothing in hand; in another none runs anything,
\* but one may be about to put a task back.
LEMMA IdleRunsNothing ==
  ASSUME ReleaseIInv, ServiceInv, core.running = Cardinality(Busy),
         rt \in RtType, GCInv, Dynamic \/ ~GCLate,
         Idle(rt, core) \/ Idle(rt, [core EXCEPT !.paused = TRUE]), NEW t \in Threads
  PROVE  /\ pc[t] \notin {"create", "exec", "lost"}
         /\ pc[t] = "requeue" => Dynamic /\ batch[t] = 0
<1>1. core \in CoreType /\ core.ths \in SUBSET Threads /\ Asleep \in SUBSET Threads
  BY DEF ReleaseIInv, ThreadsInv, TypeOK, CoreType, Asleep
<1>2. IF Dynamic THEN core.running = 0
      ELSE core.n_qths = core.n_qths_wait + core.n_qths_waked + AwakeGC(rt, core)
  <2>1. AwakeGC(rt, [core EXCEPT !.paused = TRUE]) = AwakeGC(rt, core)
    BY <1>1 DEF AwakeGC, CoreType
  <2> QED
    BY <1>1, <2>1 DEF Idle, CoreType
<1>3. StatusFits(t) /\ Counted(core, Asleep)
  BY DEF ServiceInv
<1>4. CASE Dynamic
  <2>1. core.running = Cardinality(Busy) /\ Busy \subseteq Threads
    BY <1>1 DEF Busy
  <2>2. Busy = {}
    BY <1>2, <1>4, <2>1, SizeOfThreads, FS_EmptySet
  <2>3. core.stat[t] # "RUN"
    BY <1>3, <2>2 DEF Counted, Outside, Busy
  <2>4. batch[t] \in Nat
    BY DEF ReleaseIInv, ThreadsInv, TypeOK
  <2> QED
    BY <1>3, <1>4, <2>3, <2>4 DEF StatusFits
<1>5. CASE ~Dynamic
  <2>1. /\ Asleep \subseteq core.ths /\ core.n_qths = Cardinality(core.ths)
        /\ core.n_qths_wait = Cardinality(Asleep \ core.waked)
        /\ core.n_qths_waked = Cardinality(Asleep \cap core.waked)
    BY <1>3 DEF Counted, Lists
  <2>2. Cardinality(Asleep \ core.waked)
          = Cardinality(Asleep) - Cardinality(Asleep \cap core.waked)
    BY <1>1, SizeOfThreads, FS_Difference
  <2>3. Cardinality(core.ths) = Cardinality(Asleep) + AwakeGC(rt, core)
    <3>1. AwakeGC(rt, core) \in {0, 1}
      BY DEF AwakeGC
    <3> QED
      BY <1>1, <1>2, <1>5, <2>1, <2>2, <3>1, SizeOfThreads
  <2>4. CASE AwakeGC(rt, core) = 0
    <3>1. core.ths = Asleep
      BY <1>1, <2>1, <2>3, <2>4, SizeOfThreads, FS_Subset
    <3>2. pc[t] # "entry" => pc[t] = "asleep"
      BY <1>3, <3>1, InThePool DEF ReleaseIInv, Asleep, StatusFits
    <3> QED
      BY <3>2
  <2>5. CASE AwakeGC(rt, core) # 0
    <3>1. /\ AwakeGC(rt, core) = 1 /\ rt.GC \in Threads
          /\ core.stat[rt.GC] # "WAIT"
      BY <2>5 DEF AwakeGC, RtType
    <3>2. pc[rt.GC] \in {"gettask", "asleep", "test", "leave"}
      BY <1>5, <3>1 DEF GCInv, GCLate, AwakeGC
    <3>3. rt.GC \in core.ths \ Asleep
      BY <3>1, <3>2, InThePool DEF ReleaseIInv, Asleep
    <3>4. core.ths = Asleep \cup {rt.GC}
      <4>1. /\ IsFiniteSet(Asleep) /\ Cardinality(Asleep) \in Nat
            /\ Cardinality(Asleep \cup {rt.GC}) = Cardinality(Asleep) + 1
        BY <1>1, <3>3, SizeOfThreads, FS_AddElement
      <4>2. Asleep \cup {rt.GC} \subseteq core.ths
        BY <2>1, <3>3
      <4> QED
        BY <1>1, <2>3, <3>1, <4>1, <4>2, SizeOfThreads, FS_Subset
    <3>5. pc[t] \notin {"entry", "asleep"} => t = rt.GC
      BY <1>3, <3>4, InThePool DEF ReleaseIInv, Asleep, StatusFits
    <3> QED
      BY <3>2, <3>5
  <2> QED
    BY <2>4, <2>5
<1> QED
  BY <1>4, <1>5

\* stpool_suspend returns 0 only when no task and no error handler is being run
\* or on its way to a thread, whoever else waits, times out or is interrupted,
\* whatever tasks run again, and however the pool is resized; in a pool of a
\* fixed size, if the GC thread gives the GC up in time.
THEOREM SuspendWaitsAlways ==
  ASSUME Dynamic \/ LeavesGCInTime
  PROVE  RtSpec => SuspendWaits
<1> DEFINE Late == \A w \in Waiters : Returns(w, "suspend") =>
                     /\ core.n_qdispatchs = 0 /\ held = 0
                     /\ \A t \in Threads : pc[t] \notin {"create", "exec", "lost"}
<1>1. /\ RtIInv /\ ReleaseIInv /\ ServiceInv /\ core.running = Cardinality(Busy)
      /\ [RtNext]_rtvars
      => [Late]_rtvars
  <2> SUFFICES ASSUME RtIInv, ServiceInv, core.running = Cardinality(Busy),
                      [RtNext]_rtvars, NEW w \in Waiters, Returns(w, "suspend")
               PROVE  /\ core.n_qdispatchs = 0 /\ held = 0
                      /\ \A t \in Threads : pc[t] \notin {"create", "exec", "lost"}
    OBVIOUS
  <2>1. /\ rt \in RtType /\ core \in CoreType /\ held \in Nat /\ ReleaseIInv /\ GCInv
    BY DEF RtIInv, WaitersInv, ReleaseIInv, ThreadsInv, TypeOK
  <2>2. /\ Idle(rt, core) \/ Idle(rt, [core EXCEPT !.paused = TRUE])
        /\ Dynamic \/ ~GCLate
        /\ held = 0 /\ core.n_qdispatchs = 0
    BY <2>1, WhoReturnsSaw DEF TaskKinds
  <2> QED
    BY <2>1, <2>2, IdleRunsNothing
<1>2. RtSpec => [](ReleaseIInv /\ ServiceInv /\ core.running = Cardinality(Busy))
  BY RtImplementsCore, ServiceInvAlways, RunningAlways, PTL
<1>3. RtSpec => [][Late]_rtvars
  BY <1>1, <1>2, RtIInvAlways, PTL DEF RtSpec
<1> QED
  BY <1>3 DEF SuspendWaits

\* stpool_wait_all returns 0 only when every task that was in the pool is done
\* with, if in a dynamic pool no task asks to run again (RtAgain.cfg) and in one
\* of a fixed size the GC thread gives the GC up in time.
THEOREM WaitAllWaitsAlways ==
  ASSUME IF Dynamic THEN "again" \notin Calls ELSE LeavesGCInTime
  PROVE  RtSpec => WaitAllWaits
<1> DEFINE Late == \A w \in Waiters : Returns(w, "wait_all") =>
                     /\ core.npendings = 0 /\ core.n_qdispatchs = 0
                     /\ held = 0 /\ Unfinished = 0
<1>1. /\ RtIInv /\ ReleaseIInv /\ ServiceInv
      /\ core.running = Cardinality(Busy)
      /\ (~Dynamic \/ \A t \in Threads : pc[t] # "requeue")
      /\ [RtNext]_rtvars
      => [Late]_rtvars
  <2> SUFFICES ASSUME RtIInv, ServiceInv, core.running = Cardinality(Busy), [RtNext]_rtvars,
                      ~Dynamic \/ \A t \in Threads : pc[t] # "requeue",
                      NEW w \in Waiters, Returns(w, "wait_all")
               PROVE  /\ core.npendings = 0 /\ core.n_qdispatchs = 0
                      /\ held = 0 /\ Unfinished = 0
    OBVIOUS
  <2>1. /\ rt \in RtType /\ core \in CoreType /\ held \in Nat /\ ReleaseIInv /\ GCInv
    BY DEF RtIInv, WaitersInv, ReleaseIInv, ThreadsInv, TypeOK
  <2>2. /\ Idle(rt, core) \/ Idle(rt, [core EXCEPT !.paused = TRUE])
        /\ Dynamic \/ ~GCLate
        /\ held = 0 /\ core.n_qdispatchs = 0 /\ core.npendings = 0
    BY <2>1, WhoReturnsSaw DEF TaskKinds
  <2>3. \A t \in Threads : pc[t] \notin {"create", "exec", "lost", "requeue"}
    BY <2>1, <2>2, IdleRunsNothing
  <2>4. InHand \in [Threads -> Nat] /\ \A t \in Threads : InHand[t] = 0
    BY <2>1, <2>3, PhaseIs DEF InHand
  <2>5. Unfinished = 0
    BY <2>4, TotalNothing DEF Unfinished
  <2> QED
    BY <2>2, <2>5
<1>2. RtSpec => [](~Dynamic \/ \A t \in Threads : pc[t] # "requeue")
  <2>1. CASE ~Dynamic
    BY <2>1, PTL
  <2>2. CASE "again" \notin Calls
    <3>1. Spec => []Swept
      BY <2>2, SweptAlways
    <3>2. Swept => \A t \in Threads : pc[t] # "requeue"
      BY DEF Swept
    <3> QED
      BY <3>1, <3>2, RtImplementsCore, PTL
  <2> QED
    BY <2>1, <2>2
<1>3. RtSpec => [](ReleaseIInv /\ ServiceInv /\ core.running = Cardinality(Busy))
  BY RtImplementsCore, ServiceInvAlways, RunningAlways, PTL
<1>4. RtSpec => [][Late]_rtvars
  BY <1>1, <1>2, <1>3, RtIInvAlways, PTL DEF RtSpec
<1> QED
  BY <1>4 DEF WaitAllWaits
=============================================================================
