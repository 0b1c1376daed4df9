------------------------------- MODULE CpoolRt -------------------------------
(***************************************************************************)
(* The calls of the routine pool (src/pool/rt) in which users wait:        *)
(* suspend, wait_all and throttle_wait, composed with CpoolCore.  They     *)
(* wait for the event eEvent_F_free, which a thread raises when it goes to *)
(* sleep or leaves and finds the pool idle, for the throttle to be turned  *)
(* off, or for stpool_wakeup (src/pool/cpool_wait.c); and the pool is not  *)
(* freed before they are out.                                              *)
(*                                                                         *)
(* cond_task, cond_event and cond_sync are one condition variable,         *)
(* cond_com, so that every broadcast wakes all that wait.                  *)
(*                                                                         *)
(* A step of CpoolCore and what it does to the waiters are one critical    *)
(* section.  stpool_wakeup changes rt without core->mut: it may come       *)
(* between a waiter's last look at b_interrupted and its wait.  So does    *)
(* the GC thread when it has taken a task and gives the GC up.             *)
(***************************************************************************)
EXTENDS CpoolCore

CONSTANTS
    Waiters,    \* threads of the users that call the functions that wait
    Timed,      \* those among them that pass a finite timeout
    Kinds,      \* the functions they call, a subset of AllKinds
    RtCalls,    \* further calls of the users, a subset of AllRtCalls
    LeavesGCInTime  \* does the GC thread that takes a task give the GC up before
                    \* a waiter looks ?  (The code does not see to it.)

AllKinds == {"suspend", "wait_all", "throttle_wait"}
AllRtCalls == {"throttle_ctl", "wakeup"}

ASSUME RtAssumption ==
    /\ IsFiniteSet(Waiters) /\ Timed \subseteq Waiters
    /\ Kinds \subseteq AllKinds /\ RtCalls \subseteq AllRtCalls
    /\ "suspend" \in Kinds => "suspend" \in Calls
    /\ LeavesGCInTime \in BOOLEAN

VARIABLE rt

rtvars == <<vars, rt>>

\* out         not in a call that waits
\* parked      in OSPX_pthread_cond_timedwait
\* woken       the wait is over, the lock not yet taken
\* done        returns 0, its request still registered with WWAKE
\* failed      returns an error, its request still registered
WaitLocation == {"out", "parked", "woken", "done", "failed"}

\* event_free_notified, tsk_need_notify, ev_need_notify, throttle_on, ref_sync
\* as in the code; intr: requests with b_interrupted.  uncounted: tasks a
\* remover handed over or dropped but has not taken off
\* tsks_held_by_dispatcher; checking: it is about to look whether the pool
\* is idle.  syncer: who frees the pool, in the handler of eEvent_F_shutdown.
\* crashed: stpool_wakeup followed a wrong pointer.  GC: core->GC, the thread
\* that does the GC, which also has THREAD_STAT_GC among its flags.
RtType ==
    [ wpc : [Waiters -> WaitLocation], kind : [Waiters -> AllKinds \cup {"none"}],
      intr : SUBSET Waiters,
      event_free_notified : BOOLEAN, tsk_need_notify : BOOLEAN,
      ev_need_notify : BOOLEAN, throttle_on : BOOLEAN, ref_sync : Int,
      uncounted : Nat, checking : BOOLEAN,
      syncer : {"no", "waiting", "woken", "done"}, crashed : BOOLEAN,
      GC : Threads \cup {NoSelf} ]

RtTypeOK == TypeOK /\ rt \in RtType

RtInit ==
    /\ Init
    /\ rt = [ wpc |-> [w \in Waiters |-> "out"],
              kind |-> [w \in Waiters |-> "none"],
              intr |-> {},
              event_free_notified |-> FALSE, tsk_need_notify |-> FALSE,
              ev_need_notify |-> FALSE, throttle_on |-> FALSE, ref_sync |-> 0,
              uncounted |-> 0, checking |-> FALSE,
              syncer |-> "no", crashed |-> FALSE, GC |-> NoSelf ]

-----------------------------------------------------------------------------
(***************************************************************************)
(* Waiting and waking                                                      *)
(***************************************************************************)

TaskKinds == {"suspend", "wait_all"}

Inside(r, K) ==
    {w \in Waiters : r.wpc[w] \in {"parked", "woken"} /\ r.kind[w] \in K}

tsk_wref(r) == Cardinality(Inside(r, TaskKinds))
ev_wref(r) == Cardinality(Inside(r, {"throttle_wait"}))

\* tsks_held_by_dispatcher
HeldByDispatcher(r) == held + r.uncounted

\* OSPX_pthread_cond_broadcast(&rtp->cond_com)
Broadcast(r) ==
    [r EXCEPT !.wpc = [w \in Waiters |-> IF @[w] = "parked" THEN "woken"
                                         ELSE @[w]],
              !.syncer = IF @ = "waiting" THEN "woken" ELSE @]

\* The GC thread, awake since a signal ended its last sleep (b_waked), counts
\* as one that sleeps.
AwakeGC(r, p) ==
    IF r.GC # NoSelf /\ r.GC \in p.waked /\ p.stat[r.GC] # "WAIT" THEN 1 ELSE 0

\* Fault: the error handlers that still have to be run are forgotten.
FaultyIdle(r, p) ==
    /\ p.paused \/ p.npendings = 0
    /\ IF Dynamic THEN p.running = 0
       ELSE p.n_qths = p.n_qths_wait + p.n_qths_waked + AwakeGC(r, p)

\* What cpool_core_all_donel returns ...
Idle(r, p) ==
    /\ p.paused \/ p.npendings = 0
    /\ p.n_qdispatchs = 0
    /\ IF Dynamic THEN p.running = 0
       ELSE p.n_qths = p.n_qths_wait + p.n_qths_waked + AwakeGC(r, p)

\* ... and what it does besides.
AskIdle(r, p) == [r EXCEPT !.event_free_notified = @ /\ Idle(r, p)]

\* The handler of eEvent_F_free.
NotifyFree(r) ==
    IF r.tsk_need_notify /\ HeldByDispatcher(r) = 0
    THEN [Broadcast(r) EXCEPT !.tsk_need_notify = FALSE]
    ELSE r

\* cpool_core_event_free_try_notifyl
TryNotify(r, p) ==
    IF Idle(r, p) /\ ~r.event_free_notified
    THEN NotifyFree([r EXCEPT !.event_free_notified = TRUE])
    ELSE AskIdle(r, p)

\* cpool_rt_wakeup_task_wait.  cpool_rt_wakeup_throttle_wait takes the routine
\* pool for the core and its counter ev_need_notify for the routine pool.
Interrupted(r, w) ==
    IF r.kind[w] = "throttle_wait" THEN [r EXCEPT !.crashed = TRUE]
    ELSE [Broadcast(r) EXCEPT !.intr = @ \cup {w}, !.tsk_need_notify = FALSE]

Interruptible(r) ==
    IF "wakeup" \in RtCalls
    THEN {w \in Waiters : r.wpc[w] # "out" /\ w \notin r.intr} ELSE {}

\* Fault: tasks and error handlers that are being run are not waited for.
FaultyOver(r, p, w) ==
    CASE r.kind[w] = "suspend" -> HeldByDispatcher(r) = 0
      [] r.kind[w] = "wait_all" -> p.npendings = 0 /\ HeldByDispatcher(r) = 0
      [] r.kind[w] = "throttle_wait" -> ~r.throttle_on
      [] OTHER -> FALSE

\* What w waits for.
Over(r, p, w) ==
    CASE r.kind[w] = "suspend" -> Idle(r, p) /\ HeldByDispatcher(r) = 0
      [] r.kind[w] = "wait_all" ->
           Idle(r, p) /\ p.npendings = 0 /\ HeldByDispatcher(r) = 0
      [] r.kind[w] = "throttle_wait" -> ~r.throttle_on
      [] OTHER -> FALSE

\* w waits: at once, or stpool_wakeup(v) comes first, which w misses.
Park(r, w) ==
    LET q == IF r.kind[w] \in TaskKinds
             THEN [r EXCEPT !.tsk_need_notify = TRUE]
             ELSE [r EXCEPT !.ev_need_notify = TRUE]
        parked(s) == [s EXCEPT !.wpc[w] = "parked"]
    IN  {parked(q)} \cup { parked(Interrupted(q, v)) : v \in Interruptible(q) }

\* One pass through the loop of a function that waits, up to its wait or end.
Look(r, p, w) ==
    LET q == IF r.kind[w] \in TaskKinds THEN AskIdle(r, p) ELSE r
        left(s) == [q EXCEPT !.wpc[w] = s]
    IN  IF Over(q, p, w) THEN {left("done")}
        ELSE IF \/ w \in q.intr
                \/ q.kind[w] = "throttle_wait" /\ p.status # "created"
             THEN {left("failed")}
        ELSE Park(q, w) \cup (IF w \in Timed THEN {left("failed")} ELSE {})

\* The GC thread has taken a task and is still core->GC.
GCLate == rt.GC # NoSelf /\ pc[rt.GC] \in {"create", "exec"}

\* The first pass; suspend marks the pool first.
Wait(w) ==
    /\ Created /\ rt.wpc[w] = "out"
    /\ LeavesGCInTime => ~GCLate
    /\ \E k \in Kinds :
         /\ k = "throttle_wait" => rt.throttle_on
         /\ core' = IF k = "suspend" THEN [core EXCEPT !.paused = TRUE] ELSE core
         /\ rt' \in Look([rt EXCEPT !.kind[w] = k, !.wpc[w] = "woken"], core', w)
    /\ Unmoved /\ UNCHANGED <<held, resizes>>

\* Fault: nobody tells who frees the pool.
FaultySyncEnv(r, w) == r

\* "Check the sync env": the last waiter of its kind tells who frees the pool.
SyncEnv(r, w) ==
    LET peers == IF r.kind[w] \in TaskKinds THEN TaskKinds ELSE {"throttle_wait"}
    IN  IF Inside(r, peers) = {w} /\ r.ref_sync # 0
        THEN [Broadcast(r) EXCEPT !.ref_sync = 0]
        ELSE r

\* w has the lock again.
WaiterWakes(w) ==
    /\ rt.wpc[w] = "woken"
    /\ LeavesGCInTime => ~GCLate
    /\ rt' \in Look(SyncEnv(rt, w), core, w)
    /\ UNCHANGED vars

\* The wait times out, or ends for no reason.
WaiterStirs(w) ==
    /\ rt.wpc[w] = "parked"
    /\ rt' = [rt EXCEPT !.wpc[w] = "woken"]
    /\ UNCHANGED vars

\* Fault: who leaves takes the need of the others along.
FaultyErase(w) ==
    /\ rt.wpc[w] \in {"done", "failed"}
    /\ rt' = [rt EXCEPT !.wpc[w] = "out", !.kind[w] = "none", !.intr = @ \ {w},
                        !.tsk_need_notify = FALSE]
    /\ UNCHANGED vars

\* WWAKE_erase_direct
Erase(w) ==
    /\ rt.wpc[w] \in {"done", "failed"}
    /\ rt' = [rt EXCEPT !.wpc[w] = "out", !.kind[w] = "none", !.intr = @ \ {w}]
    /\ UNCHANGED vars

\* WWAKE_invoke
Invoke(w) ==
    /\ w \in Interruptible(rt)
    /\ rt' = Interrupted(rt, w)
    /\ UNCHANGED vars

\* cpool_rt_throttle_ctl
ThrottleCtl ==
    /\ "throttle_ctl" \in RtCalls /\ Created
    /\ \E on \in BOOLEAN \ {rt.throttle_on} :
         LET r == [rt EXCEPT !.throttle_on = on]
         IN  rt' = IF ~on /\ r.ev_need_notify
                   THEN [Broadcast(r) EXCEPT !.ev_need_notify = FALSE] ELSE r
    /\ UNCHANGED vars

-----------------------------------------------------------------------------
(***************************************************************************)
(* The steps of CpoolCore, with what they do to the waiters                *)
(***************************************************************************)

\* cpool_core_GC_leavel
LeaveGC(r, t) == [r EXCEPT !.GC = IF @ = t THEN NoSelf ELSE @]

\* cpool_core_GC_gettaskl for a thread that finds nothing to take: it leaves the
\* GC, there being too little in the cache, goes on with it, or takes it up,
\* and then looks whether the pool is idle.
AskGC(r, p, t) ==
    IF MayCollect /\ r.GC \in {NoSelf, t}
    THEN {LeaveGC(r, t), IF r.GC = t THEN r ELSE TryNotify([r EXCEPT !.GC = t], p)}
    ELSE {r}

\* The GC thread sleeps for a limited time, and is the only one to sleep in a
\* pool that was released.
SleepsAs(r, t) ==
    IF r.GC = t THEN t \in timed'
    ELSE Created /\ (t \in timed' <=> core.sleeping >= core.minthreads)

\* Fault: the event is not raised by a thread that goes to sleep.
FaultySleepNotifies(t) ==
    /\ Sleep(t)
    /\ \E r \in AskGC(rt, core, t) : SleepsAs(r, t) /\ rt' = r

SleepNotifies(t) ==
    /\ Sleep(t)
    /\ \E r \in AskGC(rt, core, t) : SleepsAs(r, t) /\ rt' = TryNotify(r, core')

\* The GC thread does not quit in a pool that it will have to free.
QuitGC(t) ==
    /\ Quit(t)
    /\ rt' \in AskGC(rt, core, t)
    /\ rt'.GC = t => Created \/ core.release_cleaning

CollectGC(t) ==
    /\ Collect(t)
    /\ rt' \in AskGC(rt, core, t) /\ rt'.GC = t

LeaveNotifies(t) == Leave(t) /\ rt' = TryNotify(LeaveGC(rt, t), core')

\* The GC thread does not retire.
TimeOutGC(t) ==
    /\ TimeOut(t)
    /\ rt.GC = t => core'.rm \subseteq core.rm
    /\ UNCHANGED rt

\* cpool_core_GC_leave: the GC thread has taken a task, and before it does
\* anything else it leaves the GC, without the lock.
GCLeaves(t) ==
    /\ GCLate /\ rt.GC = t
    /\ rt' = LeaveGC(rt, t)
    /\ UNCHANGED vars

\* The other steps of a thread are none of the waiters' business.
WorkerStep(t) ==
    \/ /\ \/ Join(t) \/ TakeDispatch(t) \/ TakeTask(t) \/ Wake(t)
          \/ Requeue(t) \/ Test(t) \/ Stay(t)
          \/ /\ rt.GC # t
             /\ \/ CreateThread(t) \/ CreateFails(t) \/ Suspect(t) \/ Recheck(t)
                \/ FinishTask(t) \/ FinishDispatched(t)
       /\ UNCHANGED rt
    \/ GCLeaves(t) \/ SleepNotifies(t) \/ QuitGC(t) \/ CollectGC(t)
    \/ LeaveNotifies(t)

\* The throttle keeps tasks out that are not in the pool yet.
Accepted ==
    /\ ~rt.throttle_on
    /\ Queue \/ \E t \in Threads \ {rt.GC} : MarkAgain(t)
    /\ UNCHANGED rt

\* Bound: one user removes tasks at a time.
RemoveStarts ==
    /\ held = 0 /\ rt.uncounted = 0 /\ ~rt.checking
    /\ RemoveAll /\ UNCHANGED rt

RemoveDispatches == DispatchRemoved /\ rt' = [rt EXCEPT !.uncounted = held]

\* tsks_held_by_dispatcher is decreased without the lock, and npendings read.
RemoveCounts ==
    /\ rt.uncounted > 0
    /\ rt' = [rt EXCEPT !.uncounted = 0, !.checking = core.npendings = 0]
    /\ UNCHANGED vars

\* __cpool_rt_try_wakeup.  It calls the handler of eEvent_F_free with the core
\* in place of the routine pool; where the handler expects
\* tsks_held_by_dispatcher it finds the limit of the task cache, which is not
\* 0, and so it does nothing.
RemoveTriesWakeup ==
    /\ rt.checking
    /\ rt' = [AskIdle(rt, core) EXCEPT !.checking = FALSE]
    /\ UNCHANGED vars

\* The user that removes tasks keeps a reference.
ReleaseNotifies ==
    /\ core.user_ref > (IF rt.uncounted > 0 \/ rt.checking THEN 1 ELSE 0)
    /\ Release
    /\ rt' = IF Created' THEN rt ELSE Broadcast(rt)

(***************************************************************************)
(* eEvent_F_shutdown                                                       *)
(***************************************************************************)

NobodyInside(r) == tsk_wref(r) = 0 /\ ev_wref(r) = 0

Sync(r) ==
    IF NobodyInside(r) THEN [r EXCEPT !.syncer = "done"]
    ELSE [r EXCEPT !.ref_sync = @ + 1, !.syncer = "waiting"]

\* Fault: the waiters are not waited for.
FaultyShutdown ==
    /\ cleaners > 0 /\ rt.syncer = "no"
    /\ rt' = [Broadcast(rt) EXCEPT !.syncer = "done"]
    /\ UNCHANGED vars

Shutdown ==
    /\ cleaners > 0 /\ rt.syncer = "no"
    /\ rt' = Sync(Broadcast(rt))
    /\ UNCHANGED vars

SyncerWakes ==
    /\ rt.syncer = "woken"
    /\ rt' = Sync([rt EXCEPT !.ref_sync = @ - 1])
    /\ UNCHANGED vars

SyncerStirs ==
    /\ rt.syncer = "waiting"
    /\ rt' = [rt EXCEPT !.syncer = "woken"]
    /\ UNCHANGED vars

DestroyAfterSync == rt.syncer = "done" /\ Destroy /\ UNCHANGED rt

-----------------------------------------------------------------------------

RtUsers ==
    \/ Accepted \/ RemoveStarts
    \/ (Resume \/ Flush \/ Adjust \/ AddRef) /\ UNCHANGED rt
    \/ ReleaseNotifies \/ ThrottleCtl

Waits(w) == Wait(w) \/ WaiterStirs(w) \/ Invoke(w)

WaiterStep(w) == WaiterWakes(w) \/ Erase(w)

Background ==
    \/ (ReleaseByThread \/ ReleaserWakes) /\ UNCHANGED rt
    \/ RemoveDispatches \/ RemoveCounts \/ RemoveTriesWakeup
    \/ Shutdown \/ SyncerWakes \/ DestroyAfterSync

RtNext ==
    \/ \E t \in Threads : WorkerStep(t) \/ TimeOutGC(t)
    \/ \E w \in Waiters : WaiterStep(w) \/ Waits(w)
    \/ Background
    \/ RtUsers
    \/ (ReleaserStirs \/ Gone) /\ UNCHANGED rt
    \/ SyncerStirs

RtSpec == RtInit /\ [][RtNext]_rtvars

\* As in CpoolCore; a waiter that is woken, and whoever removes tasks or frees
\* the pool, gets on.  No fairness on timeouts and spurious wakeups.
RtFairness ==
    /\ \A t \in Threads : WF_rtvars(WorkerStep(t))
    /\ \A w \in Waiters : WF_rtvars(WaiterStep(w))
    /\ WF_rtvars((ReleaseByThread \/ ReleaserWakes) /\ UNCHANGED rt)
    /\ WF_rtvars(RemoveDispatches \/ RemoveCounts \/ RemoveTriesWakeup)
    /\ WF_rtvars(Shutdown \/ SyncerWakes \/ DestroyAfterSync)

RtFairSpec == RtSpec /\ RtFairness

-----------------------------------------------------------------------------
(***************************************************************************)
(* Properties                                                              *)
(***************************************************************************)

Returns(w, k) ==
    rt.wpc[w] # "done" /\ rt'.wpc[w] = "done" /\ rt'.kind[w] = k

\* Tasks and error handlers that worker threads have not finished.
Unfinished == Total(InHand)

\* stpool_wait_all returns 0 only when no task is pending, being run or being
\* removed, and none is on its way back to the ready queue.
WaitAllWaits ==
    [][ \A w \in Waiters : Returns(w, "wait_all") =>
          /\ core.npendings = 0 /\ core.n_qdispatchs = 0
          /\ held = 0 /\ Unfinished = 0 ]_rtvars

\* stpool_suspend returns 0 only when no task is being run or being removed;
\* those that may be pending do not start until somebody resumes the pool.
SuspendWaits ==
    [][ \A w \in Waiters : Returns(w, "suspend") =>
          /\ core.n_qdispatchs = 0 /\ held = 0
          /\ \A t \in Threads : pc[t] \notin {"create", "exec", "lost"} ]_rtvars

\* Once what a caller of stpool_wait_all, stpool_suspend or
\* stpool_throttle_wait waits for is there for good, the call ends.
WaitEnds ==
    \A w \in Waiters :
      <>[]Over(rt, core, w) => []<>(rt.wpc[w] \notin {"parked", "woken"})

\* As long as somebody waits for the tasks, the event will be passed on.
NeedKept == (\E w \in Waiters : rt.wpc[w] = "parked" /\ rt.kind[w] \in TaskKinds)
            => rt.tsk_need_notify

\* cpool_rt_core_dtor asserts that nobody waits in the pool it frees.
NoWaiterFreed ==
    core.status = "destroyed" => tsk_wref(rt) = 0 /\ ev_wref(rt) = 0

\* A pool that nobody holds any more is freed, whoever still waits in it.
ReleaseEnds == cleaners > 0 ~> core.status = "destroyed"

(***************************************************************************)
(* What the documents and comments say and the code does not keep          *)
(***************************************************************************)

\* "All of the WAIT functions listed below can be waked up by stpool_wakeup"
InterruptEndsWait ==
    \A w \in Waiters : w \in rt.intr ~> rt.wpc[w] \notin {"parked", "woken"}

\* ... stpool_throttle_wait among them.
WakeupHarmless == ~rt.crashed

\* "Now we can free the pool env safely": nobody follows a request of a waiter
\* to a pool that is freed.
FreedUnwatched ==
    [][ \A w \in Waiters : Invoke(w) => core.status # "destroyed" ]_rtvars
=============================================================================
