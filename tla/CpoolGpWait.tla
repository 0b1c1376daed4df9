----------------------------- MODULE CpoolGpWait -----------------------------
(***************************************************************************)
(* The calls of the group pool in which users wait (src/pool/gp): for a    *)
(* task, for the tasks of a group or of the pool, for a throttle; and      *)
(* those that wait until nobody waits any more before they take a task, a  *)
(* group or the pool away.  Composed with CpoolGp.                         *)
(*                                                                         *)
(* There are four condition variables: cond_task_entry for all groups and  *)
(* their tasks, cond_task for the pool, cond_ev for all throttles, and     *)
(* cond_sync.  A broadcast of the first three is only made when a flag     *)
(* says that somebody waits, and resets the flag.                          *)
(*                                                                         *)
(* A waiter that wakes up takes the lock, leaves the registry, looks at    *)
(* what it waits for, and returns or registers again: one step.            *)
(* stpool_wakeup, which needs no lock, may also come too early; CpoolRt    *)
(* has that.  stpool_task_wait_any, which never reaches the pool, and the  *)
(* wait of cpool_gp_entry_suspend_all, whose callback reads uninitialised  *)
(* memory, are left out.                                                   *)
(***************************************************************************)
EXTENDS CpoolGp

CONSTANTS
    Waiters,    \* threads of the users that wait
    Timed,      \* those among them that pass a finite timeout
    Kinds,      \* what they wait for, a subset of AllKinds
    Cached,     \* tasks whose objects come from the cache and go back there
    WaitCalls   \* further calls of the users, a subset of AllWaitCalls

ThrottleKinds == {"group_throttle", "pool_throttle"}
PoolKinds == {"pool_all", "pool_any"}
\* Requests that are registered with a group: "suspend" is the suspension of the
\* pool, which waits for one task after another, group_cb that of a group.
EntryTaskKinds == {"task", "suspend", "group_cb", "group_all", "group_any", "delete"}
AllKinds == (EntryTaskKinds \ {"delete"}) \cup PoolKinds \cup ThrottleKinds
AllWaitCalls == {"wakeup", "pause", "throttle", "release", "wsync"}

ASSUME GpWaitAssumption ==
    /\ IsFiniteSet(Waiters) /\ Timed \subseteq Waiters
    /\ Waiters \cap Runners = {} /\ "shutdown" \notin Waiters \cup Runners
    /\ Kinds \subseteq AllKinds /\ Cached \subseteq Tasks
    /\ WaitCalls \subseteq AllWaitCalls

VARIABLES
    gw,
    outdated    \* users whose pointer to a group is one into the table as it was
                \* before realloc moved it

waitvars == <<gpvars, gw>>
gwvars == <<waitvars, outdated>>

\* Who waits: users, and those that delete a group.
Callers == Waiters \cup Users

\* Who uses cond_sync: task_detach, entry_delete, task_wsync, and the handler of
\* eEvent_F_shutdown.
Shutdown == "shutdown"
Syncers == Runners \cup Waiters \cup {Shutdown}

\* out     not in __cpool_gp_w_waitl
\* parked  in OSPX_pthread_cond_timedwait
\* woken   the wait is over, the lock not yet taken
WaitLocation == {"out", "parked", "woken"}

\* group, peek: the group and the task of the request.  over: its wait has ended
\* with an error.  stale: its callback has found no task.  progressed: those for
\* whom ntasks_processed has changed.
\* need, any: tsk_need_notify and tsk_any_wait of the groups; pool_need, pool_any
\* those of the pool.  syncing: where cond_sync is used; asleep: who waits for it.
\* cache: the task objects in core->cache_task.
GwType ==
    [ wpc : [Callers -> WaitLocation], kind : [Callers -> AllKinds \cup {"delete"}],
      group : [Callers -> Ids], peek : [Callers -> Tasks \cup {NoTask}],
      over : SUBSET Callers, stale : SUBSET Callers, progressed : SUBSET Callers,
      need : [Ids -> BOOLEAN], any : [Ids -> BOOLEAN],
      pool_need : BOOLEAN, pool_any : BOOLEAN, ev_need : BOOLEAN,
      syncing : SUBSET Syncers, asleep : SUBSET Syncers, shut : BOOLEAN,
      cache : SUBSET Cached ]

GwTypeOK == gw \in GwType /\ outdated \subseteq Users

GwInit ==
    /\ GpInit
    /\ gw = [ wpc |-> [x \in Callers |-> "out"],
              kind |-> [x \in Callers |-> "delete"],
              group |-> [x \in Callers |-> 0],
              peek |-> [x \in Callers |-> NoTask],
              over |-> {}, stale |-> {}, progressed |-> {},
              need |-> [g \in Ids |-> FALSE], any |-> [g \in Ids |-> FALSE],
              pool_need |-> FALSE, pool_any |-> FALSE, ev_need |-> FALSE,
              syncing |-> {}, asleep |-> {}, shut |-> FALSE, cache |-> Cached ]
    /\ outdated = {}

-----------------------------------------------------------------------------
(***************************************************************************)
(* References                                                              *)
(***************************************************************************)

Inside(w, K) == {x \in Callers : w.wpc[x] \in {"parked", "woken"} /\ w.kind[x] \in K}
InGroup(w, K, g) == {x \in Inside(w, K) : w.group[x] = g}

\* tsk_wref and ev_wref of a group; of the pool, whose ev_wref does not count the
\* waiters for a group's throttle; and ref of a task.
GroupRefs(w, g) == InGroup(w, EntryTaskKinds \cup {"group_throttle"}, g)
TaskRefs(w) == Inside(w, EntryTaskKinds \cup PoolKinds)
PoolRefs(w) == TaskRefs(w) \cup Inside(w, {"pool_throttle"})
Refs(w, t) == {x \in Inside(w, EntryTaskKinds) : w.peek[x] = t}

AllTraced(s) == {t \in Tasks : s.stat[t] # "idle"}

-----------------------------------------------------------------------------
(***************************************************************************)
(* Waking up                                                               *)
(***************************************************************************)

Broadcast(w, K) ==
    [w EXCEPT !.wpc = [x \in Callers |-> IF @[x] = "parked" /\ w.kind[x] \in K
                                         THEN "woken" ELSE @[x]]]

\* __cpool_gp_w_wakeup_entry_taskl: the flags of all groups are reset, since all
\* their waiters are woken.
WakeEntries(w) ==
    Broadcast([w EXCEPT !.need = [g \in Ids |-> FALSE],
                        !.any = [g \in Ids |-> FALSE]], EntryTaskKinds)

\* __cpool_gp_w_wakeup_pool_taskl
WakePool(w) ==
    Broadcast([w EXCEPT !.pool_need = FALSE, !.pool_any = FALSE], PoolKinds)

\* __cpool_gp_w_wakeup_pool_throttlel, __cpool_gp_w_wakeup_entry_throttlel
WakeThrottle(w) ==
    IF w.ev_need THEN Broadcast([w EXCEPT !.ev_need = FALSE], ThrottleKinds) ELSE w

\* OSPX_pthread_cond_broadcast(&gpool->cond_sync)
WakeSync(w) == [w EXCEPT !.asleep = {}]

\* Fault: only those that wait for the group are told, not those for the task.
FaultyGroupTold(w, s, t) ==
    LET g == s.gid[t]
    IN  w.need[g] /\ (w.any[g] \/ Traced(s, g) = {})

\* What __cpool_gp_w_wakeup_taskl looks at in the group of a task that is done.
GroupTold(w, s, t) ==
    LET g == s.gid[t]
    IN  w.need[g] /\ (Refs(w, t) # {} \/ w.any[g] \/ Traced(s, g) = {})

\* __cpool_gp_w_wakeup_taskl for the tasks D of the pool s, which are done, and
\* ntasks_processed of their groups.  It is called for each: the order does not
\* matter, since a broadcast wakes all and nobody begins to wait in between.
WakeTasks(w, s, D) ==
    LET seen == [w EXCEPT !.progressed = @ \cup
                    {x \in Inside(w, {"pool_any"}) : D # {}} \cup
                    {x \in Inside(w, {"group_any"}) : \E t \in D : w.group[x] = s.gid[t]}]
        told == IF \E t \in D : GroupTold(w, s, t) THEN WakeEntries(seen) ELSE seen
    IN  IF D = {} \/ TaskRefs(w) = {} THEN w
        ELSE IF told.pool_need /\ (told.pool_any \/ AllTraced(s) = {})
        THEN WakePool(told) ELSE told

\* Fault: the objects go to the cache whoever still waits for their tasks.
FaultyRecycled(w, D) == [w EXCEPT !.cache = @ \cup (D \cap Cached)]

\* A cached object that nobody waits for goes to the cache when its task is done.
Recycled(w, D) == [w EXCEPT !.cache = @ \cup {t \in D \cap Cached : Refs(w, t) = {}}]

\* What the steps of CpoolGp do to those who wait: the tasks that are done.
TasksDone ==
    LET done == {t \in Tasks : gp.stat[t] # "idle" /\ gp'.stat[t] = "idle"}
    IN  Recycled(WakeTasks(gw, gp', done), done)

-----------------------------------------------------------------------------
(***************************************************************************)
(* Waiting                                                                 *)
(***************************************************************************)

\* __cpool_gp_w_waitl until it waits.  any also stands for ntasks_processed_prev.
Park(w, x) ==
    LET k == w.kind[x]
        at == [w EXCEPT !.wpc[x] = "parked", !.over = @ \ {x}]
    IN  IF k \in ThrottleKinds THEN [at EXCEPT !.ev_need = TRUE]
        ELSE IF k \in PoolKinds
        THEN [at EXCEPT !.pool_need = TRUE, !.pool_any = @ \/ k = "pool_any"]
        ELSE [at EXCEPT !.need[w.group[x]] = TRUE,
                        !.any[w.group[x]] = @ \/ k = "group_any"]

\* Fault: the references are looked at before one of them is given back.
FaultyUnregistered(w, x) ==
    LET k == w.kind[x]
        g == w.group[x]
        t == w.peek[x]
        detaching == \E r \in w.syncing \cap Runners : run[r].leaving = t
        told == \/ k \in {"task", "suspend", "group_cb"} /\ Refs(w, t) = {} /\ detaching
                \/ /\ k \notin PoolKinds \cup {"pool_throttle"}
                   /\ GroupRefs(w, g) = {} /\ gp.entry[g].used = "destroying"
                \/ /\ k \in PoolKinds \cup {"pool_throttle"}
                   /\ PoolRefs(w) = {} /\ gp.destroying
        left == [w EXCEPT !.wpc[x] = "out"]
    IN  IF told THEN WakeSync(left) ELSE left

\* The rest of it: the references are given back; the last one tells those that
\* detach its task, delete its group, or destroy the pool -- these only when the
\* request was not one for a group.
Unregistered(w, x) ==
    LET k == w.kind[x]
        left == [w EXCEPT !.wpc[x] = "out"]
        g == w.group[x]
        t == w.peek[x]
        detaching == \E r \in w.syncing \cap Runners : run[r].leaving = t
        told == \/ k \in {"task", "suspend", "group_cb"} /\ Refs(left, t) = {} /\ detaching
                \/ /\ k \notin PoolKinds \cup {"pool_throttle"}
                   /\ GroupRefs(left, g) = {} /\ gp.entry[g].used = "destroying"
                \/ /\ k \in PoolKinds \cup {"pool_throttle"}
                   /\ PoolRefs(left) = {} /\ gp.destroying
    IN  IF told THEN WakeSync(left) ELSE left

\* __cpool_gp_wcb_paused for the tasks of a group, or of all.
Busy(s, G) == {t \in Tasks : s.gid[t] \in G /\ s.stat[t] \in {"scheduling", "dispatching"}}

\* The request of x for the task t.
Peek(w, x, t) == [w EXCEPT !.peek[x] = t, !.group[x] = gp.gid[t]]

\* What the callback finds: one of the tasks that are busy.
Peeked(w, x, G) == {Peek(w, x, t) : t \in Busy(gp, G)}

\* Is there nothing left to wait for ?
Satisfied(w, x) ==
    LET k == w.kind[x]
        g == w.group[x]
    IN  CASE k = "task" -> gp.stat[w.peek[x]] = "idle"
          [] k = "suspend" -> gp.stat[w.peek[x]] = "idle" /\ Busy(gp, Ids) = {}
          [] k = "group_cb" -> FALSE
          [] k \in {"group_all", "delete"} -> Traced(gp, g) = {}
          [] k \in {"group_any", "pool_any"} -> x \in w.progressed
          [] k = "pool_all" -> AllTraced(gp) = {}
          [] k = "group_throttle" -> ~gp.entry[g].throttle
          [] k = "pool_throttle" -> ~gp.throttle_on

\* The call returns: an error when the pool is being destroyed, or when the wait
\* was interrupted or timed out.
Returns(w, x) ==
    \/ Satisfied(w, x)
    \/ w.kind[x] \in ThrottleKinds /\ gp.destroying
    \/ x \in w.over /\ w.kind[x] # "delete"

\* The object of a task that was waited for, after the last one has left.
Collected(w, x) ==
    LET t == w.peek[x]
    IN  IF t # NoTask /\ gp.stat[t] = "idle" THEN Recycled(w, {t}) ELSE w

\* The request of x, which has not been met, or one for the next task its callback
\* finds.  When cpool_gp_entry_suspend finds none in the group,
\* __cpool_gp_w_wait_cbl waits again for the task it has waited for.
Again(w, x) ==
    LET k == w.kind[x]
        next == Peeked(w, x, IF k = "suspend" THEN Ids ELSE {w.group[x]})
    IN  IF \/ k \notin {"suspend", "group_cb"}
           \/ gp.stat[w.peek[x]] # "idle" /\ x \notin w.stale
        THEN {w}
        ELSE IF next = {} THEN {[w EXCEPT !.stale = @ \cup {x}]}
        ELSE {[v EXCEPT !.stale = @ \ {x}] : v \in next}

\* The caller returns: its request is gone.
Gone(w, x) ==
    [w EXCEPT !.over = @ \ {x}, !.progressed = @ \ {x}, !.stale = @ \ {x},
              !.kind[x] = "delete", !.group[x] = 0, !.peek[x] = NoTask]

\* A turn of the loop of __cpool_gp_w_wait_cbl after __cpool_gp_w_waitl returned;
\* for the throttles that of __cpool_gp_w_waitl_utils.
WaitTurn(x) ==
    /\ gw.wpc[x] = "woken"
    /\ LET w == Collected(Unregistered(gw, x), x)
       IN  IF Returns(w, x)
           THEN w.kind[x] # "delete" /\ gw' = Gone(w, x)
           ELSE \E v \in Again(w, x) : gw' = Park(v, x)
    /\ UNCHANGED gpvars

\* OSPX_pthread_cond_timedwait gives up, or the time is up when it returns.
TimesOut(x) ==
    /\ x \in Timed /\ gw.wpc[x] \in {"parked", "woken"}
    /\ gw' = [gw EXCEPT !.wpc[x] = "woken", !.over = @ \cup {x}]
    /\ UNCHANGED gpvars

\* __cpool_gp_event_invoke and __cpool_gp_w_invoke_r for the requests of X.
Interrupted(w, X) ==
    LET new == X \ w.over
        marked == [w EXCEPT !.over = @ \cup X]
        wake(v, K, Wake(_)) ==
            IF \E x \in new : w.kind[x] \in K THEN Wake(v) ELSE v
    IN  wake(wake(wake(marked, EntryTaskKinds, WakeEntries),
                  PoolKinds, WakePool), ThrottleKinds, WakeThrottle)

\* stpool_wakeup for a thread that waits.
Wakeup(x) ==
    /\ "wakeup" \in WaitCalls /\ x \in Inside(gw, AllKinds)
    /\ gw' = Interrupted(gw, {x})
    /\ UNCHANGED gpvars

-----------------------------------------------------------------------------
(***************************************************************************)
(* Calls that wait.  A call that need not wait, or must not, has no        *)
(* effect.                                                                 *)
(***************************************************************************)

Idle(x) == gw.wpc[x] = "out" /\ x \notin gw.syncing

Request(x, k, g) == [gw EXCEPT !.kind[x] = k, !.group[x] = g, !.peek[x] = NoTask]

\* Callers that are careful do not begin to wait in a pool that is released.
Registers(x, k) ==
    /\ Idle(x) /\ k \in Kinds
    /\ "release" \in Careful => ~gp.destroying

\* cpool_gp_task_wait; users have no handles for tasks from the cache.
WaitTask(x) ==
    /\ Registers(x, "task")
    /\ \E t \in AllTraced(gp) \ Cached :
            gw' = Park(Peek(Request(x, "task", 0), x, t), x)
    /\ UNCHANGED gpvars

\* cpool_gp_entry_wait_all and cpool_gp_entry_wait_any, cpool_gp_wait_all and
\* cpool_gp_wait_any; these do not depend on a group.  (Careful callers wait for
\* any task of a group only while it is not being deleted.)
WaitTasks(x) ==
    /\ \E k \in {"group_all", "group_any"} \cup PoolKinds, g \in Ids :
        /\ Registers(x, k)
        /\ IF k \in PoolKinds THEN g = 0 ELSE g < gp.num /\ gp.entry[g].used # "free"
        /\ k = "group_all" => Traced(gp, g) # {}
        /\ "delete" \in Careful /\ k = "group_any" => IsValid(gp, g)
        /\ k = "pool_all" => AllTraced(gp) # {}
        /\ gw' = Park(Request(x, k, g), x)
    /\ UNCHANGED gpvars

\* cpool_gp_entry_suspend and cpool_gp_suspend, when there are tasks to wait for.
SuspendWaits(x) ==
    /\ ~gp.destroying
    /\ \/ /\ Registers(x, "suspend")
          /\ gp' = [gp EXCEPT !.paused = TRUE]
          /\ \E v \in Peeked(Request(x, "suspend", 0), x, Ids) : gw' = Park(v, x)
       \/ \E g \in Valid(gp) :
            /\ Registers(x, "group_cb")
            /\ gp' = SuspendedGroup(gp, g)
            /\ \E v \in Peeked(Request(x, "group_cb", g), x, {g}) : gw' = Park(v, x)
    /\ UNCHANGED run

\* cpool_gp_throttle_wait and cpool_gp_entry_throttle_wait
WaitThrottle(x) ==
    /\ ~gp.destroying
    /\ \/ /\ Registers(x, "pool_throttle") /\ gp.throttle_on
          /\ gw' = Park(Request(x, "pool_throttle", 0), x)
       \/ /\ Registers(x, "group_throttle")
          /\ \E g \in Valid(gp) : /\ gp.entry[g].throttle
                                  /\ gw' = Park(Request(x, "group_throttle", g), x)
    /\ UNCHANGED gpvars

\* cpool_gp_suspend without a timeout, and cpool_core_resumel.
PausePool(paused) ==
    /\ "pause" \in WaitCalls /\ ~gp.destroying /\ paused # gp.paused
    /\ gp' = [gp EXCEPT !.paused = paused]
    /\ UNCHANGED <<run, gw>>

\* cpool_gp_throttle_ctl
ThrottlePool(on) ==
    /\ "throttle" \in WaitCalls /\ on # gp.throttle_on
    /\ gp' = [gp EXCEPT !.throttle_on = on]
    /\ gw' = IF on THEN gw ELSE WakeThrottle(gw)
    /\ UNCHANGED run

\* cpool_gp_entry_throttle_ctl
ThrottleGroup(g, enable) ==
    /\ "throttle" \in WaitCalls /\ IsValid(gp, g) /\ enable # gp.entry[g].throttle
    /\ gp' = [gp EXCEPT !.entry[g].throttle = enable]
    /\ gw' = IF enable THEN gw ELSE WakeThrottle(gw)
    /\ UNCHANGED run

-----------------------------------------------------------------------------
(***************************************************************************)
(* Calls that wait until nobody waits any more                             *)
(***************************************************************************)

SyncOn(w, r) == [w EXCEPT !.syncing = @ \cup {r}, !.asleep = @ \cup {r}]
SyncOff(w, r) == [w EXCEPT !.syncing = @ \ {r}, !.asleep = @ \ {r}]

\* cpool_gp_task_detach, called by the task or by its error handler, which waits
\* until nobody has a reference to the task.
Detach(r) ==
    /\ "detach" \in GpCalls
    /\ run[r].q # <<>> /\ ~run[r].detached /\ run[r].q[1] \notin Cached
    /\ LET t == run[r].q[1]
           self == gp.thread[t]
           s == Untraced(gp, t)
       IN  /\ gp' = IF self # NoThread /\ run[self].normal THEN Ran(s, t)
                    ELSE Dispatched(s, t)
           /\ run' = [run EXCEPT ![r].detached = TRUE, ![r].leaving = t]
           /\ gw' = IF Refs(gw, t) = {} THEN TasksDone ELSE SyncOn(TasksDone, r)

DetachTurn(r) ==
    /\ r \in gw.syncing \ gw.asleep /\ run[r].leaving # NoTask
    /\ gw' = IF Refs(gw, run[r].leaving) = {} THEN SyncOff(gw, r) ELSE SyncOn(gw, r)
    /\ UNCHANGED gpvars

\* Its last line, after the unlock.
DetachReturns(r) ==
    /\ run[r].leaving # NoTask /\ r \notin gw.syncing
    /\ gp' = [gp EXCEPT !.thread[run[r].leaving] = NoThread]
    /\ run' = [run EXCEPT ![r].leaving = NoTask]
    /\ UNCHANGED gw

\* The entry that u deletes is free.  Through a pointer that is outdated the old
\* one is: the group stays.  (What else such a write destroys is not followed.)
Paid(u) ==
    IF u \in outdated THEN run' = [run EXCEPT ![u].deleting = NoGroup] /\ UNCHANGED gp
    ELSE GroupFreed(u)

\* Fault: the group is gone when those who wait for it have been interrupted.
FaultyFreeOrSync(w, u) == Paid(u) /\ gw' = SyncOff(w, u)

\* The end of cpool_gp_entry_delete: the entry is free when nobody refers to it.
\* Whoever reads the references in the old table finds the one it had itself, or
\* whatever was written over it.  When it has slept it reads those of the new one.
FreeOrSync(w, u) ==
    LET none == GroupRefs(w, run[u].deleting) = {}
    IN  \E found \in IF u \in outdated THEN BOOLEAN ELSE {none} :
            IF found THEN Paid(u) /\ gw' = SyncOff(w, u)
            ELSE gw' = SyncOn(w, u) /\ UNCHANGED gpvars

\* cpool_gp_entry_delete: throttles are told, pending tasks removed.
DeleteStarts(u, g) ==
    /\ DeleteGroup(u, g)
    /\ "release" \in Careful => ~gp.destroying
    /\ gw' = WakeThrottle(TasksDone)

\* The tasks of the group, which are running or removed, are waited for; then
\* those who wait for the group are interrupted.
DeleteWaits(u) ==
    LET g == run[u].deleting
    IN  /\ g # NoGroup /\ run[u].q = <<>> /\ Idle(u)
        /\ IF Traced(gp, g) = {}
           THEN FreeOrSync(Interrupted(gw, GroupRefs(gw, g)), u)
           ELSE gw' = Park(Request(u, "delete", g), u) /\ UNCHANGED gpvars

DeleteTurn(u) ==
    LET w == Unregistered(gw, u)
    IN  /\ gw.wpc[u] = "woken" /\ Returns(w, u)
        /\ FreeOrSync(Interrupted(Gone(w, u), GroupRefs(w, run[u].deleting)), u)

DeleteSyncTurn(u) ==
    /\ u \in gw.syncing \ gw.asleep /\ run[u].deleting # NoGroup /\ run[u].q = <<>>
    /\ FreeOrSync(gw, u)

\* cpool_gp_task_wsync: stpool_task_delete for a task that is idle.
Wsync(x) ==
    /\ "wsync" \in WaitCalls /\ Idle(x)
    /\ \E t \in Tasks \ Cached :
        /\ gp.stat[t] = "idle" /\ Refs(gw, t) # {}
        /\ gw' = SyncOn([gw EXCEPT !.peek[x] = t], x)
    /\ UNCHANGED gpvars

WsyncTurn(x) ==
    /\ x \in gw.syncing \ gw.asleep
    /\ gw' = IF Refs(gw, gw.peek[x]) = {} THEN SyncOff(Gone(gw, x), x)
             ELSE SyncOn(gw, x)
    /\ UNCHANGED gpvars

\* The tasks nobody would run: those of groups, or of a pool, that are suspended.
Unreachable(s) ==
    {t \in Removable(s) : LET e == EntryOf(s, t)
                          IN  \/ s.paused /\ e.used # "free"
                              \/ e.used = "valid" /\ e.paused}

\* cpool_gp_core_notifyl for eEvent_F_destroying: these are removed, throttles told.
ReleasePool ==
    /\ "release" \in WaitCalls /\ ~gp.destroying
    /\ "release" \in Careful =>
            /\ \A u \in Users : IdleUser(u)
            /\ Inside(gw, EntryTaskKinds \cup {"group_throttle"}) = {}
    /\ gp' = [Marked(gp, Unreachable(gp), TRUE) EXCEPT !.destroying = TRUE]
    /\ gw' = WakeThrottle(TasksDone)
    /\ UNCHANGED run

\* Threads leave when there is nothing they may take.
ThreadsGone ==
    /\ gp.destroying /\ gp.dispatch_q = <<>> /\ (gp.paused \/ gp.effective = 0)
    /\ \A th \in Threads : run[th].q = <<>> /\ run[th].leaving = NoTask

\* cpool_gp_core_notifyl for eEvent_F_shutdown: everyone who waits is interrupted
\* and waited for.
ShutOrSync(w) ==
    gw' = IF PoolRefs(w) = {} THEN [SyncOff(w, Shutdown) EXCEPT !.shut = TRUE]
          ELSE SyncOn(w, Shutdown)

ShutdownStarts ==
    /\ ThreadsGone /\ Shutdown \notin gw.syncing
    /\ ShutOrSync(Interrupted(gw, Inside(gw, AllKinds \cup {"delete"})))
    /\ UNCHANGED gpvars

ShutdownTurn ==
    /\ Shutdown \in gw.syncing \ gw.asleep
    /\ ShutOrSync(gw)
    /\ UNCHANGED gpvars

-----------------------------------------------------------------------------

\* What tasks do and what is done to them.
TaskStep ==
    /\ \/ \E th \in Threads : Serve(th)
       \/ \E u \in Users : DispatchNext(u)
       \/ \E u \in Users, t \in Tasks, bypool \in BOOLEAN : RemoveTask(u, t, bypool)
       \/ \E u \in Users, bypool \in BOOLEAN : MarkCb(u, bypool)
       \/ \E u \in Users, g \in Ids, bypool \in BOOLEAN : EntryMarkCb(u, g, bypool)
    /\ gw' = TasksDone

\* cpool_gp_task_queue and stpool_add_routine, which takes an object from the
\* cache.  Those who wait for a task go on waiting in the group it was in; callers
\* that are careful do not give it another one meanwhile.
QueueStep ==
    \E t \in Tasks, g \in Ids :
        /\ Queue(t, g)
        /\ gp.stat[t] = "idle" /\ t \in Cached => t \in gw.cache
        /\ "move" \in Careful /\ g # gp.gid[t] => Refs(gw, t) = {}
        /\ gw' = [gw EXCEPT !.cache = @ \ {t}]

\* What changes no task and tells nobody.
OtherCall ==
    /\ \/ \E g \in Ids, suspend \in Suspended : CreateGroup(g, suspend)
       \/ \E g \in Ids : SuspendGroup(g) \/ ResumeGroup(g)
       \/ SuspendAllGroups \/ ResumeAllGroups
       \/ \E g \in Ids, attr \in Attrs : SetAttributes(g, attr)
       \/ \E max \in MaxThreads : SetThreads(max)
    /\ UNCHANGED gw

Calls(x) ==
    WaitTask(x) \/ WaitTasks(x) \/ WaitThrottle(x) \/ SuspendWaits(x) \/ Wsync(x)

Deletes(u) == DeleteWaits(u) \/ DeleteTurn(u) \/ DeleteSyncTurn(u)

Syncs == ShutdownStarts \/ ShutdownTurn

GwStep ==
    \/ /\ ~gp.spinning /\ ~gw.shut
       /\ \/ TaskStep \/ QueueStep \/ OtherCall
          \/ \E x \in Callers : WaitTurn(x) \/ Wakeup(x)
          \/ \E x \in Waiters : Calls(x) \/ TimesOut(x) \/ WsyncTurn(x)
          \/ \E u \in Users : Deletes(u) \/ \E g \in Ids : DeleteStarts(u, g)
          \/ \E b \in BOOLEAN : PausePool(b) \/ ThrottlePool(b) \/ \E g \in Ids : ThrottleGroup(g, b)
          \/ \E r \in Runners : Detach(r) \/ DetachTurn(r)
          \/ ReleasePool \/ Syncs
    \/ \E r \in Runners : DetachReturns(r)

\* Inside the wait of cpool_gp_entry_delete
Deleters == Inside(gw, {"delete"})

\* In cpool_gp_entry_create realloc may move the table when it grows, which the
\* pointers of those that wait to delete a group do not follow.  (Careful callers
\* create no such group meanwhile.)
Outdates ==
    LET grown == gp'.num # gp.num
    IN  /\ "grow" \in Careful /\ grown => Deleters' = {}
        /\ \E moved \in BOOLEAN :
            /\ moved => grown
            /\ outdated' = IF moved THEN Deleters' ELSE outdated \cap Deleters'

GwNext == GwStep /\ Outdates

GwSpec == GwInit /\ [][GwNext]_gwvars

\* Tasks end, woken threads get the lock.
GwFair ==
    /\ \A th \in Threads : WF_waitvars(Serve(th) /\ gw' = TasksDone)
    /\ \A u \in Users :
        WF_waitvars((DispatchNext(u) /\ gw' = TasksDone) \/ Deletes(u) \/ WaitTurn(u))
    /\ \A r \in Runners :
        WF_waitvars(DetachTurn(r) \/ DetachReturns(r))
    /\ \A x \in Waiters : WF_waitvars(WaitTurn(x) \/ WsyncTurn(x))
    /\ WF_waitvars(Syncs)

GwFairSpec == GwSpec /\ GwFair

-----------------------------------------------------------------------------
(***************************************************************************)
(* Properties                                                              *)
(***************************************************************************)

\* Nobody sleeps on when what it waits for is there, whichever of the flags that
\* all waiters share was reset by a broadcast for others (tsk_need_notify,
\* tsk_any_wait, ev_need_notify).
NobodyForgotten ==
    \A x \in Callers :
        gw.wpc[x] = "parked" =>
            /\ ~Satisfied(gw, x) /\ x \notin gw.over
            /\ gw.kind[x] \in ThrottleKinds => ~gp.destroying

\* Who suspends a group or the pool and waits for what runs there is not left
\* waiting when nothing runs there.
SuspendTold ==
    \A x \in Callers :
        (gw.wpc[x] = "parked" /\ gw.kind[x] \in {"suspend", "group_cb"}) =>
            Busy(gp, IF gw.kind[x] = "suspend" THEN Ids ELSE {gw.group[x]}) # {}

\* Nobody sleeps on cond_sync when the last reference is gone: that of a detached
\* task, a group that is deleted, or the pool.
SyncTold ==
    \A r \in gw.asleep \ Waiters :
        IF r = Shutdown THEN PoolRefs(gw) # {}
        ELSE IF run[r].leaving # NoTask THEN Refs(gw, run[r].leaving) # {}
        ELSE GroupRefs(gw, run[r].deleting) # {}

\* The same of stpool_task_delete (cpool_gp_task_wsync), which waits for the last
\* reference to a task that is idle.
WsyncTold == \A x \in gw.asleep \cap Waiters : Refs(gw, gw.peek[x]) # {}

\* A group is free, and a pool shut, only when it is empty and no request refers
\* to it: cond_task_entry and the counters would be used after it otherwise.
FreedAlone ==
    /\ GwTypeOK
    /\ \A g \in Ids : gp.entry[g].used = "free" =>
            /\ GroupRefs(gw, g) = {} /\ Traced(gp, g) = {}
            /\ gp.entry[g].queue = <<>> /\ ~gp.entry[g].active
    /\ gw.shut => PoolRefs(gw) = {}

\* An object of core->cache_task is given to nobody else while its task is traced
\* or waited for, and it returns to the cache when both are over, whoever is last.
ObjectsReturn ==
    \A t \in Cached : t \in gw.cache <=> (gp.stat[t] = "idle" /\ Refs(gw, t) = {})

\* Whoever deletes a group returns: its tasks are done and those who wait for it
\* are told and leave.
DeleteEnds ==
    \A u \in Users : run[u].deleting # NoGroup ~> run[u].deleting = NoGroup

\* A pool that is released is shut, whoever waits for its tasks or its throttle.
ReleaseEnds == gp.destroying ~> gw.shut

=============================================================================
