# libstpool in TLA+

libstpool is a thread pool library in C: users queue tasks, a set of worker
threads that grows and shrinks runs them, and further calls suspend, resize,
flush, wait for and release the pool. This directory models the parts of it in
which threads interact, checks the models with TLC, and proves what matters
most of them with TLAPS for every number of threads, tasks and calls.

Contents: [1 inventory](#1-inventory), [2 modules](#2-modules),
[3 runs](#3-runs), [4 fairness](#4-fairness), [5 proofs](#5-proofs),
[6 disagreements found](#6-disagreements-found),
[7 abstractions and what is not modelled](#7-abstractions-and-what-is-not-modelled),
[8 plan](#8-plan).

All paths below are relative to `src/`.

## 1 Inventory

A pool is a *core* (`pool/core`) that owns the worker threads and knows nothing
of tasks, and a *pool kind* on top of it that owns the queues: the routine pool
(`pool/rt`) with one queue, or the group pool (`pool/gp`) with one per group.
The core calls the pool kind through a table of methods (`gettask`, `finished`,
`notifyl`); the pool kind calls the core to wake or create threads. The public
functions (`stpool.c`, `stpool_group.c`) check their arguments and forward.
There are no messages: everything is shared state under `core->mut`, a few
fields read without it, and condition variables.

| Component | State | Operations | Interacts by | Hard because |
|---|---|---|---|---|
| Thread manager of the core: `pool/core/cpool_core.c`, `cpool_core.h`, `cpool_core_thread_status.h` | the lists `ths` (all threads) and `ths_waitq` (sleepers), each thread's status, `run` flag and `thq` (objects it must still start); about fifteen counters derived from them; `max`/`minthreads` | the schedule loop of a worker; wakeup, add, dec, ensure, adjust, flush, suspend, resume | one condition per thread, `cond_ths`, reads of `run` and of thread flags without the lock | decisions are taken from counters, not from lists; threads are marked dead, then reused before they notice; pthreads are created outside the lock, and may fail |
| Life cycle of a pool: `cpool_core_addref`, `release_ex`, dtor | `ref`, `user_ref`, `status`, `release_cleaning` | addref, release by users, release by leaving threads, free | `cond_ths`, the events shutdown/destroying/free | the last user and the last threads let go in any order |
| Routine pool, queueing: `pool/rt/cpool_rt_method.c`, `cpool_rt_core_method.c` | ready queue, `npendings`, `n_qdispatchs`, `tsks_held_by_dispatcher` | queue, gettask, finished with "run me again", remove_all, hand over removed tasks, run their error handlers | under `core->mut`, but removal is three steps | a task is between two queues in several places |
| Routine pool, waiting: the same files, `pool/cpool_wait.c` | `tsk_wref`, `ev_wref`, `ref_sync`, `tsk_need_notify`, `ev_need_notify`, `event_free_notified`, the registry of interruptible waits | suspend, wait_all, throttle_wait, throttle_ctl, `stpool_wakeup`, shutdown | one condition `cond_com` for all of them; the registry has a lock of its own | an event raised once per idle spell, several flags that remember who wants it |
| Dispatch queue: `pool/com/cpool_com_internal.h`, `pool/core/list.h` | a circular list, its length `n_qdispatchs`, each thread's own list | append one, append all, take all, take the first n, unlink | under `core->mut`, but a thread's own list without it | pointer surgery whose invariant is nowhere written down |
| Priority queue: `pool/com/cpool_com_priq.h` | `priq_num` queues of tasks and the list of those that are not empty; the attributes in each task object | insert, active, pop, erase, locate | under `core->mut`, attributes without it | order must survive every insertion; task objects are recycled with old attributes |
| Object cache, object pool: `sm_cache.c`, `objpool.c`, `cache_creater.h` | blocks of memory sorted by address, each with the objects put back; the shared list; a list per thread; limits | get (grow, or take back), put (free a block with its last object), flush | a lock per cache, the threads' lists without one; threads are asked for theirs by a flag | an object on two lists, or on none, or in a block that is gone |
| GC: `cpool_core_gc.c`, `cpool_core_gc.h` | which thread does it (`core->GC`), whether to put it off, the flags of each thread | a worker without a task becomes the GC thread, frees objects in small steps, sleeps in between, leaves the role for a task | `core->mut`, and the flags without it | the role passes between threads that are marked, quit, or have to destroy the pool |
| Group pool, scheduling: `pool/gp/*` | entries with their flags, queue, limit and share; the table of active entries; counters of pending, effective, running and dispatched tasks | group create, delete, suspend, resume, attributes; queue, take, finish, remove, mark, dispatch | the core takes `core->npendings` from it | groups move in the table at every step, `core->npendings` is a sum of what each may run |
| Group pool, waiting: `cpool_gp_wait.c` and the methods | who waits for which task or group, references of tasks, groups and pool, three shared flags for each | waits for a task, for all or any of a group or the pool, for throttles, for suspension; detach, delete, wsync, shutdown, `stpool_wakeup` | four condition variables for all | one broadcast resets the flags of everybody; the last to leave must tell who waits for that |
| Factories, method tables: `cpool_factory.c`, `cpool_rt_factory.c`, `stpool_caps.h` | none after construction | selection by capability | - | - |
| Public API: `stpool.c`, `stpool_group.c` | none of their own | argument checks and forwarding; waits for several tasks | - | - |
| Portability layer: `ospx.c`, `timer.c` | none | pthread wrappers | primitives here | - |
| Message log, examples, build files | - | - | - | outside |

What makes the components correct:

- thread manager: the counters describe the threads; no task waits while a
  thread that could serve it sleeps unsignalled; the pool grows while it should;
  no thread object is forgotten; the reference count is the number of holders;
- life cycle: one caller frees the pool, once, with nobody and nothing in it,
  and the pool *is* freed in the end;
- queueing: nothing is lost or run twice, a suspended pool starts nothing, what
  is ready is served;
- waiting: nobody returns before what it waits for is true, nobody waits after
  it has become true for good, nobody is inside a pool that is freed;
- dispatch queue: the error handler of each removed task is run, once;
- priority queue: sorted, stable;
- caches: every object in exactly one place, all memory given back with the pool,
  one GC thread at a time;
- group pool: the groups that are searched are those with tasks, the counters are
  the sum of what the groups may run, the task taken is the best one that may be;
  nobody waits for what is there already, nothing goes while somebody refers to it.

The hazards behind these, each at the line where it bites, are listed in
`PROJECT.json`.

## 2 Modules

| Module | Models | State | Actions |
|---|---|---|---|
| `CpoolThreads` | what the functions of the core do to the record of threads, one operator per function, no actions | `CoreType`: the lists as sets (`ths`, `waitq`), `stat`, `rm`, `run`, `thq`, `unborn` (objects without a pthread), the counters by their names in the code, `ref`, `user_ref`, `status` | `Wakeup`, `AddThreads`, `DecThreads`, `EnsureServices`, `AdjustAbs`, one `Status…` operator per transition of `status_changel`, `Launched`/`Discard` of `do_create_threads` |
| `CpoolCore` | the core with the queueing half of the routine pool | `core`, where each thread is (`pc`), what it took (`batch`), what it was asked to run again, tasks taken from the ready queue by a remover and not handed over yet (`held`), who frees the pool (`releaser`, `releasing`, `cleaners`) | one per critical section of `cpool_core_schedule` and its callees, and one per user call |
| `TaskPool` | the promise to the users of a pool: nothing lost, nothing twice, suspended means no start, freed once and empty | `phase`, `suspended`, `ready`, `removed`, `inhand` | what users see of a task's life |
| `CpoolRt` | `CpoolCore` with callers of `stpool_suspend`, `stpool_wait_all` and `stpool_throttle_wait` in it: the event of an idle pool, its interrupts, the shutdown; who does the GC | `core` and all of `CpoolCore`, and `rt` with the fields of `struct cpool_rt`, `core->GC`, the waiters and the registry | the actions of `CpoolCore`, each with what it notifies; the steps of waiters, removers, `stpool_wakeup` and the handler of the shutdown; `GCLeaves`, the GC thread's step without the lock |
| `CpoolDispatchQ` | the lists that tasks are on between the ready queue and their error handler, link by link | `next`, `prev` of every task and list head, the counters, what became of each task | add, splice, cut, unlink as `list.h` does them; `stpool_remove_all`, `stpool_mark_cb` |
| `CpoolPriq` | the priority queues of a routine pool | the queues, the list of those not empty, the attributes in each task object | add, pop, finish, run again, change attributes, remove all |
| `CpoolGp` | the scheduler of the group pool, one action per critical section | `gp`: the fields of `struct cpool_gp` and its entries by their names in the code, the tasks; `run`: what threads and users are executing | create, delete, suspend(_all), resume(_all), setattr, the number of threads; queue, take, finish, remove, mark, dispatch |
| `CpoolGpWait` | `CpoolGp` with callers that wait in it, and with the calls that wait for these | `gp` and `run`, and `gw`: where each caller is, its request, the flags of groups and pool, who uses `cond_sync`, the cached task objects; `outdated`, the users whose pointer to a group leads into the table as it was before `realloc` moved it | the actions of `CpoolGp`, each with whom it tells; waiting, timing out, `stpool_wakeup`; detach, delete, wsync, pause, throttle, release and shutdown |
| `ObjCache` | `sm_cache`, `objpool` and the GC | blocks and shared list (`pool`), thread objects and their cache, what tasks hold, the fields of the core that GC uses | get, grow, ask the threads, put; a thread's turn with a task or without; GC step by step; start, mark, use again, retire; release and destroy |
| `MC…` | constants and symmetries for TLC | | |
| `CpoolCoreProofs`; `CpoolRtProofs`; `CpoolDispatchQProofs`; `CpoolPriqProofs`; `CpoolGpProofs`, `CpoolGpCountProofs`, `CpoolGpWaitProofs`; `ObjCacheProofs` | lemmas about the operators of `CpoolThreads`, theorems about `CpoolCore` and how it implements `TaskPool`; theorems about the others | | |

**Locations.** A thread object is at `entry` before its pthread runs, then at
`gettask` (about to take the lock and look for work), `asleep`, `create` (it
creates the pthreads of its `thq`, outside the lock), `exec` (it runs a task or
error handlers), `requeue` (a task is done and about to be put back), `test`
(about to read `self->run`), `leave` (about to take the lock to leave), or `lost`
(section 6, CoreLost). Between two locations lies what the code does in one
critical section, or one read without the lock: reading the flags of a thread
object in `do_create_threads` (`Suspect`) and looking again under the lock
(`Recheck`) are two actions. A worker that finds no task may do the GC: in `CpoolCore`
that is a turn after which it looks again (`Collect`), or a sleep for a limited time,
also in a pool that was released if the threads are to free it (`Sleep`); in `CpoolRt`
one thread at most is `rt.GC`, and it gives that up in a step of its own after it has
taken a task (`GCLeaves`), as `cpool_core_gettask` does after the unlock.

**Composition.** `CpoolCore` EXTENDS `CpoolThreads` and instantiates
`TaskPool` (`Pool`) with the mapping

- `phase`: *open* while a user holds a reference, *gone* once destroyed;
- `suspended`, `ready`: `paused`, `npendings`;
- `removed`: `n_qdispatchs` and what a remover holds between its two locks;
- `inhand`: what threads took and did not finish (`Total(InHand)`), a task on its way
  back to the ready queue included.

`CpoolRt` EXTENDS `CpoolCore` and conjoins to each action what it does to `rt`;
`RtImplementsCore` proves that nothing is lost by that: a behaviour of `CpoolRt`
is one of `CpoolCore`. `CpoolDispatchQ` and `CpoolPriq` open up what is a
counter in `CpoolCore` and stand for themselves.

`CpoolGp` stands beside `CpoolCore`: it says what `gettask` finds and what
`core->npendings` is, and leaves to `CpoolCore` which thread sleeps, wakes or is
created; its threads may look for a task at any time. `CpoolGpWait` EXTENDS it
and conjoins to each action `TasksDone`, the broadcasts for the tasks that are
done in it. `ObjCache` in turn leaves open which tasks there are and when threads
start and wake. Helpers take the record (`gp`, `gw`, `pool`) and return it as the
function of the code leaves the structure, so that they can be applied one after
another as the code calls them.

## 3 Runs

Run with `tlc -workers 2 -config X.cfg M`, where M is `MCCpoolCore` (Core…),
`MCCpoolRt` (Rt…), `MCCpoolDispatchQ` (Dispatch…), `MCCpoolPriq` (Priq…),
`MCCpoolGp` (GpSched, GpSpin, GpPaused), `MCCpoolGpWait` (the other Gp…) or
`MCObjCache` (Cache…, Obj…).

| Run | States | Instance | Shows |
|---|---|---|---|
| CoreService | 1 042 000 | 3 threads that may do the GC, limit 2, at most 2 pending and 2 user references; queue, again, remove, suspend, resume, addref, release | the counters describe the threads, no wakeup is lost, the pool grows while it should, an object without a pthread has one owner, every task moves as `TaskPool` allows until one caller frees the pool |
| CoreResize | 468 000 | 2 threads that may do the GC, limit 1, 2 flushes or adjusts in all, `pthread_create` may fail | which of the bookkeeping survives resizing (part of `Counters` holds up to the first one only, which `CountersAlways` proves: section 5) |
| CoreLive | 107 000 | 2 threads, fair; no timeouts needed | liveness, and that the pool implements `TaskPool` |
| RtWait | 193 000 | 2 threads, 2 callers of `wait_all`, one with a timeout; queue, release | nobody forgotten, the pool freed after them |
| RtRemove | 2 129 000 | a pool of fixed size, 2 threads that may do the GC, one waiter that may be interrupted (which ends a wait as a timeout does), in `wait_all`, `suspend` or `throttle_wait`; at most 1 pending; queue, remove, suspend, resume, release; `LeavesGCInTime` (section 6) | nobody early: error handlers count as work, and so does what a thread takes that did the GC before; nobody is inside a pool that is freed |
| DispatchOnce | 16 000 | 4 tasks, 2 threads, batch 2; the queue is filled up to the first time it is emptied | the lists share nothing, the counters fit, every handler runs, once |
| PriqOrder | 396 000 | 3 tasks, 3 queues, priorities 40 and 50 (which share a queue) and 90, both policies, permanent or not | no task lost or linked twice, ready queues in order |
| GpSched | 550 000 | 2 groups, 3 tasks (an urgent one, one with policy TOP and an error handler, an ordinary one), 2 threads and a user; the limit of a group is 1 or all threads, of which there are 1 or 2; all calls but detach | the first entries are those with tasks, the counters are sums over the groups, the search ends, and finds the best task |
| GpWait | 423 000 | 2 groups, 2 tasks, one of them with an object from the cache, 1 thread, 2 callers with timeouts and a user; waits for a task, for all of a group, for any of the pool, for suspension; create, delete, detach, wsync | nobody forgotten, whoever waits for waiters is told, nothing is freed under anybody, and the counters of the groups (`GroupCounts`) survive detaching and deleting |
| GpEnds | 36 000 | 1 task, 1 waiter of seven kinds without a timeout; create, delete, detach, pause, throttle, wakeup, release; fair | a deleted group is freed and a released pool shut at last |
| ObjCache | 1 629 000 | 2 places for blocks of 2 objects, 2 threads (one in the buffer, one allocated), one caller; both kinds of pool | each object in one place, blocks sorted and counted, flags and counters agree, all memory is given back |
| CacheSearch | | a third place for a block | section 6 |

Runs kept beside these, to be made by hand: RtFixed (94 000: a pool of fixed size
whose tasks run again, under fairness: `WorkServed`, `SuspendWaits`, `WaitEnds`),
ObjEnds (36 000: one block,
fair: `ReleaseFrees`). GpSched was also checked with 3 groups (961 000 states),
GpEnds with suspended groups (107 000) and for `DeleteEnds` with two waiters of
seven kinds (217 000), `GroupsServed` of `CpoolGp` under `GpFairSpec`, and
GpWait with a table of three groups, two kinds of waits (`task`, `group_all`) and no
wsync (1 378 000).

**Bounds.** Two threads are enough for each pair of thread states that a marking
call or a signal tells apart (sleeping, signalled, running, dying, not yet
born); the third of CoreService adds that a thread creates one while another is
on its way. `Limit` bounds the threads a worker creates at once
(`limit_threads_create_per_time`): 1 makes it come back, 2 gives it a `thq` of
two. Two pending tasks separate "some" from "more than one thread takes".
`MaxUserRef` 2 makes the last release differ from another. `MaxReleasing` bounds
how many threads are between leaving `ths` and dropping their reference: at 1
the next thread waits at its last lock, which only orders the steps; CoreLive has
2. `MaxResizes` 2 lets a thread be marked dead, reused and marked again.
One waiter shows a hang; two are needed for the flags they share, as when the
first takes away the need of the second. Four tasks in batches of two make
`TakeAll` and `TakeSome` both happen twice; three tasks in one priority queue is
the least in which "after the first" differs from "at its place".

Two groups are the least that are swapped and in which one is at its limit while
the other is not; three tasks put two into one queue and one beside it. `Inc` and
`MaxNum` bound the table of groups, which grows by `Inc`: with 2 it has its full
size before a group can be deleted, so that it never grows under a deletion, as the word `grow`
below demands; with 3 it may, in GpGrow, and does not where the word is there. Two waiters share flags
and references; the third kind of party is the user that deletes. In GpEnds one
waiter is enough for a hang, and fairness is expensive. Two blocks of two objects
make a block be freed while the other has objects out; `Regain` and `DelayBelow`
stand for 5 and 400, `CreatedDef` and `ReleaseDef` for the limits of the code
scaled to these blocks. `Markable` bounds which thread `adjust` marks. The bounds
appear in guards only, at the action that would exceed them.

**Careful callers.** In a group pool, as in the routine pool, some calls at some
moments end badly (section 6). `Careful` names those for which the callers of an
instance wait for the right moment, so that a run can show that the rest is sound,
and a second configuration, without the word, shows the defect:

| Word | Callers do not | Without it |
|---|---|---|
| `resume`, `threads` | resume a group with a limit, or change the number of threads, while tasks of it run | GpSpin |
| `setattr` | give a group other attributes while it has tasks | as GpSpin |
| `detach` | queue a task again that is inside `task_detach` | GpDetach |
| `move` | queue a task that is waited for into another group | GpMoved |
| `delete` | begin to wait for any task of a group that is being deleted | GpAny |
| `release` | begin a wait in a pool that is released, or release it while callers wait with a group or are inside a call | GpShutdown |
| `grow` | create a group for which the table has to grow while one of them waits to delete another | GpGrow |
| `ascending` | (calloc) find room for the third block below the first two | CacheSearch |
| `marks` | (`adjust`) mark a thread inside `GC_leave`, or use it again there though it was marked | ObjCache without it |

The routine pool has one such assumption, a constant of its own: with `LeavesGCInTime`
a waiter looks at the pool only when no thread is between taking a task and giving
the GC up (RtRemove without it: section 6). All `Rt…` configurations set it; it
matters where `"GC"` is among the `Calls`, which of the routine pool's runs is
RtRemove. The runs about liveness leave the GC out: its thread sleeps for a limited time, and what
they show is to hold without the help of a clock.

Two more restrictions lie in the instances: no group is created suspended in
GpSched (GpPaused), and nobody waits for the suspension of a group (`group_cb`) in
GpWait and GpEnds (GpSuspend).

**Why the waits are split.** Some combinations of calls do end in a wait that
never returns (section 6: RtPaused, RtRemoved, RtInterrupt, RtShutdown). A run
that states `WaitEnds` leaves one member of each combination out: RtWait has no
suspend, no remove and no interrupts, RtFixed no release. RtRemove has all of
them, and states safety only.

**Deadlock** is checked in the passing runs but CoreResize: there a thread that
failed to create another is lost (section 6, CoreLost), and a pool may stop
with it. A pool that is freed stutters (`Gone`). It is not checked in the Gp… and
ObjCache runs, where users may stop calling and the pool comes to rest: waits that
never end are what `NobodyForgotten`, `SyncTold`, `DeleteEnds` and `ReleaseEnds`
are about.

## 4 Fairness

`FairSpec` has weak fairness of the steps of each thread that is awake, of the
threads and the releaser that drop the last references, and of handing removed
tasks over; `RtFairSpec` adds waiters that were woken, the remover's later
steps and the handler of the shutdown; `CpoolDispatchQ` has it of its threads. `GwFair` has it of the threads
that serve, of callers that were woken, of the user that deletes or dispatches,
of detaching tasks, and of the handler of the shutdown; `GpFair` and `ObjFair` of
the threads, and the latter of the destruction by whoever has found that nobody
is left.
The code justifies it: these are steps of running OS threads that wait for
nothing but a mutex held for a bounded time, and of tasks and error handlers,
which are assumed to return.

There is none on the timeouts of sleepers or waiters and on spurious wakeups:
nothing may depend on a clock to be served. There is none on users either: they
may stop calling at any time. The one assumption about users is in the formulas:
`WorkServed` excuses a pool that is suspended again and again, `WaitEnds` a
condition that does not last.

## 5 Proofs

`tlapm` checks every theorem and lemma of the eight proof modules. The constants
are arbitrary but for the named assumptions of `CpoolThreads`, `CpoolCore`,
`CpoolRt`, `CpoolDispatchQ`, `CpoolPriq`, `CpoolGp`, `CpoolGpWait` and `ObjCache`: a finite set of threads, numbers where numbers are expected, bounds
that are natural numbers, known names of calls, priorities from 0 to 99.

| Theorem | Says |
|---|---|
| `TypeCorrect` | `TypeOK`: in particular no counter of tasks gets negative |
| `AliveRunsAlways` | `AliveRuns`: `run` and `THREAD_STAT_RM` of each thread agree |
| `RefsAlwaysAccounted` | `RefsAccounted`: `ref` counts users, threads, and threads on their way out |
| `PoolFreedOnce` | `FreedOnce`: one caller frees the pool, after everybody |
| `CountersAlways` | `Counters`: the counters the pool decides by describe its threads; the running ones always, the other classes of living threads until somebody resizes the pool |
| `UnbornOwnedAlways` | `UnbornOwned`, until the pool is resized |
| `NoStrandedWorkAlways` | `NoStrandedWork`: no wakeup is lost, until the pool is resized, if the system has the threads |
| `WorkConservingAlways` | `WorkConserving`: the pool grows while it should, under the same conditions |
| `NoTaskFreedAlways` | `NoTaskFreed`: no task in a pool that is freed, under the same conditions, if no task asks to run again |
| `TasksAsPromised` | `PoolUntilFreed`: every step up to the freeing of the pool is one of `TaskPool` or a stutter, resizing and tasks that run again included |
| `CoreImplementsTaskPool` | `PoolSafe`: `Spec` implements the safety half of `TaskPool`, its `Free` included, if nobody resizes the pool, no task asks to run again, and creating a thread does not fail |
| `RtImplementsCore` | `RtSpec => Spec` |
| `RtPoolFreedOnce` | `FreedOnce` with waiters |
| `RtTypeCorrect` | `RtTypeOK`, the types of `CpoolRt`, which no run checks besides |
| `NoWaiterFreedAlways` | `NoWaiterFreed`: nobody is in a wait of a freed pool |
| `NeedKeptAlways` | `NeedKept`: no waiter without `tsk_need_notify`, if nobody calls `stpool_wakeup` |
| `SuspendWaitsAlways` | `SuspendWaits`: whoever returns from `stpool_suspend` without a timeout or an interrupt has seen a pool that runs nothing, resized or not; in a pool of a fixed size if the GC thread gives the GC up in time (`LeavesGCInTime`) |
| `WaitAllWaitsAlways` | `WaitAllWaits`: the same of `stpool_wait_all` and all tasks, unless in a dynamic pool a task asks to run again (RtAgain), and with the same condition in one of a fixed size |
| `ListsApartAlways` | `ListsApart`: followed link by link, the lists of threads share nothing and hold just the tasks to be handled, if no list is added to whose head was left behind (DispatchAgain, DispatchMarked) |
| `CountedFirstAlways` | `CountedFirst`: the counters are the lengths of their lists, under the same condition |
| `HandledOnceAlways` | `HandledOnce`: a thread runs the error handlers of the tasks it took, each once, under the same condition |
| `QueuesAlwaysSound` | `QueuesSound`: every task that waits is found, once, and the queues are tried from the highest priorities down |
| `BehindNoLowerAlways` | `BehindNoLower`: nobody who comes is put behind a task of lower priority |
| `FirstEntriesAlways`, `FirstEntriesWaiting` | `FirstEntries`: the entries that are searched for a task are those that have some, none of them suspended, if no group is created suspended (GpPaused); in `CpoolGp`, and in `CpoolGpWait` if the table of groups does not grow while a group is being deleted (GpGrow), which the next four suppose as well |
| `GroupCountsAlways` | `GroupCounts`: what the pool and its groups count is what there is to take within the limits, and what is in hand, if no group with a limit is resumed or given another number of threads while it runs something (GpSpin), or other attributes while it has tasks, and none is created suspended |
| `NoSpinningAlways` | `NoSpinning`: who is told that there are tasks finds one, under the same conditions |
| `TakesFirstAlways` | `TakesFirst`: it is the first of all groups that may run one more, under the same conditions |
| `FreedAloneAlways` | `FreedAlone`: a group is freed and the pool shut when nobody refers to it any more, if no group is created suspended |
| `NobodyForgottenAlways` | `NobodyForgotten`: nobody sleeps on when what it waits for is there, if besides no task that is waited for is queued into another group (GpMoved) |
| `SyncToldAlways` | `SyncTold`: nobody sleeps on `cond_sync` when the last reference has gone, if besides nobody waits with groups of a pool that is released (GpShutdown) |
| `ObjectsReturnAlways` | `ObjectsReturn`: an object of the cache is in it exactly while its task is idle and nobody waits for it, if besides nobody waits for the suspension of a group (`group_cb`, GpSuspend) |
| `FlagsAlwaysKept` | `FlagsKept`: one GC thread, which `core->GC` names, and every marked thread counted, if none is marked, or used again though it was marked, inside `GC_leave` |
| `OnePlaceAlways` | `OnePlace`: each object of each block is in one place, once, and a `thread_t` in its cache or in use, if besides no block is found where the search for its place leaves the array (CacheSearch) |
| `PoolSoundAlways` | `PoolSound`: the blocks are sorted, none is there with all its objects put back, and `nput` counts those that are, under the same conditions |
| `AllFreedAlways` | `AllFreed`: a pool that is destroyed has given back every block and every `thread_t`, under the same conditions |

**The core.** The inductive invariant is built in two layers.

- `ThreadsInv` is `TypeOK`, `Sound(core)`, `Placed` and `RefsAccounted`.
  `RefsAccounted` alone is not inductive: a thread that leaves takes itself off
  `ths` and is counted in `releasing` instead, which keeps the sum only if it was
  in `ths`, and an object that is given up takes its reference along only if it
  was there. `Placed` says that a thread that runs is in `ths` and has a pthread,
  and that an object somebody looks at twice is still in his `thq`; `Sound` says
  that the marked and the unborn are in `ths`, that what is in a `thq` is unborn
  and in no other, and it contains `AliveRuns`. `CpoolCoreProofs` shows of every operator of
  `CpoolThreads` what it keeps (`Keeps`, `Grows`), and then goes
  action by action without opening them.
- `ReleaseIInv` adds `ReleaseInv`, which relates `status`, `release_cleaning`,
  `releaser`, `cleaners` and `ref`: while the pool is created a user holds it;
  when it is being destroyed either the last user waits, or has found that it has to free the pool, with no thread left in `ths`,
  or nobody waits and the last thread to drop its reference frees it. Only with both does "the one who
  sees 0 frees" give exactly one: `FreedOnce` says nothing of the states before.

**The service.** The counters of the core are sums over its threads that each
function updates by a rule of its own, and the decisions that wake and create
threads look at nothing else. `ServiceInv`, which goes with `ReleaseIInv`, says what
the counters are and what follows for the work there is:

- `Counted`: `ths`, `ths_waitq` and their lengths, who sleeps and who was told to
  wake. This holds always, and so does that `nthreads_running` is the number of threads that
  run something (`RunningAlways`, an induction of its own: only `StatusRun` and
  `StatusComplete` change it). While nobody resizes the pool (`resizes = 0`) `Classes`
  gives each of the counters of living threads as the size of the set of threads it
  stands for, and `Owned` and `Undisturbed` say that no thread object without a pthread is
  forgotten. After a flush that does not hold (section 6, `VERIFY` and
  CoreStranded), hence the hypothesis `resizes = 0`, which TLC refutes the
  theorems without.
- `Served`: if work is ready, some thread in the pool neither sleeps unsignalled
  nor is marked dead (`Server`); if besides a user holds the pool, it may not grow
  any more or such a thread will make it (`Conserved`).
- `Swept`: a pool that is being destroyed and runs nothing has no task left; a
  suspended one was swept, one that is not has its ready tasks served first.

`NoStrandedWork` by itself is not inductive: that a thread that goes to sleep leaves
none behind, or one that quits, depends on `NeedEnsure` having compared the right
numbers, hence on `Classes`. `CpoolCoreProofs`
shows of each function of `CpoolThreads` what it does to the sets behind the
counters, of any core `p` and of sets `A` (asleep) and `B` (busy) that are
parameters: within a function a thread is counted in its new class before its
`stat` says so, and the lemmas say which of the two is meant. The other
hypotheses are those of the runs. `~CreateMayFail`: a pool
whose system has no thread to give strands its work in the first step, whatever the
code does. `"again" \notin Calls` of `NoTaskFreedAlways`: CoreDtor shows what happens
otherwise.

**The implementation of `TaskPool`.** `PoolStep` is a step simulation: it goes through
the actions of the core and names for each the action of `TaskPool` that it is
under the mapping of section 2, or shows that it changes nothing `TaskPool` sees.
What has to be known of the functions of the core is that they leave the counters
of tasks alone (`SameTasks`), which `CpoolCoreProofs` shows of each; `ServiceInv` is needed
because a call that tells the threads of new work goes by the counters of
threads. `inhand` is a sum over the threads. A fold could not be reasoned about,
so `Total` is the size of the set that has `h[t]` elements for each thread `t`;
`TotalChanges` says that it moves by what one thread takes or finishes. `Destroy` is
left out of `PoolUntilFreed`, and in `CoreImplementsTaskPool` it needs `NoTaskFreed`, hence the
hypotheses of that: CoreDtor is a behaviour of the code in which a pool is freed
with a task in it, which `TaskPool` forbids.

**The lists of `list.h`.** The properties of `CpoolDispatchQ` follow the links from a head,
and no invariant about a node and its neighbours says where that ends. `DispatchIInv` says instead that
there is a sequence of tasks for each head (`ListsAre`) of which the links are the image: `IsList(next, prev, h, s)` is
that every link of `h` and of the tasks in `s` leads to the next of them, forth and back, and that no task is in `s`
twice. `Owns` says that a task is in the list that its state names, and in no other, and `CountsOf` that
the counters are lengths. Of each piece of pointer surgery one lemma says what it does to the sequence, in a list of any
length: `list_add_tail` and `list_splice` put one sequence into another (`BetweenIs`), `__list_cut_position` makes two
of one (`CutIs`), `list_del` takes off the first (`UnlinkIs`), and the splice of the whole queue to a thread moves it (`MovedIs`); `ListsStay`
says that all other lists are untouched, as their links are. That the k-th entry that a loop reaches is
the k-th of the sequence (`EntryIs`), and hence that the loop ends (`ListedIs`), is an induction over natural
numbers (`NatSetInduction`).

Only heads that are `Live` have a list: that of `dispatch_q` has none after all of it was taken, nor the ready queue
after `mark_cb`, since the code leaves their links as they were. The hypothesis `NoHeadLeftBehind` says that they
are not added to after that: `Refill` is FALSE, without which TLC finds a thread in another one's list
(DispatchAgain), and `mark_cb` is called in a suspended pool only, since a thread that takes from the ready queue after it runs what is to
be handled (DispatchMarked). Both are bounds that the code does not keep itself.

**The priority queue.** `PriqIInv` adds one fact to `QueuesSound`: a task that is
pushed, which is the one case in which `__cpool_com_priq_insert0` compares nothing,
has priority 0 and the policy BACK. From that `InsertedBehind` concludes that
putting a task before or right after the first of its queue is enough not to put
it behind a lower one, in a queue of any length and whether it is sorted or not.
Where a queue goes in `ready_q` is found by a search for the first one with lower
priorities; that there is one (`FirstBelow`) follows from the number of those with
higher ones, since an induction over the list is out of reach.

**The group pool.** `FirstEntries` says where the groups are in `actentry`, which
`Activate`, `Inactivate` and `Shrink` swap places of; what makes it hold is spread
over the whole pool, and the inductive invariant, `Held`, has a part for each place:

- `GroupSound`: each entry has one place in `actentry`, the active ones are among
  the first `active_idx`, `nactives_ok` is their number, and an entry is active
  exactly if it is not suspended and has tasks. `ShrinkKeeps` shows of the loop of
  `__cpool_gp_entry_shrink` that it gathers the active entries in front, whatever
  order they were in.
- `TaskSound`: each task that waits is in the queue of its group, once; a task that is
  not idle belongs to a group that is not free. Without the latter a slot
  could be given to a new group while a task of the old one comes back to it.
- `HandSound`: what a thread or user has in hand is run or dispatched by nobody else
  and is not in `dispatch_q`; a task that was detached is not its business any more.
  Otherwise a task could end twice, and the second end could come when it is
  already in a queue again.

The lemmas are about functions of the pool (`QueueHeld`, `RemovesHeld`, `TakeHeld`,
`FinishedHeld`, `DeleteGroupHeld` and so on, of any pool `s`), so that `CpoolGpWait`, whose actions
are those of `CpoolGp` and a few more that change `gp`, needs them once.
The hypothesis `TRUE \notin Suspended` (no group is created suspended) is what TLC
refutes the theorem without: GpPaused, section 6.

The loops of the group pool are folds. The induction theorems of the library
take the formula as an operator, but an induction over the natural numbers can
be stated of the *set* of those it holds for (`NatSetInduction`). From there the
module proves that a left fold has the results of its steps, one after another
(`FoldSteps`), and what a loop with an invariant establishes (`FoldEnds`, `StepInduction`).

**The counts of the group pool.** `npendings` and `effective` change by one at most
calls, by a whole group when one is suspended, resumed or set, and each place in the
code that does so works out the difference from the numbers of that group. The invariant
`Counted`, which goes with `Held`, says what they come to:

- `SumSound`: both are sums over all entries, of what is pending in each group that is not
  suspended (`Load`), and of the share of it that its limit lets threads take (`Part`); and
  `npendings_eff` of a group is that share (`EffOf`): what is left of its limit when what it runs is
  taken off, and no more than it has. `GroupCounts` sums over the groups that are
  ready only, and says nothing of a suspended group, whose number must be 0 for
  the group to be counted right when it is resumed.
- `OrderSound`, `DispSound`: the order of all tasks, by which `Before` compares, has those that wait;
  `ndispatchings` of the groups and of the pool are numbers of removed tasks.
- `RunSound`, `NrSound`: `nrunnings` of a group is the number of threads that run a task
  of it, and what is run is one task, taken from a queue and not removed.
- `Quiet`: no task waits, or will when it ends, in a group that is being deleted. A new
  number of threads changes the limits of those groups too, whatever they still run.
- that nobody spins.

A step changes one term of each sum (`Moved`), and the counters by as much (`MovedSound`);
suspending or resuming all groups is a loop of such steps. The library says nothing of
sums over sets: `SumIs` is proved of `SumFunctionOnSet` by an induction over
the parts of a finite set (`SubsetInduction`), which again is stated of a set of sets. The hypotheses on
`Careful` are for `EffOf`: `cpool_gp_entry_resume`, `__cpool_gp_entry_set_attrl` and
the change of the number of threads set `npendings_eff` without regard to what the
group runs. It is right when that is nothing.

`NoSpinning` then follows: if `effective` is not 0, one of its terms is not, hence
there is a group with tasks, not at its limit or with benefits, and the search finds it.
For `TakesFirst`, `BeforeKey` gives each task that waits a number, so that
`Before` is a strict order; `SearchBest` shows of the loop over the entries that
after each of them it has the best of those it has seen (`Best`), and `FoundBest` puts the two
searches together: the first is for groups within their limits, the second for those with benefits too.

**The waits of the group pool.** Each of the four theorems of `CpoolGpWaitProofs` is an
induction with `Held`, with `WaitSound` and with one part of its own.

- `WaitSound`: the types of `gw`; what each caller that is not out asks for
  (`Requests`: a waiter for a task names one, a group it waits in is not free);
  who deletes which group (`Deletions`: a group that is being deleted has one
  user, who waits for its tasks and has nothing else in hand); a pool that is shut has
  no references. It gives `FreedAlone`: that who frees looks at the references in the
  same step is not enough, since nobody may come in afterwards, nor may a second user be
  deleting the same group.
- `Watched`, for `NobodyForgotten`: as long as somebody is parked, what it waits for is not
  there (`Unmet`), or it has been woken; and the flags by which those who
  bring it know of the waiter are set (`Flagged`). Without the flags it is not inductive:
  a broadcast for one group resets those of the whole pool, and only because everybody
  who is woken by it looks again and sets them anew is nobody lost.
  `Unmoved` says that the task somebody waits for is in the group whose flags he set, which is
  where the assumption `"move" \in Careful` comes in.
- `SyncSound`, for `SyncTold`: the three kinds of callers that share `cond_sync`, and which
  reference each sleeps for, that of a task that is detached, a group, or the pool. There
  is one flag for all of them, so each broadcast wakes everybody, and the last one to leave
  each kind must make one. In a pool that is released nobody waits with groups,
  which the code does not see to: hence `"release" \in Careful`.
- `CacheSound`, for `ObjectsReturn`: the property itself. The last step of
  a task and of a wait for it each look at the other. A caller that waits for the suspension of
  a group may go on waiting for a task that is over, whose object it has itself put back
  (GpSuspend with `INVARIANTS ObjectsReturn`): hence `"group_cb" \notin Kinds`.

`TRUE \notin Suspended` comes with `Held`. The three other hypotheses, and `"grow" \in Careful`,
which all five theorems have, are what
TLC refutes the theorems without. With `"grow"` nobody's pointer is ever `outdated`, which
is part of each induction (`StaysFresh`), and the references a deleting caller finds
are those there are (`FreeOrSyncFresh`). The steps of the pool and those of one caller are
kept apart. `Passed` says of a function of `CpoolGp` and of `TasksDone` together all that the waiters
need to know: which tasks ended and that those who asked for them are woken, that no group
goes which somebody refers to, that no object comes back to the cache before its time. It
is shown of each function once, and each of the inductions takes it from there. Of a caller, `Begins`, `Stays` and
`Leaves` say how one request changes, and `Apart` that those of all others do not.

**The waits.** `RtStepsAreCoreSteps` shows that every step of `CpoolRt` is one of
`CpoolCore` or leaves its variables alone; `RtImplementsCore` follows, and with
it every theorem of the core. `RtIInv` adds `WaitersInv`: from the moment the
handler of the shutdown has seen everybody off (`syncer = "done"`), all waiters
are out; and none comes in, since the handler runs only when the pool is no
longer created, which is the other half of the invariant. `NeedKept` is proved by an induction of its own
(`Kept`): a waiter about to be parked sets the flag, and whoever clears it
broadcasts in the same step, with the one exception of `cpool_rt_wakeup_task_wait`,
hence the assumption `"wakeup" \notin RtCalls`.

`SuspendWaits` and `WaitAllWaits` need no induction over the waiters: `WhoReturnsSaw`
says that whoever returns tests the counters of the pool in the step in which he
does. What is left is that these counters mean what the waiter takes them for. In a pool of a fixed
size he compares `n_qths` with `n_qths_wait` and `n_qths_waked`, and with one more if the GC thread is awake;
by the set sizes in `Counted` all threads sleep when they agree, but for the one of the GC, which
then is not at a place where it has a task: that is what `LeavesGCInTime` says, and the only use of it.
In a dynamic pool he reads
`nthreads_running`, and `RunningAlways` says that nobody runs when it is 0. That holds whatever is
resized, so neither theorem has a condition about it. Only with a task that runs again
does the dynamic test see less than `WaitAllWaits` asks for: hence the other assumption
of that theorem.

**The cache.** `FlagsIInv` has two parts. `Agree` says of each thread object what its
flags may be where it is: none while it is not in use; in `GC_leave`, between its
reading and its writing, the mark it has read is the one there is, which is where
the assumption `"marks" \in Careful` comes in, and the only place: neither a mark nor its
removal (`ReviveKeeps`) falls in between. `CacheOf` says
that `core->cache_thread` holds each thread object once and none in use: the
object at its head gets new flags when a thread is started with it, and a mark
that somebody counted would be lost if it were in the list twice. `Agree` is stated
of any threads and core, not of the variables, since a thread that finds no task
goes through several changes under one lock (`Selected`, `Rest`, `Left`), each of
which has its lemma; that of `smcache_add_limit` says that what is destroyed is
not what stays.

`OnePlace`, `PoolSound` and `AllFreed` follow from one more invariant, `PlaceIInv`,
which needs `FlagsIInv`. It has four parts:

- `ObjectsKept`: there is a function `w` from the objects to where they are. The
  shared list, what tasks hold, and the task, list and outgoing list of each thread
  have just the objects that `w` puts there, each once (`Lists`, `ThreadIn`); an object
  whose block is not allocated is nowhere; and the pool has sorted blocks with those
  of their own objects that were put back, never all of a block, and counts them
  (`IsPool`). A step moves sets of objects from one place to another (`Moves`): all that
  a thread hoards goes to the shared list at once, what is too much there goes one by one
  into the blocks, and `objpool_get` takes back what it finds in one block after the other.
- `ThcOK`: every `thread_t` that is not in use is in the list of `core->cache_thread`,
  those that may be destroyed in front, and not more than the limit of them unless
  none may be. `smcache_add_limit` overwrites the list it was to return when the object
  it adds is rejected; since the list is ordered and fits, there is nothing in it then
  (`AddLimitLoses`), and no `thread_t` is lost.
- `CoreIn`: the types of the fields of the core.
- `LifeOK`: once a pool is released no caller is inside it; while tasks hold objects
  it has threads, none of them asleep; and when it is destroyed nothing is left.
  The last thread gives back its own objects, and `objpool_put` frees each block with
  its last object: no block has all its objects back (`IsPool`), so a pool with every object
  back has no block (`NeverFull`, `Emptied`).

The loops of the code over blocks and lists, and the two bisections, are folds and recursive
functions in the model. What they compute is proved step by step: the
induction theorems of the library cannot be used, but that a set of numbers with 0 and
each successor has all of them can (`NatSetInduction`), applied to the set of those `n` after
whose first `n` steps the claim holds (`AddSteps`, `PutSteps`, `TurnSteps`), or, for a
bisection, of those lengths of a span for which it is defined and finds the block (`FindExists`,
`BlockFound`) or the place to insert it (`SearchExists`, `PlaceFound`). `BlockFound` needs
that the blocks are sorted and that the object is in one of them, which the invariant has. `PlaceFound`
needs that the search ends inside: `r` is unsigned and wraps when the
new block lies below the first of two, which is what `"ascending" \in Careful` excludes.

**Only model-checked**, and why:

- `GroupCounts` of `CpoolGpWait` (run GpWait), where tasks are detached while they
  run, and groups deleted with tasks in hand: `RunSound` and `Quiet` would have to tell who
  detached which. In `CpoolGp` it is proved;
- liveness (`PoolServes`, `PoolFinishes`, `WaitEnds`, both `ReleaseEnds`,
  `DeleteEnds`, `Handled`): the prover has neither fairness nor ENABLED.

No module uses a RECURSIVE operator.

## 6 Disagreements found

The code and what its documents, comments or assertions say differ in the
places below. Each has a configuration, in most cases of the smallest instance that
shows it, or one of section 3 with the change that is named; TLC reports the
property beside it as violated. CacheSearch is a run of
`PROJECT.json` with its finding; the others are kept to be run by hand (with the
modules of section 3).

| Configuration | Property | What happens |
|---|---|---|
| CacheSearch | `SearchInside` | The assertion at `objpool.c:108`. `objpool_get` sorts its blocks by bisection with `size_t` bounds; when a third block lies below the first two, `r = (l+r)/2 - 1` (line 101) wraps around and the search goes on far behind the array. |
| ObjCache with `Careful = {"ascending"}` | `FlagsKept` | `cpool_core_GC_leave` is called without the lock under the comment "We do not need to hold the global lock" (`cpool_core_gc.h:33`, `cpool_core.c:729`) and reads and writes `flags`: a mark `THREAD_STAT_RM` set in between is lost; the thread stays, and `nthreads_dying` counts it for ever. So is a removal of the mark: `cpool_core_add_threadsl` uses a marked thread again (lines 899-948) and takes it off `nthreads_dying`, and `GC_leave` writes the mark back; the thread leaves after all and is taken off once more. Either of the two alone violates the property. |
| RtRemove with `LeavesGCInTime = FALSE` | `WaitAllWaits`; `SuspendWaits` | `stpool.h:1365`: wait for all completions. In a pool of a fixed size `cpool_core_all_donel` (`cpool_core.h:110-114`) takes the GC thread, awake, for one that sleeps. It takes a task under the lock and gives the GC up after the unlock (`cpool_core.c:728`); `stpool_wait_all` and `stpool_suspend` return in between, with the task about to run. |
| GpPaused | `FirstEntries` | `stpool_group.h:335`: the pool stops peeking tasks from a suspended group; `assert (!entry->paused)` (`cpool_gp_internal.h:90`). The slot of a group that was emptied and deleted may still be among the first `active_idx` entries; a group created *suspended* in it (`cpool_gp_advance_method.c:166`) is searched, and its tasks are run. |
| GpSpin | `NoSpinning` | `assert (gpool->nactives_ok > 0 && !benifits)` (`cpool_gp_internal.h:184`). `cpool_gp_entry_resume` sets `npendings_eff` to `min(npendings, limit_tasks)` without regard to the tasks the group is running; `core->npendings` then counts tasks no thread may take, and the thread that looks for one searches again (line 186) for as long as those run, with `core->mut` held: they cannot end. `__cpool_gp_entry_set_attrl` does the same. |
| GpDetach | `GroupCounters` | A task that detaches itself may be queued again and taken by another thread before `cpool_gp_task_detach` resets `thread` after its unlock (`cpool_gp_method.c:338`). When the second run detaches itself too, it is taken for a removed task: `nrunnings` stays 1 and `ndispatchings` becomes negative, which puts the group at its limit for ever. |
| GpMoved | `NobodyForgotten` | `stpool_task_wait` waits in the group the task was in when it was called, also after the task was done and queued into another group, whose `tsk_need_notify` nobody has set: the end of the second run tells nobody. |
| GpSuspend | `SuspendTold` | `stpool_group.h:342`: wait for the completions of all tasks in progress. The callback of `cpool_gp_entry_suspend` finds no running task in the group any more, and `__cpool_gp_w_wait_cbl` goes on waiting for the task it has waited for, which may never run again. |
| GpSuspend with `Kinds = {"suspend"}` | `SuspendTold` | The same of `stpool_suspend`: a task that is queued again by itself stays pending in the suspended pool, nothing runs, and the caller is not told. |
| GpShutdown | `SyncTold` | The handler of the shutdown waits on `cond_sync` for `tsk_wref` of the pool, in which callers that wait with a group count; when the last of these leaves, `__cpool_gp_w_waitl` (`cpool_gp_wait.c:327`) looks at the group only: the pool is never freed. |
| GpWsync | `WsyncTold` | `stpool_task_delete` waits on `cond_sync` for the last reference to a task that is done (`cpool_gp_method.c:615`); the waiter that gives it back signals only tasks that are detached. |
| GpAny | `DeleteEnds` | A call of `cpool_gp_entry_wait_any` that finds the group being deleted waits for a task that will not come, after everybody was interrupted: the deletion never returns. |
| GpGrow | `SyncTold` | `cpool_gp_entry_delete` takes a pointer to its entry (`cpool_gp_advance_method.c:240`), waits without the lock, and goes on with it (lines 253 and 264). A group created meanwhile may move the table (`realloc`, line 107). The old one still counts the reference the caller had while it waited: it sleeps on `cond_sync` for nobody. Or the memory holds something else: the caller then marks an entry free that is not in the table any more, and the group stays. The assertion at line 253 reads the same memory. `DeleteEnds` fails for the same reason (GpEnds with `MaxNum = 3` and without `grow`). |
| CoreStranded | `WorkServed` | `stpool.h:1063`: tasks added to a pool that is not suspended have threads created at once. A thread that `stpool_flush` marks dead while it was signalled leaves `nthreads_real_free` wrong (`cpool_core_dec_threadsl`, `status_changel`); `need_ensure_servicesl` (`cpool_core.h:135`) then believes in a free thread, and a task queued into a pool without threads waits for ever. |
| RtAgain | `WaitAllWaits` | `stpool.h:1365`: wait for all completions. A task that is to run again is taken off `nthreads_running` (`cpool_rt_core_method.c:392`) before it is put back on the ready queue in another critical section; `stpool_wait_all` returns in between. |
| DispatchAgain | `HandledOnce` | `stpool.h:1254`: error handlers of removed tasks are called. `__list_splice` (`cpool_com_internal.h:52`) leaves the head of `dispatch_q` pointing at what was taken; after the next removal the handlers of earlier tasks are called again. Confirmed on the library. |
| PriqOrder with `PROPERTY HigherFirst` | `HigherFirst` | `stpool.h:936`: higher priorities first. A task is compared with the first of its queue (`cpool_com_priq.h:52`) where the comment says last, and put right after it. Confirmed: priorities 50, 40, 40, 30 run as 50, 30, 40, 40. The assertion at `cpool_com_priq.h:150` says the same as the property. |
| CoreResize with `INVARIANT VERIFY` | `VERIFY` | The assertions of VERIFY (`cpool_core.c:1190-1208`), which are compiled out: a signalled sleeper that is marked dead is counted off the sleeping threads once by the marking and once more when it wakes. |
| CoreResize with `PROPERTY ReusedIsLaunched` | `ReusedIsLaunched` | The comment at `cpool_core.c:666` speaks of an object that was marked dead and is to be reused; the test at line 642 is the other way round: the reused one leaves the pool, the dead one is launched. |
| CoreLost | `CreatorRuns` | The loop at `cpool_core.c:701` tests `exq` and takes from `thq`: after a failed `pthread_create` the thread never runs what it took. |
| CoreDtor | `NoTaskFreed` | The destructor asserts that nothing is pending (`cpool_core.c:245`). A running task that is to be queued again is put into the suspended pool after the release has swept it; it is freed with the pool. |
| RtPaused | `WaitEnds` | `event_free_notified` (`cpool_core.h:123`) may stay set over `stpool_resume`; the event that ends `stpool_wait_all(-1)` is then not raised. |
| RtRemoved | `WaitEnds` | `__cpool_rt_try_wakeup` (`cpool_rt_internal.h:79`) hands the core to a handler that expects the routine pool, which therefore does nothing: `stpool_wait_all(-1)` waits on in an empty pool. |
| RtInterrupt | `InterruptEndsWait` | `stpool_wakeup` sets `b_interrupted` and broadcasts without the lock (`cpool_rt_method.c:150`): between a waiter's look and its wait the interrupt is lost. |
| RtRemove with `INVARIANT WakeupHarmless` | `WakeupHarmless` | The callback for `throttle_wait` (`cpool_rt_method.c:635`) casts a `struct cpool_rt` to a core. |
| RtShutdown | `ReleaseEnds` | `ref_sync` is set to 0 by the last waiter of one kind (`cpool_rt_method.c:721`), counted down to -1 and up to 0 by the handler, so that the last waiter of the other kind wakes nobody: the pool is never freed. |
| RtFreed | `FreedUnwatched` | The request of a waiter stays registered after it was counted out (`cpool_rt_method.c:226`), and `stpool_wakeup` may follow it into a freed pool. |
| DispatchMarked | `RemovedNotRun` | `CPOOL_RT_MARK_CB` (`cpool_rt_method.c:574`) links a task to another list without unlinking it and without counting `npendings` down: it is handled as removed, and later run. Confirmed. |
| PriqOrder with `Pris = {10, 99}` | `QueueExists` | With three queues `avg_pri` is 33, and priority 99 leads to queue 3, one beyond the last (`cpool_com_priq.h:128`; asserted at line 168). |
| PriqOrder with `INVARIANT QueueFits` | `QueueFits` | `cpool_com_cache_get` does not reset `priq` (`cpool_com_method.c:160`): a task without attributes waits in the queue of the task its object was before. Confirmed. |
| PriqOrder with `PROPERTY OnceCounts` | `OnceCounts` | A priority for the next time only, set by the running task that then queues itself again, is reset before it counts (`cpool_rt_core_method.c:386`). |

Confirmed means that the library, built as it is and called through its public
functions, did what the model says.

Met in reading, without a configuration:

- a task with policy TOP and the priority of the first task of its queue runs into
  `assert(0)` at `cpool_com_priq.h:63` in a build with assertions; and tasks of the
  same priority and policy BACK are not kept in the order of their arrival
  (`stpool.h:224`), for the reason shown by `HigherFirst`;
- `cpool_gp_entry_remove_all`, `_mark_all` and `_wait_all` pass `gpool->core` where
  the function they call expects the pool (`cpool_gp_advance_method.c:722, 730, 758`);
- `cpool_gp_entry_suspend_all` tells its callback the groups in an array of which it
  sets neither the length nor, at first, the result (line 428);
- the bounds of group ids are checked with `id > num` in several places (lines 363
  and 506, `cpool_gp_method.c:114`, `cpool_gp_wait.c:498`);
- the assertion `active_idx < num` (`cpool_gp_internal.h:83`) fails when all entries
  are active;
- `smcache_add_limit` (`sm_cache.c:178`) forgets what was flushed when it rejects an
  object in the same call, which its callers never make happen;
- `smcache_deinit` destroys the lock only when it is not its own (`sm_cache.c:237`).

## 7 Abstractions and what is not modelled

- **Lists.** `ths`, `ths_waitq`, `thq` and the ready queue are sets or counters in
  `CpoolCore`: which of several sleepers is signalled, or which of several objects
  is launched first, is a choice, so that nothing shown depends on it.
  `CpoolDispatchQ` has the links and `CpoolPriq` the order. The marked threads
  are any of the candidates the code tells apart.
- **Tasks** are counted in `CpoolCore` and `CpoolRt`. What is pending is taken by
  number; the defect of DispatchAgain, whose tasks are more than were counted,
  is therefore in `CpoolDispatchQ` only, and `CpoolCore` takes what the counters say.
- **Assertions** are compiled out, as the build files do (`-O2 -DNDEBUG`): they
  are properties where they say something, never guards.
- **Wakeups.** Sleeping threads wake when signalled or timed out, as they do with the
  pthread library the code runs on; spurious wakeups are modelled of `cond_ths` and
  `cond_com`, where the code loops. It does not in `cpool_core_schedule`: a sleeper
  woken for no reason would stay linked in `ths_waitq` as a running thread.
- **Clocks.** A timed wait may end at any time.
- **Failing `pthread_create`** gives one object up; the code then gives up the rest
  of its `thq` as well, here some of them may still be launched, which allows more.
- **Caches.** In `CpoolCore` and `CpoolRt` thread and task objects are there when
  needed, and `CpoolPriq` recycles each object at once; `ObjCache` has their ways.
- **`CpoolRt`**: one remover at a time; the registration of a waiter and its first
  pass through the loop are one step, each later pass another; a `stpool_wakeup`
  that comes after a waiter's look at `b_interrupted` and before its wait belongs
  to the look (`Park`). What `stpool_task_queue` reads without the lock (status and
  throttle) it reads in the step that queues.
- **GC in `CpoolCore` and `CpoolRt`**: how much is in the cache is left open, so that any thread without
  a task may take the GC up if nobody has it, go on with it, or leave it. `core->GC` is read and written in one step
  each, where `cpool_core_all_donel` reads it four times, while `GC_leave` writes without the lock: what
  it does with a null pointer in between is not followed. A GC thread that is marked dead in a pool that
  was released sleeps once more before it leaves; here it looks again without (`Collect`).
  `cpool_core_try_GC`, which wakes or starts a thread for the GC, is in `ObjCache` only.
- **Removed tasks** are handed to the pool in `CpoolCore` and `CpoolRt`; the other case of `__cpool_rt_task_dispatch`
  (`cpool_rt_internal.c:88-110`), in which the remover runs the error handlers itself, and these may ask
  for their task to be queued again, is in the group pool's model only (`DispatchNext`).
- **`CpoolDispatchQ`**: all tasks have error handlers and are added once. With
  `Refill` FALSE nothing is removed any more once the queue of removed tasks was
  emptied, and nothing added once `mark_cb` was called, after which the links are
  wrong (DispatchAgain, DispatchMarked). `mark_cb` is called once; of its two marks
  the model has the one that hands the task to the pool.
- **`CpoolPriq`**: attributes are changed while a task runs or is out, not while it
  waits; `erase` belongs to the group pool.
- **`CpoolGp`**: the queue of a group is one sequence (`priq_num` is 1), `index` is
  the inverse of `actentry`, the trace queue of a group is the set of tasks that are
  not idle, and `seq` is the order in which tasks were queued. `dispatch_q` is a
  sequence: what its links do is in `CpoolDispatchQ`. `f_stat` read before the lock
  is read with it. Throttles are a guard of `Queue`; the overload policy and
  statistics are left out, and so is any step that only wakes or creates threads.
- **`CpoolGpWait`**: leaving the registry, looking again and registering anew are one
  step of a waiter, which holds the lock all through; that `stpool_wakeup` needs no
  lock, and may come too early, is in `CpoolRt`. Reference counts are the sets of
  those who hold them. Whoever goes on with an outdated pointer finds references or none, and
  frees an entry of the old table; what else is at that address, and what such a write destroys, is not followed.
  `realloc` may move the table or not. Left out: `WAIT_TYPE_TASK_ANY2`, which the public functions
  never reach, the wait of `cpool_gp_entry_suspend_all`, and `wait_cb` with a
  callback of the user.
- **`ObjCache`**: addresses are places in an order, an object is its block and its
  place in it, and a block has the same number of objects everywhere. The shared list is a sequence with its two ends as in the
  code. Pauses of the GC end at any time. The group pool's cache has `core->mut` as
  its lock, the routine pool's one of its own: each step is within either. The step
  by step trimming of very large caches at release is left out.
- **Not modelled**: the components marked `not_modelled` in `PROJECT.json`, the
  constructor's error path, `stpool_task_wait` and its relatives, user code that
  calls the pool from an error handler other than to queue itself again.

## 8 Plan

Done: (1) `CpoolThreads`, `CpoolCore`, `TaskPool` and their proofs; (2) `CpoolRt`
and its proofs; (3) `CpoolDispatchQ`; (4) `CpoolPriq`; (5) `CpoolGp`; (6)
`CpoolGpWait`; (7) `ObjCache`.

What is left of the modelling is small or outside: waits for single tasks in the
routine pool, which are those of the group pool without groups; the waits for
tasks of several pools in `stpool.c`; attributes changed while a task waits.

Proved since: `Counters`, `UnbornOwned`, `NoStrandedWork`, `WorkConserving` and
`NoTaskFreed` of `CpoolCore`, and that it implements `TaskPool`; `SuspendWaits` and `WaitAllWaits` of `CpoolRt`; `ListsApart`, `CountedFirst` and `HandledOnce` of `CpoolDispatchQ`; `QueuesSound` and `BehindNoLower` of `CpoolPriq`; `FirstEntries` of `CpoolGp` and `CpoolGpWait`; `GroupCounts`, `NoSpinning` and `TakesFirst` of `CpoolGp`; `FreedAlone`, `NobodyForgotten`, `SyncTold` and `ObjectsReturn` of `CpoolGpWait`; `FlagsKept`, `OnePlace`, `PoolSound` and `AllFreed` of `ObjCache`.

Next theorem: `GroupCounts` of `CpoolGpWait`.

New runs take the place of weaker ones where they ask more of the same code.
