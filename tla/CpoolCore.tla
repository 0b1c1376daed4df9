------------------------------ MODULE CpoolCore ------------------------------
(***************************************************************************)
(* The core of a task pool (src/pool/core) together with the part of the   *)
(* routine pool (src/pool/rt) it calls: worker threads that take tasks,    *)
(* sleep, time out, are retired and reused, the users that queue and       *)
(* remove tasks, suspend, resize and flush the pool, and the release of    *)
(* the pool by its last reference.                                         *)
(*                                                                         *)
(* A step is one critical section of core->mut, or one access a thread     *)
(* makes without it (pc says where the thread is in cpool_core_schedule).  *)
(* Tasks are counted, not named: npendings is the length of the ready      *)
(* queue, n_qdispatchs that of the queue of removed tasks whose error      *)
(* handlers the pool still has to run.                                     *)
(*                                                                         *)
(* A thread that finds nothing to take may collect the garbage of the task *)
(* cache ("GC" in Calls); which thread it is matters to CpoolRt only.      *)
(*                                                                         *)
(* Left to other modules: the order of the ready queue, the waiters of     *)
(* suspend and wait_all (eEvent_F_free), the task cache itself.            *)
(***************************************************************************)
EXTENDS CpoolThreads

CONSTANTS
    InitMax, InitMin,   \* maxthreads and minthreads given to the constructor
    InitPaused,         \* is the pool created suspended ?
    Batch,              \* rtp->n: removed tasks a thread takes at one time
    Calls,              \* the calls the users make, a subset of AllCalls;
                        \* GC: their tasks come from the cache of the pool
    AdjustArgs,         \* pairs <<max, min>> they pass to stpool_adjust_abs
    MaxPending,         \* bound: tasks pending, being removed or to be redone
    MaxUserRef,         \* bound: references the users hold
    MaxReleasing,       \* bound: exiting threads yet to drop their reference
    MaxResizes          \* bound: calls of flush and adjust

AllCalls == {"queue", "again", "remove", "suspend", "resume", "flush",
             "adjust", "addref", "release", "GC"}

ASSUME BoundAssumption ==
    /\ InitMin \in Nat /\ InitMax \in Nat \ {0} /\ InitMin <= InitMax
    /\ InitMax <= Cardinality(Threads)
    /\ InitPaused \in BOOLEAN
    /\ Batch \in Nat \ {0}
    /\ Calls \subseteq AllCalls
    /\ AdjustArgs \subseteq (Nat \ {0}) \X Nat
    /\ \A a \in AdjustArgs : a[2] <= a[1] /\ a[1] <= Cardinality(Threads)
    /\ MaxPending \in Nat /\ MaxUserRef \in Nat /\ MaxReleasing \in Nat
    /\ MaxResizes \in Nat

VARIABLES
    core,       \* what core->mut protects, a CoreType
    pc,         \* where each thread is, see Location
    timed,      \* sleepers whose last_to is finite
    again,      \* threads whose current task is marked DO_AGAIN (WPENDING)
    batch,      \* length of each thread's dispatch_q
    suspect,    \* the head of its thq a thread found marked dead, or NoSelf
    exq,        \* threads whose exception queue exq is not empty
    held,       \* tsks_held_by_dispatcher
    releasing,  \* threads that left ths and will call cpool_core_release_ex
    releaser,   \* the last user in cpool_core_release_ex
    cleaners,   \* callers that found it is up to them to free the pool
    resizes     \* calls of flush and adjust so far, for the bound

vars == <<core, pc, timed, again, batch, suspect, exq, held, releasing,
          releaser, cleaners, resizes>>

\* entry    in cpool_core_thread_entry, or not started at all
\* gettask  about to call cpool_core_gettask
\* asleep   in pthread_cond_(timed)wait on its own condition
\* create   in do_create_threads
\* exec     running a task, or the error handlers of its dispatch_q
\* requeue  about to add the task it has done to the ready queue again
\* test     about to read self->run at the end of the schedule loop
\* leave    about to take the lock to leave
\* lost     in the last loop of do_create_threads, which does not end
Location == {"entry", "gettask", "asleep", "create", "exec", "requeue",
             "test", "leave", "lost"}

\* no      nobody waits for the threads
\* waiting in pthread_cond_wait(&core->cond_ths)
\* woken   cond_ths was broadcast
Releaser == {"no", "waiting", "woken"}

TypeOK ==
    /\ core \in CoreType
    /\ pc \in [Threads -> Location]
    /\ timed \subseteq Threads
    /\ again \subseteq Threads
    /\ batch \in [Threads -> Nat]
    /\ suspect \in [Threads -> Threads \cup {NoSelf}]
    /\ exq \subseteq Threads
    /\ held \in Nat
    /\ releasing \in Nat
    /\ releaser \in Releaser
    /\ cleaners \in Nat
    /\ resizes \in Nat

Init ==
    /\ core \in AddThreads(NewCore(InitMax, IF Dynamic THEN InitMin ELSE InitMax,
                                   InitPaused),
                           NoSelf, IF Dynamic THEN InitMin ELSE InitMax)
    /\ pc = [t \in Threads |-> "entry"]
    /\ timed = {} /\ again = {} /\ exq = {}
    /\ batch = [t \in Threads |-> 0]
    /\ suspect = [t \in Threads |-> NoSelf]
    /\ held = 0 /\ releasing = 0 /\ releaser = "no" /\ cleaners = 0
    /\ resizes = 0

Created == core.status = "created"

\* Tasks the bound MaxPending counts.
Load == core.npendings + core.n_qdispatchs + held + Cardinality(again)

Goto(t, l) == pc' = [pc EXCEPT ![t] = l]

\* pthread_cond_broadcast(&core->cond_ths)
BroadcastIf(cond) ==
    releaser' = IF cond /\ releaser = "waiting" THEN "woken" ELSE releaser

-----------------------------------------------------------------------------
(***************************************************************************)
(* The worker thread: cpool_core_thread_entry and cpool_core_schedule      *)
(***************************************************************************)

\* The thread starts.
Join(t) ==
    /\ pc[t] = "entry" /\ t \in core.ths \ core.unborn
    /\ core' = [core EXCEPT !.stat[t] = "JOIN"]
    /\ Goto(t, "gettask")
    /\ UNCHANGED <<timed, again, batch, suspect, exq, held, releasing,
                   releaser, cleaners, resizes>>

\* Fault: the thread does not look at its thq.
FaultyTaken(t, p, k) ==
    /\ core' \in IF Dynamic THEN StatusRun(p, t) ELSE {p}
    /\ batch' = [batch EXCEPT ![t] = k]
    /\ Goto(t, "exec")
    /\ UNCHANGED <<timed, again, suspect, exq, held, releasing, releaser,
                   cleaners, resizes>>

\* What follows a successful gettask: a thread that was handed new threads
\* creates them before it runs what it took.
Taken(t, p, k) ==
    /\ core' \in IF Dynamic THEN StatusRun(p, t) ELSE {p}
    /\ batch' = [batch EXCEPT ![t] = k]
    /\ Goto(t, IF core'.thq[t] # {} THEN "create" ELSE "exec")
    /\ UNCHANGED <<timed, again, suspect, exq, held, releasing, releaser,
                   cleaners, resizes>>

\* Removed tasks go first, at most Batch of them.
TakeDispatch(t) ==
    /\ pc[t] = "gettask" /\ core.n_qdispatchs > 0
    /\ LET k == Least(core.n_qdispatchs, Batch)
       IN  Taken(t, [core EXCEPT !.n_qdispatchs = @ - k], k)

\* Fault: a suspended pool is not told from another.
FaultyTakeTask(t) ==
    /\ pc[t] = "gettask" /\ core.n_qdispatchs <= 0
    /\ core.npendings # 0
    /\ Taken(t, [core EXCEPT !.npendings = @ - 1], 0)

TakeTask(t) ==
    /\ pc[t] = "gettask" /\ core.n_qdispatchs <= 0
    /\ ~core.paused /\ core.npendings # 0
    /\ Taken(t, [core EXCEPT !.npendings = @ - 1], 0)

NothingToTake == core.n_qdispatchs <= 0 /\ (core.paused \/ core.npendings = 0)

\* cpool_core_get_restto returns 0: quit rather than wait.
MustQuit(t) == ~Created \/ t \in core.rm

Quit(t) ==
    /\ pc[t] = "gettask" /\ NothingToTake /\ MustQuit(t)
    /\ core' = StatusForceQuit(core, t)
    /\ Goto(t, "test")
    /\ UNCHANGED <<timed, again, batch, suspect, exq, held, releasing,
                   releaser, cleaners, resizes>>

\* cpool_core_GC_gettaskl: may a thread do the GC ?  Also in a pool that was
\* released, as long as the threads are to free it.
MayCollect == "GC" \in Calls /\ (Created \/ ~core.release_cleaning)

\* cpool_core_get_restto: threads in excess of minthreads and the GC thread
\* wait for a limited time, the others for ever.  The GC thread alone sleeps in
\* a pool that was released.
Sleep(t) ==
    /\ pc[t] = "gettask" /\ NothingToTake
    /\ t \notin core.rm /\ (Created \/ MayCollect)
    /\ core' = StatusWait(core, t)
    /\ \/ (core.sleeping >= core.minthreads \/ MayCollect) /\ timed' = timed \cup {t}
       \/ core.sleeping < core.minthreads /\ timed' = timed \ {t}
    /\ Goto(t, "asleep")
    /\ UNCHANGED <<again, batch, suspect, exq, held, releasing, releaser,
                   cleaners, resizes>>

\* A turn of the GC (TASK_TYPE_GC), or a rest of 1 ms, for which the GC thread
\* does not sleep.  (Nor does it here if it is marked dead in a pool that was
\* released; the code lets it sleep once more before it leaves.)
Collect(t) ==
    /\ pc[t] = "gettask" /\ NothingToTake /\ MayCollect
    /\ Goto(t, "test")
    /\ UNCHANGED <<core, timed, again, batch, suspect, exq, held, releasing,
                   releaser, cleaners, resizes>>

\* The condition of the sleeper was signalled.
Wake(t) ==
    /\ pc[t] = "asleep" /\ t \in core.waked
    /\ core' \in StatusFree(core, t)
    /\ Goto(t, "test")
    /\ UNCHANGED <<timed, again, batch, suspect, exq, held, releasing,
                   releaser, cleaners, resizes>>

\* The wait timed out, whether or not the condition was signalled meanwhile.
TimeOut(t) ==
    /\ pc[t] = "asleep" /\ t \in timed
    /\ \E retire \in {FALSE} \cup {MayRetire(core, t)} :
         core' \in StatusTimedOut(core, t, retire)
    /\ Goto(t, "test")
    /\ UNCHANGED <<timed, again, batch, suspect, exq, held, releasing,
                   releaser, cleaners, resizes>>

(***************************************************************************)
(* do_create_threads                                                       *)
(***************************************************************************)

\* Fault: the test of exq is turned round.
FaultyLoopOn(t, Q) ==
    /\ exq' = Q
    /\ suspect' = [suspect EXCEPT ![t] = NoSelf]
    /\ Goto(t, IF core'.thq[t] # {} THEN "create"
               ELSE IF t \in Q THEN "exec" ELSE "lost")

\* u has left t's thq, and Q is who has an exq now: the loop goes on, or t
\* runs its task, or its last loop, over exq, looks into thq and never ends.
LoopOn(t, Q) ==
    /\ exq' = Q
    /\ suspect' = [suspect EXCEPT ![t] = NoSelf]
    /\ Goto(t, IF core'.thq[t] # {} THEN "create"
               ELSE IF t \in Q THEN "lost" ELSE "exec")

\* u, read without the lock, is not marked dead and gets its pthread.
CreateThread(t) ==
    /\ pc[t] = "create" /\ suspect[t] = NoSelf
    /\ \E u \in core.thq[t] \ core.rm : core' = Launched(core, t, u)
    /\ LoopOn(t, exq)
    /\ UNCHANGED <<timed, again, batch, held, releasing, releaser, cleaners, resizes>>

\* pthread_create fails for u.  (The code then gives the rest of thq up too;
\* here some of them may still be launched.)
CreateFails(t) ==
    /\ CreateMayFail
    /\ pc[t] = "create" /\ suspect[t] = NoSelf
    /\ \E u \in core.thq[t] \ core.rm : core' = Discard(core, t, u, FALSE)
    /\ LoopOn(t, exq \cup {t})
    /\ UNCHANGED <<timed, again, batch, held, releasing, releaser, cleaners, resizes>>

\* u is marked dead: take the lock and look again.
Suspect(t) ==
    /\ pc[t] = "create" /\ suspect[t] = NoSelf
    /\ \E u \in core.thq[t] \cap core.rm :
         suspect' = [suspect EXCEPT ![t] = u]
    /\ UNCHANGED <<core, pc, timed, again, batch, exq, held, releasing,
                   releaser, cleaners, resizes>>

\* Under the lock, a thread still marked dead is launched all the same and
\* one that was reused meanwhile is given up as dead.
Recheck(t) ==
    /\ pc[t] = "create" /\ suspect[t] # NoSelf
    /\ LET u == suspect[t] IN
         \/ /\ u \in core.rm
            /\ core' = Launched(core, t, u)
            /\ LoopOn(t, exq)
            /\ UNCHANGED releaser
         \/ /\ u \notin core.rm
            /\ core' = Discard(core, t, u, TRUE)
            /\ LoopOn(t, exq \cup {t})
            /\ BroadcastIf(core'.dying = 0)
    /\ UNCHANGED <<timed, again, batch, held, releasing, cleaners, resizes>>

(***************************************************************************)
(* Running what was taken                                                  *)
(***************************************************************************)

\* The task, or the error handler, asks to be queued again (stpool_task_queue
\* on itself): the pool's status is read without the lock.
MarkAgain(t) ==
    /\ "again" \in Calls /\ Created /\ Load < MaxPending
    /\ pc[t] = "exec" /\ t \notin again
    /\ again' = again \cup {t}
    /\ UNCHANGED <<core, pc, timed, batch, suspect, exq, held, releasing,
                   releaser, cleaners, resizes>>

\* Method::finished.  The status changes once dispatch_q is empty.
AfterTask(t, left) ==
    Goto(t, IF t \in again THEN "requeue"
            ELSE IF left > 0 THEN "exec" ELSE "test")

FinishTask(t) ==
    /\ pc[t] = "exec" /\ batch[t] = 0
    /\ core' = IF Dynamic THEN StatusComplete(core, t) ELSE core
    /\ AfterTask(t, 0)
    /\ UNCHANGED <<timed, again, batch, suspect, exq, held, releasing,
                   releaser, cleaners, resizes>>

FinishDispatched(t) ==
    /\ pc[t] = "exec" /\ batch[t] > 0
    /\ core' = IF Dynamic /\ batch[t] = 1 THEN StatusComplete(core, t) ELSE core
    /\ batch' = [batch EXCEPT ![t] = @ - 1]
    /\ AfterTask(t, batch[t] - 1)
    /\ UNCHANGED <<timed, again, suspect, exq, held, releasing, releaser,
                   cleaners, resizes>>

\* __cpool_rt_task_queue: unlike stpool_task_queue, it asks nothing.
Requeue(t) ==
    /\ pc[t] = "requeue"
    /\ LET p == [core EXCEPT !.npendings = @ + 1]
       IN  core' \in IF NeedEnsure(p) /\ ~p.paused
                     THEN EnsureServices(p, NoSelf) ELSE {p}
    /\ again' = again \ {t}
    /\ Goto(t, IF batch[t] > 0 THEN "exec" ELSE "test")
    /\ UNCHANGED <<timed, batch, suspect, exq, held, releasing, releaser,
                   cleaners, resizes>>

\* while (self->run), read without the lock.
Test(t) ==
    /\ pc[t] = "test"
    /\ Goto(t, IF t \in core.run THEN "gettask" ELSE "leave")
    /\ UNCHANGED <<core, timed, again, batch, suspect, exq, held, releasing,
                   releaser, cleaners, resizes>>

\* The thread was reused before it could leave.
Stay(t) ==
    /\ pc[t] = "leave" /\ t \in core.run
    /\ Goto(t, "gettask")
    /\ UNCHANGED <<core, timed, again, batch, suspect, exq, held, releasing,
                   releaser, cleaners, resizes>>

Leave(t) ==
    /\ pc[t] = "leave" /\ t \notin core.run
    /\ releasing < MaxReleasing
    /\ core' = StatusLeave(core, t)
    /\ BroadcastIf(IF t \in core.rm THEN core'.dying = 0 ELSE core'.ths = {})
    /\ releasing' = releasing + 1
    /\ timed' = timed \ {t}
    /\ Goto(t, "entry")
    /\ UNCHANGED <<again, batch, suspect, exq, held, cleaners, resizes>>

(***************************************************************************)
(* cpool_core_release_ex                                                   *)
(***************************************************************************)

\* A thread that left drops its reference.
ReleaseByThread ==
    /\ releasing > 0
    /\ releasing' = releasing - 1
    /\ core' = [core EXCEPT !.ref = @ - 1]
    /\ BroadcastIf(core'.ref = 0 /\ core.release_cleaning)
    /\ cleaners' = IF core'.ref = 0 /\ ~core.release_cleaning
                   THEN cleaners + 1 ELSE cleaners
    /\ UNCHANGED <<pc, timed, again, batch, suspect, exq, held, resizes>>

\* Fault: the tasks stay where they are.
FaultySweepPending(p) == {p}

\* eEvent_F_destroying: a suspended pool gives its pending tasks up.
SweepPending(p) ==
    IF p.paused /\ p.npendings # 0
    THEN EnsureServices([p EXCEPT !.n_qdispatchs = @ + p.npendings,
                                  !.npendings = 0], NoSelf)
    ELSE {p}

\* The last user waits for threads that already left, or leaves the pool to
\* the threads that are still there.
LastRelease(p) ==
    \E q \in SweepPending([p EXCEPT !.status = "destroying"]) :
      LET w == WakeupAll(q)
          mine == w.ths = {}
      IN  /\ core' = [w EXCEPT !.release_cleaning = mine]
          /\ releaser' = IF mine /\ w.ref # 0 THEN "waiting" ELSE releaser
          /\ cleaners' = IF mine /\ w.ref = 0 THEN cleaners + 1 ELSE cleaners

\* A user who is not inside another call drops a reference.
Release ==
    /\ "release" \in Calls /\ Created
    /\ core.user_ref > (IF held > 0 THEN 1 ELSE 0)
    /\ LET p == [core EXCEPT !.ref = @ - 1, !.user_ref = @ - 1]
       IN  IF p.user_ref = 0
           THEN LastRelease(p)
           ELSE core' = p /\ UNCHANGED <<releaser, cleaners>>
    /\ UNCHANGED <<pc, timed, again, batch, suspect, exq, held, releasing, resizes>>

\* Fault: references of threads that left are not waited for.
FaultyReleaserWakes ==
    /\ releaser = "woken"
    /\ IF core.ths # {}
       THEN releaser' = "waiting" /\ UNCHANGED cleaners
       ELSE releaser' = "no" /\ cleaners' = cleaners + 1
    /\ UNCHANGED <<core, pc, timed, again, batch, suspect, exq, held,
                   releasing, resizes>>

\* The last user is woken on cond_ths and looks again.
ReleaserWakes ==
    /\ releaser = "woken"
    /\ IF core.ths # {} \/ core.ref # 0
       THEN releaser' = "waiting" /\ UNCHANGED cleaners
       ELSE releaser' = "no" /\ cleaners' = cleaners + 1
    /\ UNCHANGED <<core, pc, timed, again, batch, suspect, exq, held, releasing, resizes>>

\* pthread_cond_wait may return without a broadcast.
ReleaserStirs ==
    /\ releaser = "waiting"
    /\ releaser' = "woken"
    /\ UNCHANGED <<core, pc, timed, again, batch, suspect, exq, held, releasing,
                   cleaners, resizes>>

\* eEvent_F_shutdown, then cpool_core_dtor.
Destroy ==
    /\ cleaners > 0
    /\ cleaners' = cleaners - 1
    /\ core' = [core EXCEPT !.status = "destroyed"]
    /\ UNCHANGED <<pc, timed, again, batch, suspect, exq, held, releasing,
                   releaser, resizes>>

-----------------------------------------------------------------------------
(***************************************************************************)
(* The calls of the users, who hold a reference (Created)                  *)
(***************************************************************************)

Unmoved == UNCHANGED <<pc, timed, again, batch, suspect, exq, releasing,
                       releaser, cleaners>>

\* cpool_rt_task_queue, its checks passed.
Queue ==
    /\ "queue" \in Calls /\ Created /\ Load < MaxPending
    /\ LET p == [core EXCEPT !.npendings = @ + 1]
       IN  core' \in IF p.paused THEN {p}
                     ELSE IF ~Dynamic THEN Wakeup(p, 1)
                     ELSE IF NeedEnsure(p) THEN EnsureServices(p, NoSelf)
                     ELSE {p}
    /\ Unmoved /\ UNCHANGED <<held, resizes>>

\* cpool_rt_mark_all takes the pending tasks out of the ready queue ...
RemoveAll ==
    /\ "remove" \in Calls /\ Created /\ core.npendings # 0
    /\ held' = held + core.npendings
    /\ core' = [core EXCEPT !.npendings = 0]
    /\ Unmoved /\ UNCHANGED resizes

\* ... and __cpool_rt_task_dispatch hands those that have an error handler
\* to the pool, n of them, and is done with the others.
DispatchRemoved ==
    /\ held > 0
    /\ held' = 0
    /\ \E n \in 0..held :
         LET p == [core EXCEPT !.n_qdispatchs = @ + n]
         IN  core' \in IF n > 0 /\ NeedEnsure(p)
                       THEN EnsureServices(p, NoSelf) ELSE {p}
    /\ Unmoved /\ UNCHANGED resizes

\* cpool_core_suspendl
Suspend ==
    /\ "suspend" \in Calls /\ Created /\ ~core.paused
    /\ core' = [core EXCEPT !.paused = TRUE]
    /\ Unmoved /\ UNCHANGED <<held, resizes>>

\* Fault: nobody is called to the tasks that waited.
FaultyResume ==
    /\ "resume" \in Calls /\ Created /\ core.paused
    /\ core' = [core EXCEPT !.paused = FALSE]
    /\ Unmoved /\ UNCHANGED <<held, resizes>>

\* cpool_core_resume, with the eEvent_F_core_resume handler.
Resume ==
    /\ "resume" \in Calls /\ Created /\ core.paused
    /\ LET p == [core EXCEPT !.paused = FALSE]
       IN  \E q \in IF ~Dynamic /\ p.npendings # 0
                    THEN Wakeup(p, p.npendings) ELSE {p} :
             core' \in IF q.npendings # 0
                       THEN EnsureServices(q, NoSelf) ELSE {q}
    /\ Unmoved /\ UNCHANGED <<held, resizes>>

Flush ==
    /\ "flush" \in Calls /\ Created /\ resizes < MaxResizes
    /\ core' \in FlushThreads(core)
    /\ resizes' = resizes + 1
    /\ Unmoved /\ UNCHANGED held

Adjust ==
    /\ "adjust" \in Calls /\ Created /\ resizes < MaxResizes
    /\ \E a \in AdjustArgs : core' \in AdjustAbs(core, a[1], a[2])
    /\ resizes' = resizes + 1
    /\ Unmoved /\ UNCHANGED held

\* cpool_com_addref
AddRef ==
    /\ "addref" \in Calls /\ Created /\ core.user_ref < MaxUserRef
    /\ core' = [core EXCEPT !.ref = @ + 1, !.user_ref = @ + 1]
    /\ Unmoved /\ UNCHANGED <<held, resizes>>

-----------------------------------------------------------------------------

Step(t) ==
    \/ Join(t) \/ TakeDispatch(t) \/ TakeTask(t) \/ Quit(t) \/ Sleep(t)
    \/ Collect(t) \/ Wake(t)
    \/ CreateThread(t) \/ CreateFails(t) \/ Suspect(t) \/ Recheck(t)
    \/ FinishTask(t) \/ FinishDispatched(t) \/ Requeue(t)
    \/ Test(t) \/ Stay(t) \/ Leave(t)

Users ==
    \/ Queue \/ RemoveAll \/ DispatchRemoved \/ Suspend \/ Resume \/ Flush
    \/ Adjust \/ AddRef \/ Release

\* The pool is gone; nothing else happens.
Gone == core.status = "destroyed" /\ UNCHANGED vars

Next ==
    \/ \E t \in Threads : Step(t) \/ TimeOut(t) \/ MarkAgain(t)
    \/ ReleaseByThread \/ ReleaserStirs \/ ReleaserWakes \/ Destroy
    \/ Users
    \/ Gone

Spec == Init /\ [][Next]_vars

\* Threads run, and so do the tasks and the error handlers they call; whoever
\* removes or releases gets on with it.  No fairness on the clock: nothing may
\* hang on a sleeper that times out.  (Not meant for Calls with "GC": how often
\* a thread collects is a matter of the clock, too.)
Fairness ==
    /\ \A t \in Threads : WF_vars(Step(t))
    /\ WF_vars(ReleaseByThread) /\ WF_vars(ReleaserWakes) /\ WF_vars(Destroy)
    /\ WF_vars(DispatchRemoved)

FairSpec == Spec /\ Fairness

-----------------------------------------------------------------------------
(***************************************************************************)
(* Properties: the bookkeeping of the threads                              *)
(***************************************************************************)

Asleep == {t \in core.ths : core.stat[t] = "WAIT"}

\* The lists and the counters that ensure_servicesl and need_ensure_servicesl
\* read instead of the lists describe the threads, whatever the order of
\* sleeping, signalling, timing out, marking and reusing them.
ThreadCounters ==
    /\ core.n_qths = Cardinality(core.ths)
    /\ core.waitq = Asleep \ core.waked
    /\ core.n_qths_wait = Cardinality(core.waitq)
    /\ core.n_qths_waked = Cardinality(Asleep \cap core.waked)

\* The dying threads are those marked dead, the pool's threads the others.
DyingCounted ==
    /\ core.dying = Cardinality(core.rm)
    /\ core.real_pool = Cardinality(core.ths \ core.rm)

\* The waits take a dynamic pool for idle when nthreads_running is 0.
RunningCounted ==
    core.running = Cardinality({t \in core.ths : core.stat[t] = "RUN"})

\* What the pool takes for free and sleeping threads are just those.
\* ensure_servicesl starts or wakes nobody while it believes in a free one.
ClassesCounted ==
    LET alive == core.ths \ core.rm
        busy  == {t \in core.ths : core.stat[t] = "RUN"}
    IN  /\ core.dying_run = Cardinality(busy \cap core.rm)
        /\ core.sleeping = Cardinality(alive \cap Asleep)
        /\ core.real_free = Cardinality(alive \ (busy \cup Asleep))

\* The bookkeeping the core decides by, instead of looking at the threads, is
\* right: the lists and the running threads always, the other classes as long as
\* nobody resizes the pool (then see VERIFY), also if pthread_create fails and
\* has to be taken back.
Counters ==
    /\ ThreadCounters /\ RunningCounted
    /\ resizes = 0 => DyingCounted /\ ClassesCounted

\* A thread goes on looking for work exactly if it is not marked dead: marking,
\* reusing and leaving never lose one half of the change.
AliveRuns == core.rm \subseteq core.ths /\ core.run = Threads \ core.rm

\* The reference count counts the users, the threads and the threads that
\* left but have not dropped their reference yet.
RefsAccounted ==
    core.ref = core.user_ref + Cardinality(core.ths) + releasing

-----------------------------------------------------------------------------
(***************************************************************************)
(* Properties: service                                                     *)
(***************************************************************************)

TaskReady == ~core.paused /\ core.npendings > 0

WorkReady == TaskReady \/ core.n_qdispatchs > 0

\* While there is something to run, some thread that will look for work is
\* neither asleep nor marked dead: no wakeup is lost between a user's queue or
\* resume and a thread's going to sleep, timing out or leaving.
NoStrandedWork == WorkReady => \E t \in core.ths : t \notin core.waitq \cup core.rm

\* Tasks wait only if the pool has a server on the way or is at its limit.
WorkConserving ==
    TaskReady /\ Created =>
      \/ ~NoServer(core)
      \/ (core.waitq = {} /\ core.real_pool >= core.maxthreads)

\* A thread object without a pthread is on the thq of exactly one thread, and
\* that thread is going to create it before it does anything else.
UnbornOwned ==
    /\ \A u \in core.unborn : \E t \in core.ths :
          /\ u \in core.thq[t] /\ pc[t] = "create"
          /\ \A o \in Threads \ {t} : u \notin core.thq[o]
    /\ \A t \in Threads : core.thq[t] \subseteq core.unborn

\* Work does not wait for ever: unless the pool runs dry or is suspended again
\* and again, threads take tasks again and again.
WorkServed ==
    []<>~WorkReady \/ []<><<\E t \in Threads : TakeTask(t) \/ TakeDispatch(t)>>_vars

-----------------------------------------------------------------------------
(***************************************************************************)
(* Properties: release                                                     *)
(***************************************************************************)

\* One caller, and only one, finds that it has to free the pool, and then
\* no thread, no reference and no waiting releaser is left.
FreedOnce ==
    (cleaners > 0 \/ core.status = "destroyed") =>
      /\ cleaners = (IF core.status = "destroyed" THEN 0 ELSE 1)
      /\ core.ref = 0 /\ core.ths = {} /\ releasing = 0 /\ releaser = "no"

\* cpool_core_dtor asserts that no task is left in the pool it frees.
NoTaskFreed ==
    cleaners > 0 => core.npendings = 0 /\ core.n_qdispatchs = 0 /\ core.n_qths = 0

-----------------------------------------------------------------------------
(***************************************************************************)
(* What the code and its documents say, and do not keep (see README)       *)
(***************************************************************************)

\* The assertions of VERIFY, which every change of a thread's status calls.
VERIFY ==
    /\ core.n_qths <= core.n_qths_wait + core.n_qths_waked + core.running
                         + (core.dying - core.dying_run) + core.real_free
    /\ core.real_pool = core.sleeping + core.real_free
                           + (core.running - core.dying_run)
    /\ core.n_qths_waked >= 0
    /\ core.n_qths_wait <= core.n_qths /\ core.n_qths_waked <= core.n_qths

\* "the thread has been marked died, and at the same time @cpool_core_add_threads
\* ... decide to reuse it": a thread object that is alive again, and whose
\* pthread is still to be created, stays in the pool.
ReusedIsLaunched ==
    [][\A u \in core.unborn \ core.rm : u \in core'.ths]_vars

\* A thread that was asked to create others runs what it took afterwards.
CreatorRuns == \A t \in Threads : pc[t] = "create" ~> pc[t] = "exec"

-----------------------------------------------------------------------------
(***************************************************************************)
(* CpoolCore implements TaskPool                                           *)
(***************************************************************************)

\* How many tasks or error handlers each thread has taken and not finished.
InHand ==
    [t \in Threads |->
       IF pc[t] \in {"create", "exec", "lost"}
       THEN IF batch[t] = 0 THEN 1 ELSE batch[t]
       ELSE IF pc[t] = "requeue" THEN batch[t] + 1 ELSE 0]

\* The sum of the numbers h, as the size of a set.
Total(h) == Cardinality(UNION {{t} \X (1..h[t]) : t \in Threads})

Phase == CASE core.user_ref > 0 -> "open"
           [] core.user_ref = 0 /\ core.status # "destroyed" -> "closing"
           [] OTHER -> "gone"

Pool == INSTANCE TaskPool WITH
    phase <- Phase,
    suspended <- core.paused,
    ready <- core.npendings,
    removed <- core.n_qdispatchs + held,
    inhand <- Total(InHand)

\* Seen through this mapping the pool keeps what TaskPool promises.
PoolSafe == Pool!Safe

\* ... and also if tasks queue themselves again and the pool is resized, but then
\* tasks may be left in it when it is freed.
PoolUntilFreed == Pool!Init /\ [][Pool!Next \/ Destroy]_(Pool!avars)

\* What is ready is served, and a pool that was released is freed.
PoolServes == Pool!Served
PoolFinishes == Pool!Ended /\ Pool!Closed
=============================================================================
