---------------------------- MODULE CpoolThreads ----------------------------
(***************************************************************************)
(* The thread manager of src/pool/core: what cpool_core_t and its          *)
(* thread_t objects hold under core->mut, and the functions that change    *)
(* it while the mutex is held.                                             *)
(*                                                                         *)
(* The state is one record p, so that the nested calls of the C code       *)
(* compose: a function that may pick among list elements (which sleeper is *)
(* woken, which dying thread is reused) is the SET of the records it may   *)
(* return.  The order of the lists ths and ths_waitq is abstracted this    *)
(* way, everything else is as in the code.                                 *)
(*                                                                         *)
(* A list of threads is a set of thread objects, and so is a per-thread    *)
(* flag: p.rm holds the threads marked THREAD_STAT_RM, p.run those whose   *)
(* run field is 1, p.waked those whose b_waked is 1.                       *)
(*                                                                         *)
(* An operator named Faulty... is its namesake with a slip a programmer    *)
(* might make; it is used by no specification, only to see that the        *)
(* properties tell the two apart.                                          *)
(***************************************************************************)
EXTENDS Integers, FiniteSets, FiniteSetsExt

CONSTANTS
    Threads,        \* the thread objects
    Dynamic,        \* CORE_F_dynamic: threads are created and retired on demand
    Limit,          \* limit_threads_create_per_time, unset (0) if ~Dynamic
    NoSelf,         \* "self" of a call that no thread of the pool makes
    CreateMayFail   \* may pthread_create fail ?

ASSUME ThreadsAssumption == IsFiniteSet(Threads)
ASSUME NoSelfAssumption == NoSelf \notin Threads
ASSUME DynamicAssumption == Dynamic \in BOOLEAN
ASSUME LimitAssumption == Limit \in Nat /\ (Limit = 0 <=> ~Dynamic)
ASSUME CreateAssumption == CreateMayFail \in BOOLEAN

(***************************************************************************)
(* The state                                                               *)
(***************************************************************************)

\* THREAD_STAT_xxx without the flags; LEAVE is left at once for INIT, when
\* the object goes back to the thread cache.
ThreadStatus == {"INIT", "JOIN", "WAIT", "RUN", "COMPLETE", "TIMEDOUT",
                 "FREE", "FORCE_QUIT"}

CoreStatus == {"created", "destroying", "destroyed"}

CoreType ==
    [ status : CoreStatus, paused : BOOLEAN, release_cleaning : BOOLEAN,
      ref : Int, user_ref : Int,
      maxthreads : Int, minthreads : Int,
      npendings : Nat, n_qdispatchs : Nat,
      ths : SUBSET Threads, waitq : SUBSET Threads,
      stat : [Threads -> ThreadStatus],
      rm : SUBSET Threads, run : SUBSET Threads, waked : SUBSET Threads,
      thq : [Threads -> SUBSET Threads], unborn : SUBSET Threads,
      n_qths : Int, n_qths_wait : Int, n_qths_waked : Int,
      running : Int, dying : Int, dying_run : Int,
      sleeping : Int, real_pool : Int, real_free : Int ]

\* The core as cpool_core_ctor leaves it before it starts the reserved
\* threads.  unborn: objects in ths whose pthread does not exist yet.
NewCore(max, min, suspend) ==
    [ status |-> "created", paused |-> suspend, release_cleaning |-> FALSE,
      ref |-> 1, user_ref |-> 1,
      maxthreads |-> max, minthreads |-> min,
      npendings |-> 0, n_qdispatchs |-> 0,
      ths |-> {}, waitq |-> {},
      stat |-> [t \in Threads |-> "INIT"],
      rm |-> {}, run |-> Threads, waked |-> Threads,
      thq |-> [t \in Threads |-> {}], unborn |-> {},
      n_qths |-> 0, n_qths_wait |-> 0, n_qths_waked |-> 0,
      running |-> 0, dying |-> 0, dying_run |-> 0,
      sleeping |-> 0, real_pool |-> 0, real_free |-> 0 ]

Least(a, b) == IF a <= b THEN a ELSE b

\* Neither a free thread nor one already signalled will look for work.
NoServer(p) == p.real_free = 0 /\ p.n_qths_waked = 0

-----------------------------------------------------------------------------
(***************************************************************************)
(* Waking, creating and reusing threads                                    *)
(***************************************************************************)

\* The sleepers in W leave the wait queue and their condition is signalled.
Signal(p, W) ==
    [p EXCEPT !.waked = @ \cup W,
              !.waitq = @ \ W,
              !.n_qths_wait = @ - Cardinality(W),
              !.n_qths_waked = @ + Cardinality(W)]

WakeupAll(p) == Signal(p, p.waitq)

\* cpool_core_wakeup_n_sleeping_threadsl: n is compared with 0 after it is
\* decremented, so 0 stands for all the sleepers like -1.
Wakeup(p, n) ==
    IF n <= 0 THEN {WakeupAll(p)}
    ELSE { Signal(p, W) :
             W \in kSubset(Least(n, Cardinality(p.waitq)), p.waitq) }

\* Fault: run is not set again.
FaultyRevive(p, R) ==
    [p EXCEPT !.rm = @ \ R,
              !.real_pool = @ + Cardinality(R),
              !.dying = @ - Cardinality(R)]

\* Reuse of the dying threads in R by cpool_core_add_threadsl: each counts as
\* a server again, in the class its status puts it in.  A thread that is in
\* the course of leaving WAIT still has that status, and one on its way to
\* RUN still has the status it had before.
Revive(p, R) ==
    LET asleep  == {t \in R : p.stat[t] = "WAIT"}
        busy    == {t \in R : p.stat[t] = "RUN"}
        rescued == {t \in R : p.stat[t] = "FORCE_QUIT"}
        q == [p EXCEPT !.rm = @ \ R,
                       !.run = @ \cup R,
                       !.real_pool = @ + Cardinality(R),
                       !.dying = @ - Cardinality(R),
                       !.sleeping = @ + Cardinality(asleep),
                       !.dying_run = @ - Cardinality(busy),
                       !.real_free = @ + Cardinality(R \ (asleep \cup busy)),
                       !.stat = [t \in Threads |->
                                   IF t \in rescued THEN "FREE" ELSE @[t]]]
    IN  Signal(q, asleep \ p.waked)

\* New thread objects N join ths.  A thread of the pool does not call
\* pthread_create under the lock: it keeps them on its thq for later.
Enlist(p, self, N) ==
    LET q == [p EXCEPT !.ths = @ \cup N,
                       !.ref = @ + Cardinality(N),
                       !.n_qths = @ + Cardinality(N),
                       !.real_free = @ + Cardinality(N),
                       !.real_pool = @ + Cardinality(N)]
    IN  IF self = NoSelf THEN q
        ELSE [q EXCEPT !.thq[self] = @ \cup N, !.unborn = @ \cup N]

\* How many dying threads the scan of ths reuses before it breaks.
ReuseCount(p, n) ==
    IF n <= 0 \/ p.dying = 0 THEN 0
    ELSE Least(n, IF p.dying < 0 THEN Cardinality(p.ths \cap p.rm)
                  ELSE Least(p.dying, Cardinality(p.ths \cap p.rm)))

\* How many of the k threads still wanted are launched: all of them, unless
\* pthread_create fails, which only the caller of the API sees here.
LaunchCount(p, self, k) ==
    LET most == Least(k, Cardinality(Threads \ p.ths))
    IN  IF k <= 0 THEN {0}
        ELSE IF CreateMayFail /\ self = NoSelf THEN 0..most
        ELSE {most}

\* cpool_core_add_threadsl
AddThreads(p, self, n) ==
    LET r == ReuseCount(p, n) IN
    { Enlist(Revive(p, R), self, N) :
        R \in kSubset(r, p.ths \cap p.rm),
        N \in UNION { kSubset(m, Threads \ p.ths) :
                        m \in LaunchCount(p, self, n - r) } }

\* cpool_core_ensure_servicesl
EnsureServices(p, self) ==
    LET ready == IF p.paused THEN 0 ELSE p.npendings
        wanted == ready + (IF p.n_qdispatchs # 0 THEN 1 ELSE 0)
        spare == p.maxthreads - p.real_pool
    IN  IF ~NoServer(p) \/ (p.n_qdispatchs = 0 /\ ready = 0) THEN {p}
        ELSE IF p.waitq # {} THEN Wakeup(p, Least(2, Limit))
        ELSE IF spare > 0
             THEN AddThreads(p, self, Least(Least(spare, Limit), wanted))
        ELSE {p}

\* cpool_core_need_ensure_servicesl
NeedEnsure(p) ==
    NoServer(p) /\ (p.maxthreads # p.real_pool \/ p.n_qths_wait # 0)

-----------------------------------------------------------------------------
(***************************************************************************)
(* Retiring threads                                                        *)
(***************************************************************************)

\* The threads in D are marked THREAD_STAT_RM, sleepers among them are woken.
MarkDead(p, D) ==
    LET asleep == {t \in D : p.stat[t] = "WAIT"}
        busy   == {t \in D : p.stat[t] = "RUN"}
        q == [p EXCEPT !.rm = @ \cup D,
                       !.run = @ \ D,
                       !.real_pool = @ - Cardinality(D),
                       !.dying = @ + Cardinality(D),
                       !.sleeping = @ - Cardinality(asleep),
                       !.dying_run = @ + Cardinality(busy),
                       !.real_free = @ - Cardinality(D \ (asleep \cup busy))]
    IN  Signal(q, asleep \ p.waked)

\* cpool_core_dec_threadsl: threads that do not run a task go first.
DecThreads(p, n) ==
    LET others == p.real_pool - (p.running - p.dying_run)
        k      == Least(p.real_pool, n)
        alive  == p.ths \ p.rm
        busy   == {t \in alive : p.stat[t] = "RUN"}
        idle   == alive \ busy
    IN  IF n <= 0 \/ p.real_pool = 0 THEN {p}
        ELSE IF k <= others
             THEN { MarkDead(p, D) :
                      D \in kSubset(Least(k, Cardinality(idle)), idle) }
        ELSE { MarkDead(p, idle \cup D) :
                 D \in kSubset(Least(k - others, Cardinality(busy)), busy) }

\* cpool_com_flush
FlushThreads(p) == DecThreads(p, p.real_pool - p.minthreads)

\* cpool_core_adjust_abs_l, with the eEvent_F_thread handler of the pool:
\* a pool of fixed size keeps minthreads = maxthreads.
AdjustAbs(p, max, min) ==
    LET q == [p EXCEPT !.maxthreads = max,
                       !.minthreads = IF Dynamic THEN min ELSE max]
    IN  IF q.minthreads > q.real_pool
        THEN AddThreads(q, NoSelf, q.minthreads - q.real_pool)
        ELSE IF q.real_pool > q.maxthreads
             THEN DecThreads(q, q.real_pool - q.maxthreads)
        ELSE {WakeupAll(q)}

-----------------------------------------------------------------------------
(***************************************************************************)
(* cpool_core_thread_status_changel, one operator per status               *)
(***************************************************************************)

WithStatus(S, t, s) == { [p EXCEPT !.stat[t] = s] : p \in S }

\* Fault: no other thread is called to the tasks left.
UnhelpfulStatusRun(p, t) ==
    LET dead == t \in p.rm
    IN  {[p EXCEPT !.running = @ + 1,
                   !.dying_run = IF dead THEN @ + 1 ELSE @,
                   !.real_free = IF dead THEN @ ELSE @ - 1,
                   !.stat[t] = "RUN"]}

StatusRun(p, t) ==
    LET dead == t \in p.rm
        q == [p EXCEPT !.running = @ + 1,
                       !.dying_run = IF dead THEN @ + 1 ELSE @,
                       !.real_free = IF dead THEN @ ELSE @ - 1]
    IN  WithStatus(IF NoServer(q) /\ q.npendings # 0
                   THEN EnsureServices(q, t) ELSE {q}, t, "RUN")

StatusComplete(p, t) ==
    LET dead == t \in p.rm
    IN  [p EXCEPT !.running = @ - 1,
                  !.dying_run = IF dead THEN @ - 1 ELSE @,
                  !.real_free = IF dead THEN @ ELSE @ + 1,
                  !.stat[t] = "COMPLETE"]

StatusWait(p, t) ==
    LET dead == t \in p.rm
    IN  [p EXCEPT !.real_free = IF dead THEN @ ELSE @ - 1,
                  !.sleeping = IF dead THEN @ ELSE @ + 1,
                  !.waked = @ \ {t},
                  !.waitq = @ \cup {t},
                  !.n_qths_wait = @ + 1,
                  !.stat[t] = "WAIT"]

StatusForceQuit(p, t) ==
    LET dead == t \in p.rm
    IN  [p EXCEPT !.rm = @ \cup {t},
                  !.run = @ \ {t},
                  !.dying = IF dead THEN @ ELSE @ + 1,
                  !.real_pool = IF dead THEN @ ELSE @ - 1,
                  !.real_free = IF dead THEN @ ELSE @ - 1,
                  !.stat[t] = "FORCE_QUIT"]

\* The end of every status change of a thread that was in WAIT.
LeaveWait(p, t) ==
    LET q == [p EXCEPT !.n_qths_waked = IF t \in p.waked THEN @ - 1 ELSE @]
    IN  IF t \in q.rm /\ t \notin q.run
        THEN IF NoServer(q) /\ q.npendings # 0
             THEN EnsureServices(q, t) ELSE {q}
        ELSE { [q EXCEPT !.sleeping = @ - 1,
                         !.run = IF t \in q.rm THEN @ \ {t} ELSE @,
                         !.real_free = IF t \in q.rm THEN @ ELSE @ + 1] }

StatusFree(p, t) == WithStatus(LeaveWait(p, t), t, "FREE")

\* Fault: the sleeper is taken off the queue whether or not it is still there.
FaultyDequeued(p, t) == [p EXCEPT !.waitq = @ \ {t}, !.n_qths_wait = @ - 1]

\* A sleeper whose wait timed out may find that it was signalled meanwhile.
Dequeued(p, t) ==
    IF t \in p.waked THEN p
    ELSE [p EXCEPT !.waitq = @ \ {t}, !.n_qths_wait = @ - 1]

\* Fault: the pending tasks are not looked at.
FaultyMayRetire(p, t) ==
    t \notin p.rm /\ p.real_pool > p.minthreads /\ p.n_qdispatchs = 0

\* May the timed out thread t retire ?  (The code also looks at the clock:
\* not within 4 s of the last creation or exit.)
MayRetire(p, t) ==
    /\ t \notin p.rm
    /\ p.real_pool > p.minthreads
    /\ p.n_qdispatchs = 0
    /\ p.npendings = 0 \/ p.paused

StatusTimedOut(p, t, retire) ==
    LET q == IF retire THEN [p EXCEPT !.rm = @ \cup {t},
                                      !.dying = @ + 1,
                                      !.real_pool = @ - 1]
             ELSE p
    IN  WithStatus(LeaveWait(Dequeued(q, t), t), t, "TIMEDOUT")

\* Fault: the object is not initialised again.
FaultyStatusLeave(p, t) ==
    [p EXCEPT !.ths = @ \ {t},
              !.n_qths = @ - 1,
              !.dying = IF t \in p.rm THEN @ - 1 ELSE @,
              !.rm = @ \ {t},
              !.run = @ \cup {t},
              !.stat[t] = "LEAVE"]

\* THREAD_STAT_LEAVE, then INIT_thread_structure: the object is as new.
StatusLeave(p, t) ==
    [p EXCEPT !.ths = @ \ {t},
              !.n_qths = @ - 1,
              !.dying = IF t \in p.rm THEN @ - 1 ELSE @,
              !.rm = @ \ {t},
              !.run = @ \cup {t},
              !.waked = @ \cup {t},
              !.thq[t] = {},
              !.stat[t] = "INIT"]

\* Fault: the reference of u is kept.
LeakyDiscard(p, self, u, died) ==
    [p EXCEPT !.ths = @ \ {u},
              !.n_qths = @ - 1,
              !.dying = IF died THEN @ - 1 ELSE @,
              !.real_pool = IF died THEN @ ELSE @ - 1,
              !.real_free = IF died THEN @ ELSE @ - 1,
              !.rm = @ \ {u},
              !.run = @ \cup {u},
              !.thq[self] = @ \ {u},
              !.unborn = @ \ {u}]

\* do_create_threads gives the object u of self's thq up: no pthread will be
\* created for it.  Whether u was taken for dead decides which counters drop.
Discard(p, self, u, died) ==
    [p EXCEPT !.ths = @ \ {u},
              !.n_qths = @ - 1,
              !.dying = IF died THEN @ - 1 ELSE @,
              !.real_pool = IF died THEN @ ELSE @ - 1,
              !.real_free = IF died THEN @ ELSE @ - 1,
              !.ref = @ - 1,
              !.rm = @ \ {u},
              !.run = @ \cup {u},
              !.thq[self] = @ \ {u},
              !.unborn = @ \ {u}]

\* pthread_create succeeded for u.
Launched(p, self, u) ==
    [p EXCEPT !.thq[self] = @ \ {u}, !.unborn = @ \ {u}]
=============================================================================
