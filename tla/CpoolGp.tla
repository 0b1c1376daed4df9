------------------------------- MODULE CpoolGp -------------------------------
(***************************************************************************)
(* The scheduler of the group pool (src/pool/gp): tasks belong to groups   *)
(* (entries), each with a queue, a limit for the tasks it runs at a time   *)
(* and the right to go beyond it (receive_benifits).  Groups are created,  *)
(* suspended, resumed, given other attributes and emptied while threads    *)
(* take tasks from those at the front of actentry, the active ones.        *)
(*                                                                         *)
(* What core->mut protects is the record gp, which helper functions take   *)
(* and return as the functions of the code change the structures: each     *)
(* action is one critical section.  Which thread sleeps and which is       *)
(* created is in CpoolCore, how a queue with several priorities works in   *)
(* CpoolPriq, what links of dispatch_q in CpoolDispatchQ, who waits and    *)
(* is woken in CpoolGpWait.                                                *)
(***************************************************************************)
EXTENDS Integers, Sequences, FiniteSets, SequencesExt

CONSTANTS
    Threads,    \* threads of the pool
    Users,      \* threads of the users that run error handlers themselves
    Tasks,      \* tasks ...
    Handlers,   \* ... and those of them with an error handler
    Pri,        \* their priorities
    Policy,     \* and whether they go before (TOP) or after (BACK) their equals
    NoTask, NoThread,
    Inc,        \* how many entries cpool_gp_entry_create adds to the table
    MaxNum,     \* bound: entries in the table
    Batch,      \* gpool->n: removed tasks a thread takes at one time
    MaxThreads, \* values of core->maxthreads; the first one is the least
    Attrs,      \* scheduler attributes the users ask for: <<limit, benefits>>
    Suspended,  \* are groups created suspended ?  a subset of BOOLEAN
    GpCalls,    \* the calls of the users, a subset of AllGpCalls
    Careful     \* those for which they wait for the right moment

AllGpCalls == { "create", "delete", "suspend", "suspend_all", "resume",
                "resume_all", "setattr", "threads", "remove", "mark", "detach" }

ASSUME GpAssumption ==
    /\ IsFiniteSet(Threads) /\ IsFiniteSet(Users) /\ IsFiniteSet(Tasks)
    /\ Threads \cap Users = {} /\ Handlers \subseteq Tasks
    /\ Pri \in [Tasks -> 0..99] /\ Policy \in [Tasks -> {"TOP", "BACK"}]
    /\ NoTask \notin Tasks /\ NoThread \notin Threads
    /\ Inc \in Nat \ {0} /\ MaxNum \in Nat /\ Inc <= MaxNum
    /\ Batch \in Nat \ {0}
    /\ MaxThreads \subseteq Nat \ {0} /\ MaxThreads # {}
    /\ Attrs \subseteq Int \X BOOLEAN /\ Suspended \subseteq BOOLEAN
    /\ GpCalls \subseteq AllGpCalls
    /\ Careful \subseteq AllGpCalls \cup {"move", "release", "grow"}

VARIABLES
    gp,         \* the pool, its entries and tasks, under core->mut
    run         \* what the threads and the users are executing

gpvars == <<gp, run>>

Ids == 0..(MaxNum - 1)
NoGroup == -1
Runners == Threads \cup Users

\* used: SLOT_F_FREE, SLOT_F_DESTROYING or neither; throttle, active: the other
\* bits of lflags.  npendings is the length of queue, top its head.
Entries ==
    [ used : {"free", "valid", "destroying"}, throttle : BOOLEAN,
      active : BOOLEAN, paused : BOOLEAN, limit_paralle_tasks : Int,
      limit_tasks : Nat, receive_benifits : BOOLEAN, npendings_eff : Nat,
      nrunnings : Nat, ndispatchings : Nat, queue : Seq(Tasks) ]

\* f_stat without WPENDING: idle is 0, and then the task is in no trace_q.
TaskStats == {"idle", "waiting", "scheduling", "dispatching"}

\* effective: core->npendings.  order: the waiting tasks by their seq.
\* thread: the field of the tasks.  spinning: a thread searches for ever.
GpType ==
    [ entry : [Ids -> Entries], num : Nat, actentry : [Ids -> Ids],
      active_idx : Nat, nactives_ok : Nat, npendings : Nat, effective : Nat,
      ndispatchings : Nat, paused : BOOLEAN, destroying : BOOLEAN,
      throttle_on : BOOLEAN, maxthreads : MaxThreads,
      stat : [Tasks -> TaskStats], wpending : SUBSET Tasks,
      gid : [Tasks -> Ids], thread : [Tasks -> Threads \cup {NoThread}],
      order : Seq(Tasks), dispatch_q : Seq(Tasks), spinning : BOOLEAN ]

\* q: the tasks to run or to tell their error handlers, the head being run;
\* normal: TASK_TYPE_NORMAL; detached: *pdetached; leaving: the task inside
\* task_detach after the unlock; deleting: the group inside entry_delete.
RunType ==
    [ q : Seq(Tasks), normal : BOOLEAN, detached : BOOLEAN,
      leaving : Tasks \cup {NoTask}, deleting : Ids \cup {NoGroup} ]

GpTypeOK == gp \in GpType /\ run \in [Runners -> RunType]

EntryOf(s, t) == s.entry[s.gid[t]]
Num(e) == Len(e.queue)
Index(s, g) == CHOOSE i \in Ids : s.actentry[i] = g
IsValid(s, g) == g < s.num /\ s.entry[g].used = "valid"

MinOf(a, b) == IF a < b THEN a ELSE b

\* The first n places of the table, or of actentry, in the order of the loops.
Places(n) == [i \in 1..n |-> i - 1]

-----------------------------------------------------------------------------
(***************************************************************************)
(* Active entries                                                          *)
(***************************************************************************)

\* __cpool_gp_entry_swapl; index is the inverse of actentry.
Swap(s, i, j) ==
    [s EXCEPT !.actentry[i] = s.actentry[j], !.actentry[j] = s.actentry[i]]

\* __cpool_gp_entry_activel
Activate(s, g) ==
    LET joined == [s EXCEPT !.entry[g].active = TRUE, !.nactives_ok = @ + 1]
    IN  IF joined.nactives_ok = 1
        THEN [Swap(joined, 0, Index(s, g)) EXCEPT !.active_idx = 1]
        ELSE IF s.active_idx <= Index(s, g)
        THEN [Swap(joined, s.active_idx, Index(s, g)) EXCEPT !.active_idx = @ + 1]
        ELSE joined

IsActive(s, i) == s.entry[s.actentry[i]].active

\* The place i, if an inactive entry holds it, is given to the next active one.
Fill(s, i) ==
    LET later == {j \in (i + 1)..(s.active_idx - 1) : IsActive(s, j)}
    IN  IF IsActive(s, i) \/ later = {} THEN s
        ELSE Swap(s, i, CHOOSE j \in later : \A k \in later : j <= k)

\* __cpool_gp_entry_shrink
Shrink(s) ==
    [FoldLeft(Fill, s, Places(s.nactives_ok)) EXCEPT !.active_idx = s.nactives_ok]

\* Fault: entries that were suspended wait for the next shrink, too.
FaultyInactivate(s, g) ==
    LET left == [s EXCEPT !.entry[g].active = FALSE, !.nactives_ok = @ - 1]
    IN  IF left.nactives_ok = 0 THEN [left EXCEPT !.active_idx = 0]
        ELSE IF left.nactives_ok + 2 < left.active_idx THEN Shrink(left)
        ELSE left

\* __cpool_gp_entry_inactivel: an entry whose queue is empty may stay among the
\* first ones, as an inactive one.
Inactivate(s, g) ==
    LET left == [s EXCEPT !.entry[g].active = FALSE, !.nactives_ok = @ - 1]
    IN  IF left.nactives_ok = 0 THEN [left EXCEPT !.active_idx = 0]
        ELSE IF s.entry[g].paused \/ left.nactives_ok + 2 < left.active_idx
        THEN Shrink(left)
        ELSE left

-----------------------------------------------------------------------------
(***************************************************************************)
(* Pending tasks and the number of them that threads may take              *)
(***************************************************************************)

\* __cpool_com_priq_insert for one queue: tasks with no priority go to its end,
\* others before or right after the first one.
Inserted(q, t) ==
    LET first == q[1]
        ahead == Pri[t] > Pri[first] \/ (Pri[t] = Pri[first] /\ Policy[t] = "TOP")
    IN  IF q = <<>> \/ (Pri[t] = 0 /\ Policy[t] = "BACK") THEN Append(q, t)
        ELSE InsertAt(q, IF ahead THEN 1 ELSE 2, t)

\* __cpool_gp_task_pri_queuel
PriQueue(s, t) ==
    [s EXCEPT !.stat[t] = "waiting", !.wpending = @ \ {t},
              !.order = Append(@, t),
              !.entry[s.gid[t]].queue = Inserted(@, t)]

\* Fault: tasks that are counted already do not count for the limit.
FaultyConsumerNotify(s, g) ==
    LET e == s.entry[g]
        counts == e.receive_benifits \/ e.nrunnings < e.limit_tasks
        added == [s EXCEPT !.npendings = @ + 1,
                           !.effective = IF counts THEN @ + 1 ELSE @,
                           !.entry[g].npendings_eff =
                                IF counts /\ ~e.receive_benifits THEN @ + 1 ELSE @]
    IN  IF Num(e) = 1 THEN Activate(added, g) ELSE added

\* __cpool_gp_entry_consumer_notifyl
ConsumerNotify(s, g) ==
    LET e == s.entry[g]
        counts == \/ e.receive_benifits
                  \/ /\ e.nrunnings + e.npendings_eff < e.limit_tasks
                     /\ s.npendings + 1 > e.npendings_eff
        added == [s EXCEPT !.npendings = @ + 1,
                           !.effective = IF counts THEN @ + 1 ELSE @,
                           !.entry[g].npendings_eff =
                                IF counts /\ ~e.receive_benifits THEN @ + 1 ELSE @]
    IN  IF Num(e) = 1 THEN Activate(added, g) ELSE added

Queued(s, t) ==
    LET q == PriQueue(s, t)
    IN  IF EntryOf(s, t).paused THEN q ELSE ConsumerNotify(q, s.gid[t])

\* The part of it that core->npendings counts.
Share(e) == IF e.receive_benifits THEN Num(e) ELSE e.npendings_eff

\* What cpool_gp_core_finished and cpool_gp_task_detach do for the group when
\* one of its tasks has been run.
Filled(s, g) ==
    LET e == s.entry[g]
    IN  IF /\ ~e.receive_benifits /\ ~e.paused
           /\ e.npendings_eff + e.nrunnings < e.limit_tasks
           /\ e.npendings_eff < Num(e)
        THEN [s EXCEPT !.effective = @ + 1, !.entry[g].npendings_eff = @ + 1]
        ELSE s

\* The entry has become ready, or not to be counted otherwise.
CountedAgain(s, g) ==
    LET e == s.entry[g]
        eff == IF e.receive_benifits THEN e.npendings_eff
               ELSE MinOf(e.limit_tasks, Num(e))
        refilled == [s EXCEPT !.entry[g].npendings_eff = eff]
    IN  [refilled EXCEPT !.effective = @ + Share(refilled.entry[g])]

\* __cpool_gp_entry_set_attrl
SetAttr(s, g, limit, benefits) ==
    LET e == s.entry[g]
        limit_tasks == IF s.maxthreads <= limit THEN s.maxthreads
                       ELSE IF limit <= 0 THEN 0 ELSE limit
        set == [s EXCEPT !.entry[g].limit_paralle_tasks = limit,
                         !.entry[g].limit_tasks = limit_tasks,
                         !.entry[g].receive_benifits =
                                benefits \/ limit_tasks = 0]
    IN  IF e.paused \/ e.queue = <<>> THEN set
        ELSE CountedAgain([set EXCEPT !.effective = @ - Share(e)], g)

UpdateEnv(s, g) ==
    IF s.entry[g].used = "free" THEN s
    ELSE SetAttr(s, g, s.entry[g].limit_paralle_tasks, s.entry[g].receive_benifits)

\* __cpool_gp_entry_update_all_envl
UpdateAllEnv(s) == FoldLeft(UpdateEnv, s, Places(s.num))

-----------------------------------------------------------------------------
(***************************************************************************)
(* Taking a task                                                           *)
(***************************************************************************)

Newer(s, t, u) ==
    \E i, j \in 1..Len(s.order) : i > j /\ s.order[i] = t /\ s.order[j] = u

\* Is t preferred to u, the best task so far ?
Before(s, t, u) ==
    \/ Pri[t] > Pri[u]
    \/ Pri[t] = Pri[u] /\ IF Newer(s, t, u) THEN Policy[t] = "TOP"
                          ELSE Policy[u] = "BACK"

\* May a task of the entry be taken, in the first search or in the second ?
Candidate(s, g, second) ==
    LET e == s.entry[g]
    IN  /\ e.queue # <<>>
        /\ e.nrunnings < e.limit_tasks \/ (second /\ e.receive_benifits)

\* The better one of the best task so far and the first one of the place i.
Better(s, second, t, i) ==
    LET g == s.actentry[i]
        top == s.entry[g].queue[1]
    IN  IF Candidate(s, g, second) /\ (t = NoTask \/ Before(s, top, t)) THEN top ELSE t

\* Fault: the search stops before the last of the first entries.
FaultySearch(s, second) ==
    LET best(t, i) == Better(s, second, t, i)
    IN  FoldLeft(best, NoTask,
                 Places(IF s.active_idx > 1 THEN s.active_idx - 1 ELSE s.active_idx))

\* One search of __cpool_gp_get_pending_task through the first entries.
Search(s, second) ==
    LET best(t, i) == Better(s, second, t, i)
    IN  FoldLeft(best, NoTask, Places(s.active_idx))

\* Searched again, for ever, unless there is a task: see Take.
Found(s) ==
    LET first == Search(s, FALSE)
    IN  IF first # NoTask THEN first ELSE Search(s, TRUE)

\* The rest of it: t leaves the queue of its entry.
Unqueued(s, t) ==
    LET g == s.gid[t]
        e == s.entry[g]
        left == [s EXCEPT !.entry[g].queue = Tail(@),
                          !.entry[g].npendings_eff =
                                IF e.receive_benifits THEN @
                                ELSE IF Num(e) = 1 THEN 0 ELSE @ - 1,
                          !.effective = @ - 1, !.npendings = @ - 1,
                          !.order = RemoveFirst(@, t)]
    IN  IF Num(e) = 1 THEN Inactivate(left, g) ELSE left

MayTake(th) ==
    /\ run[th].q = <<>> /\ run[th].leaving = NoTask
    /\ gp.dispatch_q = <<>> /\ ~gp.paused /\ gp.effective # 0

\* cpool_gp_core_gettask.  When core->npendings is not zero and there is no task
\* to take, the thread goes on searching and never gives the lock back.
Take(th) ==
    /\ MayTake(th)
    /\ LET t == Found(gp)
           s == Unqueued(gp, t)
       IN  IF t = NoTask
           THEN gp' = [gp EXCEPT !.spinning = TRUE] /\ UNCHANGED run
           ELSE /\ gp' = [s EXCEPT !.stat[t] = "scheduling", !.thread[t] = th,
                                   !.entry[s.gid[t]].nrunnings = @ + 1]
                /\ run' = [run EXCEPT ![th].q = <<t>>, ![th].normal = TRUE]

\* cpool_gp_core_gettask and __cpool_com_get_dispatch_taskl3: removed tasks go
\* before all others.
TakeRemoved(th) ==
    /\ run[th].q = <<>> /\ run[th].leaving = NoTask /\ gp.dispatch_q # <<>>
    /\ LET n == MinOf(Batch, Len(gp.dispatch_q))
           batch == SubSeq(gp.dispatch_q, 1, n)
       IN  /\ gp' = [gp EXCEPT
                        !.dispatch_q = SubSeq(@, n + 1, Len(@)),
                        !.ndispatchings = @ + n,
                        !.thread = [t \in Tasks |->
                            IF t \in Range(batch) THEN th ELSE @[t]]]
           /\ run' = [run EXCEPT ![th].q = batch, ![th].normal = FALSE]

-----------------------------------------------------------------------------
(***************************************************************************)
(* The ends of tasks                                                       *)
(***************************************************************************)

\* The task leaves the trace queue of its group.
Untraced(s, t) == [s EXCEPT !.stat[t] = "idle", !.wpending = @ \ {t}]

\* A removed task has been taken care of.
Dispatched(s, t) ==
    [s EXCEPT !.ndispatchings = @ - 1,
              !.entry[s.gid[t]].ndispatchings = @ - 1]

Ran(s, t) == Filled([s EXCEPT !.entry[s.gid[t]].nrunnings = @ - 1], s.gid[t])

\* A task that was queued while it ran is pending again, others are done.
DoneWith(s, t) == IF t \in s.wpending THEN Queued(s, t) ELSE Untraced(s, t)

\* Fault: what follows a task that was detached is taken for detached too.
FaultyNextInQ(r) == [run EXCEPT ![r].q = Tail(@)]

NextInQ(r) == [run EXCEPT ![r].q = Tail(@), ![r].detached = FALSE]

\* cpool_gp_core_finished; nothing is left to do for a task that was detached.
Finished(th) ==
    /\ run[th].q # <<>> /\ run[th].leaving = NoTask
    /\ LET t == run[th].q[1]
           s == [gp EXCEPT !.thread[t] = NoThread]
       IN  gp' = IF run[th].detached THEN gp
                 ELSE IF run[th].normal THEN DoneWith(Ran(s, t), t)
                 ELSE DoneWith(Dispatched(s, t), t)
    /\ run' = NextInQ(th)

\* __cpool_gp_task_dispatcher, in a user's thread: a turn of its loop.
DispatchNext(u) ==
    /\ run[u].q # <<>> /\ run[u].leaving = NoTask
    /\ LET t == run[u].q[1]
       IN  gp' = IF run[u].detached THEN gp ELSE DoneWith(Dispatched(gp, t), t)
    /\ run' = NextInQ(u)

-----------------------------------------------------------------------------
(***************************************************************************)
(* Queueing and removing                                                   *)
(***************************************************************************)

\* cpool_gp_task_queue.  A task that runs and is not yet pending again is to be
\* queued when it is done, in the group it belongs to.
Queue(t, g) ==
    /\ ~gp.destroying /\ ~gp.throttle_on
    /\ IsValid(gp, g) /\ ~gp.entry[g].throttle
    /\ "detach" \in Careful => \A r \in Runners : run[r].leaving # t
    /\ \/ /\ gp.stat[t] = "idle"
          /\ gp' = Queued([gp EXCEPT !.gid[t] = g], t)
       \/ /\ gp.stat[t] \in {"scheduling", "dispatching"}
          /\ t \notin gp.wpending /\ gp.gid[t] = g
          /\ gp' = [gp EXCEPT !.wpending = @ \cup {t}]
    /\ UNCHANGED run

\* Error handlers are left to threads of the pool, in dispatch_q, or to the caller.
Handled(s, t, bypool) ==
    IF t \notin Handlers THEN Untraced(s, t)
    ELSE [s EXCEPT !.stat[t] = "dispatching",
                   !.dispatch_q = IF bypool THEN Append(@, t) ELSE @,
                   !.ndispatchings = IF bypool THEN @ ELSE @ + 1,
                   !.entry[s.gid[t]].ndispatchings = @ + 1]

\* __cpool_gp_task_removel
Removed(s, t, bypool) ==
    LET g == s.gid[t]
        e == s.entry[g]
        left == [Handled(s, t, bypool) EXCEPT
                    !.entry[g].queue = RemoveFirst(@, t),
                    !.order = RemoveFirst(@, t)]
        uncounted == e.receive_benifits \/ e.npendings_eff > Num(e) - 1
        counted == [left EXCEPT
                    !.npendings = @ - 1,
                    !.effective = IF uncounted THEN @ - 1 ELSE @,
                    !.entry[g].npendings_eff =
                        IF uncounted /\ ~e.receive_benifits THEN @ - 1 ELSE @]
    IN  IF e.paused THEN left
        ELSE IF Num(e) = 1 THEN Inactivate(counted, g)
        ELSE counted

\* A task that can be removed: a pending one is, another is not queued again.
Mark(s, t, bypool) ==
    IF t \in s.wpending THEN [s EXCEPT !.wpending = @ \ {t}]
    ELSE IF s.stat[t] = "waiting" THEN Removed(s, t, bypool)
    ELSE s

\* __cpool_gp_entry_mark_cbl0 for the tasks of X.  (The order in which the trace
\* queue is read is left out.)
Marked(s, X, bypool) ==
    LET mark(p, t) == Mark(p, t, bypool) IN FoldLeft(mark, s, SetToSeq(X))

Removable(s) == {t \in Tasks : s.stat[t] = "waiting" \/ t \in s.wpending}
OfGroup(s, g) == {t \in Tasks : s.gid[t] = g}
Traced(s, g) == {t \in OfGroup(s, g) : s.stat[t] # "idle"}

\* rmq: the tasks of X that leave their queue and whose error handlers are for
\* the caller to run.
Rmq(X) == SetToSeq({t \in X \cap Handlers : gp.stat[t] = "waiting"})

IdleUser(u) == run[u].q = <<>> /\ run[u].deleting = NoGroup

RemoveThese(u, X, bypool) ==
    /\ gp' = Marked(gp, X, bypool)
    /\ run' = [run EXCEPT ![u].q = IF bypool THEN <<>> ELSE Rmq(X)]

\* cpool_gp_task_remove, and cpool_gp_task_mark with a REMOVE flag.  f_stat is
\* read without the lock before: a task may have been taken since.
RemoveTask(u, t, bypool) ==
    /\ "remove" \in GpCalls /\ IdleUser(u) /\ t \in Removable(gp)
    /\ RemoveThese(u, {t}, bypool)

\* cpool_gp_mark_cb: the callback chooses among the tasks of all groups.
MarkCb(u, bypool) ==
    /\ "mark" \in GpCalls /\ IdleUser(u)
    /\ \E X \in SUBSET Removable(gp) : X # {} /\ RemoveThese(u, X, bypool)

\* cpool_gp_entry_mark_cb: among those of one group.
EntryMarkCb(u, g, bypool) ==
    /\ "mark" \in GpCalls /\ IdleUser(u)
    /\ g < gp.num /\ gp.entry[g].used # "free"
    /\ \E X \in SUBSET (Removable(gp) \cap OfGroup(gp, g)) :
            X # {} /\ RemoveThese(u, X, bypool)

-----------------------------------------------------------------------------
(***************************************************************************)
(* Groups                                                                  *)
(***************************************************************************)

Free(s) == {g \in 0..(s.num - 1) : s.entry[g].used = "free"}

\* The table of entries grows when none is free.
Grown(s) == IF Free(s) = {} THEN [s EXCEPT !.num = @ + Inc] ELSE s

\* cpool_gp_entry_create: any free entry (which one depends on the size of its
\* priority queue) becomes a group with the default attributes.
Created(s, g, suspend) ==
    SetAttr([s EXCEPT !.entry[g].used = "valid", !.entry[g].paused = suspend],
            g, s.maxthreads, TRUE)

CreateGroup(g, suspend) ==
    /\ "create" \in GpCalls /\ Grown(gp).num <= MaxNum
    /\ g \in Free(Grown(gp))
    /\ gp' = Created(Grown(gp), g, suspend)
    /\ UNCHANGED run

\* cpool_gp_entry_delete until it waits for the tasks of the group: pending tasks
\* are removed, their error handlers run by the caller; later only running and
\* removed ones are left.
DeleteGroup(u, g) ==
    /\ "delete" \in GpCalls /\ IdleUser(u)
    /\ IsValid(gp, g) /\ (g # 0 \/ gp.destroying)
    /\ gp' = Marked([gp EXCEPT !.entry[g].used = "destroying"],
                    Traced(gp, g), FALSE)
    /\ run' = [run EXCEPT ![u].deleting = g, ![u].q = Rmq(Traced(gp, g))]

\* What it waits for, WAIT_TYPE_TASK_ALL.
GroupDone(s, g) == Traced(s, g) = {}

\* Its end: the entry is free, all its flags are reset.
GroupFreed(u) ==
    LET g == run[u].deleting
    IN  /\ g # NoGroup /\ run[u].q = <<>> /\ GroupDone(gp, g)
        /\ gp' = [gp EXCEPT !.entry[g].used = "free", !.entry[g].throttle = FALSE,
                            !.entry[g].active = FALSE]
        /\ run' = [run EXCEPT ![u].deleting = NoGroup]

\* What cpool_gp_entry_suspend and cpool_gp_entry_suspend_all do to a group.
SuspendedGroup(s, g) ==
    LET e == s.entry[g]
        off == [s EXCEPT !.entry[g].paused = TRUE]
    IN  IF e.paused THEN s
        ELSE IF e.queue = <<>>
        THEN IF s.active_idx # s.nactives_ok THEN Shrink(off) ELSE off
        ELSE [Inactivate(off, g) EXCEPT
                !.npendings = @ - Num(e), !.effective = @ - Share(e),
                !.entry[g].npendings_eff = IF e.receive_benifits THEN @ ELSE 0]

\* Fault: the tasks of the group are counted before it has its new number.
FaultyResumedGroup(s, g) ==
    LET e == s.entry[g]
        on == [s EXCEPT !.entry[g].paused = FALSE]
    IN  IF ~e.paused \/ e.queue = <<>> THEN on
        ELSE Activate([on EXCEPT !.npendings = @ + Num(e),
                                 !.effective = @ + Share(e)], g)

\* What cpool_gp_entry_resume and cpool_gp_entry_resume_all do to a group.
ResumedGroup(s, g) ==
    LET e == s.entry[g]
        on == [s EXCEPT !.entry[g].paused = FALSE]
    IN  IF ~e.paused \/ e.queue = <<>> THEN on
        ELSE Activate(CountedAgain([on EXCEPT !.npendings = @ + Num(e)], g), g)

\* A group with a limit that runs nothing: callers that are careful have waited
\* until it does.
Rests(e) == e.receive_benifits \/ e.nrunnings = 0

Valid(s) == {g \in Ids : IsValid(s, g)}

SuspendGroup(g) ==
    /\ "suspend" \in GpCalls /\ IsValid(gp, g) /\ ~gp.destroying
    /\ ~gp.entry[g].paused
    /\ gp' = SuspendedGroup(gp, g)
    /\ UNCHANGED run

\* The loops of cpool_gp_entry_suspend_all and cpool_gp_entry_resume_all.
SuspendedAll(s) ==
    LET suspend(p, g) == IF IsValid(p, g) THEN SuspendedGroup(p, g) ELSE p
    IN  FoldLeft(suspend, s, Places(s.num))

ResumedAll(s) ==
    LET resume(p, g) == IF IsValid(p, g) THEN ResumedGroup(p, g) ELSE p
    IN  FoldLeft(resume, s, Places(s.num))

SuspendAllGroups ==
    /\ "suspend_all" \in GpCalls /\ ~gp.destroying
    /\ gp' = SuspendedAll(gp)
    /\ UNCHANGED run

ResumeGroup(g) ==
    /\ "resume" \in GpCalls /\ IsValid(gp, g) /\ ~gp.destroying
    /\ gp.entry[g].paused
    /\ "resume" \in Careful => Rests(gp.entry[g])
    /\ gp' = ResumedGroup(gp, g)
    /\ UNCHANGED run

ResumeAllGroups ==
    /\ "resume_all" \in GpCalls /\ ~gp.destroying
    /\ "resume" \in Careful => \A g \in Valid(gp) : Rests(gp.entry[g])
    /\ gp' = ResumedAll(gp)
    /\ UNCHANGED run

\* cpool_gp_entry_setattr
SetAttributes(g, attr) ==
    /\ "setattr" \in GpCalls /\ IsValid(gp, g)
    /\ "setattr" \in Careful => Traced(gp, g) = {}
    /\ gp' = SetAttr(gp, g, attr[1], attr[2])
    /\ UNCHANGED run

\* cpool_core_adjust_abs_l and the handler of eEvent_F_thread.
SetThreads(max) ==
    /\ "threads" \in GpCalls /\ ~gp.destroying
    /\ "threads" \in Careful => \A g \in Valid(gp) : Rests(gp.entry[g])
    /\ gp' = UpdateAllEnv([gp EXCEPT !.maxthreads = max])
    /\ UNCHANGED run

-----------------------------------------------------------------------------

\* cpool_gp_core_ctor: the table has its first entries, one of which is the
\* default group.
GpInit ==
    /\ \E max \in MaxThreads :
        LET free == [ used |-> "free", throttle |-> FALSE, active |-> FALSE,
                      paused |-> FALSE, limit_paralle_tasks |-> 0,
                      limit_tasks |-> 0, receive_benifits |-> FALSE,
                      npendings_eff |-> 0, nrunnings |-> 0, ndispatchings |-> 0,
                      queue |-> <<>> ]
            none == [ entry |-> [g \in Ids |-> free], num |-> 0,
                      actentry |-> [i \in Ids |-> i], active_idx |-> 0,
                      nactives_ok |-> 0, npendings |-> 0, effective |-> 0,
                      ndispatchings |-> 0, paused |-> FALSE,
                      destroying |-> FALSE, throttle_on |-> FALSE,
                      maxthreads |-> max, stat |-> [t \in Tasks |-> "idle"],
                      wpending |-> {}, gid |-> [t \in Tasks |-> 0],
                      thread |-> [t \in Tasks |-> NoThread], order |-> <<>>,
                      dispatch_q |-> <<>>, spinning |-> FALSE ]
        IN  gp = Created(Grown(none), 0, FALSE)
    /\ run = [r \in Runners |-> [ q |-> <<>>, normal |-> FALSE,
                                  detached |-> FALSE, leaving |-> NoTask,
                                  deleting |-> NoGroup ]]

Serve(th) == Take(th) \/ TakeRemoved(th) \/ Finished(th)

UserStep(u) ==
    \/ DispatchNext(u)
    \/ \E t \in Tasks, bypool \in BOOLEAN : RemoveTask(u, t, bypool)
    \/ \E bypool \in BOOLEAN : MarkCb(u, bypool)
    \/ \E g \in Ids, bypool \in BOOLEAN : EntryMarkCb(u, g, bypool)
    \/ \E g \in Ids : DeleteGroup(u, g)
    \/ GroupFreed(u)

GroupCall ==
    \/ \E t \in Tasks, g \in Ids : Queue(t, g)
    \/ \E g \in Ids, suspend \in Suspended : CreateGroup(g, suspend)
    \/ \E g \in Ids : SuspendGroup(g) \/ ResumeGroup(g)
    \/ SuspendAllGroups \/ ResumeAllGroups
    \/ \E g \in Ids, attr \in Attrs : SetAttributes(g, attr)
    \/ \E max \in MaxThreads : SetThreads(max)

\* A thread that spins holds core->mut: all others wait for it.
GpNext ==
    /\ ~gp.spinning
    /\ \/ \E th \in Threads : Serve(th)
       \/ \E u \in Users : UserStep(u)
       \/ GroupCall

GpSpec == GpInit /\ [][GpNext]_gpvars

\* Threads are awake when there is something to do (CpoolCore), and tasks end.
GpFair ==
    /\ \A th \in Threads :
        WF_gpvars(~gp.spinning /\ Serve(th))
    /\ \A u \in Users : WF_gpvars(~gp.spinning /\ (DispatchNext(u) \/ GroupFreed(u)))
GpFairSpec == GpSpec /\ GpFair

-----------------------------------------------------------------------------
(***************************************************************************)
(* Properties                                                              *)
(***************************************************************************)

Ready(s, g) == LET e == s.entry[g]
               IN  g < s.num /\ e.used # "free" /\ ~e.paused /\ e.queue # <<>>

ReadyGroups(s) == {g \in Ids : Ready(s, g)}

\* get_pending_task looks at the first active_idx entries of actentry only, so
\* they have to be all those with tasks to take, and none that is suspended,
\* whatever was suspended, resumed, emptied and created before.
FirstEntries ==
    LET first == {gp.actentry[i] : i \in 0..(gp.active_idx - 1)}
    IN  /\ ReadyGroups(gp) = {g \in Ids : gp.entry[g].active}
        /\ ReadyGroups(gp) \subseteq first
        /\ gp.nactives_ok = Cardinality(ReadyGroups(gp))
        /\ \A g \in first : ~gp.entry[g].paused \/ gp.entry[g].queue = <<>>
        /\ {gp.actentry[i] : i \in Ids} = Ids

\* core->npendings, by which the core decides whether threads are needed, is what
\* the groups have left to take, each as far as its limit goes (__cpool_gp_entry_
\* consumer_notifyl, cpool_gp_core_finished, cpool_gp_entry_suspend and others).
PendingSums ==
    /\ gp.npendings =
         SumFunctionOnSet([g \in Ids |-> Num(gp.entry[g])], ReadyGroups(gp))
    /\ gp.effective =
         SumFunctionOnSet([g \in Ids |-> Share(gp.entry[g])], ReadyGroups(gp))
    /\ \A g \in ReadyGroups(gp) :
        LET e == gp.entry[g]
        IN  ~e.receive_benifits =>
                e.npendings_eff = IF e.nrunnings >= e.limit_tasks THEN 0
                                  ELSE MinOf(e.limit_tasks - e.nrunnings, Num(e))

\* nrunnings and ndispatchings of a group are the tasks of it that threads and
\* users run, whoever removed, detached or queued them meanwhile.
GroupCounters ==
    LET ran(g) == {th \in Threads : /\ run[th].normal /\ run[th].q # <<>>
                                    /\ ~run[th].detached
                                    /\ gp.gid[run[th].q[1]] = g}
        dispatched(g) == {t \in OfGroup(gp, g) : gp.stat[t] = "dispatching"}
    IN  /\ \A g \in Ids :
            /\ gp.entry[g].nrunnings = Cardinality(ran(g))
            /\ gp.entry[g].ndispatchings = Cardinality(dispatched(g))
        /\ gp.ndispatchings + Len(gp.dispatch_q) =
             Cardinality({t \in Tasks : gp.stat[t] = "dispatching"})

\* What the pool and its groups count instead of looking at their tasks.
GroupCounts == GpTypeOK /\ PendingSums /\ GroupCounters

\* A thread that was told there are tasks finds one: get_pending_task searches
\* until it does, with core->mut held.
NoSpinning == ~gp.spinning

\* Whatever order the groups are searched in, a thread takes the task that one
\* queue of all groups would have first, among the groups within their limits, or
\* those that receive benefits when all are at their limits; never one of a group
\* that is suspended.
TakesFirst ==
    [][ \A th \in Threads, t \in Tasks :
          (gp.stat[t] = "waiting" /\ gp'.stat[t] = "scheduling") =>
            LET within(u) == EntryOf(gp, u).nrunnings < EntryOf(gp, u).limit_tasks
                tops == {gp.entry[g].queue[1] : g \in ReadyGroups(gp)}
                rivals == IF \E u \in tops : within(u)
                          THEN {u \in tops : within(u)}
                          ELSE {u \in tops : EntryOf(gp, u).receive_benifits}
            IN  /\ ~EntryOf(gp, t).paused /\ t \in rivals
                /\ \A u \in rivals : u # t => Before(gp, t, u)
      ]_gpvars

\* While groups that are not suspended have pending tasks, threads go on taking
\* tasks: no group is left with tasks that core->npendings does not count.
GroupsServed ==
    <>[](ReadyGroups(gp) # {} /\ ~gp.paused)
        => []<><<\E th \in Threads : Take(th) \/ TakeRemoved(th)>>_gpvars

=============================================================================
