--------------------------- MODULE CpoolDispatchQ ---------------------------
(***************************************************************************)
(* The ready queue of the routine pool and the queue of removed tasks,     *)
(* core->dispatch_q, link by link: users queue tasks, remove all of them   *)
(* or those a callback picks (src/pool/rt), and threads take tasks to run  *)
(* them, and removed tasks, some at a time, to lists of their own, from    *)
(* which they run the error handlers (src/pool/com/cpool_com_internal.h).  *)
(*                                                                         *)
(* CpoolCore counts these tasks; here they have names, since the lists of  *)
(* src/pool/core/list.h are intrusive: a task has one pair of links, which *)
(* nobody resets when it leaves a list, and the head of a list that was    *)
(* spliced to another one still points into it.                            *)
(***************************************************************************)
EXTENDS Naturals, Sequences, FiniteSets, SequencesExt

CONSTANTS
    Tasks,      \* tasks, each with an error handler
    Threads,    \* threads of the pool; each stands for the head of its list
    R, Q,       \* rtp->ready_q and core->dispatch_q
    Batch,      \* rtp->n: how many removed tasks a thread takes at one time
    Removals,   \* the ways to remove tasks from a pool that is suspended
                \* (Removals[TRUE]) and from one that is not; none: no such pool
    Refill      \* bound: may tasks be removed after the queue was emptied, or
                \* queued after mark_cb ?

AllRemovals == {"all", "cb"}

Heads == Threads \cup {R, Q}
Nodes == Tasks \cup Heads

ASSUME DispatchAssumption ==
    /\ IsFiniteSet(Tasks) /\ IsFiniteSet(Threads)
    /\ Tasks \cap Heads = {} /\ {R, Q} \cap Threads = {} /\ R # Q
    /\ Batch \in Nat \ {0} /\ Refill \in BOOLEAN
    /\ Removals \in [BOOLEAN -> SUBSET AllRemovals]

VARIABLES
    next, prev,     \* the links
    npendings, n_qdispatchs,
    paused,         \* is the pool suspended ? (it stays so)
    state,          \* what is to become of each task
    emptied,        \* the queue was emptied once, for the bound
    marked          \* mark_cb has removed tasks, for the bound

vars == <<next, prev, npendings, n_qdispatchs, paused, state, emptied, marked>>

\* out       not in the pool yet
\* pending   in the ready queue
\* removed   to be taken by a thread
\* taken     a thread will run its error handler
\* done      it, or its error handler, has run
TaskState == {"out", "pending", "removed", "taken", "done"}

TypeOK ==
    /\ next \in [Nodes -> Nodes] /\ prev \in [Nodes -> Nodes]
    /\ npendings \in 0..Cardinality(Tasks)
    /\ n_qdispatchs \in 0..Cardinality(Tasks)
    /\ state \in [Tasks -> TaskState]
    /\ paused \in BOOLEAN /\ emptied \in BOOLEAN /\ marked \in BOOLEAN

Init ==
    /\ next = [x \in Nodes |-> x] /\ prev = [x \in Nodes |-> x]
    /\ npendings = 0 /\ n_qdispatchs = 0
    /\ state = [x \in Tasks |-> "out"]
    /\ paused \in {b \in BOOLEAN : Removals[b] # {}}
    /\ emptied = FALSE /\ marked = FALSE

InState(s) == {x \in Tasks : state[x] = s}

\* The k-th entry of the list h, following the links from its head.
Entry(h, k) == LET nth[i \in 0..k] == IF i = 0 THEN h ELSE next[nth[i - 1]]
               IN  nth[k]

\* f with the values of g where g has one.
Update(f, g) == [x \in DOMAIN f |-> IF x \in DOMAIN g THEN g[x] ELSE f[x]]

Mark(X, s) == state' = [x \in Tasks |-> IF x \in X THEN s ELSE state[x]]

-----------------------------------------------------------------------------
(***************************************************************************)
(* The users                                                               *)
(***************************************************************************)

\* The lists next and prev with the tasks s, linked to each other, between the
\* entries a and b.
Between(s, a, b) ==
    LET at(x) == CHOOSE i \in 1..Len(s) : s[i] = x
        nexts == [x \in Range(s) |-> IF x = Last(s) THEN b ELSE s[at(x) + 1]]
        prevs == [x \in Range(s) |-> IF x = s[1] THEN a ELSE s[at(x) - 1]]
    IN  << [Update(next, nexts) EXCEPT ![a] = s[1]],
           [Update(prev, prevs) EXCEPT ![b] = Last(s)] >>

Insert(s, a, b) ==
    LET links == Between(s, a, b) IN next' = links[1] /\ prev' = links[2]

\* cpool_rt_task_queue: list_add_tail to the ready queue.
Queue(x) ==
    /\ state[x] = "out" /\ (marked => Refill)
    /\ Insert(<<x>>, prev[R], R)
    /\ Mark({x}, "pending")
    /\ npendings' = npendings + 1
    /\ UNCHANGED <<paused, n_qdispatchs, emptied, marked>>

MayRemove(way) == way \in Removals[paused] /\ (emptied => Refill)

\* Fault: the tasks are not counted.
FaultyRemoveAll ==
    /\ MayRemove("all") /\ ~marked /\ npendings > 0
    /\ LET s == [i \in 1..npendings |-> Entry(R, i)]
           links == Between(s, Q, next[Q])
       IN  /\ next' = [links[1] EXCEPT ![R] = R]
           /\ prev' = [links[2] EXCEPT ![R] = R]
           /\ Mark(Range(s), "removed")
    /\ npendings' = 0
    /\ UNCHANGED <<paused, n_qdispatchs, emptied, marked>>

\* cpool_rt_mark_all and __cpool_rt_task_dispatch: the whole ready queue comes
\* to the front of the other one.  (Bound: not after mark_cb.)
RemoveAll ==
    /\ MayRemove("all") /\ ~marked /\ npendings > 0
    /\ LET s == [i \in 1..npendings |-> Entry(R, i)]
           links == Between(s, Q, next[Q])
       IN  /\ next' = [links[1] EXCEPT ![R] = R]
           /\ prev' = [links[2] EXCEPT ![R] = R]
           /\ Mark(Range(s), "removed")
    /\ npendings' = 0 /\ n_qdispatchs' = n_qdispatchs + npendings
    /\ UNCHANGED <<paused, emptied, marked>>

\* Which k of the tasks that are pending the callback picks, one after another.
Picks(k) ==
    {at \in [1..k -> 1..npendings] : \A i, j \in 1..k : i < j => at[i] < at[j]}

\* Fault: the tasks are not counted.
FaultyMarkCb ==
    /\ MayRemove("cb") /\ ~marked
    /\ \E k \in 1..npendings : \E at \in Picks(k) :
         LET s == [i \in 1..k |-> Entry(R, at[i])]
         IN  /\ Insert(s, prev[Q], Q)
             /\ Mark(Range(s), "removed")
    /\ marked' = TRUE
    /\ UNCHANGED <<paused, npendings, n_qdispatchs, emptied>>

\* cpool_rt_mark_cb: the tasks the callback picks come to the end of the queue
\* of removed tasks, one by one.  Nobody takes them off the ready queue, whose
\* other entries still point to them.  (Bound: this happens once.)
MarkCb ==
    /\ MayRemove("cb") /\ ~marked
    /\ \E k \in 1..npendings : \E at \in Picks(k) :
         LET s == [i \in 1..k |-> Entry(R, at[i])]
         IN  /\ Insert(s, prev[Q], Q)
             /\ Mark(Range(s), "removed")
             /\ n_qdispatchs' = n_qdispatchs + k
    /\ marked' = TRUE
    /\ UNCHANGED <<paused, npendings, emptied>>

-----------------------------------------------------------------------------
(***************************************************************************)
(* The threads                                                             *)
(***************************************************************************)

\* A thread that has run all its error handlers.
Idle(t) == next[t] = t

\* The first k entries of the queue, which are the next to be handled.
First(k) == {Entry(Q, i) : i \in 1..k}

\* __cpool_com_get_dispatch_taskl, the queue holds no more than Batch tasks:
\* all of them go to t.  The head of the queue is left as it is.
TakeAll(t) ==
    /\ Idle(t) /\ n_qdispatchs \in 1..Batch
    /\ LET first == next[Q]
           last  == prev[Q]
       IN  /\ prev' = [prev EXCEPT ![first] = t, ![t] = last]
           /\ next' = [next EXCEPT ![t] = first, ![last] = t]
    /\ Mark(First(n_qdispatchs), "taken")
    /\ n_qdispatchs' = 0 /\ emptied' = TRUE
    /\ UNCHANGED <<paused, npendings, marked>>

\* Fault: the cut is made one entry too late.
FaultyCut(t, entry) ==
    LET late == next[entry]
        rest == next[late]
    IN  /\ next' = [next EXCEPT ![t] = next[Q], ![late] = t, ![Q] = rest]
        /\ prev' = [prev EXCEPT ![next[Q]] = t, ![t] = late, ![rest] = Q]

\* __list_cut_position: the queue up to entry goes to t.
Cut(t, entry) ==
    LET rest == next[entry]
    IN  /\ next' = [next EXCEPT ![t] = next[Q], ![entry] = t, ![Q] = rest]
        /\ prev' = [prev EXCEPT ![next[Q]] = t, ![t] = entry, ![rest] = Q]

\* ... and otherwise Batch of them.
TakeSome(t) ==
    /\ Idle(t) /\ n_qdispatchs > Batch
    /\ Cut(t, Entry(Q, Batch))
    /\ Mark(First(Batch), "taken")
    /\ n_qdispatchs' = n_qdispatchs - Batch
    /\ UNCHANGED <<paused, npendings, emptied, marked>>

\* list_del
Unlink(x) ==
    /\ next' = [next EXCEPT ![prev[x]] = next[x]]
    /\ prev' = [prev EXCEPT ![next[x]] = prev[x]]

\* cpool_core_schedule: t runs the error handler of the first task it has.
Handle(t) ==
    /\ ~Idle(t) /\ next[t] \in Tasks
    /\ Unlink(next[t])
    /\ Mark({next[t]}, "done")
    /\ UNCHANGED <<paused, npendings, n_qdispatchs, emptied, marked>>

\* cpool_rt_core_gettask: there is nothing to handle; t runs the first task of
\* the ready queue.
GetTask(t) ==
    /\ Idle(t) /\ n_qdispatchs = 0 /\ ~paused /\ npendings > 0
    /\ next[R] \in Tasks
    /\ Unlink(next[R])
    /\ Mark({next[R]}, "done")
    /\ npendings' = npendings - 1
    /\ UNCHANGED <<paused, n_qdispatchs, emptied, marked>>

\* Bound: nothing is left to be done.
Finished ==
    /\ n_qdispatchs = 0 /\ (paused \/ npendings = 0) /\ \A t \in Threads : Idle(t)
    /\ UNCHANGED vars

Take(t) == TakeAll(t) \/ TakeSome(t) \/ GetTask(t)

Next ==
    \/ \E x \in Tasks : Queue(x)
    \/ RemoveAll \/ MarkCb
    \/ \E t \in Threads : Take(t) \/ Handle(t)
    \/ Finished

Spec == Init /\ [][Next]_vars

\* Threads run, and so do the tasks and error handlers they call.
Fairness == \A t \in Threads : WF_vars(Take(t) \/ Handle(t))

FairSpec == Spec /\ Fairness

-----------------------------------------------------------------------------
(***************************************************************************)
(* Properties                                                              *)
(***************************************************************************)

\* The entries of the list h up to its end, or the first Cardinality(Nodes).
Listed(h) ==
    LET ends == {k \in 1..Cardinality(Nodes) : Entry(h, k) = h}
        n == IF ends = {} THEN Cardinality(Nodes)
             ELSE (CHOOSE k \in ends : \A j \in ends : k <= j) - 1
    IN  {Entry(h, k) : k \in 1..n}

\* The lists of the threads share nothing with each other, and hold just the
\* tasks that are to be handled, as the ready queue, until mark_cb, holds those
\* to be run: whoever splices, cuts or unlinks one leaves the others alone.
ListsApart ==
    /\ TypeOK
    /\ UNION {Listed(t) : t \in Threads} = InState("taken")
    /\ \A t, u \in Threads : t # u => Listed(t) \cap Listed(u) = {}
    /\ ~marked => Listed(R) = InState("pending")

\* The counters, which are all that threads look at: n_qdispatchs counts the
\* tasks removed and not taken yet, and they come first in the queue.
CountedFirst ==
    /\ n_qdispatchs = Cardinality(InState("removed"))
    /\ First(n_qdispatchs) = InState("removed")
    /\ ~marked => npendings = Cardinality(InState("pending"))

\* A task that is removed is handled, and so is, in a pool that is not
\* suspended, a task that is pending.
Handled ==
    \A x \in Tasks : state[x] = "removed" \/ (~paused /\ state[x] = "pending")
                     ~> state[x] = "done"

\* stpool.h: the error handlers of the tasks that are removed "will be called
\* by the pool in the background": those, and once.
HandledOnce == [][ \A t \in Threads : Handle(t) => state[next[t]] = "taken" ]_vars

\* stpool.h: tasks marked with TASK_VMARK_REMOVE_BYPOOL "will be removed from
\* the pending queue": threads run only tasks that are still pending.
RemovedNotRun == [][ \A t \in Threads : GetTask(t) => state[next[R]] = "pending" ]_vars
=============================================================================
