------------------------------ MODULE CpoolPriq ------------------------------
(***************************************************************************)
(* The ready queue of a routine pool with priorities                       *)
(* (src/pool/com/cpool_com_priq.h, src/pool/rt): priq_num queues of tasks, *)
(* each for a range of priorities, and the list of those that are not      *)
(* empty, from which threads take tasks.  Tasks are objects of a cache,    *)
(* which go back there when they are done and come out again as others.    *)
(*                                                                         *)
(* CpoolCore counts these tasks; here they have an order.                  *)
(***************************************************************************)
EXTENDS Integers, Sequences, FiniteSets, SequencesExt

CONSTANTS
    Tasks,      \* task objects
    PriqNum,    \* priq_num
    Pris,       \* the priorities users ask for, ...
    Policies,   \* ... the policies, a subset of AllPolicies, ...
    Permanents  \* ... and the values of permanent

AllPolicies == {"TOP", "BACK"}

ASSUME PriqAssumption ==
    /\ IsFiniteSet(Tasks)
    /\ PriqNum \in 1..100 /\ Pris \subseteq 0..99
    /\ Policies \subseteq AllPolicies /\ Permanents \subseteq BOOLEAN

VARIABLES
    attr,       \* what the task objects keep of their scheduling
    task_q,     \* the tasks of each queue
    ready_q,    \* the queues that are not empty
    stat        \* f_stat

vars == <<attr, task_q, ready_q, stat>>

Queues == 0..(PriqNum - 1)

\* push, adj, once: eTASK_VM_F_PUSH, ADJPRI and PRI_ONCE.  asked: the user has
\* set the attributes since the task was last added (not kept by the code).
Attributes ==
    [ pri : 0..99, policy : AllPolicies, priq : 0..100,
      push : BOOLEAN, adj : BOOLEAN, once : BOOLEAN, asked : BOOLEAN ]

\* out      in the cache of task objects
\* waiting  in one of the queues
\* running  taken, or removed, by a thread that runs it or its error handler
\* again    ... and to be added when that is done (WPENDING)
\* astray   added to a queue that does not exist; what follows is undefined
TaskStat == {"out", "waiting", "running", "again", "astray"}

TypeOK ==
    /\ attr \in [Tasks -> Attributes]
    /\ task_q \in [Queues -> Seq(Tasks)]
    /\ ready_q \in Seq(Queues)
    /\ stat \in [Tasks -> TaskStat]

\* cpool_com_cache_get, which leaves priq alone.
Recycled(a) ==
    [a EXCEPT !.pri = 0, !.policy = "BACK", !.push = TRUE,
              !.adj = FALSE, !.once = FALSE, !.asked = FALSE]

Init ==
    /\ attr = [x \in Tasks |-> Recycled([priq |-> 0, pri |-> 0, policy |-> "BACK",
                                         push |-> TRUE, adj |-> FALSE,
                                         once |-> FALSE, asked |-> FALSE])]
    /\ task_q = [i \in Queues |-> <<>>] /\ ready_q = <<>>
    /\ stat = [x \in Tasks |-> "out"]

-----------------------------------------------------------------------------
(***************************************************************************)
(* The scheduling attributes                                               *)
(***************************************************************************)

\* stpool_task_setschattr
Asked(a, pri, policy, permanent) ==
    LET b == [a EXCEPT !.policy = policy, !.once = ~permanent, !.asked = TRUE]
    IN  IF pri = 0 /\ policy = "BACK"
        THEN [b EXCEPT !.pri = 0, !.priq = 0, !.push = TRUE, !.adj = FALSE]
        ELSE [b EXCEPT !.pri = pri, !.push = FALSE, !.adj = TRUE]

AllAsked(a) ==
    { Asked(a, pri, policy, permanent) :
        pri \in Pris, policy \in Policies, permanent \in Permanents }

avg_pri == 100 \div PriqNum

\* __cpool_com_priq_locate
Locate(pri) == IF pri < avg_pri THEN 0 ELSE pri \div avg_pri

\* __cpool_com_task_nice_preprocess
Located(a) ==
    IF a.adj THEN [a EXCEPT !.adj = FALSE, !.priq = Locate(a.pri)] ELSE a

\* __cpool_com_task_nice_adjust
Adjusted(a) ==
    IF a.once
    THEN [a EXCEPT !.push = TRUE, !.once = FALSE, !.priq = 0, !.pri = 0,
                   !.policy = "BACK"]
    ELSE a

-----------------------------------------------------------------------------
(***************************************************************************)
(* The queues                                                              *)
(***************************************************************************)

\* Fault: a task with policy TOP goes after the first one, too.
FaultyInserted(q, x, a) ==
    IF a[x].push \/ q = <<>> THEN Append(q, x)
    ELSE InsertAt(q, IF a[x].pri > a[q[1]].pri THEN 1 ELSE 2, x)

\* __cpool_com_priq_insert0: x is compared with the first task of q, and goes
\* before or right after it (both loops end with their first step).
Inserted(q, x, a) ==
    LET first == a[q[1]]
        ahead == \/ a[x].pri > first.pri
                 \/ a[x].pri = first.pri /\ a[x].policy = "TOP"
    IN  IF a[x].push \/ q = <<>> THEN Append(q, x)
        ELSE InsertAt(q, IF ahead THEN 1 ELSE 2, x)

\* Fault: the queue is compared with the first one that is ready.
FaultyActivated(r, i) ==
    IF r = <<>> \/ i < r[1] THEN Append(r, i) ELSE <<i>> \o r

\* __cpool_com_priq_active
Activated(r, i) ==
    IF r = <<>> \/ i < Last(r) THEN Append(r, i)
    ELSE LET k == CHOOSE k \in 1..Len(r) :
                    i > r[k] /\ \A j \in 1..(k - 1) : i <= r[j]
         IN  InsertAt(r, k, i)

\* __cpool_com_priq_insert of x, whose attributes are a.
Add(x, a) ==
    LET i == a.priq
        now == [attr EXCEPT ![x] = [a EXCEPT !.asked = FALSE]]
    IN  /\ attr' = now
        /\ IF i \in Queues
           THEN /\ ready_q' = IF task_q[i] = <<>> THEN Activated(ready_q, i)
                              ELSE ready_q
                /\ task_q' = [task_q EXCEPT ![i] = Inserted(@, x, now)]
                /\ stat' = [stat EXCEPT ![x] = "waiting"]
           ELSE /\ stat' = [stat EXCEPT ![x] = "astray"]
                /\ UNCHANGED <<task_q, ready_q>>

-----------------------------------------------------------------------------

\* stpool_add_routine, with or without attributes.
AddRoutine(x) ==
    /\ stat[x] = "out"
    /\ \E a \in {attr[x]} \cup AllAsked(attr[x]) : Add(x, Located(a))

\* stpool_task_setschattr, called by the task.
SetAttr(x) ==
    /\ stat[x] \in {"running", "again"}
    /\ \E a \in AllAsked(attr[x]) : attr' = [attr EXCEPT ![x] = a]
    /\ UNCHANGED <<task_q, ready_q, stat>>

\* cpool_rt_task_queue, called by the task.
MarkAgain(x) ==
    /\ stat[x] = "running"
    /\ stat' = [stat EXCEPT ![x] = "again"]
    /\ attr' = [attr EXCEPT ![x] = Located(@)]
    /\ UNCHANGED <<task_q, ready_q>>

\* __cpool_com_priq_pop, by a thread in cpool_rt_core_pri_gettask.
Pop ==
    /\ ready_q # <<>>
    /\ LET i == ready_q[1]
           x == task_q[i][1]
       IN  /\ task_q' = [task_q EXCEPT ![i] = Tail(@)]
           /\ ready_q' = IF Len(task_q[i]) = 1 THEN Tail(ready_q) ELSE ready_q
           /\ stat' = [stat EXCEPT ![x] = "running"]
    /\ UNCHANGED attr

\* cpool_rt_core_pri_finished
Finish(x) ==
    \/ /\ stat[x] = "running"
       /\ stat' = [stat EXCEPT ![x] = "out"]
       /\ attr' = [attr EXCEPT ![x] = Recycled(@)]
       /\ UNCHANGED <<task_q, ready_q>>
    \/ /\ stat[x] = "again"
       /\ Add(x, Located(Adjusted(attr[x])))

\* __cpool_rt_priq_remove_all; the error handlers are run by threads.
RemoveAll ==
    /\ ready_q # <<>>
    /\ task_q' = [i \in Queues |-> <<>>] /\ ready_q' = <<>>
    /\ stat' = [x \in Tasks |-> IF stat[x] = "waiting" THEN "running" ELSE stat[x]]
    /\ UNCHANGED attr

Next ==
    \/ \E x \in Tasks : AddRoutine(x) \/ SetAttr(x) \/ MarkAgain(x) \/ Finish(x)
    \/ Pop \/ RemoveAll

Spec == Init /\ [][Next]_vars

-----------------------------------------------------------------------------
(***************************************************************************)
(* Properties                                                              *)
(***************************************************************************)

Waiting == {x \in Tasks : stat[x] = "waiting"}

\* Threads, which only look at the first queue of ready_q, come to every task
\* that waits: the queues that are not empty are in ready_q, the one with the
\* highest priorities first.
ReadyOrder ==
    /\ Range(ready_q) = {i \in Queues : task_q[i] # <<>>}
    /\ \A j, k \in DOMAIN ready_q : j < k => ready_q[j] > ready_q[k]

\* Each task that waits is in one queue, once: the one its priq names, from
\* which it is unlinked.
EachOnce ==
    /\ \A x \in Waiting : /\ attr[x].priq \in Queues
                         /\ x \in Range(task_q[attr[x].priq])
    /\ \A i \in Queues : \A k \in DOMAIN task_q[i] :
          /\ task_q[i][k] \in Waiting /\ attr[task_q[i][k]].priq = i
          /\ \A j \in DOMAIN task_q[i] : task_q[i][j] = task_q[i][k] => j = k

\* The queues hold what waits, and threads find it.
QueuesSound == TypeOK /\ ReadyOrder /\ EachOnce

\* Before x in its queue there is nobody of lower priority, nor, if x has the
\* policy TOP, of the same.
NoLowerBefore(x) ==
    LET q == task_q[attr[x].priq]
        before == {q[k] : k \in 1..(CHOOSE k \in DOMAIN q : q[k] = x) - 1}
    IN  \A y \in before : IF attr[x].policy = "TOP" THEN attr[y].pri > attr[x].pri
                          ELSE attr[y].pri >= attr[x].pri

\* Nobody who comes is put behind a task of lower priority, or, with policy
\* TOP, behind one of the same.
BehindNoLower == [][\A x \in Waiting' \ Waiting : NoLowerBefore(x)']_vars

(***************************************************************************)
(* What the documents and assertions say and the code does not keep        *)
(***************************************************************************)

\* stpool.h: "the tasks who has the higher priority will be scheduled prior to
\* the tasks who has a lower priority".
HigherFirst ==
    [][ Pop => \A x \in Tasks : stat[x] = "waiting" /\ stat'[x] = "running" =>
                 \A y \in Waiting' : attr[y].pri <= attr[x].pri ]_vars

\* __cpool_com_priq_insert asserts that a task's queue exists.
QueueExists == \A x \in Tasks : stat[x] # "astray"

\* stpool.h: a task "will be inserted into a propriate priority queue by order
\* according to its priority".
QueueFits == \A x \in Waiting : attr[x].priq = Locate(attr[x].pri)

\* stpool.h: a priority that is not permanent "will be set to zero after the
\* next time to add it into the pool", and not before.
OnceCounts ==
    [][ \A x \in Waiting' \ Waiting :
          stat[x] = "again" /\ attr[x].asked => attr'[x].pri = attr[x].pri ]_vars
=============================================================================
