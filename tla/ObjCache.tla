------------------------------- MODULE ObjCache -------------------------------
(***************************************************************************)
(* The objects of a pool (sm_cache, objpool, cpool_core_gc): task objects  *)
(* are cut from blocks of memory (objpool_t), cached for the pool          *)
(* (core->cache_task) and for each thread (qcache), and given back when    *)
(* there are too many of them, by a thread that has nothing else to do     *)
(* (GC); thread objects are cached in core->cache_thread.                  *)
(*                                                                         *)
(* A cache is a list under a lock.  The routine pool has a lock for        *)
(* core->cache_task; that of the group pool is core->mut.  A step here is  *)
(* what is done under one lock, and what follows it without.  When threads *)
(* are started and woken, and which tasks they find, is CpoolCore's part:  *)
(* here this may happen at any time.                                       *)
(***************************************************************************)
EXTENDS Integers, FiniteSets, SequencesExt

CONSTANTS
    Pages,          \* where calloc finds room for a block, in order of address
    BlockObjs,      \* block_nobjs
    Regain,         \* the objects objpool_get takes back at a time (5)
    Threads,        \* thread objects
    Buffer,         \* those in core->buffer; the others are allocated
    ThreadLimit,    \* nlimit_cache of core->cache_thread
    NoThread,
    NoObject,
    Callers,        \* users that add tasks, and the dispatcher
    LocalLimit,     \* thread_local_cache_limited
    DelayBelow,     \* GC is only put off with less objects than this (400)
    CreatedAttr,    \* cattr: <<nGC_cache, nGC_wakeup, nGC_one_time>>
    ReleaseAttr,    \* the same in cpool_core_release_ex
    DoneBy,         \* who caches the objects of tasks that are done: "rt", "gp"
    Markable,       \* threads that cpool_core_adjust may mark (a bound)
    Careful         \* what cannot happen: see the actions

\* An object is known by its block and its place in the block.
Objects == Pages \X (0..BlockObjs - 1)

\* (smcache_init2 takes a limit of 0 for no limit.)
ASSUME ObjAssumption ==
    /\ IsFiniteSet(Pages) /\ Pages \subseteq Nat /\ BlockObjs \in Nat \ {0}
    /\ NoObject \notin Objects /\ Buffer \cap Objects = {}
    /\ IsFiniteSet(Threads) /\ ThreadLimit \in Int \ {0}
    /\ Regain \in Nat \ {0} /\ LocalLimit \in Nat \ {0}
    /\ CreatedAttr \in Int \X Int \X Int /\ ReleaseAttr \in Int \X Int \X Int
    /\ Buffer \subseteq Threads /\ Markable \subseteq Threads /\ NoThread \notin Threads
    /\ DoneBy \subseteq {"rt", "gp"}
    /\ Careful \subseteq {"ascending", "marks"}

VARIABLES
    pool,   \* the objpool and the list of its cache
    thc,    \* the list of core->cache_thread
    used,   \* objects of tasks that are not done
    ths,    \* thread_t
    gc,     \* the core: GC and status
    pc      \* where the callers are

vars == <<pool, thc, used, ths, gc, pc>>

\* blocks, sorted by address, each with the objects put back into it; nput; xq:
\* the list of the cache; astray: the search for a place has left the array.
PoolType ==
    [ blocks : Seq([begin : Pages, putq : Seq(Objects)]), nput : Nat,
      xq : Seq(Objects), astray : BOOLEAN ]

\* none    not allocated               cached  in core->cache_thread
\* ready   in cpool_core_gettask       taken   has a task, flags still to be seen
\* unset   in GC_leave, has read flags run     runs its task
\* gc      runs the GC task            free    has objects to give back
\* asleep  in THREAD_STAT_WAIT         left    in THREAD_STAT_LEAVE
Location == {"none", "cached", "ready", "taken", "unset", "run", "gc", "free",
             "asleep", "left"}
Flags == SUBSET {"GC", "FLUSH", "RM"}

ThreadType ==
    [ at : Location, task : Objects \cup {NoObject}, qcache : Seq(Objects),
      flags : Flags, seen : Flags, limit : Int, rmq : Seq(Objects) ]

\* due: the time of the GC has come.  dying: nthreads_dying.
CoreType ==
    [ GC : Threads \cup {NoThread}, delay : BOOLEAN, due : BOOLEAN, dying : Nat,
      status : {"created", "destroying", "destroyed"}, cleaning : BOOLEAN,
      attr : {CreatedAttr, ReleaseAttr} ]

ObjTypeOK ==
    /\ pool \in PoolType /\ thc \in Seq(Threads) /\ used \subseteq Objects
    /\ ths \in [Threads -> ThreadType] /\ gc \in CoreType
    /\ pc \in [Callers -> {"out", "empty", "create", "gc"}]

NewThread(where) ==
    [at |-> where, task |-> NoObject, qcache |-> <<>>, flags |-> {},
     seen |-> {}, limit |-> 0, rmq |-> <<>>]

ObjInit ==
    /\ pool = [blocks |-> <<>>, nput |-> 0, xq |-> <<>>, astray |-> FALSE]
    /\ thc = SetToSeq(Buffer) /\ used = {}
    /\ ths = [t \in Threads |-> NewThread(IF t \in Buffer THEN "cached" ELSE "none")]
    /\ gc = [GC |-> NoThread, delay |-> FALSE, due |-> TRUE, dying |-> 0,
             status |-> "created", cleaning |-> FALSE, attr |-> CreatedAttr]
    /\ pc = [c \in Callers |-> "out"]

GcCache == gc.attr[1]
GcWakeup == gc.attr[2]
GcOneTime == gc.attr[3]

Alive == {t \in Threads : ths[t].at \notin {"none", "cached", "left"}}

-----------------------------------------------------------------------------
(***************************************************************************)
(* smcache_t: the list q                                                   *)
(***************************************************************************)

\* need_destroy: task objects always, a thread_t when structure_release is set.
NeedDestroy(o) == o \notin Buffer

\* smcache_addl: those that may be destroyed in front, the others at the end.
Addl(q, o) == IF NeedDestroy(o) /\ q # <<>> THEN <<o>> \o q ELSE Append(q, o)

\* smcache_add_ql
AddQl(q, add) == FoldLeft(Addl, q, add)

\* smcache_addl_dir and smcache_add_ql_dir
AddQlDir(q, add) == add \o q

Accessl(q, o, limit) == limit < 0 \/ ~NeedDestroy(o) \/ limit > Len(q)

Flushablel(q, limit) == limit >= 0 /\ limit < Len(q) /\ NeedDestroy(q[1])

\* Fault: the last one of them is missed.
FaultyFlushed(q, limit) == IF ~Flushablel(q, limit) THEN 0 ELSE Len(q) - limit - 1

\* smcache_get_flush_ql: how many of q are to be flushed, from the front.
Flushed(q, limit) ==
    IF ~Flushablel(q, limit) THEN 0
    ELSE IF limit = 0 /\ NeedDestroy(Last(q)) THEN Len(q)
    ELSE Cardinality({k \in 1..(Len(q) - limit) : \A j \in 1..k : NeedDestroy(q[j])})

FlushQ(q, limit) == SubSeq(q, 1, Flushed(q, limit))
Remaining(q, limit) == SubSeq(q, Flushed(q, limit) + 1, Len(q))

\* smcache_add_limit for an object: the list, and what is destroyed.  An object
\* that is rejected takes the place of what was flushed: rmq.qfirst is overwritten.
AddLimit(q, o, limit) ==
    LET in == Accessl(q, o, limit)
        p == IF in THEN Addl(q, o) ELSE q
    IN  [q |-> Remaining(p, limit), rmq |-> IF in THEN ToSet(FlushQ(p, limit)) ELSE {o}]

-----------------------------------------------------------------------------
(***************************************************************************)
(* objpool_t                                                               *)
(***************************************************************************)

Page(o) == o[1]

\* What the searches for a block have left: <<l, r>>, and its middle.
Spans(blocks) == (0..Len(blocks)) \X (-1..Len(blocks) - 1)
Middle(s) == (s[1] + s[2]) \div 2

\* The block of an object: the binary search of objpool_put.
BlockOf(blocks, o) ==
    LET find[s \in Spans(blocks)] ==
            LET k == Middle(s)
                b == blocks[k + 1].begin
            IN  IF s[2] <= s[1] THEN k
                ELSE IF Page(o) < b THEN find[<<s[1], k - 1>>]
                ELSE IF Page(o) = b THEN k
                ELSE find[<<k + 1, s[2]>>]
    IN  find[<<0, Len(blocks) - 1>>] + 1

\* objpool_put: a block is freed with its last object.
Put(s, o) ==
    LET b == BlockOf(s.blocks, o)
        putq == s.blocks[b].putq
    IN  IF Len(putq) = BlockObjs - 1
        THEN [s EXCEPT !.blocks = RemoveAt(@, b), !.nput = @ + 1 - BlockObjs]
        ELSE [s EXCEPT !.blocks[b].putq = <<o>> \o @, !.nput = @ + 1]

\* smcache_destroy_q for task objects.
Destroyed(s, rmq) == FoldLeft(Put, s, rmq)

\* Fault: the block is put before the one that the search ends with.
FaultyPlaceOf(blocks, page) ==
    LET search[s \in Spans(blocks)] ==
            LET k == Middle(s)
            IN  IF s[2] <= s[1] THEN s[1]
                ELSE IF page < blocks[k + 1].begin THEN search[<<s[1], k - 1>>]
                ELSE search[<<k + 1, s[2]>>]
    IN  IF blocks = <<>> THEN 0 ELSE search[<<0, Len(blocks) - 1>>]

\* Where objpool_get puts a new block.  l and r are unsigned: when r goes below 0
\* (here -1) the search goes on behind the end of the array.
Outside == -1
PlaceOf(blocks, page) ==
    LET search[s \in Spans(blocks)] ==
            LET k == Middle(s)
            IN  IF s[2] = -1 THEN Outside
                ELSE IF s[2] <= s[1] THEN s[1]
                ELSE IF page < blocks[k + 1].begin THEN search[<<s[1], k - 1>>]
                ELSE search[<<k + 1, s[2]>>]
        l == search[<<0, Len(blocks) - 1>>]
    IN  IF blocks = <<>> THEN 0
        ELSE IF l = Outside THEN Outside
        ELSE IF page > blocks[l + 1].begin THEN l + 1 ELSE l

\* A turn of the loop in objpool_get that takes back what was put into the block b:
\* the first object of all for the caller, the others for the cache.
TakeBack(a, b) ==
    LET putq == a.pool.blocks[b].putq
        first == a.obj = NoObject
        more == IF first THEN Tail(putq) ELSE putq
    IN  IF a.pool.nput = 0 \/ a.inc >= Regain \/ putq = <<>> THEN a
        ELSE [pool |-> [a.pool EXCEPT !.nput = @ - Len(putq), !.xq = AddQl(@, more),
                                      !.blocks[b].putq = <<>>],
              obj |-> IF first THEN Head(putq) ELSE a.obj,
              inc |-> a.inc + Len(more)]

\* objpool_get when there are objects in the blocks.
Regained(s) ==
    FoldLeft(TakeBack, [pool |-> s, obj |-> NoObject, inc |-> 0],
             [b \in DOMAIN s.blocks |-> b])

\* objpool_get with a new block: its objects go to the cache, but the first.
WithBlock(s, page) ==
    LET b == PlaceOf(s.blocks, page)
        putq == Reverse([i \in 1..BlockObjs - 1 |-> <<page, i>>])
    IN  IF b = Outside THEN [s EXCEPT !.astray = TRUE]
        ELSE [s EXCEPT !.blocks = InsertAt(@, b + 1, [begin |-> page, putq |-> <<>>]),
                       !.xq = AddQl(@, putq)]

Taken(s) == {s.blocks[b].begin : b \in DOMAIN s.blocks}

-----------------------------------------------------------------------------
(***************************************************************************)
(* cpool_com_cache_get and what gives objects back                         *)
(***************************************************************************)

Fetch(c) ==
    /\ used' = used \cup {pool.xq[1]}
    /\ pool' = [pool EXCEPT !.xq = Tail(@)]
    /\ pc' = [pc EXCEPT ![c] = "out"]

\* cpool_core_slow_GC and smcache_get
CacheGet(c) ==
    /\ pc[c] = "out" /\ gc.status = "created"
    /\ gc' = [gc EXCEPT !.delay = @ \/ gc.GC # NoThread]
    /\ IF pool.xq # <<>> THEN Fetch(c)
       ELSE pc' = [pc EXCEPT ![c] = "empty"] /\ UNCHANGED <<pool, used>>
    /\ UNCHANGED <<thc, ths>>

\* cpool_core_objs_local_flushl_all: threads are asked for their objects.
FlushAll(th) ==
    [t \in Threads |-> IF t \in Alive /\ th[t].qcache # <<>>
                       THEN [th[t] EXCEPT !.flags = @ \cup {"FLUSH"}] ELSE th[t]]

\* cpool_core_objs_local_flush_all
AskThreads(c) ==
    /\ pc[c] = "empty"
    /\ ths' = FlushAll(ths)
    /\ pc' = [pc EXCEPT ![c] = "create"]
    /\ UNCHANGED <<pool, thc, used, gc>>

\* smcache_get, which now calls objpool_get for an object.  Careful, calloc never
\* finds room below the only two blocks.
CacheCreate(c) ==
    /\ pc[c] = "create"
    /\ \/ pool.xq # <<>> /\ Fetch(c)
       \/ /\ pool.xq = <<>> /\ pool.nput > 0
          /\ LET got == Regained(pool)
             IN  pool' = got.pool /\ used' = used \cup {got.obj}
          /\ pc' = [pc EXCEPT ![c] = "out"]
       \/ /\ pool.xq = <<>> /\ pool.nput = 0
          /\ \E page \in Pages \ Taken(pool) :
                /\ "ascending" \in Careful => PlaceOf(pool.blocks, page) # Outside
                /\ pool' = WithBlock(pool, page)
                /\ used' = used \cup {<<page, 0>>}
          /\ pc' = [pc EXCEPT ![c] = "out"]
       \/ \* there is no memory
          /\ pool.xq = <<>> /\ pool.nput = 0 /\ pc' = [pc EXCEPT ![c] = "out"]
          /\ UNCHANGED <<pool, used>>
    /\ UNCHANGED <<thc, ths, gc>>

\* cpool_com_cache_put, and smcache_add_q of the dispatcher, which then tries the GC:
\* cpool_com_cache_put does not.
CachePut(c) ==
    /\ pc[c] = "out"
    /\ \E O \in (SUBSET used) \ {{}} :
        /\ used' = used \ O
        /\ pool' = [pool EXCEPT !.xq = AddQl(@, SetToSeq(O))]
    /\ \E next \in {"out", "gc"} : pc' = [pc EXCEPT ![c] = next]
    /\ UNCHANGED <<thc, ths, gc>>

-----------------------------------------------------------------------------
(***************************************************************************)
(* Threads                                                                 *)
(***************************************************************************)

\* cpool_core_objs_local_flush
FlushLocal(th, t) ==
    /\ pool' = [pool EXCEPT !.xq = AddQlDir(@, th[t].qcache)]
    /\ ths' = [th EXCEPT ![t].qcache = <<>>, ![t].flags = @ \ {"FLUSH"}]

\* cpool_core_add_threadsl uses a thread that is marked and has not left again ...
\* (Careful, none that is in GC_leave.)
Revives(t) ==
    /\ t \in Alive /\ "RM" \in ths[t].flags /\ gc.dying > 0
    /\ "marks" \in Careful => ths[t].at # "unset"
    /\ ths' = [ths EXCEPT ![t].flags = @ \ {"RM"}]
    /\ gc' = [gc EXCEPT !.dying = @ - 1]
    /\ UNCHANGED thc

Revive(t) ==
    /\ gc.status = "created"
    /\ Revives(t)
    /\ UNCHANGED <<pool, used, pc>>

\* ... and only then, by smcache_get, a thread_t of core->cache_thread, and starts
\* the thread for it.
Starts(t) ==
    /\ gc.dying = 0
    /\ IF thc # <<>> THEN t = Head(thc) /\ thc' = Tail(thc)
       ELSE ths[t].at = "none" /\ UNCHANGED thc
    /\ ths' = [ths EXCEPT ![t] = NewThread("ready")]

StartThread(t) ==
    /\ gc.status = "created"
    /\ Starts(t)
    /\ UNCHANGED <<pool, used, gc, pc>>

\* pthread_create has failed: smcache_add.
StartFails(t) ==
    /\ gc.status = "created" /\ gc.dying = 0
    /\ IF thc # <<>> THEN t = Head(thc) /\ thc' = Addl(Tail(thc), t)
       ELSE ths[t].at = "none" /\ thc' = <<t>>
    /\ ths' = [ths EXCEPT ![t] = NewThread("cached")]
    /\ UNCHANGED <<pool, used, gc, pc>>

\* cpool_core_try_GC: when no thread is free one is woken, or else used again or
\* started, for the objects that are too many.
TryGC(c) ==
    /\ pc[c] = "gc"
    /\ pc' = [pc EXCEPT ![c] = "out"]
    /\ LET asleep == {t \in Alive : ths[t].at = "asleep" /\ "RM" \notin ths[t].flags}
       IN  IF \/ \E t \in Alive : ths[t].at # "asleep" /\ "RM" \notin ths[t].flags
              \/ ~Flushablel(pool.xq, GcWakeup)
           THEN UNCHANGED <<ths, thc, gc>>
           ELSE \/ \E t \in asleep : /\ ths' = [ths EXCEPT ![t].at = "ready"]
                                      /\ UNCHANGED <<thc, gc>>
                \/ /\ asleep = {}
                   /\ \E t \in Threads : Revives(t) \/ (Starts(t) /\ UNCHANGED gc)
    /\ UNCHANGED <<pool, used>>

\* me->gettask finds a task, which is run or whose error handler is called.
TakeTask(t) ==
    /\ ths[t].at = "ready"
    /\ \E o \in used :
        /\ used' = used \ {o}
        /\ ths' = [ths EXCEPT ![t].task = o,
                              ![t].at = IF ths[t].flags = {} THEN "run" ELSE "taken"]
    /\ UNCHANGED <<pool, thc, gc, pc>>

\* The rest of cpool_core_gettask, without the lock.  cpool_core_GC_leave first
\* reads and then writes flags.
SeeFlags(t) ==
    /\ ths[t].at = "taken"
    /\ IF "GC" \in ths[t].flags
       THEN ths' = [ths EXCEPT ![t].at = "unset", ![t].seen = ths[t].flags] /\ UNCHANGED pool
       ELSE IF "FLUSH" \in ths[t].flags
       THEN FlushLocal([ths EXCEPT ![t].at = "run"], t)
       ELSE ths' = [ths EXCEPT ![t].at = "run"] /\ UNCHANGED pool
    /\ UNCHANGED <<thc, used, gc, pc>>

\* Fault: the flag stays.
FaultyGcLeave(t) ==
    /\ ths[t].at = "unset"
    /\ ths' = [ths EXCEPT ![t].at = "run", ![t].seen = {}]
    /\ gc' = [gc EXCEPT !.GC = NoThread]
    /\ UNCHANGED <<pool, thc, used, pc>>

\* flags and GC are written: what others have set in flags meanwhile is lost.
GcLeave(t) ==
    /\ ths[t].at = "unset"
    /\ ths' = [ths EXCEPT ![t].at = "taken", ![t].flags = ths[t].seen \ {"GC"},
                          ![t].seen = {}]
    /\ gc' = [gc EXCEPT !.GC = NoThread]
    /\ UNCHANGED <<pool, thc, used, pc>>

\* The task is done.  The routine pool keeps its object in the thread until they are
\* many (cpool_core_objs_local_store), the group pool puts it into the cache.
TaskDone(t) ==
    /\ ths[t].at = "run"
    /\ LET o == ths[t].task
           th == [ths EXCEPT ![t].at = "ready", ![t].task = NoObject,
                             ![t].qcache = <<o>> \o @]
       IN  \/ /\ "rt" \in DoneBy
              /\ IF LocalLimit <= Len(th[t].qcache) THEN FlushLocal(th, t)
                 ELSE ths' = th /\ UNCHANGED pool
           \/ /\ "gp" \in DoneBy
              /\ ths' = [th EXCEPT ![t].qcache = ths[t].qcache]
              /\ pool' = [pool EXCEPT !.xq = AddQlDir(@, <<o>>)]
    /\ UNCHANGED <<thc, used, gc, pc>>

-----------------------------------------------------------------------------
(***************************************************************************)
(* GC: a step of a thread that has found no task                           *)
(***************************************************************************)

\* cpool_core_GC_accessl, and the condition on release_cleaning.
MayGC(t) == gc.GC \in {NoThread, t} /\ ~(gc.status # "created" /\ gc.cleaning)

\* cpool_core_GC_continuel: does t, with the flags f, go on with the GC ?
Enough(n) == n = 0 \/ n < GcCache
PutOff(f, n) == "GC" \in f /\ gc.delay /\ n < DelayBelow

\* cpool_core_get_restto: whoever is marked quits, and in a pool that is released
\* everyone but, when it is the threads that destroy it, the GC thread.
Quits(f) ==
    IF gc.status = "created" THEN "RM" \in f ELSE gc.cleaning \/ "GC" \notin f

\* Fault: the objects of the thread go with it.
FaultyLeft(th, t, q, g) ==
    [ ths |-> [th EXCEPT ![t] = NewThread("left")],
      gc |-> [g EXCEPT !.dying = IF "RM" \in th[t].flags THEN @ - 1 ELSE @,
                       !.GC = IF @ = t THEN NoThread ELSE @],
      xq |-> q ]

\* THREAD_STAT_FORCE_QUIT and THREAD_STAT_LEAVE: the thread gives back its objects,
\* the GC, and, if it was marked, its place among the dying.  (Whoever is used again
\* before it leaves has only been marked, and goes on as if it had not quit.)
Left(th, t, q, g) ==
    [ ths |-> [th EXCEPT ![t] = NewThread("left")],
      gc |-> [g EXCEPT !.dying = IF "RM" \in th[t].flags THEN @ - 1 ELSE @,
                       !.GC = IF @ = t THEN NoThread ELSE @],
      xq |-> AddQlDir(q, th[t].qcache) ]

\* Or THREAD_STAT_WAIT, which gives the objects back, too.  (The GC thread does not
\* sleep when it is time for its next turn.)
Rest(th, t, q, g) ==
    IF Quits(th[t].flags) THEN Left(th, t, q, g)
    ELSE [ ths |-> [th EXCEPT ![t].at = "asleep", ![t].qcache = <<>>,
                             ![t].flags = @ \ {"FLUSH"}],
           gc |-> g,
           xq |-> AddQlDir(q, th[t].qcache) ]

\* cpool_core_GC_gettaskl after the objects of t went to the cache, now the list q.
Selected(t, q) ==
    LET n == Len(q)
        own == [ths EXCEPT ![t].qcache = <<>>, ![t].flags = @ \ {"FLUSH"}]
        th == IF n = 0 THEN FlushAll(own) ELSE own
        f == ths[t].flags
        joined == [th EXCEPT ![t].flags = @ \cup {"GC"}]
        g == [gc EXCEPT !.GC = t]
    IN  IF Enough(n)
        THEN Rest([th EXCEPT ![t].flags = @ \ {"GC"}], t, q,
                  IF "GC" \in f THEN [gc EXCEPT !.GC = NoThread] ELSE gc)
        ELSE IF PutOff(f, n)
        THEN Rest(th, t, q, [gc EXCEPT !.due = FALSE, !.delay = FALSE])
        ELSE IF ~gc.due THEN Rest(joined, t, q, g)
        ELSE [ ths |-> [joined EXCEPT ![t].at = "gc", ![t].limit = n - GcOneTime],
               gc |-> g, xq |-> q ]

Becomes(r) ==
    /\ ths' = r.ths /\ gc' = r.gc /\ pool' = [pool EXCEPT !.xq = r.xq]

\* A thread whose me->gettask finds no task does the GC, quits or sleeps.  In a pool
\* that is released it has run them all.
NoTask(t) ==
    /\ ths[t].at = "ready"
    /\ gc.status = "destroying" => used = {}
    /\ Becomes(IF MayGC(t) THEN Selected(t, AddQlDir(pool.xq, ths[t].qcache))
               ELSE Rest(ths, t, pool.xq, gc))
    /\ UNCHANGED <<thc, used, pc>>

\* cpool_core_GC_run: smcache_flush, or smcache_reset when the limit is negative.
GcRun(t) ==
    /\ ths[t].at = "gc"
    /\ LET limit == IF ths[t].limit < 0 THEN 0 ELSE ths[t].limit
       IN  /\ ths' = [ths EXCEPT ![t].at = "free", ![t].limit = 0,
                                 ![t].rmq = FlushQ(pool.xq, limit)]
           /\ pool' = [pool EXCEPT !.xq = Remaining(@, limit)]
    /\ UNCHANGED <<thc, used, gc, pc>>

\* smcache_destroy_q, which takes the lock again, and cpool_core_GC_timer_start.
GcFree(t) ==
    /\ ths[t].at = "free"
    /\ pool' = Destroyed(pool, ths[t].rmq)
    /\ ths' = [ths EXCEPT ![t].at = "ready", ![t].rmq = <<>>]
    /\ gc' = [gc EXCEPT !.due = FALSE, !.delay = FALSE]
    /\ UNCHANGED <<thc, used, pc>>

\* The time for which a GC thread sleeps is over.
GcDue(t) ==
    /\ ths[t].at = "asleep" /\ "GC" \in ths[t].flags
    /\ ths' = [ths EXCEPT ![t].at = "ready"]
    /\ gc' = [gc EXCEPT !.due = TRUE]
    /\ UNCHANGED <<pool, thc, used, pc>>

\* A thread is woken for a task.
Wake(t) ==
    /\ ths[t].at = "asleep" /\ gc.status = "created"
    /\ ths' = [ths EXCEPT ![t].at = "ready"]
    /\ UNCHANGED <<pool, thc, used, gc, pc>>

\* THREAD_STAT_TIMEDOUT of a thread that is not needed.
Retire(t) ==
    /\ ths[t].at = "asleep" /\ ths[t].flags \cap {"GC", "RM"} = {}
    /\ Becomes(Left(ths, t, pool.xq, gc))
    /\ UNCHANGED <<thc, used, pc>>

\* cpool_core_adjust marks a thread.  (Careful, none that is in GC_leave.)
Mark(t) ==
    /\ gc.status = "created" /\ t \in Alive \cap Markable /\ "RM" \notin ths[t].flags
    /\ "marks" \in Careful => ths[t].at # "unset"
    /\ ths' = [ths EXCEPT ![t].flags = @ \cup {"RM"},
                          ![t].at = IF @ = "asleep" THEN "ready" ELSE @]
    /\ gc' = [gc EXCEPT !.dying = @ + 1]
    /\ UNCHANGED <<pool, thc, used, pc>>

\* The end of cpool_core_thread_entry: smcache_add_limit for core->cache_thread.
Recycle(t) ==
    /\ ths[t].at = "left"
    /\ LET r == AddLimit(thc, t, ThreadLimit)
       IN  /\ thc' = r.q
           /\ ths' = [u \in Threads |->
                        IF u \in r.rmq THEN NewThread("none")
                        ELSE IF u = t THEN NewThread("cached") ELSE ths[u]]
    /\ UNCHANGED <<pool, used, gc, pc>>

-----------------------------------------------------------------------------
(***************************************************************************)
(* Release                                                                 *)
(***************************************************************************)

\* cpool_core_release_ex by the last user: the limits of the cache change, threads
\* are woken.  clean: the caller waits for them and destroys the pool.
Release(clean) ==
    /\ gc.status = "created" /\ \A c \in Callers : pc[c] = "out"
    /\ used # {} => Alive # {}
    /\ gc' = [gc EXCEPT !.status = "destroying", !.attr = ReleaseAttr,
                        !.cleaning = clean \/ Alive = {}]
    /\ ths' = [t \in Threads |-> IF ths[t].at = "asleep"
                                 THEN [ths[t] EXCEPT !.at = "ready"] ELSE ths[t]]
    /\ UNCHANGED <<pool, thc, used, pc>>

\* The end of cpool_core_release_ex and cpool_core_dtor: both caches are emptied.
\* smcache_reset destroys the thread_t that may be; the others go with the buffer.
Destroy ==
    /\ gc.status = "destroying" /\ Alive = {}
    /\ \A t \in Threads : ths[t].at # "left"
    /\ pool' = Destroyed([pool EXCEPT !.xq = Remaining(@, 0)], FlushQ(pool.xq, 0))
    /\ thc' = <<>>
    /\ ths' = [t \in Threads |-> IF t \in ToSet(thc) THEN NewThread("none") ELSE ths[t]]
    /\ gc' = [gc EXCEPT !.status = "destroyed"]
    /\ UNCHANGED <<used, pc>>

-----------------------------------------------------------------------------

Serve(t) ==
    \/ TakeTask(t) \/ SeeFlags(t) \/ GcLeave(t) \/ TaskDone(t) \/ NoTask(t)
    \/ GcRun(t) \/ GcFree(t) \/ GcDue(t) \/ Recycle(t)

ObjNext ==
    /\ ~pool.astray
    /\ \/ \E c \in Callers : CacheGet(c) \/ AskThreads(c) \/ CacheCreate(c)
                            \/ CachePut(c) \/ TryGC(c)
       \/ \E t \in Threads : Serve(t) \/ StartThread(t) \/ StartFails(t)
                            \/ Wake(t) \/ Retire(t) \/ Mark(t) \/ Revive(t)
       \/ \E clean \in BOOLEAN : Release(clean)
       \/ Destroy

ObjSpec == ObjInit /\ [][ObjNext]_vars

\* Threads go on, tasks end and timers run; whoever destroys the pool does so.
ObjFair == (\A t \in Threads : WF_vars(Serve(t))) /\ WF_vars(Destroy)

ObjFairSpec == ObjSpec /\ ObjFair

-----------------------------------------------------------------------------
(***************************************************************************)
(* Properties                                                              *)
(***************************************************************************)

\* The places objects can be in, and the objects that are there.
Places ==
    ({"cache", "used", "put"} \X {NoThread}) \cup ({"task", "qcache", "rmq"} \X Threads)

PutBack == UNION {ToSet(pool.blocks[b].putq) : b \in DOMAIN pool.blocks}

There(p) ==
    CASE p[1] = "cache"  -> ToSet(pool.xq)
      [] p[1] = "used"   -> used
      [] p[1] = "put"    -> PutBack
      [] p[1] = "task"   -> {ths[p[2]].task}
      [] p[1] = "qcache" -> ToSet(ths[p[2]].qcache)
      [] p[1] = "rmq"    -> ToSet(ths[p[2]].rmq)

OnceEach ==
    /\ IsInjective(pool.xq)
    /\ \A t \in Threads : IsInjective(ths[t].qcache) /\ IsInjective(ths[t].rmq)
    /\ \A b \in DOMAIN pool.blocks : IsInjective(pool.blocks[b].putq)

\* Each object of each block is in exactly one place, once, and those of no other block
\* are anywhere: no object is lost on its way between the lists, given to two, or
\* used after its block was freed, and each is put back into its own block.  A thread_t
\* is in use, in its cache, or destroyed.
OnePlace ==
    /\ ObjTypeOK /\ OnceEach
    /\ \A o \in Objects :
        LET at == {p \in Places : o \in There(p)}
        IN  IF Page(o) \in Taken(pool) THEN \E p \in Places : at = {p} ELSE at = {}
    /\ \A b \in DOMAIN pool.blocks :
        \A o \in ToSet(pool.blocks[b].putq) : Page(o) = pool.blocks[b].begin
    /\ \A t \in Threads : ths[t].at = "cached" <=> t \in ToSet(thc)

\* What objpool_get and objpool_put take from each other: nput counts the objects
\* put back, of which no block has all, and the blocks are sorted.
PoolSound ==
    /\ pool.nput = Cardinality(PutBack)
    /\ \A b \in DOMAIN pool.blocks :
        /\ Len(pool.blocks[b].putq) < BlockObjs
        /\ b > 1 => pool.blocks[b - 1].begin < pool.blocks[b].begin

\* objpool_get asserts that the search for a place stays inside the array.
SearchInside == ~pool.astray

\* Whoever is marked is counted until it leaves.
MarksKept == gc.dying = Cardinality({t \in Threads : "RM" \in ths[t].flags})

\* What the core and the flags say of a thread, some of which are written without
\* the lock, agrees: who is marked, and who, one at a time, does the GC.
FlagsKept ==
    /\ MarksKept
    /\ \A t \in Threads :
        /\ "GC" \in ths[t].flags <=> gc.GC = t
        /\ ths[t].at \in {"gc", "free"} => "GC" \in ths[t].flags

\* A pool that is destroyed has given all its memory back: each block, when its last
\* object was flushed, and each thread_t.
AllFreed ==
    gc.status = "destroyed" =>
        pool.blocks = <<>> /\ pool.xq = <<>> /\ \A t \in Threads : ths[t].at = "none"

\* A pool that is released is destroyed, whether by its last thread -- which may
\* be the GC thread -- or by the caller, and has then given all its memory back.
ReleaseFrees ==
    gc.status = "destroying" ~> gc.status = "destroyed" /\ AllFreed

===============================================================================
