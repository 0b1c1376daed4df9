--------------------------- MODULE CpoolGpWaitProofs ---------------------------
(***************************************************************************)
(* Nobody who waits in the group pool is forgotten, and nothing that is    *)
(* waited for goes: FreedAlone, ObjectsReturn, SyncTold and                *)
(* NobodyForgotten are invariants of CpoolGpWait.                          *)
(*                                                                         *)
(* All of it as long as the table of groups does not grow while somebody   *)
(* waits to delete one ("grow"), whose pointer into it nobody corrects.    *)
(***************************************************************************)
EXTENDS CpoolGpWait, CpoolGpProofs
\* Requests for one task after another, and all that are registered with a group.
TaskKinds == {"task", "suspend", "group_cb"}
GroupKinds == EntryTaskKinds \cup {"group_throttle"}
AnyKinds == {"group_any", "pool_any"}

\* What x has asked for.
RequestSound(s, w, x) ==
    LET k == w.kind[x]
        t == w.peek[x]
    IN  /\ x \in Users => k = "delete"
        /\ x \in Waiters => k \in Kinds
        /\ k \in TaskKinds => t \in Tasks
        /\ k \notin TaskKinds => t = NoTask
        /\ k \in GroupKinds => s.entry[w.group[x]].used # "free"

\* The requests that are registered.
Requests(s, w) ==
    /\ \A x \in Callers : w.wpc[x] # "out" => RequestSound(s, w, x)
    /\ \A x \in w.progressed : w.wpc[x] # "out" /\ w.kind[x] \in AnyKinds
    /\ \A x \in w.syncing \cap Callers : w.wpc[x] = "out"

\* Groups that are deleted, each by one user, who has nothing else to do when it
\* waits for the tasks.
Deletions(s, h, w) ==
    /\ \A r \in Runners : h[r].deleting # NoGroup =>
        r \in Users /\ s.entry[h[r].deleting].used = "destroying"
    /\ \A r1, r2 \in Runners :
        (h[r1].deleting # NoGroup /\ h[r1].deleting = h[r2].deleting) => r1 = r2
    /\ \A u \in Users : w.wpc[u] # "out" =>
        h[u].q = <<>> /\ h[u].deleting = w.group[u]

WaitSound(s, h, w) ==
    /\ w \in GwType /\ Requests(s, w) /\ Deletions(s, h, w)
    /\ w.shut => PoolRefs(w) = {}

\* What x waits for is not there.
Unmet(s, w, x) ==
    LET k == w.kind[x]
        g == w.group[x]
    IN  /\ k \in {"task", "suspend"} => s.stat[w.peek[x]] # "idle"
        /\ k \in {"group_all", "delete"} => Traced(s, g) # {}
        /\ k \in AnyKinds => x \notin w.progressed
        /\ k = "pool_all" => AllTraced(s) # {}
        /\ k = "group_throttle" => s.entry[g].throttle
        /\ k = "pool_throttle" => s.throttle_on
        /\ k \in ThrottleKinds => ~s.destroying

\* The flags by which those who bring it know that x waits.
Flagged(w, x) ==
    LET k == w.kind[x]
        g == w.group[x]
    IN  /\ k \in EntryTaskKinds => w.need[g]
        /\ k = "group_any" => w.any[g]
        /\ k \in PoolKinds => w.pool_need
        /\ k = "pool_any" => w.pool_any
        /\ k \in ThrottleKinds => w.ev_need

ParkedSound(s, w) ==
    \A x \in Callers : w.wpc[x] = "parked" =>
        Unmet(s, w, x) /\ Flagged(w, x) /\ x \notin w.over

\* No task that is waited for is in another group than it was.
Unmoved(s, w) == \A x \in Inside(w, TaskKinds) : w.group[x] = s.gid[w.peek[x]]

\* Who waits for the last reference, and to what.
SyncSound(s, h, w) ==
    /\ w.asleep \subseteq w.syncing
    /\ \A r \in Runners : h[r].leaving # NoTask => h[r].detached
    /\ \A r \in w.syncing \cap Runners :
        h[r].leaving = NoTask => h[r].q = <<>> /\ h[r].deleting # NoGroup
    /\ Shutdown \in w.syncing => s.destroying
    /\ s.destroying =>
        /\ Inside(w, GroupKinds) = {}
        /\ \A r \in Runners : h[r].deleting = NoGroup
    /\ \A r \in w.asleep \cap Runners :
        IF h[r].leaving # NoTask THEN Refs(w, h[r].leaving) # {}
        ELSE GroupRefs(w, h[r].deleting) # {}
    /\ Shutdown \in w.asleep => PoolRefs(w) # {}

CacheSound(s, w) ==
    \A t \in Cached : t \in w.cache <=> (s.stat[t] = "idle" /\ Refs(w, t) = {})

-----------------------------------------------------------------------------
(***************************************************************************)
(* The steps that CpoolGpWait adds                                         *)
(***************************************************************************)

LEMMA SideHeld ==
  ASSUME NEW s, NEW h, Held(s, h), NEW p \in GpShape, SameLists(s, p),
         p.dispatch_q = s.dispatch_q, p.wpending = s.wpending
  PROVE  Held(p, h) /\ SameTasks(s, p)
<1>1. PoolSound(s) /\ \A t \in s.wpending : s.stat[t] \in {"scheduling", "dispatching"}
  BY DEF Held, PoolSound, TaskSound
<1>2. PoolSound(p) /\ SameTasks(s, p)
  BY <1>1, SideKeeps DEF SameLists, SameTasks
<1> QED
  BY <1>2, SameHeld

LEMMA PauseHeld ==
  ASSUME Held(gp, run), NEW b \in BOOLEAN,
         \/ gp' = [gp EXCEPT !.paused = b]
         \/ gp' = [gp EXCEPT !.throttle_on = b]
         \/ gp' = [gp EXCEPT !.destroying = b]
  PROVE  Held(gp', run) /\ SameTasks(gp, gp')
<1>1. gp \in GpShape
  BY DEF Held, PoolSound
<1>2. /\ gp' \in GpShape /\ SameLists(gp, gp') /\ gp'.dispatch_q = gp.dispatch_q
      /\ gp'.wpending = gp.wpending
  <2>1. CASE gp' = [gp EXCEPT !.paused = b]
    BY <1>1, <2>1 DEF GpShape, SameLists
  <2>2. CASE gp' = [gp EXCEPT !.throttle_on = b]
    BY <1>1, <2>2 DEF GpShape, SameLists
  <2>3. CASE gp' = [gp EXCEPT !.destroying = b]
    BY <1>1, <2>3 DEF GpShape, SameLists
  <2> QED
    BY <2>1, <2>2, <2>3
<1> QED
  BY <1>2, SideHeld

LEMMA ThrottleHeld ==
  ASSUME Held(gp, run), NEW g \in Ids, NEW b \in BOOLEAN, IsValid(gp, g),
         gp' = [gp EXCEPT !.entry[g].throttle = b]
  PROVE  /\ Held(gp', run) /\ SameTasks(gp, gp')
         /\ gp'.num = gp.num /\ gp'.paused = gp.paused
         /\ gp'.destroying = gp.destroying /\ gp'.throttle_on = gp.throttle_on
         /\ gp'.entry[g].used = gp.entry[g].used /\ gp'.entry[g].throttle = b
         /\ \A h \in Ids : h # g => gp'.entry[h] = gp.entry[h]
<1> DEFINE e == [gp.entry[g] EXCEPT !.throttle = b]
<1>1. gp \in GpShape /\ PoolSound(gp) /\ GroupSound(gp) /\ gp.entry[g] \in EntryShape
  BY EntryIn DEF Held, PoolSound
<1>2. gp' = Recount(gp, g, e, gp.npendings, gp.effective, gp.ndispatchings)
  BY <1>1 DEF GpShape, Recount
<1>3. /\ e \in EntryShape /\ e.active = gp.entry[g].active
      /\ e.queue = gp.entry[g].queue /\ e.used = gp.entry[g].used
      /\ e.paused = gp.entry[g].paused /\ e.throttle = b
  BY <1>1 DEF EntryShape
<1> HIDE DEF e
<1>4. /\ gp'.entry[g] = e /\ gp'.num = gp.num /\ gp'.paused = gp.paused
      /\ gp'.destroying = gp.destroying /\ gp'.throttle_on = gp.throttle_on
      /\ \A h \in Ids : h # g => gp'.entry[h] = gp.entry[h]
  <2> DEFINE n == gp.npendings
             eff == gp.effective
             nd == gp.ndispatchings
             p == Recount(gp, g, e, n, eff, nd)
  <2>1. gp \in GpShape /\ n \in Int /\ eff \in Int /\ nd \in Int /\ e \in EntryShape
    BY <1>1, <1>3 DEF GpShape
  <2> HIDE DEF n, eff, nd
  <2>2. /\ p.entry[g] = e /\ p.num = gp.num /\ p.paused = gp.paused
        /\ p.destroying = gp.destroying /\ p.throttle_on = gp.throttle_on
        /\ \A h \in Ids : h # g => p.entry[h] = gp.entry[h]
    BY <2>1, RecountIs
  <2> HIDE DEF p
  <2>3. gp' = p
    BY <1>2 DEF p, n, eff, nd
  <2> QED
    BY <2>2, <2>3
<1>5. Ready(gp', g) <=> Ready(gp, g)
  BY <1>3, <1>4 DEF Ready
<1>6. g \in First(gp) => ~e.paused
  BY <1>1, <1>3 DEF GroupSound
<1>7. e.used # "free"
  BY <1>3 DEF IsValid
<1>8. PoolSound(gp') /\ SameTasks(gp, gp')
  BY <1>1, <1>2, <1>3, <1>5, <1>6, <1>7, EntrySet
<1> QED
  BY <1>3, <1>4, <1>8, SameHeld

LEMMA DetachHeld ==
  ASSUME Held(gp, run), NEW r \in Runners, Detach(r)
  PROVE  LET t == run[r].q[1]
         IN  /\ Held(gp', run') /\ SameGroups(gp, gp') /\ gp'.gid = gp.gid
             /\ t \in Tasks /\ gp'.stat = [gp.stat EXCEPT ![t] = "idle"]
             /\ run' = [run EXCEPT ![r].detached = TRUE, ![r].leaving = t]
<1> DEFINE t == run[r].q[1]
           s == Untraced(gp, t)
           w == [run[r] EXCEPT !.detached = TRUE, !.leaving = t]
<1>1. /\ run[r].q # <<>> /\ ~run[r].detached
      /\ gp' \in {Ran(s, t), Dispatched(s, t)}
      /\ run' = [run EXCEPT ![r].detached = TRUE, ![r].leaving = t]
  BY DEF Detach
<1>2. /\ t \in Tasks /\ gp.stat[t] \in {"scheduling", "dispatching"}
      /\ t \notin Range(gp.dispatch_q) /\ t \in Live(run[r])
      /\ Range(Tail(run[r].q)) = Live(run[r]) \ {t}
      /\ \A x \in Runners : x # r => t \notin Live(run[x])
  BY <1>1, HandFirst
<1>3. /\ PoolSound(gp) /\ gp.stat \in [Tasks -> TaskStats] /\ run[r] \in RunType
      /\ run \in [Runners -> RunType] /\ HandSound(gp, run)
  BY DEF Held, PoolSound, GpShape
<1> HIDE DEF t
<1>4. /\ PoolSound(s) /\ SameGroups(gp, s) /\ s.gid = gp.gid
      /\ s.stat = [gp.stat EXCEPT ![t] = "idle"] /\ s.dispatch_q = gp.dispatch_q
  BY <1>2, <1>3, UntracedKeeps
<1> HIDE DEF s
<1>5. gp' \in GpShape /\ Listed(s, gp')
  BY <1>1, <1>2, <1>4, RanListed, DispatchedListed DEF PoolSound
<1>6. /\ PoolSound(gp') /\ SameTasks(s, gp') /\ SameGroups(s, gp')
  BY <1>4, <1>5, ListedKeeps
<1>7. /\ gp'.stat = [gp.stat EXCEPT ![t] = "idle"] /\ gp'.gid = gp.gid
      /\ gp'.dispatch_q = gp.dispatch_q /\ SameGroups(gp, gp')
  BY <1>4, <1>6, SameTrans DEF SameTasks
<1>8. run' = [run EXCEPT ![r] = w]
  BY <1>1, <1>3
<1>9. /\ w \in RunType /\ w.q = run[r].q /\ w.detached /\ w.leaving = t
  BY <1>2, <1>3 DEF RunType
<1> HIDE DEF w
<1>10. Live(w) = Range(Tail(run[r].q))
  BY <1>9 DEF Live
<1>11. GoesOn(run, r, w, t)
  BY <1>2, <1>10 DEF GoesOn
<1>12. SameBut(gp, gp', t)
  BY <1>3, <1>7 DEF SameBut
<1>13. Once(w.q) /\ (w.detached \/ w.leaving # NoTask => w.q # <<>>)
  BY <1>1, <1>3, <1>9 DEF HandSound
<1> DEFINE k == [run EXCEPT ![r] = w]
<1>14. k = [run EXCEPT ![r] = w] /\ run' = k
  BY <1>8
<1> HIDE DEF k
<1>15. Held(gp', k)
  BY <1>6, <1>9, <1>11, <1>12, <1>13, <1>14, HandNext
<1>16. Held(gp', run')
  BY <1>14, <1>15
<1> QED
  BY <1>1, <1>2, <1>7, <1>16 DEF t

LEMMA DetachReturnsHeld ==
  ASSUME Held(gp, run), NEW r \in Runners, DetachReturns(r)
  PROVE  /\ Held(gp', run') /\ SameTasks(gp, gp') /\ SameGroups(gp, gp')
         /\ run' = [run EXCEPT ![r].leaving = NoTask]
<1> DEFINE t == run[r].leaving
           w == [run[r] EXCEPT !.leaving = NoTask]
<1>1. /\ PoolSound(gp) /\ run[r] \in RunType /\ run \in [Runners -> RunType]
      /\ HandSound(gp, run)
  BY DEF Held
<1>2. /\ t \in Tasks /\ gp' = [gp EXCEPT !.thread[t] = NoThread]
      /\ run' = [run EXCEPT ![r] = w] /\ run' = [run EXCEPT ![r].leaving = NoTask]
  BY <1>1 DEF DetachReturns, RunType
<1>3. w \in RunType /\ w.q = run[r].q /\ w.detached = run[r].detached /\ w.leaving = NoTask
  BY <1>1 DEF RunType
<1> HIDE DEF t, w
<1>4. PoolSound(gp') /\ SameTasks(gp, gp') /\ SameGroups(gp, gp')
  BY <1>1, <1>2, ThreadKeeps
<1>5. /\ run' \in [Runners -> RunType]
      /\ \A x \in Runners : /\ run'[x].q = run[x].q /\ run'[x].detached = run[x].detached
                            /\ run'[x].leaving \in {run[x].leaving, NoTask}
  BY <1>1, <1>2, <1>3
<1>6. \A x \in Runners : Live(run'[x]) = Live(run[x])
  BY <1>5 DEF Live
<1>7. HandSound(gp', run')
  BY <1>1, <1>4, <1>5, <1>6 DEF HandSound, SameTasks
<1> QED
  BY <1>2, <1>4, <1>5, <1>7 DEF Held

LEMMA ReleasePoolHeld ==
  ASSUME Held(gp, run), ReleasePool
  PROVE  /\ Held(gp', run') /\ run' = run /\ gp'.gid = gp.gid /\ gp'.destroying
         /\ gp'.num = gp.num /\ gp'.throttle_on = gp.throttle_on
         /\ \A g \in Ids : /\ gp'.entry[g].used = gp.entry[g].used
                           /\ gp'.entry[g].throttle = gp.entry[g].throttle
         /\ \A t \in Tasks : gp.stat[t] = "idle" => gp'.stat[t] = "idle"
<1> DEFINE X == Unreachable(gp)
           s == Marked(gp, X, TRUE)
<1>1. /\ X \in SUBSET Tasks /\ PoolSound(gp) /\ TaskSound(gp)
      /\ run \in [Runners -> RunType] /\ HandSound(gp, run)
  BY DEF Unreachable, Removable, Held, PoolSound
<1>2. gp' = [s EXCEPT !.destroying = TRUE] /\ run' = run
  BY DEF ReleasePool
<1> HIDE DEF X
<1>3. PoolSound(s) /\ MarkedFrom(gp, s, X, TRUE)
  BY <1>1, MarkedKeeps
<1> HIDE DEF s
<1>4. /\ gp' \in GpShape /\ SameLists(s, gp') /\ gp'.dispatch_q = s.dispatch_q
      /\ gp'.wpending = s.wpending /\ gp'.destroying /\ gp'.throttle_on = s.throttle_on
  BY <1>2, <1>3 DEF PoolSound, GpShape, SameLists
<1>5. Held(s, run)
  <2>1. \A r \in Runners : \A t \in Live(run[r]) :
            s.stat[t] \in {"scheduling", "dispatching"} /\ t \notin Range(s.dispatch_q)
    <3> SUFFICES ASSUME NEW r \in Runners, NEW t \in Live(run[r])
                 PROVE  s.stat[t] = gp.stat[t] /\ t \notin Range(s.dispatch_q)
      BY <1>1 DEF HandSound
    <3>1. t \in Tasks /\ gp.stat[t] \in {"scheduling", "dispatching"}
          /\ t \notin Range(gp.dispatch_q)
      BY <1>1, LiveIn DEF HandSound
    <3> QED
      BY <1>3, <3>1 DEF MarkedFrom
  <2>2. HandSound(s, run)
    BY <1>1, <2>1 DEF HandSound
  <2> QED
    BY <1>1, <1>3, <2>2 DEF Held
<1>6. Held(gp', run) /\ SameTasks(s, gp')
  BY <1>4, <1>5, SideHeld
<1>7. \A t \in Tasks : gp.stat[t] = "idle" => gp'.stat[t] = "idle"
  BY <1>3, <1>6 DEF MarkedFrom, SameTasks
<1> QED
  BY <1>2, <1>3, <1>4, <1>6, <1>7 DEF MarkedFrom, SameGroups, SameLists

LEMMA SuspendWaitsHeld ==
  ASSUME Held(gp, run), NEW x \in Waiters, SuspendWaits(x)
  PROVE  Held(gp', run') /\ SameTasks(gp, gp')
<1>1. PoolSound(gp) /\ run' = run
  BY DEF SuspendWaits, Held
<1>2. CASE gp' = [gp EXCEPT !.paused = TRUE]
  BY <1>1, <1>2, PauseHeld
<1>3. ASSUME NEW g \in Valid(gp), gp' = SuspendedGroup(gp, g)
      PROVE  Held(gp', run') /\ SameTasks(gp, gp')
  <2>1. g \in Ids /\ IsValid(gp, g)
    BY DEF Valid
  <2>2. PoolSound(gp') /\ SameTasks(gp, gp')
    BY <1>1, <1>3, <2>1, SuspendedKeeps
  <2> QED
    BY <1>1, <2>2, SameHeld
<1> QED
  BY <1>2, <1>3 DEF SuspendWaits

LEMMA TaskStepHeld ==
  ASSUME Held(gp, run), TaskStep
  PROVE  Held(gp', run')
<1>1. ASSUME NEW th \in Threads, Serve(th)
      PROVE  Held(gp', run')
  BY <1>1, TakeHeld, TakeRemovedHeld, FinishedHeld DEF Serve
<1>2. ASSUME NEW u \in Users, DispatchNext(u)
      PROVE  Held(gp', run')
  BY <1>2, DispatchNextHeld
<1>3. ASSUME NEW u \in Users,
             \/ \E t \in Tasks, bypool \in BOOLEAN : RemoveTask(u, t, bypool)
             \/ \E bypool \in BOOLEAN : MarkCb(u, bypool)
             \/ \E g \in Ids, bypool \in BOOLEAN : EntryMarkCb(u, g, bypool)
      PROVE  Held(gp', run')
  BY <1>3, UserRemovesHeld
<1> QED
  BY <1>1, <1>2, <1>3 DEF TaskStep

LEMMA OtherCallHeld ==
  ASSUME TRUE \notin Suspended, Held(gp, run), OtherCall
  PROVE  Held(gp', run')
<1>1. ASSUME NEW g \in Ids, NEW suspend \in Suspended, CreateGroup(g, suspend)
      PROVE  Held(gp', run')
  <2>1. suspend = FALSE
    BY GpAssumption
  <2> QED
    BY <1>1, <2>1, CreateGroupHeld
<1>2. ASSUME NEW g \in Ids, SuspendGroup(g) \/ ResumeGroup(g)
      PROVE  Held(gp', run')
  BY <1>2, SuspendGroupHeld
<1>3. CASE SuspendAllGroups \/ ResumeAllGroups
  BY <1>3, SuspendAllHeld
<1>4. ASSUME NEW g \in Ids, NEW attr \in Attrs, SetAttributes(g, attr)
      PROVE  Held(gp', run')
  BY <1>4, SetAttributesHeld
<1>5. ASSUME NEW max \in MaxThreads, SetThreads(max)
      PROVE  Held(gp', run')
  BY <1>5, SetThreadsHeld
<1> QED
  BY <1>1, <1>2, <1>3, <1>4, <1>5 DEF OtherCall

\* As long as nobody that deletes a group has an old pointer to it
LEMMA FreeOrSyncFresh ==
  ASSUME outdated = {}, NEW w, NEW u, FreeOrSync(w, u)
  PROVE  IF GroupRefs(w, run[u].deleting) = {} THEN GroupFreed(u) /\ gw' = SyncOff(w, u)
         ELSE gw' = SyncOn(w, u) /\ UNCHANGED gpvars
<1> DEFINE none == GroupRefs(w, run[u].deleting) = {}
<1>1. u \notin outdated
  OBVIOUS
<1>2. IF none THEN Paid(u) /\ gw' = SyncOff(w, u)
      ELSE gw' = SyncOn(w, u) /\ UNCHANGED gpvars
  BY <1>1 DEF FreeOrSync
<1> HIDE DEF none
<1>3. Paid(u) => GroupFreed(u)
  BY <1>1 DEF Paid
<1> QED
  BY <1>2, <1>3 DEF none

\* which is so when no group is created meanwhile for which the table grows.
LEMMA StaysFresh ==
  ASSUME "grow" \in Careful, outdated = {}, [GwNext]_gwvars
  PROVE  outdated' = {}
<1>1. CASE UNCHANGED gwvars
  BY <1>1 DEF gwvars
<1>2. CASE Outdates
  <2>1. PICK moved \in BOOLEAN :
            /\ moved => gp'.num # gp.num
            /\ outdated' = IF moved THEN Deleters' ELSE outdated \cap Deleters'
    BY <1>2 DEF Outdates
  <2>2. moved => Deleters' = {}
    BY <1>2, <2>1 DEF Outdates
  <2> QED
    BY <2>1, <2>2
<1> QED
  BY <1>1, <1>2 DEF GwNext

LEMMA FreeOrSyncHeld ==
  ASSUME Held(gp, run), outdated = {}, NEW u \in Users, NEW w, FreeOrSync(w, u)
  PROVE  Held(gp', run') /\ SameTasks(gp, gp')
<1>1. CASE GroupFreed(u)
  BY <1>1, GroupFreedHeld
<1>2. CASE UNCHANGED gpvars
  BY <1>2 DEF gpvars, SameTasks
<1> QED
  BY <1>1, <1>2, FreeOrSyncFresh

LEMMA GwHeld ==
  ASSUME TRUE \notin Suspended, Held(gp, run), outdated = {}, [GwNext]_gwvars
  PROVE  Held(gp', run')
<1>1. CASE TaskStep \/ OtherCall
  BY <1>1, TaskStepHeld, OtherCallHeld
<1>2. CASE QueueStep
  BY <1>2, QueueHeld DEF QueueStep
<1>3. CASE UNCHANGED gpvars
  BY <1>3 DEF gpvars
<1>4. ASSUME NEW x \in Waiters, Calls(x) \/ TimesOut(x) \/ WsyncTurn(x)
      PROVE  Held(gp', run')
  <2>1. CASE SuspendWaits(x)
    BY <2>1, SuspendWaitsHeld
  <2>2. CASE WaitTask(x) \/ WaitTasks(x) \/ WaitThrottle(x) \/ Wsync(x) \/ TimesOut(x)
             \/ WsyncTurn(x)
    <3>1. UNCHANGED gpvars
      BY <2>2 DEF WaitTask, WaitTasks, WaitThrottle, Wsync, TimesOut, WsyncTurn
    <3> QED
      BY <1>3, <3>1
  <2> QED
    BY <1>4, <2>1, <2>2 DEF Calls
<1>5. ASSUME NEW u \in Users, Deletes(u) \/ \E g \in Ids : DeleteStarts(u, g)
      PROVE  Held(gp', run')
  <2>1. ASSUME NEW g \in Ids, DeleteStarts(u, g)
        PROVE  Held(gp', run')
    BY <2>1, DeleteGroupHeld DEF DeleteStarts
  <2>2. ASSUME NEW w, FreeOrSync(w, u)
        PROVE  Held(gp', run')
    BY <2>2, FreeOrSyncHeld
  <2>3. CASE DeleteWaits(u)
    BY <1>3, <2>2, <2>3 DEF DeleteWaits
  <2>4. CASE DeleteTurn(u)
    BY <2>2, <2>4 DEF DeleteTurn
  <2>5. CASE DeleteSyncTurn(u)
    BY <2>2, <2>5 DEF DeleteSyncTurn
  <2> QED
    BY <1>5, <2>1, <2>3, <2>4, <2>5 DEF Deletes
<1>6. ASSUME NEW b \in BOOLEAN,
             PausePool(b) \/ ThrottlePool(b) \/ \E g \in Ids : ThrottleGroup(g, b)
      PROVE  Held(gp', run')
  <2>1. CASE PausePool(b)
    <3>1. gp' = [gp EXCEPT !.paused = b] /\ run' = run
      BY <2>1 DEF PausePool
    <3> QED
      BY <3>1, PauseHeld
  <2>2. CASE ThrottlePool(b)
    <3>1. gp' = [gp EXCEPT !.throttle_on = b] /\ run' = run
      BY <2>2 DEF ThrottlePool
    <3> QED
      BY <3>1, PauseHeld
  <2>3. ASSUME NEW g \in Ids, ThrottleGroup(g, b)
        PROVE  Held(gp', run')
    <3>1. gp' = [gp EXCEPT !.entry[g].throttle = b] /\ IsValid(gp, g) /\ run' = run
      BY <2>3 DEF ThrottleGroup
    <3> QED
      BY <3>1, ThrottleHeld
  <2> QED
    BY <1>6, <2>1, <2>2, <2>3
<1>7. ASSUME NEW r \in Runners, Detach(r) \/ DetachTurn(r) \/ DetachReturns(r)
      PROVE  Held(gp', run')
  <2>1. CASE DetachTurn(r)
    BY <1>3, <2>1 DEF DetachTurn
  <2> QED
    BY <1>7, <2>1, DetachHeld, DetachReturnsHeld
<1>8. CASE ReleasePool
  BY <1>8, ReleasePoolHeld
<1>9. ASSUME NEW x \in Callers, WaitTurn(x) \/ Wakeup(x)
      PROVE  Held(gp', run')
  <2>1. UNCHANGED gpvars
    BY <1>9 DEF WaitTurn, Wakeup
  <2> QED
    BY <1>3, <2>1
<1>10. CASE Syncs
  <2>1. UNCHANGED gpvars
    BY <1>10 DEF Syncs, ShutdownStarts, ShutdownTurn
  <2> QED
    BY <1>3, <2>1
<1>11. CASE UNCHANGED gwvars
  BY <1>3, <1>11 DEF gwvars, waitvars
<1> QED
  BY <1>1, <1>2, <1>4, <1>5, <1>6, <1>7, <1>8, <1>9, <1>10, <1>11
     DEF GwNext, GwStep

\* The same whoever waits meanwhile, detaches tasks, suspends and releases the pool,
\* when cpool_gp_entry_create does not move the table under one who deletes a group.
THEOREM FirstEntriesWaiting ==
  ASSUME TRUE \notin Suspended, "grow" \in Careful
  PROVE  GwSpec => []FirstEntries
<1> DEFINE Inv == Held(gp, run) /\ outdated = {}
<1>1. GwInit => Inv
  BY EmptyHeld DEF GwInit
<1>2. Inv /\ [GwNext]_gwvars => Inv'
  BY GwHeld, StaysFresh
<1>3. Inv => FirstEntries
  BY HeldFirst
<1> QED
  BY <1>1, <1>2, <1>3, PTL DEF GwSpec

-----------------------------------------------------------------------------
(***************************************************************************)
(* What wakes up changes no request                                        *)
(***************************************************************************)

\* The same callers wait for the same.
SameRequests(w, v) ==
    /\ v.kind = w.kind /\ v.group = w.group /\ v.peek = w.peek
    /\ \A x \in Callers : v.wpc[x] = "out" <=> w.wpc[x] = "out"

LEMMA InsideIs ==
  ASSUME NEW w \in GwType, NEW K
  PROVE  Inside(w, K) = {x \in Callers : w.wpc[x] # "out" /\ w.kind[x] \in K}
<1>1. \A x \in Callers : w.wpc[x] \in {"out", "parked", "woken"}
  BY DEF GwType, WaitLocation
<1> QED
  BY <1>1 DEF Inside

LEMMA SameInside ==
  ASSUME NEW w \in GwType, NEW v \in GwType, SameRequests(w, v)
  PROVE  /\ \A K : Inside(v, K) = Inside(w, K)
         /\ \A K, g : InGroup(v, K, g) = InGroup(w, K, g)
         /\ \A t : Refs(v, t) = Refs(w, t)
         /\ \A g : GroupRefs(v, g) = GroupRefs(w, g)
         /\ TaskRefs(v) = TaskRefs(w) /\ PoolRefs(v) = PoolRefs(w)
<1>1. ASSUME NEW K PROVE Inside(v, K) = Inside(w, K)
  <2>1. Inside(v, K) = {x \in Callers : v.wpc[x] # "out" /\ v.kind[x] \in K}
    BY InsideIs
  <2>2. Inside(w, K) = {x \in Callers : w.wpc[x] # "out" /\ w.kind[x] \in K}
    BY InsideIs
  <2> QED
    BY <2>1, <2>2 DEF SameRequests
<1>2. \A K, g : InGroup(v, K, g) = InGroup(w, K, g)
  BY <1>1 DEF InGroup, SameRequests
<1>3. \A t : Refs(v, t) = Refs(w, t)
  BY <1>1 DEF Refs, SameRequests
<1>4. \A g : GroupRefs(v, g) = GroupRefs(w, g)
  BY <1>2 DEF GroupRefs
<1> QED
  BY <1>1, <1>2, <1>3, <1>4 DEF TaskRefs, PoolRefs

\* Some who wait in w are woken in v; who is not is still known to wait.
WokenFrom(w, v) ==
    /\ v \in GwType /\ SameRequests(w, v)
    /\ v.syncing = w.syncing /\ v.asleep = w.asleep /\ v.shut = w.shut
    /\ \A x \in Callers : v.wpc[x] = "parked" =>
            w.wpc[x] = "parked" /\ (Flagged(w, x) => Flagged(v, x))

SameRest(w, v) ==
    v.over = w.over /\ v.progressed = w.progressed /\ v.cache = w.cache

LEMMA WokenTrans ==
  ASSUME NEW w, NEW v, NEW u
  PROVE  /\ WokenFrom(w, v) /\ WokenFrom(v, u) => WokenFrom(w, u)
         /\ SameRest(w, v) /\ SameRest(v, u) => SameRest(w, u)
         /\ w \in GwType => WokenFrom(w, w)
         /\ SameRest(w, w)
BY DEF WokenFrom, SameRest, SameRequests

LEMMA BroadcastIs ==
  ASSUME NEW w \in GwType, NEW K
  PROVE  LET v == Broadcast(w, K)
         IN  /\ v \in GwType /\ SameRequests(w, v) /\ SameRest(w, v)
             /\ v.syncing = w.syncing /\ v.asleep = w.asleep /\ v.shut = w.shut
             /\ v.need = w.need /\ v.any = w.any /\ v.ev_need = w.ev_need
             /\ v.pool_need = w.pool_need /\ v.pool_any = w.pool_any
             /\ \A x \in Callers : v.wpc[x] = "parked" =>
                    w.wpc[x] = "parked" /\ w.kind[x] \notin K
<1> DEFINE f == [x \in Callers |-> IF w.wpc[x] = "parked" /\ w.kind[x] \in K
                                   THEN "woken" ELSE w.wpc[x]]
           v == [w EXCEPT !.wpc = f]
<1>1. w.wpc \in [Callers -> WaitLocation]
  BY DEF GwType
<1>2. f \in [Callers -> WaitLocation]
  BY <1>1 DEF WaitLocation
<1>3. Broadcast(w, K) = v
  BY DEF Broadcast
<1>4. \A x \in Callers :
        /\ f[x] = "out" <=> w.wpc[x] = "out"
        /\ f[x] = "parked" => w.wpc[x] = "parked" /\ w.kind[x] \notin K
  BY <1>1 DEF WaitLocation
<1> HIDE DEF f
<1>5. /\ v \in GwType /\ v.wpc = f /\ v.kind = w.kind /\ v.group = w.group
      /\ v.peek = w.peek /\ SameRest(w, v)
      /\ v.syncing = w.syncing /\ v.asleep = w.asleep /\ v.shut = w.shut
      /\ v.need = w.need /\ v.any = w.any /\ v.ev_need = w.ev_need
      /\ v.pool_need = w.pool_need /\ v.pool_any = w.pool_any
  BY <1>2 DEF GwType, SameRest
<1> QED
  BY <1>3, <1>4, <1>5 DEF SameRequests

LEMMA WakeEntriesIs ==
  ASSUME NEW w \in GwType
  PROVE  LET v == WakeEntries(w)
         IN  /\ WokenFrom(w, v) /\ SameRest(w, v)
             /\ v.pool_need = w.pool_need /\ v.pool_any = w.pool_any
             /\ \A x \in Callers : v.wpc[x] = "parked" => w.kind[x] \notin EntryTaskKinds
<1> DEFINE a == [w EXCEPT !.need = [g \in Ids |-> FALSE], !.any = [g \in Ids |-> FALSE]]
           v == Broadcast(a, EntryTaskKinds)
<1>1. /\ a \in GwType /\ SameRequests(w, a) /\ SameRest(w, a) /\ a.wpc = w.wpc
      /\ a.syncing = w.syncing /\ a.asleep = w.asleep /\ a.shut = w.shut
      /\ a.ev_need = w.ev_need /\ a.pool_need = w.pool_need /\ a.pool_any = w.pool_any
      /\ a.kind = w.kind
  BY DEF GwType, SameRequests, SameRest
<1> HIDE DEF a
<1>2. /\ v \in GwType /\ SameRequests(a, v) /\ SameRest(a, v)
      /\ v.syncing = a.syncing /\ v.asleep = a.asleep /\ v.shut = a.shut
      /\ v.ev_need = a.ev_need
      /\ v.pool_need = a.pool_need /\ v.pool_any = a.pool_any
      /\ \A x \in Callers : v.wpc[x] = "parked" =>
            a.wpc[x] = "parked" /\ a.kind[x] \notin EntryTaskKinds
  BY <1>1, BroadcastIs
<1> HIDE DEF v
<1>3. SameRequests(w, v) /\ SameRest(w, v)
  BY <1>1, <1>2 DEF SameRequests, SameRest
<1>4. \A x \in Callers : v.wpc[x] = "parked" => (Flagged(w, x) => Flagged(v, x))
  BY <1>1, <1>2, <1>3 DEF Flagged, SameRequests, EntryTaskKinds, PoolKinds, ThrottleKinds
<1>5. WokenFrom(w, v)
  BY <1>1, <1>2, <1>3, <1>4 DEF WokenFrom
<1>6. WakeEntries(w) = v
  BY DEF WakeEntries, v, a
<1> QED
  BY <1>1, <1>2, <1>3, <1>5, <1>6

LEMMA WakePoolIs ==
  ASSUME NEW w \in GwType
  PROVE  LET v == WakePool(w)
         IN  /\ WokenFrom(w, v) /\ SameRest(w, v)
             /\ \A x \in Callers : v.wpc[x] = "parked" => w.kind[x] \notin PoolKinds
<1> DEFINE a == [w EXCEPT !.pool_need = FALSE, !.pool_any = FALSE]
           v == Broadcast(a, PoolKinds)
<1>1. /\ a \in GwType /\ SameRequests(w, a) /\ SameRest(w, a) /\ a.wpc = w.wpc
      /\ a.syncing = w.syncing /\ a.asleep = w.asleep /\ a.shut = w.shut
      /\ a.ev_need = w.ev_need /\ a.need = w.need /\ a.any = w.any
      /\ a.kind = w.kind
  BY DEF GwType, SameRequests, SameRest
<1> HIDE DEF a
<1>2. /\ v \in GwType /\ SameRequests(a, v) /\ SameRest(a, v)
      /\ v.syncing = a.syncing /\ v.asleep = a.asleep /\ v.shut = a.shut
      /\ v.ev_need = a.ev_need /\ v.need = a.need /\ v.any = a.any
      /\ \A x \in Callers : v.wpc[x] = "parked" =>
            a.wpc[x] = "parked" /\ a.kind[x] \notin PoolKinds
  BY <1>1, BroadcastIs
<1> HIDE DEF v
<1>3. SameRequests(w, v) /\ SameRest(w, v)
  BY <1>1, <1>2 DEF SameRequests, SameRest
<1>4. \A x \in Callers : v.wpc[x] = "parked" => (Flagged(w, x) => Flagged(v, x))
  BY <1>1, <1>2, <1>3 DEF Flagged, SameRequests, EntryTaskKinds, PoolKinds, ThrottleKinds
<1>5. WokenFrom(w, v)
  BY <1>1, <1>2, <1>3, <1>4 DEF WokenFrom
<1>6. WakePool(w) = v
  BY DEF WakePool, v, a
<1> QED
  BY <1>1, <1>2, <1>3, <1>5, <1>6

LEMMA WakeThrottleIs ==
  ASSUME NEW w \in GwType
  PROVE  LET v == WakeThrottle(w)
         IN  /\ WokenFrom(w, v) /\ SameRest(w, v)
             /\ \A x \in Callers : (v.wpc[x] = "parked" /\ Flagged(w, x)) =>
                    w.kind[x] \notin ThrottleKinds
<1> DEFINE a == [w EXCEPT !.ev_need = FALSE]
           v == Broadcast(a, ThrottleKinds)
<1>1. /\ a \in GwType /\ SameRequests(w, a) /\ SameRest(w, a) /\ a.wpc = w.wpc
      /\ a.syncing = w.syncing /\ a.asleep = w.asleep /\ a.shut = w.shut
      /\ a.need = w.need /\ a.any = w.any /\ a.kind = w.kind
      /\ a.pool_need = w.pool_need /\ a.pool_any = w.pool_any
  BY DEF GwType, SameRequests, SameRest
<1> HIDE DEF a
<1>2. /\ v \in GwType /\ SameRequests(a, v) /\ SameRest(a, v)
      /\ v.syncing = a.syncing /\ v.asleep = a.asleep /\ v.shut = a.shut
      /\ v.need = a.need /\ v.any = a.any
      /\ v.pool_need = a.pool_need /\ v.pool_any = a.pool_any
      /\ \A x \in Callers : v.wpc[x] = "parked" =>
            a.wpc[x] = "parked" /\ a.kind[x] \notin ThrottleKinds
  BY <1>1, BroadcastIs
<1> HIDE DEF v
<1>3. SameRequests(w, v) /\ SameRest(w, v)
  BY <1>1, <1>2 DEF SameRequests, SameRest
<1>4. \A x \in Callers : v.wpc[x] = "parked" => (Flagged(w, x) => Flagged(v, x))
  BY <1>1, <1>2, <1>3 DEF Flagged, SameRequests, EntryTaskKinds, PoolKinds, ThrottleKinds
<1>5. WokenFrom(w, v)
  BY <1>1, <1>2, <1>3, <1>4 DEF WokenFrom
<1>6. CASE w.ev_need
  <2>1. WakeThrottle(w) = v
    BY <1>6 DEF WakeThrottle, v, a
  <2> QED
    BY <1>1, <1>2, <1>3, <1>5, <2>1
<1>7. CASE ~w.ev_need
  <2>1. WakeThrottle(w) = w
    BY <1>7 DEF WakeThrottle
  <2>2. WokenFrom(w, w) /\ SameRest(w, w)
    BY WokenTrans
  <2> QED
    BY <1>7, <2>1, <2>2 DEF Flagged
<1> QED
  BY <1>6, <1>7

-----------------------------------------------------------------------------
(***************************************************************************)
(* Interruptions, and tasks that are done                                  *)
(***************************************************************************)

\* Interrupted, one condition variable after the other.
Ended(w, X) == [w EXCEPT !.over = @ \cup X]
Asked(w, X, K) == \E x \in X \ w.over : w.kind[x] \in K
TellEntries(w, X, v) == IF Asked(w, X, EntryTaskKinds) THEN WakeEntries(v) ELSE v
TellPool(w, X, v) == IF Asked(w, X, PoolKinds) THEN WakePool(v) ELSE v
TellThrottle(w, X, v) == IF Asked(w, X, ThrottleKinds) THEN WakeThrottle(v) ELSE v

LEMMA InterruptedBy ==
  ASSUME NEW w, NEW X
  PROVE  Interrupted(w, X)
            = TellThrottle(w, X, TellPool(w, X, TellEntries(w, X, Ended(w, X))))
BY Zenon DEF Interrupted, TellEntries, TellPool, TellThrottle, Ended, Asked

LEMMA EndedIs ==
  ASSUME NEW w \in GwType, NEW X \in SUBSET Callers
  PROVE  LET v == Ended(w, X)
         IN  /\ WokenFrom(w, v) /\ v.over = w.over \cup X /\ v.kind = w.kind
             /\ v.progressed = w.progressed /\ v.cache = w.cache
<1> DEFINE o == w.over \cup X
           v == [w EXCEPT !.over = o]
<1>1. o \in SUBSET Callers
  BY DEF GwType
<1> HIDE DEF o
<1>2. /\ v \in GwType /\ v.over = o /\ v.kind = w.kind /\ v.wpc = w.wpc
      /\ v.group = w.group /\ v.peek = w.peek /\ v.need = w.need /\ v.any = w.any
      /\ v.pool_need = w.pool_need /\ v.pool_any = w.pool_any /\ v.ev_need = w.ev_need
      /\ v.progressed = w.progressed /\ v.cache = w.cache /\ v.syncing = w.syncing
      /\ v.asleep = w.asleep /\ v.shut = w.shut
  BY <1>1 DEF GwType
<1> HIDE DEF v
<1>3. WokenFrom(w, v)
  BY <1>2 DEF WokenFrom, SameRequests, Flagged
<1> QED
  BY <1>2, <1>3 DEF Ended, v, o

LEMMA InterruptedIs ==
  ASSUME NEW w \in GwType, NEW X \in SUBSET Callers
  PROVE  LET v == Interrupted(w, X)
         IN  /\ WokenFrom(w, v) /\ v.over = w.over \cup X
             /\ v.progressed = w.progressed /\ v.cache = w.cache
             /\ \A x \in X : (w.wpc[x] = "parked" /\ Flagged(w, x) /\ x \notin w.over) =>
                    v.wpc[x] # "parked"
<1> DEFINE a == Ended(w, X)
           b == TellEntries(w, X, a)
           c == TellPool(w, X, b)
           v == TellThrottle(w, X, c)
<1>1. /\ WokenFrom(w, a) /\ a.over = w.over \cup X /\ a \in GwType /\ a.kind = w.kind
      /\ a.progressed = w.progressed /\ a.cache = w.cache
  BY EndedIs DEF WokenFrom
<1> HIDE DEF a
<1>2. /\ WokenFrom(a, b) /\ SameRest(a, b) /\ b \in GwType
      /\ Asked(w, X, EntryTaskKinds) =>
            \A x \in Callers : b.wpc[x] = "parked" => w.kind[x] \notin EntryTaskKinds
  <2>1. WokenFrom(a, a) /\ SameRest(a, a)
    BY <1>1, WokenTrans
  <2>2. WokenFrom(a, WakeEntries(a)) /\ SameRest(a, WakeEntries(a))
        /\ \A x \in Callers : WakeEntries(a).wpc[x] = "parked" => a.kind[x] \notin EntryTaskKinds
    BY <1>1, WakeEntriesIs
  <2> QED
    BY <1>1, <2>1, <2>2 DEF TellEntries, WokenFrom
<1> HIDE DEF b
<1>3. b.kind = w.kind
  BY <1>1, <1>2 DEF WokenFrom, SameRequests
<1>4. /\ WokenFrom(b, c) /\ SameRest(b, c) /\ c \in GwType
      /\ Asked(w, X, PoolKinds) =>
            \A x \in Callers : c.wpc[x] = "parked" => w.kind[x] \notin PoolKinds
  <2>1. WokenFrom(b, b) /\ SameRest(b, b)
    BY <1>2, WokenTrans
  <2>2. WokenFrom(b, WakePool(b)) /\ SameRest(b, WakePool(b))
        /\ \A x \in Callers : WakePool(b).wpc[x] = "parked" => b.kind[x] \notin PoolKinds
    BY <1>2, WakePoolIs
  <2> QED
    BY <1>2, <1>3, <2>1, <2>2 DEF TellPool, WokenFrom
<1> HIDE DEF c
<1>5. c.kind = w.kind
  BY <1>3, <1>4 DEF WokenFrom, SameRequests
<1>6. /\ WokenFrom(c, v) /\ SameRest(c, v)
      /\ Asked(w, X, ThrottleKinds) =>
            \A x \in Callers : (v.wpc[x] = "parked" /\ Flagged(c, x)) =>
                w.kind[x] \notin ThrottleKinds
  <2>1. WokenFrom(c, c) /\ SameRest(c, c)
    BY <1>4, WokenTrans
  <2>2. WokenFrom(c, WakeThrottle(c)) /\ SameRest(c, WakeThrottle(c))
        /\ \A x \in Callers : (WakeThrottle(c).wpc[x] = "parked" /\ Flagged(c, x)) =>
                c.kind[x] \notin ThrottleKinds
    BY <1>4, WakeThrottleIs
  <2> QED
    BY <1>4, <1>5, <2>1, <2>2 DEF TellThrottle
<1> HIDE DEF v
<1>7. WokenFrom(w, c) /\ WokenFrom(w, v) /\ SameRest(a, v)
  BY <1>1, <1>2, <1>4, <1>6, WokenTrans
<1>8. \A x \in X : (w.wpc[x] = "parked" /\ Flagged(w, x) /\ x \notin w.over) =>
        v.wpc[x] # "parked"
  <2> SUFFICES ASSUME NEW x \in X, w.wpc[x] = "parked", Flagged(w, x), x \notin w.over,
                      v.wpc[x] = "parked"
               PROVE  FALSE
    OBVIOUS
  <2>1. x \in Callers /\ x \in X \ w.over /\ w.kind[x] \in AllKinds \cup {"delete"}
    BY DEF GwType
  <2>2. w.kind[x] \in EntryTaskKinds \/ w.kind[x] \in PoolKinds \/ w.kind[x] \in ThrottleKinds
    BY <2>1 DEF AllKinds, EntryTaskKinds
  <2>3. c.wpc[x] = "parked" /\ b.wpc[x] = "parked" /\ Flagged(c, x)
    BY <1>4, <1>6, <1>7, <2>1 DEF WokenFrom
  <2> QED
    BY <1>2, <1>4, <1>6, <2>1, <2>2, <2>3 DEF Asked
<1>9. Interrupted(w, X) = v
  BY InterruptedBy DEF v, c, b, a
<1> QED
  BY <1>1, <1>7, <1>8, <1>9 DEF SameRest

\* Who has asked for any of the tasks D.
AnyOf(w, s, D) ==
    {x \in Inside(w, {"pool_any"}) : D # {}} \cup
    {x \in Inside(w, {"group_any"}) : \E t \in D : w.group[x] = s.gid[t]}

\* The tasks D are done in s: whoever in w still waits has not asked for them.
NotFor(w, s, D, x) ==
    LET k == w.kind[x]
        g == w.group[x]
    IN  /\ k \in TaskKinds => ~(w.peek[x] \in D /\ s.gid[w.peek[x]] = g)
        /\ k \in {"group_all", "delete"} =>
            (Traced(s, g) = {} => \A t \in D : s.gid[t] # g)
        /\ k \in AnyKinds => x \notin AnyOf(w, s, D)
        /\ k = "pool_all" => D = {} \/ AllTraced(s) # {}

Told(w, s, D, v) == IF \E t \in D : GroupTold(w, s, t) THEN WakeEntries(v) ELSE v
PoolTold(s, v) ==
    IF v.pool_need /\ (v.pool_any \/ AllTraced(s) = {}) THEN WakePool(v) ELSE v
Seen(w, s, D) == [w EXCEPT !.progressed = @ \cup AnyOf(w, s, D)]

LEMMA WakeTasksBy ==
  ASSUME NEW w, NEW s, NEW D
  PROVE  WakeTasks(w, s, D) = IF D = {} \/ TaskRefs(w) = {} THEN w
                              ELSE PoolTold(s, Told(w, s, D, Seen(w, s, D)))
BY Zenon DEF WakeTasks, PoolTold, Told, Seen, AnyOf

LEMMA SeenIs ==
  ASSUME NEW w \in GwType, NEW s, NEW D
  PROVE  LET v == Seen(w, s, D)
         IN  /\ WokenFrom(w, v) /\ v.progressed = w.progressed \cup AnyOf(w, s, D)
             /\ v.over = w.over /\ v.cache = w.cache /\ v.kind = w.kind
             /\ v.pool_need = w.pool_need /\ v.pool_any = w.pool_any
<1> DEFINE o == w.progressed \cup AnyOf(w, s, D)
           v == [w EXCEPT !.progressed = o]
<1>1. o \in SUBSET Callers
  BY DEF GwType, AnyOf, Inside
<1> HIDE DEF o
<1>2. /\ v \in GwType /\ v.progressed = o /\ v.kind = w.kind /\ v.wpc = w.wpc
      /\ v.group = w.group /\ v.peek = w.peek /\ v.need = w.need /\ v.any = w.any
      /\ v.pool_need = w.pool_need /\ v.pool_any = w.pool_any /\ v.ev_need = w.ev_need
      /\ v.over = w.over /\ v.cache = w.cache /\ v.syncing = w.syncing
      /\ v.asleep = w.asleep /\ v.shut = w.shut
  BY <1>1 DEF GwType
<1> HIDE DEF v
<1>3. WokenFrom(w, v)
  BY <1>2 DEF WokenFrom, SameRequests, Flagged
<1> QED
  BY <1>2, <1>3 DEF Seen, v, o

LEMMA WakeTasksIs ==
  ASSUME NEW w \in GwType, NEW s \in GpShape, NEW D \in SUBSET Tasks
  PROVE  LET v == WakeTasks(w, s, D)
         IN  /\ WokenFrom(w, v) /\ v.over = w.over /\ v.cache = w.cache
             /\ v.progressed \in {w.progressed, w.progressed \cup AnyOf(w, s, D)}
             /\ \A x \in Callers : (v.wpc[x] = "parked" /\ Flagged(w, x)) =>
                    NotFor(w, s, D, x)
<1> DEFINE a == Seen(w, s, D)
           b == Told(w, s, D, a)
           c == PoolTold(s, b)
<1>1. /\ WokenFrom(w, a) /\ a.progressed = w.progressed \cup AnyOf(w, s, D)
      /\ a.over = w.over /\ a.cache = w.cache /\ a \in GwType /\ a.kind = w.kind
      /\ a.pool_need = w.pool_need /\ a.pool_any = w.pool_any
  BY SeenIs DEF WokenFrom
<1> HIDE DEF a
<1>2. /\ WokenFrom(a, b) /\ SameRest(a, b) /\ b \in GwType
      /\ b.pool_need = w.pool_need /\ b.pool_any = w.pool_any
      /\ (\E t \in D : GroupTold(w, s, t)) =>
            \A x \in Callers : b.wpc[x] = "parked" => w.kind[x] \notin EntryTaskKinds
  <2>1. WokenFrom(a, a) /\ SameRest(a, a)
    BY <1>1, WokenTrans
  <2>2. /\ WokenFrom(a, WakeEntries(a)) /\ SameRest(a, WakeEntries(a))
        /\ WakeEntries(a).pool_need = a.pool_need /\ WakeEntries(a).pool_any = a.pool_any
        /\ \A x \in Callers : WakeEntries(a).wpc[x] = "parked" => a.kind[x] \notin EntryTaskKinds
    BY <1>1, WakeEntriesIs
  <2> QED
    BY <1>1, <2>1, <2>2 DEF Told, WokenFrom
<1> HIDE DEF b
<1>3. b.kind = w.kind
  BY <1>1, <1>2 DEF WokenFrom, SameRequests
<1>4. /\ WokenFrom(b, c) /\ SameRest(b, c)
      /\ (b.pool_need /\ (b.pool_any \/ AllTraced(s) = {})) =>
            \A x \in Callers : c.wpc[x] = "parked" => w.kind[x] \notin PoolKinds
  <2>1. WokenFrom(b, b) /\ SameRest(b, b)
    BY <1>2, WokenTrans
  <2>2. WokenFrom(b, WakePool(b)) /\ SameRest(b, WakePool(b))
        /\ \A x \in Callers : WakePool(b).wpc[x] = "parked" => b.kind[x] \notin PoolKinds
    BY <1>2, WakePoolIs
  <2> QED
    BY <1>2, <1>3, <2>1, <2>2 DEF PoolTold
<1> HIDE DEF c
<1>5. WokenFrom(w, b) /\ WokenFrom(w, c) /\ SameRest(a, c)
  BY <1>1, <1>2, <1>4, WokenTrans
<1>6. ASSUME NEW x \in Callers, c.wpc[x] = "parked", Flagged(w, x)
      PROVE  NotFor(w, s, D, x)
  <2> DEFINE k == w.kind[x]
             g == w.group[x]
  <2>1. b.wpc[x] = "parked" /\ w.wpc[x] = "parked" /\ Flagged(b, x)
    BY <1>4, <1>5, <1>6 DEF WokenFrom
  <2>2. k \in EntryTaskKinds => w.need[g] /\ \A t \in D : ~GroupTold(w, s, t)
    BY <1>2, <1>6, <2>1 DEF Flagged
  <2>3. ASSUME k \in TaskKinds, w.peek[x] \in D, s.gid[w.peek[x]] = g
        PROVE  FALSE
    <3>1. k \in EntryTaskKinds
      BY <2>3 DEF TaskKinds, EntryTaskKinds
    <3>2. x \in Refs(w, w.peek[x])
      BY <2>1, <3>1 DEF Refs, Inside
    <3>3. GroupTold(w, s, w.peek[x])
      BY <2>2, <2>3, <3>1, <3>2 DEF GroupTold
    <3> QED
      BY <2>2, <2>3, <3>1, <3>3
  <2>4. ASSUME k \in {"group_all", "delete"}, Traced(s, g) = {}, NEW t \in D, s.gid[t] = g
        PROVE  FALSE
    <3>1. k \in EntryTaskKinds
      BY <2>4 DEF EntryTaskKinds
    <3>2. GroupTold(w, s, t)
      BY <2>2, <2>4, <3>1 DEF GroupTold
    <3> QED
      BY <2>2, <3>1, <3>2
  <2>5. ASSUME k \in AnyKinds, x \in AnyOf(w, s, D)
        PROVE  FALSE
    <3>1. CASE k = "group_any"
      <4>1. k \in EntryTaskKinds /\ w.any[g]
        BY <1>6, <3>1 DEF EntryTaskKinds, Flagged
      <4>2. PICK t \in D : g = s.gid[t]
        BY <2>5, <3>1 DEF AnyOf, Inside
      <4>3. GroupTold(w, s, t)
        BY <2>2, <4>1, <4>2 DEF GroupTold
      <4> QED
        BY <2>2, <4>1, <4>3
    <3>2. CASE k = "pool_any"
      <4>1. b.kind[x] = "pool_any" /\ k \in PoolKinds
        BY <1>3, <3>2 DEF PoolKinds
      <4>2. b.pool_need /\ b.pool_any
        BY <2>1, <4>1 DEF Flagged, PoolKinds
      <4> QED
        BY <1>4, <1>6, <4>1, <4>2
    <3> QED
      BY <2>5, <3>1, <3>2 DEF AnyKinds
  <2>6. ASSUME k = "pool_all", AllTraced(s) = {}
        PROVE  FALSE
    <3>1. b.kind[x] \in PoolKinds /\ k \in PoolKinds
      BY <1>3, <2>6 DEF PoolKinds
    <3>2. b.pool_need
      BY <2>1, <3>1 DEF Flagged
    <3> QED
      BY <1>4, <1>6, <2>6, <3>1, <3>2
  <2> QED
    BY <2>3, <2>4, <2>5, <2>6 DEF NotFor
<1>7. CASE D = {} \/ TaskRefs(w) = {}
  <2>1. WakeTasks(w, s, D) = w
    BY <1>7, WakeTasksBy
  <2>2. WokenFrom(w, w)
    BY WokenTrans
  <2>3. ASSUME NEW x \in Callers, w.wpc[x] = "parked"
        PROVE  NotFor(w, s, D, x)
    <3>1. CASE D = {}
      BY <3>1 DEF NotFor, AnyOf
    <3>2. CASE TaskRefs(w) = {}
      <4>1. w.kind[x] \notin EntryTaskKinds \cup PoolKinds
        BY <2>3, <3>2 DEF TaskRefs, Inside
      <4> QED
        BY <4>1 DEF NotFor, EntryTaskKinds, PoolKinds, TaskKinds, AnyKinds
    <3> QED
      BY <1>7, <3>1, <3>2
  <2> QED
    BY <2>1, <2>2, <2>3
<1>8. CASE ~(D = {} \/ TaskRefs(w) = {})
  <2>1. WakeTasks(w, s, D) = c
    BY <1>8, WakeTasksBy DEF c, b, a
  <2> QED
    BY <1>1, <1>5, <1>6, <2>1 DEF SameRest
<1> QED
  BY <1>7, <1>8

LEMMA RecycledIs ==
  ASSUME NEW w \in GwType, NEW D \in SUBSET Tasks
  PROVE  LET v == Recycled(w, D)
         IN  /\ WokenFrom(w, v) /\ v.over = w.over /\ v.progressed = w.progressed
             /\ v.cache = w.cache \cup {t \in D \cap Cached : Refs(w, t) = {}}
             /\ v.wpc = w.wpc /\ v.kind = w.kind /\ v.group = w.group /\ v.peek = w.peek
             /\ v.stale = w.stale
<1> DEFINE o == w.cache \cup {t \in D \cap Cached : Refs(w, t) = {}}
           v == [w EXCEPT !.cache = o]
<1>1. o \in SUBSET Cached
  BY DEF GwType
<1>2. Recycled(w, D) = v
  BY DEF Recycled
<1> HIDE DEF o
<1>3. /\ v \in GwType /\ v.cache = o /\ v.kind = w.kind /\ v.wpc = w.wpc
      /\ v.group = w.group /\ v.peek = w.peek /\ v.need = w.need /\ v.any = w.any
      /\ v.pool_need = w.pool_need /\ v.pool_any = w.pool_any /\ v.ev_need = w.ev_need
      /\ v.over = w.over /\ v.progressed = w.progressed /\ v.syncing = w.syncing
      /\ v.asleep = w.asleep /\ v.shut = w.shut /\ v.stale = w.stale
  BY <1>1 DEF GwType
<1> HIDE DEF v
<1>4. WokenFrom(w, v)
  BY <1>3 DEF WokenFrom, SameRequests, Flagged
<1> QED
  BY <1>2, <1>3, <1>4 DEF o

\* Tasks that are done in p and were not in s.
Ends(s, p) == {t \in Tasks : s.stat[t] # "idle" /\ p.stat[t] = "idle"}

\* v is what w becomes when the pool s becomes p.
DoneFrom(s, w, p, v) ==
    /\ WokenFrom(w, v) /\ v.over = w.over
    /\ v.progressed \in {w.progressed, w.progressed \cup AnyOf(w, p, Ends(s, p))}
    /\ \A x \in Callers : (v.wpc[x] = "parked" /\ Flagged(w, x)) =>
            NotFor(w, p, Ends(s, p), x)

\* The objects of tasks that are done are in the cache again.
Recycles(s, w, p, v) ==
    v.cache = w.cache \cup {t \in Ends(s, p) \cap Cached : Refs(w, t) = {}}

LEMMA TasksDoneIs ==
  ASSUME gw \in GwType, gp' \in GpShape
  PROVE  DoneFrom(gp, gw, gp', TasksDone) /\ Recycles(gp, gw, gp', TasksDone)
<1> DEFINE D == Ends(gp, gp')
           u == WakeTasks(gw, gp', D)
           v == Recycled(u, D)
<1>1. D \in SUBSET Tasks
  BY DEF Ends
<1>2. TasksDone = v
  BY DEF TasksDone, Ends
<1> HIDE DEF D
<1>3. /\ WokenFrom(gw, u) /\ u.over = gw.over /\ u.cache = gw.cache
      /\ u.progressed \in {gw.progressed, gw.progressed \cup AnyOf(gw, gp', D)}
      /\ \A x \in Callers : (u.wpc[x] = "parked" /\ Flagged(gw, x)) =>
                NotFor(gw, gp', D, x)
  BY <1>1, WakeTasksIs
<1>4. u \in GwType /\ SameRequests(gw, u)
  BY <1>3 DEF WokenFrom
<1> HIDE DEF u
<1>5. \A t : Refs(u, t) = Refs(gw, t)
  BY <1>4, SameInside
<1>6. /\ WokenFrom(u, v) /\ v.over = u.over /\ v.progressed = u.progressed
      /\ v.cache = u.cache \cup {t \in D \cap Cached : Refs(u, t) = {}}
      /\ v.wpc = u.wpc
  BY <1>1, <1>4, RecycledIs
<1> HIDE DEF v
<1>7. WokenFrom(gw, v)
  BY <1>3, <1>6, WokenTrans
<1> QED
  BY <1>2, <1>3, <1>5, <1>6, <1>7 DEF DoneFrom, Recycles, D

LEMMA DoneThenWoken ==
  ASSUME NEW s, NEW w, NEW p, NEW u, DoneFrom(s, w, p, u),
         NEW v, WokenFrom(u, v), SameRest(u, v)
  PROVE  DoneFrom(s, w, p, v) /\ (Recycles(s, w, p, u) => Recycles(s, w, p, v))
<1>1. WokenFrom(w, v)
  BY WokenTrans DEF DoneFrom
<1>2. \A x \in Callers : v.wpc[x] = "parked" => u.wpc[x] = "parked"
  BY DEF WokenFrom
<1> QED
  BY <1>1, <1>2 DEF DoneFrom, Recycles, SameRest

-----------------------------------------------------------------------------
(***************************************************************************)
(* What the steps of CpoolGp leave as it is                                *)
(***************************************************************************)

\* No group gives way to another one.
GroupsKept(s, p) ==
    \A g \in Ids :
        /\ s.entry[g].used # "free" => p.entry[g].used # "free"
        /\ s.entry[g].used = "destroying" => p.entry[g].used = "destroying"

\* Those that wait for the end of a group or have left a task stay where they are.
HandsKept(h, k) ==
    \A r \in Runners :
        /\ k[r].leaving = h[r].leaving /\ k[r].deleting = h[r].deleting
        /\ (h[r].leaving # NoTask \/ (h[r].deleting # NoGroup /\ h[r].q = <<>>)) =>
                k[r] = h[r]

Quiet(s, p) ==
    /\ SameGroups(s, p) /\ p.gid = s.gid
    /\ \A t \in Tasks : s.stat[t] = "idle" => p.stat[t] = "idle"

LEMMA DeletionsKept ==
  ASSUME NEW s, NEW h, NEW w, Deletions(s, h, w), h \in [Runners -> RunType],
         NEW p, GroupsKept(s, p), NEW k, HandsKept(h, k), w \in GwType
  PROVE  Deletions(p, k, w)
<1>1. \A r \in Runners : k[r].deleting = h[r].deleting /\ h[r].deleting \in Ids \cup {NoGroup}
  BY DEF HandsKept, RunType
<1>2. \A r \in Runners : k[r].deleting # NoGroup =>
        r \in Users /\ p.entry[k[r].deleting].used = "destroying"
  BY <1>1 DEF Deletions, GroupsKept
<1>3. \A u \in Users : w.wpc[u] # "out" => k[u] = h[u]
  <2> SUFFICES ASSUME NEW u \in Users, w.wpc[u] # "out"
               PROVE  k[u] = h[u]
    OBVIOUS
  <2>1. h[u].q = <<>> /\ h[u].deleting = w.group[u] /\ w.group[u] \in Ids /\ u \in Runners
    BY DEF Deletions, GwType, Callers, Runners
  <2>2. h[u].deleting # NoGroup
    BY <2>1, GpAssumption DEF Ids, NoGroup
  <2> QED
    BY <2>1, <2>2 DEF HandsKept
<1> QED
  BY <1>1, <1>2, <1>3 DEF Deletions

LEMMA WaitKept ==
  ASSUME NEW s, NEW h, NEW w, WaitSound(s, h, w), NEW v, WokenFrom(w, v),
         v.progressed \subseteq w.progressed \cup Inside(w, AnyKinds),
         NEW p, GroupsKept(s, p), NEW k, Deletions(p, k, w)
  PROVE  WaitSound(p, k, v)
<1>1. /\ w \in GwType /\ v \in GwType /\ SameRequests(w, v) /\ v.syncing = w.syncing
      /\ v.shut = w.shut
  BY DEF WaitSound, WokenFrom
<1>2. /\ Inside(w, AnyKinds) = {x \in Callers : w.wpc[x] # "out" /\ w.kind[x] \in AnyKinds}
      /\ PoolRefs(v) = PoolRefs(w)
  BY <1>1, InsideIs, SameInside
<1>3. \A x \in Callers : v.wpc[x] # "out" => RequestSound(p, v, x)
  <2> SUFFICES ASSUME NEW x \in Callers, v.wpc[x] # "out"
               PROVE  RequestSound(p, v, x)
    OBVIOUS
  <2>1. /\ RequestSound(s, w, x) /\ v.kind = w.kind /\ v.peek = w.peek
        /\ v.group = w.group /\ w.group[x] \in Ids
    BY <1>1 DEF WaitSound, Requests, SameRequests, GwType
  <2> QED
    BY <2>1 DEF RequestSound, GroupsKept
<1>4. \A x \in Callers : v.wpc[x] # "out" <=> w.wpc[x] # "out"
  BY <1>1 DEF SameRequests
<1>5. \A x \in v.progressed : v.wpc[x] # "out" /\ v.kind[x] \in AnyKinds
  BY <1>1, <1>2, <1>4 DEF WaitSound, Requests, SameRequests, GwType
<1>6. Requests(p, v)
  BY <1>1, <1>3, <1>4, <1>5 DEF WaitSound, Requests
<1>7. Deletions(p, k, v)
  BY <1>1, <1>4 DEF Deletions, SameRequests, Callers
<1> QED
  BY <1>1, <1>2, <1>6, <1>7 DEF WaitSound

LEMMA SameKept ==
  ASSUME NEW s, NEW p, SameGroups(s, p)
  PROVE  GroupsKept(s, p)
BY DEF SameGroups, GroupsKept

\* A pool that changes, and those who are woken by what is done.
LEMMA DoneKept ==
  ASSUME NEW s, NEW h, NEW w, WaitSound(s, h, w), h \in [Runners -> RunType],
         NEW p, NEW v, DoneFrom(s, w, p, v), GroupsKept(s, p),
         NEW k, Deletions(p, k, w)
  PROVE  WaitSound(p, k, v)
<1>1. AnyOf(w, p, Ends(s, p)) \subseteq Inside(w, AnyKinds)
  BY DEF AnyOf, Inside, AnyKinds
<1>2. WokenFrom(w, v) /\ v.progressed \subseteq w.progressed \cup Inside(w, AnyKinds)
  BY <1>1 DEF DoneFrom
<1> QED
  BY <1>2, WaitKept

\* Threads and users that have nothing in hand have not left a task.
LEMMA IdleStays ==
  ASSUME NEW s, NEW h, Held(s, h), NEW r \in Runners, h[r].q = <<>>
  PROVE  h[r].leaving = NoTask
BY DEF Held, HandSound

LEMMA HandsBut ==
  ASSUME NEW s, NEW h, Held(s, h), NEW r \in Runners, NEW k,
         k \in [Runners -> RunType], \A x \in Runners : x # r => k[x] = h[x],
         k[r].leaving = h[r].leaving, k[r].deleting = h[r].deleting,
         h[r].leaving = NoTask, h[r].deleting = NoGroup \/ h[r].q # <<>>
  PROVE  HandsKept(h, k)
BY DEF HandsKept

LEMMA EndQuiet ==
  ASSUME NEW s, PoolSound(s), NEW p, NEW t, EndOf(s, p, t)
  PROVE  Quiet(s, p)
<1>1. s.stat \in [Tasks -> TaskStats] /\ t \in Tasks /\ s.stat[t] # "idle"
  BY DEF PoolSound, GpShape, EndOf
<1>2. \A u \in Tasks : s.stat[u] = "idle" => p.stat[u] = "idle"
  BY <1>1 DEF EndOf
<1> QED
  BY <1>2 DEF Quiet, EndOf

LEMMA ServeQuiet ==
  ASSUME Held(gp, run), Deletions(gp, run, gw), NEW th \in Threads, Serve(th)
  PROVE  Quiet(gp, gp') /\ HandsKept(run, run')
<1>1. /\ th \in Runners /\ run[th].deleting = NoGroup /\ PoolSound(gp)
      /\ run \in [Runners -> RunType]
  BY GpAssumption DEF Deletions, Runners, Held
<1>2. CASE Take(th)
  <2>1. /\ run' \in [Runners -> RunType] /\ SameGroups(gp, gp') /\ gp'.gid = gp.gid
        /\ \A t \in Tasks : gp.stat[t] = "idle" => gp'.stat[t] = "idle"
    BY <1>2, TakeHeld DEF Held
  <2>2. /\ \A x \in Runners : x # th => run'[x] = run[x]
        /\ run'[th].leaving = run[th].leaving /\ run'[th].deleting = run[th].deleting
        /\ run[th].leaving = NoTask
    <3> DEFINE w == [run[th] EXCEPT !.q = <<Found(gp)>>, !.normal = TRUE]
    <3>1. run' = run \/ run' = [run EXCEPT ![th] = w]
      BY <1>1, <1>2 DEF Take
    <3>2. run[th].leaving = NoTask
      BY <1>2 DEF Take, MayTake
    <3>3. w.leaving = run[th].leaving /\ w.deleting = run[th].deleting
      BY <1>1 DEF RunType
    <3> HIDE DEF w
    <3> QED
      BY <1>1, <3>1, <3>2, <3>3
  <2>3. HandsKept(run, run')
    BY <1>1, <2>1, <2>2, HandsBut
  <2> QED
    BY <2>1, <2>3 DEF Quiet
<1>3. CASE TakeRemoved(th)
  <2>1. /\ run' \in [Runners -> RunType] /\ SameGroups(gp, gp') /\ gp'.gid = gp.gid
        /\ gp'.stat = gp.stat
    BY <1>3, TakeRemovedHeld DEF Held
  <2>2. /\ \A x \in Runners : x # th => run'[x] = run[x]
        /\ run'[th].leaving = run[th].leaving /\ run'[th].deleting = run[th].deleting
        /\ run[th].leaving = NoTask
    BY <1>1, <1>3 DEF TakeRemoved
  <2>3. HandsKept(run, run')
    BY <1>1, <2>1, <2>2, HandsBut
  <2> QED
    BY <2>1, <2>3 DEF Quiet
<1>4. CASE Finished(th)
  <2>1. run' \in [Runners -> RunType] /\ (gp' = gp \/ EndOf(gp, gp', run[th].q[1]))
    BY <1>4, FinishedHeld DEF Held
  <2>2. /\ \A x \in Runners : x # th => run'[x] = run[x]
        /\ run'[th].leaving = run[th].leaving /\ run'[th].deleting = run[th].deleting
        /\ run[th].leaving = NoTask
    BY <1>1, <1>4 DEF Finished, NextInQ
  <2>3. HandsKept(run, run')
    BY <1>1, <2>1, <2>2, HandsBut
  <2>4. Quiet(gp, gp')
    BY <1>1, <2>1, EndQuiet, SameTrans DEF Quiet
  <2> QED
    BY <2>3, <2>4
<1> QED
  BY <1>2, <1>3, <1>4 DEF Serve

LEMMA DispatchQuiet ==
  ASSUME Held(gp, run), NEW u \in Users, DispatchNext(u)
  PROVE  Quiet(gp, gp') /\ HandsKept(run, run')
<1>1. u \in Runners /\ PoolSound(gp) /\ run \in [Runners -> RunType]
  BY DEF Runners, Held
<1>2. run' \in [Runners -> RunType] /\ (gp' = gp \/ EndOf(gp, gp', run[u].q[1]))
  BY DispatchNextHeld DEF Held
<1>3. /\ \A x \in Runners : x # u => run'[x] = run[x]
      /\ run'[u].leaving = run[u].leaving /\ run'[u].deleting = run[u].deleting
      /\ run[u].leaving = NoTask /\ run[u].q # <<>>
  BY <1>1 DEF DispatchNext, NextInQ
<1>4. HandsKept(run, run')
  BY <1>1, <1>2, <1>3, HandsBut
<1>5. Quiet(gp, gp')
  BY <1>1, <1>2, EndQuiet, SameTrans DEF Quiet
<1> QED
  BY <1>4, <1>5

LEMMA MarkedQuiet ==
  ASSUME NEW s, NEW p, NEW X, NEW bypool, MarkedFrom(s, p, X, bypool)
  PROVE  Quiet(s, p)
BY DEF MarkedFrom, Quiet

LEMMA RemoveQuiet ==
  ASSUME Held(gp, run), NEW u \in Users, IdleUser(u), NEW X \in SUBSET Tasks,
         NEW bypool \in BOOLEAN, RemoveThese(u, X, bypool)
  PROVE  Quiet(gp, gp') /\ HandsKept(run, run')
<1>1. u \in Runners /\ run \in [Runners -> RunType]
  BY DEF Runners, Held
<1>2. run' \in [Runners -> RunType] /\ Quiet(gp, gp')
  BY <1>1, RemoveTheseHeld, MarkedQuiet DEF Held
<1>3. /\ \A x \in Runners : x # u => run'[x] = run[x]
      /\ run'[u].leaving = run[u].leaving /\ run'[u].deleting = run[u].deleting
      /\ run[u].deleting = NoGroup
  BY <1>1 DEF RemoveThese, IdleUser
<1>4. run[u].leaving = NoTask
  BY <1>1, IdleStays DEF IdleUser
<1>5. HandsKept(run, run')
  BY <1>1, <1>2, <1>3, <1>4, HandsBut
<1> QED
  BY <1>2, <1>5

LEMMA UserRemovesQuiet ==
  ASSUME Held(gp, run), NEW u \in Users,
         \/ \E t \in Tasks, bypool \in BOOLEAN : RemoveTask(u, t, bypool)
         \/ \E bypool \in BOOLEAN : MarkCb(u, bypool)
         \/ \E g \in Ids, bypool \in BOOLEAN : EntryMarkCb(u, g, bypool)
  PROVE  Quiet(gp, gp') /\ HandsKept(run, run')
<1>1. ASSUME NEW t \in Tasks, NEW bypool \in BOOLEAN, RemoveTask(u, t, bypool)
      PROVE  Quiet(gp, gp') /\ HandsKept(run, run')
  <2>1. IdleUser(u) /\ {t} \in SUBSET Tasks /\ RemoveThese(u, {t}, bypool)
    BY <1>1 DEF RemoveTask
  <2> QED
    BY <2>1, RemoveQuiet
<1>2. ASSUME NEW bypool \in BOOLEAN, MarkCb(u, bypool)
      PROVE  Quiet(gp, gp') /\ HandsKept(run, run')
  <2>1. PICK X \in SUBSET Removable(gp) : RemoveThese(u, X, bypool)
    BY <1>2 DEF MarkCb
  <2>2. IdleUser(u) /\ X \in SUBSET Tasks
    BY <1>2 DEF MarkCb, Removable
  <2> QED
    BY <2>1, <2>2, RemoveQuiet
<1>3. ASSUME NEW g \in Ids, NEW bypool \in BOOLEAN, EntryMarkCb(u, g, bypool)
      PROVE  Quiet(gp, gp') /\ HandsKept(run, run')
  <2>1. PICK X \in SUBSET (Removable(gp) \cap OfGroup(gp, g)) : RemoveThese(u, X, bypool)
    BY <1>3 DEF EntryMarkCb
  <2>2. IdleUser(u) /\ X \in SUBSET Tasks
    BY <1>3 DEF EntryMarkCb, Removable
  <2> QED
    BY <2>1, <2>2, RemoveQuiet
<1> QED
  BY <1>1, <1>2, <1>3

LEMMA TaskStepQuiet ==
  ASSUME Held(gp, run), Deletions(gp, run, gw), TaskStep
  PROVE  Quiet(gp, gp') /\ HandsKept(run, run') /\ gw' = TasksDone
<1>1. ASSUME NEW th \in Threads, Serve(th)
      PROVE  Quiet(gp, gp') /\ HandsKept(run, run')
  BY <1>1, ServeQuiet
<1>2. ASSUME NEW u \in Users, DispatchNext(u)
      PROVE  Quiet(gp, gp') /\ HandsKept(run, run')
  BY <1>2, DispatchQuiet
<1>3. ASSUME NEW u \in Users,
             \/ \E t \in Tasks, bypool \in BOOLEAN : RemoveTask(u, t, bypool)
             \/ \E bypool \in BOOLEAN : MarkCb(u, bypool)
             \/ \E g \in Ids, bypool \in BOOLEAN : EntryMarkCb(u, g, bypool)
      PROVE  Quiet(gp, gp') /\ HandsKept(run, run')
  BY <1>3, UserRemovesQuiet
<1> QED
  BY <1>1, <1>2, <1>3 DEF TaskStep

-----------------------------------------------------------------------------
(***************************************************************************)
(* What one caller does                                                    *)
(***************************************************************************)

\* The requests of w and v are the same, but for that of x.
Apart(w, v, x) ==
    /\ v \in GwType /\ v.syncing = w.syncing /\ v.shut = w.shut
    /\ \A y \in Callers : y # x =>
        /\ v.wpc[y] = w.wpc[y] /\ v.kind[y] = w.kind[y] /\ v.group[y] = w.group[y]
        /\ v.peek[y] = w.peek[y] /\ (Flagged(w, y) => Flagged(v, y))
        /\ y \in v.over <=> y \in w.over
        /\ y \in v.progressed <=> y \in w.progressed

LEMMA ApartTrans ==
  ASSUME NEW w, NEW v, NEW u, NEW x
  PROVE  /\ Apart(w, v, x) /\ Apart(v, u, x) => Apart(w, u, x)
         /\ w \in GwType => Apart(w, w, x)
BY DEF Apart

\* What concerns nobody is the same, and what x has asked for.
SameAsked(w, v, x) ==
    v.kind[x] = w.kind[x] /\ v.group[x] = w.group[x] /\ v.peek[x] = w.peek[x]

LEMMA ParkIs ==
  ASSUME NEW w \in GwType, NEW x \in Callers
  PROVE  LET v == Park(w, x)
         IN  /\ Apart(w, v, x) /\ SameAsked(w, v, x) /\ v.wpc[x] = "parked"
             /\ Flagged(v, x) /\ x \notin v.over /\ v.progressed = w.progressed
             /\ v.asleep = w.asleep /\ v.cache = w.cache
<1> DEFINE k == w.kind[x]
           g == w.group[x]
           f == [w.wpc EXCEPT ![x] = "parked"]
           o == w.over \ {x}
           a == [w EXCEPT !.wpc = f, !.over = o]
           n == [w.need EXCEPT ![g] = TRUE]
           y == [w.any EXCEPT ![g] = @ \/ k = "group_any"]
           v == Park(w, x)
<1>1. /\ f \in [Callers -> WaitLocation] /\ f[x] = "parked" /\ o \in SUBSET Callers
      /\ g \in Ids /\ k \in AllKinds \cup {"delete"}
      /\ \A z \in Callers : z # x => f[z] = w.wpc[z] /\ (z \in o <=> z \in w.over)
      /\ x \notin o
  BY DEF GwType, WaitLocation
<1>2. /\ n \in [Ids -> BOOLEAN] /\ n[g] /\ \A h \in Ids : w.need[h] => n[h]
      /\ y \in [Ids -> BOOLEAN] /\ (k = "group_any" => y[g])
      /\ \A h \in Ids : w.any[h] => y[h]
  BY <1>1 DEF GwType
<1>3. a = [w EXCEPT !.wpc[x] = "parked", !.over = @ \ {x}]
  BY DEF GwType
<1>4. v = IF k \in ThrottleKinds THEN [a EXCEPT !.ev_need = TRUE]
          ELSE IF k \in PoolKinds
          THEN [a EXCEPT !.pool_need = TRUE, !.pool_any = @ \/ k = "pool_any"]
          ELSE [a EXCEPT !.need[g] = TRUE, !.any[g] = @ \/ k = "group_any"]
  BY <1>3 DEF Park
<1> HIDE DEF f, o, v
<1>5. /\ a \in GwType /\ a.wpc = f /\ a.over = o /\ a.kind = w.kind /\ a.group = w.group
      /\ a.peek = w.peek /\ a.need = w.need /\ a.any = w.any /\ a.pool_any = w.pool_any
      /\ a.pool_need = w.pool_need /\ a.ev_need = w.ev_need
      /\ a.progressed = w.progressed /\ a.syncing = w.syncing /\ a.asleep = w.asleep
      /\ a.shut = w.shut /\ a.cache = w.cache
  BY <1>1 DEF GwType
<1> DEFINE Like(b) ==
              /\ b \in GwType /\ b.wpc = f /\ b.over = o /\ b.kind = w.kind
              /\ b.group = w.group /\ b.peek = w.peek /\ b.progressed = w.progressed
              /\ b.syncing = w.syncing /\ b.asleep = w.asleep /\ b.shut = w.shut
              /\ b.cache = w.cache
              /\ \A h \in Ids : (w.need[h] => b.need[h]) /\ (w.any[h] => b.any[h])
              /\ (w.pool_need => b.pool_need) /\ (w.pool_any => b.pool_any)
              /\ (w.ev_need => b.ev_need)
<1>6. Like(v) /\ Flagged(v, x)
  <2>1. CASE k \in ThrottleKinds
    <3>1. v = [a EXCEPT !.ev_need = TRUE]
      BY <1>4, <2>1
    <3> HIDE DEF a
    <3>2. Like(v) /\ v.ev_need
      BY <1>5, <3>1 DEF GwType
    <3>3. k \notin EntryTaskKinds /\ k \notin PoolKinds /\ k # "group_any" /\ k # "pool_any"
      BY <2>1 DEF ThrottleKinds, EntryTaskKinds, PoolKinds
    <3> QED
      BY <3>2, <3>3 DEF Flagged
  <2>2. CASE k \notin ThrottleKinds /\ k \in PoolKinds
    <3>1. v = [a EXCEPT !.pool_need = TRUE, !.pool_any = @ \/ k = "pool_any"]
      BY <1>4, <2>2
    <3> HIDE DEF a
    <3>2. Like(v) /\ v.pool_need /\ (k = "pool_any" => v.pool_any)
      BY <1>5, <3>1 DEF GwType
    <3>3. k \notin EntryTaskKinds /\ k # "group_any"
      BY <2>2 DEF EntryTaskKinds, PoolKinds
    <3> QED
      BY <2>2, <3>2, <3>3 DEF Flagged
  <2>3. CASE k \notin ThrottleKinds /\ k \notin PoolKinds
    <3>1. v = [a EXCEPT !.need = n, !.any = y]
      BY <1>4, <1>5, <2>3
    <3> HIDE DEF a, n, y
    <3>2. Like(v) /\ v.need = n /\ v.any = y
      BY <1>2, <1>5, <3>1 DEF GwType
    <3>3. k # "pool_any"
      BY <2>3 DEF PoolKinds
    <3> QED
      BY <1>2, <2>3, <3>2, <3>3 DEF Flagged
  <2> QED
    BY <2>1, <2>2, <2>3
<1> HIDE DEF a, n, y
<1>7. \A z \in Callers : w.group[z] \in Ids
  BY DEF GwType
<1>8. \A z \in Callers : Flagged(w, z) => Flagged(v, z)
  BY <1>6, <1>7 DEF Flagged
<1>9. Apart(w, v, x)
  BY <1>1, <1>6, <1>8 DEF Apart
<1> QED
  BY <1>1, <1>6, <1>9 DEF SameAsked, v

\* Nothing is said of those who wait for the last reference.
Unsaid(w, x, v) ==
    LET k == w.kind[x]
        g == w.group[x]
        t == w.peek[x]
    IN  /\ v.asleep = w.asleep
        /\ k \in TaskKinds =>
            \/ Refs(v, t) # {}
            \/ \A r \in w.syncing \cap Runners : run[r].leaving # t
        /\ k \notin PoolKinds \cup {"pool_throttle"} =>
            GroupRefs(v, g) # {} \/ gp.entry[g].used # "destroying"
        /\ k \in PoolKinds \cup {"pool_throttle"} => PoolRefs(v) # {} \/ ~gp.destroying

LEMMA UnregisteredIs ==
  ASSUME NEW w \in GwType, NEW x \in Callers
  PROVE  LET v == Unregistered(w, x)
         IN  /\ Apart(w, v, x) /\ SameAsked(w, v, x) /\ v.wpc[x] = "out"
             /\ v.over = w.over /\ v.progressed = w.progressed /\ v.stale = w.stale
             /\ v.cache = w.cache
             /\ v.asleep = {} \/ Unsaid(w, x, v)
<1> DEFINE f == [w.wpc EXCEPT ![x] = "out"]
           a == [w EXCEPT !.wpc = f]
           b == WakeSync(a)
           v == Unregistered(w, x)
           Like(c) ==
              /\ c \in GwType /\ c.wpc = f /\ c.kind = w.kind /\ c.group = w.group
              /\ c.peek = w.peek /\ c.need = w.need /\ c.any = w.any
              /\ c.pool_need = w.pool_need /\ c.pool_any = w.pool_any
              /\ c.ev_need = w.ev_need /\ c.over = w.over /\ c.stale = w.stale
              /\ c.progressed = w.progressed /\ c.syncing = w.syncing
              /\ c.shut = w.shut /\ c.cache = w.cache
<1>1. /\ f \in [Callers -> WaitLocation] /\ f[x] = "out"
      /\ \A z \in Callers : z # x => f[z] = w.wpc[z]
  BY DEF GwType, WaitLocation
<1>2. a = [w EXCEPT !.wpc[x] = "out"]
  BY DEF GwType
<1>3. \/ v = b
      \/ v = a /\ Unsaid(w, x, a)
  <2>1. \/ v = WakeSync([w EXCEPT !.wpc[x] = "out"])
        \/ /\ v = [w EXCEPT !.wpc[x] = "out"]
           /\ LET k == w.kind[x]
                  g == w.group[x]
                  t == w.peek[x]
                  left == [w EXCEPT !.wpc[x] = "out"]
                  detaching == \E r \in w.syncing \cap Runners : run[r].leaving = t
              IN  ~(\/ k \in {"task", "suspend", "group_cb"} /\ Refs(left, t) = {} /\ detaching
                    \/ /\ k \notin PoolKinds \cup {"pool_throttle"}
                       /\ GroupRefs(left, g) = {} /\ gp.entry[g].used = "destroying"
                    \/ /\ k \in PoolKinds \cup {"pool_throttle"}
                       /\ PoolRefs(left) = {} /\ gp.destroying)
    BY Zenon DEF Unregistered
  <2>2. CASE v = WakeSync([w EXCEPT !.wpc[x] = "out"])
    BY <1>2, <2>2
  <2>3. CASE v # WakeSync([w EXCEPT !.wpc[x] = "out"])
    <3>1. a.asleep = w.asleep
      BY DEF GwType
    <3> HIDE DEF v, a
    <3> QED
      BY <1>2, <2>1, <2>3, <3>1 DEF Unsaid, TaskKinds
  <2> QED
    BY <2>2, <2>3
<1> HIDE DEF f, v
<1>4. Like(a) /\ a.asleep = w.asleep
  BY <1>1 DEF GwType
<1> HIDE DEF a
<1>5. Like(b) /\ b.asleep = {}
  BY <1>4 DEF GwType, WakeSync
<1>6. Like(v) /\ (v.asleep = {} \/ Unsaid(w, x, v))
  BY <1>3, <1>4, <1>5
<1> HIDE DEF b
<1>7. Apart(w, v, x)
  BY <1>1, <1>6 DEF Apart, Flagged
<1> QED
  BY <1>1, <1>6, <1>7 DEF SameAsked, v

LEMMA CollectedIs ==
  ASSUME NEW w \in GwType, NEW x \in Callers
  PROVE  LET v == Collected(w, x)
         IN  /\ Apart(w, v, x) /\ SameAsked(w, v, x) /\ v.wpc = w.wpc
             /\ v.over = w.over /\ v.progressed = w.progressed /\ v.stale = w.stale
             /\ v.asleep = w.asleep /\ SameRequests(w, v)
             /\ v.cache = w.cache \cup
                    {t \in {w.peek[x]} \cap Cached : gp.stat[t] = "idle" /\ Refs(w, t) = {}}
<1> DEFINE t == w.peek[x]
           v == Recycled(w, {t})
<1>1. t \in Tasks \cup {NoTask}
  BY DEF GwType
<1>2. CASE t # NoTask /\ gp.stat[t] = "idle"
  <2>1. Collected(w, x) = v
    BY <1>2 DEF Collected
  <2>2. {t} \in SUBSET Tasks
    BY <1>1, <1>2
  <2> HIDE DEF t
  <2>3. /\ WokenFrom(w, v) /\ v.over = w.over /\ v.progressed = w.progressed
        /\ v.cache = w.cache \cup {u \in {t} \cap Cached : Refs(w, u) = {}}
        /\ v.wpc = w.wpc /\ v.kind = w.kind /\ v.group = w.group /\ v.peek = w.peek
        /\ v.stale = w.stale
    BY <2>2, RecycledIs
  <2> HIDE DEF v
  <2>4. /\ v.need = w.need /\ v.any = w.any /\ v.ev_need = w.ev_need
        /\ v.pool_need = w.pool_need /\ v.pool_any = w.pool_any
    BY DEF v, Recycled, GwType
  <2>5. Apart(w, v, x) /\ SameAsked(w, v, x)
    BY <2>3, <2>4 DEF Apart, WokenFrom, SameAsked, Flagged
  <2>6. {u \in {t} \cap Cached : Refs(w, u) = {}} =
        {u \in {t} \cap Cached : gp.stat[u] = "idle" /\ Refs(w, u) = {}}
    BY <1>2
  <2> QED
    BY <2>1, <2>3, <2>5, <2>6 DEF WokenFrom, t
<1>3. CASE ~(t # NoTask /\ gp.stat[t] = "idle")
  <2>1. Collected(w, x) = w
    BY <1>3 DEF Collected
  <2>2. NoTask \notin Cached
    BY GpAssumption, GpWaitAssumption
  <2>3. {u \in {t} \cap Cached : gp.stat[u] = "idle" /\ Refs(w, u) = {}} = {}
    BY <1>3, <2>2
  <2>4. Apart(w, w, x) /\ SameAsked(w, w, x) /\ SameRequests(w, w)
    BY ApartTrans DEF SameAsked, SameRequests
  <2> QED
    BY <2>1, <2>3, <2>4
<1> QED
  BY <1>2, <1>3

LEMMA GoneIs ==
  ASSUME NEW w \in GwType, NEW x \in Callers
  PROVE  LET v == Gone(w, x)
         IN  /\ Apart(w, v, x) /\ v.wpc = w.wpc /\ v.kind[x] = "delete"
             /\ v.peek[x] = NoTask
             /\ v.over = w.over \ {x} /\ v.progressed = w.progressed \ {x}
             /\ v.asleep = w.asleep /\ v.cache = w.cache
<1> DEFINE o == w.over \ {x}
           r == w.progressed \ {x}
           l == w.stale \ {x}
           k == [w.kind EXCEPT ![x] = "delete"]
           g == [w.group EXCEPT ![x] = 0]
           t == [w.peek EXCEPT ![x] = NoTask]
           v == [w EXCEPT !.over = o, !.progressed = r, !.stale = l,
                          !.kind = k, !.group = g, !.peek = t]
<1>1. 0 \in Ids
  BY GpAssumption DEF Ids
<1>2. /\ o \in SUBSET Callers /\ r \in SUBSET Callers /\ l \in SUBSET Callers
      /\ k \in [Callers -> AllKinds \cup {"delete"}] /\ g \in [Callers -> Ids]
      /\ t \in [Callers -> Tasks \cup {NoTask}]
      /\ k[x] = "delete" /\ t[x] = NoTask
      /\ \A y \in Callers : y # x =>
            k[y] = w.kind[y] /\ g[y] = w.group[y] /\ t[y] = w.peek[y]
  BY <1>1 DEF GwType
<1>3. Gone(w, x) = v
  BY DEF Gone, GwType
<1>4. o = w.over \ {x} /\ r = w.progressed \ {x}
  OBVIOUS
<1> HIDE DEF o, r, l, k, g, t
<1>5. /\ v \in GwType /\ v.over = o /\ v.progressed = r /\ v.kind = k /\ v.group = g
      /\ v.peek = t /\ v.wpc = w.wpc /\ v.need = w.need /\ v.any = w.any
      /\ v.pool_need = w.pool_need /\ v.pool_any = w.pool_any
      /\ v.ev_need = w.ev_need /\ v.syncing = w.syncing /\ v.asleep = w.asleep
      /\ v.shut = w.shut /\ v.cache = w.cache
  BY <1>2 DEF GwType
<1> HIDE DEF v
<1>6. Apart(w, v, x)
  BY <1>2, <1>4, <1>5 DEF Apart, Flagged
<1> QED
  BY <1>2, <1>3, <1>4, <1>5, <1>6

\* x asks for something else; nothing happens yet.
Asks(w, v, x) ==
    /\ Apart(w, v, x) /\ v.wpc = w.wpc /\ v.over = w.over
    /\ v.progressed = w.progressed /\ v.asleep = w.asleep /\ v.cache = w.cache

LEMMA AsksTrans ==
  ASSUME NEW w, NEW v, NEW u, NEW x
  PROVE  /\ Asks(w, v, x) /\ Asks(v, u, x) => Asks(w, u, x)
         /\ w \in GwType => Asks(w, w, x)
BY ApartTrans DEF Asks

LEMMA RequestIs ==
  ASSUME gw \in GwType, NEW x \in Callers, NEW k \in AllKinds \cup {"delete"},
         NEW g \in Ids
  PROVE  LET v == Request(x, k, g)
         IN  Asks(gw, v, x) /\ v.kind[x] = k /\ v.group[x] = g /\ v.peek[x] = NoTask
<1> DEFINE K == [gw.kind EXCEPT ![x] = k]
           G == [gw.group EXCEPT ![x] = g]
           T == [gw.peek EXCEPT ![x] = NoTask]
           v == [gw EXCEPT !.kind = K, !.group = G, !.peek = T]
<1>1. /\ K \in [Callers -> AllKinds \cup {"delete"}] /\ G \in [Callers -> Ids]
      /\ T \in [Callers -> Tasks \cup {NoTask}]
      /\ K[x] = k /\ G[x] = g /\ T[x] = NoTask
      /\ \A y \in Callers : y # x =>
            K[y] = gw.kind[y] /\ G[y] = gw.group[y] /\ T[y] = gw.peek[y]
  BY DEF GwType
<1>2. Request(x, k, g) = v
  BY DEF Request, GwType
<1> HIDE DEF K, G, T
<1>3. /\ v \in GwType /\ v.over = gw.over /\ v.progressed = gw.progressed /\ v.kind = K
      /\ v.group = G /\ v.peek = T /\ v.wpc = gw.wpc /\ v.need = gw.need
      /\ v.any = gw.any /\ v.pool_need = gw.pool_need /\ v.pool_any = gw.pool_any
      /\ v.ev_need = gw.ev_need /\ v.syncing = gw.syncing /\ v.asleep = gw.asleep
      /\ v.shut = gw.shut /\ v.cache = gw.cache
  BY <1>1 DEF GwType
<1> HIDE DEF v
<1>4. Apart(gw, v, x)
  BY <1>1, <1>3 DEF Apart, Flagged
<1> QED
  BY <1>1, <1>2, <1>3, <1>4 DEF Asks

LEMMA PeekIs ==
  ASSUME NEW w \in GwType, NEW x \in Callers, NEW t \in Tasks, gp \in GpShape
  PROVE  LET v == Peek(w, x, t)
         IN  /\ Asks(w, v, x) /\ v.kind = w.kind /\ v.group[x] = gp.gid[t]
             /\ v.peek[x] = t /\ v.stale = w.stale
<1> DEFINE g == gp.gid[t]
           G == [w.group EXCEPT ![x] = g]
           T == [w.peek EXCEPT ![x] = t]
           v == [w EXCEPT !.group = G, !.peek = T]
<1>1. /\ g \in Ids /\ G \in [Callers -> Ids]
      /\ T \in [Callers -> Tasks \cup {NoTask}] /\ G[x] = g /\ T[x] = t
      /\ \A y \in Callers : y # x => G[y] = w.group[y] /\ T[y] = w.peek[y]
  BY DEF GwType, GpShape
<1>2. Peek(w, x, t) = v
  BY DEF Peek, GwType
<1> HIDE DEF G, T
<1>3. /\ v \in GwType /\ v.over = w.over /\ v.progressed = w.progressed
      /\ v.kind = w.kind /\ v.group = G /\ v.peek = T /\ v.wpc = w.wpc /\ v.need = w.need
      /\ v.any = w.any /\ v.pool_need = w.pool_need /\ v.pool_any = w.pool_any
      /\ v.ev_need = w.ev_need /\ v.syncing = w.syncing /\ v.asleep = w.asleep
      /\ v.shut = w.shut /\ v.cache = w.cache /\ v.stale = w.stale
  BY <1>1 DEF GwType
<1> HIDE DEF v
<1>4. Apart(w, v, x)
  BY <1>1, <1>3 DEF Apart, Flagged
<1> QED
  BY <1>1, <1>2, <1>3, <1>4 DEF Asks

LEMMA StaleIs ==
  ASSUME NEW w \in GwType, NEW x \in Callers, NEW l \in SUBSET Callers
  PROVE  LET v == [w EXCEPT !.stale = l]
         IN  Asks(w, v, x) /\ v.kind = w.kind /\ v.group = w.group /\ v.peek = w.peek
<1> DEFINE v == [w EXCEPT !.stale = l]
<1>1. /\ v \in GwType /\ v.over = w.over /\ v.progressed = w.progressed
      /\ v.kind = w.kind /\ v.group = w.group /\ v.peek = w.peek /\ v.wpc = w.wpc
      /\ v.need = w.need /\ v.any = w.any /\ v.pool_need = w.pool_need
      /\ v.pool_any = w.pool_any /\ v.ev_need = w.ev_need /\ v.syncing = w.syncing
      /\ v.asleep = w.asleep /\ v.shut = w.shut /\ v.cache = w.cache
  BY DEF GwType
<1> HIDE DEF v
<1>2. Apart(w, v, x)
  BY <1>1 DEF Apart, Flagged
<1> QED
  BY <1>1, <1>2 DEF Asks, v

\* x waits on for the same, which is not there, or for a task that is busy.
AsksAgain(w, v, x) ==
    /\ Asks(w, v, x) /\ v.kind = w.kind
    /\ \/ /\ SameAsked(w, v, x)
          /\ w.kind[x] = "suspend" =>
                gp.stat[w.peek[x]] # "idle" \/ Busy(gp, Ids) = {}
       \/ /\ w.kind[x] \in {"suspend", "group_cb"}
          /\ \E t \in Busy(gp, Ids) : v.peek[x] = t /\ v.group[x] = gp.gid[t]

LEMMA AgainIs ==
  ASSUME NEW w \in GwType, NEW x \in Callers, gp \in GpShape, NEW v \in Again(w, x)
  PROVE  AsksAgain(w, v, x)
<1> DEFINE k == w.kind[x]
           G == IF k = "suspend" THEN Ids ELSE {w.group[x]}
           next == Peeked(w, x, G)
<1>1. G \subseteq Ids /\ (k = "suspend" => G = Ids)
  BY DEF GwType
<1> HIDE DEF G
<1>2. Busy(gp, G) \subseteq Busy(gp, Ids) /\ Busy(gp, G) \subseteq Tasks
  BY <1>1 DEF Busy
<1>3. \/ k \notin {"suspend", "group_cb"} /\ v = w
      \/ gp.stat[w.peek[x]] # "idle" /\ v = w
      \/ k \in {"suspend", "group_cb"} /\ next = {} /\ v = [w EXCEPT !.stale = @ \cup {x}]
      \/ /\ k \in {"suspend", "group_cb"}
         /\ \E u \in next : v = [u EXCEPT !.stale = @ \ {x}]
  BY DEF Again, G
<1>4. CASE v = w /\ (k \notin {"suspend", "group_cb"} \/ gp.stat[w.peek[x]] # "idle")
  BY <1>4, AsksTrans DEF AsksAgain, SameAsked
<1>5. CASE next = {} /\ v = [w EXCEPT !.stale = @ \cup {x}]
  <2>1. w.stale \cup {x} \in SUBSET Callers
    BY DEF GwType
  <2>2. Asks(w, v, x) /\ v.kind = w.kind /\ v.group = w.group /\ v.peek = w.peek
    BY <1>5, <2>1, StaleIs
  <2>3. Busy(gp, G) = {}
    BY <1>5 DEF Peeked
  <2> QED
    BY <1>1, <2>2, <2>3 DEF AsksAgain, SameAsked
<1>6. ASSUME NEW u \in next, v = [u EXCEPT !.stale = @ \ {x}],
             k \in {"suspend", "group_cb"}
      PROVE  AsksAgain(w, v, x)
  <2>1. PICK t \in Busy(gp, G) : u = Peek(w, x, t)
    BY <1>6 DEF Peeked
  <2>2. t \in Tasks /\ t \in Busy(gp, Ids)
    BY <1>2, <2>1
  <2>3. /\ Asks(w, u, x) /\ u.kind = w.kind /\ u.group[x] = gp.gid[t]
        /\ u.peek[x] = t /\ u.stale = w.stale
    BY <2>1, <2>2, PeekIs
  <2>4. u \in GwType /\ u.stale \ {x} \in SUBSET Callers
    BY <2>3 DEF Asks, Apart, GwType
  <2>5. Asks(u, v, x) /\ v.kind = u.kind /\ v.group = u.group /\ v.peek = u.peek
    BY <1>6, <2>4, StaleIs
  <2>6. Asks(w, v, x)
    BY <2>3, <2>5, AsksTrans
  <2> QED
    BY <1>6, <2>2, <2>3, <2>5, <2>6 DEF AsksAgain
<1> QED
  BY <1>3, <1>4, <1>5, <1>6

LEMMA SyncIs ==
  ASSUME NEW w \in GwType, NEW r \in Syncers
  PROVE  LET on == SyncOn(w, r)
             off == SyncOff(w, r)
             Like(v) == /\ v \in GwType /\ v.wpc = w.wpc /\ v.kind = w.kind
                        /\ v.group = w.group /\ v.peek = w.peek /\ v.over = w.over
                        /\ v.progressed = w.progressed /\ v.shut = w.shut
                        /\ v.cache = w.cache
                        /\ \A x \in Callers : Flagged(v, x) = Flagged(w, x)
         IN  /\ Like(on) /\ on.syncing = w.syncing \cup {r} /\ on.asleep = w.asleep \cup {r}
             /\ Like(off) /\ off.syncing = w.syncing \ {r} /\ off.asleep = w.asleep \ {r}
<1> DEFINE on == SyncOn(w, r)
           off == SyncOff(w, r)
           Fields(v) == /\ v \in GwType /\ v.wpc = w.wpc /\ v.kind = w.kind
                        /\ v.group = w.group /\ v.peek = w.peek /\ v.over = w.over
                        /\ v.progressed = w.progressed /\ v.shut = w.shut
                        /\ v.cache = w.cache /\ v.need = w.need /\ v.any = w.any
                        /\ v.pool_need = w.pool_need /\ v.pool_any = w.pool_any
                        /\ v.ev_need = w.ev_need
<1>1. Fields(on) /\ on.syncing = w.syncing \cup {r} /\ on.asleep = w.asleep \cup {r}
  BY DEF SyncOn, GwType
<1>2. Fields(off) /\ off.syncing = w.syncing \ {r} /\ off.asleep = w.asleep \ {r}
  BY DEF SyncOff, GwType
<1> HIDE DEF on, off
<1>3. ASSUME NEW v, Fields(v), NEW x \in Callers
      PROVE  Flagged(v, x) = Flagged(w, x)
  BY <1>3 DEF Flagged
<1> QED
  BY <1>1, <1>2, <1>3 DEF on, off

\* A pool in which no task is done.
LEMMA DoneNothing ==
  ASSUME NEW s, NEW p, Ends(s, p) = {}, NEW w \in GwType, NEW v, WokenFrom(w, v),
         v.over = w.over, v.progressed = w.progressed
  PROVE  DoneFrom(s, w, p, v) /\ (v.cache = w.cache => Recycles(s, w, p, v))
BY DEF DoneFrom, Recycles, NotFor, AnyOf

\* No group that is used is another one, no throttle is switched.
Calm(s, p) ==
    /\ p.destroying = s.destroying /\ p.throttle_on = s.throttle_on
    /\ \A g \in Ids : s.entry[g].used # "free" =>
            p.entry[g].used = s.entry[g].used /\ p.entry[g].throttle = s.entry[g].throttle

LEMMA CalmKept ==
  ASSUME NEW s, NEW p
  PROVE  /\ SameGroups(s, p) => Calm(s, p)
         /\ Calm(s, p) => GroupsKept(s, p)
         /\ SameTasks(s, p) => Ends(s, p) = {}
         /\ \A g : SameOthers(s, p, g) /\ s.entry[g].used = "free" => Calm(s, p)
BY DEF SameGroups, Calm, GroupsKept, SameTasks, Ends, SameOthers

LEMMA HandsSame ==
  ASSUME NEW h
  PROVE  HandsKept(h, h)
BY DEF HandsKept

\* What x itself may do.
Mine(s, h, w, x) ==
    /\ w.wpc[x] # "out" =>
            /\ RequestSound(s, w, x) /\ x \notin w.syncing
            /\ x \in Users => h[x].q = <<>> /\ h[x].deleting = w.group[x]
    /\ x \in w.progressed => w.wpc[x] # "out" /\ w.kind[x] \in AnyKinds

LEMMA WaitMine ==
  ASSUME NEW s, NEW h, NEW w, WaitSound(s, h, w), NEW x \in Callers
  PROVE  Mine(s, h, w, x)
BY DEF WaitSound, Requests, Deletions, Mine

LEMMA ApartSound ==
  ASSUME NEW s, NEW h, NEW w, WaitSound(s, h, w), ~w.shut, NEW x \in Callers,
         NEW v, Apart(w, v, x), Mine(s, h, v, x)
  PROVE  WaitSound(s, h, v)
<1>1. v \in GwType /\ v.syncing = w.syncing /\ ~v.shut
  BY DEF Apart
<1>2. \A y \in Callers : v.wpc[y] # "out" => RequestSound(s, v, y)
  BY DEF WaitSound, Requests, Apart, RequestSound, Mine
<1>3. \A y \in v.progressed : v.wpc[y] # "out" /\ v.kind[y] \in AnyKinds
  <2> SUFFICES ASSUME NEW y \in v.progressed
               PROVE  v.wpc[y] # "out" /\ v.kind[y] \in AnyKinds
    OBVIOUS
  <2>1. y \in Callers
    BY <1>1 DEF GwType
  <2> QED
    BY <2>1 DEF WaitSound, Requests, Apart, Mine
<1>4. \A y \in v.syncing \cap Callers : v.wpc[y] = "out"
  BY <1>1 DEF WaitSound, Requests, Apart, Mine
<1>5. \A u \in Users : v.wpc[u] # "out" => h[u].q = <<>> /\ h[u].deleting = v.group[u]
  BY DEF WaitSound, Deletions, Apart, Mine, Callers
<1>6. Deletions(s, h, v)
  BY <1>5 DEF WaitSound, Deletions
<1> QED
  BY <1>1, <1>2, <1>3, <1>4, <1>6 DEF WaitSound, Requests

\* cond_sync is used, by those who do not wait otherwise.
LEMMA SyncOnSound ==
  ASSUME NEW s, NEW h, NEW w, WaitSound(s, h, w), NEW r \in Syncers,
         r \in Callers => w.wpc[r] = "out", NEW v \in {SyncOn(w, r), SyncOff(w, r)}
  PROVE  WaitSound(s, h, v)
<1>1. w \in GwType
  BY DEF WaitSound
<1>2. /\ v \in GwType /\ v.wpc = w.wpc /\ v.kind = w.kind
      /\ v.group = w.group /\ v.peek = w.peek /\ v.progressed = w.progressed
      /\ v.shut = w.shut /\ v.syncing \subseteq w.syncing \cup {r}
  BY <1>1, SyncIs
<1>3. SameRequests(w, v)
  BY <1>2 DEF SameRequests
<1>4. PoolRefs(v) = PoolRefs(w)
  BY <1>1, <1>2, <1>3, SameInside
<1>5. Requests(s, v)
  BY <1>2 DEF WaitSound, Requests, RequestSound
<1>6. Deletions(s, h, v)
  BY <1>2 DEF WaitSound, Deletions
<1> QED
  BY <1>2, <1>4, <1>5, <1>6 DEF WaitSound

-----------------------------------------------------------------------------
(***************************************************************************)
(* Steps of the pool                                                       *)
(***************************************************************************)

\* Whoever still waits for a throttle finds it on, as before.
ThrottlesKept(s, p, w, v) ==
    \A x \in Callers :
        (v.wpc[x] = "parked" /\ Flagged(w, x) /\ w.kind[x] \in ThrottleKinds) =>
            /\ (s.entry[w.group[x]].used # "free" /\ s.entry[w.group[x]].throttle) =>
                    p.entry[w.group[x]].throttle
            /\ s.throttle_on => p.throttle_on
            /\ p.destroying => s.destroying

\* The pool s becomes p, and w becomes v.
Passed(s, w, p, v) ==
    /\ DoneFrom(s, w, p, v) /\ Recycles(s, w, p, v)
    /\ GroupsKept(s, p) /\ ThrottlesKept(s, p, w, v)
    /\ p.gid = s.gid /\ \A t \in Tasks : s.stat[t] = "idle" => p.stat[t] = "idle"

LEMMA CalmThrottles ==
  ASSUME NEW s, NEW p, Calm(s, p), NEW w \in GwType, NEW v
  PROVE  ThrottlesKept(s, p, w, v)
<1>1. \A x \in Callers : w.group[x] \in Ids
  BY DEF GwType
<1> QED
  BY <1>1 DEF Calm, ThrottlesKept

LEMMA CalmPassed ==
  ASSUME NEW s, NEW p, SameTasks(s, p), Calm(s, p), NEW w \in GwType
  PROVE  Passed(s, w, p, w)
<1>1. Ends(s, p) = {} /\ GroupsKept(s, p) /\ ThrottlesKept(s, p, w, w)
  BY CalmKept, CalmThrottles
<1>2. WokenFrom(w, w)
  BY WokenTrans
<1>3. DoneFrom(s, w, p, w) /\ Recycles(s, w, p, w)
  BY <1>1, <1>2, DoneNothing
<1> QED
  BY <1>1, <1>3 DEF Passed, SameTasks

LEMMA QuietPassed ==
  ASSUME NEW s, NEW p, Quiet(s, p), NEW w \in GwType, NEW v, DoneFrom(s, w, p, v),
         Recycles(s, w, p, v)
  PROVE  Passed(s, w, p, v)
<1>1. GroupsKept(s, p) /\ ThrottlesKept(s, p, w, v)
  BY CalmKept, CalmThrottles DEF Quiet
<1> QED
  BY <1>1 DEF Passed, Quiet

LEMMA ThrottleTold ==
  ASSUME NEW s, NEW p, NEW w, NEW u, DoneFrom(s, w, p, u)
  PROVE  LET v == WakeThrottle(u)
         IN  /\ DoneFrom(s, w, p, v) /\ ThrottlesKept(s, p, w, v)
             /\ Recycles(s, w, p, u) => Recycles(s, w, p, v)
<1> DEFINE v == WakeThrottle(u)
<1>1. u \in GwType /\ WokenFrom(w, u)
  BY DEF DoneFrom, WokenFrom
<1>2. /\ WokenFrom(u, v) /\ SameRest(u, v)
      /\ \A x \in Callers : (v.wpc[x] = "parked" /\ Flagged(u, x)) =>
            u.kind[x] \notin ThrottleKinds
  BY <1>1, WakeThrottleIs
<1> HIDE DEF v
<1>3. DoneFrom(s, w, p, v) /\ (Recycles(s, w, p, u) => Recycles(s, w, p, v))
  BY <1>2, DoneThenWoken
<1>4. \A x \in Callers : (v.wpc[x] = "parked" /\ Flagged(w, x)) =>
            w.kind[x] \notin ThrottleKinds
  BY <1>1, <1>2 DEF WokenFrom, SameRequests
<1>5. ThrottlesKept(s, p, w, v)
  BY <1>4 DEF ThrottlesKept
<1> QED
  BY <1>3, <1>5 DEF v

LEMMA TaskStepPassed ==
  ASSUME Held(gp, run), WaitSound(gp, run, gw), TaskStep
  PROVE  /\ Passed(gp, gw, gp', gw') /\ Deletions(gp', run', gw)
         /\ HandsKept(run, run') /\ Calm(gp, gp')
<1>1. /\ gw \in GwType /\ Deletions(gp, run, gw) /\ run \in [Runners -> RunType]
      /\ gp' \in GpShape
  BY TaskStepHeld DEF WaitSound, Held, PoolSound
<1>2. Quiet(gp, gp') /\ HandsKept(run, run') /\ gw' = TasksDone
  BY <1>1, TaskStepQuiet
<1>3. DoneFrom(gp, gw, gp', gw') /\ Recycles(gp, gw, gp', gw')
  BY <1>1, <1>2, TasksDoneIs
<1>4. Passed(gp, gw, gp', gw') /\ Calm(gp, gp')
  BY <1>1, <1>2, <1>3, QuietPassed, CalmKept DEF Quiet
<1>5. Deletions(gp', run', gw)
  BY <1>1, <1>2, <1>4, DeletionsKept DEF Passed
<1> QED
  BY <1>2, <1>4, <1>5

LEMMA CalmStep ==
  ASSUME Held(gp, run), WaitSound(gp, run, gw), SameTasks(gp, gp'), Calm(gp, gp'),
         run' = run, gw' = gw
  PROVE  /\ Passed(gp, gw, gp', gw') /\ Deletions(gp', run', gw)
         /\ HandsKept(run, run')
<1>1. gw \in GwType /\ Deletions(gp, run, gw) /\ run \in [Runners -> RunType]
  BY DEF WaitSound, Held
<1>2. Passed(gp, gw, gp', gw) /\ GroupsKept(gp, gp') /\ HandsKept(run, run)
  BY <1>1, CalmPassed, CalmKept, HandsSame
<1>3. Deletions(gp', run, gw)
  BY <1>1, <1>2, DeletionsKept
<1> QED
  BY <1>2, <1>3

LEMMA OtherCallPassed ==
  ASSUME TRUE \notin Suspended, Held(gp, run), WaitSound(gp, run, gw), OtherCall
  PROVE  /\ Passed(gp, gw, gp', gw') /\ Deletions(gp', run', gw)
         /\ HandsKept(run, run') /\ Calm(gp, gp')
<1>1. gw' = gw
  BY DEF OtherCall
<1>2. run' = run
  BY DEF OtherCall, CreateGroup, SuspendGroup, ResumeGroup, SuspendAllGroups,
         ResumeAllGroups, SetAttributes, SetThreads
<1>3. SameTasks(gp, gp') /\ Calm(gp, gp')
  <2>1. ASSUME NEW g \in Ids, NEW suspend \in Suspended, CreateGroup(g, suspend)
        PROVE  SameTasks(gp, gp') /\ Calm(gp, gp')
    <3>1. suspend = FALSE
      BY GpAssumption
    <3>2. SameTasks(gp, gp') /\ SameOthers(gp, gp', g) /\ gp.entry[g].used = "free"
      BY <2>1, <3>1, CreateGroupHeld
    <3> QED
      BY <3>2, CalmKept
  <2>2. ASSUME NEW g \in Ids, SuspendGroup(g) \/ ResumeGroup(g)
        PROVE  SameTasks(gp, gp') /\ Calm(gp, gp')
    BY <2>2, SuspendGroupHeld, CalmKept
  <2>3. CASE SuspendAllGroups \/ ResumeAllGroups
    BY <2>3, SuspendAllHeld, CalmKept
  <2>4. ASSUME NEW g \in Ids, NEW attr \in Attrs, SetAttributes(g, attr)
        PROVE  SameTasks(gp, gp') /\ Calm(gp, gp')
    BY <2>4, SetAttributesHeld, CalmKept
  <2>5. ASSUME NEW max \in MaxThreads, SetThreads(max)
        PROVE  SameTasks(gp, gp') /\ Calm(gp, gp')
    BY <2>5, SetThreadsHeld, CalmKept
  <2> QED
    BY <2>1, <2>2, <2>3, <2>4, <2>5 DEF OtherCall
<1> QED
  BY <1>1, <1>2, <1>3, CalmStep

LEMMA ThrottleStep ==
  ASSUME Held(gp, run), WaitSound(gp, run, gw), SameTasks(gp, gp'),
         GroupsKept(gp, gp'), gp'.destroying = gp.destroying, NEW b \in BOOLEAN,
         \A g \in Ids : b /\ gp.entry[g].throttle => gp'.entry[g].throttle,
         b /\ gp.throttle_on => gp'.throttle_on,
         run' = run, gw' = IF b THEN gw ELSE WakeThrottle(gw)
  PROVE  /\ Passed(gp, gw, gp', gw') /\ Deletions(gp', run', gw)
         /\ HandsKept(run, run')
<1>1. gw \in GwType /\ Deletions(gp, run, gw) /\ run \in [Runners -> RunType]
  BY DEF WaitSound, Held
<1>2. HandsKept(run, run') /\ Deletions(gp', run', gw)
  BY <1>1, HandsSame, DeletionsKept
<1>3. Ends(gp, gp') = {} /\ WokenFrom(gw, gw)
  BY <1>1, CalmKept, WokenTrans
<1>4. DoneFrom(gp, gw, gp', gw) /\ Recycles(gp, gw, gp', gw)
  BY <1>1, <1>3, DoneNothing
<1>5. DoneFrom(gp, gw, gp', gw') /\ Recycles(gp, gw, gp', gw')
      /\ ThrottlesKept(gp, gp', gw, gw')
  <2>1. CASE b
    <3>1. \A x \in Callers : gw.group[x] \in Ids
      BY <1>1 DEF GwType
    <3>2. ThrottlesKept(gp, gp', gw, gw')
      BY <2>1, <3>1 DEF ThrottlesKept
    <3> QED
      BY <1>4, <2>1, <3>2
  <2>2. CASE ~b
    BY <1>4, <2>2, ThrottleTold
  <2> QED
    BY <2>1, <2>2
<1> QED
  BY <1>2, <1>5 DEF Passed, SameTasks

LEMMA SwitchPassed ==
  ASSUME Held(gp, run), WaitSound(gp, run, gw), NEW b \in BOOLEAN,
         PausePool(b) \/ ThrottlePool(b) \/ \E g \in Ids : ThrottleGroup(g, b)
  PROVE  /\ Passed(gp, gw, gp', gw') /\ Deletions(gp', run', gw)
         /\ HandsKept(run, run') /\ gp'.destroying = gp.destroying
<1>1. gp \in GpShape
  BY DEF Held, PoolSound
<1>2. CASE PausePool(b)
  <2>1. gp' = [gp EXCEPT !.paused = b] /\ run' = run /\ gw' = gw
    BY <1>2 DEF PausePool
  <2>2. SameTasks(gp, gp')
    BY <2>1, PauseHeld
  <2>3. Calm(gp, gp')
    BY <1>1, <2>1 DEF GpShape, Calm
  <2> QED
    BY <2>1, <2>2, <2>3, CalmStep DEF Calm
<1>3. CASE ThrottlePool(b)
  <2>1. /\ gp' = [gp EXCEPT !.throttle_on = b] /\ run' = run
        /\ gw' = IF b THEN gw ELSE WakeThrottle(gw)
    BY <1>3 DEF ThrottlePool
  <2>2. SameTasks(gp, gp')
    BY <2>1, PauseHeld
  <2>3. gp'.destroying = gp.destroying /\ gp'.entry = gp.entry /\ gp'.throttle_on = b
    BY <1>1, <2>1 DEF GpShape
  <2>4. GroupsKept(gp, gp')
    BY <2>3 DEF GroupsKept
  <2>5. gp.throttle_on \in BOOLEAN
    BY <1>1 DEF GpShape
  <2> QED
    BY <2>1, <2>2, <2>3, <2>4, <2>5, ThrottleStep
<1>4. ASSUME NEW g \in Ids, ThrottleGroup(g, b)
      PROVE  /\ Passed(gp, gw, gp', gw') /\ Deletions(gp', run', gw)
             /\ HandsKept(run, run') /\ gp'.destroying = gp.destroying
  <2>1. /\ gp' = [gp EXCEPT !.entry[g].throttle = b] /\ run' = run /\ IsValid(gp, g)
        /\ gw' = IF b THEN gw ELSE WakeThrottle(gw)
    BY <1>4 DEF ThrottleGroup
  <2>2. /\ SameTasks(gp, gp') /\ gp'.destroying = gp.destroying
        /\ gp'.throttle_on = gp.throttle_on
        /\ gp'.entry[g].used = gp.entry[g].used /\ gp'.entry[g].throttle = b
        /\ \A h \in Ids : h # g => gp'.entry[h] = gp.entry[h]
    BY <2>1, ThrottleHeld
  <2>3. GroupsKept(gp, gp')
    BY <2>2 DEF GroupsKept
  <2>4. \A h \in Ids : b /\ gp.entry[h].throttle => gp'.entry[h].throttle
    BY <2>2
  <2> QED
    BY <2>1, <2>2, <2>3, <2>4, ThrottleStep
<1> QED
  BY <1>2, <1>3, <1>4

LEMMA DeleteStartsPassed ==
  ASSUME Held(gp, run), WaitSound(gp, run, gw), NEW u \in Users, NEW g \in Ids,
         DeleteStarts(u, g)
  PROVE  /\ Passed(gp, gw, gp', gw') /\ Deletions(gp', run', gw)
         /\ gp'.destroying = gp.destroying
         /\ run[u].deleting = NoGroup /\ run[u].leaving = NoTask /\ u \in Runners
         /\ run'[u].leaving = NoTask /\ run'[u].deleting = g
         /\ \A r \in Runners : r # u => run'[r] = run[r]
<1> DEFINE s == Deleting(gp, g)
<1>1. /\ gw \in GwType /\ Deletions(gp, run, gw) /\ run \in [Runners -> RunType]
      /\ PoolSound(gp) /\ u \in Runners
  BY DEF WaitSound, Held, Runners
<1>2. DeleteGroup(u, g) /\ gw' = WakeThrottle(TasksDone)
  BY DEF DeleteStarts
<1>3. IdleUser(u) /\ IsValid(gp, g) /\ gp.entry[g].used = "valid"
  BY <1>2 DEF DeleteGroup, IsValid
<1>4. Held(gp', run') /\ MarkedFrom(s, gp', Traced(gp, g), FALSE)
  BY <1>2, DeleteGroupHeld
<1>5. /\ SameTasks(gp, s) /\ SameOthers(gp, s, g) /\ s.entry[g].used = "destroying"
  BY <1>1, <1>3, DeletingKeeps
<1> HIDE DEF s
<1>6. /\ run' = [run EXCEPT ![u].deleting = g, ![u].q = Rmq(Traced(gp, g))]
  BY <1>2 DEF DeleteGroup
<1>7. /\ \A r \in Runners : r # u => run'[r] = run[r]
      /\ run'[u].deleting = g /\ run'[u].leaving = run[u].leaving
  BY <1>1, <1>6 DEF RunType
<1>8. run[u].deleting = NoGroup /\ run[u].leaving = NoTask
  BY <1>1, <1>3, IdleStays DEF IdleUser
<1>9. /\ gp'.entry[g].used = "destroying" /\ gp'.gid = gp.gid
      /\ gp'.destroying = gp.destroying
      /\ \A h \in Ids : h # g => gp'.entry[h].used = gp.entry[h].used
      /\ \A t \in Tasks : gp.stat[t] = "idle" => gp'.stat[t] = "idle"
  BY <1>4, <1>5 DEF MarkedFrom, SameTasks, SameOthers, SameGroups
<1>10. GroupsKept(gp, gp')
  BY <1>3, <1>9 DEF GroupsKept
<1>11. gp' \in GpShape
  BY <1>4 DEF Held, PoolSound
<1>12. DoneFrom(gp, gw, gp', TasksDone) /\ Recycles(gp, gw, gp', TasksDone)
  BY <1>1, <1>11, TasksDoneIs
<1>13. /\ DoneFrom(gp, gw, gp', gw') /\ Recycles(gp, gw, gp', gw')
       /\ ThrottlesKept(gp, gp', gw, gw')
  BY <1>2, <1>12, ThrottleTold
<1>14. Passed(gp, gw, gp', gw')
  BY <1>9, <1>10, <1>13 DEF Passed
<1>15. Deletions(gp', run', gw)
  <2>1. \A r \in Runners : run'[r].deleting # NoGroup =>
            r \in Users /\ gp'.entry[run'[r].deleting].used = "destroying"
    <3> SUFFICES ASSUME NEW r \in Runners, run'[r].deleting # NoGroup
                 PROVE  r \in Users /\ gp'.entry[run'[r].deleting].used = "destroying"
      OBVIOUS
    <3>1. CASE r = u
      BY <1>7, <1>9, <3>1
    <3>2. CASE r # u
      <4>1. run'[r] = run[r] /\ run[r].deleting \in Ids
        BY <1>1, <1>7, <3>2 DEF RunType
      <4> QED
        BY <1>1, <1>10, <4>1 DEF Deletions, GroupsKept
    <3> QED
      BY <3>1, <3>2
  <2>2. \A r \in Runners : r # u => run[r].deleting # g
    <3>1. g # NoGroup
      BY GpAssumption DEF Ids, NoGroup
    <3> QED
      BY <1>1, <1>3, <3>1 DEF Deletions
  <2>3. \A r1, r2 \in Runners :
            (run'[r1].deleting # NoGroup /\ run'[r1].deleting = run'[r2].deleting)
                => r1 = r2
    BY <1>1, <1>7, <2>2 DEF Deletions
  <2>4. gw.wpc[u] = "out"
    <3>1. gw.wpc[u] # "out" => run[u].deleting = gw.group[u] /\ gw.group[u] \in Ids
      BY <1>1 DEF Deletions, GwType, Callers
    <3>2. NoGroup \notin Ids
      BY GpAssumption DEF Ids, NoGroup
    <3> QED
      BY <1>8, <3>1, <3>2
  <2>5. \A v \in Users : gw.wpc[v] # "out" =>
            run'[v].q = <<>> /\ run'[v].deleting = gw.group[v]
    BY <1>1, <1>7, <2>4 DEF Deletions, Runners
  <2> QED
    BY <2>1, <2>3, <2>5 DEF Deletions
<1> QED
  BY <1>1, <1>7, <1>8, <1>9, <1>14, <1>15

LEMMA ReleasePassed ==
  ASSUME Held(gp, run), WaitSound(gp, run, gw), ReleasePool
  PROVE  /\ Passed(gp, gw, gp', gw') /\ Deletions(gp', run', gw) /\ run' = run
         /\ "release" \in Careful =>
                /\ \A r \in Runners : run[r].deleting = NoGroup
                /\ Inside(gw, GroupKinds) = {}
<1>1. /\ gw \in GwType /\ Deletions(gp, run, gw) /\ run \in [Runners -> RunType]
  BY DEF WaitSound, Held
<1>2. gw' = WakeThrottle(TasksDone)
  BY DEF ReleasePool
<1>3. /\ Held(gp', run') /\ run' = run /\ gp'.gid = gp.gid
      /\ \A g \in Ids : gp'.entry[g].used = gp.entry[g].used
      /\ \A t \in Tasks : gp.stat[t] = "idle" => gp'.stat[t] = "idle"
  BY ReleasePoolHeld
<1>4. GroupsKept(gp, gp') /\ gp' \in GpShape
  BY <1>3 DEF GroupsKept, Held, PoolSound
<1>5. DoneFrom(gp, gw, gp', TasksDone) /\ Recycles(gp, gw, gp', TasksDone)
  BY <1>1, <1>4, TasksDoneIs
<1>6. /\ DoneFrom(gp, gw, gp', gw') /\ Recycles(gp, gw, gp', gw')
      /\ ThrottlesKept(gp, gp', gw, gw')
  BY <1>2, <1>5, ThrottleTold
<1>7. Passed(gp, gw, gp', gw')
  BY <1>3, <1>4, <1>6 DEF Passed
<1>8. Deletions(gp', run', gw)
  BY <1>1, <1>3, <1>4, HandsSame, DeletionsKept
<1>9. ASSUME "release" \in Careful
      PROVE  /\ \A r \in Runners : run[r].deleting = NoGroup
             /\ Inside(gw, GroupKinds) = {}
  <2>1. \A u \in Users : run[u].deleting = NoGroup
    BY <1>9 DEF ReleasePool, IdleUser
  <2>2. \A r \in Runners : run[r].deleting # NoGroup => r \in Users
    BY <1>1 DEF Deletions
  <2>3. Inside(gw, GroupKinds) = {}
    BY <1>9 DEF ReleasePool, GroupKinds
  <2> QED
    BY <2>1, <2>2, <2>3
<1> QED
  BY <1>3, <1>7, <1>8, <1>9

LEMMA NotCaller ==
  ASSUME NEW s, NEW h, NEW w, WaitSound(s, h, w), NEW r \in Runners, h[r].q # <<>>
  PROVE  r \in Callers => w.wpc[r] = "out"
<1>1. r \in Callers => r \in Users
  BY GpWaitAssumption DEF Callers
<1> QED
  BY <1>1 DEF WaitSound, Deletions

LEMMA DetachPassed ==
  ASSUME Held(gp, run), WaitSound(gp, run, gw), NEW r \in Runners, Detach(r)
  PROVE  LET t == run[r].q[1]
         IN  /\ Passed(gp, gw, gp', TasksDone) /\ Deletions(gp', run', gw)
             /\ Calm(gp, gp') /\ t \in Tasks
             /\ \/ gw' = TasksDone /\ Refs(gw, t) = {}
                \/ gw' = SyncOn(TasksDone, r) /\ Refs(gw, t) # {}
             /\ \A x \in Runners : /\ run'[x].q = run[x].q
                                   /\ run'[x].deleting = run[x].deleting
                                   /\ x # r => run'[x] = run[x]
             /\ run'[r].leaving = t /\ run'[r].detached
             /\ r \in Callers => gw.wpc[r] = "out"
             /\ run[r].q # <<>>
<1> DEFINE t == run[r].q[1]
<1>1. /\ gw \in GwType /\ Deletions(gp, run, gw) /\ run \in [Runners -> RunType]
      /\ gp \in GpShape
  BY DEF WaitSound, Held, PoolSound
<1>2. /\ Held(gp', run') /\ SameGroups(gp, gp') /\ gp'.gid = gp.gid
      /\ t \in Tasks /\ gp'.stat = [gp.stat EXCEPT ![t] = "idle"]
      /\ run' = [run EXCEPT ![r].detached = TRUE, ![r].leaving = t]
  BY DetachHeld
<1>3. run[r].q # <<>> /\ gw' = IF Refs(gw, t) = {} THEN TasksDone ELSE SyncOn(TasksDone, r)
  BY DEF Detach
<1> HIDE DEF t
<1>4. gp' \in GpShape /\ gp.stat \in [Tasks -> TaskStats]
  BY <1>1, <1>2 DEF Held, PoolSound, GpShape
<1>5. Quiet(gp, gp')
  BY <1>2, <1>4 DEF Quiet
<1>6. DoneFrom(gp, gw, gp', TasksDone) /\ Recycles(gp, gw, gp', TasksDone)
  BY <1>1, <1>4, TasksDoneIs
<1>7. Passed(gp, gw, gp', TasksDone) /\ Calm(gp, gp')
  BY <1>1, <1>2, <1>5, <1>6, QuietPassed, CalmKept
<1>8. /\ \A x \in Runners : /\ run'[x].q = run[x].q
                            /\ run'[x].deleting = run[x].deleting
                            /\ x # r => run'[x] = run[x]
      /\ run'[r].leaving = t /\ run'[r].detached
  BY <1>1, <1>2 DEF RunType
<1>9. Deletions(gp', run', gw)
  <2>1. \A x \in Runners : run[x].deleting \in Ids \cup {NoGroup}
    BY <1>1 DEF RunType
  <2> QED
    BY <1>1, <1>7, <1>8, <2>1 DEF Deletions, Passed, GroupsKept, Runners
<1>10. r \in Callers => gw.wpc[r] = "out"
  BY <1>3, NotCaller
<1> QED
  BY <1>2, <1>3, <1>7, <1>8, <1>9, <1>10 DEF t

LEMMA DetachReturnsPassed ==
  ASSUME Held(gp, run), WaitSound(gp, run, gw), NEW r \in Runners, DetachReturns(r)
  PROVE  /\ Passed(gp, gw, gp', gw') /\ Deletions(gp', run', gw) /\ Calm(gp, gp')
         /\ gw' = gw /\ r \notin gw.syncing
         /\ \A x \in Runners : /\ run'[x].q = run[x].q
                               /\ run'[x].deleting = run[x].deleting
                               /\ x # r => run'[x] = run[x]
         /\ run'[r].leaving = NoTask
<1>1. /\ gw \in GwType /\ Deletions(gp, run, gw) /\ run \in [Runners -> RunType]
  BY DEF WaitSound, Held
<1>2. /\ SameTasks(gp, gp') /\ SameGroups(gp, gp')
      /\ run' = [run EXCEPT ![r].leaving = NoTask]
  BY DetachReturnsHeld
<1>3. gw' = gw /\ r \notin gw.syncing
  BY DEF DetachReturns
<1>4. Calm(gp, gp')
  BY <1>2, CalmKept
<1>5. Passed(gp, gw, gp', gw')
  BY <1>1, <1>2, <1>3, <1>4, CalmPassed
<1>6. /\ \A x \in Runners : /\ run'[x].q = run[x].q
                            /\ run'[x].deleting = run[x].deleting
                            /\ x # r => run'[x] = run[x]
      /\ run'[r].leaving = NoTask
  BY <1>1, <1>2 DEF RunType
<1>7. Deletions(gp', run', gw)
  <2>1. \A x \in Runners : run[x].deleting \in Ids \cup {NoGroup}
    BY <1>1 DEF RunType
  <2> QED
    BY <1>1, <1>5, <1>6, <2>1 DEF Deletions, Passed, GroupsKept, Runners
<1> QED
  BY <1>3, <1>4, <1>5, <1>6, <1>7

LEMMA QueueStepPassed ==
  ASSUME Held(gp, run), WaitSound(gp, run, gw), QueueStep
  PROVE  \E t \in Tasks, g \in Ids :
            /\ DoneFrom(gp, gw, gp', gw') /\ Deletions(gp', run', gw) /\ run' = run
            /\ Calm(gp, gp') /\ Ends(gp, gp') = {}
            /\ gw'.cache = gw.cache \ {t} /\ gw'.wpc = gw.wpc
            /\ SameRequests(gw, gw') /\ QueuedFrom(gp, gp', t, g)
            /\ "move" \in Careful /\ g # gp.gid[t] => Refs(gw, t) = {}
            /\ (gp.stat[t] = "idle" /\ t \in Cached) => t \in gw.cache
<1>1. PICK t \in Tasks, g \in Ids :
        /\ Queue(t, g)
        /\ gp.stat[t] = "idle" /\ t \in Cached => t \in gw.cache
        /\ "move" \in Careful /\ g # gp.gid[t] => Refs(gw, t) = {}
        /\ gw' = [gw EXCEPT !.cache = @ \ {t}]
  BY DEF QueueStep
<1>2. /\ gw \in GwType /\ Deletions(gp, run, gw) /\ run \in [Runners -> RunType]
  BY DEF WaitSound, Held
<1>3. run' = run /\ QueuedFrom(gp, gp', t, g)
  BY <1>1, QueueHeld
<1>4. Calm(gp, gp') /\ GroupsKept(gp, gp')
  BY <1>3, CalmKept DEF QueuedFrom
<1>5. Deletions(gp', run', gw)
  BY <1>2, <1>3, <1>4, HandsSame, DeletionsKept
<1>6. Ends(gp, gp') = {}
  BY <1>3 DEF QueuedFrom, Ends
<1> DEFINE c == gw.cache \ {t}
<1>7. c \in SUBSET Cached /\ gw' = [gw EXCEPT !.cache = c]
  BY <1>1, <1>2 DEF GwType
<1> HIDE DEF c
<1>8. /\ gw' \in GwType /\ gw'.cache = c /\ gw'.wpc = gw.wpc /\ gw'.kind = gw.kind
      /\ gw'.group = gw.group /\ gw'.peek = gw.peek /\ gw'.over = gw.over
      /\ gw'.progressed = gw.progressed /\ gw'.need = gw.need /\ gw'.any = gw.any
      /\ gw'.pool_need = gw.pool_need /\ gw'.pool_any = gw.pool_any
      /\ gw'.ev_need = gw.ev_need /\ gw'.syncing = gw.syncing
      /\ gw'.asleep = gw.asleep /\ gw'.shut = gw.shut
  BY <1>2, <1>7 DEF GwType
<1>9. WokenFrom(gw, gw')
  BY <1>8 DEF WokenFrom, SameRequests, Flagged
<1>10. DoneFrom(gp, gw, gp', gw')
  BY <1>2, <1>6, <1>8, <1>9, DoneNothing
<1>11. SameRequests(gw, gw') /\ gw'.cache = gw.cache \ {t}
  BY <1>8, <1>9 DEF WokenFrom, c
<1> QED
  BY <1>1, <1>3, <1>4, <1>5, <1>6, <1>8, <1>10, <1>11

-----------------------------------------------------------------------------
(***************************************************************************)
(* Callers that begin to wait                                              *)
(***************************************************************************)

\* What x asks for can be asked for, and is not there.
Open(s, w, x) ==
    /\ RequestSound(s, w, x) /\ Unmet(s, w, x)
    /\ w.kind[x] \in TaskKinds => w.group[x] = s.gid[w.peek[x]]

Begins(s, w, v, x) ==
    /\ Apart(w, v, x) /\ w.wpc[x] = "out" /\ x \notin w.syncing
    /\ v.wpc[x] = "parked" /\ Flagged(v, x) /\ x \notin v.over
    /\ v.progressed = w.progressed /\ v.asleep = w.asleep /\ v.cache = w.cache
    /\ Open(s, v, x)

LEMMA OpenSame ==
  ASSUME NEW s, NEW w, NEW v, NEW x, SameAsked(w, v, x), v.progressed = w.progressed,
         Open(s, w, x)
  PROVE  Open(s, v, x)
BY DEF SameAsked, Open, RequestSound, Unmet

LEMMA ParkBegins ==
  ASSUME gw \in GwType, NEW x \in Callers, Idle(x), NEW w, Asks(gw, w, x),
         NEW s, Open(s, w, x)
  PROVE  Begins(s, gw, Park(w, x), x)
<1> DEFINE v == Park(w, x)
<1>1. w \in GwType /\ Apart(gw, w, x) /\ w.asleep = gw.asleep /\ w.cache = gw.cache
      /\ w.progressed = gw.progressed
  BY DEF Asks, Apart
<1>2. /\ Apart(w, v, x) /\ SameAsked(w, v, x) /\ v.wpc[x] = "parked"
      /\ Flagged(v, x) /\ x \notin v.over /\ v.progressed = w.progressed
      /\ v.asleep = w.asleep /\ v.cache = w.cache
  BY <1>1, ParkIs
<1> HIDE DEF v
<1>3. Apart(gw, v, x)
  BY <1>1, <1>2, ApartTrans
<1>4. Open(s, v, x)
  BY <1>2, OpenSame
<1> QED
  BY <1>1, <1>2, <1>3, <1>4 DEF Begins, Idle, v

\* A task that is traced has a group that is used.
LEMMA TaskOpen ==
  ASSUME NEW s, PoolSound(s), NEW w, NEW x \in Waiters, NEW t \in Tasks,
         s.stat[t] # "idle", w.kind[x] \in TaskKinds, w.kind[x] \in Kinds,
         w.peek[x] = t, w.group[x] = s.gid[t]
  PROVE  Open(s, w, x)
<1>1. s.entry[s.gid[t]].used # "free"
  BY DEF PoolSound, TaskSound
<1>2. x \notin Users
  BY GpWaitAssumption DEF Runners
<1>3. w.kind[x] \notin {"group_all", "delete"} /\ w.kind[x] \notin AnyKinds
      /\ w.kind[x] # "pool_all" /\ w.kind[x] \notin ThrottleKinds
      /\ w.kind[x] # "group_throttle" /\ w.kind[x] # "pool_throttle"
  BY DEF TaskKinds, AnyKinds, ThrottleKinds
<1>4. RequestSound(s, w, x)
  BY <1>1, <1>2 DEF RequestSound
<1>5. Unmet(s, w, x)
  BY <1>3 DEF Unmet
<1> QED
  BY <1>4, <1>5 DEF Open

LEMMA WaitTaskBegins ==
  ASSUME Held(gp, run), WaitSound(gp, run, gw), NEW x \in Waiters, WaitTask(x)
  PROVE  Begins(gp, gw, gw', x) /\ ("release" \in Careful => ~gp.destroying)
<1>1. /\ gw \in GwType /\ PoolSound(gp) /\ gp \in GpShape /\ x \in Callers
      /\ 0 \in Ids
  BY GpAssumption DEF WaitSound, Held, PoolSound, Callers, Ids
<1>2. /\ Idle(x) /\ "task" \in Kinds /\ ("release" \in Careful => ~gp.destroying)
  BY DEF WaitTask, Registers
<1>3. PICK t \in AllTraced(gp) \ Cached :
        gw' = Park(Peek(Request(x, "task", 0), x, t), x)
  BY DEF WaitTask
<1>4. t \in Tasks /\ gp.stat[t] # "idle"
  BY DEF AllTraced
<1> DEFINE r == Request(x, "task", 0)
           w == Peek(r, x, t)
<1>5. Asks(gw, r, x) /\ r.kind[x] = "task" /\ r \in GwType
  <2>1. "task" \in AllKinds \cup {"delete"}
    BY <1>2, GpWaitAssumption
  <2> QED
    BY <1>1, <2>1, RequestIs DEF Asks, Apart
<1> HIDE DEF r
<1>6. /\ Asks(r, w, x) /\ w.kind = r.kind /\ w.group[x] = gp.gid[t] /\ w.peek[x] = t
  BY <1>1, <1>4, <1>5, PeekIs
<1>7. gw' = Park(w, x)
  BY <1>3 DEF r
<1> HIDE DEF w
<1>8. Asks(gw, w, x)
  BY <1>5, <1>6, AsksTrans
<1>9. Open(gp, w, x)
  <2>1. w.kind[x] \in TaskKinds /\ w.kind[x] \in Kinds
    BY <1>2, <1>5, <1>6 DEF TaskKinds
  <2> QED
    BY <1>1, <1>4, <1>6, <2>1, TaskOpen
<1> QED
  BY <1>1, <1>2, <1>7, <1>8, <1>9, ParkBegins

\* Requests that are not for a task.
LEMMA RequestBegins ==
  ASSUME gw \in GwType, NEW x \in Callers, Idle(x), NEW k \in AllKinds \cup {"delete"},
         NEW g \in Ids, k \notin TaskKinds, NEW s,
         x \in Users => k = "delete", x \in Waiters => k \in Kinds,
         k \in GroupKinds => s.entry[g].used # "free",
         k \in {"group_all", "delete"} => Traced(s, g) # {},
         k = "pool_all" => AllTraced(s) # {},
         k = "group_throttle" => s.entry[g].throttle,
         k = "pool_throttle" => s.throttle_on,
         k \in ThrottleKinds => ~s.destroying,
         x \notin gw.progressed, gw' = Park(Request(x, k, g), x)
  PROVE  Begins(s, gw, gw', x) /\ gw'.group[x] = g /\ gw'.kind[x] = k
<1> DEFINE r == Request(x, k, g)
<1>1. /\ Asks(gw, r, x) /\ r.kind[x] = k /\ r.group[x] = g /\ r.peek[x] = NoTask
  BY RequestIs
<1>2. gw' = Park(r, x)
  OBVIOUS
<1> HIDE DEF r
<1>3. r.progressed = gw.progressed /\ r \in GwType
  BY <1>1 DEF Asks, Apart
<1>4. RequestSound(s, r, x)
  BY <1>1 DEF RequestSound
<1>5. k \notin {"task", "suspend"}
  BY DEF TaskKinds
<1>6. Unmet(s, r, x)
  BY <1>1, <1>3, <1>5 DEF Unmet
<1>7. Open(s, r, x)
  BY <1>1, <1>4, <1>6 DEF Open
<1>8. Begins(s, gw, gw', x)
  BY <1>1, <1>2, <1>7, ParkBegins
<1>9. SameAsked(r, gw', x)
  BY <1>2, <1>3, ParkIs
<1> QED
  BY <1>1, <1>8, <1>9 DEF SameAsked

LEMMA WaitTasksBegins ==
  ASSUME Held(gp, run), WaitSound(gp, run, gw), NEW x \in Waiters, WaitTasks(x)
  PROVE  Begins(gp, gw, gw', x) /\ ("release" \in Careful => ~gp.destroying)
<1>1. PICK k \in {"group_all", "group_any"} \cup PoolKinds, g \in Ids :
        /\ Registers(x, k)
        /\ IF k \in PoolKinds THEN g = 0 ELSE g < gp.num /\ gp.entry[g].used # "free"
        /\ k = "group_all" => Traced(gp, g) # {}
        /\ "delete" \in Careful /\ k = "group_any" => IsValid(gp, g)
        /\ k = "pool_all" => AllTraced(gp) # {}
        /\ gw' = Park(Request(x, k, g), x)
  BY DEF WaitTasks
<1>2. /\ gw \in GwType /\ x \in Callers /\ x \notin Users /\ x \notin gw.progressed
  BY <1>1, GpWaitAssumption DEF WaitSound, Requests, Callers, Runners, Registers, Idle
<1>3. /\ Idle(x) /\ k \in Kinds /\ ("release" \in Careful => ~gp.destroying)
  BY <1>1 DEF Registers
<1>4. k \in AllKinds \cup {"delete"}
  BY <1>3, GpWaitAssumption
<1>5. k \in {"group_all", "group_any", "pool_all", "pool_any"}
  BY <1>1 DEF PoolKinds
<1>6. k \notin TaskKinds /\ k \notin ThrottleKinds /\ (k \in PoolKinds => k \notin GroupKinds)
  BY <1>5 DEF TaskKinds, ThrottleKinds, PoolKinds, GroupKinds, EntryTaskKinds
<1>7. k # "delete" /\ k # "group_throttle" /\ k # "pool_throttle"
  BY <1>5
<1> QED
  BY <1>1, <1>2, <1>3, <1>4, <1>6, <1>7, RequestBegins

LEMMA WaitThrottleBegins ==
  ASSUME Held(gp, run), WaitSound(gp, run, gw), NEW x \in Waiters, WaitThrottle(x)
  PROVE  Begins(gp, gw, gw', x) /\ ~gp.destroying
<1>1. /\ gw \in GwType /\ x \in Callers /\ x \notin Users /\ ~gp.destroying /\ 0 \in Ids
  BY GpWaitAssumption, GpAssumption
     DEF WaitSound, Callers, Runners, WaitThrottle, Ids
<1>2. CASE /\ Registers(x, "pool_throttle") /\ gp.throttle_on
           /\ gw' = Park(Request(x, "pool_throttle", 0), x)
  <2>1. Idle(x) /\ "pool_throttle" \in Kinds /\ x \notin gw.progressed
    BY <1>2 DEF Registers, Idle, WaitSound, Requests
  <2>2. "pool_throttle" \in AllKinds \cup {"delete"}
    BY <2>1, GpWaitAssumption
  <2>3. "pool_throttle" \notin TaskKinds /\ "pool_throttle" \notin GroupKinds
    BY DEF TaskKinds, GroupKinds, EntryTaskKinds
  <2> QED
    BY <1>1, <1>2, <2>1, <2>2, <2>3, RequestBegins
<1>3. ASSUME Registers(x, "group_throttle"), NEW g \in Valid(gp), gp.entry[g].throttle,
             gw' = Park(Request(x, "group_throttle", g), x)
      PROVE  Begins(gp, gw, gw', x)
  <2>1. Idle(x) /\ "group_throttle" \in Kinds /\ x \notin gw.progressed
    BY <1>3 DEF Registers, Idle, WaitSound, Requests
  <2>2. "group_throttle" \in AllKinds \cup {"delete"}
    BY <2>1, GpWaitAssumption
  <2>3. "group_throttle" \notin TaskKinds /\ g \in Ids /\ gp.entry[g].used # "free"
    BY DEF TaskKinds, Valid, IsValid
  <2> QED
    BY <1>1, <1>3, <2>1, <2>2, <2>3, RequestBegins
<1> QED
  BY <1>1, <1>2, <1>3 DEF WaitThrottle

LEMMA SuspendWaitsBegins ==
  ASSUME Held(gp, run), WaitSound(gp, run, gw), NEW x \in Waiters, SuspendWaits(x)
  PROVE  /\ Begins(gp', gw, gw', x) /\ ~gp.destroying /\ run' = run
         /\ SameTasks(gp, gp') /\ Calm(gp, gp') /\ Held(gp', run)
<1>1. /\ gw \in GwType /\ x \in Callers /\ ~gp.destroying /\ 0 \in Ids /\ run' = run
      /\ gp \in GpShape /\ PoolSound(gp)
  BY GpAssumption DEF WaitSound, Callers, SuspendWaits, Ids, Held, PoolSound
<1>2. Held(gp', run') /\ SameTasks(gp, gp')
  BY SuspendWaitsHeld
<1>3. ASSUME NEW k \in {"suspend", "group_cb"}, Registers(x, k), NEW g \in Ids,
             NEW G \in SUBSET Ids,
             NEW v \in Peeked(Request(x, k, g), x, G), gw' = Park(v, x)
      PROVE  Begins(gp', gw, gw', x)
  <2> DEFINE r == Request(x, k, g)
  <2>1. PICK t \in Busy(gp, G) : v = Peek(r, x, t)
    BY <1>3 DEF Peeked
  <2>2. t \in Tasks /\ gp.stat[t] # "idle"
    BY DEF Busy
  <2>3. Idle(x) /\ k \in Kinds /\ k \in AllKinds \cup {"delete"}
    BY <1>3, GpWaitAssumption DEF Registers
  <2>4. Asks(gw, r, x) /\ r.kind[x] = k /\ r \in GwType
    BY <1>1, <2>3, RequestIs DEF Asks, Apart
  <2> HIDE DEF r
  <2>5. /\ Asks(r, v, x) /\ v.kind = r.kind /\ v.group[x] = gp.gid[t] /\ v.peek[x] = t
    BY <1>1, <2>1, <2>2, <2>4, PeekIs
  <2>6. Asks(gw, v, x)
    BY <2>4, <2>5, AsksTrans
  <2>7. Open(gp', v, x)
    <3>1. v.kind[x] \in TaskKinds /\ v.kind[x] \in Kinds
      BY <1>3, <2>3, <2>4, <2>5 DEF TaskKinds
    <3>2. PoolSound(gp') /\ gp'.stat[t] # "idle" /\ gp'.gid = gp.gid
      BY <1>2, <2>2 DEF SameTasks, Held
    <3> QED
      BY <2>2, <2>5, <3>1, <3>2, TaskOpen
  <2> QED
    BY <1>1, <1>3, <2>3, <2>6, <2>7, ParkBegins
<1>4. CASE /\ Registers(x, "suspend")
           /\ gp' = [gp EXCEPT !.paused = TRUE]
           /\ \E v \in Peeked(Request(x, "suspend", 0), x, Ids) : gw' = Park(v, x)
  <2>1. Calm(gp, gp')
    BY <1>1, <1>4 DEF GpShape, Calm
  <2>2. Begins(gp', gw, gw', x)
    BY <1>1, <1>3, <1>4
  <2> QED
    BY <1>1, <1>2, <2>1, <2>2
<1>5. ASSUME NEW g \in Valid(gp), Registers(x, "group_cb"), gp' = SuspendedGroup(gp, g),
             \E v \in Peeked(Request(x, "group_cb", g), x, {g}) : gw' = Park(v, x)
      PROVE  Begins(gp', gw, gw', x) /\ Calm(gp, gp')
  <2>1. g \in Ids /\ IsValid(gp, g)
    BY DEF Valid
  <2>2. Calm(gp, gp')
    BY <1>1, <1>5, <2>1, SuspendedKeeps, CalmKept
  <2>3. Begins(gp', gw, gw', x)
    BY <1>3, <1>5, <2>1
  <2> QED
    BY <2>2, <2>3
<1> QED
  BY <1>1, <1>2, <1>4, <1>5 DEF SuspendWaits

-----------------------------------------------------------------------------
(***************************************************************************)
(* Callers that wake up                                                    *)
(***************************************************************************)

\* x has left the registry.
Left(w, v, x) ==
    /\ Apart(w, v, x) /\ SameAsked(w, v, x) /\ v.wpc[x] = "out"
    /\ v.over = w.over /\ v.progressed = w.progressed
    /\ v.asleep = {} \/ Unsaid(w, x, v)

\* It waits on.
Stays(s, w, v, x) ==
    /\ Apart(w, v, x) /\ v.wpc[x] = "parked" /\ Flagged(v, x) /\ x \notin v.over
    /\ v.progressed = w.progressed /\ v.asleep = w.asleep /\ v.cache = w.cache
    /\ RequestSound(s, v, x) /\ Unmet(s, v, x) /\ v.kind[x] = w.kind[x]
    /\ \/ SameAsked(w, v, x)
       \/ v.kind[x] \in {"suspend", "group_cb"} /\ v.group[x] = s.gid[v.peek[x]]

\* It returns.
Leaves(w, v, x) ==
    /\ Apart(w, v, x) /\ v.wpc[x] = "out" /\ x \notin v.progressed /\ x \notin v.over
    /\ v.progressed = w.progressed \ {x} /\ v.asleep = w.asleep /\ v.cache = w.cache

LEMMA UnsaidSame ==
  ASSUME NEW w, NEW x, NEW u \in GwType, NEW v \in GwType, Unsaid(w, x, u),
         SameRequests(u, v), v.asleep = u.asleep
  PROVE  Unsaid(w, x, v)
<1>1. /\ \A t : Refs(v, t) = Refs(u, t) /\ \A g : GroupRefs(v, g) = GroupRefs(u, g)
      /\ PoolRefs(v) = PoolRefs(u)
  BY SameInside
<1> QED
  BY <1>1 DEF Unsaid

LEMMA UnregisteredLeft ==
  ASSUME NEW w \in GwType, NEW x \in Callers
  PROVE  LET v == Unregistered(w, x)
         IN  Left(w, v, x) /\ v \in GwType /\ v.cache = w.cache
BY UnregisteredIs DEF Left, Apart

\* The objects in the cache when x has left.
LeftCache(s, w, v, x) ==
    v.cache = w.cache \cup
        {t \in {w.peek[x]} \cap Cached : s.stat[t] = "idle" /\ Refs(v, t) = {}}

LEMMA TurnLeft ==
  ASSUME NEW w \in GwType, NEW x \in Callers
  PROVE  LET v == Collected(Unregistered(w, x), x)
         IN  Left(w, v, x) /\ LeftCache(gp, w, v, x) /\ v \in GwType
<1> DEFINE u == Unregistered(w, x)
           v == Collected(u, x)
<1>1. Left(w, u, x) /\ u \in GwType /\ u.cache = w.cache
  BY UnregisteredLeft
<1> HIDE DEF u
<1>2. /\ Apart(u, v, x) /\ SameAsked(u, v, x) /\ v.wpc = u.wpc
      /\ v.over = u.over /\ v.progressed = u.progressed
      /\ v.asleep = u.asleep /\ SameRequests(u, v)
      /\ v.cache = u.cache \cup
             {t \in {u.peek[x]} \cap Cached : gp.stat[t] = "idle" /\ Refs(u, t) = {}}
  BY <1>1, CollectedIs
<1> HIDE DEF v
<1>3. Apart(w, v, x) /\ v \in GwType
  BY <1>1, <1>2, ApartTrans DEF Left, Apart
<1>4. \A t : Refs(v, t) = Refs(u, t)
  BY <1>1, <1>2, <1>3, SameInside
<1>5. u.peek[x] = w.peek[x]
  BY <1>1 DEF Left, SameAsked
<1>6. LeftCache(gp, w, v, x)
  BY <1>1, <1>2, <1>4, <1>5 DEF LeftCache
<1>7. v.asleep = {} \/ Unsaid(w, x, v)
  BY <1>1, <1>2, <1>3, UnsaidSame DEF Left
<1>8. Left(w, v, x)
  BY <1>1, <1>2, <1>3, <1>7 DEF Left, SameAsked
<1> QED
  BY <1>3, <1>6, <1>8 DEF v, u

LEMMA GoneLeaves ==
  ASSUME NEW w \in GwType, NEW x \in Callers, w.wpc[x] = "out"
  PROVE  Leaves(w, Gone(w, x), x) /\ Gone(w, x).peek[x] = NoTask
<1> DEFINE v == Gone(w, x)
<1>1. /\ Apart(w, v, x) /\ v.wpc = w.wpc /\ v.peek[x] = NoTask
      /\ v.over = w.over \ {x} /\ v.progressed = w.progressed \ {x}
      /\ v.asleep = w.asleep /\ v.cache = w.cache
  BY GoneIs
<1> HIDE DEF v
<1>2. Leaves(w, v, x)
  BY <1>1 DEF Leaves
<1> QED
  BY <1>1, <1>2 DEF v

LEMMA AgainStays ==
  ASSUME PoolSound(gp), NEW w \in GwType, NEW x \in Callers,
         RequestSound(gp, w, x), ~Returns(w, x), NEW v \in Again(w, x)
  PROVE  Stays(gp, w, Park(v, x), x)
<1> DEFINE p == Park(v, x)
           k == w.kind[x]
<1>1. gp \in GpShape
  BY DEF PoolSound
<1>2. AsksAgain(w, v, x)
  BY <1>1, AgainIs
<1>3. /\ Apart(w, v, x) /\ v \in GwType /\ v.kind = w.kind /\ v.over = w.over
      /\ v.progressed = w.progressed /\ v.asleep = w.asleep /\ v.cache = w.cache
  BY <1>2 DEF AsksAgain, Asks, Apart
<1>4. /\ Apart(v, p, x) /\ SameAsked(v, p, x) /\ p.wpc[x] = "parked"
      /\ Flagged(p, x) /\ x \notin p.over /\ p.progressed = v.progressed
      /\ p.asleep = v.asleep /\ p.cache = v.cache
  BY <1>3, ParkIs
<1> HIDE DEF p
<1>5. Apart(w, p, x) /\ p.kind[x] = k /\ p.group[x] = v.group[x] /\ p.peek[x] = v.peek[x]
  BY <1>3, <1>4, ApartTrans DEF SameAsked
<1>6. ~Satisfied(w, x) /\ ~(k \in ThrottleKinds /\ gp.destroying)
  BY DEF Returns
<1>7. k \in AllKinds \cup {"delete"}
  BY DEF GwType
<1>8. ASSUME SameAsked(w, v, x),
             k = "suspend" => gp.stat[w.peek[x]] # "idle" \/ Busy(gp, Ids) = {}
      PROVE  Stays(gp, w, p, x)
  <2>1. SameAsked(w, p, x)
    BY <1>4, <1>8 DEF SameAsked
  <2>2. RequestSound(gp, p, x)
    BY <2>1 DEF SameAsked, RequestSound
  <2>3. Unmet(gp, w, x)
    <3>1. k \in {"task", "suspend"} => gp.stat[w.peek[x]] # "idle"
      BY <1>6, <1>8 DEF Satisfied
    <3>2. k \in {"group_all", "delete"} => Traced(gp, w.group[x]) # {}
      BY <1>6 DEF Satisfied
    <3>3. k \in AnyKinds => x \notin w.progressed
      BY <1>6 DEF Satisfied, AnyKinds
    <3>4. k = "pool_all" => AllTraced(gp) # {}
      BY <1>6 DEF Satisfied
    <3>5. k = "group_throttle" => gp.entry[w.group[x]].throttle
      BY <1>6 DEF Satisfied
    <3>6. k = "pool_throttle" => gp.throttle_on
      BY <1>6 DEF Satisfied
    <3> QED
      BY <1>6, <3>1, <3>2, <3>3, <3>4, <3>5, <3>6 DEF Unmet
  <2>4. Unmet(gp, p, x)
    BY <1>3, <1>4, <2>1, <2>3 DEF Unmet, SameAsked
  <2> QED
    BY <1>3, <1>4, <1>5, <2>1, <2>2, <2>4 DEF Stays
<1>9. ASSUME k \in {"suspend", "group_cb"}, NEW t \in Busy(gp, Ids), v.peek[x] = t,
             v.group[x] = gp.gid[t]
      PROVE  Stays(gp, w, p, x)
  <2>1. t \in Tasks /\ gp.stat[t] # "idle"
    BY DEF Busy
  <2>2. gp.entry[gp.gid[t]].used # "free"
    BY <2>1 DEF PoolSound, TaskSound
  <2>3. k \in TaskKinds
    BY <1>9 DEF TaskKinds
  <2>4. RequestSound(gp, p, x)
    BY <1>5, <1>9, <2>1, <2>2, <2>3 DEF RequestSound
  <2>5. Unmet(gp, p, x)
    BY <1>5, <1>9, <2>1 DEF Unmet, AnyKinds, ThrottleKinds
  <2> QED
    BY <1>3, <1>4, <1>5, <1>9, <2>4, <2>5 DEF Stays
<1>10. \/ /\ SameAsked(w, v, x)
          /\ k = "suspend" => gp.stat[w.peek[x]] # "idle" \/ Busy(gp, Ids) = {}
       \/ /\ k \in {"suspend", "group_cb"}
          /\ \E t \in Busy(gp, Ids) : v.peek[x] = t /\ v.group[x] = gp.gid[t]
  BY <1>2 DEF AsksAgain
<1>11. Stays(gp, w, p, x)
  BY <1>8, <1>9, <1>10
<1> QED
  BY <1>11 DEF p

\* A turn is made of two steps: x leaves, and returns or waits on.
LEMMA TurnIs ==
  ASSUME Held(gp, run), WaitSound(gp, run, gw), NEW x \in Callers, WaitTurn(x)
  PROVE  /\ gw.wpc[x] # "out" /\ UNCHANGED gpvars
         /\ \E u \in GwType :
                /\ Left(gw, u, x) /\ LeftCache(gp, gw, u, x)
                /\ Leaves(u, gw', x) \/ Stays(gp, u, gw', x)
<1> DEFINE u == Collected(Unregistered(gw, x), x)
<1>1. gw.wpc[x] # "out" /\ UNCHANGED gpvars /\ gw \in GwType /\ PoolSound(gp)
  BY DEF WaitTurn, WaitSound, Held
<1>2. Left(gw, u, x) /\ LeftCache(gp, gw, u, x) /\ u \in GwType
  BY <1>1, TurnLeft
<1>3. IF Returns(u, x)
      THEN u.kind[x] # "delete" /\ gw' = Gone(u, x)
      ELSE \E v \in Again(u, x) : gw' = Park(v, x)
  BY Zenon DEF WaitTurn
<1> HIDE DEF u
<1>4. CASE Returns(u, x)
  <2>1. Leaves(u, gw', x)
    BY <1>2, <1>3, <1>4, GoneLeaves DEF Left
  <2> QED
    BY <1>1, <1>2, <2>1
<1>5. CASE ~Returns(u, x)
  <2>1. RequestSound(gp, gw, x)
    BY <1>1 DEF WaitSound, Requests
  <2>2. RequestSound(gp, u, x)
    BY <1>2, <2>1 DEF Left, SameAsked, RequestSound
  <2>3. Stays(gp, u, gw', x)
    BY <1>1, <1>2, <1>3, <1>5, <2>2, AgainStays
  <2> QED
    BY <1>1, <1>2, <2>3
<1> QED
  BY <1>4, <1>5

-----------------------------------------------------------------------------
(***************************************************************************)
(* Requests and deletions stay in order                                    *)
(***************************************************************************)

LEMMA PassedSound ==
  ASSUME NEW s, NEW h, NEW w, WaitSound(s, h, w), h \in [Runners -> RunType],
         NEW p, NEW v, Passed(s, w, p, v), NEW k, Deletions(p, k, w)
  PROVE  WaitSound(p, k, v)
BY DoneKept DEF Passed

LEMMA BeginsSound ==
  ASSUME NEW s, NEW h, NEW w, WaitSound(s, h, w), ~w.shut, NEW x \in Callers,
         NEW v, Begins(s, w, v, x),
         x \in Users => h[x].q = <<>> /\ h[x].deleting = v.group[x]
  PROVE  WaitSound(s, h, v)
<1>1. Mine(s, h, w, x)
  BY WaitMine
<1>2. Mine(s, h, v, x)
  BY <1>1 DEF Mine, Begins, Open, Apart
<1> QED
  BY <1>2, ApartSound DEF Begins

LEMMA LeftSound ==
  ASSUME NEW s, NEW h, NEW w, WaitSound(s, h, w), NEW x \in Callers, NEW v,
         v \in GwType, Left(w, v, x), ~w.shut, x \notin w.progressed
  PROVE  WaitSound(s, h, v)
<1>1. Apart(w, v, x) /\ v.wpc[x] = "out" /\ x \notin v.progressed
  BY DEF Left
<1>2. Mine(s, h, v, x)
  BY <1>1 DEF Mine
<1> QED
  BY <1>1, <1>2, ApartSound

LEMMA TurnSound ==
  ASSUME Held(gp, run), WaitSound(gp, run, gw), ~gw.shut, NEW x \in Callers, WaitTurn(x)
  PROVE  WaitSound(gp, run, gw')
<1>1. Mine(gp, run, gw, x) /\ gw.wpc[x] # "out"
  BY WaitMine, TurnIs
<1>2. PICK u \in GwType : /\ Left(gw, u, x)
                          /\ Leaves(u, gw', x) \/ Stays(gp, u, gw', x)
  BY TurnIs
<1>3. /\ Apart(gw, u, x) /\ SameAsked(gw, u, x) /\ u.progressed = gw.progressed
      /\ u.syncing = gw.syncing
  BY <1>2 DEF Left, Apart
<1>4. CASE Leaves(u, gw', x)
  <2>1. Apart(gw, gw', x) /\ gw'.wpc[x] = "out" /\ x \notin gw'.progressed
    BY <1>3, <1>4, ApartTrans DEF Leaves
  <2>2. Mine(gp, run, gw', x)
    BY <2>1 DEF Mine
  <2> QED
    BY <2>1, <2>2, ApartSound
<1>5. CASE Stays(gp, u, gw', x)
  <2>1. /\ Apart(gw, gw', x) /\ gw'.progressed = gw.progressed
        /\ gw'.kind[x] = gw.kind[x] /\ RequestSound(gp, gw', x) /\ gw'.wpc[x] # "out"
        /\ gw'.syncing = gw.syncing
    BY <1>3, <1>5, ApartTrans DEF Stays, SameAsked, Apart
  <2>2. x \in Users => gw'.group[x] = gw.group[x]
    <3>1. x \in Users => gw'.kind[x] = "delete"
      BY <2>1 DEF RequestSound
    <3> QED
      BY <1>3, <1>5, <3>1 DEF Stays, SameAsked
  <2>3. Mine(gp, run, gw', x)
    BY <1>1, <2>1, <2>2 DEF Mine
  <2> QED
    BY <2>1, <2>3, ApartSound
<1> QED
  BY <1>2, <1>4, <1>5

LEMMA TimesOutIs ==
  ASSUME gw \in GwType, NEW x \in Waiters, TimesOut(x)
  PROVE  /\ WokenFrom(gw, gw') /\ gw'.progressed = gw.progressed /\ UNCHANGED gpvars
         /\ gw'.over = gw.over \cup {x} /\ gw'.wpc[x] = "woken" /\ gw'.cache = gw.cache
<1> DEFINE f == [gw.wpc EXCEPT ![x] = "woken"]
           o == gw.over \cup {x}
<1>1. x \in Callers /\ gw.wpc[x] \in {"parked", "woken"} /\ UNCHANGED gpvars
  BY DEF Callers, TimesOut
<1>2. gw' = [gw EXCEPT !.wpc = f, !.over = o]
  BY DEF TimesOut, GwType
<1>3. /\ f \in [Callers -> WaitLocation] /\ o \in SUBSET Callers /\ f[x] = "woken"
      /\ \A y \in Callers : y # x => f[y] = gw.wpc[y]
  BY <1>1 DEF GwType, WaitLocation
<1> HIDE DEF f, o
<1>4. /\ gw' \in GwType /\ gw'.cache = gw.cache /\ gw'.wpc = f /\ gw'.kind = gw.kind
      /\ gw'.group = gw.group /\ gw'.peek = gw.peek /\ gw'.over = o
      /\ gw'.progressed = gw.progressed /\ gw'.need = gw.need /\ gw'.any = gw.any
      /\ gw'.pool_need = gw.pool_need /\ gw'.pool_any = gw.pool_any
      /\ gw'.ev_need = gw.ev_need /\ gw'.syncing = gw.syncing
      /\ gw'.asleep = gw.asleep /\ gw'.shut = gw.shut
  BY <1>2, <1>3 DEF GwType
<1>5. WokenFrom(gw, gw')
  BY <1>1, <1>3, <1>4 DEF WokenFrom, SameRequests, Flagged
<1> QED
  BY <1>1, <1>3, <1>4, <1>5 DEF o

LEMMA WokenSound ==
  ASSUME NEW s, NEW h, NEW w, WaitSound(s, h, w), NEW v, WokenFrom(w, v),
         v.progressed = w.progressed
  PROVE  WaitSound(s, h, v)
<1>1. GroupsKept(s, s) /\ Deletions(s, h, w)
  BY DEF GroupsKept, WaitSound
<1> QED
  BY <1>1, WaitKept

\* Interrupted requests are still registered.
LEMMA InterruptedSound ==
  ASSUME NEW s, NEW h, NEW w, WaitSound(s, h, w), NEW X \in SUBSET Callers
  PROVE  WaitSound(s, h, Interrupted(w, X))
<1>1. w \in GwType
  BY DEF WaitSound
<1> DEFINE v == Interrupted(w, X)
<1>2. WokenFrom(w, v) /\ v.progressed = w.progressed
  BY <1>1, InterruptedIs
<1> HIDE DEF v
<1>3. WaitSound(s, h, v)
  BY <1>2, WokenSound
<1> QED
  BY <1>3 DEF v

\* The group of u is freed, or u waits for those who wait for it.
LEMMA FreeOrSyncIs ==
  ASSUME Held(gp, run), outdated = {}, NEW w, WaitSound(gp, run, w), NEW u \in Users,
         w.wpc[u] = "out", FreeOrSync(w, u)
  PROVE  LET g == run[u].deleting
         IN  /\ WaitSound(gp', run', gw')
             /\ \/ gw' = SyncOn(w, u) /\ UNCHANGED gpvars /\ GroupRefs(w, g) # {}
                \/ /\ gw' = SyncOff(w, u) /\ GroupRefs(w, g) = {} /\ g \in Ids
                   /\ SameTasks(gp, gp') /\ SameOthers(gp, gp', g)
                   /\ \A r \in Runners : r # u => run'[r] = run[r]
                   /\ run'[u].q = run[u].q /\ run'[u].deleting = NoGroup
                   /\ run'[u].leaving = run[u].leaving
<1> DEFINE g == run[u].deleting
<1>1. /\ u \in Syncers /\ u \in Runners /\ run \in [Runners -> RunType] /\ w \in GwType
      /\ Deletions(gp, run, w) /\ u \in Callers
  BY DEF Syncers, Runners, Held, WaitSound, Callers
<1>2. CASE GroupRefs(w, g) # {}
  <2>1. gw' = SyncOn(w, u) /\ UNCHANGED gpvars
    BY <1>2, FreeOrSyncFresh
  <2>2. WaitSound(gp, run, gw')
    BY <1>1, <2>1, SyncOnSound
  <2> QED
    BY <1>2, <2>1, <2>2 DEF gpvars
<1>3. CASE GroupRefs(w, g) = {}
  <2>1. gw' = SyncOff(w, u) /\ GroupFreed(u)
    BY <1>3, FreeOrSyncFresh
  <2>2. /\ Held(gp', run') /\ SameTasks(gp, gp') /\ g \in Ids
        /\ SameOthers(gp, gp', g)
        /\ run' = [run EXCEPT ![u].deleting = NoGroup]
    BY <2>1, GroupFreedHeld
  <2>3. /\ \A r \in Runners : r # u => run'[r] = run[r]
        /\ run'[u].q = run[u].q /\ run'[u].deleting = NoGroup
        /\ run'[u].leaving = run[u].leaving
    BY <1>1, <2>2 DEF RunType
  <2>4. WaitSound(gp, run, gw')
    BY <1>1, <2>1, SyncOnSound
  <2>5. /\ gw' \in GwType /\ gw'.wpc = w.wpc /\ gw'.kind = w.kind
        /\ gw'.group = w.group /\ gw'.peek = w.peek
    BY <1>1, <2>1, SyncIs
  <2>6. GroupRefs(gw', g) = {}
    BY <1>1, <1>3, <2>5, SameInside DEF SameRequests
  <2>7. \A x \in Callers : gw'.wpc[x] # "out" => RequestSound(gp', gw', x)
    <3> SUFFICES ASSUME NEW x \in Callers, gw'.wpc[x] # "out"
                 PROVE  RequestSound(gp', gw', x)
      OBVIOUS
    <3>1. RequestSound(gp, gw', x) /\ gw'.group[x] \in Ids
      BY <2>4 DEF WaitSound, Requests, GwType
    <3>2. gw'.kind[x] \in GroupKinds => gw'.group[x] # g
      <4>1. Inside(gw', GroupKinds) =
              {y \in Callers : gw'.wpc[y] # "out" /\ gw'.kind[y] \in GroupKinds}
        BY <2>5, InsideIs
      <4> QED
        BY <2>6, <4>1 DEF GroupRefs, InGroup, GroupKinds
    <3> QED
      BY <2>2, <3>1, <3>2 DEF RequestSound, SameOthers
  <2>8. Requests(gp', gw')
    BY <2>4, <2>7 DEF WaitSound, Requests
  <2>9. Deletions(gp', run', gw')
    <3>1. \A r \in Runners : r # u => run[r].deleting # g
      BY <1>1, <2>2 DEF Deletions, NoGroup, Ids
    <3>2. \A r \in Runners : run'[r].deleting # NoGroup =>
            r \in Users /\ gp'.entry[run'[r].deleting].used = "destroying"
      <4> SUFFICES ASSUME NEW r \in Runners, run'[r].deleting # NoGroup
                   PROVE  r \in Users /\ gp'.entry[run'[r].deleting].used = "destroying"
        OBVIOUS
      <4>1. r # u /\ run'[r] = run[r] /\ run[r].deleting \in Ids \cup {NoGroup}
        BY <1>1, <2>3 DEF RunType
      <4> QED
        BY <1>1, <2>2, <3>1, <4>1 DEF Deletions, SameOthers
    <3>3. \A r1, r2 \in Runners :
            (run'[r1].deleting # NoGroup /\ run'[r1].deleting = run'[r2].deleting)
                => r1 = r2
      BY <1>1, <2>3 DEF Deletions
    <3>4. \A v \in Users : gw'.wpc[v] # "out" =>
            run'[v].q = <<>> /\ run'[v].deleting = gw'.group[v]
      BY <1>1, <2>3, <2>5 DEF Deletions, Runners
    <3> QED
      BY <3>2, <3>3, <3>4 DEF Deletions
  <2>10. WaitSound(gp', run', gw')
    BY <2>4, <2>8, <2>9 DEF WaitSound
  <2> QED
    BY <1>3, <2>1, <2>2, <2>3, <2>10
<1> QED
  BY <1>2, <1>3

LEMMA GoneSound ==
  ASSUME NEW s, NEW h, NEW w, WaitSound(s, h, w), ~w.shut, NEW x \in Callers,
         NEW v, Leaves(w, v, x)
  PROVE  WaitSound(s, h, v)
<1>1. Mine(s, h, v, x)
  BY DEF Leaves, Mine
<1> QED
  BY <1>1, ApartSound DEF Leaves

LEMMA GroupRefsIn ==
  ASSUME NEW w, NEW g
  PROVE  GroupRefs(w, g) \in SUBSET Callers
BY DEF GroupRefs, InGroup, Inside

LEMMA DeleteWaitsIs ==
  ASSUME Held(gp, run), WaitSound(gp, run, gw), ~gw.shut, NEW u \in Users, DeleteWaits(u)
  PROVE  /\ run[u].q = <<>> /\ run[u].deleting # NoGroup /\ gw.wpc[u] = "out"
         /\ u \notin gw.syncing
         /\ \/ /\ Begins(gp, gw, gw', u) /\ UNCHANGED gpvars
               /\ gw'.group[u] = run[u].deleting
            \/ \E X \in SUBSET Callers : FreeOrSync(Interrupted(gw, X), u)
<1> DEFINE g == run[u].deleting
<1>1. /\ run[u].q = <<>> /\ g # NoGroup /\ Idle(u) /\ gw.wpc[u] = "out"
      /\ u \notin gw.syncing
  BY DEF DeleteWaits, Idle
<1>2. /\ gw \in GwType /\ Deletions(gp, run, gw) /\ run \in [Runners -> RunType]
      /\ u \in Callers /\ u \in Runners /\ u \notin Waiters
  BY GpWaitAssumption DEF WaitSound, Held, Callers, Runners
<1>3. CASE Traced(gp, g) = {}
  <2>1. FreeOrSync(Interrupted(gw, GroupRefs(gw, g)), u)
    BY <1>3 DEF DeleteWaits
  <2> QED
    BY <1>1, <2>1, GroupRefsIn
<1>4. CASE Traced(gp, g) # {}
  <2>1. gw' = Park(Request(u, "delete", g), u) /\ UNCHANGED gpvars
    BY <1>4 DEF DeleteWaits
  <2>2. g \in Ids
    BY <1>1, <1>2 DEF RunType
  <2>3. gp.entry[g].used # "free"
    BY <1>1, <1>2 DEF Deletions
  <2>4. u \notin gw.progressed
    BY <1>1 DEF WaitSound, Requests
  <2> HIDE DEF g
  <2>5. "delete" \notin TaskKinds /\ "delete" \notin ThrottleKinds
    BY DEF TaskKinds, ThrottleKinds
  <2>6. Begins(gp, gw, gw', u) /\ gw'.group[u] = g
    BY <1>1, <1>2, <1>4, <2>1, <2>2, <2>3, <2>4, <2>5, RequestBegins
  <2> QED
    BY <1>1, <2>1, <2>6 DEF g
<1> QED
  BY <1>3, <1>4

LEMMA DeleteTurnIs ==
  ASSUME Held(gp, run), WaitSound(gp, run, gw), ~gw.shut, NEW u \in Users, DeleteTurn(u)
  PROVE  /\ gw.wpc[u] # "out" /\ run[u].q = <<>> /\ run[u].deleting # NoGroup
         /\ gw.kind[u] = "delete"
         /\ \E l \in GwType, v \in GwType, X \in SUBSET Callers :
                /\ Left(gw, l, u) /\ l.cache = gw.cache
                /\ Leaves(l, v, u) /\ v.wpc[u] = "out"
                /\ WaitSound(gp, run, v)
                /\ FreeOrSync(Interrupted(v, X), u)
<1> DEFINE l == Unregistered(gw, u)
           v == Gone(l, u)
           X == GroupRefs(l, run[u].deleting)
<1>1. /\ gw \in GwType /\ Deletions(gp, run, gw) /\ Requests(gp, gw) /\ u \in Callers
  BY DEF WaitSound, Callers
<1>2. gw.wpc[u] # "out"
  BY DEF DeleteTurn
<1>3. run[u].q = <<>> /\ run[u].deleting = gw.group[u] /\ gw.group[u] \in Ids
      /\ gw.kind[u] = "delete"
  BY <1>1, <1>2 DEF Deletions, GwType, Requests, RequestSound
<1>4. run[u].deleting # NoGroup
  BY <1>3, GpAssumption DEF Ids, NoGroup
<1>5. FreeOrSync(Interrupted(v, X), u)
  BY DEF DeleteTurn
<1>6. X \in SUBSET Callers
  BY GroupRefsIn
<1>7. Left(gw, l, u) /\ l.cache = gw.cache /\ l \in GwType
  BY <1>1, UnregisteredLeft
<1> HIDE DEF l, X
<1>8. Leaves(l, v, u)
  BY <1>1, <1>7, GoneLeaves DEF Left
<1> HIDE DEF v
<1>9. v \in GwType /\ v.wpc[u] = "out"
  BY <1>8 DEF Leaves, Apart
<1>10. u \notin gw.progressed
  BY <1>1, <1>3 DEF Requests, AnyKinds
<1>11. WaitSound(gp, run, l) /\ ~l.shut
  BY <1>1, <1>7, <1>10, LeftSound DEF Left, Apart
<1>12. WaitSound(gp, run, v)
  BY <1>1, <1>8, <1>11, GoneSound
<1> QED
  BY <1>2, <1>3, <1>4, <1>5, <1>6, <1>7, <1>8, <1>9, <1>12

LEMMA DeletesSound ==
  ASSUME Held(gp, run), WaitSound(gp, run, gw), outdated = {}, ~gw.shut,
         NEW u \in Users, Deletes(u)
  PROVE  WaitSound(gp', run', gw')
<1>1. ASSUME NEW v, WaitSound(gp, run, v), v.wpc[u] = "out", NEW X \in SUBSET Callers,
             FreeOrSync(Interrupted(v, X), u)
      PROVE  WaitSound(gp', run', gw')
  <2> DEFINE w == Interrupted(v, X)
  <2>1. WaitSound(gp, run, w)
    BY <1>1, InterruptedSound
  <2>2. WokenFrom(v, w)
    BY <1>1, InterruptedIs DEF WaitSound
  <2>3. w.wpc[u] = "out"
    BY <1>1, <2>2 DEF WokenFrom, SameRequests, Callers
  <2> HIDE DEF w
  <2>4. FreeOrSync(w, u)
    BY <1>1 DEF w
  <2> QED
    BY <2>1, <2>3, <2>4, FreeOrSyncIs
<1>2. CASE DeleteWaits(u)
  <2>1. CASE /\ Begins(gp, gw, gw', u) /\ UNCHANGED gpvars
             /\ gw'.group[u] = run[u].deleting
    <3>1. run[u].q = <<>> /\ u \in Callers
      BY <1>2, DeleteWaitsIs DEF Callers
    <3>2. WaitSound(gp, run, gw')
      BY <2>1, <3>1, BeginsSound
    <3> QED
      BY <2>1, <3>2 DEF gpvars
  <2>2. CASE \E X \in SUBSET Callers : FreeOrSync(Interrupted(gw, X), u)
    <3>1. gw.wpc[u] = "out"
      BY <1>2, DeleteWaitsIs
    <3> QED
      BY <1>1, <2>2, <3>1
  <2> QED
    BY <1>2, <2>1, <2>2, DeleteWaitsIs
<1>3. CASE DeleteTurn(u)
  <2>1. \E v \in GwType, X \in SUBSET Callers :
            /\ v.wpc[u] = "out" /\ WaitSound(gp, run, v)
            /\ FreeOrSync(Interrupted(v, X), u)
    BY <1>3, DeleteTurnIs
  <2> QED
    BY <1>1, <2>1
<1>4. CASE DeleteSyncTurn(u)
  <2>1. u \in gw.syncing /\ FreeOrSync(gw, u) /\ u \in Callers
    BY <1>4 DEF DeleteSyncTurn, Callers
  <2>2. gw.wpc[u] = "out"
    BY <2>1 DEF WaitSound, Requests
  <2> QED
    BY <2>1, <2>2, FreeOrSyncIs
<1> QED
  BY <1>2, <1>3, <1>4 DEF Deletes

LEMMA PeekOnly ==
  ASSUME NEW w \in GwType, NEW x \in Callers, NEW t \in Tasks
  PROVE  LET v == [w EXCEPT !.peek[x] = t] IN Asks(w, v, x) /\ v.peek[x] = t
<1> DEFINE T == [w.peek EXCEPT ![x] = t]
           v == [w EXCEPT !.peek = T]
<1>1. /\ T \in [Callers -> Tasks \cup {NoTask}] /\ T[x] = t
      /\ \A y \in Callers : y # x => T[y] = w.peek[y]
  BY DEF GwType
<1>2. [w EXCEPT !.peek[x] = t] = v
  BY DEF GwType
<1> HIDE DEF T
<1>3. /\ v \in GwType /\ v.over = w.over /\ v.progressed = w.progressed
      /\ v.kind = w.kind /\ v.group = w.group /\ v.peek = T /\ v.wpc = w.wpc
      /\ v.need = w.need /\ v.any = w.any /\ v.pool_need = w.pool_need
      /\ v.pool_any = w.pool_any /\ v.ev_need = w.ev_need /\ v.syncing = w.syncing
      /\ v.asleep = w.asleep /\ v.shut = w.shut /\ v.cache = w.cache
  BY <1>1 DEF GwType
<1> HIDE DEF v
<1>4. Apart(w, v, x)
  BY <1>1, <1>3 DEF Apart, Flagged
<1> QED
  BY <1>1, <1>2, <1>3, <1>4 DEF Asks

LEMMA WsyncIs ==
  ASSUME WaitSound(gp, run, gw), ~gw.shut, NEW x \in Waiters, Wsync(x)
  PROVE  /\ UNCHANGED gpvars /\ gw.wpc[x] = "out"
         /\ \E v : Asks(gw, v, x) /\ gw' = SyncOn(v, x) /\ WaitSound(gp, run, v)
<1>1. /\ gw \in GwType /\ x \in Callers /\ gw.wpc[x] = "out" /\ UNCHANGED gpvars
  BY DEF WaitSound, Callers, Wsync, Idle
<1>2. PICK t \in Tasks : gw' = SyncOn([gw EXCEPT !.peek[x] = t], x)
  BY DEF Wsync
<1> DEFINE v == [gw EXCEPT !.peek[x] = t]
<1>3. Asks(gw, v, x)
  BY <1>1, PeekOnly
<1>4. gw' = SyncOn(v, x)
  BY <1>2
<1> HIDE DEF v
<1>5. Mine(gp, run, gw, x)
  BY <1>1, WaitMine
<1>6. Mine(gp, run, v, x)
  BY <1>1, <1>3, <1>5 DEF Mine, Asks
<1>7. WaitSound(gp, run, v)
  BY <1>1, <1>3, <1>6, ApartSound DEF Asks
<1> QED
  BY <1>1, <1>3, <1>4, <1>7

LEMMA WsyncTurnIs ==
  ASSUME WaitSound(gp, run, gw), ~gw.shut, NEW x \in Waiters, WsyncTurn(x)
  PROVE  /\ UNCHANGED gpvars /\ gw.wpc[x] = "out"
         /\ \E v : /\ \/ v = gw /\ gw' = SyncOn(v, x)
                      \/ Leaves(gw, v, x) /\ gw' = SyncOff(v, x)
                   /\ WaitSound(gp, run, v) /\ v.wpc[x] = "out"
<1>1. /\ gw \in GwType /\ x \in Callers /\ x \in gw.syncing /\ UNCHANGED gpvars
  BY DEF WaitSound, Callers, WsyncTurn
<1>2. gw.wpc[x] = "out"
  BY <1>1 DEF WaitSound, Requests
<1>3. CASE gw' = SyncOn(gw, x)
  BY <1>1, <1>2, <1>3
<1>4. CASE gw' = SyncOff(Gone(gw, x), x)
  <2>1. Leaves(gw, Gone(gw, x), x)
    BY <1>1, <1>2, GoneLeaves
  <2>2. WaitSound(gp, run, Gone(gw, x))
    BY <1>1, <2>1, GoneSound
  <2> QED
    BY <1>1, <1>2, <1>4, <2>1, <2>2 DEF Leaves
<1> QED
  BY <1>3, <1>4 DEF WsyncTurn

\* The pool is shut, or its end waits for those who are in it.
LEMMA ShutOrSyncIs ==
  ASSUME NEW s, NEW h, NEW w, WaitSound(s, h, w), ShutOrSync(w)
  PROVE  /\ WaitSound(s, h, gw')
         /\ SameRequests(w, gw') /\ gw'.wpc = w.wpc /\ gw'.over = w.over
         /\ gw'.progressed = w.progressed /\ gw'.cache = w.cache
         /\ \A x \in Callers : Flagged(gw', x) = Flagged(w, x)
         /\ \/ /\ gw'.syncing = w.syncing \cup {Shutdown} /\ PoolRefs(w) # {}
               /\ gw'.asleep = w.asleep \cup {Shutdown}
            \/ /\ gw'.syncing = w.syncing \ {Shutdown}
               /\ gw'.asleep = w.asleep \ {Shutdown}
<1>1. /\ w \in GwType /\ Shutdown \in Syncers /\ Shutdown \notin Callers
  BY GpWaitAssumption DEF WaitSound, Syncers, Shutdown, Callers, Runners
<1>2. CASE PoolRefs(w) # {}
  <2>1. gw' = SyncOn(w, Shutdown)
    BY <1>2 DEF ShutOrSync
  <2>2. /\ gw' \in GwType /\ gw'.wpc = w.wpc /\ gw'.kind = w.kind
        /\ gw'.group = w.group /\ gw'.peek = w.peek /\ gw'.over = w.over
        /\ gw'.progressed = w.progressed /\ gw'.cache = w.cache
        /\ \A x \in Callers : Flagged(gw', x) = Flagged(w, x)
        /\ gw'.syncing = w.syncing \cup {Shutdown}
        /\ gw'.asleep = w.asleep \cup {Shutdown}
    BY <1>1, <2>1, SyncIs
  <2>3. WaitSound(s, h, gw')
    BY <1>1, <2>1, SyncOnSound
  <2> QED
    BY <1>2, <2>2, <2>3 DEF SameRequests
<1>3. CASE PoolRefs(w) = {}
  <2> DEFINE v == SyncOff(w, Shutdown)
  <2>1. gw' = [v EXCEPT !.shut = TRUE]
    BY <1>3 DEF ShutOrSync
  <2>2. /\ v \in GwType /\ v.wpc = w.wpc /\ v.kind = w.kind
        /\ v.group = w.group /\ v.peek = w.peek /\ v.over = w.over
        /\ v.progressed = w.progressed /\ v.cache = w.cache
        /\ \A x \in Callers : Flagged(v, x) = Flagged(w, x)
        /\ v.syncing = w.syncing \ {Shutdown}
        /\ v.asleep = w.asleep \ {Shutdown}
    BY <1>1, SyncIs
  <2>3. WaitSound(s, h, v)
    BY <1>1, SyncOnSound
  <2> HIDE DEF v
  <2>4. /\ gw' \in GwType /\ gw'.wpc = v.wpc /\ gw'.kind = v.kind /\ gw'.shut
        /\ gw'.group = v.group /\ gw'.peek = v.peek /\ gw'.over = v.over
        /\ gw'.progressed = v.progressed /\ gw'.cache = v.cache
        /\ gw'.need = v.need /\ gw'.any = v.any /\ gw'.pool_need = v.pool_need
        /\ gw'.pool_any = v.pool_any /\ gw'.ev_need = v.ev_need
        /\ gw'.syncing = v.syncing /\ gw'.asleep = v.asleep
    BY <2>1, <2>2 DEF GwType
  <2>5. SameRequests(w, gw') /\ \A x \in Callers : Flagged(gw', x) = Flagged(w, x)
    BY <2>2, <2>4 DEF SameRequests, Flagged
  <2>6. PoolRefs(gw') = {}
    BY <1>1, <1>3, <2>4, <2>5, SameInside
  <2>7. Requests(s, gw') /\ Deletions(s, h, gw')
    BY <2>3, <2>4 DEF WaitSound, Requests, Deletions, RequestSound
  <2>8. WaitSound(s, h, gw')
    BY <2>4, <2>6, <2>7 DEF WaitSound
  <2> QED
    BY <2>2, <2>4, <2>5, <2>8
<1> QED
  BY <1>2, <1>3

LEMMA SyncsIs ==
  ASSUME WaitSound(gp, run, gw), Syncs
  PROVE  /\ UNCHANGED gpvars
         /\ \E w : /\ WaitSound(gp, run, w) /\ ShutOrSync(w)
                   /\ \/ w = gw /\ Shutdown \in gw.syncing
                      \/ /\ \E X \in SUBSET Callers : w = Interrupted(gw, X)
                         /\ gp.destroying
<1>1. CASE ShutdownStarts
  <2> DEFINE X == Inside(gw, AllKinds \cup {"delete"})
             w == Interrupted(gw, X)
  <2>1. X \in SUBSET Callers
    BY DEF Inside
  <2>2. /\ ShutOrSync(w) /\ UNCHANGED gpvars /\ gp.destroying
    BY <1>1 DEF ShutdownStarts, ThreadsGone
  <2>3. WaitSound(gp, run, w)
    BY <2>1, InterruptedSound
  <2> QED
    BY <2>1, <2>2, <2>3
<1>2. CASE ShutdownTurn
  <2>1. ShutOrSync(gw) /\ UNCHANGED gpvars /\ Shutdown \in gw.syncing
    BY <1>2 DEF ShutdownTurn
  <2> QED
    BY <2>1
<1> QED
  BY <1>1, <1>2 DEF Syncs

LEMMA DetachSound ==
  ASSUME Held(gp, run), WaitSound(gp, run, gw), NEW r \in Runners,
         Detach(r) \/ DetachTurn(r) \/ DetachReturns(r)
  PROVE  WaitSound(gp', run', gw')
<1>1. run \in [Runners -> RunType] /\ r \in Syncers /\ gw \in GwType
  BY DEF Held, Syncers, WaitSound
<1>2. CASE Detach(r)
  <2>1. /\ Passed(gp, gw, gp', TasksDone) /\ Deletions(gp', run', gw)
        /\ gw' = TasksDone \/ gw' = SyncOn(TasksDone, r)
        /\ r \in Callers => gw.wpc[r] = "out"
    BY <1>2, DetachPassed
  <2>2. WaitSound(gp', run', TasksDone)
    BY <1>1, <2>1, PassedSound
  <2>3. r \in Callers => TasksDone.wpc[r] = "out"
    BY <2>1 DEF Passed, DoneFrom, WokenFrom, SameRequests
  <2>4. WaitSound(gp', run', SyncOn(TasksDone, r))
    BY <1>1, <2>2, <2>3, SyncOnSound
  <2> QED
    BY <2>1, <2>2, <2>4
<1>3. CASE DetachTurn(r)
  <2>1. /\ r \in gw.syncing /\ gp' = gp /\ run' = run
        /\ gw' \in {SyncOn(gw, r), SyncOff(gw, r)}
    BY <1>3 DEF DetachTurn, gpvars
  <2>2. r \in Callers => gw.wpc[r] = "out"
    BY <2>1 DEF WaitSound, Requests
  <2>3. WaitSound(gp, run, gw')
    BY <1>1, <2>1, <2>2, SyncOnSound
  <2> QED
    BY <2>1, <2>3
<1>4. CASE DetachReturns(r)
  <2>1. Passed(gp, gw, gp', gw') /\ Deletions(gp', run', gw)
    BY <1>4, DetachReturnsPassed
  <2> QED
    BY <1>1, <2>1, PassedSound
<1> QED
  BY <1>2, <1>3, <1>4

LEMMA WakeupIs ==
  ASSUME WaitSound(gp, run, gw), NEW x \in Callers, Wakeup(x)
  PROVE  UNCHANGED gpvars /\ gw' = Interrupted(gw, {x}) /\ WaitSound(gp, run, gw')
BY InterruptedSound DEF Wakeup

LEMMA CallsSound ==
  ASSUME Held(gp, run), WaitSound(gp, run, gw), ~gw.shut, NEW x \in Waiters, Calls(x)
  PROVE  WaitSound(gp', run', gw')
<1>1. x \in Callers /\ x \notin Users /\ x \in Syncers
  BY GpWaitAssumption DEF Callers, Runners, Syncers
<1>2. CASE WaitTask(x) \/ WaitTasks(x) \/ WaitThrottle(x)
  <2>1. gp' = gp /\ run' = run
    BY <1>2 DEF WaitTask, WaitTasks, WaitThrottle, gpvars
  <2>2. Begins(gp, gw, gw', x)
    BY <1>2, WaitTaskBegins, WaitTasksBegins, WaitThrottleBegins
  <2>3. WaitSound(gp, run, gw')
    BY <1>1, <2>2, BeginsSound
  <2> QED
    BY <2>1, <2>3
<1>3. CASE SuspendWaits(x)
  <2>1. /\ Begins(gp', gw, gw', x) /\ run' = run
        /\ SameTasks(gp, gp') /\ Calm(gp, gp')
    BY <1>3, SuspendWaitsBegins
  <2>2. gw \in GwType /\ Deletions(gp, run, gw) /\ run \in [Runners -> RunType]
    BY DEF WaitSound, Held
  <2>3. Passed(gp, gw, gp', gw) /\ Deletions(gp', run, gw)
    BY <2>1, <2>2, CalmPassed, CalmKept, HandsSame, DeletionsKept
  <2>4. WaitSound(gp', run, gw)
    BY <2>2, <2>3, PassedSound
  <2>5. WaitSound(gp', run, gw')
    BY <1>1, <2>1, <2>4, BeginsSound
  <2> QED
    BY <2>1, <2>5
<1>4. CASE Wsync(x)
  <2>1. PICK v : Asks(gw, v, x) /\ gw' = SyncOn(v, x) /\ WaitSound(gp, run, v)
    BY <1>4, WsyncIs
  <2>2. v.wpc[x] = "out" /\ gp' = gp /\ run' = run
    BY <1>4, <2>1, WsyncIs DEF Asks, gpvars
  <2>3. WaitSound(gp, run, gw')
    BY <1>1, <2>1, <2>2, SyncOnSound
  <2> QED
    BY <2>2, <2>3
<1> QED
  BY <1>2, <1>3, <1>4 DEF Calls

LEMMA WsyncTurnSound ==
  ASSUME WaitSound(gp, run, gw), ~gw.shut, NEW x \in Waiters, WsyncTurn(x)
  PROVE  WaitSound(gp', run', gw')
<1>1. PICK v : /\ gw' \in {SyncOn(v, x), SyncOff(v, x)}
               /\ WaitSound(gp, run, v) /\ v.wpc[x] = "out"
  BY WsyncTurnIs
<1>2. x \in Syncers /\ gp' = gp /\ run' = run
  BY WsyncTurnIs DEF Syncers, gpvars
<1>3. WaitSound(gp, run, gw')
  BY <1>1, <1>2, SyncOnSound
<1> QED
  BY <1>2, <1>3

LEMMA WaitNext ==
  ASSUME TRUE \notin Suspended, Held(gp, run), WaitSound(gp, run, gw), outdated = {},
         [GwNext]_gwvars
  PROVE  WaitSound(gp', run', gw')
<1>1. run \in [Runners -> RunType] /\ gw \in GwType
  BY DEF Held, WaitSound
<1>2. ASSUME Passed(gp, gw, gp', gw'), Deletions(gp', run', gw)
      PROVE  WaitSound(gp', run', gw')
  BY <1>1, <1>2, PassedSound
<1>3. ASSUME WaitSound(gp, run, gw'), UNCHANGED gpvars
      PROVE  WaitSound(gp', run', gw')
  BY <1>3 DEF gpvars
<1>4. CASE TaskStep
  BY <1>2, <1>4, TaskStepPassed
<1>5. CASE OtherCall
  BY <1>2, <1>5, OtherCallPassed
<1>6. CASE QueueStep
  <2>1. DoneFrom(gp, gw, gp', gw') /\ Deletions(gp', run', gw) /\ Calm(gp, gp')
    BY <1>6, QueueStepPassed
  <2> QED
    BY <1>1, <2>1, CalmKept, DoneKept
<1>7. ASSUME NEW x \in Callers, WaitTurn(x), ~gw.shut
      PROVE  WaitSound(gp', run', gw')
  BY <1>3, <1>7, TurnSound, TurnIs
<1>8. ASSUME NEW x \in Callers, Wakeup(x)
      PROVE  WaitSound(gp', run', gw')
  BY <1>3, <1>8, WakeupIs
<1>9. ASSUME NEW x \in Waiters, Calls(x), ~gw.shut
      PROVE  WaitSound(gp', run', gw')
  BY <1>9, CallsSound
<1>10. ASSUME NEW x \in Waiters, TimesOut(x)
       PROVE  WaitSound(gp', run', gw')
  BY <1>1, <1>3, <1>10, TimesOutIs, WokenSound
<1>11. ASSUME NEW x \in Waiters, WsyncTurn(x), ~gw.shut
       PROVE  WaitSound(gp', run', gw')
  BY <1>11, WsyncTurnSound
<1>12. ASSUME NEW u \in Users, Deletes(u), ~gw.shut
       PROVE  WaitSound(gp', run', gw')
  BY <1>12, DeletesSound
<1>13. ASSUME NEW u \in Users, NEW g \in Ids, DeleteStarts(u, g)
       PROVE  WaitSound(gp', run', gw')
  BY <1>2, <1>13, DeleteStartsPassed
<1>14. ASSUME NEW b \in BOOLEAN,
              PausePool(b) \/ ThrottlePool(b) \/ \E g \in Ids : ThrottleGroup(g, b)
       PROVE  WaitSound(gp', run', gw')
  BY <1>2, <1>14, SwitchPassed
<1>15. ASSUME NEW r \in Runners, Detach(r) \/ DetachTurn(r) \/ DetachReturns(r)
       PROVE  WaitSound(gp', run', gw')
  BY <1>15, DetachSound
<1>16. CASE ReleasePool
  BY <1>2, <1>16, ReleasePassed
<1>17. CASE Syncs
  <2>1. UNCHANGED gpvars /\ \E w : WaitSound(gp, run, w) /\ ShutOrSync(w)
    BY <1>17, SyncsIs
  <2>2. WaitSound(gp, run, gw')
    BY <2>1, ShutOrSyncIs
  <2> QED
    BY <1>3, <2>1, <2>2
<1>18. CASE UNCHANGED gwvars
  BY <1>18 DEF gwvars, waitvars, gpvars
<1> QED
  BY <1>4, <1>5, <1>6, <1>7, <1>8, <1>9, <1>10, <1>11, <1>12, <1>13, <1>14, <1>15,
     <1>16, <1>17, <1>18 DEF GwNext, GwStep

LEMMA WaitInit ==
  ASSUME GwInit
  PROVE  /\ Held(gp, run) /\ WaitSound(gp, run, gw)
         /\ \A x \in Callers : gw.wpc[x] = "out"
         /\ gw.syncing = {} /\ gw.asleep = {} /\ gw.cache = Cached /\ outdated = {}
         /\ \A t \in Tasks : gp.stat[t] = "idle"
         /\ \A r \in Runners : run[r].leaving = NoTask /\ run[r].deleting = NoGroup
<1>1. GpInit /\ Held(gp, run) /\ gp.stat = [t \in Tasks |-> "idle"]
      /\ run = [r \in Runners |->
                    [ q |-> <<>>, normal |-> FALSE, detached |-> FALSE,
                      leaving |-> NoTask, deleting |-> NoGroup ]]
  BY EmptyHeld DEF GwInit
<1>2. gw = [ wpc |-> [x \in Callers |-> "out"],
             kind |-> [x \in Callers |-> "delete"],
             group |-> [x \in Callers |-> 0],
             peek |-> [x \in Callers |-> NoTask],
             over |-> {}, stale |-> {}, progressed |-> {},
             need |-> [g \in Ids |-> FALSE], any |-> [g \in Ids |-> FALSE],
             pool_need |-> FALSE, pool_any |-> FALSE, ev_need |-> FALSE,
             syncing |-> {}, asleep |-> {}, shut |-> FALSE, cache |-> Cached ]
  BY DEF GwInit
<1>3. 0 \in Ids
  BY GpAssumption DEF Ids
<1>4. gw \in GwType
  BY <1>2, <1>3 DEF GwType, WaitLocation
<1>5. /\ \A x \in Callers : gw.wpc[x] = "out"
      /\ gw.syncing = {} /\ gw.asleep = {} /\ gw.cache = Cached
      /\ gw.progressed = {} /\ ~gw.shut
  BY <1>2
<1>6. \A r \in Runners : run[r].leaving = NoTask /\ run[r].deleting = NoGroup
  BY <1>1
<1>7. Requests(gp, gw)
  BY <1>5 DEF Requests
<1>8. Deletions(gp, run, gw)
  BY <1>5, <1>6 DEF Deletions, Callers
<1>9. WaitSound(gp, run, gw)
  BY <1>4, <1>5, <1>7, <1>8 DEF WaitSound
<1> QED
  BY <1>1, <1>5, <1>6, <1>9 DEF GwInit

LEMMA SoundFreed ==
  ASSUME Held(gp, run), WaitSound(gp, run, gw), outdated = {}
  PROVE  FreedAlone
<1>1. /\ PoolSound(gp) /\ gw \in GwType /\ TaskSound(gp) /\ Requests(gp, gw)
      /\ gw.shut => PoolRefs(gw) = {}
  BY DEF Held, WaitSound, PoolSound
<1>2. ASSUME NEW g \in Ids, gp.entry[g].used = "free"
      PROVE  /\ GroupRefs(gw, g) = {} /\ Traced(gp, g) = {}
             /\ gp.entry[g].queue = <<>> /\ ~gp.entry[g].active
  <2>1. GroupRefs(gw, g) = {}
    <3>1. Inside(gw, GroupKinds) =
            {x \in Callers : gw.wpc[x] # "out" /\ gw.kind[x] \in GroupKinds}
      BY <1>1, InsideIs
    <3>2. \A x \in Inside(gw, GroupKinds) : gw.group[x] # g
      BY <1>1, <1>2, <3>1 DEF Requests, RequestSound
    <3> QED
      BY <3>2 DEF GroupRefs, InGroup, GroupKinds
  <2>2. \A t \in Tasks : gp.gid[t] = g => gp.stat[t] = "idle"
    BY <1>1, <1>2 DEF TaskSound
  <2>3. Traced(gp, g) = {}
    BY <2>2 DEF Traced, OfGroup
  <2>4. gp.entry[g].queue = <<>> /\ ~gp.entry[g].active
    BY <1>1, <2>2, EmptyQueue
  <2> QED
    BY <2>1, <2>3, <2>4
<1> QED
  BY <1>1, <1>2 DEF FreedAlone, GwTypeOK

\* A group is free, and the pool shut, only when nobody refers to it any more,
\* whoever waited, gave up, was interrupted or deleted another group meanwhile
\* (the end of cpool_gp_entry_delete, eEvent_F_shutdown), when the table does not
\* grow while somebody waits to delete a group.
THEOREM FreedAloneAlways ==
  ASSUME TRUE \notin Suspended, "grow" \in Careful
  PROVE  GwSpec => []FreedAlone
<1> DEFINE Inv == Held(gp, run) /\ WaitSound(gp, run, gw) /\ outdated = {}
<1>1. GwInit => Inv
  BY WaitInit
<1>2. Inv /\ [GwNext]_gwvars => Inv'
  BY GwHeld, WaitNext, StaysFresh
<1>3. Inv => FreedAlone
  BY SoundFreed
<1> QED
  BY <1>1, <1>2, <1>3, PTL DEF GwSpec

-----------------------------------------------------------------------------
(***************************************************************************)
(* Nobody is forgotten                                                     *)
(***************************************************************************)

Watched(s, w) == ParkedSound(s, w) /\ Unmoved(s, w)

LEMMA InTaskKinds ==
  ASSUME NEW w \in GwType, NEW x \in Callers
  PROVE  x \in Inside(w, TaskKinds) <=> (w.wpc[x] # "out" /\ w.kind[x] \in TaskKinds)
<1>1. Inside(w, TaskKinds) = {y \in Callers : w.wpc[y] # "out" /\ w.kind[y] \in TaskKinds}
  BY InsideIs
<1> QED
  BY <1>1

\* What x waits for is still not there when s has become p.
LEMMA UnmetKept ==
  ASSUME NEW s \in GpShape, NEW w \in GwType, NEW x \in Callers, Unmet(s, w, x),
         RequestSound(s, w, x), NEW p \in GpShape, NEW v, SameRequests(w, v),
         w.kind[x] \in TaskKinds => w.group[x] = s.gid[w.peek[x]],
         NotFor(w, p, Ends(s, p), x),
         \A t \in Tasks : s.stat[t] # "idle" => p.gid[t] = s.gid[t],
         v.progressed \in {w.progressed, w.progressed \cup AnyOf(w, p, Ends(s, p))},
         w.kind[x] \in ThrottleKinds =>
            /\ (s.entry[w.group[x]].used # "free" /\ s.entry[w.group[x]].throttle) =>
                    p.entry[w.group[x]].throttle
            /\ s.throttle_on => p.throttle_on
            /\ p.destroying => s.destroying
  PROVE  Unmet(p, v, x)
<1> DEFINE k == w.kind[x]
           g == w.group[x]
           D == Ends(s, p)
<1>1. v.kind[x] = k /\ v.group[x] = g /\ v.peek[x] = w.peek[x]
  BY DEF SameRequests
<1>2. \A t \in Tasks : s.stat[t] # "idle" /\ t \notin D => p.stat[t] # "idle"
  BY DEF Ends
<1>3. ASSUME k \in {"task", "suspend"}
      PROVE  p.stat[w.peek[x]] # "idle"
  <2>1. k \in TaskKinds /\ w.peek[x] \in Tasks /\ s.stat[w.peek[x]] # "idle"
    BY <1>3 DEF TaskKinds, RequestSound, Unmet
  <2>2. w.peek[x] \notin D
    BY <2>1 DEF NotFor
  <2> QED
    BY <1>2, <2>1, <2>2
<1>4. ASSUME k \in {"group_all", "delete"}
      PROVE  Traced(p, g) # {}
  <2>1. PICK t \in Tasks : s.gid[t] = g /\ s.stat[t] # "idle"
    BY <1>4 DEF Unmet, Traced, OfGroup
  <2>2. p.gid[t] = g
    BY <2>1
  <2>3. CASE t \in D
    BY <1>4, <2>2, <2>3 DEF NotFor
  <2>4. CASE t \notin D
    BY <1>2, <2>1, <2>2, <2>4 DEF Traced, OfGroup
  <2> QED
    BY <2>3, <2>4
<1>5. k \in AnyKinds => x \notin v.progressed
  BY DEF Unmet, NotFor
<1>6. ASSUME k = "pool_all"
      PROVE  AllTraced(p) # {}
  <2>1. PICK t \in Tasks : s.stat[t] # "idle"
    BY <1>6 DEF Unmet, AllTraced
  <2>2. CASE D = {}
    BY <1>2, <2>1, <2>2 DEF AllTraced
  <2>3. CASE D # {}
    BY <1>6, <2>3 DEF NotFor
  <2> QED
    BY <2>2, <2>3
<1>7. k = "group_throttle" => p.entry[g].throttle
  BY DEF Unmet, RequestSound, ThrottleKinds, GroupKinds
<1>8. k = "pool_throttle" => p.throttle_on
  BY DEF Unmet, ThrottleKinds
<1>9. k \in ThrottleKinds => ~p.destroying
  BY DEF Unmet
<1> HIDE DEF k, g, D
<1> QED
  BY <1>1, <1>3, <1>4, <1>5, <1>6, <1>7, <1>8, <1>9 DEF Unmet

LEMMA PassedWatched ==
  ASSUME NEW s \in GpShape, NEW h, NEW w, WaitSound(s, h, w), Watched(s, w),
         NEW p \in GpShape, NEW v, Passed(s, w, p, v)
  PROVE  Watched(p, v)
<1>1. /\ w \in GwType /\ v \in GwType /\ SameRequests(w, v) /\ WokenFrom(w, v)
      /\ DoneFrom(s, w, p, v) /\ p.gid = s.gid
  BY DEF WaitSound, Passed, DoneFrom, WokenFrom
<1>2. \A x \in Callers : x \in Inside(v, TaskKinds) <=> x \in Inside(w, TaskKinds)
  BY <1>1, SameInside
<1>3. Unmoved(p, v)
  BY <1>1, <1>2 DEF Watched, Unmoved, SameRequests, Inside
<1>4. ASSUME NEW x \in Callers, v.wpc[x] = "parked"
      PROVE  Unmet(p, v, x) /\ Flagged(v, x) /\ x \notin v.over
  <2>1. w.wpc[x] = "parked" /\ (Flagged(w, x) => Flagged(v, x))
    BY <1>1, <1>4 DEF WokenFrom
  <2>2. Unmet(s, w, x) /\ Flagged(w, x) /\ x \notin w.over
    BY <2>1 DEF Watched, ParkedSound
  <2>3. RequestSound(s, w, x)
    BY <2>1 DEF WaitSound, Requests
  <2>4. w.kind[x] \in TaskKinds => w.group[x] = s.gid[w.peek[x]]
    BY <1>1, <2>1, InTaskKinds DEF Watched, Unmoved
  <2>5. NotFor(w, p, Ends(s, p), x) /\ v.over = w.over
    BY <1>1, <1>4, <2>2 DEF DoneFrom
  <2>6. v.progressed \in {w.progressed, w.progressed \cup AnyOf(w, p, Ends(s, p))}
    BY <1>1 DEF DoneFrom
  <2>7. w.kind[x] \in ThrottleKinds =>
            /\ (s.entry[w.group[x]].used # "free" /\ s.entry[w.group[x]].throttle) =>
                    p.entry[w.group[x]].throttle
            /\ s.throttle_on => p.throttle_on
            /\ p.destroying => s.destroying
    BY <1>4, <2>2 DEF Passed, ThrottlesKept
  <2>8. Unmet(p, v, x)
    BY <1>1, <2>2, <2>3, <2>4, <2>5, <2>6, <2>7, UnmetKept
  <2> QED
    BY <2>1, <2>2, <2>5, <2>8
<1> QED
  BY <1>3, <1>4 DEF Watched, ParkedSound

\* A task is queued, in another group only when nobody waits for it.
LEMMA QueueWatched ==
  ASSUME "move" \in Careful, Held(gp, run), WaitSound(gp, run, gw), Watched(gp, gw),
         QueueStep
  PROVE  Watched(gp', gw')
<1>1. PICK t \in Tasks, g \in Ids :
        /\ DoneFrom(gp, gw, gp', gw') /\ Calm(gp, gp') /\ Ends(gp, gp') = {}
        /\ QueuedFrom(gp, gp', t, g)
        /\ "move" \in Careful /\ g # gp.gid[t] => Refs(gw, t) = {}
  BY QueueStepPassed
<1>2. /\ gw \in GwType /\ gw' \in GwType /\ SameRequests(gw, gw') /\ WokenFrom(gw, gw')
      /\ gp \in GpShape
  BY <1>1 DEF WaitSound, DoneFrom, WokenFrom, Held, PoolSound
<1>3. gp' \in GpShape
  BY QueueHeld DEF QueueStep, Held, PoolSound
<1>4. \A x \in Callers : x \in Inside(gw', TaskKinds) <=> x \in Inside(gw, TaskKinds)
  BY <1>2, SameInside
<1>5. \A x \in Inside(gw, TaskKinds) : gw.peek[x] = t => g = gp.gid[t]
  BY <1>1 DEF Refs, Inside, TaskKinds, EntryTaskKinds
<1>6. Unmoved(gp', gw')
  <2> SUFFICES ASSUME NEW x \in Inside(gw', TaskKinds)
               PROVE  gw'.group[x] = gp'.gid[gw'.peek[x]]
    BY DEF Unmoved
  <2>1. x \in Callers /\ x \in Inside(gw, TaskKinds)
    BY <1>4 DEF Inside
  <2>2. gw'.group[x] = gw.group[x] /\ gw'.peek[x] = gw.peek[x]
    BY <1>2 DEF SameRequests
  <2>3. gw.peek[x] \in Tasks
    BY <1>2, <2>1, InTaskKinds DEF WaitSound, Requests, RequestSound
  <2>4. gw.group[x] = gp.gid[gw.peek[x]]
    BY <2>1 DEF Watched, Unmoved
  <2> QED
    BY <1>1, <1>5, <2>1, <2>2, <2>3, <2>4 DEF QueuedFrom
<1>7. ASSUME NEW x \in Callers, gw'.wpc[x] = "parked"
      PROVE  Unmet(gp', gw', x) /\ Flagged(gw', x) /\ x \notin gw'.over
  <2>1. gw.wpc[x] = "parked" /\ (Flagged(gw, x) => Flagged(gw', x))
    BY <1>2, <1>7 DEF WokenFrom
  <2>2. Unmet(gp, gw, x) /\ Flagged(gw, x) /\ x \notin gw.over
    BY <2>1 DEF Watched, ParkedSound
  <2>3. RequestSound(gp, gw, x) /\ gw.group[x] \in Ids
    BY <1>2, <2>1 DEF WaitSound, Requests, GwType
  <2>4. gw.kind[x] \in TaskKinds => gw.group[x] = gp.gid[gw.peek[x]]
    BY <1>2, <2>1, InTaskKinds DEF Watched, Unmoved
  <2>5. NotFor(gw, gp', Ends(gp, gp'), x) /\ gw'.over = gw.over
    BY <1>1, <1>7, <2>2 DEF DoneFrom
  <2>6. gw'.progressed \in {gw.progressed, gw.progressed \cup AnyOf(gw, gp', Ends(gp, gp'))}
    BY <1>1 DEF DoneFrom
  <2>7. gw.kind[x] \in ThrottleKinds =>
            /\ (gp.entry[gw.group[x]].used # "free" /\ gp.entry[gw.group[x]].throttle) =>
                    gp'.entry[gw.group[x]].throttle
            /\ gp.throttle_on => gp'.throttle_on
            /\ gp'.destroying => gp.destroying
    BY <1>1, <2>3 DEF Calm
  <2>8. \A u \in Tasks : gp.stat[u] # "idle" => gp'.gid[u] = gp.gid[u]
    BY <1>1 DEF QueuedFrom
  <2>9. Unmet(gp', gw', x)
    BY <1>2, <1>3, <2>2, <2>3, <2>4, <2>5, <2>6, <2>7, <2>8, UnmetKept
  <2> QED
    BY <2>1, <2>2, <2>5, <2>9
<1> QED
  BY <1>6, <1>7 DEF Watched, ParkedSound

LEMMA ApartWatched ==
  ASSUME NEW s, NEW w \in GwType, Watched(s, w), NEW x \in Callers, NEW v, Apart(w, v, x),
         v.wpc[x] = "parked" => Unmet(s, v, x) /\ Flagged(v, x) /\ x \notin v.over,
         v.wpc[x] # "out" /\ v.kind[x] \in TaskKinds => v.group[x] = s.gid[v.peek[x]]
  PROVE  Watched(s, v)
<1>1. v \in GwType
  BY DEF Apart
<1>2. ASSUME NEW y \in Inside(v, TaskKinds)
      PROVE  v.group[y] = s.gid[v.peek[y]]
  <2>1. y \in Callers /\ v.wpc[y] # "out" /\ v.kind[y] \in TaskKinds
    BY <1>1, InTaskKinds DEF Inside
  <2>2. CASE y # x
    <3>1. /\ w.wpc[y] = v.wpc[y] /\ w.kind[y] = v.kind[y] /\ w.group[y] = v.group[y]
          /\ w.peek[y] = v.peek[y]
      BY <2>1, <2>2 DEF Apart
    <3>2. y \in Inside(w, TaskKinds)
      BY <2>1, <3>1, InTaskKinds
    <3> QED
      BY <3>1, <3>2 DEF Watched, Unmoved
  <2> QED
    BY <2>1, <2>2
<1>3. ASSUME NEW y \in Callers, v.wpc[y] = "parked", y # x
      PROVE  Unmet(s, v, y) /\ Flagged(v, y) /\ y \notin v.over
  <2>1. /\ w.wpc[y] = "parked" /\ w.kind[y] = v.kind[y] /\ w.group[y] = v.group[y]
        /\ w.peek[y] = v.peek[y] /\ (Flagged(w, y) => Flagged(v, y))
        /\ y \in v.over <=> y \in w.over
        /\ y \in v.progressed <=> y \in w.progressed
    BY <1>3 DEF Apart
  <2>2. Unmet(s, w, y) /\ Flagged(w, y) /\ y \notin w.over
    BY <2>1 DEF Watched, ParkedSound
  <2>3. Unmet(s, v, y)
    BY <2>1, <2>2 DEF Unmet
  <2> QED
    BY <2>1, <2>2, <2>3
<1> QED
  BY <1>2, <1>3 DEF Watched, Unmoved, ParkedSound

LEMMA BeginsWatched ==
  ASSUME NEW s, NEW w \in GwType, Watched(s, w), NEW x \in Callers, NEW v,
         Begins(s, w, v, x)
  PROVE  Watched(s, v)
BY ApartWatched DEF Begins, Open

LEMMA LeavesWatched ==
  ASSUME NEW s, NEW w \in GwType, Watched(s, w), NEW x \in Callers, NEW v,
         Left(w, v, x) \/ Leaves(w, v, x)
  PROVE  Watched(s, v)
<1>1. Apart(w, v, x) /\ v.wpc[x] = "out"
  BY DEF Left, Leaves
<1> QED
  BY <1>1, ApartWatched

LEMMA TurnWatched ==
  ASSUME Held(gp, run), WaitSound(gp, run, gw), Watched(gp, gw), NEW x \in Callers,
         WaitTurn(x)
  PROVE  Watched(gp, gw')
<1>1. PICK u \in GwType : /\ Left(gw, u, x)
                          /\ Leaves(u, gw', x) \/ Stays(gp, u, gw', x)
  BY TurnIs
<1>2. gw \in GwType /\ gw.wpc[x] # "out"
  BY TurnIs DEF WaitSound
<1>3. Watched(gp, u)
  BY <1>1, <1>2, LeavesWatched
<1>4. CASE Leaves(u, gw', x)
  BY <1>3, <1>4, LeavesWatched
<1>5. CASE Stays(gp, u, gw', x)
  <2>1. gw.kind[x] \in TaskKinds => gw.group[x] = gp.gid[gw.peek[x]]
    BY <1>2, InTaskKinds DEF Watched, Unmoved
  <2>2. gw'.kind[x] \in TaskKinds => gw'.group[x] = gp.gid[gw'.peek[x]]
    BY <1>1, <1>5, <2>1 DEF Stays, Left, SameAsked
  <2> QED
    BY <1>3, <1>5, <2>2, ApartWatched DEF Stays
<1> QED
  BY <1>1, <1>4, <1>5

\* Whoever is told that the wait has ended is woken.
LEMMA EndedWatched ==
  ASSUME NEW s, NEW w \in GwType, Watched(s, w), NEW v, WokenFrom(w, v),
         v.progressed = w.progressed,
         \A x \in Callers : v.wpc[x] = "parked" => (x \in v.over => x \in w.over)
  PROVE  Watched(s, v)
<1>1. v \in GwType /\ SameRequests(w, v)
  BY DEF WokenFrom
<1>2. \A x \in Callers : x \in Inside(v, TaskKinds) <=> x \in Inside(w, TaskKinds)
  BY <1>1, SameInside
<1>3. Unmoved(s, v)
  BY <1>1, <1>2 DEF Watched, Unmoved, SameRequests, Inside
<1>4. ASSUME NEW x \in Callers, v.wpc[x] = "parked"
      PROVE  Unmet(s, v, x) /\ Flagged(v, x) /\ x \notin v.over
  <2>1. w.wpc[x] = "parked" /\ (Flagged(w, x) => Flagged(v, x))
    BY <1>4 DEF WokenFrom
  <2>2. Unmet(s, w, x) /\ Flagged(w, x) /\ x \notin w.over
    BY <2>1 DEF Watched, ParkedSound
  <2>3. Unmet(s, v, x)
    BY <1>1, <2>2 DEF Unmet, SameRequests
  <2> QED
    BY <1>4, <2>1, <2>2, <2>3
<1> QED
  BY <1>3, <1>4 DEF Watched, ParkedSound

LEMMA InterruptedWatched ==
  ASSUME NEW s, NEW w \in GwType, Watched(s, w), NEW X \in SUBSET Callers
  PROVE  LET v == Interrupted(w, X)
         IN  Watched(s, v) /\ v \in GwType /\ WokenFrom(w, v)
<1> DEFINE v == Interrupted(w, X)
<1>1. /\ WokenFrom(w, v) /\ v.over = w.over \cup X /\ v.progressed = w.progressed
      /\ \A x \in X : (w.wpc[x] = "parked" /\ Flagged(w, x) /\ x \notin w.over) =>
            v.wpc[x] # "parked"
  BY InterruptedIs
<1> HIDE DEF v
<1>2. \A x \in Callers : v.wpc[x] = "parked" => (x \in v.over => x \in w.over)
  <2> SUFFICES ASSUME NEW x \in Callers, v.wpc[x] = "parked"
               PROVE  x \in v.over => x \in w.over
    OBVIOUS
  <2>1. w.wpc[x] = "parked" /\ Flagged(w, x) /\ x \notin w.over
    BY <1>1 DEF WokenFrom, Watched, ParkedSound
  <2> QED
    BY <1>1, <2>1
<1>3. Watched(s, v)
  BY <1>1, <1>2, EndedWatched
<1> QED
  BY <1>1, <1>3 DEF v, WokenFrom

\* Those who use cond_sync wait for nothing else.
LEMMA SameWatched ==
  ASSUME NEW s, NEW w \in GwType, Watched(s, w), NEW v \in GwType, SameRequests(w, v),
         v.wpc = w.wpc, v.over = w.over, v.progressed = w.progressed,
         \A x \in Callers : Flagged(v, x) = Flagged(w, x)
  PROVE  Watched(s, v)
<1>1. \A x \in Callers : x \in Inside(v, TaskKinds) <=> x \in Inside(w, TaskKinds)
  BY SameInside
<1>2. Unmoved(s, v)
  BY <1>1 DEF Watched, Unmoved, SameRequests, Inside
<1>3. ParkedSound(s, v)
  BY DEF Watched, ParkedSound, Unmet, SameRequests
<1> QED
  BY <1>2, <1>3 DEF Watched

LEMMA SyncWatched ==
  ASSUME NEW s, NEW w \in GwType, Watched(s, w), NEW r \in Syncers,
         NEW v \in {SyncOn(w, r), SyncOff(w, r)}
  PROVE  Watched(s, v)
<1>1. /\ v \in GwType /\ v.wpc = w.wpc /\ v.kind = w.kind
      /\ v.group = w.group /\ v.peek = w.peek /\ v.over = w.over
      /\ v.progressed = w.progressed
      /\ \A x \in Callers : Flagged(v, x) = Flagged(w, x)
  BY SyncIs
<1>2. SameRequests(w, v)
  BY <1>1 DEF SameRequests
<1> QED
  BY <1>1, <1>2, SameWatched

LEMMA FreeOrSyncWatched ==
  ASSUME Held(gp, run), outdated = {}, NEW w, WaitSound(gp, run, w), Watched(gp, w),
         NEW u \in Users, w.wpc[u] = "out", FreeOrSync(w, u)
  PROVE  Watched(gp', gw')
<1>1. w \in GwType /\ u \in Syncers /\ Requests(gp, w)
  BY DEF WaitSound, Syncers, Runners
<1> DEFINE g == run[u].deleting
<1>2. CASE gw' = SyncOn(w, u) /\ UNCHANGED gpvars
  <2>1. Watched(gp, gw')
    BY <1>1, <1>2, SyncWatched
  <2> QED
    BY <1>2, <2>1 DEF gpvars
<1>3. CASE /\ gw' = SyncOff(w, u) /\ GroupRefs(w, g) = {}
           /\ SameTasks(gp, gp') /\ SameOthers(gp, gp', g)
  <2>1. Watched(gp, gw')
    BY <1>1, <1>3, SyncWatched
  <2>2. /\ gw' \in GwType /\ gw'.wpc = w.wpc /\ gw'.kind = w.kind
        /\ gw'.group = w.group
    BY <1>1, <1>3, SyncIs
  <2>3. \A x \in Callers : (gw'.wpc[x] # "out" /\ gw'.kind[x] \in GroupKinds) =>
            gw'.group[x] # g
    <3>1. Inside(w, GroupKinds) =
            {y \in Callers : w.wpc[y] # "out" /\ w.kind[y] \in GroupKinds}
      BY <1>1, InsideIs
    <3> QED
      BY <1>3, <2>2, <3>1 DEF GroupRefs, InGroup, GroupKinds
  <2>4. /\ \A G : Traced(gp', G) = Traced(gp, G)
        /\ AllTraced(gp') = AllTraced(gp)
    BY <1>3 DEF SameTasks, Traced, OfGroup, AllTraced
  <2> HIDE DEF g
  <2>5. ASSUME NEW x \in Callers, gw'.wpc[x] = "parked"
        PROVE  Unmet(gp', gw', x) /\ Flagged(gw', x) /\ x \notin gw'.over
    <3>1. Unmet(gp, gw', x) /\ Flagged(gw', x) /\ x \notin gw'.over
      BY <2>1, <2>5 DEF Watched, ParkedSound
    <3>2. gw'.kind[x] = "group_throttle" =>
            gp'.entry[gw'.group[x]].throttle = gp.entry[gw'.group[x]].throttle
      BY <1>3, <2>2, <2>3, <2>5 DEF SameOthers, GroupKinds, GwType
    <3>3. Unmet(gp', gw', x)
      BY <1>3, <2>4, <3>1, <3>2 DEF Unmet, SameTasks, SameOthers
    <3> QED
      BY <3>1, <3>3
  <2>6. Unmoved(gp', gw')
    BY <1>3, <2>1 DEF Watched, Unmoved, SameTasks
  <2> QED
    BY <2>5, <2>6 DEF Watched, ParkedSound
<1> QED
  BY <1>2, <1>3, FreeOrSyncIs

LEMMA DeletesWatched ==
  ASSUME Held(gp, run), WaitSound(gp, run, gw), ~gw.shut, Watched(gp, gw),
         outdated = {}, NEW u \in Users, Deletes(u)
  PROVE  Watched(gp', gw')
<1>1. ASSUME NEW v, WaitSound(gp, run, v), v.wpc[u] = "out", Watched(gp, v),
             NEW X \in SUBSET Callers, FreeOrSync(Interrupted(v, X), u)
      PROVE  Watched(gp', gw')
  <2> DEFINE w == Interrupted(v, X)
  <2>1. WaitSound(gp, run, w) /\ v \in GwType
    BY <1>1, InterruptedSound DEF WaitSound
  <2>2. Watched(gp, w) /\ WokenFrom(v, w)
    BY <1>1, <2>1, InterruptedWatched
  <2>3. w.wpc[u] = "out"
    BY <1>1, <2>2 DEF WokenFrom, SameRequests, Callers
  <2> HIDE DEF w
  <2>4. FreeOrSync(w, u)
    BY <1>1 DEF w
  <2> QED
    BY <2>1, <2>2, <2>3, <2>4, FreeOrSyncWatched
<1>2. gw \in GwType /\ u \in Callers
  BY DEF WaitSound, Callers
<1>3. CASE DeleteWaits(u)
  <2>1. CASE /\ Begins(gp, gw, gw', u) /\ UNCHANGED gpvars
             /\ gw'.group[u] = run[u].deleting
    <3>1. Watched(gp, gw')
      BY <1>2, <2>1, BeginsWatched
    <3> QED
      BY <2>1, <3>1 DEF gpvars
  <2>2. CASE \E X \in SUBSET Callers : FreeOrSync(Interrupted(gw, X), u)
    <3>1. gw.wpc[u] = "out"
      BY <1>3, DeleteWaitsIs
    <3> QED
      BY <1>1, <2>2, <3>1
  <2> QED
    BY <1>3, <2>1, <2>2, DeleteWaitsIs
<1>4. CASE DeleteTurn(u)
  <2>1. PICK l \in GwType, v \in GwType, X \in SUBSET Callers :
            /\ Left(gw, l, u) /\ Leaves(l, v, u) /\ v.wpc[u] = "out"
            /\ WaitSound(gp, run, v) /\ FreeOrSync(Interrupted(v, X), u)
    BY <1>4, DeleteTurnIs
  <2>2. Watched(gp, l)
    BY <1>2, <2>1, LeavesWatched
  <2>3. Watched(gp, v)
    BY <1>2, <2>1, <2>2, LeavesWatched
  <2> QED
    BY <1>1, <2>1, <2>3
<1>5. CASE DeleteSyncTurn(u)
  <2>1. u \in gw.syncing /\ FreeOrSync(gw, u)
    BY <1>5 DEF DeleteSyncTurn
  <2>2. gw.wpc[u] = "out"
    BY <1>2, <2>1 DEF WaitSound, Requests
  <2> QED
    BY <2>1, <2>2, FreeOrSyncWatched
<1> QED
  BY <1>3, <1>4, <1>5 DEF Deletes

LEMMA DetachWatched ==
  ASSUME Held(gp, run), Held(gp', run'), WaitSound(gp, run, gw), Watched(gp, gw),
         NEW r \in Runners, Detach(r) \/ DetachTurn(r) \/ DetachReturns(r)
  PROVE  Watched(gp', gw')
<1>1. gp \in GpShape /\ gp' \in GpShape /\ r \in Syncers /\ gw \in GwType
  BY DEF Held, PoolSound, Syncers, WaitSound
<1>2. CASE Detach(r)
  <2>1. /\ Passed(gp, gw, gp', TasksDone)
        /\ gw' = TasksDone \/ gw' = SyncOn(TasksDone, r)
    BY <1>2, DetachPassed
  <2>2. Watched(gp', TasksDone)
    BY <1>1, <2>1, PassedWatched
  <2>3. TasksDone \in GwType
    BY <2>1 DEF Passed, DoneFrom, WokenFrom
  <2>4. Watched(gp', SyncOn(TasksDone, r))
    BY <1>1, <2>2, <2>3, SyncWatched
  <2> QED
    BY <2>1, <2>2, <2>4
<1>3. CASE DetachTurn(r)
  <2>1. gp' = gp /\ gw' \in {SyncOn(gw, r), SyncOff(gw, r)}
    BY <1>3 DEF DetachTurn, gpvars
  <2>2. Watched(gp, gw')
    BY <1>1, <2>1, SyncWatched
  <2> QED
    BY <2>1, <2>2
<1>4. CASE DetachReturns(r)
  BY <1>1, <1>4, DetachReturnsPassed, PassedWatched
<1> QED
  BY <1>2, <1>3, <1>4

LEMMA CallsWatched ==
  ASSUME Held(gp, run), WaitSound(gp, run, gw), ~gw.shut, Watched(gp, gw),
         NEW x \in Waiters, Calls(x)
  PROVE  Watched(gp', gw')
<1>1. x \in Callers /\ x \in Syncers /\ gw \in GwType /\ gp \in GpShape
  BY DEF Callers, Syncers, WaitSound, Held, PoolSound
<1>2. CASE WaitTask(x) \/ WaitTasks(x) \/ WaitThrottle(x)
  <2>1. gp' = gp
    BY <1>2 DEF WaitTask, WaitTasks, WaitThrottle, gpvars
  <2>2. Begins(gp, gw, gw', x)
    BY <1>2, WaitTaskBegins, WaitTasksBegins, WaitThrottleBegins
  <2>3. Watched(gp, gw')
    BY <1>1, <2>2, BeginsWatched
  <2> QED
    BY <2>1, <2>3
<1>3. CASE SuspendWaits(x)
  <2>1. /\ Begins(gp', gw, gw', x) /\ Held(gp', run)
        /\ SameTasks(gp, gp') /\ Calm(gp, gp')
    BY <1>3, SuspendWaitsBegins
  <2>2. Passed(gp, gw, gp', gw) /\ gp' \in GpShape
    BY <1>1, <2>1, CalmPassed DEF Held, PoolSound
  <2>3. Watched(gp', gw)
    BY <1>1, <2>2, PassedWatched
  <2> QED
    BY <1>1, <2>1, <2>3, BeginsWatched
<1>4. CASE Wsync(x)
  <2>1. PICK v : Asks(gw, v, x) /\ gw' = SyncOn(v, x) /\ WaitSound(gp, run, v)
    BY <1>4, WsyncIs
  <2>2. gw.wpc[x] = "out" /\ gp' = gp
    BY <1>4, WsyncIs DEF gpvars
  <2>3. Apart(gw, v, x) /\ v.wpc[x] = "out" /\ v \in GwType
    BY <2>1, <2>2 DEF Asks, Apart
  <2>4. Watched(gp, v)
    BY <1>1, <2>3, ApartWatched
  <2>5. Watched(gp, gw')
    BY <1>1, <2>1, <2>3, <2>4, SyncWatched
  <2> QED
    BY <2>2, <2>5
<1> QED
  BY <1>2, <1>3, <1>4 DEF Calls

LEMMA WsyncTurnWatched ==
  ASSUME WaitSound(gp, run, gw), ~gw.shut, Watched(gp, gw), NEW x \in Waiters,
         WsyncTurn(x)
  PROVE  Watched(gp', gw')
<1>1. x \in Callers /\ x \in Syncers /\ gw \in GwType /\ gp' = gp
  BY WsyncTurnIs DEF Callers, Syncers, WaitSound, gpvars
<1>2. PICK v : /\ \/ v = gw /\ gw' = SyncOn(v, x)
                  \/ Leaves(gw, v, x) /\ gw' = SyncOff(v, x)
               /\ WaitSound(gp, run, v)
  BY WsyncTurnIs
<1>3. v \in GwType /\ Watched(gp, v)
  BY <1>1, <1>2, LeavesWatched DEF WaitSound
<1>4. Watched(gp, gw')
  BY <1>1, <1>2, <1>3, SyncWatched
<1> QED
  BY <1>1, <1>4

LEMMA SyncsWatched ==
  ASSUME WaitSound(gp, run, gw), Watched(gp, gw), Syncs
  PROVE  Watched(gp', gw')
<1>1. UNCHANGED gpvars
  BY SyncsIs
<1>2. PICK w : /\ WaitSound(gp, run, w) /\ ShutOrSync(w)
               /\ \/ w = gw
                  \/ \E X \in SUBSET Callers : w = Interrupted(gw, X)
  BY SyncsIs
<1>3. gw \in GwType /\ w \in GwType
  BY <1>2 DEF WaitSound
<1>4. Watched(gp, w)
  BY <1>2, <1>3, InterruptedWatched
<1>5. /\ gw' \in GwType /\ SameRequests(w, gw') /\ gw'.wpc = w.wpc /\ gw'.over = w.over
      /\ gw'.progressed = w.progressed
      /\ \A x \in Callers : Flagged(gw', x) = Flagged(w, x)
  BY <1>2, ShutOrSyncIs DEF WaitSound
<1>6. Watched(gp, gw')
  BY <1>3, <1>4, <1>5, SameWatched
<1> QED
  BY <1>1, <1>6 DEF gpvars

LEMMA WatchedNext ==
  ASSUME TRUE \notin Suspended, "move" \in Careful,
         Held(gp, run), WaitSound(gp, run, gw), Watched(gp, gw), outdated = {},
         [GwNext]_gwvars
  PROVE  Watched(gp', gw')
<1>1. /\ gp \in GpShape /\ gw \in GwType /\ Held(gp', run')
      /\ gp' \in GpShape
  BY GwHeld DEF Held, PoolSound, WaitSound
<1>2. ASSUME Passed(gp, gw, gp', gw')
      PROVE  Watched(gp', gw')
  BY <1>1, <1>2, PassedWatched
<1>3. ASSUME Watched(gp, gw'), UNCHANGED gpvars
      PROVE  Watched(gp', gw')
  BY <1>3 DEF gpvars
<1>4. CASE TaskStep
  BY <1>2, <1>4, TaskStepPassed
<1>5. CASE OtherCall
  BY <1>2, <1>5, OtherCallPassed
<1>6. CASE QueueStep
  BY <1>6, QueueWatched
<1>7. ASSUME NEW x \in Callers, WaitTurn(x)
      PROVE  Watched(gp', gw')
  BY <1>3, <1>7, TurnWatched, TurnIs
<1>8. ASSUME NEW x \in Callers, Wakeup(x)
      PROVE  Watched(gp', gw')
  <2>1. UNCHANGED gpvars /\ gw' = Interrupted(gw, {x}) /\ {x} \in SUBSET Callers
    BY <1>8, WakeupIs
  <2>2. Watched(gp, gw')
    BY <1>1, <2>1, InterruptedWatched
  <2> QED
    BY <1>3, <2>1, <2>2
<1>9. ASSUME NEW x \in Waiters, Calls(x), ~gw.shut
      PROVE  Watched(gp', gw')
  BY <1>9, CallsWatched
<1>10. ASSUME NEW x \in Waiters, TimesOut(x)
       PROVE  Watched(gp', gw')
  <2>1. /\ WokenFrom(gw, gw') /\ gw'.progressed = gw.progressed /\ UNCHANGED gpvars
        /\ gw'.over = gw.over \cup {x} /\ gw'.wpc[x] = "woken"
    BY <1>1, <1>10, TimesOutIs
  <2>2. \A y \in Callers : gw'.wpc[y] = "parked" => (y \in gw'.over => y \in gw.over)
    BY <2>1
  <2>3. Watched(gp, gw')
    BY <1>1, <2>1, <2>2, EndedWatched
  <2> QED
    BY <1>3, <2>1, <2>3
<1>11. ASSUME NEW x \in Waiters, WsyncTurn(x), ~gw.shut
       PROVE  Watched(gp', gw')
  BY <1>11, WsyncTurnWatched
<1>12. ASSUME NEW u \in Users, Deletes(u), ~gw.shut
       PROVE  Watched(gp', gw')
  BY <1>12, DeletesWatched
<1>13. ASSUME NEW u \in Users, NEW g \in Ids, DeleteStarts(u, g)
       PROVE  Watched(gp', gw')
  BY <1>2, <1>13, DeleteStartsPassed
<1>14. ASSUME NEW b \in BOOLEAN,
              PausePool(b) \/ ThrottlePool(b) \/ \E g \in Ids : ThrottleGroup(g, b)
       PROVE  Watched(gp', gw')
  BY <1>2, <1>14, SwitchPassed
<1>15. ASSUME NEW r \in Runners, Detach(r) \/ DetachTurn(r) \/ DetachReturns(r)
       PROVE  Watched(gp', gw')
  BY <1>1, <1>15, DetachWatched
<1>16. CASE ReleasePool
  BY <1>2, <1>16, ReleasePassed
<1>17. CASE Syncs
  BY <1>17, SyncsWatched
<1>18. CASE UNCHANGED gwvars
  BY <1>18 DEF gwvars, waitvars, gpvars
<1> QED
  BY <1>4, <1>5, <1>6, <1>7, <1>8, <1>9, <1>10, <1>11, <1>12, <1>13, <1>14, <1>15,
     <1>16, <1>17, <1>18 DEF GwNext, GwStep

LEMMA WatchedInit ==
  ASSUME GwInit
  PROVE  Watched(gp, gw)
<1>1. \A x \in Callers : gw.wpc[x] = "out"
  BY WaitInit
<1>2. Inside(gw, TaskKinds) = {}
  BY <1>1 DEF Inside
<1> QED
  BY <1>1, <1>2 DEF Watched, ParkedSound, Unmoved

LEMMA WatchedUnforgotten ==
  ASSUME gw \in GwType, Watched(gp, gw)
  PROVE  NobodyForgotten
<1> SUFFICES ASSUME NEW x \in Callers, gw.wpc[x] = "parked"
             PROVE  /\ ~Satisfied(gw, x) /\ x \notin gw.over
                    /\ gw.kind[x] \in ThrottleKinds => ~gp.destroying
  BY DEF NobodyForgotten
<1>1. Unmet(gp, gw, x) /\ x \notin gw.over
  BY DEF Watched, ParkedSound
<1>2. gw.kind[x] \in AllKinds \cup {"delete"}
  BY DEF GwType
<1>3. ~Satisfied(gw, x)
  <2> DEFINE k == gw.kind[x]
  <2>1. k \in {"task", "suspend", "group_cb", "group_all", "group_any", "pool_all",
               "pool_any", "group_throttle", "pool_throttle", "delete"}
    BY <1>2 DEF AllKinds, EntryTaskKinds, PoolKinds, ThrottleKinds
  <2>2. CASE k = "task"
    BY <1>1, <2>2 DEF Unmet, Satisfied
  <2>3. CASE k = "suspend"
    BY <1>1, <2>3 DEF Unmet, Satisfied
  <2>4. CASE k = "group_cb"
    BY <2>4 DEF Satisfied
  <2>5. CASE k \in {"group_all", "delete"}
    BY <1>1, <2>5 DEF Unmet, Satisfied
  <2>6. CASE k \in {"group_any", "pool_any"}
    BY <1>1, <2>6 DEF Unmet, Satisfied, AnyKinds
  <2>7. CASE k = "pool_all"
    BY <1>1, <2>7 DEF Unmet, Satisfied
  <2>8. CASE k = "group_throttle"
    BY <1>1, <2>8 DEF Unmet, Satisfied
  <2>9. CASE k = "pool_throttle"
    BY <1>1, <2>9 DEF Unmet, Satisfied
  <2> QED
    BY <2>1, <2>2, <2>3, <2>4, <2>5, <2>6, <2>7, <2>8, <2>9
<1>4. gw.kind[x] \in ThrottleKinds => ~gp.destroying
  BY <1>1 DEF Unmet
<1> QED
  BY <1>1, <1>3, <1>4

\* Nobody sleeps on when what it waits for is there, whoever reset the flags that
\* all who wait share, when a task that is waited for is not queued again in
\* another group (__cpool_gp_w_wakeup_taskl), nor the table grown while somebody
\* waits to delete a group.
THEOREM NobodyForgottenAlways ==
  ASSUME TRUE \notin Suspended, "move" \in Careful, "grow" \in Careful
  PROVE  GwSpec => []NobodyForgotten
<1> DEFINE Inv == Held(gp, run) /\ WaitSound(gp, run, gw) /\ Watched(gp, gw)
                  /\ outdated = {}
<1>1. GwInit => Inv
  BY WaitInit, WatchedInit
<1>2. Inv /\ [GwNext]_gwvars => Inv'
  BY GwHeld, WaitNext, WatchedNext, StaysFresh
<1>3. Inv => NobodyForgotten
  BY WatchedUnforgotten DEF WaitSound
<1> QED
  BY <1>1, <1>2, <1>3, PTL DEF GwSpec

-----------------------------------------------------------------------------
(***************************************************************************)
(* The last reference                                                      *)
(***************************************************************************)

\* r uses cond_sync and finds that it must sleep.
SleepSound(s, h, w, r) ==
    /\ r \in Runners =>
        /\ h[r].leaving = NoTask => h[r].q = <<>> /\ h[r].deleting # NoGroup
        /\ IF h[r].leaving # NoTask THEN Refs(w, h[r].leaving) # {}
           ELSE GroupRefs(w, h[r].deleting) # {}
    /\ r = Shutdown => s.destroying /\ PoolRefs(w) # {}

\* The pool s has become p, and nobody who uses cond_sync has other hands.
HandsSync(s, h, p, k, w) ==
    /\ p.destroying = s.destroying
    /\ \A r \in Runners :
        \/ k[r] = h[r]
        \/ /\ r \notin w.syncing
           /\ k[r].leaving # NoTask => k[r].detached
           /\ s.destroying => k[r].deleting = NoGroup

LEMMA HandsSynced ==
  ASSUME NEW s, NEW h, NEW w, SyncSound(s, h, w), NEW p, NEW k, HandsSync(s, h, p, k, w)
  PROVE  SyncSound(p, k, w)
<1>1. \A r \in Runners : r \in w.syncing => k[r] = h[r]
  BY DEF HandsSync
<1>2. w.asleep \subseteq w.syncing /\ (Shutdown \in w.asleep => PoolRefs(w) # {})
  BY DEF SyncSound
<1>3. \A r \in Runners : k[r].leaving # NoTask => k[r].detached
  BY DEF SyncSound, HandsSync
<1>4. \A r \in w.syncing \cap Runners :
        k[r].leaving = NoTask => k[r].q = <<>> /\ k[r].deleting # NoGroup
  BY <1>1 DEF SyncSound
<1>5. Shutdown \in w.syncing => p.destroying
  BY DEF SyncSound, HandsSync
<1>6. p.destroying => Inside(w, GroupKinds) = {}
  BY DEF SyncSound, HandsSync
<1>7. p.destroying => \A r \in Runners : k[r].deleting = NoGroup
  BY DEF SyncSound, HandsSync
<1>8. \A r \in w.asleep \cap Runners :
        IF k[r].leaving # NoTask THEN Refs(w, k[r].leaving) # {}
        ELSE GroupRefs(w, k[r].deleting) # {}
  BY <1>1, <1>2 DEF SyncSound
<1> QED
  BY <1>2, <1>3, <1>4, <1>5, <1>6, <1>7, <1>8 DEF SyncSound

LEMMA HandsKeptSync ==
  ASSUME NEW s, NEW h, NEW w, SyncSound(s, h, w), NEW p, p.destroying = s.destroying,
         NEW k, HandsKept(h, k)
  PROVE  HandsSync(s, h, p, k, w)
<1> SUFFICES ASSUME NEW r \in Runners, k[r] # h[r]
             PROVE  /\ r \notin w.syncing
                    /\ k[r].leaving # NoTask => k[r].detached
                    /\ s.destroying => k[r].deleting = NoGroup
  BY DEF HandsSync
<1>1. /\ k[r].leaving = h[r].leaving /\ k[r].deleting = h[r].deleting
      /\ h[r].leaving = NoTask /\ ~(h[r].deleting # NoGroup /\ h[r].q = <<>>)
  BY DEF HandsKept
<1>2. r \notin w.syncing
  BY <1>1 DEF SyncSound
<1>3. s.destroying => h[r].deleting = NoGroup
  BY DEF SyncSound
<1> QED
  BY <1>1, <1>2, <1>3

\* Requests that stay, whoever is woken.
LEMMA SameSync ==
  ASSUME NEW s, NEW h, NEW w \in GwType, SyncSound(s, h, w), NEW v \in GwType,
         SameRequests(w, v), v.syncing = w.syncing, v.asleep = w.asleep
  PROVE  SyncSound(s, h, v)
<1>1. /\ \A K : Inside(v, K) = Inside(w, K)
      /\ \A t : Refs(v, t) = Refs(w, t)
      /\ \A g : GroupRefs(v, g) = GroupRefs(w, g)
      /\ PoolRefs(v) = PoolRefs(w)
  BY SameInside
<1>2. Inside(v, GroupKinds) = Inside(w, GroupKinds)
  BY <1>1
<1> QED
  BY <1>1, <1>2 DEF SyncSound

LEMMA PassedSync ==
  ASSUME NEW s, NEW h, NEW w \in GwType, SyncSound(s, h, w), NEW p, NEW v,
         Passed(s, w, p, v), NEW k, HandsSync(s, h, p, k, w)
  PROVE  SyncSound(p, k, v)
<1>1. SyncSound(p, k, w)
  BY HandsSynced
<1>2. v \in GwType /\ SameRequests(w, v) /\ v.syncing = w.syncing /\ v.asleep = w.asleep
  BY DEF Passed, DoneFrom, WokenFrom
<1> QED
  BY <1>1, <1>2, SameSync

LEMMA OnSync ==
  ASSUME NEW s, NEW h, NEW w \in GwType, SyncSound(s, h, w), NEW r \in Syncers,
         SleepSound(s, h, w, r)
  PROVE  SyncSound(s, h, SyncOn(w, r))
<1> DEFINE v == SyncOn(w, r)
<1>1. /\ v \in GwType /\ v.wpc = w.wpc /\ v.kind = w.kind
      /\ v.group = w.group /\ v.peek = w.peek
      /\ v.syncing = w.syncing \cup {r} /\ v.asleep = w.asleep \cup {r}
  BY SyncIs
<1> HIDE DEF v
<1>2. SameRequests(w, v)
  BY <1>1 DEF SameRequests
<1>3. /\ \A K : Inside(v, K) = Inside(w, K)
      /\ \A t : Refs(v, t) = Refs(w, t)
      /\ \A g : GroupRefs(v, g) = GroupRefs(w, g)
      /\ PoolRefs(v) = PoolRefs(w)
  BY <1>1, <1>2, SameInside
<1>4. Inside(v, GroupKinds) = Inside(w, GroupKinds)
  BY <1>3
<1>5. v.asleep \subseteq v.syncing
  BY <1>1 DEF SyncSound
<1>6. \A x \in v.syncing \cap Runners :
        h[x].leaving = NoTask => h[x].q = <<>> /\ h[x].deleting # NoGroup
  BY <1>1 DEF SyncSound, SleepSound
<1>7. Shutdown \in v.syncing => s.destroying
  BY <1>1 DEF SyncSound, SleepSound
<1>8. \A x \in v.asleep \cap Runners :
        IF h[x].leaving # NoTask THEN Refs(w, h[x].leaving) # {}
        ELSE GroupRefs(w, h[x].deleting) # {}
  BY <1>1 DEF SyncSound, SleepSound
<1>9. Shutdown \in v.asleep => PoolRefs(w) # {}
  BY <1>1 DEF SyncSound, SleepSound
<1>10. SyncSound(s, h, v)
  BY <1>3, <1>4, <1>5, <1>6, <1>7, <1>8, <1>9 DEF SyncSound
<1> QED
  BY <1>10 DEF v

LEMMA OffSync ==
  ASSUME NEW s, NEW h, NEW w \in GwType, SyncSound(s, h, w), NEW r \in Syncers
  PROVE  SyncSound(s, h, SyncOff(w, r))
<1> DEFINE v == SyncOff(w, r)
<1>1. /\ v \in GwType /\ v.wpc = w.wpc /\ v.kind = w.kind
      /\ v.group = w.group /\ v.peek = w.peek
      /\ v.syncing = w.syncing \ {r} /\ v.asleep = w.asleep \ {r}
  BY SyncIs
<1> HIDE DEF v
<1>2. SameRequests(w, v)
  BY <1>1 DEF SameRequests
<1>3. /\ \A K : Inside(v, K) = Inside(w, K)
      /\ \A t : Refs(v, t) = Refs(w, t)
      /\ \A g : GroupRefs(v, g) = GroupRefs(w, g)
      /\ PoolRefs(v) = PoolRefs(w)
  BY <1>1, <1>2, SameInside
<1>4. Inside(v, GroupKinds) = Inside(w, GroupKinds)
  BY <1>3
<1>5. SyncSound(s, h, v)
  BY <1>1, <1>3, <1>4 DEF SyncSound
<1> QED
  BY <1>5 DEF v

\* Somebody who did not wait has begun to, or has changed its request.
LEMMA ApartSync ==
  ASSUME NEW s, NEW h, NEW w \in GwType, SyncSound(s, h, w), NEW x \in Callers,
         w.wpc[x] = "out", NEW v, Apart(w, v, x), v.asleep = w.asleep,
         s.destroying => v.wpc[x] = "out" \/ v.kind[x] \notin GroupKinds
  PROVE  SyncSound(s, h, v)
<1>1. /\ v \in GwType /\ v.syncing = w.syncing
      /\ \A y \in Callers : y # x =>
            /\ v.wpc[y] = w.wpc[y] /\ v.kind[y] = w.kind[y]
            /\ v.group[y] = w.group[y] /\ v.peek[y] = w.peek[y]
  BY DEF Apart
<1>2. ASSUME NEW K
      PROVE  Inside(w, K) \subseteq Inside(v, K) /\ x \notin Inside(w, K)
  BY <1>1 DEF Inside
<1>3. \A t : Refs(w, t) \subseteq Refs(v, t)
  <2>1. /\ Inside(w, EntryTaskKinds) \subseteq Inside(v, EntryTaskKinds)
        /\ x \notin Inside(w, EntryTaskKinds)
    BY <1>2
  <2>2. \A y \in Inside(w, EntryTaskKinds) : v.peek[y] = w.peek[y]
    BY <1>1, <2>1 DEF Inside
  <2> QED
    BY <2>1, <2>2 DEF Refs
<1>4. \A g : GroupRefs(w, g) \subseteq GroupRefs(v, g)
  <2> DEFINE K == EntryTaskKinds \cup {"group_throttle"}
  <2>1. Inside(w, K) \subseteq Inside(v, K) /\ x \notin Inside(w, K)
    BY <1>2
  <2>2. \A y \in Inside(w, K) : v.group[y] = w.group[y]
    BY <1>1, <2>1 DEF Inside
  <2> HIDE DEF K
  <2>3. \A g : InGroup(w, K, g) \subseteq InGroup(v, K, g)
    BY <2>1, <2>2 DEF InGroup
  <2> QED
    BY <2>3 DEF GroupRefs, K
<1>5. PoolRefs(w) \subseteq PoolRefs(v)
  <2>1. /\ Inside(w, EntryTaskKinds \cup PoolKinds)
              \subseteq Inside(v, EntryTaskKinds \cup PoolKinds)
        /\ Inside(w, {"pool_throttle"}) \subseteq Inside(v, {"pool_throttle"})
    BY <1>2
  <2> QED
    BY <2>1 DEF PoolRefs, TaskRefs
<1>6. s.destroying => Inside(v, GroupKinds) = {}
  <2> SUFFICES ASSUME s.destroying, NEW y \in Inside(v, GroupKinds)
               PROVE  FALSE
    OBVIOUS
  <2>1. y \in Callers /\ v.wpc[y] # "out" /\ v.kind[y] \in GroupKinds
    BY DEF Inside
  <2>2. y # x
    BY <2>1
  <2>3. y \in Inside(w, GroupKinds)
    BY <1>1, <2>1, <2>2 DEF Inside, GwType, WaitLocation
  <2> QED
    BY <2>3 DEF SyncSound
<1>7. \A r \in v.asleep \cap Runners :
        IF h[r].leaving # NoTask THEN Refs(v, h[r].leaving) # {}
        ELSE GroupRefs(v, h[r].deleting) # {}
  <2> SUFFICES ASSUME NEW r \in v.asleep \cap Runners
               PROVE  IF h[r].leaving # NoTask THEN Refs(v, h[r].leaving) # {}
                      ELSE GroupRefs(v, h[r].deleting) # {}
    OBVIOUS
  <2>1. IF h[r].leaving # NoTask THEN Refs(w, h[r].leaving) # {}
        ELSE GroupRefs(w, h[r].deleting) # {}
    BY DEF SyncSound
  <2>2. /\ Refs(w, h[r].leaving) \subseteq Refs(v, h[r].leaving)
        /\ GroupRefs(w, h[r].deleting) \subseteq GroupRefs(v, h[r].deleting)
    BY <1>3, <1>4
  <2> QED
    BY <2>1, <2>2
<1>8. Shutdown \in v.asleep => PoolRefs(v) # {}
  BY <1>5 DEF SyncSound
<1> QED
  BY <1>1, <1>6, <1>7, <1>8 DEF SyncSound

\* Whoever leaves wakes those who wait for it, when it is the last.
LEMMA LeftSync ==
  ASSUME NEW w, WaitSound(gp, run, w), SyncSound(gp, run, w), NEW x \in Callers,
         w.wpc[x] # "out", NEW v \in GwType, Left(w, v, x)
  PROVE  SyncSound(gp, run, v)
<1> DEFINE k == w.kind[x]
           g == w.group[x]
           t == w.peek[x]
<1>1. /\ w \in GwType /\ v.wpc[x] = "out" /\ v.syncing = w.syncing
      /\ \A y \in Callers : y # x =>
            /\ v.wpc[y] = w.wpc[y] /\ v.kind[y] = w.kind[y]
            /\ v.group[y] = w.group[y] /\ v.peek[y] = w.peek[y]
      /\ v.asleep = {} \/ Unsaid(w, x, v)
  BY DEF WaitSound, Left, Apart
<1>2. RequestSound(gp, w, x)
  BY DEF WaitSound, Requests
<1>3. v.asleep \subseteq w.asleep
  BY <1>1 DEF Unsaid
<1>4. ASSUME NEW K, NEW y \in Inside(w, K), y # x
      PROVE  y \in Inside(v, K) /\ v.peek[y] = w.peek[y] /\ v.group[y] = w.group[y]
  BY <1>1, <1>4 DEF Inside
<1>5. gp.destroying => Inside(v, GroupKinds) = {}
  <2> SUFFICES ASSUME gp.destroying, NEW y \in Inside(v, GroupKinds)
               PROVE  FALSE
    OBVIOUS
  <2>1. y \in Callers /\ v.wpc[y] \in {"parked", "woken"} /\ v.kind[y] \in GroupKinds
    BY DEF Inside
  <2>2. y # x
    BY <1>1, <2>1
  <2>3. y \in Inside(w, GroupKinds)
    BY <1>1, <2>1, <2>2 DEF Inside
  <2> QED
    BY <2>3 DEF SyncSound
<1>6. ASSUME NEW r \in v.asleep \cap Runners
      PROVE  IF run[r].leaving # NoTask THEN Refs(v, run[r].leaving) # {}
             ELSE GroupRefs(v, run[r].deleting) # {}
  <2>1. /\ r \in w.asleep \cap Runners /\ r \in w.syncing \cap Runners
        /\ Unsaid(w, x, v)
    BY <1>1, <1>3 DEF SyncSound
  <2>2. CASE run[r].leaving # NoTask
    <3> DEFINE a == run[r].leaving
    <3>1. PICK y : y \in Refs(w, a)
      BY <2>1, <2>2 DEF SyncSound
    <3>2. y \in Inside(w, EntryTaskKinds) /\ w.peek[y] = a
      BY <3>1 DEF Refs
    <3>3. CASE y # x
      BY <1>4, <2>2, <3>2, <3>3 DEF Refs
    <3>4. CASE y = x
      <4>1. t = a /\ k \in TaskKinds
        BY <1>2, <2>2, <3>2, <3>4 DEF RequestSound
      <4>2. Refs(v, t) # {}
        BY <2>1, <4>1 DEF Unsaid
      <4> QED
        BY <2>2, <4>1, <4>2
    <3> QED
      BY <3>3, <3>4
  <2>3. CASE run[r].leaving = NoTask
    <3> DEFINE d == run[r].deleting
    <3>1. d # NoGroup /\ gp.entry[d].used = "destroying"
      BY <2>1, <2>3 DEF SyncSound, WaitSound, Deletions
    <3>2. PICK y : y \in GroupRefs(w, d)
      BY <2>1, <2>3 DEF SyncSound
    <3>3. y \in Inside(w, EntryTaskKinds \cup {"group_throttle"}) /\ w.group[y] = d
      BY <3>2 DEF GroupRefs, InGroup
    <3> HIDE DEF d
    <3>4. CASE y # x
      <4>1. y \in GroupRefs(v, d)
        BY <1>4, <3>3, <3>4 DEF GroupRefs, InGroup
      <4> QED
        BY <2>3, <4>1 DEF d
    <3>5. CASE y = x
      <4>1. g = d /\ k \in EntryTaskKinds \cup {"group_throttle"}
        BY <3>3, <3>5 DEF Inside
      <4>2. k \notin PoolKinds \cup {"pool_throttle"}
        BY <4>1 DEF EntryTaskKinds, PoolKinds
      <4>3. GroupRefs(v, g) # {}
        BY <2>1, <3>1, <4>1, <4>2 DEF Unsaid
      <4> QED
        BY <2>3, <4>1, <4>3 DEF d
    <3> QED
      BY <3>4, <3>5
  <2> QED
    BY <2>2, <2>3
<1>7. ASSUME Shutdown \in v.asleep
      PROVE  PoolRefs(v) # {}
  <2>1. Unsaid(w, x, v) /\ gp.destroying /\ PoolRefs(w) # {}
    BY <1>1, <1>3, <1>7 DEF SyncSound
  <2>2. PICK y : y \in PoolRefs(w)
    BY <2>1
  <2>3. CASE y # x
    <3>1. \/ y \in Inside(v, EntryTaskKinds \cup PoolKinds)
          \/ y \in Inside(v, {"pool_throttle"})
      BY <1>4, <2>2, <2>3 DEF PoolRefs, TaskRefs
    <3> QED
      BY <3>1 DEF PoolRefs, TaskRefs
  <2>4. CASE y = x
    <3>1. x \notin Inside(w, GroupKinds)
      BY <2>1 DEF SyncSound
    <3>2. k \notin GroupKinds
      BY <1>1, <3>1, InsideIs
    <3>3. k \in EntryTaskKinds \cup PoolKinds \cup {"pool_throttle"}
      BY <2>2, <2>4 DEF PoolRefs, TaskRefs, Inside
    <3>4. k \in PoolKinds \cup {"pool_throttle"}
      BY <3>2, <3>3 DEF GroupKinds
    <3> QED
      BY <2>1, <3>4 DEF Unsaid
  <2> QED
    BY <2>3, <2>4
<1>8. /\ v.asleep \subseteq v.syncing
      /\ \A r \in Runners : run[r].leaving # NoTask => run[r].detached
      /\ \A r \in v.syncing \cap Runners :
            run[r].leaving = NoTask => run[r].q = <<>> /\ run[r].deleting # NoGroup
      /\ Shutdown \in v.syncing => gp.destroying
      /\ gp.destroying => \A r \in Runners : run[r].deleting = NoGroup
  BY <1>1, <1>3 DEF SyncSound
<1> QED
  BY <1>5, <1>6, <1>7, <1>8 DEF SyncSound

LEMMA TurnSync ==
  ASSUME Held(gp, run), WaitSound(gp, run, gw), SyncSound(gp, run, gw),
         NEW x \in Callers, WaitTurn(x)
  PROVE  SyncSound(gp, run, gw')
<1>1. PICK u \in GwType : /\ Left(gw, u, x)
                          /\ Leaves(u, gw', x) \/ Stays(gp, u, gw', x)
  BY TurnIs
<1>2. gw \in GwType /\ gw.wpc[x] # "out"
  BY TurnIs DEF WaitSound
<1>3. SyncSound(gp, run, u) /\ u.wpc[x] = "out" /\ u.kind[x] = gw.kind[x]
  BY <1>1, <1>2, LeftSync DEF Left, SameAsked
<1>4. CASE Leaves(u, gw', x)
  BY <1>1, <1>3, <1>4, ApartSync DEF Leaves
<1>5. CASE Stays(gp, u, gw', x)
  <2>1. gp.destroying => gw.kind[x] \notin GroupKinds
    <3>1. gp.destroying => x \notin Inside(gw, GroupKinds)
      BY DEF SyncSound
    <3> QED
      BY <1>2, <3>1, InsideIs
  <2>2. Apart(u, gw', x) /\ gw'.asleep = u.asleep /\ gw'.kind[x] = gw.kind[x]
    BY <1>3, <1>5 DEF Stays
  <2> QED
    BY <1>1, <1>3, <2>1, <2>2, ApartSync
<1> QED
  BY <1>1, <1>4, <1>5

LEMMA BeginsSync ==
  ASSUME NEW s, NEW h, NEW w \in GwType, SyncSound(s, h, w), NEW x \in Callers, NEW v,
         Begins(s, w, v, x), ~s.destroying
  PROVE  SyncSound(s, h, v)
BY ApartSync DEF Begins

LEMMA InterruptedSync ==
  ASSUME NEW s, NEW h, NEW w \in GwType, SyncSound(s, h, w), NEW X \in SUBSET Callers
  PROVE  SyncSound(s, h, Interrupted(w, X))
<1> DEFINE v == Interrupted(w, X)
<1>1. WokenFrom(w, v)
  BY InterruptedIs
<1> HIDE DEF v
<1>2. SyncSound(s, h, v)
  BY <1>1, SameSync DEF WokenFrom
<1> QED
  BY <1>2 DEF v

LEMMA FreeOrSyncSync ==
  ASSUME Held(gp, run), NEW w, WaitSound(gp, run, w), SyncSound(gp, run, w),
         outdated = {}, NEW u \in Users, w.wpc[u] = "out", FreeOrSync(w, u),
         run[u].q = <<>>, run[u].deleting # NoGroup
  PROVE  SyncSound(gp', run', gw')
<1>1. w \in GwType /\ u \in Syncers /\ u \in Runners /\ u # Shutdown
  BY GpWaitAssumption DEF WaitSound, Syncers, Runners, Shutdown
<1> DEFINE g == run[u].deleting
<1>2. run[u].leaving = NoTask
  BY <1>1, IdleStays
<1>3. CASE gw' = SyncOn(w, u) /\ UNCHANGED gpvars /\ GroupRefs(w, g) # {}
  <2>1. SleepSound(gp, run, w, u)
    BY <1>1, <1>2, <1>3 DEF SleepSound
  <2>2. SyncSound(gp, run, gw')
    BY <1>1, <1>3, <2>1, OnSync
  <2> QED
    BY <1>3, <2>2 DEF gpvars
<1>4. CASE /\ gw' = SyncOff(w, u) /\ SameOthers(gp, gp', g)
           /\ \A r \in Runners : r # u => run'[r] = run[r]
           /\ run'[u].deleting = NoGroup /\ run'[u].leaving = run[u].leaving
  <2>1. SyncSound(gp, run, gw')
    BY <1>1, <1>4, OffSync
  <2>2. u \notin gw'.syncing
    BY <1>1, <1>4, SyncIs
  <2>3. HandsSync(gp, run, gp', run', gw')
    BY <1>1, <1>2, <1>4, <2>2 DEF HandsSync, SameOthers
  <2> QED
    BY <2>1, <2>3, HandsSynced
<1> QED
  BY <1>3, <1>4, FreeOrSyncIs

LEMMA DeletesSync ==
  ASSUME Held(gp, run), WaitSound(gp, run, gw), ~gw.shut, SyncSound(gp, run, gw),
         outdated = {}, NEW u \in Users, Deletes(u)
  PROVE  SyncSound(gp', run', gw')
<1>1. ASSUME NEW v, WaitSound(gp, run, v), v.wpc[u] = "out", SyncSound(gp, run, v),
             NEW X \in SUBSET Callers, FreeOrSync(Interrupted(v, X), u),
             run[u].q = <<>>, run[u].deleting # NoGroup
      PROVE  SyncSound(gp', run', gw')
  <2> DEFINE w == Interrupted(v, X)
  <2>1. WaitSound(gp, run, w) /\ v \in GwType
    BY <1>1, InterruptedSound DEF WaitSound
  <2>2. SyncSound(gp, run, w) /\ WokenFrom(v, w)
    BY <1>1, <2>1, InterruptedSync, InterruptedIs
  <2>3. w.wpc[u] = "out"
    BY <1>1, <2>2 DEF WokenFrom, SameRequests, Callers
  <2> HIDE DEF w
  <2>4. FreeOrSync(w, u)
    BY <1>1 DEF w
  <2> QED
    BY <1>1, <2>1, <2>2, <2>3, <2>4, FreeOrSyncSync
<1>2. gw \in GwType /\ u \in Callers /\ u \in Runners
  BY DEF WaitSound, Callers, Runners
<1>3. run[u].deleting # NoGroup => ~gp.destroying
  BY <1>2 DEF SyncSound
<1>4. CASE DeleteWaits(u)
  <2>1. run[u].q = <<>> /\ run[u].deleting # NoGroup /\ gw.wpc[u] = "out"
    BY <1>4, DeleteWaitsIs
  <2>2. CASE /\ Begins(gp, gw, gw', u) /\ UNCHANGED gpvars
             /\ gw'.group[u] = run[u].deleting
    <3>1. SyncSound(gp, run, gw')
      BY <1>2, <1>3, <2>1, <2>2, BeginsSync
    <3> QED
      BY <2>2, <3>1 DEF gpvars
  <2>3. CASE \E X \in SUBSET Callers : FreeOrSync(Interrupted(gw, X), u)
    BY <1>1, <2>1, <2>3
  <2> QED
    BY <1>4, <2>2, <2>3, DeleteWaitsIs
<1>5. CASE DeleteTurn(u)
  <2>1. gw.wpc[u] # "out" /\ run[u].q = <<>> /\ run[u].deleting # NoGroup
    BY <1>5, DeleteTurnIs
  <2>2. PICK l \in GwType, v \in GwType, X \in SUBSET Callers :
            /\ Left(gw, l, u) /\ Leaves(l, v, u) /\ v.wpc[u] = "out"
            /\ WaitSound(gp, run, v) /\ FreeOrSync(Interrupted(v, X), u)
    BY <1>5, DeleteTurnIs
  <2>3. SyncSound(gp, run, l) /\ l.wpc[u] = "out"
    BY <1>2, <2>1, <2>2, LeftSync DEF Left
  <2>4. SyncSound(gp, run, v)
    BY <1>2, <2>2, <2>3, ApartSync DEF Leaves
  <2> QED
    BY <1>1, <2>1, <2>2, <2>4
<1>6. CASE DeleteSyncTurn(u)
  <2>1. /\ u \in gw.syncing /\ FreeOrSync(gw, u)
        /\ run[u].q = <<>> /\ run[u].deleting # NoGroup
    BY <1>6 DEF DeleteSyncTurn
  <2>2. gw.wpc[u] = "out"
    BY <1>2, <2>1 DEF WaitSound, Requests
  <2> QED
    BY <2>1, <2>2, FreeOrSyncSync
<1> QED
  BY <1>4, <1>5, <1>6 DEF Deletes

LEMMA DetachSync ==
  ASSUME Held(gp, run), WaitSound(gp, run, gw), SyncSound(gp, run, gw),
         NEW r \in Runners, Detach(r) \/ DetachTurn(r) \/ DetachReturns(r)
  PROVE  SyncSound(gp', run', gw')
<1>1. r \in Syncers /\ gw \in GwType /\ r # Shutdown
  BY GpWaitAssumption DEF Syncers, WaitSound, Runners, Shutdown
<1>2. CASE Detach(r)
  <2> DEFINE t == run[r].q[1]
  <2>1. /\ Passed(gp, gw, gp', TasksDone) /\ Calm(gp, gp') /\ t \in Tasks
        /\ \/ gw' = TasksDone /\ Refs(gw, t) = {}
           \/ gw' = SyncOn(TasksDone, r) /\ Refs(gw, t) # {}
        /\ \A x \in Runners : /\ run'[x].deleting = run[x].deleting
                              /\ x # r => run'[x] = run[x]
        /\ run'[r].leaving = t /\ run'[r].detached /\ run[r].q # <<>>
    BY <1>2, DetachPassed
  <2>2. r \notin gw.syncing
    BY <1>2, <2>1 DEF SyncSound, Detach
  <2>3. \A x \in Runners : gp.destroying => run'[x].deleting = NoGroup
    BY <2>1 DEF SyncSound
  <2>4. HandsSync(gp, run, gp', run', gw)
    BY <2>1, <2>2, <2>3 DEF HandsSync, Calm
  <2>5. SyncSound(gp', run', TasksDone)
    BY <1>1, <2>1, <2>4, PassedSync
  <2>6. CASE gw' = TasksDone
    BY <2>5, <2>6
  <2>7. CASE gw' = SyncOn(TasksDone, r) /\ Refs(gw, t) # {}
    <3>1. TasksDone \in GwType /\ SameRequests(gw, TasksDone)
      BY <2>1 DEF Passed, DoneFrom, WokenFrom
    <3>2. Refs(TasksDone, t) # {}
      BY <1>1, <2>7, <3>1, SameInside
    <3>3. t # NoTask
      BY <2>1, GpAssumption
    <3> HIDE DEF t
    <3>4. SleepSound(gp', run', TasksDone, r)
      BY <1>1, <2>1, <3>2, <3>3 DEF SleepSound
    <3> QED
      BY <1>1, <2>5, <2>7, <3>1, <3>4, OnSync
  <2> QED
    BY <2>1, <2>6, <2>7
<1>3. CASE DetachTurn(r)
  <2>1. /\ gp' = gp /\ run' = run /\ run[r].leaving # NoTask
        /\ gw' = IF Refs(gw, run[r].leaving) = {} THEN SyncOff(gw, r) ELSE SyncOn(gw, r)
    BY <1>3 DEF DetachTurn, gpvars
  <2>2. CASE Refs(gw, run[r].leaving) = {}
    BY <1>1, <2>1, <2>2, OffSync
  <2>3. CASE Refs(gw, run[r].leaving) # {}
    <3>1. SleepSound(gp, run, gw, r)
      BY <1>1, <2>1, <2>3 DEF SleepSound
    <3> QED
      BY <1>1, <2>1, <2>3, <3>1, OnSync
  <2> QED
    BY <2>2, <2>3
<1>4. CASE DetachReturns(r)
  <2>1. /\ Passed(gp, gw, gp', gw') /\ Calm(gp, gp') /\ r \notin gw.syncing
        /\ \A x \in Runners : /\ run'[x].deleting = run[x].deleting
                              /\ x # r => run'[x] = run[x]
        /\ run'[r].leaving = NoTask
    BY <1>4, DetachReturnsPassed
  <2>2. \A x \in Runners : gp.destroying => run'[x].deleting = NoGroup
    BY <2>1 DEF SyncSound
  <2>3. HandsSync(gp, run, gp', run', gw)
    BY <2>1, <2>2 DEF HandsSync, Calm
  <2> QED
    BY <1>1, <2>1, <2>3, PassedSync
<1> QED
  BY <1>2, <1>3, <1>4

LEMMA CallsSync ==
  ASSUME "release" \in Careful, Held(gp, run), WaitSound(gp, run, gw), ~gw.shut,
         SyncSound(gp, run, gw), NEW x \in Waiters, Calls(x)
  PROVE  SyncSound(gp', run', gw')
<1>1. x \in Callers /\ x \in Syncers /\ gw \in GwType /\ x \notin Runners /\ x # Shutdown
  BY GpWaitAssumption DEF Callers, Syncers, WaitSound, Shutdown
<1>2. CASE WaitTask(x) \/ WaitTasks(x) \/ WaitThrottle(x)
  <2>1. gp' = gp /\ run' = run
    BY <1>2 DEF WaitTask, WaitTasks, WaitThrottle, gpvars
  <2>2. Begins(gp, gw, gw', x) /\ ~gp.destroying
    BY <1>2, WaitTaskBegins, WaitTasksBegins, WaitThrottleBegins
  <2>3. SyncSound(gp, run, gw')
    BY <1>1, <2>2, BeginsSync
  <2> QED
    BY <2>1, <2>3
<1>3. CASE SuspendWaits(x)
  <2>1. /\ Begins(gp', gw, gw', x) /\ ~gp.destroying /\ run' = run
        /\ SameTasks(gp, gp') /\ Calm(gp, gp')
    BY <1>3, SuspendWaitsBegins
  <2>2. HandsSync(gp, run, gp', run, gw) /\ ~gp'.destroying
    BY <2>1 DEF HandsSync, Calm
  <2>3. SyncSound(gp', run, gw)
    BY <2>2, HandsSynced
  <2> QED
    BY <1>1, <2>1, <2>2, <2>3, BeginsSync
<1>4. CASE Wsync(x)
  <2>1. PICK v : Asks(gw, v, x) /\ gw' = SyncOn(v, x) /\ WaitSound(gp, run, v)
    BY <1>4, WsyncIs
  <2>2. gw.wpc[x] = "out" /\ gp' = gp /\ run' = run
    BY <1>4, WsyncIs DEF gpvars
  <2>3. Apart(gw, v, x) /\ v.wpc[x] = "out" /\ v \in GwType /\ v.asleep = gw.asleep
    BY <2>1, <2>2 DEF Asks, Apart
  <2>4. SyncSound(gp, run, v)
    BY <1>1, <2>2, <2>3, ApartSync
  <2>5. SleepSound(gp, run, v, x)
    BY <1>1 DEF SleepSound
  <2>6. SyncSound(gp, run, gw')
    BY <1>1, <2>1, <2>3, <2>4, <2>5, OnSync
  <2> QED
    BY <2>2, <2>6
<1> QED
  BY <1>2, <1>3, <1>4 DEF Calls

LEMMA WsyncTurnSync ==
  ASSUME WaitSound(gp, run, gw), ~gw.shut, SyncSound(gp, run, gw),
         NEW x \in Waiters, WsyncTurn(x)
  PROVE  SyncSound(gp', run', gw')
<1>1. /\ x \in Callers /\ x \in Syncers /\ gw \in GwType /\ gp' = gp /\ run' = run
      /\ gw.wpc[x] = "out"
  BY WsyncTurnIs DEF Callers, Syncers, WaitSound, gpvars
<1>2. x \notin Runners /\ x # Shutdown
  BY GpWaitAssumption DEF Shutdown
<1>3. PICK v : /\ \/ v = gw /\ gw' = SyncOn(v, x)
                  \/ Leaves(gw, v, x) /\ gw' = SyncOff(v, x)
               /\ WaitSound(gp, run, v)
  BY WsyncTurnIs
<1>4. v \in GwType /\ SyncSound(gp, run, v)
  BY <1>1, <1>3, ApartSync DEF WaitSound, Leaves
<1>5. SleepSound(gp, run, v, x)
  BY <1>2 DEF SleepSound
<1>6. SyncSound(gp, run, gw')
  BY <1>1, <1>3, <1>4, <1>5, OnSync, OffSync
<1> QED
  BY <1>1, <1>6

LEMMA ReleaseSync ==
  ASSUME "release" \in Careful, Held(gp, run), WaitSound(gp, run, gw),
         SyncSound(gp, run, gw), ReleasePool
  PROVE  SyncSound(gp', run', gw')
<1>1. /\ Passed(gp, gw, gp', gw') /\ run' = run /\ gw \in GwType
      /\ \A r \in Runners : run[r].deleting = NoGroup
      /\ Inside(gw, GroupKinds) = {}
  BY ReleasePassed DEF WaitSound
<1>2. gp'.destroying
  BY ReleasePoolHeld
<1>3. SyncSound(gp', run, gw)
  BY <1>1, <1>2 DEF SyncSound
<1>4. /\ gw' \in GwType /\ SameRequests(gw, gw') /\ gw'.syncing = gw.syncing
      /\ gw'.asleep = gw.asleep
  BY <1>1 DEF Passed, DoneFrom, WokenFrom
<1>5. SyncSound(gp', run, gw')
  BY <1>1, <1>3, <1>4, SameSync
<1> QED
  BY <1>1, <1>5

LEMMA SyncsSync ==
  ASSUME WaitSound(gp, run, gw), SyncSound(gp, run, gw), Syncs
  PROVE  SyncSound(gp', run', gw')
<1>1. UNCHANGED gpvars
  BY SyncsIs
<1>2. PICK w : /\ WaitSound(gp, run, w) /\ ShutOrSync(w)
               /\ \/ w = gw /\ Shutdown \in gw.syncing
                  \/ /\ \E X \in SUBSET Callers : w = Interrupted(gw, X)
                     /\ gp.destroying
  BY SyncsIs
<1>3. gw \in GwType /\ w \in GwType
  BY <1>2 DEF WaitSound
<1>4. SyncSound(gp, run, w) /\ gp.destroying
  <2>1. SyncSound(gp, run, w)
    BY <1>2, <1>3, InterruptedSync
  <2>2. gp.destroying
    BY <1>2 DEF SyncSound
  <2> QED
    BY <2>1, <2>2
<1>5. /\ WaitSound(gp, run, gw') /\ SameRequests(w, gw')
      /\ \/ /\ gw'.syncing = w.syncing \cup {Shutdown} /\ PoolRefs(w) # {}
            /\ gw'.asleep = w.asleep \cup {Shutdown}
         \/ /\ gw'.syncing = w.syncing \ {Shutdown}
            /\ gw'.asleep = w.asleep \ {Shutdown}
  BY <1>2, ShutOrSyncIs
<1>6. gw' \in GwType /\ Shutdown \notin Runners
  BY <1>5, GpWaitAssumption DEF WaitSound, Shutdown
<1>7. /\ \A K : Inside(gw', K) = Inside(w, K)
      /\ \A t : Refs(gw', t) = Refs(w, t)
      /\ \A g : GroupRefs(gw', g) = GroupRefs(w, g)
      /\ PoolRefs(gw') = PoolRefs(w)
  BY <1>3, <1>5, <1>6, SameInside
<1>8. Inside(gw', GroupKinds) = Inside(w, GroupKinds)
  BY <1>7
<1>9. SyncSound(gp, run, gw')
  <2>1. gw'.syncing \cap Runners = w.syncing \cap Runners
    BY <1>5, <1>6
  <2>2. gw'.asleep \cap Runners = w.asleep \cap Runners
    BY <1>5, <1>6
  <2>3. gw'.asleep \subseteq gw'.syncing
    BY <1>4, <1>5 DEF SyncSound
  <2>4. Shutdown \in gw'.asleep => PoolRefs(w) # {}
    BY <1>5
  <2> QED
    BY <1>4, <1>7, <1>8, <2>1, <2>2, <2>3, <2>4 DEF SyncSound
<1> QED
  BY <1>1, <1>9 DEF gpvars

LEMMA SyncNext ==
  ASSUME TRUE \notin Suspended, "release" \in Careful,
         Held(gp, run), WaitSound(gp, run, gw), SyncSound(gp, run, gw),
         outdated = {}, [GwNext]_gwvars
  PROVE  SyncSound(gp', run', gw')
<1>1. gw \in GwType
  BY DEF WaitSound
<1>2. ASSUME Passed(gp, gw, gp', gw'), gp'.destroying = gp.destroying,
             HandsKept(run, run')
      PROVE  SyncSound(gp', run', gw')
  BY <1>1, <1>2, HandsKeptSync, PassedSync
<1>3. ASSUME SyncSound(gp, run, gw'), UNCHANGED gpvars
      PROVE  SyncSound(gp', run', gw')
  BY <1>3 DEF gpvars
<1>4. CASE TaskStep
  BY <1>2, <1>4, TaskStepPassed DEF Calm
<1>5. CASE OtherCall
  BY <1>2, <1>5, OtherCallPassed DEF Calm
<1>6. CASE QueueStep
  <2>1. /\ DoneFrom(gp, gw, gp', gw') /\ run' = run /\ Calm(gp, gp')
    BY <1>6, QueueStepPassed
  <2>2. HandsSync(gp, run, gp', run, gw)
    BY <2>1 DEF HandsSync, Calm
  <2>3. SyncSound(gp', run, gw)
    BY <2>2, HandsSynced
  <2>4. SyncSound(gp', run, gw')
    BY <1>1, <2>1, <2>3, SameSync DEF DoneFrom, WokenFrom
  <2> QED
    BY <2>1, <2>4
<1>7. ASSUME NEW x \in Callers, WaitTurn(x)
      PROVE  SyncSound(gp', run', gw')
  BY <1>3, <1>7, TurnSync, TurnIs
<1>8. ASSUME NEW x \in Callers, Wakeup(x)
      PROVE  SyncSound(gp', run', gw')
  <2>1. UNCHANGED gpvars /\ gw' = Interrupted(gw, {x}) /\ {x} \in SUBSET Callers
    BY <1>8, WakeupIs
  <2>2. SyncSound(gp, run, gw')
    BY <1>1, <2>1, InterruptedSync
  <2> QED
    BY <1>3, <2>1, <2>2
<1>9. ASSUME NEW x \in Waiters, Calls(x), ~gw.shut
      PROVE  SyncSound(gp', run', gw')
  BY <1>9, CallsSync
<1>10. ASSUME NEW x \in Waiters, TimesOut(x)
       PROVE  SyncSound(gp', run', gw')
  <2>1. WokenFrom(gw, gw') /\ UNCHANGED gpvars
    BY <1>1, <1>10, TimesOutIs
  <2>2. SyncSound(gp, run, gw')
    BY <1>1, <2>1, SameSync DEF WokenFrom
  <2> QED
    BY <1>3, <2>1, <2>2
<1>11. ASSUME NEW x \in Waiters, WsyncTurn(x), ~gw.shut
       PROVE  SyncSound(gp', run', gw')
  BY <1>11, WsyncTurnSync
<1>12. ASSUME NEW u \in Users, Deletes(u), ~gw.shut
       PROVE  SyncSound(gp', run', gw')
  BY <1>12, DeletesSync
<1>13. ASSUME NEW u \in Users, NEW g \in Ids, DeleteStarts(u, g)
       PROVE  SyncSound(gp', run', gw')
  <2>1. /\ Passed(gp, gw, gp', gw') /\ gp'.destroying = gp.destroying
        /\ run[u].deleting = NoGroup /\ run[u].leaving = NoTask /\ u \in Runners
        /\ run'[u].leaving = NoTask
        /\ \A r \in Runners : r # u => run'[r] = run[r]
    BY <1>13, DeleteStartsPassed
  <2>2. ~gp.destroying
    BY <1>13 DEF DeleteStarts
  <2>3. u \notin gw.syncing
    BY <2>1 DEF SyncSound
  <2>4. HandsSync(gp, run, gp', run', gw)
    BY <2>1, <2>2, <2>3 DEF HandsSync
  <2> QED
    BY <1>1, <2>1, <2>4, PassedSync
<1>14. ASSUME NEW b \in BOOLEAN,
              PausePool(b) \/ ThrottlePool(b) \/ \E g \in Ids : ThrottleGroup(g, b)
       PROVE  SyncSound(gp', run', gw')
  BY <1>2, <1>14, SwitchPassed
<1>15. ASSUME NEW r \in Runners, Detach(r) \/ DetachTurn(r) \/ DetachReturns(r)
       PROVE  SyncSound(gp', run', gw')
  BY <1>15, DetachSync
<1>16. CASE ReleasePool
  BY <1>16, ReleaseSync
<1>17. CASE Syncs
  BY <1>17, SyncsSync
<1>18. CASE UNCHANGED gwvars
  BY <1>18 DEF gwvars, waitvars, gpvars
<1> QED
  BY <1>4, <1>5, <1>6, <1>7, <1>8, <1>9, <1>10, <1>11, <1>12, <1>13, <1>14, <1>15,
     <1>16, <1>17, <1>18 DEF GwNext, GwStep

LEMMA SyncInit ==
  ASSUME GwInit
  PROVE  SyncSound(gp, run, gw)
<1>1. /\ \A x \in Callers : gw.wpc[x] = "out"
      /\ gw.syncing = {} /\ gw.asleep = {}
      /\ \A r \in Runners : run[r].leaving = NoTask /\ run[r].deleting = NoGroup
  BY WaitInit
<1>2. Inside(gw, GroupKinds) = {}
  BY <1>1 DEF Inside
<1> QED
  BY <1>1, <1>2 DEF SyncSound

LEMMA SyncSoundTold ==
  ASSUME gw \in GwType, SyncSound(gp, run, gw)
  PROVE  SyncTold
<1> SUFFICES ASSUME NEW r \in gw.asleep, r \notin Waiters
             PROVE  IF r = Shutdown THEN PoolRefs(gw) # {}
                    ELSE IF run[r].leaving # NoTask THEN Refs(gw, run[r].leaving) # {}
                    ELSE GroupRefs(gw, run[r].deleting) # {}
  BY DEF SyncTold
<1>1. gw.asleep \subseteq Runners \cup Waiters \cup {Shutdown}
  BY DEF GwType, Syncers
<1>2. CASE r = Shutdown
  BY <1>2 DEF SyncSound
<1>3. CASE r # Shutdown
  <2>1. r \in gw.asleep \cap Runners
    BY <1>1, <1>3
  <2> QED
    BY <1>3, <2>1 DEF SyncSound
<1> QED
  BY <1>2, <1>3

\* Nobody sleeps on cond_sync for a reference that has gone: who detaches a task,
\* deletes a group or shuts the pool is woken by the last one that leaves
\* (__cpool_gp_w_waitl), when nobody uses groups of a pool that is released and the
\* table does not grow while somebody waits to delete a group.
THEOREM SyncToldAlways ==
  ASSUME TRUE \notin Suspended, "release" \in Careful, "grow" \in Careful
  PROVE  GwSpec => []SyncTold
<1> DEFINE Inv == Held(gp, run) /\ WaitSound(gp, run, gw) /\ SyncSound(gp, run, gw)
                  /\ outdated = {}
<1>1. GwInit => Inv
  BY WaitInit, SyncInit
<1>2. Inv /\ [GwNext]_gwvars => Inv'
  BY GwHeld, WaitNext, SyncNext, StaysFresh
<1>3. Inv => SyncTold
  BY SyncSoundTold DEF WaitSound
<1> QED
  BY <1>1, <1>2, <1>3, PTL DEF GwSpec

-----------------------------------------------------------------------------
(***************************************************************************)
(* Objects of the cache                                                    *)
(***************************************************************************)

LEMMA RefsIs ==
  ASSUME NEW w \in GwType, NEW t, NEW x \in Callers
  PROVE  x \in Refs(w, t) <=>
            w.wpc[x] # "out" /\ w.kind[x] \in EntryTaskKinds /\ w.peek[x] = t
<1>1. Inside(w, EntryTaskKinds) =
        {y \in Callers : w.wpc[y] # "out" /\ w.kind[y] \in EntryTaskKinds}
  BY InsideIs
<1> QED
  BY <1>1 DEF Refs

\* Only the references of x differ.
LEMMA ApartRefs ==
  ASSUME NEW w \in GwType, NEW x \in Callers, NEW v, Apart(w, v, x), NEW t,
         x \in Refs(v, t) <=> x \in Refs(w, t)
  PROVE  Refs(v, t) = Refs(w, t)
<1>1. v \in GwType
  BY DEF Apart
<1>2. \A y \in Callers : y \in Refs(v, t) <=> y \in Refs(w, t)
  <2> SUFFICES ASSUME NEW y \in Callers, y # x
               PROVE  y \in Refs(v, t) <=> y \in Refs(w, t)
    OBVIOUS
  <2>1. w.wpc[y] = v.wpc[y] /\ w.kind[y] = v.kind[y] /\ w.peek[y] = v.peek[y]
    BY DEF Apart
  <2> QED
    BY <1>1, <2>1, RefsIs
<1>3. Refs(v, t) \subseteq Callers /\ Refs(w, t) \subseteq Callers
  BY DEF Refs, Inside
<1> QED
  BY <1>2, <1>3

LEMMA SameCache ==
  ASSUME NEW s, NEW w \in GwType, CacheSound(s, w), NEW v \in GwType,
         SameRequests(w, v), v.cache = w.cache
  PROVE  CacheSound(s, v)
<1>1. \A t : Refs(v, t) = Refs(w, t)
  BY SameInside
<1> QED
  BY <1>1 DEF CacheSound

LEMMA PassedCache ==
  ASSUME NEW s, NEW w \in GwType, CacheSound(s, w), NEW p, NEW v, Passed(s, w, p, v)
  PROVE  CacheSound(p, v)
<1>1. /\ v \in GwType /\ SameRequests(w, v)
      /\ v.cache = w.cache \cup {t \in Ends(s, p) \cap Cached : Refs(w, t) = {}}
      /\ \A t \in Tasks : s.stat[t] = "idle" => p.stat[t] = "idle"
  BY DEF Passed, DoneFrom, WokenFrom, Recycles
<1>2. \A t : Refs(v, t) = Refs(w, t)
  BY <1>1, SameInside
<1> SUFFICES ASSUME NEW t \in Cached
             PROVE  t \in v.cache <=> (p.stat[t] = "idle" /\ Refs(v, t) = {})
  BY DEF CacheSound
<1>3. t \in Tasks
  BY GpWaitAssumption
<1>4. t \in w.cache <=> (s.stat[t] = "idle" /\ Refs(w, t) = {})
  BY DEF CacheSound
<1>5. p.stat[t] = "idle" <=> (s.stat[t] = "idle" \/ t \in Ends(s, p))
  BY <1>1, <1>3 DEF Ends
<1> QED
  BY <1>1, <1>2, <1>3, <1>4, <1>5

LEMMA QueueCache ==
  ASSUME Held(gp, run), WaitSound(gp, run, gw), CacheSound(gp, gw), QueueStep
  PROVE  CacheSound(gp', gw')
<1>1. PICK t \in Tasks, g \in Ids :
        /\ DoneFrom(gp, gw, gp', gw') /\ gw'.cache = gw.cache \ {t}
        /\ SameRequests(gw, gw') /\ QueuedFrom(gp, gp', t, g)
  BY QueueStepPassed
<1>2. gw \in GwType /\ gw' \in GwType
  BY <1>1 DEF WaitSound, DoneFrom, WokenFrom
<1>3. \A u : Refs(gw', u) = Refs(gw, u)
  BY <1>1, <1>2, SameInside
<1> SUFFICES ASSUME NEW u \in Cached
             PROVE  u \in gw'.cache <=> (gp'.stat[u] = "idle" /\ Refs(gw', u) = {})
  BY DEF CacheSound
<1>4. u \in Tasks /\ (u \in gw.cache <=> (gp.stat[u] = "idle" /\ Refs(gw, u) = {}))
  BY GpWaitAssumption DEF CacheSound
<1>5. CASE u = t
  BY <1>1, <1>5 DEF QueuedFrom
<1>6. CASE u # t
  BY <1>1, <1>3, <1>4, <1>6 DEF QueuedFrom
<1> QED
  BY <1>5, <1>6

\* x has begun to wait, for nothing or for a task that is not over.
LEMMA ApartCache ==
  ASSUME "group_cb" \notin Kinds, NEW s, NEW w \in GwType, CacheSound(s, w),
         NEW x \in Callers, w.wpc[x] = "out", NEW v, Apart(w, v, x), v.cache = w.cache,
         v.wpc[x] # "out" => RequestSound(s, v, x) /\ Unmet(s, v, x)
  PROVE  CacheSound(s, v)
<1>1. v \in GwType
  BY DEF Apart
<1> SUFFICES ASSUME NEW t \in Cached
             PROVE  t \in v.cache <=> (s.stat[t] = "idle" /\ Refs(v, t) = {})
  BY DEF CacheSound
<1>2. t \in Tasks /\ t # NoTask /\ (t \in w.cache <=> (s.stat[t] = "idle" /\ Refs(w, t) = {}))
  BY GpWaitAssumption, GpAssumption DEF CacheSound
<1>3. x \notin Refs(w, t)
  BY RefsIs
<1>4. CASE x \notin Refs(v, t)
  <2>1. Refs(v, t) = Refs(w, t)
    BY <1>3, <1>4, ApartRefs
  <2> QED
    BY <1>2, <2>1
<1>5. CASE x \in Refs(v, t)
  <2>1. v.wpc[x] # "out" /\ v.peek[x] = t
    BY <1>1, <1>5, RefsIs
  <2>2. RequestSound(s, v, x) /\ Unmet(s, v, x)
    BY <2>1
  <2>3. v.kind[x] \in TaskKinds
    BY <1>2, <2>1, <2>2 DEF RequestSound
  <2>4. v.kind[x] # "group_cb"
    BY <2>2, <2>3 DEF RequestSound, Callers, TaskKinds
  <2>5. s.stat[t] # "idle"
    BY <2>1, <2>2, <2>3, <2>4 DEF Unmet, TaskKinds
  <2> QED
    BY <1>2, <1>5, <2>5
<1> QED
  BY <1>4, <1>5

LEMMA LeftCached ==
  ASSUME NEW s, NEW h, NEW w, WaitSound(s, h, w), CacheSound(s, w), NEW x \in Callers,
         w.wpc[x] # "out", NEW v \in GwType, Left(w, v, x), LeftCache(s, w, v, x)
  PROVE  CacheSound(s, v)
<1>1. /\ w \in GwType /\ Apart(w, v, x) /\ v.wpc[x] = "out"
      /\ RequestSound(s, w, x)
  BY DEF WaitSound, Left, Requests
<1> SUFFICES ASSUME NEW t \in Cached
             PROVE  t \in v.cache <=> (s.stat[t] = "idle" /\ Refs(v, t) = {})
  BY DEF CacheSound
<1>2. t \in Tasks /\ t # NoTask /\ (t \in w.cache <=> (s.stat[t] = "idle" /\ Refs(w, t) = {}))
  BY GpWaitAssumption, GpAssumption DEF CacheSound
<1>3. x \notin Refs(v, t)
  BY <1>1, RefsIs
<1>4. CASE w.peek[x] = t
  <2>1. w.kind[x] \in TaskKinds
    BY <1>1, <1>2, <1>4 DEF RequestSound
  <2>2. x \in Refs(w, t)
    BY <1>1, <1>4, <2>1, RefsIs DEF TaskKinds, EntryTaskKinds
  <2>3. t \notin w.cache
    BY <1>2, <2>2
  <2> QED
    BY <1>4, <2>3 DEF LeftCache
<1>5. CASE w.peek[x] # t
  <2>1. x \notin Refs(w, t)
    BY <1>1, <1>5, RefsIs
  <2>2. Refs(v, t) = Refs(w, t)
    BY <1>1, <1>3, <2>1, ApartRefs
  <2>3. t \in v.cache <=> t \in w.cache
    BY <1>5 DEF LeftCache
  <2> QED
    BY <1>2, <2>2, <2>3
<1> QED
  BY <1>4, <1>5

\* Nobody who deletes a group has asked for a task.
LEMMA DeleteLeftCache ==
  ASSUME NEW s, NEW h, NEW w, WaitSound(s, h, w), NEW x \in Callers,
         w.wpc[x] # "out", w.kind[x] = "delete", NEW v, v.cache = w.cache
  PROVE  LeftCache(s, w, v, x)
<1>1. w.peek[x] = NoTask
  BY DEF WaitSound, Requests, RequestSound, TaskKinds
<1>2. NoTask \notin Cached
  BY GpWaitAssumption, GpAssumption
<1> QED
  BY <1>1, <1>2 DEF LeftCache

LEMMA TurnCache ==
  ASSUME "group_cb" \notin Kinds, Held(gp, run), WaitSound(gp, run, gw),
         CacheSound(gp, gw), NEW x \in Callers, WaitTurn(x)
  PROVE  CacheSound(gp, gw')
<1>1. PICK u \in GwType : /\ Left(gw, u, x) /\ LeftCache(gp, gw, u, x)
                          /\ Leaves(u, gw', x) \/ Stays(gp, u, gw', x)
  BY TurnIs
<1>2. gw \in GwType /\ gw.wpc[x] # "out" /\ u.wpc[x] = "out"
  BY <1>1, TurnIs DEF WaitSound, Left
<1>3. CacheSound(gp, u)
  BY <1>1, <1>2, LeftCached
<1>4. CASE Leaves(u, gw', x)
  BY <1>1, <1>2, <1>3, <1>4, ApartCache DEF Leaves
<1>5. CASE Stays(gp, u, gw', x)
  BY <1>1, <1>2, <1>3, <1>5, ApartCache DEF Stays
<1> QED
  BY <1>1, <1>4, <1>5

LEMMA BeginsCache ==
  ASSUME "group_cb" \notin Kinds, NEW s, NEW w \in GwType, CacheSound(s, w),
         NEW x \in Callers, NEW v, Begins(s, w, v, x)
  PROVE  CacheSound(s, v)
BY ApartCache DEF Begins, Open

LEMMA InterruptedCache ==
  ASSUME NEW s, NEW w \in GwType, CacheSound(s, w), NEW X \in SUBSET Callers
  PROVE  CacheSound(s, Interrupted(w, X))
<1> DEFINE v == Interrupted(w, X)
<1>1. WokenFrom(w, v) /\ v.cache = w.cache
  BY InterruptedIs
<1> HIDE DEF v
<1>2. CacheSound(s, v)
  BY <1>1, SameCache DEF WokenFrom
<1> QED
  BY <1>2 DEF v

LEMMA SyncCache ==
  ASSUME NEW s, NEW w \in GwType, CacheSound(s, w), NEW r \in Syncers,
         NEW v \in {SyncOn(w, r), SyncOff(w, r)}
  PROVE  CacheSound(s, v)
<1>1. /\ v \in GwType /\ v.wpc = w.wpc /\ v.kind = w.kind
      /\ v.group = w.group /\ v.peek = w.peek /\ v.cache = w.cache
  BY SyncIs
<1>2. SameRequests(w, v)
  BY <1>1 DEF SameRequests
<1> QED
  BY <1>1, <1>2, SameCache

LEMMA FreeOrSyncCache ==
  ASSUME Held(gp, run), NEW w, WaitSound(gp, run, w), CacheSound(gp, w), NEW u \in Users,
         outdated = {}, w.wpc[u] = "out", FreeOrSync(w, u)
  PROVE  CacheSound(gp', gw')
<1>1. w \in GwType /\ u \in Syncers
  BY DEF WaitSound, Syncers, Runners
<1>2. gw' \in {SyncOn(w, u), SyncOff(w, u)} /\ gp'.stat = gp.stat
  BY FreeOrSyncIs DEF gpvars, SameTasks
<1>3. CacheSound(gp, gw')
  BY <1>1, <1>2, SyncCache
<1> QED
  BY <1>2, <1>3 DEF CacheSound

LEMMA DeletesCache ==
  ASSUME "group_cb" \notin Kinds, Held(gp, run), WaitSound(gp, run, gw), ~gw.shut,
         CacheSound(gp, gw), outdated = {}, NEW u \in Users, Deletes(u)
  PROVE  CacheSound(gp', gw')
<1>1. ASSUME NEW v, WaitSound(gp, run, v), v.wpc[u] = "out", CacheSound(gp, v),
             NEW X \in SUBSET Callers, FreeOrSync(Interrupted(v, X), u)
      PROVE  CacheSound(gp', gw')
  <2> DEFINE w == Interrupted(v, X)
  <2>1. WaitSound(gp, run, w) /\ v \in GwType
    BY <1>1, InterruptedSound DEF WaitSound
  <2>2. CacheSound(gp, w) /\ WokenFrom(v, w)
    BY <1>1, <2>1, InterruptedCache, InterruptedIs
  <2>3. w.wpc[u] = "out"
    BY <1>1, <2>2 DEF WokenFrom, SameRequests, Callers
  <2> HIDE DEF w
  <2>4. FreeOrSync(w, u)
    BY <1>1 DEF w
  <2> QED
    BY <2>1, <2>2, <2>3, <2>4, FreeOrSyncCache
<1>2. gw \in GwType /\ u \in Callers
  BY DEF WaitSound, Callers
<1>3. CASE DeleteWaits(u)
  <2>1. gw.wpc[u] = "out"
    BY <1>3, DeleteWaitsIs
  <2>2. CASE Begins(gp, gw, gw', u) /\ UNCHANGED gpvars
    <3>1. CacheSound(gp, gw')
      BY <1>2, <2>2, BeginsCache
    <3> QED
      BY <2>2, <3>1 DEF gpvars
  <2>3. CASE \E X \in SUBSET Callers : FreeOrSync(Interrupted(gw, X), u)
    BY <1>1, <2>1, <2>3
  <2> QED
    BY <1>3, <2>2, <2>3, DeleteWaitsIs
<1>4. CASE DeleteTurn(u)
  <2>1. gw.wpc[u] # "out" /\ gw.kind[u] = "delete"
    BY <1>4, DeleteTurnIs
  <2>2. PICK l \in GwType, v \in GwType, X \in SUBSET Callers :
            /\ Left(gw, l, u) /\ l.cache = gw.cache
            /\ Leaves(l, v, u) /\ v.wpc[u] = "out"
            /\ WaitSound(gp, run, v) /\ FreeOrSync(Interrupted(v, X), u)
    BY <1>4, DeleteTurnIs
  <2>3. CacheSound(gp, l) /\ l.wpc[u] = "out"
    BY <1>2, <2>1, <2>2, DeleteLeftCache, LeftCached DEF Left
  <2>4. CacheSound(gp, v)
    BY <1>2, <2>2, <2>3, ApartCache DEF Leaves
  <2> QED
    BY <1>1, <2>2, <2>4
<1>5. CASE DeleteSyncTurn(u)
  <2>1. u \in gw.syncing /\ FreeOrSync(gw, u)
    BY <1>5 DEF DeleteSyncTurn
  <2>2. gw.wpc[u] = "out"
    BY <1>2, <2>1 DEF WaitSound, Requests
  <2> QED
    BY <2>1, <2>2, FreeOrSyncCache
<1> QED
  BY <1>3, <1>4, <1>5 DEF Deletes

LEMMA DetachCache ==
  ASSUME Held(gp, run), WaitSound(gp, run, gw), CacheSound(gp, gw), NEW r \in Runners,
         Detach(r) \/ DetachTurn(r) \/ DetachReturns(r)
  PROVE  CacheSound(gp', gw')
<1>1. r \in Syncers /\ gw \in GwType
  BY DEF Syncers, WaitSound
<1>2. CASE Detach(r)
  <2>1. /\ Passed(gp, gw, gp', TasksDone)
        /\ gw' = TasksDone \/ gw' = SyncOn(TasksDone, r)
    BY <1>2, DetachPassed
  <2>2. CacheSound(gp', TasksDone)
    BY <1>1, <2>1, PassedCache
  <2>3. TasksDone \in GwType
    BY <2>1 DEF Passed, DoneFrom, WokenFrom
  <2>4. CacheSound(gp', SyncOn(TasksDone, r))
    BY <1>1, <2>2, <2>3, SyncCache
  <2> QED
    BY <2>1, <2>2, <2>4
<1>3. CASE DetachTurn(r)
  <2>1. gp' = gp /\ gw' \in {SyncOn(gw, r), SyncOff(gw, r)}
    BY <1>3 DEF DetachTurn, gpvars
  <2>2. CacheSound(gp, gw')
    BY <1>1, <2>1, SyncCache
  <2> QED
    BY <2>1, <2>2
<1>4. CASE DetachReturns(r)
  BY <1>1, <1>4, DetachReturnsPassed, PassedCache
<1> QED
  BY <1>2, <1>3, <1>4

LEMMA CallsCache ==
  ASSUME "group_cb" \notin Kinds, Held(gp, run), WaitSound(gp, run, gw), ~gw.shut,
         CacheSound(gp, gw), NEW x \in Waiters, Calls(x)
  PROVE  CacheSound(gp', gw')
<1>1. x \in Callers /\ x \in Syncers /\ gw \in GwType
  BY DEF Callers, Syncers, WaitSound
<1>2. CASE WaitTask(x) \/ WaitTasks(x) \/ WaitThrottle(x)
  <2>1. gp' = gp
    BY <1>2 DEF WaitTask, WaitTasks, WaitThrottle, gpvars
  <2>2. Begins(gp, gw, gw', x)
    BY <1>2, WaitTaskBegins, WaitTasksBegins, WaitThrottleBegins
  <2>3. CacheSound(gp, gw')
    BY <1>1, <2>2, BeginsCache
  <2> QED
    BY <2>1, <2>3
<1>3. CASE SuspendWaits(x)
  <2>1. Begins(gp', gw, gw', x) /\ SameTasks(gp, gp')
    BY <1>3, SuspendWaitsBegins
  <2>2. CacheSound(gp', gw)
    BY <2>1 DEF CacheSound, SameTasks
  <2> QED
    BY <1>1, <2>1, <2>2, BeginsCache
<1>4. CASE Wsync(x)
  <2>1. PICK v : Asks(gw, v, x) /\ gw' = SyncOn(v, x) /\ WaitSound(gp, run, v)
    BY <1>4, WsyncIs
  <2>2. gw.wpc[x] = "out" /\ gp' = gp
    BY <1>4, WsyncIs DEF gpvars
  <2>3. Apart(gw, v, x) /\ v.wpc[x] = "out" /\ v \in GwType /\ v.cache = gw.cache
    BY <2>1, <2>2 DEF Asks, Apart
  <2>4. CacheSound(gp, v)
    BY <1>1, <2>2, <2>3, ApartCache
  <2>5. CacheSound(gp, gw')
    BY <1>1, <2>1, <2>3, <2>4, SyncCache
  <2> QED
    BY <2>2, <2>5
<1> QED
  BY <1>2, <1>3, <1>4 DEF Calls

LEMMA WsyncTurnCache ==
  ASSUME "group_cb" \notin Kinds, WaitSound(gp, run, gw), ~gw.shut, CacheSound(gp, gw),
         NEW x \in Waiters, WsyncTurn(x)
  PROVE  CacheSound(gp', gw')
<1>1. x \in Callers /\ x \in Syncers /\ gw \in GwType /\ gp' = gp /\ gw.wpc[x] = "out"
  BY WsyncTurnIs DEF Callers, Syncers, WaitSound, gpvars
<1>2. PICK v : /\ \/ v = gw /\ gw' = SyncOn(v, x)
                  \/ Leaves(gw, v, x) /\ gw' = SyncOff(v, x)
               /\ WaitSound(gp, run, v)
  BY WsyncTurnIs
<1>3. v \in GwType /\ CacheSound(gp, v)
  BY <1>1, <1>2, ApartCache DEF WaitSound, Leaves
<1>4. CacheSound(gp, gw')
  BY <1>1, <1>2, <1>3, SyncCache
<1> QED
  BY <1>1, <1>4

LEMMA SyncsCache ==
  ASSUME WaitSound(gp, run, gw), CacheSound(gp, gw), Syncs
  PROVE  CacheSound(gp', gw')
<1>1. UNCHANGED gpvars
  BY SyncsIs
<1>2. PICK w : /\ WaitSound(gp, run, w) /\ ShutOrSync(w)
               /\ \/ w = gw
                  \/ \E X \in SUBSET Callers : w = Interrupted(gw, X)
  BY SyncsIs
<1>3. gw \in GwType /\ w \in GwType
  BY <1>2 DEF WaitSound
<1>4. CacheSound(gp, w)
  BY <1>2, <1>3, InterruptedCache
<1>5. gw' \in GwType /\ SameRequests(w, gw') /\ gw'.cache = w.cache
  BY <1>2, ShutOrSyncIs DEF WaitSound
<1>6. CacheSound(gp, gw')
  BY <1>3, <1>4, <1>5, SameCache
<1> QED
  BY <1>1, <1>6 DEF gpvars

LEMMA CacheNext ==
  ASSUME TRUE \notin Suspended, "group_cb" \notin Kinds,
         Held(gp, run), WaitSound(gp, run, gw), CacheSound(gp, gw), outdated = {},
         [GwNext]_gwvars
  PROVE  CacheSound(gp', gw')
<1>1. gw \in GwType
  BY DEF WaitSound
<1>2. ASSUME Passed(gp, gw, gp', gw')
      PROVE  CacheSound(gp', gw')
  BY <1>1, <1>2, PassedCache
<1>3. ASSUME CacheSound(gp, gw'), UNCHANGED gpvars
      PROVE  CacheSound(gp', gw')
  BY <1>3 DEF gpvars
<1>4. CASE TaskStep
  BY <1>2, <1>4, TaskStepPassed
<1>5. CASE OtherCall
  BY <1>2, <1>5, OtherCallPassed
<1>6. CASE QueueStep
  BY <1>6, QueueCache
<1>7. ASSUME NEW x \in Callers, WaitTurn(x)
      PROVE  CacheSound(gp', gw')
  BY <1>3, <1>7, TurnCache, TurnIs
<1>8. ASSUME NEW x \in Callers, Wakeup(x)
      PROVE  CacheSound(gp', gw')
  <2>1. UNCHANGED gpvars /\ gw' = Interrupted(gw, {x}) /\ {x} \in SUBSET Callers
    BY <1>8, WakeupIs
  <2>2. CacheSound(gp, gw')
    BY <1>1, <2>1, InterruptedCache
  <2> QED
    BY <1>3, <2>1, <2>2
<1>9. ASSUME NEW x \in Waiters, Calls(x), ~gw.shut
      PROVE  CacheSound(gp', gw')
  BY <1>9, CallsCache
<1>10. ASSUME NEW x \in Waiters, TimesOut(x)
       PROVE  CacheSound(gp', gw')
  <2>1. WokenFrom(gw, gw') /\ gw'.cache = gw.cache /\ UNCHANGED gpvars
    BY <1>1, <1>10, TimesOutIs
  <2>2. CacheSound(gp, gw')
    BY <1>1, <2>1, SameCache DEF WokenFrom
  <2> QED
    BY <1>3, <2>1, <2>2
<1>11. ASSUME NEW x \in Waiters, WsyncTurn(x), ~gw.shut
       PROVE  CacheSound(gp', gw')
  BY <1>11, WsyncTurnCache
<1>12. ASSUME NEW u \in Users, Deletes(u), ~gw.shut
       PROVE  CacheSound(gp', gw')
  BY <1>12, DeletesCache
<1>13. ASSUME NEW u \in Users, NEW g \in Ids, DeleteStarts(u, g)
       PROVE  CacheSound(gp', gw')
  BY <1>2, <1>13, DeleteStartsPassed
<1>14. ASSUME NEW b \in BOOLEAN,
              PausePool(b) \/ ThrottlePool(b) \/ \E g \in Ids : ThrottleGroup(g, b)
       PROVE  CacheSound(gp', gw')
  BY <1>2, <1>14, SwitchPassed
<1>15. ASSUME NEW r \in Runners, Detach(r) \/ DetachTurn(r) \/ DetachReturns(r)
       PROVE  CacheSound(gp', gw')
  BY <1>15, DetachCache
<1>16. CASE ReleasePool
  BY <1>2, <1>16, ReleasePassed
<1>17. CASE Syncs
  BY <1>17, SyncsCache
<1>18. CASE UNCHANGED gwvars
  BY <1>18 DEF gwvars, waitvars, gpvars
<1> QED
  BY <1>4, <1>5, <1>6, <1>7, <1>8, <1>9, <1>10, <1>11, <1>12, <1>13, <1>14, <1>15,
     <1>16, <1>17, <1>18 DEF GwNext, GwStep

LEMMA CacheInit ==
  ASSUME GwInit
  PROVE  CacheSound(gp, gw)
<1>1. /\ \A x \in Callers : gw.wpc[x] = "out"
      /\ gw.cache = Cached /\ \A t \in Tasks : gp.stat[t] = "idle"
  BY WaitInit
<1>2. \A t : Refs(gw, t) = {}
  BY <1>1 DEF Refs, Inside
<1>3. Cached \subseteq Tasks
  BY GpWaitAssumption
<1> QED
  BY <1>1, <1>2, <1>3 DEF CacheSound

\* An object of the cache is in it exactly while its task is neither traced nor
\* waited for, whichever of the two ends last (__cpool_gp_w_waitl, task_done), when
\* nobody suspends a group with a callback, whose wait may go on for a task that
\* is over, and the table does not grow while somebody waits to delete a group.
THEOREM ObjectsReturnAlways ==
  ASSUME TRUE \notin Suspended, "group_cb" \notin Kinds, "grow" \in Careful
  PROVE  GwSpec => []ObjectsReturn
<1> DEFINE Inv == Held(gp, run) /\ WaitSound(gp, run, gw) /\ CacheSound(gp, gw)
                  /\ outdated = {}
<1>1. GwInit => Inv
  BY WaitInit, CacheInit
<1>2. Inv /\ [GwNext]_gwvars => Inv'
  BY GwHeld, WaitNext, CacheNext, StaysFresh
<1>3. Inv => ObjectsReturn
  BY DEF CacheSound, ObjectsReturn
<1> QED
  BY <1>1, <1>2, <1>3, PTL DEF GwSpec
=============================================================================
