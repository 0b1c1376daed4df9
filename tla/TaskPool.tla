------------------------------ MODULE TaskPool ------------------------------
(***************************************************************************)
(* What a task pool promises its users (stpool.h), whatever its threads    *)
(* do: no task is lost or run twice, a suspended pool starts none, work    *)
(* that is ready is served, and a pool whose last reference is gone is     *)
(* freed once, with nothing left in it.                                    *)
(*                                                                         *)
(* CpoolCore is shown to implement this specification.                     *)
(***************************************************************************)
EXTENDS Naturals

VARIABLES
    phase,      \* "open", "closing" (no user holds it any more) or "gone"
    suspended,  \* no task may start
    ready,      \* tasks waiting to be run
    removed,    \* tasks taken back, their error handlers yet to run
    inhand      \* tasks or error handlers that worker threads have taken

avars == <<phase, suspended, ready, removed, inhand>>

Init == /\ phase = "open" /\ suspended \in BOOLEAN
        /\ ready = 0 /\ removed = 0 /\ inhand = 0

Submit ==
    /\ phase = "open"
    /\ ready' = ready + 1
    /\ UNCHANGED <<phase, suspended, removed, inhand>>

\* A task that has run and was asked to run again; the pool may be closing.
Resubmit ==
    /\ phase # "gone" /\ inhand > 0
    /\ ready' = ready + 1 /\ inhand' = inhand - 1
    /\ UNCHANGED <<phase, suspended, removed>>

Start ==
    /\ phase # "gone" /\ ~suspended /\ ready > 0
    /\ ready' = ready - 1 /\ inhand' = inhand + 1
    /\ UNCHANGED <<phase, suspended, removed>>

\* A thread takes some of the removed tasks.
Handle ==
    /\ phase # "gone" /\ removed > 0
    /\ \E k \in 1..removed : removed' = removed - k /\ inhand' = inhand + k
    /\ UNCHANGED <<phase, suspended, ready>>

Done ==
    /\ phase # "gone" /\ inhand > 0
    /\ inhand' = inhand - 1
    /\ UNCHANGED <<phase, suspended, ready, removed>>

Remove ==
    /\ phase = "open" /\ ready > 0
    /\ removed' = removed + ready /\ ready' = 0
    /\ UNCHANGED <<phase, suspended, inhand>>

\* Removed tasks without an error handler are done with.
Drop ==
    /\ phase = "open"
    /\ \E k \in 1..removed : removed' = removed - k
    /\ UNCHANGED <<phase, suspended, ready, inhand>>

Suspend ==
    /\ phase = "open" /\ suspended' = TRUE
    /\ UNCHANGED <<phase, ready, removed, inhand>>

Resume ==
    /\ phase = "open" /\ suspended' = FALSE
    /\ UNCHANGED <<phase, ready, removed, inhand>>

\* The last reference goes; what a suspended pool has pending is removed.
Close ==
    /\ phase = "open" /\ phase' = "closing"
    /\ IF suspended THEN ready' = 0 /\ removed' = removed + ready
                    ELSE UNCHANGED <<ready, removed>>
    /\ UNCHANGED <<suspended, inhand>>

Free ==
    /\ phase = "closing" /\ ready = 0 /\ removed = 0 /\ inhand = 0
    /\ phase' = "gone"
    /\ UNCHANGED <<suspended, ready, removed, inhand>>

Next == \/ Submit \/ Resubmit \/ Start \/ Handle \/ Done \/ Remove \/ Drop
        \/ Suspend \/ Resume \/ Close \/ Free

Safe == Init /\ [][Next]_avars

\* What is ready is taken, by threads or by users who remove it, whatever was
\* taken comes to an end, and a closed pool is freed.  (Stated without fairness
\* of the actions above, which stand for many steps of the threads.)
Served == \/ []<>(removed = 0 /\ (suspended \/ ready = 0))
          \/ []<><<Start \/ Handle \/ Remove \/ Drop>>_avars

Ended == []<>(inhand = 0) \/ []<><<Done \/ Resubmit>>_avars

Closed == phase = "closing" ~> phase = "gone"

Spec == Safe /\ Served /\ Ended /\ Closed
=============================================================================
