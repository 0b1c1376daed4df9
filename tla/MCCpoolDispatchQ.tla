-------------------------- MODULE MCCpoolDispatchQ --------------------------
EXTENDS CpoolDispatchQ, TLC

\* stpool_mark_cb where nobody runs tasks, stpool_remove_all elsewhere; only
\* the one, or only the other, in a pool that is not suspended.
MCApart == [b \in BOOLEAN |-> IF b THEN {"cb"} ELSE {"all"}]
MCAll == [b \in BOOLEAN |-> IF b THEN {} ELSE {"all"}]
MCMarkCb == [b \in BOOLEAN |-> IF b THEN {} ELSE {"cb"}]

Sym == Permutations(Tasks) \cup Permutations(Threads)
=============================================================================
