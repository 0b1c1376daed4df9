---------------------------- MODULE MCCpoolGpWait ----------------------------
EXTENDS CpoolGpWait, TLC

CONSTANTS t1, t2, th1, th2, u1, x1, x2

Sym == Permutations(Threads) \cup Permutations(Timed) \cup Permutations(Waiters \ Timed)

PriDef == [t \in Tasks |-> 0]
PolicyDef == [t \in Tasks |-> "BACK"]
AttrsDef == {<<1, FALSE>>}

=============================================================================
