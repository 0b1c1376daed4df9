------------------------------ MODULE MCCpoolGp ------------------------------
EXTENDS CpoolGp, TLC

CONSTANTS t1, t2, t3, th1, th2, u1

Sym == Permutations(Threads)

\* t1 is urgent, t2 goes before its equals, t3 is an ordinary task.
PriDef == [t \in Tasks |-> IF t = t1 THEN 1 ELSE 0]
PolicyDef == [t \in Tasks |-> IF t = t2 THEN "TOP" ELSE "BACK"]
AttrsDef == {<<1, FALSE>>}

=============================================================================
