----------------------------- MODULE MCCpoolRt -----------------------------
EXTENDS CpoolRt, TLC

Sym == Permutations(Threads) \cup Permutations(Timed) \cup Permutations(Waiters \ Timed)

MCAdjustArgs == {<<2, 1>>}
=============================================================================
