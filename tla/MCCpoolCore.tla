---------------------------- MODULE MCCpoolCore ----------------------------
EXTENDS CpoolCore, TLC

Sym == Permutations(Threads)

MCAdjustArgs == {<<1, 0>>, <<2, 1>>}
=============================================================================
