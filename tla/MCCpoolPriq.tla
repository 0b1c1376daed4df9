----------------------------- MODULE MCCpoolPriq -----------------------------
EXTENDS CpoolPriq, TLC

Sym == Permutations(Tasks)
=============================================================================
