---------------------------- MODULE MC_PoolConfig ----------------------------
(* A small instance of PoolConfig.tla for TLC.                              *)
EXTENDS PoolConfig, TLC

CONSTANTS c1, c2, k1, k2, k3

TwoConsoles == {c1, c2}
ThreeKeys == {k1, k2, k3}
TwoRates == {1, 2}

Interchangeable == Permutations(Consoles) \cup Permutations(PoolKeys)
=============================================================================
