--------------------------- MODULE MC_AccountFile ---------------------------
(* A small instance of AccountFile.tla for TLC.                             *)
EXTENDS AccountFile, TLC

CONSTANTS i1, i2, i3, k1, k2, k3, k4, w1, w2

ThreeIds == {i1, i2, i3}
FourKeys == {k1, k2, k3, k4}
TwoWorkers == {w1, w2}

Interchangeable ==
    Permutations(AccountIds) \cup Permutations(ApiKeys) \cup Permutations(Workers)
=============================================================================
