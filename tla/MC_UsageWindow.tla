--------------------------- MODULE MC_UsageWindow ---------------------------
(* A small instance of UsageWindow.tla for TLC.                            *)
EXTENDS UsageWindow, TLC

CONSTANTS c1, c2, o1, o2

TwoCallers == {c1, c2}
TwoObjects == {o1, o2}

Interchangeable == Permutations(TwoObjects) \cup Permutations(TwoCallers)
=============================================================================
