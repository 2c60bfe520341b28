--------------------------- MODULE MC_LoadBalancer ---------------------------
(* A small instance of LoadBalancer.tla for TLC.                           *)
EXTENDS LoadBalancer, TLC

CONSTANTS c1, c2

TwoCallers == {c1, c2}

\* Round robin is dealt over three accounts, the others choose between two.
SmallLists == [s \in Strategies |-> SUBSET (1 .. (IF s = "round-robin" THEN 3 ELSE 2))]

FewRecords == [s \in Strategies |-> IF s = "smart" THEN 3 ELSE 5]

Interchangeable == Permutations(TwoCallers)
=============================================================================
