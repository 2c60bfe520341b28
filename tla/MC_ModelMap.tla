----------------------------- MODULE MC_ModelMap -----------------------------
(* A small instance of ModelMap.tla for TLC: two models, and a made-up name*)
(* that is the first model's with a date.                                  *)
EXTENDS ModelMap

CONSTANTS m1, m2, d1

ThreeIds == {m1, m2, d1}
TwoModels == {m1, m2}
CutDate == [i \in Ids |-> IF i = d1 THEN m1 ELSE i]
=============================================================================
