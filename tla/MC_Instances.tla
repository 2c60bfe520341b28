---------------------------- MODULE MC_Instances ----------------------------
(* A small instance of Instances.tla for TLC.                              *)
EXTENDS Instances, TLC

CONSTANTS a1, i1, i2, s1, s2

OneAccount == {a1}
TwoInsts == {i1, i2}
TwoStarters == {s1, s2}
=============================================================================
