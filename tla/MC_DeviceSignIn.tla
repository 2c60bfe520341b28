--------------------------- MODULE MC_DeviceSignIn ---------------------------
(* A small instance of DeviceSignIn.tla for TLC.                           *)
EXTENDS DeviceSignIn, TLC

CONSTANTS c1, c2, c3

ThreeCalls == {c1, c2, c3}
=============================================================================
