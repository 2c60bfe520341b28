-------------------------- MODULE MC_ProxyRequests --------------------------
(* A small instance of ProxyRequests.tla for TLC.                          *)
EXTENDS ProxyRequests, TLC

CONSTANTS a1, a2, r1, r2

TwoAccounts == {a1, a2}
TwoRequests == {r1, r2}
=============================================================================
