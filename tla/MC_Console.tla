------------------------------ MODULE MC_Console ------------------------------
(* A small instance of Console.tla for TLC.                                *)
EXTENDS Console, TLC

CONSTANTS h1, h2, u1, u2, t1, t2, t3, p1

TwoHandlers == {h1, h2}
TwoUsers == {u1, u2}
ThreeTokens == {t1, t2, t3}
OneProxy == {p1}

Interchangeable == Permutations(Handlers) \cup Permutations(Users) \cup Permutations(Tokens)
=============================================================================
