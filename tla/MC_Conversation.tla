--------------------------- MODULE MC_Conversation ---------------------------
(* A small instance of Conversation.tla for TLC.                           *)
EXTENDS Conversation

CONSTANTS t1, t2, t3

ThreeCalls == {t1, t2, t3}

Interchangeable == Permutations(ThreeCalls)
=============================================================================
