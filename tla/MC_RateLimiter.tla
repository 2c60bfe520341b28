--------------------------- MODULE MC_RateLimiter ---------------------------
(* A small instance of RateLimiter.tla for TLC.                            *)
EXTENDS RateLimiter, TLC

CONSTANTS a1, b1, b2, c1, c2

OneAccount == {a1}
TwoCallers == {c1, c2}
BucketIds == {GlobalBucket, b1, b2}

Interchangeable == Permutations(Callers) \cup Permutations({b1, b2})
=============================================================================
