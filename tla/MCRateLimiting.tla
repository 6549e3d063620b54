--------------------------- MODULE MCRateLimiting ---------------------------
(* Three requests with the same key.                                       *)
EXTENDS RateLimiting, TLC

CONSTANTS r1, r2, r3

MCRequests == {r1, r2, r3}

\* The requests differ only in name; used where no liveness is checked.
MCSymmetry == Permutations(MCRequests)
=============================================================================
