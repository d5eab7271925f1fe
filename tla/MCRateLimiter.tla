--------------------------- MODULE MCRateLimiter ---------------------------
(* RateLimiter for TLC: two isolates behind one binding, two clients for one place. *)
EXTENDS RateLimiter, TLC

CONSTANTS i1, i2, k1, k2, r1, r2

MCIsolates == {i1, i2}
MCKeys == {k1, k2}
MCRequests == {r1, r2}

Symmetric ==
  Permutations(MCIsolates) \cup Permutations(MCKeys) \cup Permutations(MCRequests)

=============================================================================
