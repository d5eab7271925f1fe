------------------------- MODULE MCTokenIndexCache -------------------------
(* TokenIndexCache for TLC: two requests of one process, one of another. *)
EXTENDS TokenIndexCache, TLC

CONSTANTS p1, p2, r1, r2, r3

MCProcesses == {p1, p2}
MCRequests == {r1, r2, r3}
MCHost == [r \in MCRequests |-> IF r = r3 THEN p2 ELSE p1]

Symmetric == Permutations({r1, r2})

=============================================================================
