----------------------------- MODULE MCRpcCache -----------------------------
(* RpcCache for TLC: three keys compete for two places, two callers, two lifetimes. *)
EXTENDS RpcCache, TLC

CONSTANTS a, b, d, c1, c2

MCKeys == {a, b, d}
MCCallers == {c1, c2}
MCTtls == {1, 2}

Symmetric == Permutations(MCKeys) \cup Permutations(MCCallers)

=============================================================================
