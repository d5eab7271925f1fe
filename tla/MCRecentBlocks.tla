--------------------------- MODULE MCRecentBlocks ---------------------------
(* RecentBlocks for TLC: windows shorter and longer than the pool and the chain. *)
EXTENDS RecentBlocks

MCCounts == {0, 1, 2, 4, 6}

=============================================================================
