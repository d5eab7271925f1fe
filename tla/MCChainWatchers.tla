-------------------------- MODULE MCChainWatchers --------------------------
(* ChainWatchers for TLC: one page, all three widgets. *)
EXTENDS ChainWatchers

CONSTANT home

MCPages == {home}
MCWatchers == {"banner", "idle", "home"}

=============================================================================
