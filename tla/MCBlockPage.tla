----------------------------- MODULE MCBlockPage -----------------------------
(* BlockPage for TLC: two proper heights and one path that is not a height. *)
EXTENDS BlockPage

CONSTANTS tip, old, bad

MCPages == {tip, old, bad}
MCValid == {tip, old}

=============================================================================
