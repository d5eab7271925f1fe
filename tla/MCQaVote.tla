------------------------------ MODULE MCQaVote ------------------------------
(* Two accounts, two networks, and what the user may do in four steps.       *)
EXTENDS QaVote

Two == {"alice", "bob"}
=============================================================================
