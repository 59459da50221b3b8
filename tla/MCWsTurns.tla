----------------------------- MODULE MCWsTurns -----------------------------
(* Instances of WsTurns for TLC. *)
EXTENDS WsTurns, TLC

CONSTANTS t1, t2, t3

TurnSymmetry == Permutations(Turn)
=============================================================================
