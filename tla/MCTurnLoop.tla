---------------------------- MODULE MCTurnLoop -----------------------------
(* Instances of TurnLoop for TLC. *)
EXTENDS TurnLoop
=============================================================================
