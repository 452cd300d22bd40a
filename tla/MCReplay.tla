------------------------------- MODULE MCReplay -------------------------------
(* Instances of Replay for TLC. *)
EXTENDS Replay, TLC
CONSTANTS left, right
TwoInputs == {left, right}
=============================================================================
