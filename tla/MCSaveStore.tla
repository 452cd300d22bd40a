----------------------------- MODULE MCSaveStore -----------------------------
(* Instances of SaveStore for TLC. *)
EXTENDS SaveStore, TLC

CONSTANTS score, level, low, high

TwoKeys == {score, level}
TwoValues == {low, high}
=============================================================================
