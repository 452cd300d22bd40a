---------------------------- MODULE MCPluginStore ----------------------------
(* Instances of PluginStore for TLC. *)
EXTENDS PluginStore, TLC
CONSTANTS pong, snake, v1, v2
BothIds == {pong, snake}
TwoVersions == {v1, v2}
PongIsUpgraded == (pong :> 2) @@ (snake :> 0)
Symmetric == Permutations(TwoVersions)
=============================================================================
