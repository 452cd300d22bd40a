---------------------------- MODULE MCPluginHost ----------------------------
(* Instances of PluginHost for TLC. *)
EXTENDS PluginHost, TLC

CONSTANTS pong, snake, half

\* A complete plugin and one that does not tell its capabilities.
TwoWhole == {pong, snake}
WholeExports == (pong :> Symbols)
                @@ (snake :> Symbols \ {"gpi_query_capabilities"})

\* A complete plugin and one without gpi_query_capabilities and gpi_shutdown.
OneHasNoShutdown == (pong :> Symbols) @@ (snake :> Required)

\* A complete plugin and a library that is not a plugin.
PongAndHalf == {pong, half}
OneIsNoPlugin == (pong :> Symbols) @@ (half :> {"gpi_init", "gpi_update"})

AllFaults == AllBehaviours
NoFaults == {}
LoadFaults == {"open_error", "init_error"}
TimelyFaults == {"open_error", "init_error", "call_error", "call_late"}
ReturningFaults == TimelyFaults \cup {"init_late"}
OnlyHang == {"hang"}
=============================================================================
