------------------------------ MODULE PluginAbi ------------------------------
(***************************************************************************)
(* What include/gpi/gpi_plugin.h and the life cycle in the documentation   *)
(* promise to a plugin: it is initialised once and asked for its           *)
(* capabilities if it has an answer, then called one call at a time, and   *)
(* when one of its calls has failed or was late the next thing it hears is *)
(* gpi_shutdown.  At most one plugin is in its life at a time.             *)
(***************************************************************************)
CONSTANTS
  Plugins,
  Askable,    \* the plugins that export gpi_query_capabilities
  Stoppable   \* the plugins that export gpi_shutdown

VARIABLE phase

Phases == {"out", "starting", "asked", "ready", "busy", "failed", "stopping"}

Init == phase = [p \in Plugins |-> "out"]

Move(p, from, to) ==
  /\ phase[p] = from
  /\ phase' = [phase EXCEPT ![p] = to]

\* gpi_init, only when every other plugin is gone.
InitCalled(p) ==
  /\ \A q \in Plugins : phase[q] = "out"
  /\ Move(p, "out", "starting")
InitAccepted(p) == p \notin Askable /\ Move(p, "starting", "ready")
InitRefused(p) == Move(p, "starting", "out")

\* gpi_query_capabilities, once and before anything else.
CapsQueried(p) == p \in Askable /\ Move(p, "starting", "asked")
CapsAnswered(p) == Move(p, "asked", "ready")

\* gpi_update or gpi_render.
CallBegins(p) == Move(p, "ready", "busy")
CallSucceeds(p) == Move(p, "busy", "ready")
CallFails(p) == Move(p, "busy", "failed")

ShutdownCalled(p) ==
  p \in Stoppable /\ (Move(p, "ready", "stopping") \/ Move(p, "failed", "stopping"))
ShutdownDone(p) == Move(p, "stopping", "out")

\* A plugin without gpi_shutdown is closed as it stands.
Closed(p) ==
  p \notin Stoppable /\ (Move(p, "ready", "out") \/ Move(p, "failed", "out"))

Next ==
  \E p \in Plugins :
    \/ InitCalled(p) \/ InitAccepted(p) \/ InitRefused(p)
    \/ CapsQueried(p) \/ CapsAnswered(p)
    \/ CallBegins(p) \/ CallSucceeds(p) \/ CallFails(p)
    \/ ShutdownCalled(p) \/ ShutdownDone(p) \/ Closed(p)

Spec == Init /\ [][Next]_phase
=============================================================================
