---------------------------- MODULE PluginRuntime ----------------------------
(***************************************************************************)
(* src/runtime/plugin_runtime.cpp: one dynamically loaded plugin and the   *)
(* calls that are made into it.  RunnerInproc (runner_inproc.cpp) hands    *)
(* every operation straight to this object.                                *)
(*                                                                         *)
(* A call into the plugin takes time, may save data meanwhile, may miss    *)
(* its deadline and may never return, so each operation is a start and a   *)
(* return, with rtpc telling which plugin function is running.  Whatever   *)
(* happens between two plugin calls is one step: only the main thread      *)
(* touches this object.                                                    *)
(***************************************************************************)
EXTENDS FiniteSets

CONSTANTS
  Plugins,      \* the plugin libraries in the plugin directory
  NoPlugin,     \* no library: lib.handle = nullptr
  Exports,      \* the symbols each library exports
  Behaviours    \* the misbehaviour the plugins are capable of, see below

\* The symbols resolve_syms() looks up that this model has a use for.
Symbols == {"gpi_init", "gpi_query_capabilities", "gpi_update", "gpi_render",
            "gpi_shutdown"}
Required == {"gpi_init", "gpi_update", "gpi_render"}

(***************************************************************************)
(*  open_error  the library cannot be opened                               *)
(*  init_error  gpi_init returns something other than GPI_OK               *)
(*  init_late   gpi_init returns after its deadline                        *)
(*  call_error  gpi_update or gpi_render does not return GPI_OK            *)
(*  call_late   gpi_update or gpi_render returns after its deadline        *)
(*  hang        a plugin function never returns                            *)
(***************************************************************************)
AllBehaviours == {"open_error", "init_error", "init_late",
                  "call_error", "call_late", "hang"}

ASSUME PluginsAssumption == NoPlugin \notin Plugins
ASSUME ExportsAssumption == Exports \in [Plugins -> SUBSET Symbols]
ASSUME BehavioursAssumption == Behaviours \subseteq AllBehaviours

VARIABLES
  lib,      \* the open library
  fns,      \* the symbols bound in fns
  loaded,   \* PluginRuntime::loaded
  rtpc,     \* the plugin function that is running, and for whom
  target,   \* the path handed to load()
  ret,      \* what the last operation returned
  hung,     \* the running plugin function will never return
  inited    \* plugins whose gpi_init returned GPI_OK and that have not been
            \* told to shut down: the plugins' own view of their life

rtVars == <<lib, fns, loaded, rtpc, target, ret, hung, inited>>

\* "load_shutdown" is gpi_shutdown called by the unload() that opens load().
PluginCalls == {"load_shutdown", "unload_shutdown", "gpi_init",
                "gpi_query_capabilities", "gpi_update", "gpi_render"}
RtSteps == PluginCalls \cup {"idle", "open"}

RtTypeOK ==
  /\ lib \in Plugins \cup {NoPlugin}
  /\ fns \in SUBSET Symbols
  /\ loaded \in BOOLEAN
  /\ rtpc \in RtSteps
  /\ target \in Plugins \cup {NoPlugin}
  /\ ret \in BOOLEAN
  /\ hung \in BOOLEAN
  /\ inited \in SUBSET Plugins

RtInit ==
  /\ lib = NoPlugin
  /\ fns = {}
  /\ loaded = FALSE
  /\ rtpc = "idle"
  /\ target = NoPlugin
  /\ ret = FALSE
  /\ hung = FALSE
  /\ inited = {}

CallsShutdown == loaded /\ "gpi_shutdown" \in fns

\* The rest of unload(): flags and pointers cleared, library closed.
Clear ==
  /\ loaded' = FALSE
  /\ fns' = {}
  /\ lib' = NoPlugin

\* Mutant: load() without the unload() it begins with.
StartLoadOver(p) ==
  /\ rtpc = "idle"
  /\ target' = p
  /\ rtpc' = "open"
  /\ UNCHANGED <<lib, fns, loaded, ret, hung, inited>>

\* load(path): begins with unload(), which may have to call gpi_shutdown.
StartLoad(p) ==
  /\ rtpc = "idle"
  /\ target' = p
  /\ IF CallsShutdown
       THEN rtpc' = "load_shutdown" /\ UNCHANGED <<loaded, fns, lib>>
       ELSE rtpc' = "open" /\ Clear
  /\ UNCHANGED <<ret, hung, inited>>

StartUnload ==
  /\ rtpc = "idle"
  /\ IF CallsShutdown
       THEN rtpc' = "unload_shutdown" /\ UNCHANGED <<loaded, fns, lib>>
       ELSE rtpc' = "idle" /\ Clear
  /\ UNCHANGED <<target, ret, hung, inited>>

ShutdownReturns ==
  /\ rtpc \in {"load_shutdown", "unload_shutdown"}
  /\ ~hung
  /\ rtpc' = IF rtpc = "load_shutdown" THEN "open" ELSE "idle"
  /\ inited' = inited \ {lib}
  /\ Clear
  /\ UNCHANGED <<target, ret, hung>>

OpenFails ==
  /\ rtpc = "open"
  /\ "open_error" \in Behaviours
  /\ rtpc' = "idle"
  /\ ret' = FALSE
  /\ UNCHANGED <<lib, fns, loaded, target, hung, inited>>

\* Opened, and resolve_syms() has bound what is there.  When a required
\* symbol is missing, load() unloads again and gives up.
Opens ==
  /\ rtpc = "open"
  /\ IF Required \subseteq Exports[target]
       THEN /\ lib' = target
            /\ fns' = Exports[target]
            /\ rtpc' = "gpi_init"
            /\ UNCHANGED <<loaded, ret>>
       ELSE /\ Clear
            /\ rtpc' = "idle"
            /\ ret' = FALSE
  /\ UNCHANGED <<target, hung, inited>>

\* timed_call(): the value counts only if it came within the deadline.
TimedCall(ok, inTime) == ok /\ inTime

\* load() is done and has succeeded.
LoadSucceeds == rtpc' = "idle" /\ loaded' = TRUE /\ ret' = TRUE

\* What init_late and init_error leave is unloaded again.  A plugin that is not
\* loaded yet is not told to shut down by that.
InitReturns(ok, inTime) ==
  /\ rtpc = "gpi_init"
  /\ ~hung
  /\ ok \/ "init_error" \in Behaviours
  /\ inTime \/ "init_late" \in Behaviours
  /\ inited' = IF ok THEN inited \cup {lib} ELSE inited
  /\ IF ~TimedCall(ok, inTime)
       THEN rtpc' = "idle" /\ ret' = FALSE /\ Clear
     ELSE IF "gpi_query_capabilities" \in fns
       THEN rtpc' = "gpi_query_capabilities" /\ UNCHANGED <<lib, fns, loaded, ret>>
     ELSE LoadSucceeds /\ UNCHANGED <<lib, fns>>
  /\ UNCHANGED <<target, hung>>

\* fns.caps(): untimed, and whatever it answers the plugin is loaded.
CapsReturn ==
  /\ rtpc = "gpi_query_capabilities"
  /\ ~hung
  /\ LoadSucceeds
  /\ UNCHANGED <<lib, fns, target, hung, inited>>

\* call_update() or call_render(): calls through the pointer unchecked, so it
\* needs it to be bound; PluginHost says what becomes of the process otherwise.
StartCall(f) ==
  /\ rtpc = "idle"
  /\ f \in fns
  /\ rtpc' = f
  /\ UNCHANGED <<lib, fns, loaded, target, ret, hung, inited>>

CallReturns(ok, inTime) ==
  /\ rtpc \in {"gpi_update", "gpi_render"}
  /\ ~hung
  /\ ok \/ "call_error" \in Behaviours
  /\ inTime \/ "call_late" \in Behaviours
  /\ rtpc' = "idle"
  /\ ret' = TimedCall(ok, inTime)
  /\ UNCHANGED <<lib, fns, loaded, target, hung, inited>>

\* The plugin function under way loops for ever.
CallHangs ==
  /\ rtpc \in PluginCalls
  /\ ~hung
  /\ "hang" \in Behaviours
  /\ hung' = TRUE
  /\ UNCHANGED <<lib, fns, loaded, rtpc, target, ret, inited>>

\* The steps of an operation that was started, up to its return.
RtStep ==
  \/ ShutdownReturns
  \/ OpenFails
  \/ Opens
  \/ CapsReturn
  \/ \E ok, inTime \in BOOLEAN :
       InitReturns(ok, inTime) \/ CallReturns(ok, inTime)
=============================================================================
