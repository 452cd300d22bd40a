--------------------------- MODULE PluginHostProofs ---------------------------
(***************************************************************************)
(* What PluginHost guarantees for every set of plugins, whatever they      *)
(* export and however they misbehave, with and without the store panel,    *)
(* the demo and the headless mode.                                         *)
(***************************************************************************)
EXTENDS PluginHost, TLAPS

-----------------------------------------------------------------------------
(* The inductive invariant. *)

LoadPcs == {"autoload", "panel_load", "swap_load", "demo_load", "store_load"}
UnloadPcs == {"fail_unload", "demo_unload", "panel_unload", "swap_unload",
              "exit_unload"}
SelPcs == {"autoload", "panel_load", "store_load"}
NextPcs == {"demo_unload", "demo_load", "swap_unload", "swap_load"}

\* The index and the list belong together, and a load under way is a load of
\* the path its caller will read again when it returns.
SelInv ==
  /\ selected_idx >= -1
  /\ selected_idx < Len(plugin_metas)
  /\ plugin_metas # <<>> => selected_idx >= 0
  /\ pc \in SelPcs => selected_idx >= 0 /\ target = PathAt(selected_idx)
  /\ pc \in NextPcs => plugin_metas # <<>>
  /\ pc \in {"demo_load", "swap_load"} => target = PathAt(NextIdx)

\* The runtime by itself: what is open, bound and loaded at each of its steps.
RtInv ==
  /\ lib = NoPlugin => fns = {} /\ ~loaded
  /\ lib # NoPlugin => fns = Exports[lib] /\ Required \subseteq fns
  /\ rtpc \in {"idle"} \cup Stages => (lib # NoPlugin => loaded)
  /\ rtpc \in Stages => loaded
  /\ rtpc = "open" => lib = NoPlugin /\ target \in Plugins
  /\ rtpc \in {"gpi_init", "gpi_query_capabilities"} =>
       lib = target /\ target \in Plugins /\ ~loaded
  /\ rtpc = "gpi_query_capabilities" => rtpc \in Exports[target]
  /\ rtpc \in {"load_shutdown", "unload_shutdown"} =>
       loaded /\ "gpi_shutdown" \in fns
  /\ rtpc = "load_shutdown" => target \in Plugins

\* Which runtime operation each step of the main thread waits for.
PcInv ==
  /\ pc \in LoadPcs => rtpc \in {"idle", "load_shutdown", "open", "gpi_init",
                                   "gpi_query_capabilities"}
  /\ pc \in LoadPcs /\ rtpc = "idle" => (ret <=> loaded) /\ (loaded => lib = target)
  /\ pc \in UnloadPcs => rtpc \in {"idle", "unload_shutdown"}
  /\ pc \in UnloadPcs /\ rtpc = "idle" => ~loaded
  /\ pc = "call" => rtpc \in {"idle", stage} /\ loaded
  /\ pc \notin LoadPcs \cup UnloadPcs \cup {"call"} => rtpc = "idle"

Inv == TypeOK /\ SelInv /\ RtInv /\ PcInv

USE PluginsAssumption, ExportsAssumption

LEMMA InvInit == Init => Inv
  <1>. SUFFICES ASSUME Init PROVE Inv
    OBVIOUS
  <1>1. RtTypeOK /\ WdTypeOK /\ RtInv
    BY DEF Init, RtInit, WdInit, RtTypeOK, WdTypeOK, RtInv, RtSteps, Stages,
           WdSteps
  <1>2. HostTypeOK
    <2>1. plugin_metas \in Seq(Plugins) /\ misfiled \in SUBSET {"loading", "loaded"}
      BY DEF Init
    <2>2. recording \in {"off", "empty", "buffered", "written"}
      BY DEF Init
    <2>3. selected_idx \in Int /\ video_frame \in Nat /\ frame_counter \in Nat
      BY DEF Init
    <2>4. /\ pc \in Steps /\ stage \in Stages /\ leaf \in Plugins \cup {NoPlugin}
          /\ running \in BOOLEAN /\ plugin_loaded \in BOOLEAN
          /\ demo_due \in BOOLEAN /\ demo_swapped \in BOOLEAN
          /\ record_video \in BOOLEAN /\ hud_visible \in BOOLEAN
      BY DEF Init, Steps, Stages
    <2>. QED  BY <2>1, <2>2, <2>3, <2>4 DEF HostTypeOK
  <1>3. SelInv /\ PcInv
    BY DEF Init, RtInit, SelInv, PcInv, SelPcs, NextPcs, LoadPcs, UnloadPcs
  <1>. QED  BY <1>1, <1>2, <1>3 DEF Inv, TypeOK

-----------------------------------------------------------------------------
(* The runtime's operations, each with what its caller may rely on. *)

LEMMA StartLoadRt ==
  ASSUME RtTypeOK, RtInv, NEW p \in Plugins, StartLoad(p)
  PROVE  /\ RtTypeOK' /\ RtInv' /\ target' = p
         /\ rtpc' \in {"load_shutdown", "open"}
  BY DEF RtTypeOK, RtInv, StartLoad, CallsShutdown, Clear, RtSteps, PluginCalls,
         Stages

LEMMA StartUnloadRt ==
  ASSUME RtTypeOK, RtInv, StartUnload
  PROVE  /\ RtTypeOK' /\ RtInv' /\ target' = target
         /\ rtpc' \in {"idle", "unload_shutdown"}
         /\ rtpc' = "idle" => ~loaded'
  BY DEF RtTypeOK, RtInv, StartUnload, CallsShutdown, Clear, RtSteps,
         PluginCalls, Stages

LEMMA StartCallRt ==
  ASSUME RtTypeOK, RtInv, NEW f \in Stages, StartCall(f)
  PROVE  RtTypeOK' /\ RtInv' /\ target' = target /\ rtpc' = f /\ loaded'
  BY DEF RtTypeOK, RtInv, StartCall, RtSteps, PluginCalls, Stages

LEMMA CallHangsRt ==
  ASSUME RtTypeOK, RtInv, CallHangs
  PROVE  /\ RtTypeOK' /\ RtInv'
         /\ UNCHANGED <<lib, fns, loaded, rtpc, target, ret, inited>>
  BY DEF RtTypeOK, RtInv, CallHangs

LEMMA RtUnchanged ==
  ASSUME RtTypeOK, RtInv, UNCHANGED rtVars
  PROVE  RtTypeOK' /\ RtInv'
  BY DEF RtTypeOK, RtInv, rtVars

\* What the runtime does while a caller waits for its load().
LoadWaits == {"load_shutdown", "open", "gpi_init", "gpi_query_capabilities"}

\* What a caller waiting for an operation sees when a step of it is made.
LoadGoesOn ==
  /\ rtpc' \in {"idle", "open", "gpi_init", "gpi_query_capabilities"}
  /\ rtpc' = "idle" => (ret' <=> loaded') /\ (loaded' => lib' = target')

LEMMA RtStepRt ==
  ASSUME RtTypeOK, RtInv, RtStep
  PROVE  /\ RtTypeOK' /\ RtInv' /\ target' = target
         /\ rtpc # "idle"
         /\ rtpc \in Stages => rtpc' = "idle" /\ loaded'
         /\ rtpc = "unload_shutdown" => rtpc' = "idle" /\ ~loaded'
         /\ rtpc \in LoadWaits => LoadGoesOn
  <1>. USE DEF RtTypeOK, RtInv, RtSteps, PluginCalls, Stages, LoadWaits, LoadGoesOn,
               Loading
  <1>1. CASE ShutdownReturns
    BY <1>1 DEF ShutdownReturns, Clear
  <1>2. CASE OpenFails
    BY <1>2 DEF OpenFails
  <1>3. CASE Opens
    <2>1. Exports[target] \in SUBSET Symbols
      BY <1>3 DEF Opens
    <2>. QED  BY <1>3, <2>1 DEF Opens, Clear
  <1>4. ASSUME NEW ok \in BOOLEAN, NEW inTime \in BOOLEAN, InitReturns(ok, inTime)
        PROVE  /\ RtTypeOK' /\ RtInv' /\ target' = target /\ rtpc = "gpi_init"
               /\ LoadGoesOn
    BY <1>4 DEF InitReturns, LoadSucceeds, TimedCall, Clear
  <1>5. ASSUME NEW ok \in BOOLEAN, NEW inTime \in BOOLEAN, CallReturns(ok, inTime)
        PROVE  /\ RtTypeOK' /\ RtInv' /\ target' = target /\ rtpc \in Stages
               /\ rtpc' = "idle" /\ loaded'
    BY <1>5 DEF CallReturns, TimedCall
  <1>6. CASE CapsReturn
    BY <1>6 DEF CapsReturn, LoadSucceeds
  <1>. QED  BY <1>1, <1>2, <1>3, <1>4, <1>5, <1>6 DEF RtStep

-----------------------------------------------------------------------------
(* The list of plugins and the indices into it. *)

LEMMA PathIsPlugin ==
  ASSUME HostTypeOK, NEW i \in Int, 0 <= i, i < Len(plugin_metas)
  PROVE  PathAt(i) \in Plugins
  BY DEF HostTypeOK, PathAt

LEMMA SelectedIsPlugin ==
  ASSUME HostTypeOK, SelInv, selected_idx >= 0
  PROVE  PathAt(selected_idx) \in Plugins
  BY PathIsPlugin DEF HostTypeOK, SelInv

LEMMA NextIsPlugin ==
  ASSUME HostTypeOK, SelInv, plugin_metas # <<>>
  PROVE  /\ NextIdx \in Int /\ 0 <= NextIdx /\ NextIdx < Len(plugin_metas)
         /\ PathAt(NextIdx) \in Plugins
  <1>1. Len(plugin_metas) \in Nat /\ Len(plugin_metas) > 0
    BY DEF HostTypeOK
  <1>2. NextIdx \in Int /\ 0 <= NextIdx /\ NextIdx < Len(plugin_metas)
    BY <1>1 DEF HostTypeOK, SelInv, NextIdx
  <1>. QED  BY <1>2, PathIsPlugin

LEMMA IndicesAreInRange ==
  ASSUME HostTypeOK, NEW i \in Indices
  PROVE  i \in Int /\ 0 <= i /\ i < Len(plugin_metas)
  BY DEF HostTypeOK, Indices

LEMMA ScansAreLists ==
  ASSUME NEW s \in Scans
  PROVE  /\ s \in Seq(Plugins)
         /\ s # <<>> => Len(s) > 0
         /\ \A i \in DOMAIN s : i \in 1..Len(s)
  BY DEF Scans

-----------------------------------------------------------------------------
(* Every step of the main thread. *)

LEMMA StartupKeepsInv ==
  ASSUME Inv, Startup
  PROVE  Inv'
<1>1. CASE Boot
  <2>0. /\ plugin_metas' \in Seq(Plugins) /\ selected_idx' \in Int
        /\ selected_idx' >= -1 /\ selected_idx' < Len(plugin_metas')
        /\ plugin_metas' # <<>> => selected_idx' >= 0
    <3>1. plugin_metas' \in Scans
      BY <1>1 DEF Boot
    <3>2. CASE plugin_metas' = <<>> /\ selected_idx' = -1
      BY <3>1, <3>2, ScansAreLists
    <3>3. CASE \E i \in DOMAIN plugin_metas' : selected_idx' = i - 1
      BY <3>1, <3>3, ScansAreLists
    <3>. QED  BY <1>1, <3>2, <3>3 DEF Boot
  <2>1. /\ RtTypeOK' /\ RtInv'
        /\ pc' = "autoload" => /\ target' = plugin_metas'[selected_idx' + 1]
                                /\ rtpc' \in {"load_shutdown", "open"}
                                /\ selected_idx' >= 0
        /\ pc' # "autoload" => UNCHANGED rtVars
    BY <1>1, RtUnchanged, StartLoadRt, ScansAreLists DEF Inv, TypeOK, Boot
  <2>2. WdTypeOK'
    BY <1>1 DEF Inv, TypeOK, WdTypeOK, wdVars, Boot
  <2>3. HostTypeOK'
    <3>1. pc' \in Steps
      BY <1>1 DEF Boot, Steps
    <3>. QED  BY <1>1, <2>0, <3>1 DEF Inv, TypeOK, HostTypeOK, demoVars, Boot
  <2>4. SelInv'
    <3>1. pc' \in {"autoload", "watchdog"}
      BY <1>1 DEF Boot
    <3>. QED  BY <2>0, <2>1, <3>1 DEF SelInv, SelPcs, NextPcs, PathAt
  <2>5. PcInv'
    BY <1>1, <2>1 DEF Inv, PcInv, LoadPcs, UnloadPcs, rtVars, Boot
  <2>. QED  BY <2>1, <2>2, <2>3, <2>4, <2>5 DEF Inv, TypeOK
<1>2. CASE AutoloadReturns
  <2>1. RtTypeOK' /\ RtInv' /\ UNCHANGED rtVars
    BY <1>2, RtUnchanged DEF Inv, TypeOK, AutoloadReturns
  <2>2. WdTypeOK'
    BY <1>2 DEF Inv, TypeOK, WdTypeOK, wdVars, AutoloadReturns
  <2>3. HostTypeOK'
    BY <1>2, SelectedIsPlugin DEF Inv, TypeOK, HostTypeOK, Steps, Stages,
       uiVars, demoVars, AutoloadReturns, Adopt, KeepPlugin, SelInv, SelPcs,
       NextPcs
  <2>4. SelInv'
    BY <1>2, <2>1, SelectedIsPlugin DEF Inv, TypeOK, HostTypeOK, SelInv,
       SelPcs, NextPcs, PathAt, NextIdx, uiVars, rtVars, AutoloadReturns,
       Adopt, KeepPlugin
  <2>5. PcInv'
    BY <1>2, <2>1 DEF Inv, PcInv, LoadPcs, UnloadPcs, rtVars, AutoloadReturns,
       Adopt, KeepPlugin
  <2>. QED  BY <2>1, <2>2, <2>3, <2>4, <2>5 DEF Inv, TypeOK
<1>3. CASE StartWatchdog
  <2>1. RtTypeOK' /\ RtInv' /\ UNCHANGED rtVars
    BY <1>3, RtUnchanged DEF Inv, TypeOK, StartWatchdog
  <2>2. WdTypeOK'
    BY <1>3 DEF Inv, TypeOK, WdTypeOK, WdSteps, StartWatchdog, WatchdogStart
  <2>3. HostTypeOK'
    BY <1>3 DEF Inv, TypeOK, HostTypeOK, Steps, Stages, uiVars, demoVars,
       StartWatchdog
  <2>4. SelInv'
    BY <1>3, <2>1 DEF Inv, TypeOK, HostTypeOK, SelInv, SelPcs, NextPcs,
       PathAt, NextIdx, uiVars, rtVars, StartWatchdog
  <2>5. PcInv'
    BY <1>3, <2>1 DEF Inv, PcInv, LoadPcs, UnloadPcs, rtVars, StartWatchdog
  <2>. QED  BY <2>1, <2>2, <2>3, <2>4, <2>5 DEF Inv, TypeOK
<1>4. CASE WindowFails
  <2>1. RtTypeOK' /\ RtInv' /\ UNCHANGED rtVars
    BY <1>4, RtUnchanged DEF Inv, TypeOK, WindowFails
  <2>2. WdTypeOK'
    BY <1>4 DEF Inv, TypeOK, WdTypeOK, wdVars, WindowFails
  <2>3. HostTypeOK'
    BY <1>4 DEF Inv, TypeOK, HostTypeOK, Steps, Finished, uiVars, demoVars,
       WindowFails
  <2>4. SelInv'
    BY <1>4, <2>1 DEF Inv, TypeOK, HostTypeOK, SelInv, SelPcs, NextPcs,
       PathAt, NextIdx, uiVars, rtVars, WindowFails
  <2>5. PcInv'
    BY <1>4, <2>1 DEF Inv, PcInv, LoadPcs, UnloadPcs, rtVars, WindowFails
  <2>. QED  BY <2>1, <2>2, <2>3, <2>4, <2>5 DEF Inv, TypeOK
<1>. QED  BY <1>1, <1>2, <1>3, <1>4 DEF Startup

LEMMA FrameKeepsInv ==
  ASSUME Inv, Frame
  PROVE  Inv'
<1>1. CASE PollInput
  <2>1. RtTypeOK' /\ RtInv' /\ UNCHANGED rtVars
    BY <1>1, RtUnchanged DEF Inv, TypeOK, PollInput
  <2>2. WdTypeOK'
    BY <1>1 DEF Inv, TypeOK, WdTypeOK, wdVars, PollInput
  <2>3. HostTypeOK'
    BY <1>1 DEF Inv, TypeOK, HostTypeOK, Steps, Stages, uiVars, demoVars,
       PollInput, ReadInput
  <2>4. SelInv'
    BY <1>1, <2>1 DEF Inv, TypeOK, HostTypeOK, SelInv, SelPcs, NextPcs,
       PathAt, NextIdx, uiVars, rtVars, PollInput
  <2>5. PcInv'
    BY <1>1, <2>1 DEF Inv, PcInv, LoadPcs, UnloadPcs, rtVars, PollInput
  <2>. QED  BY <2>1, <2>2, <2>3, <2>4, <2>5 DEF Inv, TypeOK
<1>2. CASE SkipCall
  <2>1. RtTypeOK' /\ RtInv' /\ UNCHANGED rtVars
    BY <1>2, RtUnchanged DEF Inv, TypeOK, SkipCall
  <2>2. WdTypeOK'
    BY <1>2 DEF Inv, TypeOK, WdTypeOK, wdVars, SkipCall
  <2>3. HostTypeOK'
    BY <1>2 DEF Inv, TypeOK, HostTypeOK, Steps, Stages, uiVars, demoVars,
       SkipCall, NextStage
  <2>4. SelInv'
    BY <1>2, <2>1 DEF Inv, TypeOK, HostTypeOK, SelInv, SelPcs, NextPcs,
       PathAt, NextIdx, uiVars, rtVars, SkipCall, NextStage
  <2>5. PcInv'
    BY <1>2, <2>1 DEF Inv, PcInv, LoadPcs, UnloadPcs, rtVars, SkipCall,
       NextStage
  <2>. QED  BY <2>1, <2>2, <2>3, <2>4, <2>5 DEF Inv, TypeOK
<1>3. CASE MarkCall
  <2>1. RtTypeOK' /\ RtInv' /\ UNCHANGED rtVars
    BY <1>3, RtUnchanged DEF Inv, TypeOK, MarkCall
  <2>2. WdTypeOK'
    BY <1>3 DEF Inv, TypeOK, WdTypeOK, WdSteps, MarkCall, MarkInCall
  <2>3. HostTypeOK'
    BY <1>3 DEF Inv, TypeOK, HostTypeOK, Steps, Stages, uiVars, demoVars,
       MarkCall
  <2>4. SelInv'
    BY <1>3, <2>1 DEF Inv, TypeOK, HostTypeOK, SelInv, SelPcs, NextPcs,
       PathAt, NextIdx, uiVars, rtVars, MarkCall
  <2>5. PcInv'
    BY <1>3, <2>1 DEF Inv, PcInv, LoadPcs, UnloadPcs, rtVars, MarkCall
  <2>. QED  BY <2>1, <2>2, <2>3, <2>4, <2>5 DEF Inv, TypeOK
<1>4. CASE MakeCall
  <2>1. /\ RtTypeOK' /\ RtInv'
        /\ pc' = "call" => rtpc' = stage /\ loaded'
        /\ pc' = "crashed" => UNCHANGED rtVars
    BY <1>4, RtUnchanged, StartCallRt DEF Inv, TypeOK, HostTypeOK, MakeCall
  <2>2. WdTypeOK'
    BY <1>4 DEF Inv, TypeOK, WdTypeOK, WdSteps, MakeCall, MarkStart
  <2>3. HostTypeOK'
    BY <1>4 DEF Inv, TypeOK, HostTypeOK, Steps, Stages, uiVars, demoVars,
       MakeCall, Finished
  <2>4. SelInv'
    BY <1>4, <2>1 DEF Inv, TypeOK, HostTypeOK, SelInv, SelPcs, NextPcs,
       PathAt, NextIdx, uiVars, rtVars, MakeCall
  <2>5. PcInv'
    BY <1>4, <2>1 DEF Inv, PcInv, LoadPcs, UnloadPcs, rtVars, MakeCall
  <2>. QED  BY <2>1, <2>2, <2>3, <2>4, <2>5 DEF Inv, TypeOK
<1>5. CASE CallDone
  <2>1. /\ RtTypeOK' /\ RtInv' /\ target' = target
        /\ pc' = "fail_unload" =>
             rtpc' \in {"idle", "unload_shutdown"} /\ (rtpc' = "idle" => ~loaded')
        /\ pc' # "fail_unload" => UNCHANGED rtVars
    BY <1>5, RtUnchanged, StartUnloadRt DEF Inv, TypeOK, rtVars, NextStage,
       CallDone
  <2>2. WdTypeOK'
    BY <1>5 DEF Inv, TypeOK, WdTypeOK, WdSteps, CallDone, UnmarkCall
  <2>3. HostTypeOK'
    BY <1>5 DEF Inv, TypeOK, HostTypeOK, Steps, Stages, uiVars, demoVars,
       CallDone, NextStage
  <2>4. SelInv'
    BY <1>5, <2>1 DEF Inv, TypeOK, HostTypeOK, SelInv, SelPcs, NextPcs,
       PathAt, NextIdx, uiVars, rtVars, CallDone, NextStage
  <2>5. PcInv'
    BY <1>5, <2>1 DEF Inv, PcInv, LoadPcs, UnloadPcs, rtVars, CallDone,
       NextStage
  <2>. QED  BY <2>1, <2>2, <2>3, <2>4, <2>5 DEF Inv, TypeOK
<1>6. CASE FailedUnloaded
  <2>1. RtTypeOK' /\ RtInv' /\ UNCHANGED rtVars
    BY <1>6, RtUnchanged DEF Inv, TypeOK, FailedUnloaded
  <2>2. WdTypeOK'
    BY <1>6 DEF Inv, TypeOK, WdTypeOK, wdVars, FailedUnloaded
  <2>3. HostTypeOK'
    BY <1>6 DEF Inv, TypeOK, HostTypeOK, Steps, Stages, uiVars, demoVars,
       FailedUnloaded, NextStage
  <2>4. SelInv'
    BY <1>6, <2>1 DEF Inv, TypeOK, HostTypeOK, SelInv, SelPcs, NextPcs,
       PathAt, NextIdx, uiVars, rtVars, FailedUnloaded, NextStage
  <2>5. PcInv'
    BY <1>6, <2>1 DEF Inv, PcInv, LoadPcs, UnloadPcs, rtVars, FailedUnloaded,
       NextStage
  <2>. QED  BY <2>1, <2>2, <2>3, <2>4, <2>5 DEF Inv, TypeOK
<1>. QED  BY <1>1, <1>2, <1>3, <1>4, <1>5, <1>6 DEF Frame

LEMMA DemoKeepsInv ==
  ASSUME Inv, DemoTimeline
  PROVE  Inv'
<1>1. CASE DemoStep
  <2>1. /\ RtTypeOK' /\ RtInv' /\ target' = target
        /\ pc' = "demo_unload" =>
             rtpc' \in {"idle", "unload_shutdown"} /\ (rtpc' = "idle" => ~loaded')
        /\ pc' # "demo_unload" => UNCHANGED rtVars
    BY <1>1, RtUnchanged, StartUnloadRt DEF Inv, TypeOK, rtVars, DemoStep
  <2>2. WdTypeOK'
    BY <1>1 DEF Inv, TypeOK, WdTypeOK, wdVars, DemoStep
  <2>3. HostTypeOK'
    BY <1>1 DEF Inv, TypeOK, HostTypeOK, Steps, Stages, uiVars, demoVars,
       DemoStep
  <2>4. SelInv'
    BY <1>1, <2>1 DEF Inv, TypeOK, HostTypeOK, SelInv, SelPcs, NextPcs,
       PathAt, NextIdx, uiVars, rtVars, DemoStep
  <2>5. PcInv'
    BY <1>1, <2>1 DEF Inv, PcInv, LoadPcs, UnloadPcs, rtVars, DemoStep
  <2>. QED  BY <2>1, <2>2, <2>3, <2>4, <2>5 DEF Inv, TypeOK
<1>2. CASE DemoUnloaded
  <2>1. /\ RtTypeOK' /\ RtInv' /\ target' = PathAt(NextIdx)
        /\ rtpc' \in {"load_shutdown", "open"}
    BY <1>2, NextIsPlugin, StartLoadRt DEF Inv, TypeOK, SelInv, NextPcs,
       DemoUnloaded
  <2>2. WdTypeOK'
    BY <1>2 DEF Inv, TypeOK, WdTypeOK, wdVars, DemoUnloaded
  <2>3. HostTypeOK'
    BY <1>2 DEF Inv, TypeOK, HostTypeOK, Steps, Stages, uiVars, demoVars,
       DemoUnloaded
  <2>4. SelInv'
    BY <1>2, <2>1 DEF Inv, TypeOK, HostTypeOK, SelInv, SelPcs, NextPcs,
       PathAt, NextIdx, uiVars, rtVars, DemoUnloaded
  <2>5. PcInv'
    BY <1>2, <2>1 DEF Inv, PcInv, LoadPcs, UnloadPcs, rtVars, DemoUnloaded
  <2>. QED  BY <2>1, <2>2, <2>3, <2>4, <2>5 DEF Inv, TypeOK
<1>3. CASE DemoLoaded
  <2>1. RtTypeOK' /\ RtInv' /\ UNCHANGED rtVars
    BY <1>3, RtUnchanged DEF Inv, TypeOK, DemoLoaded
  <2>2. WdTypeOK'
    BY <1>3 DEF Inv, TypeOK, WdTypeOK, wdVars, DemoLoaded
  <2>3. HostTypeOK'
    <3>1. PathAt(NextIdx) \in Plugins /\ NextIdx \in Int
      BY <1>3, NextIsPlugin DEF Inv, TypeOK, SelInv, NextPcs, DemoLoaded
    <3>2. selected_idx' \in Int /\ video_frame' \in Nat
      BY <1>3, <3>1 DEF Inv, TypeOK, HostTypeOK, DemoLoaded
    <3>3. /\ pc' \in Steps /\ plugin_loaded' \in BOOLEAN
          /\ leaf' \in Plugins \cup {NoPlugin}
          /\ demo_swapped' \in BOOLEAN /\ record_video' \in BOOLEAN
      BY <1>3, <3>1 DEF Inv, TypeOK, HostTypeOK, Steps, DemoLoaded, Adopt,
         KeepPlugin
    <3>. QED  BY <1>3, <3>2, <3>3 DEF Inv, TypeOK, HostTypeOK, DemoLoaded
  <2>4. SelInv'
    BY <1>3, <2>1, NextIsPlugin DEF Inv, TypeOK, HostTypeOK, SelInv, SelPcs,
       NextPcs, PathAt, NextIdx, uiVars, rtVars, DemoLoaded, Adopt, KeepPlugin
  <2>5. PcInv'
    BY <1>3, <2>1 DEF Inv, PcInv, LoadPcs, UnloadPcs, rtVars, DemoLoaded,
       Adopt, KeepPlugin
  <2>. QED  BY <2>1, <2>2, <2>3, <2>4, <2>5 DEF Inv, TypeOK
<1>4. CASE VideoStep
  <2>1. RtTypeOK' /\ RtInv' /\ UNCHANGED rtVars
    BY <1>4, RtUnchanged DEF Inv, TypeOK, VideoStep
  <2>2. WdTypeOK'
    BY <1>4 DEF Inv, TypeOK, WdTypeOK, wdVars, VideoStep
  <2>3. HostTypeOK'
    <3>1. video_frame' \in Nat
      BY <1>4 DEF Inv, TypeOK, HostTypeOK, VideoStep
    <3>2. pc' \in Steps /\ running' \in BOOLEAN /\ record_video' \in BOOLEAN
      BY <1>4 DEF Inv, TypeOK, HostTypeOK, Steps, VideoStep
    <3>. QED  BY <1>4, <3>1, <3>2 DEF Inv, TypeOK, HostTypeOK, uiVars, VideoStep
  <2>4. SelInv'
    BY <1>4, <2>1 DEF Inv, TypeOK, HostTypeOK, SelInv, SelPcs, NextPcs,
       PathAt, NextIdx, uiVars, rtVars, VideoStep
  <2>5. PcInv'
    BY <1>4, <2>1 DEF Inv, PcInv, LoadPcs, UnloadPcs, rtVars, VideoStep
  <2>. QED  BY <2>1, <2>2, <2>3, <2>4, <2>5 DEF Inv, TypeOK
<1>. QED  BY <1>1, <1>2, <1>3, <1>4 DEF DemoTimeline

LEMMA PanelKeepsInv ==
  ASSUME Inv, Panel
  PROVE  Inv'
<1>1. CASE PanelIdle
  <2>1. RtTypeOK' /\ RtInv' /\ UNCHANGED rtVars
    BY <1>1, RtUnchanged DEF Inv, TypeOK, PanelIdle
  <2>2. WdTypeOK'
    BY <1>1 DEF Inv, TypeOK, WdTypeOK, wdVars, PanelIdle
  <2>3. HostTypeOK'
    BY <1>1 DEF Inv, TypeOK, HostTypeOK, Steps, Stages, uiVars, demoVars,
       PanelIdle, AfterPanel
  <2>4. SelInv'
    BY <1>1, <2>1 DEF Inv, TypeOK, HostTypeOK, SelInv, SelPcs, NextPcs,
       PathAt, NextIdx, uiVars, rtVars, PanelIdle, AfterPanel
  <2>5. PcInv'
    BY <1>1, <2>1 DEF Inv, PcInv, LoadPcs, UnloadPcs, rtVars, PanelIdle,
       AfterPanel
  <2>. QED  BY <2>1, <2>2, <2>3, <2>4, <2>5 DEF Inv, TypeOK
<1>2. CASE PanelRefresh
  <2>1. RtTypeOK' /\ RtInv' /\ UNCHANGED rtVars
    BY <1>2, RtUnchanged DEF Inv, TypeOK, PanelRefresh
  <2>2. WdTypeOK'
    BY <1>2 DEF Inv, TypeOK, WdTypeOK, wdVars, PanelRefresh
  <2>3. HostTypeOK'
    BY <1>2, ScansAreLists DEF Inv, TypeOK, HostTypeOK, Steps, Stages, uiVars,
       demoVars, PanelRefresh, AfterPanel
  <2>4. SelInv'
    BY <1>2, <2>1, ScansAreLists DEF Inv, TypeOK, HostTypeOK, SelInv, SelPcs,
       NextPcs, PathAt, NextIdx, uiVars, rtVars, PanelRefresh, AfterPanel
  <2>5. PcInv'
    BY <1>2, <2>1 DEF Inv, PcInv, LoadPcs, UnloadPcs, rtVars, PanelRefresh,
       AfterPanel
  <2>. QED  BY <2>1, <2>2, <2>3, <2>4, <2>5 DEF Inv, TypeOK
<1>3. CASE PanelSelect
  <2>1. RtTypeOK' /\ RtInv' /\ UNCHANGED rtVars
    BY <1>3, RtUnchanged DEF Inv, TypeOK, Select, PanelSelect
  <2>2. WdTypeOK'
    BY <1>3 DEF Inv, TypeOK, WdTypeOK, wdVars, PanelSelect, Select
  <2>3. HostTypeOK'
    BY <1>3, IndicesAreInRange DEF Inv, TypeOK, HostTypeOK, Steps, Stages,
       uiVars, demoVars, PanelSelect, AfterPanel, Select
  <2>4. SelInv'
    BY <1>3, <2>1, IndicesAreInRange DEF Inv, TypeOK, HostTypeOK, SelInv,
       SelPcs, NextPcs, PathAt, NextIdx, uiVars, rtVars, PanelSelect,
       AfterPanel, Select
  <2>5. PcInv'
    BY <1>3, <2>1 DEF Inv, PcInv, LoadPcs, UnloadPcs, rtVars, PanelSelect,
       AfterPanel, Select
  <2>. QED  BY <2>1, <2>2, <2>3, <2>4, <2>5 DEF Inv, TypeOK
<1>4. CASE PanelLoad
  <2>1. /\ RtTypeOK' /\ RtInv' /\ target' = PathAt(selected_idx)
        /\ rtpc' \in {"load_shutdown", "open"}
    BY <1>4, SelectedIsPlugin, StartLoadRt DEF Inv, TypeOK, PanelLoad
  <2>2. WdTypeOK'
    BY <1>4 DEF Inv, TypeOK, WdTypeOK, wdVars, PanelLoad
  <2>3. HostTypeOK'
    BY <1>4 DEF Inv, TypeOK, HostTypeOK, Steps, Stages, uiVars, demoVars,
       PanelLoad
  <2>4. SelInv'
    BY <1>4, <2>1 DEF Inv, TypeOK, HostTypeOK, SelInv, SelPcs, NextPcs,
       PathAt, NextIdx, uiVars, rtVars, PanelLoad
  <2>5. PcInv'
    BY <1>4, <2>1 DEF Inv, PcInv, LoadPcs, UnloadPcs, rtVars, PanelLoad
  <2>. QED  BY <2>1, <2>2, <2>3, <2>4, <2>5 DEF Inv, TypeOK
<1>5. CASE PanelLoadReturns
  <2>1. RtTypeOK' /\ RtInv' /\ UNCHANGED rtVars
    BY <1>5, RtUnchanged DEF Inv, TypeOK, PanelLoadReturns
  <2>2. WdTypeOK'
    BY <1>5 DEF Inv, TypeOK, WdTypeOK, wdVars, PanelLoadReturns
  <2>3. HostTypeOK'
    BY <1>5, SelectedIsPlugin DEF Inv, TypeOK, HostTypeOK, Steps, Stages,
       uiVars, demoVars, PanelLoadReturns, AfterPanel, Adopt, KeepPlugin,
       SelInv, SelPcs, NextPcs
  <2>4. SelInv'
    BY <1>5, <2>1, SelectedIsPlugin DEF Inv, TypeOK, HostTypeOK, SelInv,
       SelPcs, NextPcs, PathAt, NextIdx, uiVars, rtVars, PanelLoadReturns,
       AfterPanel, Adopt, KeepPlugin
  <2>5. PcInv'
    BY <1>5, <2>1 DEF Inv, PcInv, LoadPcs, UnloadPcs, rtVars,
       PanelLoadReturns, AfterPanel, Adopt, KeepPlugin
  <2>. QED  BY <2>1, <2>2, <2>3, <2>4, <2>5 DEF Inv, TypeOK
<1>6. CASE PanelUnload
  <2>1. /\ RtTypeOK' /\ RtInv' /\ target' = target
        /\ rtpc' \in {"idle", "unload_shutdown"} /\ (rtpc' = "idle" => ~loaded')
    BY <1>6, StartUnloadRt DEF Inv, TypeOK, PanelUnload
  <2>2. WdTypeOK'
    BY <1>6 DEF Inv, TypeOK, WdTypeOK, wdVars, PanelUnload
  <2>3. HostTypeOK'
    BY <1>6 DEF Inv, TypeOK, HostTypeOK, Steps, Stages, uiVars, demoVars,
       PanelUnload
  <2>4. SelInv'
    BY <1>6, <2>1 DEF Inv, TypeOK, HostTypeOK, SelInv, SelPcs, NextPcs,
       PathAt, NextIdx, uiVars, rtVars, PanelUnload
  <2>5. PcInv'
    BY <1>6, <2>1 DEF Inv, PcInv, LoadPcs, UnloadPcs, rtVars, PanelUnload
  <2>. QED  BY <2>1, <2>2, <2>3, <2>4, <2>5 DEF Inv, TypeOK
<1>7. CASE PanelUnloaded
  <2>1. RtTypeOK' /\ RtInv' /\ UNCHANGED rtVars
    BY <1>7, RtUnchanged DEF Inv, TypeOK, PanelUnloaded
  <2>2. WdTypeOK'
    BY <1>7 DEF Inv, TypeOK, WdTypeOK, wdVars, PanelUnloaded
  <2>3. HostTypeOK'
    BY <1>7 DEF Inv, TypeOK, HostTypeOK, Steps, Stages, uiVars, demoVars,
       PanelUnloaded, AfterPanel
  <2>4. SelInv'
    BY <1>7, <2>1 DEF Inv, TypeOK, HostTypeOK, SelInv, SelPcs, NextPcs,
       PathAt, NextIdx, uiVars, rtVars, PanelUnloaded, AfterPanel
  <2>5. PcInv'
    BY <1>7, <2>1 DEF Inv, PcInv, LoadPcs, UnloadPcs, rtVars, PanelUnloaded,
       AfterPanel
  <2>. QED  BY <2>1, <2>2, <2>3, <2>4, <2>5 DEF Inv, TypeOK
<1>8. CASE PanelSwap
  <2>1. /\ RtTypeOK' /\ RtInv' /\ target' = target
        /\ rtpc' \in {"idle", "unload_shutdown"} /\ (rtpc' = "idle" => ~loaded')
    BY <1>8, StartUnloadRt DEF Inv, TypeOK, PanelSwap
  <2>2. WdTypeOK'
    BY <1>8 DEF Inv, TypeOK, WdTypeOK, wdVars, PanelSwap
  <2>3. HostTypeOK'
    BY <1>8 DEF Inv, TypeOK, HostTypeOK, Steps, Stages, uiVars, demoVars,
       PanelSwap
  <2>4. SelInv'
    BY <1>8, <2>1 DEF Inv, TypeOK, HostTypeOK, SelInv, SelPcs, NextPcs,
       PathAt, NextIdx, uiVars, rtVars, PanelSwap
  <2>5. PcInv'
    BY <1>8, <2>1 DEF Inv, PcInv, LoadPcs, UnloadPcs, rtVars, PanelSwap
  <2>. QED  BY <2>1, <2>2, <2>3, <2>4, <2>5 DEF Inv, TypeOK
<1>9. CASE SwapUnloaded
  <2>1. /\ RtTypeOK' /\ RtInv' /\ target' = PathAt(NextIdx)
        /\ rtpc' \in {"load_shutdown", "open"}
    BY <1>9, NextIsPlugin, StartLoadRt DEF Inv, TypeOK, SelInv, NextPcs,
       SwapUnloaded
  <2>2. WdTypeOK'
    BY <1>9 DEF Inv, TypeOK, WdTypeOK, wdVars, SwapUnloaded
  <2>3. HostTypeOK'
    BY <1>9 DEF Inv, TypeOK, HostTypeOK, Steps, Stages, uiVars, demoVars,
       SwapUnloaded
  <2>4. SelInv'
    BY <1>9, <2>1 DEF Inv, TypeOK, HostTypeOK, SelInv, SelPcs, NextPcs,
       PathAt, NextIdx, uiVars, rtVars, SwapUnloaded
  <2>5. PcInv'
    BY <1>9, <2>1 DEF Inv, PcInv, LoadPcs, UnloadPcs, rtVars, SwapUnloaded
  <2>. QED  BY <2>1, <2>2, <2>3, <2>4, <2>5 DEF Inv, TypeOK
<1>10. CASE SwapLoaded
  <2>1. RtTypeOK' /\ RtInv' /\ UNCHANGED rtVars
    BY <1>10, RtUnchanged DEF Inv, TypeOK, SwapLoaded
  <2>2. WdTypeOK'
    BY <1>10 DEF Inv, TypeOK, WdTypeOK, wdVars, SwapLoaded
  <2>3. HostTypeOK'
    BY <1>10, NextIsPlugin DEF Inv, TypeOK, HostTypeOK, Steps, Stages, uiVars,
       demoVars, SwapLoaded, AfterPanel, Adopt, KeepPlugin, SelInv, SelPcs,
       NextPcs
  <2>4. SelInv'
    BY <1>10, <2>1, NextIsPlugin DEF Inv, TypeOK, HostTypeOK, SelInv, SelPcs,
       NextPcs, PathAt, NextIdx, uiVars, rtVars, SwapLoaded, AfterPanel,
       Adopt, KeepPlugin
  <2>5. PcInv'
    BY <1>10, <2>1 DEF Inv, PcInv, LoadPcs, UnloadPcs, rtVars, SwapLoaded,
       AfterPanel, Adopt, KeepPlugin
  <2>. QED  BY <2>1, <2>2, <2>3, <2>4, <2>5 DEF Inv, TypeOK
<1>11. CASE HudIdle
  <2>1. RtTypeOK' /\ RtInv' /\ UNCHANGED rtVars
    BY <1>11, RtUnchanged DEF Inv, TypeOK, HudIdle
  <2>2. WdTypeOK'
    BY <1>11 DEF Inv, TypeOK, WdTypeOK, wdVars, HudIdle
  <2>3. HostTypeOK'
    BY <1>11 DEF Inv, TypeOK, HostTypeOK, Steps, Stages, uiVars, demoVars,
       HudIdle
  <2>4. SelInv'
    BY <1>11, <2>1 DEF Inv, TypeOK, HostTypeOK, SelInv, SelPcs, NextPcs,
       PathAt, NextIdx, uiVars, rtVars, HudIdle
  <2>5. PcInv'
    BY <1>11, <2>1 DEF Inv, PcInv, LoadPcs, UnloadPcs, rtVars, HudIdle
  <2>. QED  BY <2>1, <2>2, <2>3, <2>4, <2>5 DEF Inv, TypeOK
<1>12. CASE HudVideo
  <2>1. RtTypeOK' /\ RtInv' /\ UNCHANGED rtVars
    BY <1>12, RtUnchanged DEF Inv, TypeOK, HudVideo
  <2>2. WdTypeOK'
    BY <1>12 DEF Inv, TypeOK, WdTypeOK, wdVars, HudVideo
  <2>3. HostTypeOK'
    BY <1>12 DEF Inv, TypeOK, HostTypeOK, Steps, Stages, uiVars, demoVars,
       HudVideo
  <2>4. SelInv'
    BY <1>12, <2>1 DEF Inv, TypeOK, HostTypeOK, SelInv, SelPcs, NextPcs,
       PathAt, NextIdx, uiVars, rtVars, HudVideo
  <2>5. PcInv'
    BY <1>12, <2>1 DEF Inv, PcInv, LoadPcs, UnloadPcs, rtVars, HudVideo
  <2>. QED  BY <2>1, <2>2, <2>3, <2>4, <2>5 DEF Inv, TypeOK
<1>. QED  BY <1>1, <1>2, <1>3, <1>4, <1>5, <1>6, <1>7, <1>8, <1>9,
             <1>10, <1>11, <1>12 DEF Panel

LEMMA StoreKeepsInv ==
  ASSUME Inv, Store
  PROVE  Inv'
<1>1. CASE StoreIdle
  <2>1. RtTypeOK' /\ RtInv' /\ UNCHANGED rtVars
    BY <1>1, RtUnchanged DEF Inv, TypeOK, StoreIdle
  <2>2. WdTypeOK'
    BY <1>1 DEF Inv, TypeOK, WdTypeOK, wdVars, StoreIdle
  <2>3. HostTypeOK'
    BY <1>1 DEF Inv, TypeOK, HostTypeOK, Steps, Stages, uiVars, demoVars,
       StoreIdle
  <2>4. SelInv'
    BY <1>1, <2>1 DEF Inv, TypeOK, HostTypeOK, SelInv, SelPcs, NextPcs,
       PathAt, NextIdx, uiVars, rtVars, StoreIdle
  <2>5. PcInv'
    BY <1>1, <2>1 DEF Inv, PcInv, LoadPcs, UnloadPcs, rtVars, StoreIdle
  <2>. QED  BY <2>1, <2>2, <2>3, <2>4, <2>5 DEF Inv, TypeOK
<1>2. CASE StoreSelect
  <2>1. RtTypeOK' /\ RtInv' /\ UNCHANGED rtVars
    BY <1>2, RtUnchanged DEF Inv, TypeOK, Select, StoreSelect
  <2>2. WdTypeOK'
    BY <1>2 DEF Inv, TypeOK, WdTypeOK, wdVars, StoreSelect, Select
  <2>3. HostTypeOK'
    BY <1>2, IndicesAreInRange DEF Inv, TypeOK, HostTypeOK, Steps, Stages,
       uiVars, demoVars, StoreSelect, Select
  <2>4. SelInv'
    BY <1>2, <2>1, IndicesAreInRange DEF Inv, TypeOK, HostTypeOK, SelInv,
       SelPcs, NextPcs, PathAt, NextIdx, uiVars, rtVars, StoreSelect, Select
  <2>5. PcInv'
    BY <1>2, <2>1 DEF Inv, PcInv, LoadPcs, UnloadPcs, rtVars, StoreSelect,
       Select
  <2>. QED  BY <2>1, <2>2, <2>3, <2>4, <2>5 DEF Inv, TypeOK
<1>3. CASE StoreLoad
  <2>1. /\ RtTypeOK' /\ RtInv' /\ target' = PathAt(selected_idx)
        /\ rtpc' \in {"load_shutdown", "open"}
    BY <1>3, SelectedIsPlugin, StartLoadRt DEF Inv, TypeOK, StoreLoad
  <2>2. WdTypeOK'
    BY <1>3 DEF Inv, TypeOK, WdTypeOK, wdVars, StoreLoad
  <2>3. HostTypeOK'
    BY <1>3 DEF Inv, TypeOK, HostTypeOK, Steps, Stages, uiVars, demoVars,
       StoreLoad
  <2>4. SelInv'
    BY <1>3, <2>1 DEF Inv, TypeOK, HostTypeOK, SelInv, SelPcs, NextPcs,
       PathAt, NextIdx, uiVars, rtVars, StoreLoad
  <2>5. PcInv'
    BY <1>3, <2>1 DEF Inv, PcInv, LoadPcs, UnloadPcs, rtVars, StoreLoad
  <2>. QED  BY <2>1, <2>2, <2>3, <2>4, <2>5 DEF Inv, TypeOK
<1>4. CASE StoreLoadReturns
  <2>1. RtTypeOK' /\ RtInv' /\ UNCHANGED rtVars
    BY <1>4, RtUnchanged DEF Inv, TypeOK, StoreLoadReturns
  <2>2. WdTypeOK'
    BY <1>4 DEF Inv, TypeOK, WdTypeOK, wdVars, StoreLoadReturns
  <2>3. HostTypeOK'
    BY <1>4, SelectedIsPlugin DEF Inv, TypeOK, HostTypeOK, Steps, Stages,
       uiVars, demoVars, StoreLoadReturns, Adopt, KeepPlugin, SelInv, SelPcs,
       NextPcs
  <2>4. SelInv'
    BY <1>4, <2>1, SelectedIsPlugin DEF Inv, TypeOK, HostTypeOK, SelInv,
       SelPcs, NextPcs, PathAt, NextIdx, uiVars, rtVars, StoreLoadReturns,
       Adopt, KeepPlugin
  <2>5. PcInv'
    BY <1>4, <2>1 DEF Inv, PcInv, LoadPcs, UnloadPcs, rtVars,
       StoreLoadReturns, Adopt, KeepPlugin
  <2>. QED  BY <2>1, <2>2, <2>3, <2>4, <2>5 DEF Inv, TypeOK
<1>. QED  BY <1>1, <1>2, <1>3, <1>4 DEF Store

LEMMA EndingKeepsInv ==
  ASSUME Inv, Ending
  PROVE  Inv'
<1>1. CASE FrameEnd
  <2>1. RtTypeOK' /\ RtInv' /\ UNCHANGED rtVars
    BY <1>1, RtUnchanged DEF Inv, TypeOK, FrameEnd
  <2>2. WdTypeOK'
    BY <1>1 DEF Inv, TypeOK, WdTypeOK, wdVars, FrameEnd
  <2>3. HostTypeOK'
    BY <1>1 DEF Inv, TypeOK, HostTypeOK, Steps, Stages, uiVars, demoVars,
       FrameEnd
  <2>4. SelInv'
    BY <1>1, <2>1 DEF Inv, TypeOK, HostTypeOK, SelInv, SelPcs, NextPcs,
       PathAt, NextIdx, uiVars, rtVars, FrameEnd
  <2>5. PcInv'
    BY <1>1, <2>1 DEF Inv, PcInv, LoadPcs, UnloadPcs, rtVars, FrameEnd
  <2>. QED  BY <2>1, <2>2, <2>3, <2>4, <2>5 DEF Inv, TypeOK
<1>2. CASE HeadlessExit
  <2>1. RtTypeOK' /\ RtInv' /\ UNCHANGED rtVars
    BY <1>2, RtUnchanged DEF Inv, TypeOK, HeadlessExit
  <2>2. WdTypeOK'
    BY <1>2 DEF Inv, TypeOK, WdTypeOK, wdVars, HeadlessExit
  <2>3. HostTypeOK'
    BY <1>2 DEF Inv, TypeOK, HostTypeOK, Steps, Stages, uiVars, demoVars,
       HeadlessExit, Finished
  <2>4. SelInv'
    BY <1>2, <2>1 DEF Inv, TypeOK, HostTypeOK, SelInv, SelPcs, NextPcs,
       PathAt, NextIdx, uiVars, rtVars, HeadlessExit
  <2>5. PcInv'
    BY <1>2, <2>1 DEF Inv, PcInv, LoadPcs, UnloadPcs, rtVars, HeadlessExit
  <2>. QED  BY <2>1, <2>2, <2>3, <2>4, <2>5 DEF Inv, TypeOK
<1>3. CASE LeaveLoop
  <2>1. /\ RtTypeOK' /\ RtInv' /\ target' = target
        /\ rtpc' \in {"idle", "unload_shutdown"} /\ (rtpc' = "idle" => ~loaded')
    BY <1>3, StartUnloadRt DEF Inv, TypeOK, LeaveLoop
  <2>2. WdTypeOK'
    BY <1>3 DEF Inv, TypeOK, WdTypeOK, WdSteps, LeaveLoop, StopRunning
  <2>3. HostTypeOK'
    BY <1>3 DEF Inv, TypeOK, HostTypeOK, Steps, Stages, uiVars, demoVars,
       LeaveLoop
  <2>4. SelInv'
    BY <1>3, <2>1 DEF Inv, TypeOK, HostTypeOK, SelInv, SelPcs, NextPcs,
       PathAt, NextIdx, uiVars, rtVars, LeaveLoop
  <2>5. PcInv'
    BY <1>3, <2>1 DEF Inv, PcInv, LoadPcs, UnloadPcs, rtVars, LeaveLoop
  <2>. QED  BY <2>1, <2>2, <2>3, <2>4, <2>5 DEF Inv, TypeOK
<1>4. CASE ExitUnloaded
  <2>1. RtTypeOK' /\ RtInv' /\ UNCHANGED rtVars
    BY <1>4, RtUnchanged DEF Inv, TypeOK, ExitUnloaded
  <2>2. WdTypeOK'
    BY <1>4 DEF Inv, TypeOK, WdTypeOK, WdSteps, ExitUnloaded, WatchdogStop
  <2>3. HostTypeOK'
    BY <1>4 DEF Inv, TypeOK, HostTypeOK, Steps, Stages, uiVars, demoVars,
       ExitUnloaded
  <2>4. SelInv'
    BY <1>4, <2>1 DEF Inv, TypeOK, HostTypeOK, SelInv, SelPcs, NextPcs,
       PathAt, NextIdx, uiVars, rtVars, ExitUnloaded
  <2>5. PcInv'
    BY <1>4, <2>1 DEF Inv, PcInv, LoadPcs, UnloadPcs, rtVars, ExitUnloaded
  <2>. QED  BY <2>1, <2>2, <2>3, <2>4, <2>5 DEF Inv, TypeOK
<1>5. CASE ExitJoined
  <2>1. RtTypeOK' /\ RtInv' /\ UNCHANGED rtVars
    BY <1>5, RtUnchanged DEF Inv, TypeOK, ExitJoined
  <2>2. WdTypeOK'
    BY <1>5 DEF Inv, TypeOK, WdTypeOK, WdSteps, ExitJoined, WatchdogJoin
  <2>3. HostTypeOK'
    BY <1>5 DEF Inv, TypeOK, HostTypeOK, Steps, Stages, uiVars, demoVars,
       ExitJoined, Finished
  <2>4. SelInv'
    BY <1>5, <2>1 DEF Inv, TypeOK, HostTypeOK, SelInv, SelPcs, NextPcs,
       PathAt, NextIdx, uiVars, rtVars, ExitJoined
  <2>5. PcInv'
    BY <1>5, <2>1 DEF Inv, PcInv, LoadPcs, UnloadPcs, rtVars, ExitJoined
  <2>. QED  BY <2>1, <2>2, <2>3, <2>4, <2>5 DEF Inv, TypeOK
<1>. QED  BY <1>1, <1>2, <1>3, <1>4, <1>5 DEF Ending

-----------------------------------------------------------------------------
(* The other actors, and the theorem. *)

LEMMA WatchdogKeepsType ==
  ASSUME WdTypeOK,
         WatchdogLoop \/ WatchdogSleeps \/ WatchdogFires \/ TimePasses
  PROVE  WdTypeOK'
  BY DEF WdTypeOK, WdSteps, WatchdogLoop, WatchdogSleeps, WatchdogFires,
     TimePasses

LEMMA OthersKeepInv ==
  ASSUME Inv, PluginStep \/ PluginHangs \/ PluginSaves \/ WatchdogStep \/ Tick
  PROVE  Inv'
<1>. USE DEF Inv, TypeOK
<1>1. CASE PluginStep
  <2>1. RtTypeOK' /\ RtInv' /\ target' = target
    BY <1>1, RtStepRt DEF PluginStep
  <2>2. WdTypeOK' /\ HostTypeOK' /\ SelInv'
    BY <1>1, <2>1 DEF PluginStep, WdTypeOK, wdVars, HostTypeOK, hostVars,
       SelInv,
                      PathAt, NextIdx
  <2>3. PcInv'
    BY <1>1, RtStepRt DEF PluginStep, PcInv, hostVars, LoadPcs, UnloadPcs,
       Stages,
                          LoadWaits, LoadGoesOn, HostTypeOK
  <2>. QED  BY <2>1, <2>2, <2>3
<1>2. CASE PluginHangs
  <2>1. /\ RtTypeOK' /\ RtInv'
        /\ UNCHANGED <<lib, fns, loaded, rtpc, target, ret, inited>>
    BY <1>2, CallHangsRt DEF PluginHangs
  <2>2. WdTypeOK' /\ HostTypeOK' /\ SelInv'
    BY <1>2, <2>1 DEF PluginHangs, WdTypeOK, wdVars, HostTypeOK, hostVars,
       SelInv,
                      PathAt, NextIdx
  <2>3. PcInv'
    BY <1>2, <2>1 DEF PluginHangs, PcInv, hostVars
  <2>. QED  BY <2>1, <2>2, <2>3
<1>3. CASE PluginSaves
  <2>1. RtTypeOK' /\ RtInv' /\ UNCHANGED rtVars
    BY <1>3, RtUnchanged DEF PluginSaves
  <2>2. WdTypeOK' /\ HostTypeOK' /\ SelInv'
    BY <1>3, <2>1 DEF PluginSaves, WdTypeOK, wdVars, HostTypeOK, uiVars,
       demoVars,
                      rtVars, SelInv, PathAt, NextIdx
  <2>3. PcInv'
    BY <1>3, <2>1 DEF PluginSaves, PcInv, rtVars
  <2>. QED  BY <2>1, <2>2, <2>3
<1>4. CASE WatchdogStep
  <2>1. RtTypeOK' /\ RtInv' /\ UNCHANGED rtVars
    BY <1>4, RtUnchanged DEF WatchdogStep
  <2>2. WdTypeOK'
    BY <1>4, WatchdogKeepsType DEF WatchdogStep
  <2>3. HostTypeOK' /\ SelInv'
    BY <1>4, <2>1 DEF WatchdogStep, OnStall, AppRuntimeLoaded, HostTypeOK,
       uiVars,
                      demoVars, rtVars, SelInv, PathAt, NextIdx
  <2>4. PcInv'
    BY <1>4, <2>1 DEF WatchdogStep, PcInv, rtVars
  <2>. QED  BY <2>1, <2>2, <2>3, <2>4
<1>5. CASE Tick
  <2>1. RtTypeOK' /\ RtInv' /\ UNCHANGED rtVars
    BY <1>5, RtUnchanged DEF Tick
  <2>2. WdTypeOK'
    BY <1>5, WatchdogKeepsType DEF Tick
  <2>3. HostTypeOK' /\ SelInv' /\ PcInv'
    BY <1>5, <2>1 DEF Tick, HostTypeOK, hostVars, rtVars, SelInv, PcInv, PathAt,
                      NextIdx
  <2>. QED  BY <2>1, <2>2, <2>3
<1>. QED  BY <1>1, <1>2, <1>3, <1>4, <1>5

LEMMA StutterKeepsInv ==
  ASSUME Inv, UNCHANGED vars
  PROVE  Inv'
  BY DEF Inv, TypeOK, vars, rtVars, wdVars, hostVars, RtTypeOK, WdTypeOK,
         HostTypeOK, SelInv, RtInv, PcInv, PathAt, NextIdx

LEMMA NextKeepsInv == Inv /\ [Next]_vars => Inv'
  BY StartupKeepsInv, FrameKeepsInv, DemoKeepsInv, PanelKeepsInv, StoreKeepsInv,
     EndingKeepsInv, OthersKeepInv, StutterKeepsInv
     DEF Next, MainStep, TheEnd

LEMMA InvHolds == Spec => []Inv
  BY InvInit, NextKeepsInv, PTL DEF Spec

\* Every variable of the host, the runtime and the watchdog keeps its type
\* whatever the plugins do; plugin_runtime.cpp, watchdog.cpp and main.cpp.
THEOREM TypeCorrect == Spec => []TypeOK
<1>1. Inv => TypeOK
  BY DEF Inv
<1>. QED  BY <1>1, InvHolds, PTL

\* The index into plugin_metas that the panels, the hot-swap and the exit use
\* is in range whatever the directory scans find.
THEOREM SelectionStaysInRange == Spec => []SelectionInRange
<1>1. Inv => SelectionInRange
  <2>. SUFFICES ASSUME Inv, selected_idx >= 0
                PROVE  selected_idx \in Indices
    BY DEF Inv, TypeOK, HostTypeOK, SelInv, SelectionInRange
  <2>1. selected_idx + 1 \in DOMAIN plugin_metas
    BY DEF Inv, TypeOK, HostTypeOK, SelInv
  <2>. QED  BY <2>1 DEF Inv, TypeOK, HostTypeOK, Indices
<1>. QED  BY <1>1, InvHolds, PTL

-----------------------------------------------------------------------------
(* The flag plugin_loaded and the runtime. *)

\* Outside of a load, what the runtime holds is flagged.
OrphanInv ==
  pc \notin LoadPcs => (loaded => plugin_loaded)

LEMMA OrphanInvStep ==
  ASSUME Inv, OrphanInv, [Next]_vars
  PROVE  OrphanInv'
<1>. USE DEF Inv, PcInv, SelInv, RtInv, OrphanInv
<1>1. CASE Startup
  BY <1>1 DEF Startup, WindowFails, Boot, AutoloadReturns, StartWatchdog,
     StartLoad,
     StartUnload, StartCall, CallsShutdown, Clear, Adopt, KeepPlugin, LoadPcs,
     UnloadPcs, SelPcs, NextPcs, Stages, rtVars, wdVars, uiVars
<1>2. CASE Frame
  BY <1>2 DEF Frame, PollInput, ReadInput, SkipCall, MarkCall,
     MakeCall, CallDone,
     FailedUnloaded, NextStage, StartLoad, StartUnload, StartCall,
     CallsShutdown, Clear, Adopt, KeepPlugin, LoadPcs, UnloadPcs, SelPcs,
     NextPcs, Stages, rtVars, wdVars, uiVars
<1>3. CASE DemoTimeline
  BY <1>3 DEF DemoTimeline, DemoStep, DemoUnloaded, DemoLoaded, VideoStep,
     StartLoad, StartUnload, StartCall, CallsShutdown, Clear, Adopt,
     KeepPlugin, LoadPcs, UnloadPcs, SelPcs, NextPcs, Stages, rtVars, wdVars,
     uiVars
<1>4. CASE Panel
  BY <1>4 DEF Panel, HudIdle, HudVideo, AfterPanel, Select, PanelIdle,
     PanelRefresh, PanelSelect,
     PanelLoad, PanelLoadReturns, PanelUnload, PanelUnloaded, PanelSwap,
     SwapUnloaded, SwapLoaded, StartLoad, StartUnload, StartCall,
     CallsShutdown, Clear, Adopt, KeepPlugin, LoadPcs, UnloadPcs, SelPcs,
     NextPcs, Stages, rtVars, wdVars, uiVars
<1>5. CASE Store
  BY <1>5 DEF Store, Select, StoreIdle, StoreSelect, StoreLoad,
     StoreLoadReturns, StartLoad, StartUnload, StartCall, CallsShutdown,
     Clear, Adopt, KeepPlugin, LoadPcs, UnloadPcs, SelPcs, NextPcs, Stages,
     rtVars, wdVars, uiVars
<1>6. CASE Ending
  BY <1>6 DEF Ending, FrameEnd, HeadlessExit, LeaveLoop, ExitUnloaded,
     ExitJoined, StartLoad, StartUnload, StartCall, CallsShutdown, Clear,
     Adopt, KeepPlugin, LoadPcs, UnloadPcs, SelPcs, NextPcs, Stages, rtVars,
     wdVars, uiVars
<1>7. CASE PluginStep
  BY <1>7 DEF PluginStep, RtStep, ShutdownReturns, OpenFails, Opens,
     InitReturns, CapsReturn, LoadSucceeds, CallReturns, TimedCall, Clear, hostVars, wdVars, LoadPcs,
     UnloadPcs, Stages
<1>8. CASE PluginHangs
  BY <1>8 DEF PluginHangs, CallHangs, hostVars, wdVars
<1>9. CASE PluginSaves
  BY <1>9 DEF PluginSaves, PluginCalls, rtVars, wdVars, uiVars, LoadPcs,
     UnloadPcs, Stages
<1>10. CASE WatchdogStep
  BY <1>10 DEF WatchdogStep, OnStall, AppRuntimeLoaded, rtVars, WatchdogLoop,
     WatchdogSleeps, WatchdogFires
<1>11. CASE Tick
  BY <1>11 DEF Tick, TimePasses, rtVars, hostVars
<1>12. CASE UNCHANGED vars
  BY <1>12 DEF vars, rtVars, wdVars, hostVars
<1>. QED  BY <1>1, <1>2, <1>3, <1>4, <1>5, <1>6, <1>7, <1>8, <1>9, <1>10,
             <1>11, <1>12 DEF Next, MainStep, TheEnd

\* The flag is raised in vain only where a load has failed unnoticed, and the
\* places whose loads can are those of the store panel and of the demo.
FlagInv ==
  /\ pc \in {"watchdog", "head", "gate", "demo", "video", "hud", "panel",
             "store", "frame_end"}
       => (plugin_loaded => loaded \/ FailedUnnoticed)
  /\ pc = "marked" => loaded \/ FailedUnnoticed
  /\ pc = "crashed" => FailedUnnoticed
  /\ pc \in {"boot", "autoload", "panel_load"} => ~plugin_loaded
  /\ pc \in {"store", "store_load"} => ShowStore
  /\ pc \in {"demo_unload", "demo_load"} => demo_due /\ ~demo_swapped
  /\ demo_due => Demo

LEMMA FlagInvStep ==
  ASSUME Inv, FlagInv, [Next]_vars
  PROVE  FlagInv'
<1>. USE DEF Inv, PcInv, SelInv, RtInv, FlagInv, FailedUnnoticed
<1>1. CASE Startup
  BY <1>1 DEF Startup, WindowFails, Boot, AutoloadReturns, StartWatchdog,
     StartLoad,
     StartUnload, StartCall, CallsShutdown, Clear, Adopt, KeepPlugin, LoadPcs,
     UnloadPcs, SelPcs, NextPcs, Stages, rtVars, wdVars, uiVars, demoVars
<1>2. CASE Frame
  <2>. stage \in Stages
    BY DEF TypeOK, HostTypeOK
  <2>1. CASE MakeCall
    <3>1. loaded => stage \in fns
      BY <2>1 DEF MakeCall, Stages, Required
    <3>2. CASE stage \in fns
      BY <2>1, <3>2 DEF MakeCall, StartCall, demoVars
    <3>3. CASE stage \notin fns
      BY <2>1, <3>1, <3>3 DEF MakeCall, rtVars, demoVars
    <3>. QED  BY <3>2, <3>3
  <2>2. CASE PollInput \/ SkipCall \/ MarkCall \/ CallDone \/ FailedUnloaded
    BY <2>2 DEF PollInput, ReadInput, SkipCall, MarkCall, CallDone,
       FailedUnloaded,
       NextStage,
                StartUnload, CallsShutdown, Clear, UnloadPcs, rtVars, demoVars
  <2>. QED  BY <1>2, <2>1, <2>2 DEF Frame
<1>3. CASE DemoTimeline
  BY <1>3 DEF DemoTimeline, DemoStep, DemoUnloaded, DemoLoaded, VideoStep,
     StartLoad, StartUnload, StartCall, CallsShutdown, Clear, Adopt,
     KeepPlugin, LoadPcs, UnloadPcs, SelPcs, NextPcs, Stages, rtVars, wdVars,
     uiVars, demoVars
<1>4. CASE Panel
  BY <1>4 DEF Panel, HudIdle, HudVideo, AfterPanel, Select, PanelIdle,
     PanelRefresh, PanelSelect,
     PanelLoad, PanelLoadReturns, PanelUnload, PanelUnloaded, PanelSwap,
     SwapUnloaded, SwapLoaded, StartLoad, StartUnload, StartCall,
     CallsShutdown, Clear, Adopt, KeepPlugin, LoadPcs, UnloadPcs, SelPcs,
     NextPcs, Stages, rtVars, wdVars, uiVars, demoVars
<1>5. CASE Store
  BY <1>5 DEF Store, Select, StoreIdle, StoreSelect, StoreLoad,
     StoreLoadReturns, StartLoad, StartUnload, StartCall, CallsShutdown,
     Clear, Adopt, KeepPlugin, LoadPcs, UnloadPcs, SelPcs, NextPcs, Stages,
     rtVars, wdVars, uiVars, demoVars
<1>6. CASE Ending
  BY <1>6 DEF Ending, FrameEnd, HeadlessExit, LeaveLoop, ExitUnloaded,
     ExitJoined, StartLoad, StartUnload, StartCall, CallsShutdown, Clear,
     Adopt, KeepPlugin, LoadPcs, UnloadPcs, SelPcs, NextPcs, Stages, rtVars,
     wdVars, uiVars, demoVars
<1>7. CASE PluginStep
  BY <1>7 DEF PluginStep, RtStep, ShutdownReturns, OpenFails, Opens,
     InitReturns, CapsReturn, LoadSucceeds, CallReturns, TimedCall, Clear, hostVars, wdVars, LoadPcs,
     UnloadPcs, Stages
<1>8. CASE PluginHangs
  BY <1>8 DEF PluginHangs, CallHangs, hostVars, wdVars
<1>9. CASE PluginSaves
  BY <1>9 DEF PluginSaves, PluginCalls, rtVars, wdVars, uiVars, demoVars, LoadPcs,
     UnloadPcs, Stages
<1>10. CASE WatchdogStep
  BY <1>10 DEF WatchdogStep, OnStall, AppRuntimeLoaded, rtVars, demoVars, WatchdogLoop,
     WatchdogSleeps, WatchdogFires
<1>11. CASE Tick
  BY <1>11 DEF Tick, TimePasses, rtVars, hostVars
<1>12. CASE UNCHANGED vars
  BY <1>12 DEF vars, rtVars, wdVars, hostVars
<1>. QED  BY <1>1, <1>2, <1>3, <1>4, <1>5, <1>6, <1>7, <1>8, <1>9, <1>10,
             <1>11, <1>12 DEF Next, MainStep, TheEnd

\* The namespace is the loaded plugin's, except for the moment between a
\* load and the assignment that follows it, when no plugin code runs.
LeafInv ==
  loaded /\ ~(pc \in LoadPcs /\ rtpc = "idle") => leaf = lib

LEMMA LeafInvStep ==
  ASSUME Inv, LeafInv, [Next]_vars
  PROVE  LeafInv'
<1>. USE DEF Inv, PcInv, SelInv, RtInv, LeafInv
<1>1. CASE Startup
  BY <1>1 DEF Startup, WindowFails, Boot, AutoloadReturns, StartWatchdog,
     StartLoad,
     StartUnload, StartCall, CallsShutdown, Clear, Adopt, KeepPlugin, LoadPcs,
     UnloadPcs, SelPcs, NextPcs, Stages, rtVars, wdVars, uiVars
<1>2. CASE Frame
  BY <1>2 DEF Frame, PollInput, ReadInput, SkipCall, MarkCall,
     MakeCall, CallDone,
     FailedUnloaded, NextStage, StartLoad, StartUnload, StartCall,
     CallsShutdown, Clear, Adopt, KeepPlugin, LoadPcs, UnloadPcs, SelPcs,
     NextPcs, Stages, rtVars, wdVars, uiVars
<1>3. CASE DemoTimeline
  BY <1>3 DEF DemoTimeline, DemoStep, DemoUnloaded, DemoLoaded, VideoStep,
     StartLoad, StartUnload, StartCall, CallsShutdown, Clear, Adopt,
     KeepPlugin, LoadPcs, UnloadPcs, SelPcs, NextPcs, Stages, rtVars, wdVars,
     uiVars
<1>4. CASE Panel
  BY <1>4 DEF Panel, HudIdle, HudVideo, AfterPanel, Select, PanelIdle,
     PanelRefresh, PanelSelect,
     PanelLoad, PanelLoadReturns, PanelUnload, PanelUnloaded, PanelSwap,
     SwapUnloaded, SwapLoaded, StartLoad, StartUnload, StartCall,
     CallsShutdown, Clear, Adopt, KeepPlugin, LoadPcs, UnloadPcs, SelPcs,
     NextPcs, Stages, rtVars, wdVars, uiVars
<1>5. CASE Store
  BY <1>5 DEF Store, Select, StoreIdle, StoreSelect, StoreLoad,
     StoreLoadReturns, StartLoad, StartUnload, StartCall, CallsShutdown,
     Clear, Adopt, KeepPlugin, LoadPcs, UnloadPcs, SelPcs, NextPcs, Stages,
     rtVars, wdVars, uiVars
<1>6. CASE Ending
  BY <1>6 DEF Ending, FrameEnd, HeadlessExit, LeaveLoop, ExitUnloaded,
     ExitJoined, StartLoad, StartUnload, StartCall, CallsShutdown, Clear,
     Adopt, KeepPlugin, LoadPcs, UnloadPcs, SelPcs, NextPcs, Stages, rtVars,
     wdVars, uiVars
<1>7. CASE PluginStep
  BY <1>7 DEF PluginStep, RtStep, ShutdownReturns, OpenFails, Opens,
     InitReturns, CapsReturn, LoadSucceeds, CallReturns, TimedCall, Clear, hostVars, wdVars, LoadPcs,
     UnloadPcs, Stages
<1>8. CASE PluginHangs
  BY <1>8 DEF PluginHangs, CallHangs, hostVars, wdVars
<1>9. CASE PluginSaves
  BY <1>9 DEF PluginSaves, PluginCalls, rtVars, wdVars, uiVars, LoadPcs,
     UnloadPcs, Stages
<1>10. CASE WatchdogStep
  BY <1>10 DEF WatchdogStep, OnStall, AppRuntimeLoaded, rtVars, WatchdogLoop,
     WatchdogSleeps, WatchdogFires
<1>11. CASE Tick
  BY <1>11 DEF Tick, TimePasses, rtVars, hostVars
<1>12. CASE UNCHANGED vars
  BY <1>12 DEF vars, rtVars, wdVars, hostVars
<1>. QED  BY <1>1, <1>2, <1>3, <1>4, <1>5, <1>6, <1>7, <1>8, <1>9, <1>10,
             <1>11, <1>12 DEF Next, MainStep, TheEnd

\* Only save_put and save_get file anything, and only a plugin's call runs them.
LEMMA SavesStep ==
  ASSUME Inv, LeafInv, SavesAreOwn, [Next]_vars
  PROVE  SavesAreOwn'
<1>1. CASE PluginSaves
  BY <1>1 DEF PluginSaves, PluginCalls, Loading, LoadPcs, Inv, PcInv, RtInv, LeafInv,
     Stages, SavesAreOwn
<1>2. CASE UNCHANGED misfiled
  BY <1>2 DEF SavesAreOwn
<1>3. CASE MainStep
  BY <1>2, <1>3 DEF MainStep, Startup, WindowFails, Boot, AutoloadReturns,
     StartWatchdog, Frame,
     PollInput, ReadInput, SkipCall, MarkCall, MakeCall, CallDone,
     FailedUnloaded,
     DemoTimeline, DemoStep, DemoUnloaded, DemoLoaded, VideoStep, Panel,
     HudIdle, HudVideo, PanelIdle, PanelRefresh, PanelSelect, Select,
     PanelLoad, PanelLoadReturns,
     PanelUnload, PanelUnloaded, PanelSwap, SwapUnloaded, SwapLoaded, Store,
     StoreIdle, StoreSelect, StoreLoad, StoreLoadReturns, Ending, FrameEnd,
     HeadlessExit, LeaveLoop, ExitUnloaded, ExitJoined
<1>. QED
  BY <1>1, <1>2, <1>3 DEF Next, PluginStep, PluginHangs, WatchdogStep, Tick,
     TheEnd, vars, hostVars

\* A plugin that is owed a gpi_shutdown is the one that is loaded.
StopInv ==
  \A p \in inited :
    "gpi_shutdown" \in Exports[p] =>
      p = lib /\ (loaded \/ rtpc = "gpi_query_capabilities")

LEMMA MainStepRt ==
  ASSUME MainStep
  PROVE  \/ UNCHANGED rtVars /\ (pc = "call" => ret) /\ pc' # "call"
         \/ StartUnload /\ pc' # "call"
         \/ (\E p : StartLoad(p)) /\ pc' # "call"
         \/ pc = "marked" /\ pc' = "call" /\ StartCall(stage)
<1>1. CASE Startup
  BY <1>1 DEF Startup, WindowFails, Boot, AutoloadReturns, StartWatchdog
<1>2. CASE Frame
  BY <1>2 DEF Frame, PollInput, ReadInput, SkipCall, MarkCall,
     MakeCall, CallDone,
              FailedUnloaded, NextStage
<1>3. CASE DemoTimeline
  BY <1>3 DEF DemoTimeline, DemoStep, DemoUnloaded, DemoLoaded, VideoStep
<1>4. CASE Panel
  BY <1>4 DEF Panel, HudIdle, HudVideo, AfterPanel, PanelIdle, PanelRefresh,
     PanelSelect, Select,
     PanelLoad,
              PanelLoadReturns, PanelUnload, PanelUnloaded, PanelSwap,
              SwapUnloaded, SwapLoaded
<1>5. CASE Store
  BY <1>5 DEF Store, StoreIdle, StoreSelect, Select, StoreLoad, StoreLoadReturns
<1>6. CASE Ending
  BY <1>6 DEF Ending, FrameEnd, HeadlessExit, LeaveLoop, ExitUnloaded,
     ExitJoined
<1>. QED  BY <1>1, <1>2, <1>3, <1>4, <1>5, <1>6 DEF MainStep

LEMMA StopInvStep ==
  ASSUME "init_late" \notin Behaviours, Inv, StopInv, [Next]_vars
  PROVE  StopInv'
<1>. USE DEF Inv, TypeOK, RtTypeOK, RtInv, StopInv
<1>1. CASE UNCHANGED rtVars
  BY <1>1 DEF rtVars
<1>2. CASE StartUnload
  BY <1>2 DEF StartUnload, CallsShutdown, Clear
<1>3. ASSUME NEW p, StartLoad(p)
      PROVE  StopInv'
  BY <1>3 DEF StartLoad, CallsShutdown, Clear
<1>4. CASE StartCall(stage)
  BY <1>4 DEF StartCall
<1>5. CASE MainStep
  BY <1>1, <1>2, <1>3, <1>4, <1>5, MainStepRt
<1>6. CASE PluginStep
  <2>1. CASE ShutdownReturns
    BY <2>1 DEF ShutdownReturns, Clear
  <2>2. CASE OpenFails \/ Opens
    BY <2>2 DEF OpenFails, Opens, Clear
  <2>3. ASSUME NEW ok \in BOOLEAN, NEW inTime \in BOOLEAN,
               InitReturns(ok, inTime)
        PROVE  StopInv'
    BY <2>3 DEF InitReturns, LoadSucceeds, TimedCall, Clear
  <2>4. ASSUME NEW ok \in BOOLEAN, NEW inTime \in BOOLEAN,
               CallReturns(ok, inTime)
        PROVE  StopInv'
    BY <2>4 DEF CallReturns, Stages
  <2>5. CASE CapsReturn
    BY <2>5 DEF CapsReturn, LoadSucceeds
  <2>. QED  BY <1>6, <2>1, <2>2, <2>3, <2>4, <2>5 DEF PluginStep, RtStep
<1>7. CASE PluginHangs
  BY <1>7 DEF PluginHangs, CallHangs
<1>. QED
  BY <1>1, <1>5, <1>6, <1>7
     DEF Next, PluginSaves, WatchdogStep, Tick, TheEnd, vars

\* Where the watchdog thread can be at each stage of the program.
WdInv ==
  /\ pc \in {"boot", "autoload", "watchdog"} => wd = "none" /\ ~alive /\ app_running
  /\ pc \notin {"boot", "autoload", "watchdog", "exit_unload", "exit_join"} \cup Finished
       => app_running /\ alive /\ wd \in {"loop", "check"}
  /\ pc = "exit_unload" => ~app_running /\ alive /\ wd \in {"loop", "check", "returned"}
  /\ pc = "exit_join" => ~app_running /\ wd \in {"loop", "check", "returned"}
  /\ pc = "ended" => wd = "joined"

LEMMA WdInvStep ==
  ASSUME Inv, WdInv, [Next]_vars
  PROVE  WdInv'
<1>. USE DEF Inv, PcInv, SelInv, RtInv, WdInv, Finished
<1>1. CASE Startup
  BY <1>1 DEF Startup, WindowFails, Boot, AutoloadReturns, StartWatchdog,
     StartLoad,
     StartUnload, StartCall, CallsShutdown, Clear, Adopt, KeepPlugin, LoadPcs,
     UnloadPcs, SelPcs, NextPcs, Stages, rtVars, wdVars, uiVars,
     WatchdogStart, MarkInCall, MarkStart, UnmarkCall, StopRunning,
     WatchdogStop, WatchdogJoin
<1>2. CASE Frame
  BY <1>2 DEF Frame, PollInput, ReadInput, SkipCall, MarkCall,
     MakeCall, CallDone,
     FailedUnloaded, NextStage, StartLoad, StartUnload, StartCall,
     CallsShutdown, Clear, Adopt, KeepPlugin, LoadPcs, UnloadPcs, SelPcs,
     NextPcs, Stages, rtVars, wdVars, uiVars, WatchdogStart, MarkInCall,
     MarkStart, UnmarkCall, StopRunning, WatchdogStop, WatchdogJoin
<1>3. CASE DemoTimeline
  BY <1>3 DEF DemoTimeline, DemoStep, DemoUnloaded, DemoLoaded, VideoStep,
     StartLoad, StartUnload, StartCall, CallsShutdown, Clear, Adopt,
     KeepPlugin, LoadPcs, UnloadPcs, SelPcs, NextPcs, Stages, rtVars, wdVars,
     uiVars, WatchdogStart, MarkInCall, MarkStart, UnmarkCall, StopRunning,
     WatchdogStop, WatchdogJoin
<1>4. CASE Panel
  BY <1>4 DEF Panel, HudIdle, HudVideo, AfterPanel, Select, PanelIdle,
     PanelRefresh, PanelSelect,
     PanelLoad, PanelLoadReturns, PanelUnload, PanelUnloaded, PanelSwap,
     SwapUnloaded, SwapLoaded, StartLoad, StartUnload, StartCall,
     CallsShutdown, Clear, Adopt, KeepPlugin, LoadPcs, UnloadPcs, SelPcs,
     NextPcs, Stages, rtVars, wdVars, uiVars, WatchdogStart, MarkInCall,
     MarkStart, UnmarkCall, StopRunning, WatchdogStop, WatchdogJoin
<1>5. CASE Store
  BY <1>5 DEF Store, Select, StoreIdle, StoreSelect, StoreLoad,
     StoreLoadReturns, StartLoad, StartUnload, StartCall, CallsShutdown,
     Clear, Adopt, KeepPlugin, LoadPcs, UnloadPcs, SelPcs, NextPcs, Stages,
     rtVars, wdVars, uiVars, WatchdogStart, MarkInCall, MarkStart, UnmarkCall,
     StopRunning, WatchdogStop, WatchdogJoin
<1>6. CASE Ending
  BY <1>6 DEF Ending, FrameEnd, HeadlessExit, LeaveLoop, ExitUnloaded,
     ExitJoined, StartLoad, StartUnload, StartCall, CallsShutdown, Clear,
     Adopt, KeepPlugin, LoadPcs, UnloadPcs, SelPcs, NextPcs, Stages, rtVars,
     wdVars, uiVars, WatchdogStart, MarkInCall, MarkStart, UnmarkCall,
     StopRunning, WatchdogStop, WatchdogJoin
<1>7. CASE PluginStep
  BY <1>7 DEF PluginStep, RtStep, ShutdownReturns, OpenFails, Opens,
     InitReturns, CapsReturn, LoadSucceeds, CallReturns, TimedCall, Clear, hostVars, wdVars, LoadPcs,
     UnloadPcs, Stages
<1>8. CASE PluginHangs
  BY <1>8 DEF PluginHangs, CallHangs, hostVars, wdVars
<1>9. CASE PluginSaves
  BY <1>9 DEF PluginSaves, PluginCalls, rtVars, wdVars, uiVars, LoadPcs,
     UnloadPcs, Stages
<1>10. CASE WatchdogStep
  BY <1>10 DEF WatchdogStep, OnStall, AppRuntimeLoaded, rtVars, WatchdogLoop,
     WatchdogSleeps, WatchdogFires
<1>11. CASE Tick
  BY <1>11 DEF Tick, TimePasses, rtVars, hostVars
<1>12. CASE UNCHANGED vars
  BY <1>12 DEF vars, rtVars, wdVars, hostVars
<1>. QED  BY <1>1, <1>2, <1>3, <1>4, <1>5, <1>6, <1>7, <1>8, <1>9, <1>10,
             <1>11, <1>12 DEF Next, MainStep, TheEnd

\* What the way out has done by each of its steps: the plugin is gone once the
\* unload has returned, the recording is written before it begins.
EndInv ==
  /\ ~Record => recording = "off"
  /\ pc \in {"exit_unload", "exit_join", "ended"} => recording \in {"off", "written"}
  /\ pc \in {"exit_join", "ended"} => ~loaded /\ rtpc = "idle"

LEMMA EndInvStep ==
  ASSUME Inv, WdInv, EndInv, [Next]_vars
  PROVE  EndInv'
<1>. USE FlagsAssumption DEF EndInv
<1>1. CASE Startup
  BY <1>1 DEF Startup, WindowFails, Boot, AutoloadReturns, StartWatchdog
<1>2. CASE Frame
  BY <1>2 DEF Frame, PollInput, SkipCall, MarkCall, MakeCall, CallDone,
     FailedUnloaded, NextStage
<1>3. CASE DemoTimeline
  BY <1>3 DEF DemoTimeline, DemoStep, DemoUnloaded, DemoLoaded, VideoStep
<1>4. CASE Panel
  BY <1>4 DEF Panel, HudIdle, HudVideo, AfterPanel, Select, PanelIdle,
     PanelRefresh, PanelSelect, PanelLoad, PanelLoadReturns, PanelUnload,
     PanelUnloaded, PanelSwap, SwapUnloaded, SwapLoaded
<1>5. CASE Store
  BY <1>5 DEF Store, Select, StoreIdle, StoreSelect, StoreLoad, StoreLoadReturns
<1>6. CASE Ending
  <2>1. CASE FrameEnd
    BY <2>1 DEF FrameEnd
  <2>2. CASE HeadlessExit
    BY <2>2 DEF HeadlessExit, WdInv, Finished
  <2>3. CASE LeaveLoop
    BY <2>3 DEF LeaveLoop
  <2>4. CASE ExitUnloaded
    BY <2>4 DEF ExitUnloaded, Inv, PcInv, UnloadPcs, rtVars
  <2>5. CASE ExitJoined
    BY <2>5 DEF ExitJoined, rtVars
  <2>. QED  BY <1>6, <2>1, <2>2, <2>3, <2>4, <2>5 DEF Ending
<1>7. CASE PluginStep
  BY <1>7 DEF PluginStep, RtStep, ShutdownReturns, OpenFails, Opens,
     InitReturns, CapsReturn, LoadSucceeds, CallReturns, InLife, Finished, hostVars
<1>8. CASE PluginHangs
  BY <1>8 DEF PluginHangs, CallHangs, hostVars
<1>9. CASE PluginSaves \/ WatchdogStep \/ Tick \/ UNCHANGED vars
  BY <1>9 DEF PluginSaves, WatchdogStep, Tick, vars, rtVars, hostVars
<1>. QED  BY <1>1, <1>2, <1>3, <1>4, <1>5, <1>6, <1>7, <1>8, <1>9
             DEF Next, MainStep, TheEnd

\* A run with --frames has frames left for as long as it goes on, and none when
\* the frame that was the last one has ended it.
FramesInv ==
  /\ Headless /\ Frames > 0 /\ pc \notin {"ended", "aborted"} => frame_counter < Frames
  /\ pc = "aborted" => frame_counter = Frames

LEMMA FramesInvStep ==
  ASSUME Inv, FramesInv, [Next]_vars
  PROVE  FramesInv'
<1>. USE DEF FramesInv
<1>1. CASE Startup
  BY <1>1 DEF Startup, WindowFails, Boot, AutoloadReturns, StartWatchdog
<1>2. CASE Frame
  BY <1>2 DEF Frame, PollInput, SkipCall, MarkCall, MakeCall, CallDone,
     FailedUnloaded, NextStage
<1>3. CASE DemoTimeline
  BY <1>3 DEF DemoTimeline, DemoStep, DemoUnloaded, DemoLoaded, VideoStep
<1>4. CASE Panel
  BY <1>4 DEF Panel, HudIdle, HudVideo, AfterPanel, Select, PanelIdle,
     PanelRefresh, PanelSelect, PanelLoad, PanelLoadReturns, PanelUnload,
     PanelUnloaded, PanelSwap, SwapUnloaded, SwapLoaded
<1>5. CASE Store
  BY <1>5 DEF Store, Select, StoreIdle, StoreSelect, StoreLoad, StoreLoadReturns
<1>6. CASE Ending
  <2>0. frame_counter \in Nat /\ Frames \in Nat
    BY BoundsAssumption DEF Inv, TypeOK, HostTypeOK
  <2>1. CASE FrameEnd
    BY <2>0, <2>1 DEF FrameEnd, LastFrame
  <2>2. CASE HeadlessExit
    BY <2>0, <2>2 DEF HeadlessExit, LastFrame
  <2>3. CASE LeaveLoop \/ ExitUnloaded \/ ExitJoined
    BY <2>3 DEF LeaveLoop, ExitUnloaded, ExitJoined
  <2>. QED  BY <1>6, <2>1, <2>2, <2>3 DEF Ending
<1>7. CASE PluginStep \/ PluginHangs
  BY <1>7 DEF PluginStep, PluginHangs, hostVars
<1>8. CASE PluginSaves \/ WatchdogStep \/ Tick \/ TheEnd \/ UNCHANGED vars
  BY <1>8 DEF PluginSaves, WatchdogStep, Tick, TheEnd, vars, hostVars
<1>. QED  BY <1>1, <1>2, <1>3, <1>4, <1>5, <1>6, <1>7, <1>8 DEF Next, MainStep

-----------------------------------------------------------------------------
(* The safety theorems. *)

\* Between frames nothing is left in memory that the frame loop does not
\* update and the panel cannot unload: every exit path of main.cpp's load,
\* unload and swap code keeps plugin_loaded raised while a plugin is there.
THEOREM NothingOrphaned == Spec => []NoOrphan
<1>1. Init => OrphanInv
  BY DEF Init, RtInit, OrphanInv
<1>2. Inv /\ OrphanInv /\ [Next]_vars => OrphanInv'
  BY OrphanInvStep
<1>3. OrphanInv => NoOrphan
  BY DEF OrphanInv, NoOrphan, LoadPcs
<1>. QED  BY <1>1, <1>2, <1>3, InvHolds, PTL DEF Spec

\* With neither the store panel nor the demo timeline, the frame loop never
\* calls through an unbound gpi_update or gpi_render, whatever loads fail.
THEOREM PanelIsSafe ==
  ASSUME ~ShowStore, ~Demo
  PROVE  Spec => []NoNullCall
<1>1. Init => FlagInv
  BY DEF Init, FlagInv
<1>2. Inv /\ FlagInv /\ [Next]_vars => FlagInv'
  BY FlagInvStep
<1>3. FlagInv => NoNullCall
  BY DEF FlagInv, FailedUnnoticed, NoNullCall
<1>. QED  BY <1>1, <1>2, <1>3, InvHolds, PTL DEF Spec

\* HostServices::save_put: from the return of its load() on, a plugin's saves go
\* to its own namespace, gpi_shutdown during a swap included, with the store
\* panel and the demo as without.
THEOREM SavesGoHome == Spec => []SavesAreOwn
<1>1. Init => LeafInv
  BY DEF Init, RtInit, LeafInv
<1>2. Inv /\ LeafInv /\ [Next]_vars => LeafInv'
  BY LeafInvStep
<1>3. Init => SavesAreOwn
  BY DEF Init, SavesAreOwn
<1>4. Inv /\ LeafInv /\ SavesAreOwn /\ [Next]_vars => SavesAreOwn'
  BY SavesStep
<1>. QED  BY <1>1, <1>2, <1>3, <1>4, InvHolds, PTL DEF Spec

\* PluginRuntime::unload: no library is closed while its plugin waits for
\* gpi_shutdown, provided every gpi_init keeps its deadline.
THEOREM NoneClosedAlive ==
  ASSUME "init_late" \notin Behaviours
  PROVE  Spec => []ShutdownBeforeClose
<1>1. Init => StopInv
  BY DEF Init, RtInit, StopInv
<1>2. Inv /\ StopInv /\ [Next]_vars => StopInv'
  BY StopInvStep
<1>3. StopInv => ShutdownBeforeClose
  BY DEF StopInv, ShutdownBeforeClose
<1>. QED  BY <1>1, <1>2, <1>3, InvHolds, PTL DEF Spec

\* Watchdog::start and stop against the frame loop and the exits of main():
\* the thread is at work in every frame and joined at every normal end.
THEOREM WatchdogIsThere == Spec => []WatchdogCoversLoop
<1>1. Init => WdInv
  BY DEF Init, WdInit, WdInv, Finished
<1>2. Inv /\ WdInv /\ [Next]_vars => WdInv'
  BY WdInvStep
<1>3. WdInv => WatchdogCoversLoop
  BY DEF WdInv, WatchdogCoversLoop, Finished
<1>. QED  BY <1>1, <1>2, <1>3, InvHolds, PTL DEF Spec

\* The way out of main(), recorder, unload, watchdog: a normal end leaves no
\* plugin that waits for gpi_shutdown and no frames in memory, provided every
\* gpi_init keeps its deadline.
THEOREM NothingLeftBehind ==
  ASSUME "init_late" \notin Behaviours
  PROVE  Spec => []EndIsClean
<1>1. Init => StopInv /\ WdInv /\ EndInv
  BY DEF Init, RtInit, WdInit, StopInv, WdInv, EndInv, Finished
<1>2. Inv /\ StopInv /\ WdInv /\ EndInv /\ [Next]_vars
        => StopInv' /\ WdInv' /\ EndInv'
  BY StopInvStep, WdInvStep, EndInvStep
<1>3. StopInv /\ EndInv => EndIsClean
  BY DEF StopInv, EndInv, EndIsClean
<1>. QED  BY <1>1, <1>2, <1>3, InvHolds, PTL DEF Spec

\* The frame counter of main(): the headless return of a run with --frames N
\* comes with its N-th frame, for every N, whatever its loads and calls do, and
\* if it never comes because the host has called through a null pointer, the
\* last load has failed at a call site that does not look.
THEOREM HeadlessCountsItsFrames == Spec => []RunsNFrames
<1>1. Init => FramesInv /\ FlagInv
  BY BoundsAssumption DEF Init, FramesInv, FlagInv
<1>2. Inv /\ FramesInv /\ FlagInv /\ [Next]_vars => FramesInv' /\ FlagInv'
  BY FramesInvStep, FlagInvStep
<1>3. FramesInv /\ FlagInv => RunsNFrames
  BY DEF FramesInv, FlagInv, RunsNFrames
<1>. QED  BY <1>1, <1>2, <1>3, InvHolds, PTL DEF Spec

-----------------------------------------------------------------------------
(* The plugin interface. *)

Life == [p \in Plugins |-> PhaseOf(p)]

LEMMA LifeSame ==
  ASSUME \A p \in Plugins : PhaseOf(p)' = PhaseOf(p)
  PROVE  UNCHANGED Life
  BY DEF Life

LEMMA LifeMoves ==
  ASSUME NEW p \in Plugins, NEW from, NEW to,
         PhaseOf(p) = from, PhaseOf(p)' = to,
         \A q \in Plugins \ {p} : PhaseOf(q)' = PhaseOf(q)
  PROVE  Abi!Move(p, from, to)
  BY DEF Life, Abi!Move

\* A step of the runtime with the main thread's step beside it is one event
\* of the plugin's life, or none.
LEMMA UnloadObeys ==
  ASSUME Inv, pc' # "call",
         StartUnload \/ (\E p : StartLoad(p))
  PROVE  Abi!Next \/ UNCHANGED Life
<1>. USE DEF Inv, TypeOK, RtTypeOK, RtInv
<1>0. rtpc = "idle"
  BY DEF StartUnload, StartLoad
<1>1. CASE lib = NoPlugin
  <2>1. lib' = NoPlugin
    BY <1>0, <1>1 DEF StartUnload, StartLoad, CallsShutdown, Clear
  <2>. QED  BY <1>1, <2>1, LifeSame DEF PhaseOf
<1>2. CASE lib # NoPlugin /\ "gpi_shutdown" \in Exports[lib]
  <2>1. lib \in Plugins /\ lib' = lib /\ rtpc' \in {"load_shutdown", "unload_shutdown"}
    BY <1>0, <1>2 DEF StartUnload, StartLoad, CallsShutdown
  <2>0. PICK p \in Plugins : p = lib
    BY <2>1
  <2>2. PhaseOf(p)' = "stopping" /\ PhaseOf(p) \in {"ready", "failed"}
    BY <1>0, <2>0, <2>1 DEF PhaseOf
  <2>3. \A q \in Plugins \ {p} : PhaseOf(q)' = PhaseOf(q)
    BY <2>0, <2>1 DEF PhaseOf
  <2>4. Abi!Move(p, "ready", "stopping") \/ Abi!Move(p, "failed", "stopping")
    BY <2>2, <2>3, LifeMoves
  <2>. QED  BY <1>2, <2>0, <2>4 DEF Abi!Next, Abi!ShutdownCalled
<1>3. CASE lib # NoPlugin /\ "gpi_shutdown" \notin Exports[lib]
  <2>1. lib \in Plugins /\ lib' = NoPlugin
    BY <1>0, <1>3 DEF StartUnload, StartLoad, CallsShutdown, Clear
  <2>0. PICK p \in Plugins : p = lib
    BY <2>1
  <2>2. PhaseOf(p)' = "out" /\ PhaseOf(p) \in {"ready", "failed"}
    BY <1>0, <2>0, <2>1 DEF PhaseOf
  <2>3. \A q \in Plugins \ {p} : PhaseOf(q)' = PhaseOf(q)
    BY <2>0, <2>1 DEF PhaseOf
  <2>4. Abi!Move(p, "ready", "out") \/ Abi!Move(p, "failed", "out")
    BY <2>2, <2>3, LifeMoves
  <2>. QED  BY <1>3, <2>0, <2>4 DEF Abi!Next, Abi!Closed
<1>. QED  BY <1>1, <1>2, <1>3

LEMMA CallObeys ==
  ASSUME Inv, pc = "marked", pc' = "call", StartCall(stage)
  PROVE  Abi!Next
<1>1. lib \in Plugins /\ lib' = lib /\ rtpc = "idle" /\ rtpc' = stage
  BY DEF Inv, TypeOK, RtTypeOK, RtInv, StartCall
<1>0. PICK p \in Plugins : p = lib
  BY <1>1
<1>2. PhaseOf(p) = "ready" /\ PhaseOf(p)' = "busy"
  BY <1>0, <1>1 DEF PhaseOf, Inv, TypeOK, HostTypeOK, Stages
<1>3. \A q \in Plugins \ {p} : PhaseOf(q)' = PhaseOf(q)
  BY <1>0, <1>1 DEF PhaseOf
<1>4. Abi!Move(p, "ready", "busy")
  BY <1>2, <1>3, LifeMoves
<1>. QED  BY <1>0, <1>4 DEF Abi!Next, Abi!CallBegins

LEMMA PluginStepObeys ==
  ASSUME Inv, PluginStep
  PROVE  Abi!Next \/ UNCHANGED Life
<1>. USE DEF Inv, TypeOK, RtTypeOK, RtInv
<1>0. pc' = pc
  BY DEF PluginStep, hostVars
<1>1. CASE ShutdownReturns
  <2>1. lib \in Plugins /\ lib' = NoPlugin
        /\ rtpc \in {"load_shutdown", "unload_shutdown"}
    BY <1>1 DEF ShutdownReturns, Clear
  <2>0. PICK p \in Plugins : p = lib
    BY <2>1
  <2>2. PhaseOf(p) = "stopping" /\ PhaseOf(p)' = "out"
    BY <2>0, <2>1 DEF PhaseOf
  <2>3. \A q \in Plugins \ {p} : PhaseOf(q)' = PhaseOf(q)
    BY <2>0, <2>1 DEF PhaseOf
  <2>4. Abi!Move(p, "stopping", "out")
    BY <2>2, <2>3, LifeMoves
  <2>. QED  BY <2>0, <2>4 DEF Abi!Next, Abi!ShutdownDone
<1>2. CASE OpenFails
  BY <1>2, LifeSame DEF OpenFails, PhaseOf
<1>3. CASE Opens /\ Required \subseteq Exports[target]
  <2>1. /\ target \in Plugins /\ lib = NoPlugin /\ lib' = target
        /\ rtpc' = "gpi_init"
    BY <1>3 DEF Opens
  <2>0. PICK p \in Plugins : p = target
    BY <2>1
  <2>2. \A q \in Plugins : PhaseOf(q) = "out"
    BY <2>1 DEF PhaseOf
  <2>3. PhaseOf(p)' = "starting"
    BY <1>3, <2>0, <2>1 DEF PhaseOf
  <2>4. \A q \in Plugins \ {p} : PhaseOf(q)' = PhaseOf(q)
    BY <2>0, <2>1, <2>2 DEF PhaseOf
  <2>5. Abi!Move(p, "out", "starting")
    BY <2>2, <2>3, <2>4, LifeMoves
  <2>6. \A q \in Plugins : Life[q] = "out"
    BY <2>2 DEF Life
  <2>. QED  BY <2>0, <2>5, <2>6 DEF Abi!Next, Abi!InitCalled, Life
<1>4. CASE Opens /\ ~(Required \subseteq Exports[target])
  BY <1>4, LifeSame DEF Opens, Clear, PhaseOf
<1>5. ASSUME NEW ok \in BOOLEAN, NEW inTime \in BOOLEAN, InitReturns(ok, inTime)
      PROVE  Abi!Next
  <2>1. /\ lib \in Plugins /\ rtpc = "gpi_init" /\ pc # "call"
        /\ lib' = lib \/ lib' = NoPlugin
        /\ fns = Exports[lib]
    BY <1>5 DEF InitReturns, LoadSucceeds, Clear, Loading, PcInv, HostTypeOK, Stages
  <2>0. PICK p \in Plugins : p = lib
    BY <2>1
  <2>2. PhaseOf(p) = "starting"
    BY <2>0, <2>1 DEF PhaseOf
  <2>3. \A q \in Plugins \ {p} : PhaseOf(q)' = PhaseOf(q)
    BY <2>0, <2>1 DEF PhaseOf
  <2>4. CASE lib' = NoPlugin
    <3>1. PhaseOf(p)' = "out"
      BY <2>0, <2>1, <2>4 DEF PhaseOf
    <3>2. Abi!InitRefused(p)
      BY <2>2, <2>3, <3>1, LifeMoves DEF Abi!InitRefused
    <3>. QED  BY <3>2 DEF Abi!Next
  <2>5. CASE lib' = lib /\ rtpc' = "idle"
    <3>1. "gpi_query_capabilities" \notin Exports[p]
      BY <1>5, <2>0, <2>1, <2>5 DEF InitReturns, Clear
    <3>2. PhaseOf(p)' = "ready"
      BY <1>0, <2>0, <2>1, <2>5 DEF PhaseOf
    <3>3. Abi!InitAccepted(p)
      BY <2>2, <2>3, <3>1, <3>2, LifeMoves DEF Abi!InitAccepted
    <3>. QED  BY <3>3 DEF Abi!Next
  <2>6. CASE lib' = lib /\ rtpc' = "gpi_query_capabilities"
    <3>1. "gpi_query_capabilities" \in Exports[p]
      BY <1>5, <2>0, <2>1, <2>6 DEF InitReturns, LoadSucceeds
    <3>2. PhaseOf(p)' = "asked"
      BY <2>0, <2>1, <2>6 DEF PhaseOf
    <3>3. Abi!CapsQueried(p)
      BY <2>2, <2>3, <3>1, <3>2, LifeMoves DEF Abi!CapsQueried
    <3>. QED  BY <3>3 DEF Abi!Next
  <2>. QED  BY <1>5, <2>1, <2>4, <2>5, <2>6 DEF InitReturns, LoadSucceeds
<1>6. ASSUME NEW ok \in BOOLEAN, NEW inTime \in BOOLEAN, CallReturns(ok, inTime)
      PROVE  Abi!Next
  <2>1. lib \in Plugins /\ lib' = lib /\ rtpc \in Stages /\ rtpc' = "idle"
    BY <1>6 DEF CallReturns, Stages
  <2>0. PICK p \in Plugins : p = lib
    BY <2>1
  <2>2. PhaseOf(p) = "busy" /\ PhaseOf(p)' \in {"ready", "failed"}
    BY <1>0, <2>0, <2>1 DEF PhaseOf, Stages
  <2>3. \A q \in Plugins \ {p} : PhaseOf(q)' = PhaseOf(q)
    BY <2>0, <2>1 DEF PhaseOf
  <2>4. Abi!Move(p, "busy", "ready") \/ Abi!Move(p, "busy", "failed")
    BY <2>2, <2>3, LifeMoves
  <2>. QED  BY <2>0, <2>4 DEF Abi!Next, Abi!CallSucceeds, Abi!CallFails
<1>7. CASE CapsReturn
  <2>1. /\ lib \in Plugins /\ lib' = lib /\ pc # "call"
        /\ rtpc = "gpi_query_capabilities" /\ rtpc' = "idle"
    BY <1>7 DEF CapsReturn, LoadSucceeds, Loading, PcInv, HostTypeOK, Stages
  <2>0. PICK p \in Plugins : p = lib
    BY <2>1
  <2>2. PhaseOf(p) = "asked" /\ PhaseOf(p)' = "ready"
    BY <1>0, <2>0, <2>1 DEF PhaseOf
  <2>3. \A q \in Plugins \ {p} : PhaseOf(q)' = PhaseOf(q)
    BY <2>0, <2>1 DEF PhaseOf
  <2>4. Abi!CapsAnswered(p)
    BY <2>2, <2>3, LifeMoves DEF Abi!CapsAnswered
  <2>. QED  BY <2>4 DEF Abi!Next
<1>. QED  BY <1>1, <1>2, <1>3, <1>4, <1>5, <1>6, <1>7 DEF PluginStep, RtStep

LEMMA StepObeys ==
  ASSUME Inv, [Next]_vars
  PROVE  Abi!Next \/ UNCHANGED Life
<1>1. CASE UNCHANGED <<lib, rtpc, ret, pc>>
  BY <1>1, LifeSame DEF PhaseOf
<1>2. CASE UNCHANGED rtVars /\ (pc = "call" => ret) /\ pc' # "call"
  BY <1>2, LifeSame DEF PhaseOf, rtVars
<1>3. CASE MainStep
  BY <1>2, <1>3, MainStepRt, UnloadObeys, CallObeys
<1>. QED
  BY <1>1, <1>3, PluginStepObeys
     DEF Next, PluginHangs, CallHangs, PluginSaves, WatchdogStep, Tick, TheEnd,
         vars, rtVars, hostVars

\* The calls that reach any plugin, over any sequence of loads, failures,
\* swaps, unloads and exits, are a life the plugin interface allows: one
\* plugin at a time, gpi_init first, one call at a time, and nothing but
\* gpi_shutdown after a call that failed or came too late.
THEOREM HostObeysAbi == Spec => ObeysAbi
<1>1. Init => Abi!Init
  BY DEF Init, RtInit, Abi!Init, PhaseOf
<1>2. Inv /\ [Next]_vars => [Abi!Next]_Life
  BY StepObeys
<1>. QED  BY <1>1, <1>2, InvHolds, PTL DEF Spec, ObeysAbi, Abi!Spec, Life
=============================================================================
