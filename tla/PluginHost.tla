------------------------------ MODULE PluginHost ------------------------------
(***************************************************************************)
(* src/main.cpp: the host application with in-process plugins.  The main   *)
(* thread runs the frame loop, the plugin panel, the store panel, the demo *)
(* timeline and the two ways out; the watchdog thread runs beside it; the  *)
(* plugin runs inside the main thread's calls and calls back into the save *)
(* service.  The runtime is PluginRuntime, the thread is Watchdog.         *)
(***************************************************************************)
EXTENDS PluginRuntime, Watchdog, Integers, Sequences

CONSTANTS
  Headless,   \* --headless
  Demo,       \* --demo
  ShowStore,  \* settings.show_store
  Record,     \* --record
  Frames,     \* --frames, 0 when absent
  MaxVideo    \* frames in the demo video, 60 in the code

ASSUME FlagsAssumption ==
  /\ Headless \in BOOLEAN
  /\ Demo \in BOOLEAN
  /\ ShowStore \in BOOLEAN
  /\ Record \in BOOLEAN
ASSUME BoundsAssumption == Frames \in Nat /\ MaxVideo \in Nat \ {0}

VARIABLES
  pc,            \* where the main thread is
  stage,         \* which of the frame's two plugin calls it is at
  running,       \* AppState::running
  plugin_loaded, \* AppState::plugin_loaded
  plugin_metas,  \* AppState::plugin_metas, the paths the last scan found
  selected_idx,  \* AppState::selected_idx, counted from 0
  leaf,          \* AppState::current_plugin_leaf: names the save namespace
  demo_due,      \* demo_t > 12.0
  demo_swapped,  \* AppState::demo_swapped
  record_video,  \* AppState::record_video
  video_frame,   \* AppState::video_frame_idx, kept only in a demo
  hud_visible,   \* AppState::hud_visible
  frame_counter, \* frame_counter, kept only when it can end the run
  recording,     \* what has become of the frames recorded for --record
  misfiled       \* history: what plugins were, "loading" or "loaded", when they
                 \* saved something under a name that is not their own

uiVars == <<plugin_metas, selected_idx>>
demoVars == <<demo_due, demo_swapped, record_video, video_frame, hud_visible>>
hostVars == <<pc, stage, running, plugin_loaded, plugin_metas, selected_idx,
              leaf, demo_due, demo_swapped, record_video, video_frame,
              hud_visible, frame_counter, recording, misfiled>>
vars == <<rtVars, wdVars, hostVars>>

Stages == {"gpi_update", "gpi_render"}
Finished == {"ended", "aborted", "crashed", "failed"}
Steps == {"boot", "autoload", "watchdog", "head", "gate", "marked", "call",
          "fail_unload", "demo", "demo_unload", "demo_load", "video", "hud",
          "panel", "panel_load", "panel_unload", "swap_unload", "swap_load",
          "store", "store_load", "frame_end", "exit_unload", "exit_join"}
         \cup Finished

\* What scan_with_metadata() can find: each library once, in the order of the
\* directory iteration.
Scans == {s \in UNION {[1..n -> Plugins] : n \in 0..Cardinality(Plugins)} :
            \A i, j \in DOMAIN s : s[i] = s[j] => i = j}

Indices == {i - 1 : i \in DOMAIN plugin_metas}
PathAt(i) == plugin_metas[i + 1]
NextIdx == (selected_idx + 1) % Len(plugin_metas)

Init ==
  /\ RtInit
  /\ WdInit
  /\ pc = "boot"
  /\ stage = "gpi_update"
  /\ running = TRUE
  /\ plugin_loaded = FALSE
  /\ plugin_metas = <<>>
  /\ selected_idx = -1
  /\ leaf = NoPlugin
  /\ demo_due = FALSE
  /\ demo_swapped = FALSE
  /\ record_video = FALSE
  /\ video_frame = 0
  /\ hud_visible \in {h \in BOOLEAN : Demo => ~h}
  /\ frame_counter = 0
  /\ recording = "off"
  /\ misfiled = {}

-----------------------------------------------------------------------------
(* Start-up. *)

\* init_window: SDL, the window, the GL context, ImGui or the font atlas may
\* fail; main() returns 1 before there is a runner or a watchdog.
WindowFails ==
  /\ pc = "boot"
  /\ pc' = "failed"
  /\ UNCHANGED <<rtVars, wdVars, stage, running, plugin_loaded, leaf, uiVars,
                 demoVars, frame_counter, recording, misfiled>>

\* The recorder, the scan, the selection from --plugin or settings.last_plugin
\* (the last path that matches, else the first one), and the headless load.
Boot ==
  /\ pc = "boot"
  /\ plugin_metas' \in Scans
  /\ \/ plugin_metas' = <<>> /\ selected_idx' = -1
     \/ \E i \in DOMAIN plugin_metas' : selected_idx' = i - 1
  /\ IF Headless /\ selected_idx' >= 0
       THEN StartLoad(plugin_metas'[selected_idx' + 1]) /\ pc' = "autoload"
       ELSE pc' = "watchdog" /\ UNCHANGED rtVars
  /\ recording' = IF Record THEN "empty" ELSE "off"
  /\ UNCHANGED <<wdVars, stage, running, plugin_loaded, leaf, demoVars,
                 frame_counter, misfiled>>

\* What every call site does with a successful load.
Adopt(p) == plugin_loaded' = TRUE /\ leaf' = p
KeepPlugin == UNCHANGED <<plugin_loaded, leaf>>

AutoloadReturns ==
  /\ pc = "autoload"
  /\ rtpc = "idle"
  /\ IF ret THEN Adopt(PathAt(selected_idx)) ELSE KeepPlugin
  /\ pc' = "watchdog"
  /\ UNCHANGED <<rtVars, wdVars, stage, running, uiVars, demoVars,
                 frame_counter, recording, misfiled>>

StartWatchdog ==
  /\ pc = "watchdog"
  /\ WatchdogStart
  /\ pc' = "head"
  /\ UNCHANGED <<rtVars, stage, running, plugin_loaded, leaf, uiVars, demoVars,
                 frame_counter, recording, misfiled>>

-----------------------------------------------------------------------------
(* A frame: input, gpi_update, gpi_render. *)

\* poll_input: Escape or a quit event ends the loop after this frame; F10 shows
\* and hides the HUD.
ReadInput == running' \in BOOLEAN /\ hud_visible' \in BOOLEAN

\* The input of the frame goes to the recorder, which keeps it in memory.
PollInput ==
  /\ pc = "head"
  /\ running
  /\ ReadInput
  /\ recording' = IF Record THEN "buffered" ELSE recording
  /\ pc' = "gate"
  /\ stage' = "gpi_update"
  /\ UNCHANGED <<rtVars, wdVars, plugin_loaded, leaf, uiVars, demo_due,
                 demo_swapped, record_video, video_frame, frame_counter,
                 misfiled>>

\* On to the next call of the frame, or past both.
NextStage ==
  IF stage = "gpi_update" THEN stage' = "gpi_render" /\ pc' = "gate"
                          ELSE stage' = stage /\ pc' = "demo"

SkipCall ==
  /\ pc = "gate"
  /\ ~plugin_loaded
  /\ NextStage
  /\ UNCHANGED <<rtVars, wdVars, running, plugin_loaded, leaf, uiVars, demoVars,
                 frame_counter, recording, misfiled>>

MarkCall ==
  /\ pc = "gate"
  /\ plugin_loaded
  /\ MarkInCall
  /\ pc' = "marked"
  /\ UNCHANGED <<rtVars, stage, running, plugin_loaded, leaf, uiVars, demoVars,
                 frame_counter, recording, misfiled>>

\* The runtime calls through its function pointer without looking at it.
MakeCall ==
  /\ pc = "marked"
  /\ MarkStart
  /\ IF stage \in fns THEN StartCall(stage) /\ pc' = "call"
                      ELSE pc' = "crashed" /\ UNCHANGED rtVars
  /\ UNCHANGED <<stage, running, plugin_loaded, leaf, uiVars, demoVars,
                 frame_counter, recording, misfiled>>

\* Mutant: a failed call is only logged.
CallDoneCarriesOn ==
  /\ pc = "call"
  /\ rtpc = "idle"
  /\ UnmarkCall
  /\ NextStage
  /\ UNCHANGED <<rtVars, running, plugin_loaded, leaf, uiVars, demoVars,
                 frame_counter, recording, misfiled>>

\* A good render is one more frame of the demo video.
CallDone ==
  /\ pc = "call"
  /\ rtpc = "idle"
  /\ UnmarkCall
  /\ IF ret
       THEN /\ NextStage
            /\ video_frame' = IF Demo /\ stage = "gpi_render" /\ record_video
                                THEN video_frame + 1 ELSE video_frame
            /\ UNCHANGED rtVars
       ELSE StartUnload /\ pc' = "fail_unload" /\ UNCHANGED <<stage, video_frame>>
  /\ UNCHANGED <<running, plugin_loaded, leaf, uiVars, demo_due, demo_swapped,
                 record_video, hud_visible, frame_counter, recording, misfiled>>

FailedUnloaded ==
  /\ pc = "fail_unload"
  /\ rtpc = "idle"
  /\ plugin_loaded' = FALSE
  /\ NextStage
  /\ UNCHANGED <<rtVars, wdVars, running, leaf, uiVars, demoVars,
                 frame_counter, recording, misfiled>>

-----------------------------------------------------------------------------
(* The demo timeline. *)

DemoStep ==
  /\ pc = "demo"
  /\ demo_due' \in {d \in BOOLEAN : (demo_due => d) /\ (d => Demo)}
  /\ IF /\ Demo /\ demo_due'
        /\ Len(plugin_metas) > 1
        /\ plugin_loaded
        /\ ~demo_swapped
       THEN StartUnload /\ pc' = "demo_unload"
       ELSE pc' = "video" /\ UNCHANGED rtVars
  /\ UNCHANGED <<wdVars, stage, running, plugin_loaded, leaf, uiVars,
                 demo_swapped, record_video, video_frame, hud_visible,
                 frame_counter, recording, misfiled>>

DemoUnloaded ==
  /\ pc = "demo_unload"
  /\ StartLoad(PathAt(NextIdx))
  /\ pc' = "demo_load"
  /\ UNCHANGED <<wdVars, stage, running, plugin_loaded, leaf, uiVars, demoVars,
                 frame_counter, recording, misfiled>>

\* Mutant: the video counts from one too low.
DemoLoadedCountsLow ==
  /\ pc = "demo_load"
  /\ rtpc = "idle"
  /\ IF ret
       THEN /\ Adopt(PathAt(NextIdx))
            /\ selected_idx' = NextIdx
            /\ record_video' = TRUE
            /\ video_frame' = -1
            /\ demo_swapped' = TRUE
       ELSE KeepPlugin /\ UNCHANGED <<selected_idx, record_video, video_frame,
                                      demo_swapped>>
  /\ pc' = "video"
  /\ UNCHANGED <<rtVars, wdVars, stage, running, plugin_metas, demo_due,
                 hud_visible, frame_counter, recording, misfiled>>

\* A failure has no else branch here.
DemoLoaded ==
  /\ pc = "demo_load"
  /\ rtpc = "idle"
  /\ IF ret
       THEN /\ Adopt(PathAt(NextIdx))
            /\ selected_idx' = NextIdx
            /\ record_video' = TRUE
            /\ video_frame' = 0
            /\ demo_swapped' = TRUE
       ELSE KeepPlugin /\ UNCHANGED <<selected_idx, record_video, video_frame,
                                      demo_swapped>>
  /\ pc' = "video"
  /\ UNCHANGED <<rtVars, wdVars, stage, running, plugin_metas, demo_due,
                 hud_visible, frame_counter, recording, misfiled>>

\* Mutant: the finished video does not end the demo.
VideoStepGoesOn ==
  /\ pc = "video"
  /\ IF Demo /\ record_video
       THEN /\ video_frame' = video_frame + 1
            /\ record_video' = (video_frame' < MaxVideo)
       ELSE UNCHANGED <<video_frame, record_video>>
  /\ pc' = IF Headless THEN "frame_end" ELSE "hud"
  /\ UNCHANGED <<rtVars, wdVars, stage, running, plugin_loaded, leaf, uiVars,
                 demo_due, demo_swapped, hud_visible, frame_counter, recording,
                 misfiled>>

\* The video ends the demo when it is long enough.
VideoStep ==
  /\ pc = "video"
  /\ IF Demo /\ record_video
       THEN /\ video_frame' = video_frame + 1
            /\ IF video_frame' >= MaxVideo
                 THEN record_video' = FALSE /\ running' = FALSE
                 ELSE UNCHANGED <<record_video, running>>
       ELSE UNCHANGED <<video_frame, record_video, running>>
  /\ pc' = IF Headless THEN "frame_end" ELSE "hud"
  /\ UNCHANGED <<rtVars, wdVars, stage, plugin_loaded, leaf, uiVars, demo_due,
                 demo_swapped, hud_visible, frame_counter, recording, misfiled>>

-----------------------------------------------------------------------------
(* draw_hud and draw_plugin_panel, which draw nothing while the HUD is hidden:
   at most one click a frame in each. *)

HudIdle ==
  /\ pc = "hud"
  /\ pc' = "panel"
  /\ UNCHANGED <<rtVars, wdVars, stage, running, plugin_loaded, leaf, uiVars,
                 demoVars, frame_counter, recording, misfiled>>

\* "Start Video" and "Stop Video".
HudVideo ==
  /\ pc = "hud"
  /\ hud_visible
  /\ record_video' = ~record_video
  /\ video_frame' = IF record_video' THEN 0 ELSE video_frame
  /\ pc' = "panel"
  /\ UNCHANGED <<rtVars, wdVars, stage, running, plugin_loaded, leaf, uiVars,
                 demo_due, demo_swapped, hud_visible, frame_counter, recording,
                 misfiled>>

AfterPanel == IF ShowStore THEN "store" ELSE "frame_end"

PanelIdle ==
  /\ pc = "panel"
  /\ pc' = AfterPanel
  /\ UNCHANGED <<rtVars, wdVars, stage, running, plugin_loaded, leaf, uiVars,
                 demoVars, frame_counter, recording, misfiled>>

\* Mutant: the index survives a scan that found less.
PanelRefreshKeepsIndex ==
  /\ pc = "panel"
  /\ hud_visible
  /\ plugin_metas' \in Scans
  /\ selected_idx' = IF plugin_metas' = <<>> THEN -1
                     ELSE IF selected_idx < 0 THEN 0 ELSE selected_idx
  /\ pc' = AfterPanel
  /\ UNCHANGED <<rtVars, wdVars, stage, running, plugin_loaded, leaf, demoVars,
                 frame_counter, recording, misfiled>>

PanelRefresh ==
  /\ pc = "panel"
  /\ hud_visible
  /\ plugin_metas' \in Scans
  /\ selected_idx' = IF plugin_metas' = <<>> THEN -1
                     ELSE IF selected_idx \in 0..(Len(plugin_metas') - 1)
                       THEN selected_idx
                     ELSE 0
  /\ pc' = AfterPanel
  /\ UNCHANGED <<rtVars, wdVars, stage, running, plugin_loaded, leaf, demoVars,
                 frame_counter, recording, misfiled>>

\* The combo box of the panel, and the list of the store.
Select(site, after) ==
  /\ pc = site
  /\ selected_idx' \in Indices
  /\ pc' = after
  /\ UNCHANGED <<rtVars, wdVars, stage, running, plugin_loaded, leaf,
                 plugin_metas, demoVars, frame_counter, recording, misfiled>>

PanelSelect == hud_visible /\ Select("panel", AfterPanel)

PanelLoad ==
  /\ pc = "panel"
  /\ hud_visible
  /\ ~plugin_loaded
  /\ selected_idx >= 0
  /\ StartLoad(PathAt(selected_idx))
  /\ pc' = "panel_load"
  /\ UNCHANGED <<wdVars, stage, running, plugin_loaded, leaf, uiVars, demoVars,
                 frame_counter, recording, misfiled>>

PanelLoadReturns ==
  /\ pc = "panel_load"
  /\ rtpc = "idle"
  /\ IF ret THEN Adopt(PathAt(selected_idx)) ELSE KeepPlugin
  /\ pc' = AfterPanel
  /\ UNCHANGED <<rtVars, wdVars, stage, running, uiVars, demoVars,
                 frame_counter, recording, misfiled>>

PanelUnload ==
  /\ pc = "panel"
  /\ hud_visible
  /\ plugin_loaded
  /\ StartUnload
  /\ pc' = "panel_unload"
  /\ UNCHANGED <<wdVars, stage, running, plugin_loaded, leaf, uiVars, demoVars,
                 frame_counter, recording, misfiled>>

PanelUnloaded ==
  /\ pc = "panel_unload"
  /\ rtpc = "idle"
  /\ plugin_loaded' = FALSE
  /\ pc' = AfterPanel
  /\ UNCHANGED <<rtVars, wdVars, stage, running, leaf, uiVars, demoVars,
                 frame_counter, recording, misfiled>>

PanelSwap ==
  /\ pc = "panel"
  /\ hud_visible
  /\ plugin_loaded
  /\ plugin_metas # <<>>
  /\ StartUnload
  /\ pc' = "swap_unload"
  /\ UNCHANGED <<wdVars, stage, running, plugin_loaded, leaf, uiVars, demoVars,
                 frame_counter, recording, misfiled>>

SwapUnloaded ==
  /\ pc = "swap_unload"
  /\ StartLoad(PathAt(NextIdx))
  /\ pc' = "swap_load"
  /\ UNCHANGED <<wdVars, stage, running, plugin_loaded, leaf, uiVars, demoVars,
                 frame_counter, recording, misfiled>>

\* Mutants: the failed swap that leaves the flag, and the swap that leaves the
\* namespace.
SwapLoadedNoElse ==
  /\ pc = "swap_load"
  /\ rtpc = "idle"
  /\ IF ret
       THEN Adopt(PathAt(NextIdx)) /\ selected_idx' = NextIdx
       ELSE UNCHANGED <<plugin_loaded, leaf, selected_idx>>
  /\ pc' = AfterPanel
  /\ UNCHANGED <<rtVars, wdVars, stage, running, plugin_metas, demoVars,
                 frame_counter, recording, misfiled>>

SwapLoadedKeepsLeaf ==
  /\ pc = "swap_load"
  /\ rtpc = "idle"
  /\ plugin_loaded' = ret
  /\ selected_idx' = IF ret THEN NextIdx ELSE selected_idx
  /\ pc' = AfterPanel
  /\ UNCHANGED <<rtVars, wdVars, stage, running, plugin_metas, leaf, demoVars,
                 frame_counter, recording, misfiled>>

SwapLoaded ==
  /\ pc = "swap_load"
  /\ rtpc = "idle"
  /\ IF ret
       THEN Adopt(PathAt(NextIdx)) /\ selected_idx' = NextIdx
       ELSE plugin_loaded' = FALSE /\ UNCHANGED <<leaf, selected_idx>>
  /\ pc' = AfterPanel
  /\ UNCHANGED <<rtVars, wdVars, stage, running, plugin_metas, demoVars,
                 frame_counter, recording, misfiled>>

-----------------------------------------------------------------------------
(* draw_store_panel and what main() does with its answer. *)

StoreIdle ==
  /\ pc = "store"
  /\ pc' = "frame_end"
  /\ UNCHANGED <<rtVars, wdVars, stage, running, plugin_loaded, leaf, uiVars,
                 demoVars, frame_counter, recording, misfiled>>

StoreSelect == Select("store", "frame_end")

\* "Load Plugin" is there whether or not a plugin is loaded.
StoreLoad ==
  /\ pc = "store"
  /\ selected_idx >= 0
  /\ StartLoad(PathAt(selected_idx))
  /\ pc' = "store_load"
  /\ UNCHANGED <<wdVars, stage, running, plugin_loaded, leaf, uiVars, demoVars,
                 frame_counter, recording, misfiled>>

\* Mutant: the store forgets to raise plugin_loaded.
StoreLoadReturnsUnflagged ==
  /\ pc = "store_load"
  /\ rtpc = "idle"
  /\ leaf' = IF ret THEN PathAt(selected_idx) ELSE leaf
  /\ pc' = "frame_end"
  /\ UNCHANGED <<rtVars, wdVars, stage, running, plugin_loaded, uiVars, demoVars,
                 frame_counter, recording, misfiled>>

StoreLoadReturns ==
  /\ pc = "store_load"
  /\ rtpc = "idle"
  /\ IF ret THEN Adopt(PathAt(selected_idx)) ELSE KeepPlugin
  /\ pc' = "frame_end"
  /\ UNCHANGED <<rtVars, wdVars, stage, running, uiVars, demoVars,
                 frame_counter, recording, misfiled>>

-----------------------------------------------------------------------------
(* The end of a frame and of the program. *)

\* Mutant: counted before the frame instead of after it.
LastFrameLate == Headless /\ Frames > 0 /\ frame_counter >= Frames

LastFrame == Headless /\ Frames > 0 /\ frame_counter + 1 >= Frames

\* Mutant: frames without a plugin do not count.
FrameEndCountsPlugins ==
  /\ pc = "frame_end"
  /\ ~LastFrame
  /\ frame_counter' = IF Headless /\ Frames > 0 /\ plugin_loaded
                        THEN frame_counter + 1 ELSE frame_counter
  /\ pc' = "head"
  /\ UNCHANGED <<rtVars, wdVars, stage, running, plugin_loaded, leaf, uiVars,
                 demoVars, recording, misfiled>>

FrameEnd ==
  /\ pc = "frame_end"
  /\ ~LastFrame
  /\ frame_counter' = IF Headless /\ Frames > 0 THEN frame_counter + 1
                                                ELSE frame_counter
  /\ pc' = "head"
  /\ UNCHANGED <<rtVars, wdVars, stage, running, plugin_loaded, leaf, uiVars,
                 demoVars, recording, misfiled>>

\* return from inside the loop: ~AppState destroys a joinable std::thread,
\* which is std::terminate().
HeadlessExit ==
  /\ pc = "frame_end"
  /\ LastFrame
  /\ frame_counter' = frame_counter + 1
  /\ pc' = IF wd \in {"none", "joined"} THEN "ended" ELSE "aborted"
  /\ UNCHANGED <<rtVars, wdVars, stage, running, plugin_loaded, leaf, uiVars,
                 demoVars, recording, misfiled>>

\* Mutant: the program ends without runner->unload().
LeaveLoopKeepsPlugin ==
  /\ pc = "head"
  /\ ~running
  /\ StopRunning
  /\ recording' = IF Record THEN "written" ELSE recording
  /\ pc' = "exit_unload"
  /\ UNCHANGED <<rtVars, stage, running, plugin_loaded, leaf, uiVars, demoVars,
                 frame_counter, misfiled>>

LeaveLoop ==
  /\ pc = "head"
  /\ ~running
  /\ StopRunning
  /\ recording' = IF Record THEN "written" ELSE recording
  /\ StartUnload
  /\ pc' = "exit_unload"
  /\ UNCHANGED <<stage, running, plugin_loaded, leaf, uiVars, demoVars,
                 frame_counter, misfiled>>

\* Mutant: the watchdog is told to stop and not joined.
ExitUnloadedNoJoin ==
  /\ pc = "exit_unload"
  /\ rtpc = "idle"
  /\ WatchdogStop
  /\ pc' = "ended"
  /\ UNCHANGED <<rtVars, stage, running, plugin_loaded, leaf, uiVars, demoVars,
                 frame_counter, recording, misfiled>>

ExitUnloaded ==
  /\ pc = "exit_unload"
  /\ rtpc = "idle"
  /\ WatchdogStop
  /\ pc' = "exit_join"
  /\ UNCHANGED <<rtVars, stage, running, plugin_loaded, leaf, uiVars, demoVars,
                 frame_counter, recording, misfiled>>

ExitJoined ==
  /\ pc = "exit_join"
  /\ WatchdogJoin
  /\ pc' = "ended"
  /\ UNCHANGED <<rtVars, stage, running, plugin_loaded, leaf, uiVars, demoVars,
                 frame_counter, recording, misfiled>>

-----------------------------------------------------------------------------
(* The other actors. *)

InLife == pc \notin Finished

\* The running plugin's code, up to its return or for ever.
PluginStep == InLife /\ RtStep /\ UNCHANGED <<wdVars, hostVars>>
PluginHangs == InLife /\ CallHangs /\ UNCHANGED <<wdVars, hostVars>>

\* The calls that load() makes into the plugin it loads.
Loading == rtpc \in {"gpi_init", "gpi_query_capabilities"}

\* HostServices::save_put or save_get: the namespace is *PLUGIN_NS as it is
\* now, which is AppState::current_plugin_leaf.
PluginSaves ==
  /\ InLife
  /\ rtpc \in PluginCalls
  /\ ~hung
  /\ misfiled' = IF leaf = lib THEN misfiled
                 ELSE misfiled \cup {IF Loading THEN "loading" ELSE "loaded"}
  /\ UNCHANGED <<rtVars, wdVars, pc, stage, running, plugin_loaded, leaf,
                 uiVars, demoVars, frame_counter, recording>>

\* on_stall looks at AppState::runtime, a PluginRuntime nothing ever loads:
\* the plugin is in the runner.  Its unload() therefore never happens.
AppRuntimeLoaded == FALSE

OnStall ==
  plugin_loaded' = IF AppRuntimeLoaded THEN FALSE ELSE plugin_loaded

WatchdogStep ==
  /\ InLife
  /\ \/ WatchdogLoop /\ UNCHANGED plugin_loaded
     \/ WatchdogSleeps /\ UNCHANGED plugin_loaded
     \/ WatchdogFires /\ OnStall
  /\ UNCHANGED <<rtVars, pc, stage, running, leaf, uiVars, demoVars,
                 frame_counter, recording, misfiled>>

Tick == InLife /\ TimePasses /\ UNCHANGED <<rtVars, hostVars>>

\* The program is over, or the hung call goes on and on.
TheEnd == (~InLife \/ hung) /\ UNCHANGED vars

Startup == WindowFails \/ Boot \/ AutoloadReturns \/ StartWatchdog
Frame == PollInput \/ SkipCall \/ MarkCall \/ MakeCall \/ CallDone \/ FailedUnloaded
DemoTimeline == DemoStep \/ DemoUnloaded \/ DemoLoaded \/ VideoStep
Panel == \/ HudIdle \/ HudVideo \/ PanelIdle \/ PanelRefresh \/ PanelSelect
         \/ PanelLoad \/ PanelLoadReturns \/ PanelUnload \/ PanelUnloaded
         \/ PanelSwap \/ SwapUnloaded \/ SwapLoaded
Store == StoreIdle \/ StoreSelect \/ StoreLoad \/ StoreLoadReturns
Ending == FrameEnd \/ HeadlessExit \/ LeaveLoop \/ ExitUnloaded \/ ExitJoined

MainStep == Startup \/ Frame \/ DemoTimeline \/ Panel \/ Store \/ Ending

Next == \/ MainStep \/ PluginStep \/ PluginHangs \/ PluginSaves
        \/ WatchdogStep \/ Tick \/ TheEnd

Spec == Init /\ [][Next]_vars

\* The operating system runs both threads, time passes, and a plugin call that
\* has not hung returns.  Nothing is assumed of the user or of the plugins.
Fairness == /\ WF_vars(MainStep)
            /\ WF_vars(PluginStep)
            /\ WF_vars(WatchdogStep)
            /\ WF_vars(Tick)

FairSpec == Spec /\ Fairness
-----------------------------------------------------------------------------
(* Correctness. *)

HostTypeOK ==
  /\ pc \in Steps
  /\ stage \in Stages
  /\ running \in BOOLEAN
  /\ plugin_loaded \in BOOLEAN
  /\ plugin_metas \in Seq(Plugins)
  /\ selected_idx \in Int
  /\ leaf \in Plugins \cup {NoPlugin}
  /\ demo_due \in BOOLEAN
  /\ demo_swapped \in BOOLEAN
  /\ record_video \in BOOLEAN
  /\ video_frame \in Nat
  /\ hud_visible \in BOOLEAN
  /\ frame_counter \in Nat
  /\ recording \in {"off", "empty", "buffered", "written"}
  /\ misfiled \in SUBSET {"loading", "loaded"}

TypeOK == RtTypeOK /\ WdTypeOK /\ HostTypeOK

\* Between frames, a plugin the runtime holds is one the frame loop knows of:
\* no plugin stays in memory without being updated or unloadable.
NoOrphan == pc = "head" => (loaded => plugin_loaded)

\* The frame loop calls through function pointers that are bound, whatever the
\* plugin panel, the failure paths and the exits have done to the runtime.  The
\* store panel and the demo timeline load without looking at plugin_loaded, or
\* leave it raised, and break this.
NoNullCall == pc # "crashed"

\* Whatever a plugin saves once its load() has returned, gpi_shutdown included,
\* goes to the namespace named after its own library, through every load, swap,
\* failed load and unload.  Of the two calls that load() itself makes into the
\* new plugin this cannot be said: the call sites change the namespace later.
SavesAreOwn == "loaded" \notin misfiled

\* selected_idx indexes plugin_metas, whatever Refresh finds in the directory,
\* whenever the index is about to be used.
SelectionInRange ==
  selected_idx \in Indices \cup {-1} /\ (plugin_metas # <<>> => selected_idx >= 0)

\* A plugin that was initialised and exports gpi_shutdown is the one that is
\* loaded: none is closed without having been told.
ShutdownBeforeClose ==
  \A p \in inited : "gpi_shutdown" \in Exports[p] => p = lib

\* When the program has ended normally, every plugin that was initialised and
\* exports gpi_shutdown has been told, and the recording is on disk.
EndIsClean ==
  pc = "ended" =>
    /\ \A p \in inited : "gpi_shutdown" \notin Exports[p]
    /\ recording \in {"off", "empty", "written"}

\* The last load has failed, of those whose call sites leave plugin_loaded as it
\* was: the store's, and the swap of the demo, which is due until it succeeds.
FailedUnnoticed == ~ret /\ (ShowStore \/ (demo_due /\ ~demo_swapped))

\* A run with --frames N that leaves main() by its headless return has drawn
\* exactly N frames.  A call through a null pointer may end it earlier, and
\* does so only when one of those loads was its last and has failed.
RunsNFrames ==
  /\ pc = "aborted" => frame_counter = Frames
  /\ pc = "crashed" => FailedUnnoticed

\* The watchdog thread is joined exactly when the program ends normally, and
\* it stays at work for as long as the frame loop runs.
WatchdogCoversLoop ==
  /\ pc = "ended" => wd = "joined"
  /\ app_running /\ pc \notin {"boot", "autoload", "watchdog"} \cup Finished
       => wd \in {"loop", "check"}

\* The phase of a plugin's life, read off the runtime.
PhaseOf(p) ==
  IF p # lib THEN "out"
  ELSE CASE rtpc = "gpi_init" -> "starting"
         [] rtpc = "gpi_query_capabilities" -> "asked"
         [] rtpc \in {"gpi_update", "gpi_render"} -> "busy"
         [] rtpc \in {"load_shutdown", "unload_shutdown"} -> "stopping"
         [] rtpc \in {"idle", "open"} ->
              IF pc = "call" /\ ~ret THEN "failed" ELSE "ready"

Abi == INSTANCE PluginAbi WITH
         Askable <- {p \in Plugins : "gpi_query_capabilities" \in Exports[p]},
         Stoppable <- {p \in Plugins : "gpi_shutdown" \in Exports[p]},
         phase <- [p \in Plugins |-> PhaseOf(p)]

\* Every sequence of calls the host makes is one the plugin interface allows.
ObeysAbi == Abi!Spec

\* The process is gone: main() has come to its last line, or died on the
\* headless way out, or in a call through a pointer that was not bound.
Over == pc \in {"ended", "aborted", "crashed"}

\* Once the user has asked to quit, the process does come to its end: neither
\* the plugin's shutdown nor the watchdog's join keeps it waiting for ever.
QuitEnds == ~running ~> Over

\* The demo that has begun its video comes to its end, unless its HUD is shown,
\* which has a button that stops the video.
DemoEnds == record_video ~> hud_visible \/ Over

\* A run with --headless --frames N comes to its headless return or is quit,
\* whatever its plugins do short of hanging: frames in which a load or a call
\* failed count as any.  Only the demo's swap can keep it from that, when it
\* fails and the next frame calls through the null pointer it leaves.
HeadlessRunEnds ==
  pc = "head" ~> \/ pc \in {"ended", "aborted"}
                 \/ pc = "crashed" /\ FailedUnnoticed

\* What the documentation says and the code does not do.

\* Every initialised plugin that exports gpi_shutdown has been told before the
\* program is over, whichever way it ends.
ShutdownOnExit ==
  pc \in {"ended", "aborted"} =>
    \A p \in inited : "gpi_shutdown" \notin Exports[p]

\* A plugin that never comes back from gpi_update or gpi_render is taken off
\* the host, which goes on to its next frame.
HangIsContained == (hung /\ in_plugin_call) ~> (pc = "head")
=============================================================================
