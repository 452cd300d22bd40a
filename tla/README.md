# TLA+ models of GPI Sandbox

GPI Sandbox is a small game host: it loads mini-games ("plugins") from shared libraries,
drives them through a C interface frame by frame, times every call, and offers them saves,
replay and an installable store. This directory holds TLA+ modules for its parts, TLC
configurations that check them on small instances, and TLAPS proofs for most of them.
Source paths below are relative to the repository.

    tlc -config host_gui.cfg MCPluginHost.tla      # a run: the table below names cfg and module
    tlapm PluginHostProofs.tla                     # the proofs; seven more modules are called ...Proofs

## 1. The system

| Part | Code | State | Operations |
|---|---|---|---|
| Host application | `src/main.cpp`, `src/ui/store_panel.cpp` | `AppState`: `running`, `plugin_loaded`, `plugin_metas`, `selected_idx`, `current_plugin_leaf`, demo and HUD flags, `frame_counter` | start-up, frame (input, update, render), plugin panel, store panel, demo timeline, quit, headless exit |
| Plugin runtime | `src/runtime/plugin_runtime.cpp`, `plugin_loader.cpp`, `runner_inproc.cpp` | open library, bound symbols, `loaded` | load, unload, timed update and render |
| Watchdog | `src/runtime/watchdog.cpp` | `alive_`, the thread; reads `app_running`, `in_plugin_call`, `plugin_call_start` | start, loop, `on_stall`, stop |
| Child isolation | `src/runtime/runner_child.cpp`, `child_shm.cpp`, `src/platform/proc.cpp`, `child/gpi_child_main.cpp` | shared block with two rings, child process | load, update, render, unload; the child's command loop |
| Save store | `src/services/save_store.cpp` | `userdata/<plugin>/<key>.bin`, `.tmp`, `journal.log` | put, get |
| Record and replay | `src/services/replay.cpp` | memory buffers, one file | start, add, stop; load, next |
| Plugin store | `src/store/plugin_manifest.cpp` | `store/<id>`, `store/<id>.backup`, `entries_` | scan, install, uninstall, set_enabled, upgrade, rollback |
| Plugins | `plugins/snake`, `plugins/pong`, `plugins/template` | game state | `gpi_init`, `gpi_update`, `gpi_render` |
| Draw path | `make_host_api` and the panel's load in `src/main.cpp`, `src/ui/draw_prim.cpp`, `render_drawlist.cpp` | the host's draw lists, the pointers the API captured, ImGui's background list | allocate, hand out, render, `draw_rects` |
| Metrics, logs, telemetry, artifacts | `src/metrics.h`, `src/services/log_bus.cpp`, `telemetry.cpp`, `artifacts.cpp`, `src/ui/log_panel.cpp` | a window of frame times, a bounded queue, marks, files | push, stats, snapshot, mark, flush, save |
| Settings | `src/config.cpp`, both ends of `main()` | `config/settings.toml`, `Settings`, `hud_visible` | load, select, toggle, save |
| UI, platform, QA tools | `src/ui`, `src/imgui_layer.cpp`, `src/platform`, `src/qa` | little | output |

How they interact. The main thread owns everything but the watchdog. Once a frame it reads the
input (or the replayer's), calls the plugin twice through the runner, and then lets the demo
timeline, the plugin panel and the store panel load, unload or swap the plugin. The plugin calls
back into the host (saves, logs, draw lists) from inside its own calls. The watchdog thread
shares three variables with the main thread, two of them relaxed atomics. With `isolation`
on, the runner is a child process behind shared-memory rings.

What is hard about it:

- Load, unload and swap are called from seven places, each with its own idea of
  what a failure leaves behind; `plugin_loaded`, `selected_idx` and `current_plugin_leaf` live
  beside the runtime and have to stay in step with it.
- A plugin call may fail, be late, or never return, and may save data meanwhile.
- Two threads, a join, and two ways out of the program.
- Files that are replaced while the process or the machine may die.
- A store whose operations are sequences of copies, deletions and renames that may throw half way.
- Windows, queues and clocks that forget: what a percentile, a log panel or a flush speaks of
  is not the whole session, and files are named with a second that may come twice.
- A file of settings that sessions hand on to each other, with ends that save and ends that do not.
- The order in which a frame draws, over pointers that were captured before there was anything to
  point at.

What makes each part correct: the host never calls an unbound function, never loses track of a
loaded plugin, follows the plugin life cycle, and comes to an end when asked to. A save is whole
and current. A replay is what was recorded. Neither an upgrade nor a rollback loses the old version. A
frame shows the game that is loaded, as it is; the snake stays in one piece and the ball on the court. A verdict
and the files beside it are about the same frames. Settings last. The properties below say this; PROJECT.json lists the hazards they
come from, line by line.

## 2. The modules

### The host: `PluginHost`, `PluginRuntime`, `Watchdog`, `PluginAbi`

`PluginHost` extends `PluginRuntime` and `Watchdog`, and its steps are joined from theirs.

- `PluginRuntime` is `PluginRuntime::load/unload/call_*`. Each operation that enters the plugin is a
  start and a return with `rtpc` naming the plugin function that runs; everything between two
  plugin calls is one step, since only the main thread touches the object. `inited` is the
  plugins' own view: whose `gpi_init` returned `GPI_OK` without a `gpi_shutdown` since.
  `load()` makes two calls into the new plugin: `gpi_init` against its deadline, and, where it is exported,
  `gpi_query_capabilities`, whose time nobody looks at and which may hang or save like any other.
- `Watchdog` has the two shared stores and the thread's two reads as separate steps.
  Time is reduced to what the thread can tell apart: whether `plugin_call_start` is that of the
  call under way and whether the call is over its budget.
- `PluginHost` has one action per handler and click: start-up (`WindowFails`, `Boot`,
  `AutoloadReturns`, `StartWatchdog`), the frame (`PollInput` to `FailedUnloaded`),
  the demo (`DemoStep` to `VideoStep`), the HUD and the plugin panel (`Hud*`, `Panel*`, `Swap*`),
  the store panel (`Store*`), the ends (`FrameEnd`, `HeadlessExit`, `LeaveLoop`, `ExitUnloaded`,
  `ExitJoined`). `pc` is the place in `main()`; a handler that calls into the plugin is
  split where the call is. Plugin steps (`PluginStep`, `PluginHangs`, `PluginSaves`), `WatchdogStep`
  and the clock interleave with them.
- `PluginAbi` is the abstract specification: the life of each plugin as the plugin header and the
  documented life cycle have it. `ObeysAbi` is the refinement, with each plugin's phase read
  off the runtime (`PhaseOf`).

The host is modelled with the in-process runner, which `config/settings.toml` selects. The
default in `src/config.h:10` is isolation, whose load is the subject of `Isolation`.

The plugins' misbehaviour is a constant, a subset of `AllBehaviours`: `open_error`,
`init_error`, `init_late`, `call_error`, `call_late`, `hang`. A run says which it allows.

### Saves: `SaveStore`, `AtomicSaves`

`put()` at the grain of its system calls: open, write, sync, rename, journal line. Between any
two of them the process may die (`Crash`) or the power fail (`PowerLoss`), after which
the directory is what the disk has of it and data that was not synced may be torn. The directory
is written back when the file system likes (`WriteBack`), as `put()` does not sync it.
`AtomicSaves` is the abstract store, in which a key holds nothing or a whole value, replaced in one
step, and may go back to an earlier one.

### Record and replay: `Replay`

Sessions follow each other over one file, a sequence of 32-bit words. A session may be cut off at any word of
its write. `HasNext` is the three bounds tests of `Replayer::next`, and
`Frame` the layout of `Recorder::add`, `FrameWords` long. Two words stand for the twenty bytes of
a frame's head and one for its input; the code's lengths are the constants' other values.
Two history variables say what ought to be where: `live` is what the user has given in this session, `taped` what the
session gave whose recording is in the file. `HoldsFrames` relates them to the words word for word, by position.

### Plugin store: `PluginStore`

Directories are numbered by how often `.backup` follows the id, as an upgrade of a backup's entry makes a
backup of the backup. The class has neither threads nor locks, so an operation that comes to its end is a step. All its
copies, deletions and renames are the overloads that throw, and an operation ends where one of them does: install in the middle of its copies
(`InstallOutcomes`), uninstall before its entry is erased (`UninstallThrows`), an upgrade while it makes its backup (`UpgradeThrows`)
or in its uninstall (`UpgradeUninstallThrows`), a rollback in its deletion or between deletion and move (`RollbackThrows`). What was done by then
stays: a directory may be left whole, `Empty` or `Damaged` (`Remains`, `BrokenBackups`), and the list is as it was.
`Restart` is a new process over the old directories; what a kill leaves of an operation is what one of its throwing outcomes leaves.
That reading a directory fails is left out.

### Isolated load: `Isolation`

`RunnerChild::load` and `unload` with the child from `fork` to its first answer. It exists for
the finding below: no load succeeds, so the frame protocol behind it is unreachable as built.

### The games: `Snake`, `Pong`, `Games`

`Snake` is `gpi_init` and `gpi_update`: the helm's four tests, the wrap, the test against the body, growth
and the reset, on a window that may change its size between any two frames. Narrow windows of
four cells are excluded by `SnakeAssumption`: `spawn_food` divides by zero there.

`Pong` is `gpi_update` with lengths in whole units of the instance's choice: the paddle under the mouse, the move,
the walls, the paddle, the sides, one after the other as the code has them. `Moves` says how far a frame may
carry the ball; it is velocity times `dt`, so the instance has short frames and long ones.

`Games` puts both on the screen: the host's frame from `update` over `render_drawlist` and `render`
to the panel, the draw list that the panel's load allocates, and the pointers `make_host_api` has captured before.
A game that is not loaded is kept at rest, since its statics go with its library.

### A session: `Recent`, `LogBus`, `FrameServices`, `Settings`

- `Recent` is the buffer that both `LogBus::q_` and `FrameHistogram::samples_` are: it drops its
  oldest entry before a push that would exceed its capacity.
- `LogBus` is `push`, the panel's filter, and `snapshot` with what the panel makes of it. `logged` is the
  whole history, which the code does not keep.
- `FrameServices` is what a frame leaves behind: the sample and its percentile (`Rank` is
  `0.99 * (n - 1)` truncated), `dropped_`, the marks, the flush by the loop's own clock, saves by F9, the HUD's button,
  the demo and `--frames`, each under the name of its second, and the verdict. Every write
  to `artifacts/` succeeds there; in the code only a save makes the directory, so that a flush before the
  first save writes nothing where it is missing.
- `Settings` runs sessions over one file: the load, the selection, F10, everything that changes the selection
  or the loaded plugin, the normal end that saves, the ends that do not, a save that is cut off after
  it has truncated the file, and edits by the user between sessions. An edit while a session
  runs is overwritten at its end and is left out. A number is read back as `Printed`, its first six digits
  (`config.cpp:50-51`), and a save whose file cannot be opened leaves the old one. The three paths that are only handed on are left out, and so
  are the keys and sections that `load_from_file` skips, which every save drops. A demo hides its HUD when it starts and
  saves it as hidden when it ends: `StartsAsLeft` calls that how the session was left.

`MCxxx` modules give the constants their values; lines marked "Mutant:" are the variants
of definitions that PROJECT.json pairs with a property, each a plausible slip that the
property catches.

## 3. The runs

| Run | Module, cfg | Checks | Instance |
|---|---|---|---|
| `host_full` | MCPluginHost | `TypeOK` `NoOrphan` `ShutdownBeforeClose` `EndIsClean` `ObeysAbi` `DemoEnds`, under fairness | 2 plugins, one without `gpi_query_capabilities`; every panel, demo, record; failing and late calls, no late init, no hang |
| `host_gui` | MCPluginHost | `NoNullCall` `SavesAreOwn` `SelectionInRange` `WatchdogCoversLoop` | 2 plugins, one without `gpi_query_capabilities` and `gpi_shutdown`; plugin panel only; every misbehaviour |
| `host_unwatched` | MCPluginHost | `RunsNFrames` `QuitEnds` `HeadlessRunEnds`, under fairness | `--headless --frames 3 --demo`, a video of 2 frames; a plugin and a library that is none, every failure but hanging |
| `saves` | MCSaveStore | `TypeOK` `ReadsAreCurrent` `JournalTrails` `PutIsAtomic` | 2 keys, 2 values |
| `replay` | MCReplay | `TypeOK` `ReplayIsFaithful` `ReplayIsComplete` `RecordsLiveFrames` | 2 inputs, sessions of up to 3 frames |
| `plugin_store` | MCPluginStore | `TypeOK` `EntriesAreDirectories` `UpgradeLosesNothing` `RollbackUndoesUpgrade` `RollbackLosesNothing` | 2 ids, 2 versions, 2 levels of backup for one id; everything may throw, restarts |
| `games` | MCGames | `TypeOK` `NeverOverlaps` `BallOnCourt` `BallClearsPaddle` `ScreenShowsGame` `HeadEndsOnBoard` `PongKeepsGoing` | boards of two sizes, a snake of up to 5 cells; courts of three sizes, one lower than the paddle, short and long frames |
| `session` | MCSession | `PanelShowsNewest` `VerdictIsFair` `DroppedNeverUnderstates` `TelemetryTrails` `ArtifactsTellVerdict` `SettingsStay` `StartsAsLeft` | a bus of 3 with a panel of 2, 6 messages; headless runs of 1 to 4 frames, a window of 3; 3 sessions over 3 plugins, a deadline of 12 or of 16.666667 |
| `bug_store_load` | MCPluginHost | `NoNullCall`, violated | store panel, loads that fail |
| `bug_hang` | MCPluginHost | `HangIsContained`, violated | a plugin that hangs, `FairSpec` |
| `bug_headless_shutdown` | MCPluginHost | `ShutdownOnExit`, violated | `--headless --frames 2`, plugins that behave |
| `bug_isolation` | Isolation | `IsolatedLoadSucceeds`, violated | a system and a plugin that do nothing wrong |

What they show, in words:

- **`NoOrphan`, `ShutdownBeforeClose`, `ObeysAbi`, `EndIsClean`.** Over all orders of panel, store,
  demo, failing calls and quitting: what the runtime holds is flagged, whoever was initialised is told
  before it is closed, and the plugin never hears a call it should not.
- **`NoNullCall`, `SelectionInRange`, `SavesAreOwn`.** The flags beside the runtime stay in
  step with it: with the plugin panel alone `plugin_loaded` implies bound pointers, the index
  survives every rescan, and a save goes to the plugin that makes it from the moment its `load()` has returned. What a plugin saves in
  the two calls that `load()` makes, `gpi_init` and `gpi_query_capabilities`, does not (section 5), and the property leaves it out.
- **`WatchdogCoversLoop`, `QuitEnds`.** The thread is there for every frame, and the join on the way
  out of the loop is answered, so that a quit ends the process. (Whether it can crash instead is the business
  of `NoNullCall`.)
- **`RunsNFrames`, `HeadlessRunEnds`, `DemoEnds`.** Runs that nobody watches end by themselves, a headless one
  with its report after exactly its frames, or after a quit. Frames in which a load or a call has failed count as any. There is one exception, and
  the instance meets it: a swap of the demo that fails (`main.cpp:755`) leaves `plugin_loaded` raised, and the next frame crashes. Both
  properties name it (`FailedUnnoticed`) and admit no other crash. The demo on the screen
  ends once its video has begun; `DemoEnds` and `QuitEnds` do count a crash as an end.
- **`ReadsAreCurrent`, `PutIsAtomic`, `JournalTrails`.** See above; the first also says that a
  put that returned false changed nothing.
- **`ReplayIsFaithful`, `ReplayIsComplete`, `RecordsLiveFrames`.** A prefix of what was recorded,
  all of it when the file is whole, with no return to the file once live.
- **`UpgradeLosesNothing`, `RollbackLosesNothing`, `RollbackUndoesUpgrade`.** The
  old version is in place or in the backup after each upgrade however it ends; so is what the backup held after each rollback, which deletes before it
  moves and may throw or be killed between the two. A rollback that was broken off can be tried again, also by
  the next process, and then restores what the upgrade replaced.
- **`EntriesAreDirectories`.** The list names no directory twice, and an entry of `store/<id>` does not lose its directory in any
  step but one: a rollback that throws after its deletion never comes to its `scan()`.
- **`NeverOverlaps`, `HeadEndsOnBoard`.** The order of test, push and pop in the snake's step.
- **`BallOnCourt`, `BallClearsPaddle`, `PongKeepsGoing`.** A ball that is beyond a wall, the paddle and a side at once,
  in a window that has just shrunk, ends where it may be, and never settles into going one way.
- **`ScreenShowsGame`.** No frame shows what an earlier frame or another plugin drew. It rests on a
  defect: the draw lists that could do so are never handed to a plugin (section 5), and the mutant that hands them
  over breaks it.
- **`PanelShowsNewest`.** Two bounds and a filter, against the whole history.
- **`VerdictIsFair`.** What the truncated index of the percentile means: of the frames in the window, whatever came before them, one in a hundred
  of all but one, rounded up, may be slow. That is none of a single frame, one of 2 to 101, two from 102 on.
- **`DroppedNeverUnderstates`.** What is left of the HUD's share of dropped frames, whose two halves count
  different frames once the window is full.
- **`TelemetryTrails`, `ArtifactsTellVerdict`.** Which files can be relied on, and for what.
- **`SettingsStay`, `StartsAsLeft`.** What sessions hand on to each other. A save rounds a number to six digits, so
  16.666667 ms are 16.6667 after the first; the property is that the switches stay and that the number goes no further.

**Bounds and why they are enough.** Two plugins are what a swap needs: the one that goes and the one
that comes; a third only repeats the index arithmetic, which the proofs cover for every list.
`MaxVideo = 2` has a video start, grow by both of its counters and end. `Frames = 3` has a first, a
middle and a last frame. Counters are kept only while they decide something (`frame_counter`, `video_frame`),
so the frame loop itself is unbounded. Two values under two keys tell an old value from a new one and a
key from its neighbour. Two inputs and three frames give a replay that is longer, shorter or as long
as the session it feeds. Two levels of backup reach an upgrade of a backup's entry. Three numbers are one that
prints as it is, one that does not, and what it prints as. A snake can only
bite itself from its fifth cell on; `ShortSnakes` keeps TLC below length 5 and the
states at 5 are still checked. That constraint cuts behaviours of the snake only, so the liveness of
pong, which is checked in the same run, is that of the whole of pong. Four frames over a window of three have a frame leave the
window; a run of one frame must not be slow, and with two or three samples the percentile is the second largest, so one slow frame passes and two do not, as
at every length up to a hundred and one. The lengths beyond are the theorem's. Two saves and the one at the end meet in one second or not.
A flush interval of four is one to four frames long. Six messages pass a bus of three twice. Three sessions are one that
saves, one that does not and one that starts after both.
`session` runs three parts that share no state; `Init` chooses which.

**What runs leave out by choice.** `host_full` has no `init_late`, because a late `gpi_init` breaks
`ShutdownBeforeClose` (section 5). `host_gui` has neither store panel nor demo, because
both break `NoNullCall`. `saves` has `DiskFills = FALSE`: a short write is not noticed by
the code and would be published.

**Fairness** (`FairSpec`). Weak fairness of the main thread, of the watchdog thread, of the clock, and of a
plugin call that has not hung. The first two are the operating system's scheduler. The third is time. The
last is the assumption that plugins return, without which no liveness of the host is
to be had; `bug_hang` shows what happens when one does not. Nothing is assumed of the user.
`GamesSpec` has weak fairness of the frame loop: there is
a next frame.
`DemoEnds` holds while the HUD is hidden, as its button stops the video.

Deadlock is checked in every run but `session`, whose parts are bounded and simply stop; `TheEnd` marks the states of the
others in which the program is over.

## 4. The proofs

### The host: `PluginHostProofs`

For every set of plugins, every choice of exported symbols, every subset of the misbehaviours and
every combination of the command-line switches, TLAPS checks:

| Theorem | Statement |
|---|---|
| `TypeCorrect` | `Spec => []TypeOK` |
| `SelectionStaysInRange` | `Spec => []SelectionInRange` |
| `NothingOrphaned` | `Spec => []NoOrphan` |
| `PanelIsSafe` | without store panel and demo, `Spec => []NoNullCall` |
| `SavesGoHome` | `Spec => []SavesAreOwn` |
| `NoneClosedAlive` | when no `gpi_init` is late, `Spec => []ShutdownBeforeClose` |
| `WatchdogIsThere` | `Spec => []WatchdogCoversLoop` |
| `NothingLeftBehind` | when no `gpi_init` is late, `Spec => []EndIsClean` |
| `HeadlessCountsItsFrames` | `Spec => []RunsNFrames` |
| `HostObeysAbi` | `Spec => ObeysAbi` |

The assumptions are the named ones of the modules: `PluginsAssumption`, `ExportsAssumption`,
`BehavioursAssumption`, `FlagsAssumption`, `BoundsAssumption`.

**The argument.** None of the properties is inductive alone: each speaks of a flag or of the runtime at
one place and depends on how the other got there. `Inv` ties them together and is shown inductive once,
with one lemma per group of actions:

- `SelInv`: the index is in range, and while a load is under way the path it was given is
  still the one the call site will read from the list when it returns. That is why the namespace is right.
- `RtInv`: what is open, bound and loaded at each step of the runtime.
- `PcInv`: which runtime operation each place in `main()` waits for, and what its
  return value says of the runtime.

On top of `Inv` each theorem has a part of its own: `OrphanInv` (loaded implies flagged, except between a load and its
return), `FlagInv` (flagged implies loaded, outside the panel's own operations, or the last load has
failed where nobody looks: `FailedUnnoticed`, which needs the store panel or the demo. `PanelIsSafe` is the case without them, and
`HeadlessCountsItsFrames` takes from it what a crash says), `LeafInv` (the namespace is the loaded plugin's from `load()`'s return on),
`StopInv` (who is initialised is who is open), `WdInv` (where the thread is at each stage), `EndInv` (what the way
out has done by each of its steps), `FramesInv` (the counter is below `Frames` wherever a frame may still be
under way, so the test at its end meets it exactly).
`HostObeysAbi` maps each step to at most one step of `PluginAbi` under `Inv` alone.

### Saves: `SaveStoreProofs`

| Theorem | Statement |
|---|---|
| `SavesTypeCorrect` | `Spec => []TypeOK` |
| `JournalIsBehind` | `Spec => []JournalTrails` |
| `SavesAreCurrent` | where `SyncsFiles` and not `DiskFills`, `Spec => []ReadsAreCurrent` |
| `PutsAreAtomic` | under the same conditions, `Spec => PutIsAtomic` |

For all sets of keys and values, from `SaveAssumption` and `NamesAssumption`. The first two need only `Base`, with
the fact that a put which has come to the journal has its file. The other two need to know that what can be read, now or
after a power failure, is a whole value that is on disk and that the key has held (`FilesInv`), and that
`key.tmp` has by each step of the put what that step claims (`PutInv`): the sync before the rename is
what carries the proof. The conditions are the code's own: without a working fsync, or
with a write that falls short unnoticed, TLC finds torn values.

### Record and replay: `ReplayProofs`

| Theorem | Statement |
|---|---|
| `ReplayStaysInBuffer` | `Spec => []TypeOK`, with the offset within the buffer |
| `RecordingIsLive` | `Spec => []RecordsLiveFrames` |
| `ReplaysAreFaithful` | `Spec => []ReplayIsFaithful` |
| `ReplaysAreComplete` | `Spec => []ReplayIsComplete` |

For frames of any size, sessions of any length and files cut off at any word. The inductive invariant has one part for each
place a frame goes through. `RecordsLiveFrames` is the buffer in memory, `WriteInv` what `Recorder::stop` is about to write, and `FileInv`
the file: it holds a beginning of `taped`'s recording, all of it when `whole`. `PlayInv` is the replayer: there is
a `p` such that the session's first `p` frames were the first `p` of `taped`, the offset is behind them, and if a frame has been
live since, no whole frame is left. That last clause is why a replay never comes back to the
file. The arithmetic is in one place (`Pos`, the word of a frame in the file); the step from one frame to the next needs
that the length word found at the offset is that of a recorded frame, which `FileInv` gives as long as the bounds test before it
has passed. `MaxFrames` only bounds the instance; no proof step uses its value.

The frames of a buffer used to be read out of it with folds over sequences, which are defined by recursion. Each property is
now stated by position, which says the same of each frame and can be proved.

### Plugin store: `PluginStoreProofs`

| Theorem | Statement |
|---|---|
| `StoreTypes` | `Spec => []TypeOK` |
| `ListedPluginsAreThere` | `Spec => EntriesAreDirectories` |
| `UpgradesKeepTheOldVersion` | `Spec => UpgradeLosesNothing` |
| `RollbackRestores` | `Spec => RollbackUndoesUpgrade` |
| `RollbacksKeepTheBackup` | `Spec => RollbackLosesNothing` |

For any number of ids and versions, backups of backups to any depth, and copies, deletions and renames that throw anywhere. An
operation is a sequence of smaller ones in the code, so the lemmas follow directories and list through each of them: a
directory removed with its entry (`RemovalIsOK`), a list that survives a change of the directories (`ListSurvives`), a package installed with all
its outcomes, a backup made (`BackupIsOK`). Since a rollback that throws may leave an entry behind, that all entries have their directories is no invariant: the lemmas carry
the set of the plugins that are stale (`ListOK`), and each action's lemma says that it adds none (`NoneStaleBut(StaleIds)`) or, for the
rollback that throws, which. The properties of upgrade and rollback need `UndoInv`: while an upgrade can be undone,
`store/<id>.backup` is what the upgrade started from; `RollbackThrows` and `Restart` keep it.

The proof of `UndoInv` did not go through at first, for a good reason: the history variable counted the upgrade of a backup's
entry, which moves `<id>.backup` to `<id>.backup.backup`, as an upgrade of the plugin. With three levels of backup TLC finds the
rollback that then restores something else. What the model says of the code was right; what the history said the user could expect was not,
and it now follows upgrades of `store/<id>` only.

### Snake: `SnakeProofs`

`SnakeTypeCorrect` (`[]TypeOK`), `SnakeStaysApart` (`[]NeverOverlaps`), `SnakeStaysOnBoard` (`HeadEndsOnBoard`), for
snakes of any length and every set of board sizes that `SnakeAssumption` admits. `TypeOK` and
`NeverOverlaps` are inductive together; the work is in two lemmas on sequences, one cell in
front of a body it does not touch and a body without its tail.

### Pong and the screen: `PongProofs`, `GamesProofs`

`PongStaysOnCourt` and `PongBallClearsPaddle` hold for windows of any sizes and frames of any length that `PongAssumption`
admits: the ball fits the window and half of it is clear of the paddle. Both are one invariant with the types; the
argument follows the code from the walls to the paddle to the sides.

`ScreenIsTheGame` (`[]ScreenShowsGame`) needs that `DL_PTR` is never set, so that no plugin was given a list and the host's
own stays empty, and that the step between `update` and the panel changes no game. `GamesStaySound` carries
the invariants of both games through loads, unloads and swaps, `SnakeStaysOnBoardInGames` the action property.

### A session: `SessionProofs`

| Theorem | Statement |
|---|---|
| `PanelIsNewest` | `LogSpec => []PanelShowsNewest` |
| `DropsAreCounted` | `ServicesSpec => []DroppedNeverUnderstates` |
| `VerdictsAreFair` | `ServicesSpec => []VerdictIsFair` |
| `ArtifactsAreOfTheVerdict` | `ServicesSpec => []ArtifactsTellVerdict` |
| `TelemetryIsKept` | `ServicesSpec => []TelemetryTrails` |
| `SettingsAreKept` | `SettingsSpec => []SettingsStay` |
| `SettingsAreRestored` | `SettingsSpec => StartsAsLeft` |

`PanelIsNewest` and `ArtifactsAreOfTheVerdict` rest on two lemmas about `Recent`: a push into the newest entries of a stream gives the newest of the longer
stream (`PushKeepsNewest`), and the newest of the newest are the newest (`NewestOfNewest`).
`DropsAreCounted` follows the number of slow samples as the window moves: a push adds one at most (`SlowAppended`), and what leaves at the other
end takes at most one with it (`SlowOfTail`), which the counter never does.
`VerdictsAreFair` is about sorting, whatever algorithm sorts: the value at the percentile's index is within the limit exactly when
no more samples are beyond the limit than there are places after the index (`PercentileCounts`). That such a value exists would be an induction
over the samples; the proof takes the least sample with enough samples at or below it, from the library's theorem that a set of numbers has a
least one (`LeastNumber`, `SortedAtIsThere`). It holds for windows of every length.
`TelemetryIsKept` needs where in the frame the clock has been advanced and the flush has not been made yet. `CfgInv` ties the file to
the running session's settings, and `left` to the file. `SettingsAreKept` uses of the printing of numbers only `PrintingAssumption`, that what was
printed once prints the same again, through `RoundedOnce`.

**Only model-checked.** Liveness: `QuitEnds`, `DemoEnds`, `HeadlessRunEnds` and `PongKeepsGoing`, which need fairness and
ENABLED, out of the prover's reach. `Isolation` has a finding and no theorem. Every other property of a
passing run is stated by a theorem.

## 5. Where the code and its documentation part

Shown by runs:

1. `src/main.cpp:825`: a store-panel load that fails while a plugin is loaded leaves `plugin_loaded`
   raised over an empty runtime, and the next frame calls a null pointer (`bug_store_load`).
   The demo's hot-swap at line 755 does the same.
2. `src/main.cpp:607`: `on_stall` looks at `AppState::runtime`, which nothing loads; a plugin that hangs
   holds the host for ever (`bug_hang`). README line 58 promises otherwise.
3. `src/main.cpp:868`: the headless exit returns without `runner->unload()`, so no `gpi_shutdown`
   (`bug_headless_shutdown`). README line 174.
4. `src/platform/proc.cpp:76`, `src/runtime/child_shm.cpp:145` and `src/runtime/runner_child.cpp:45`: the child gets no arguments,
   would map its block with a descriptor it has closed, and the host does not wait for its answer, so
   no isolated load succeeds (`bug_isolation`). README line 82.

Met while modelling, without a run of their own: the same headless return destroys a joinable thread and
aborts (`main.cpp:873`, `watchdog.h:20`), so that the verdict never becomes the exit code, and loses the recording; a `gpi_init` that is late is closed without
`gpi_shutdown` (`plugin_runtime.cpp:24`); saves made in `gpi_init` and
`gpi_query_capabilities` go to the previous namespace (`plugin_runtime.cpp:24-25`, `main.cpp:427`); the watchdog can measure a new call against an old start
(`main.cpp:676`); a short write of a save is published (`save_store.cpp:37`); a rollback that throws leaves an entry without its
directory (`plugin_manifest.cpp:172`), and an upgrade through that entry deletes the backup, by then the only copy, before it finds that there is nothing to copy
(`:149`, `:150`); `last_plugin` is saved as
the manifest's name and looked up in the library's path (`main.cpp:885`, `575`), where "Snake" and "Pong" do not occur, so neither is
ever restored; `make_host_api` captures the draw lists as null before any is allocated (`main.cpp:203`, `210`), so the
zero-copy path of `docs/architecture.md:12` and `abi_reference.md:202` is never taken; artifacts are saved at the end of a headless run
only, where README line 208 has them saved on exit; the telemetry's clock leaves out the waits for the
display (`main.cpp:838`), so five seconds of it are more of the user's; the share of dropped
frames can exceed 100 % (`metrics.h:42`); a save of the settings that is cut off brings the defaults back, among them the
isolation under which nothing loads; every save rounds `deadline_ms` and `stall_ms` to six digits (`config.cpp:50-51`) and drops the sections `[render]`, `[hud]`, `[save]`
and `[input]` that README lines 301-316 document; the host does not check
the ABI version and never calls `gpi_suspend` and `gpi_resume` (README lines 173, 177).

## 6. What is not modelled

- The frame protocol of the child process, with the rings it runs over: unreachable until an isolated load can succeed. A model of it
  would have to invent the host that drives it.
- The texts of draw lists, screenshots, toasts, fonts, localisation: output.
- The rounding of pong's floats, and the template plugin, which does nothing.
- The per-call histograms of the HUD and the averages: the frame histogram's mechanism again, shown and not used.
- The image comparison and golden runs of `src/qa`: not part of the host's build (`CMakeLists.txt:90`).
- A plugin that crashes the process: the in-process host dies with it, there is nothing after it.
- `simulate_stall`: a delay inside a call, which `call_late` covers.
- `src/thirdparty`: not this project's code, and the greater part of the repository's lines.

## 7. Plan

Order of work, the most important first:

1. *(done)* `PluginRuntime`, `Watchdog`, `PluginHost`, their runs, `PluginAbi` and the refinement.
2. *(done)* `SaveStore` with `AtomicSaves`; `Replay`; `PluginStore`; `Isolation`; `Snake`.
3. *(done)* `PluginHostProofs`, `SaveStoreProofs`, `SnakeProofs`: type correctness, the safety invariants, two refinements.
4. *(done)* `Pong` and `Games`; `LogBus`, `FrameServices`, `Settings`; the headless run and the demo under fairness;
   `PongProofs`, `GamesProofs`, `SessionProofs`.
5. *(done)* `RunsNFrames`, `PluginStoreProofs`, `ReplayProofs`, the metrics in `SessionProofs`: every safety property and
   every action property of a passing run is a theorem.
6. Next proofs: what can be said of failure without fairness, first of all that in `Isolation` no load of any plugin succeeds
   as the code stands; conditions under which the theorems with hypotheses (`PanelIsSafe`, `NoneClosedAlive`, `NothingLeftBehind`) can
   be weakened to the switch that matters.
