----------------------------- MODULE FrameServices -----------------------------
(***************************************************************************)
(* What the frame loop of main.cpp keeps about itself in one session: the  *)
(* frame times and their statistics (metrics.h), the telemetry the plugin  *)
(* marks and its flushes (telemetry.cpp), the artifacts saved on request   *)
(* and the verdict a headless run comes to (save_artifacts_now,            *)
(* artifacts.cpp).  Times are whole numbers of one unit, and every write   *)
(* to the artifacts directory succeeds.                                    *)
(***************************************************************************)
EXTENDS Recent, FiniteSets, Functions

CONSTANTS
  MaxFrames,  \* bound: frames of a session, and so the largest --frames
  MaxSaves,   \* bound: saves asked for in the session
  Durations,  \* what the work of a frame may take
  Window,     \* FrameHistogram::cap_, 600 in the code
  Budget,     \* FrameHistogram::budget_ms_, 16.6 in the code
  Limit,      \* p99 of a run that passes, 18.0 in the code
  FlushEvery  \* time between flushes of the telemetry, 5 s in the code

ASSUME ServicesAssumption ==
  /\ Durations \subseteq Nat \ {0}
  /\ Window \in Nat \ {0} /\ MaxFrames \in Nat \ {0}
  /\ {Budget, Limit, FlushEvery, MaxSaves} \subseteq Nat

VARIABLES
  headless,      \* --headless, with any --frames up to MaxFrames
  at,            \* where in the frame the loop is
  samples,       \* FrameHistogram::samples_
  dropped,       \* FrameHistogram::dropped_
  marks,         \* Telemetry::series_: for each mark the acc_time that its frame
                 \* brought about
  acc_time,      \* the time the loop has spent in frames
  last_flush,    \* acc_time at the last flush
  trail,         \* how many marks artifacts/telemetry.csv and .json hold
  second,        \* timestamp(), which names what is saved
  saved,         \* what is saved, by its timestamp
  saves,         \* saves asked for so far
  verdict,       \* how the session ended
  frames         \* the time of every frame so far

metricVars == <<samples, dropped, frames>>
flushVars == <<acc_time, last_flush, trail>>
serviceVars == <<headless, at, metricVars, marks, flushVars, second, saved,
                 saves, verdict>>

ServicesInit ==
  /\ headless \in BOOLEAN
  /\ at = "input"
  /\ samples = <<>> /\ dropped = 0 /\ frames = <<>>
  /\ marks = <<>> /\ acc_time = 0 /\ last_flush = 0 /\ trail = 0
  /\ second = 0
  /\ saved = <<>> /\ saves = 0
  /\ verdict = "none"
--------------------------------------------------------------------------------
(* FrameHistogram *)

\* The value at index r of s when s is sorted.
SortedAt(s, r) ==
  CHOOSE x \in Range(s) :
    /\ Cardinality({i \in DOMAIN s : s[i] < x}) <= r
    /\ r < Cardinality({i \in DOMAIN s : s[i] <= x})

\* Mutant: the percentile is the largest sample.
RankOfLargest(n, percent) == n - 1

\* Where the percentile stands among n sorted samples, from 0.
Rank(n, percent) == (percent * (n - 1)) \div 100

P99(s) == SortedAt(s, Rank(Len(s), 99))

Slow(s, most) == {i \in DOMAIN s : s[i] > most}

\* Mutant: a push into the full window counts nothing.
PushSampleForgets(ms) ==
  /\ samples' = PushRecent(samples, ms, Window)
  /\ dropped' = IF ms > Budget /\ Len(samples) < Window THEN dropped + 1
                ELSE dropped
  /\ frames' = Append(frames, ms)

\* FrameHistogram::push: what leaves the window stays counted in dropped_.
PushSample(ms) ==
  /\ samples' = PushRecent(samples, ms, Window)
  /\ dropped' = IF ms > Budget THEN dropped + 1 ELSE dropped
  /\ frames' = Append(frames, ms)
--------------------------------------------------------------------------------
(* Saving: F9, the button of the HUD, the demo, and the end of --frames. *)

Session == [samples |-> samples, dropped |-> dropped, marks |-> Len(marks)]

\* Mutant: what the same second has saved already is kept.
SaveArtifactsKeeps ==
  saved' = [s \in DOMAIN saved \cup {second} |->
              IF s \in DOMAIN saved THEN saved[s] ELSE Session]

\* save_artifacts_now: the frame times, the summary that is computed from them,
\* and both files of the telemetry, over what the same second may have saved.
SaveArtifacts ==
  saved' = [s \in DOMAIN saved \cup {second} |->
              IF s = second THEN Session ELSE saved[s]]

\* After the panels a headless frame goes on to the display at once.
AfterPanels == IF headless THEN "swap" ELSE "flush"

SaveOnRequest == saves < MaxSaves /\ saves' = saves + 1 /\ SaveArtifacts

\* F9 is looked at before the calls of the frame.
PressF9 ==
  /\ at = "input"
  /\ ~headless
  /\ Len(frames) < MaxFrames
  /\ SaveOnRequest
  /\ at' = "calls"
  /\ UNCHANGED <<headless, metricVars, marks, flushVars, second, verdict>>

NoKey ==
  /\ at = "input"
  /\ Len(frames) < MaxFrames
  /\ at' = "calls"
  /\ UNCHANGED <<headless, metricVars, marks, flushVars, second, saved,
                 saves, verdict>>

\* The button of the HUD and the demo timeline save with the frame's sample.
SaveAfterCalls ==
  /\ at = "panels"
  /\ SaveOnRequest
  /\ at' = AfterPanels
  /\ UNCHANGED <<headless, metricVars, marks, flushVars, second, verdict>>

NoSave ==
  /\ at = "panels"
  /\ at' = AfterPanels
  /\ UNCHANGED <<headless, metricVars, marks, flushVars, second, saved, saves, verdict>>
--------------------------------------------------------------------------------
(* A frame *)

\* The calls of the plugin, when there is one, in which it marks telemetry or does
\* not, and the sample of the frame.
Calls(ms) ==
  /\ at = "calls"
  /\ marks' \in {marks, Append(marks, acc_time + ms)}
  /\ PushSample(ms)
  /\ at' = "panels"
  /\ UNCHANGED <<headless, flushVars, second, saved, saves, verdict>>

\* Mutant: the flush writes what is new over what is old.
FlushNewOnly(time) ==
  IF time - last_flush > FlushEvery
    THEN trail' = Len(marks) - trail /\ last_flush' = time
    ELSE UNCHANGED <<trail, last_flush>>

\* Both files are written anew with everything marked since the start.
Flush(time) ==
  IF time - last_flush > FlushEvery
    THEN trail' = Len(marks) /\ last_flush' = time
    ELSE UNCHANGED <<trail, last_flush>>

\* The loop's clock adds up the work of the frames and leaves out the waits for
\* the display.
FlushTelemetry ==
  /\ at = "flush"
  /\ acc_time' = acc_time + frames[Len(frames)]
  /\ Flush(acc_time')
  /\ at' = "swap"
  /\ UNCHANGED <<headless, metricVars, marks, second, saved, saves, verdict>>

\* SDL_GL_SwapWindow; time passes, and the last frame of --frames, whichever that
\* is, is seen.
Swap ==
  /\ at = "swap"
  /\ second' \in {second, second + 1}
  /\ at' \in (IF headless THEN {"exit"} ELSE {"input"})
             \cup (IF Len(frames) < MaxFrames THEN {"input"} ELSE {})
  /\ UNCHANGED <<headless, metricVars, marks, flushVars, saved, saves,
                 verdict>>

\* The artifacts, then the value main() returns.  It never becomes the exit code
\* of the process: the watchdog's thread is still joinable when main() destroys it.
HeadlessExit ==
  /\ at = "exit"
  /\ SaveArtifacts
  /\ verdict' = IF P99(samples) <= Limit THEN "pass" ELSE "fail"
  /\ at' = "over"
  /\ UNCHANGED <<headless, metricVars, marks, flushVars, second, saves>>

\* Escape or a quit event in a frame ends the loop after it and saves nothing of
\* this.
QuitUnsaved ==
  /\ at = "input"
  /\ frames # <<>>
  /\ at' = "over"
  /\ verdict' = "quit"
  /\ UNCHANGED <<headless, metricVars, marks, flushVars, second, saved,
                 saves>>

ServicesNext ==
  \/ PressF9 \/ NoKey \/ SaveAfterCalls \/ NoSave
  \/ \E ms \in Durations : Calls(ms)
  \/ FlushTelemetry \/ Swap \/ HeadlessExit \/ QuitUnsaved

ServicesSpec == ServicesInit /\ [][ServicesNext]_serviceVars
--------------------------------------------------------------------------------
\* A headless run of any length passes exactly when, of the newest Window frames,
\* at most one in a hundred of all but one, rounded up, took longer than the limit:
\* a single frame has to keep it, one frame in 2 to 101 may miss it, and two from
\* 102 on.  Frames that have left the window do not count, and neither do the
\* saves on the way.
VerdictIsFair ==
  LET newest == Newest(frames, Window)
  IN  verdict \in {"pass", "fail"} =>
        (verdict = "pass" <=>
           Cardinality(Slow(newest, Limit)) <= (Len(newest) + 98) \div 100)

\* The share of dropped frames that the HUD and the summary give is never lower
\* than that of the window they give it for, and right until the window is full.
DroppedNeverUnderstates ==
  LET slow == Cardinality(Slow(samples, Budget))
  IN  dropped >= slow /\ (Len(frames) <= Window => dropped = slow)

\* Between frames with a window, artifacts/telemetry holds everything plugins have
\* marked but what the last FlushEvery of the loop's own time brought.
TelemetryTrails ==
  at = "input" /\ ~headless =>
    \A i \in DOMAIN marks : marks[i] <= acc_time - FlushEvery => i <= trail

\* When a headless run has come to its verdict, the files named with the second
\* of its end hold the frames the verdict is about and every mark of the session,
\* whatever was saved under that name before; and whoever computes the percentile
\* from them comes to the same verdict.
ArtifactsTellVerdict ==
  verdict \in {"pass", "fail"} =>
    /\ second \in DOMAIN saved
    /\ LET last == saved[second]
       IN  /\ last.samples = Newest(frames, Window)
           /\ last.marks = Len(marks)
           /\ verdict = "pass" <=> P99(last.samples) <= Limit
================================================================================
