------------------------------- MODULE Watchdog -------------------------------
(***************************************************************************)
(* src/runtime/watchdog.cpp: the thread that looks at the main thread's    *)
(* in_plugin_call and plugin_call_start every 10 ms and calls on_stall     *)
(* when the call under way has lasted longer than stall_ms.                *)
(*                                                                         *)
(* The two shared variables are written and read one at a time, with       *)
(* memory_order_relaxed, so each read is a step of its own.  Time is what  *)
(* the thread can tell apart: whether plugin_call_start belongs to the     *)
(* call under way, and whether that call is over the budget.               *)
(***************************************************************************)
EXTENDS Naturals

VARIABLES
  app_running,     \* AppState::app_running, *running
  in_plugin_call,  \* AppState::in_plugin_call
  start_is_fresh,  \* plugin_call_start was set for the call under way
  overdue,         \* the call under way has lasted longer than stall_ms
  alive,           \* alive_
  wd,              \* where the thread is; "none" before start()
  stalls           \* the kinds of stall on_stall was called for

wdVars == <<app_running, in_plugin_call, start_is_fresh, overdue,
            alive, wd, stalls>>

WdSteps == {"none", "loop", "check", "returned", "joined"}

WdTypeOK ==
  /\ app_running \in BOOLEAN
  /\ in_plugin_call \in BOOLEAN
  /\ start_is_fresh \in BOOLEAN
  /\ overdue \in BOOLEAN
  /\ alive \in BOOLEAN
  /\ wd \in WdSteps
  /\ stalls \in SUBSET {"real", "spurious"}

WdInit ==
  /\ app_running = TRUE
  /\ in_plugin_call = FALSE
  /\ start_is_fresh = FALSE
  /\ overdue = FALSE
  /\ alive = FALSE
  /\ wd = "none"
  /\ stalls = {}

\* start(): alive_.exchange(true), then the thread.
WatchdogStart ==
  /\ ~alive
  /\ alive' = TRUE
  /\ wd' = "loop"
  /\ UNCHANGED <<app_running, in_plugin_call, start_is_fresh, overdue, stalls>>

\* Mutant: the loop condition is lost.
WatchdogLoopForever ==
  /\ wd = "loop"
  /\ wd' = IF in_plugin_call THEN "check" ELSE "loop"
  /\ UNCHANGED <<app_running, in_plugin_call, start_is_fresh, overdue,
                 alive, stalls>>

\* The loop condition and the read of in_call.
WatchdogLoop ==
  /\ wd = "loop"
  /\ wd' = IF ~(alive /\ app_running) THEN "returned"
           ELSE IF in_plugin_call THEN "check"
           ELSE "loop"
  /\ UNCHANGED <<app_running, in_plugin_call, start_is_fresh, overdue,
                 alive, stalls>>

\* since = now - start, and since <= budget.
WatchdogSleeps ==
  /\ wd = "check"
  /\ ~(start_is_fresh /\ overdue)
  /\ wd' = "loop"
  /\ UNCHANGED <<app_running, in_plugin_call, start_is_fresh, overdue,
                 alive, stalls>>

\* since > budget: on_stall().  A start left by an earlier call is as old as
\* one likes.  The composing module adds what on_stall does.
WatchdogFires ==
  /\ wd = "check"
  /\ start_is_fresh => overdue
  /\ wd' = "loop"
  /\ stalls' = stalls \cup {IF overdue THEN "real" ELSE "spurious"}
  /\ UNCHANGED <<app_running, in_plugin_call, start_is_fresh, overdue, alive>>

\* The clock: the call under way gets past the budget.
TimePasses ==
  /\ start_is_fresh
  /\ ~overdue
  /\ overdue' = TRUE
  /\ UNCHANGED <<app_running, in_plugin_call, start_is_fresh, alive, wd, stalls>>

\* What the main thread does around a plugin call: flag first, time second.
MarkInCall ==
  /\ in_plugin_call' = TRUE
  /\ UNCHANGED <<app_running, start_is_fresh, overdue, alive, wd, stalls>>

MarkStart ==
  /\ start_is_fresh' = TRUE
  /\ UNCHANGED <<app_running, in_plugin_call, overdue, alive, wd, stalls>>

UnmarkCall ==
  /\ in_plugin_call' = FALSE
  /\ start_is_fresh' = FALSE
  /\ overdue' = FALSE
  /\ UNCHANGED <<app_running, alive, wd, stalls>>

\* app_running.store(false)
StopRunning ==
  /\ app_running' = FALSE
  /\ UNCHANGED <<in_plugin_call, start_is_fresh, overdue, alive, wd, stalls>>

\* stop(): alive_.exchange(false), then join.
WatchdogStop ==
  /\ alive' = FALSE
  /\ UNCHANGED <<app_running, in_plugin_call, start_is_fresh, overdue, wd, stalls>>

WatchdogJoin ==
  /\ wd = "returned"
  /\ wd' = "joined"
  /\ UNCHANGED <<app_running, in_plugin_call, start_is_fresh, overdue,
                 alive, stalls>>
=============================================================================
