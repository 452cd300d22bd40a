------------------------------- MODULE MCSession -------------------------------
(***************************************************************************)
(* What a session shows and leaves behind: the log panel, the metrics with *)
(* the telemetry and the artifacts, and the settings over three sessions.  *)
(* The parts share no state, so Init chooses the one a behaviour is about. *)
(***************************************************************************)
EXTENDS LogBus, FrameServices, Settings, TLC

VARIABLE part

sessionVars == <<logVars, serviceVars, cfgVars, part>>

\* The plugins of the repository and what find() makes of their names: a library
\* is named in lower case and its manifest with a capital, so only the library
\* that has no manifest is found by its name.
Found == "snake" :> {} @@ "pong" :> {} @@ "bare" :> {"bare"}

\* A deadline of one frame at 60 Hz, and what a save makes of it.
Deadlines == {"12", "16.666667", "16.6667"}
SixDigits == [n \in Deadlines |-> IF n = "16.666667" THEN "16.6667" ELSE n]

SessionInit ==
  /\ LogInit /\ ServicesInit /\ SettingsInit
  /\ part \in {"log", "services", "settings"}
  /\ part # "services" => headless

SessionNext ==
  /\ UNCHANGED part
  /\ \/ part = "log" /\ LogNext /\ UNCHANGED <<serviceVars, cfgVars>>
     \/ part = "services" /\ ServicesNext /\ UNCHANGED <<logVars, cfgVars>>
     \/ part = "settings" /\ SettingsNext /\ UNCHANGED <<logVars, serviceVars>>

SessionSpec == SessionInit /\ [][SessionNext]_sessionVars
================================================================================
