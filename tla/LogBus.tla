-------------------------------- MODULE LogBus --------------------------------
(***************************************************************************)
(* services/log_bus.cpp and ui/log_panel.cpp: the messages plugins log     *)
(* through the host API, and the panel that shows the newest of them that  *)
(* its filter lets through.                                                *)
(***************************************************************************)
EXTENDS Recent

CONSTANTS
  Levels,   \* LogLvl
  Cap,      \* LogBus::cap_, 2000 in the code
  PanelMax, \* what the panel asks snapshot() for, 1000 in the code
  MaxLogged \* bound: messages in a session

ASSUME LogAssumption ==
  PanelMax \in Nat \ {0} /\ Cap \in Nat /\ PanelMax <= Cap

VARIABLES
  q,      \* LogBus::q_
  filter, \* LogPanel::filter_, the levels it lets through
  logged  \* every message of the session, oldest first

logVars == <<q, filter, logged>>

LogInit == q = <<>> /\ filter = Levels /\ logged = <<>>

\* LogBus::push.
LogMessage(lvl) ==
  /\ Len(logged) < MaxLogged
  /\ q' = PushRecent(q, lvl, Cap)
  /\ logged' = Append(logged, lvl)
  /\ UNCHANGED filter

\* The radio buttons: all levels, or one.
ChooseFilter ==
  /\ filter' \in {Levels} \cup {{lvl} : lvl \in Levels}
  /\ UNCHANGED <<q, logged>>

LogNext == ChooseFilter \/ \E lvl \in Levels : LogMessage(lvl)

LogSpec == LogInit /\ [][LogNext]_logVars

Passes(lvl) == lvl \in filter

\* LogBus::snapshot, and what LogPanel::draw makes of it.
Snapshot == Newest(q, PanelMax)
Shown == SelectSeq(Snapshot, Passes)
-------------------------------------------------------------------------------
\* The panel shows, of the newest PanelMax messages the plugins have logged,
\* exactly those its filter lets through and in their order, however many
\* messages the bus has dropped and whenever the filter was changed.
PanelShowsNewest == Shown = SelectSeq(Newest(logged, PanelMax), Passes)
===============================================================================
