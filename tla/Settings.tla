------------------------------- MODULE Settings -------------------------------
(***************************************************************************)
(* config.cpp and the places of main() that read and change the settings:  *)
(* what a session takes from config/settings.toml, what it changes, and    *)
(* what its end leaves in the file for the next one.  The plugins in the   *)
(* directory may change between sessions, and so may the file.             *)
(*                                                                         *)
(* Of the settings, numbers stands for deadline_ms and stall_ms, which are *)
(* written as operator<< prints them, to six significant digits.  The      *)
(* paths that the program only hands on are left out, and so is whatever   *)
(* load_from_file() does not know: a save drops it from the file.          *)
(***************************************************************************)
EXTENDS Naturals

CONSTANTS
  Plugins,    \* the plugin libraries, in whose names there is no #
  NoPlugin,   \* no plugin, and the empty last_plugin
  PathsWith,  \* for each plugin's name, the plugins whose path contains it
  Numbers,    \* what std::stod reads
  Printed,    \* for each number, the one that is read where it was printed
  BuiltIn,    \* the number a Settings starts with
  Unreadable, \* text for a number that std::stod refuses
  MaxSessions \* bound: how many sessions

ASSUME SettingsAssumption == NoPlugin \notin Plugins

\* What has six digits is read and printed as it is; 12.0 and 150.0 do.
ASSUME PrintingAssumption ==
  /\ Printed \in [Numbers -> Numbers]
  /\ \A n \in Numbers : Printed[Printed[n]] = Printed[n]
  /\ BuiltIn \in Numbers /\ Printed[BuiltIn] = BuiltIn
  /\ Unreadable \notin Numbers

VARIABLES
  file,          \* what load_from_file() reads of config/settings.toml: <<>> when
                 \* it is absent or empty
  app,           \* "off", or how the session was started
  settings,      \* AppState::settings
  hud_visible,   \* AppState::hud_visible
  plugin_metas,  \* AppState::plugin_metas, as a set
  selected,      \* the plugin selected_idx points at
  plugin_loaded, \* AppState::plugin_loaded
  sessions,      \* sessions so far
  written,       \* the settings as the user last wrote them, or the defaults
  left           \* what the last session that saved had at its end, <<>> when
                 \* the file has been changed since

appVars == <<app, settings, hud_visible, plugin_metas, selected, plugin_loaded>>
cfgVars == <<file, appVars, sessions, written, left>>

Defaults == [isolation |-> TRUE, ui_hud |-> TRUE, show_store |-> TRUE,
             last_plugin |-> NoPlugin, numbers |-> BuiltIn]

SettingsInit ==
  /\ file = <<>>
  /\ app = "off"
  /\ settings = Defaults
  /\ hud_visible = TRUE
  /\ plugin_metas = {}
  /\ selected = NoPlugin
  /\ plugin_loaded = FALSE
  /\ sessions = 0
  /\ written = Defaults
  /\ left = <<>>

\* cfg::load_from_file over the defaults of Settings.
LoadFromFile == IF file = <<>> THEN Defaults ELSE file[1]

\* Mutant: the selection is left to the first plugin.
SelectionTakesAny(metas, last) == metas

\* The last path that contains settings.last_plugin, else the first path; the
\* directory yields them in any order.
Selection(metas, last) ==
  LET matching == IF last = NoPlugin THEN {} ELSE metas \cap PathsWith[last]
  IN  CASE metas = {}     -> {NoPlugin}
        [] matching # {} -> matching
        [] OTHER          -> metas

\* The --plugin of a headless run or a demo may pick any of them instead.
StartSelection(how, metas, last) ==
  Selection(metas, last) \cup (IF how = "gui" THEN {} ELSE metas)

\* A plugin is loaded in process: an isolated load never succeeds.
CanLoad(p) == p # NoPlugin /\ ~settings'.isolation

\* The start of main(): a number that std::stod cannot read ends it.
Start(how) ==
  /\ app = "off"
  /\ sessions < MaxSessions
  /\ sessions' = sessions + 1
  /\ IF LoadFromFile.numbers = Unreadable
       THEN UNCHANGED appVars
       ELSE /\ app' = how
            /\ settings' = LoadFromFile
            /\ hud_visible' = (settings'.ui_hud /\ how # "demo")
            /\ plugin_metas' \in SUBSET Plugins
            /\ selected' \in StartSelection(how, plugin_metas', settings'.last_plugin)
            /\ plugin_loaded' \in {l \in BOOLEAN :
                                     l => how = "headless" /\ CanLoad(selected')}
  /\ UNCHANGED <<file, written, left>>

\* F10.
ToggleHud ==
  /\ app \in {"gui", "demo"}
  /\ hud_visible' = ~hud_visible
  /\ UNCHANGED <<file, app, settings, plugin_metas, selected, plugin_loaded,
                 sessions, written, left>>

\* The panels are there while F10 or the settings show them.
PanelsShown == app \in {"gui", "demo"} /\ (hud_visible \/ settings.show_store)

\* A click in a panel selects another plugin, while whichever is loaded stays
\* loaded; the swap of a demo selects what it loads.
SelectPlugin ==
  /\ PanelsShown \/ (app # "off" /\ plugin_loaded)
  /\ selected' \in plugin_metas
  /\ UNCHANGED <<file, app, settings, hud_visible, plugin_metas, plugin_loaded,
                 sessions, written, left>>

\* "Refresh" keeps the index, whatever plugin is there now.
Refresh ==
  /\ PanelsShown /\ hud_visible
  /\ plugin_metas' \in SUBSET Plugins
  /\ selected' \in Selection(plugin_metas', NoPlugin)
  /\ UNCHANGED <<file, app, settings, hud_visible, plugin_loaded, sessions,
                 written, left>>

\* A load by a click, an unload by a click or by a failed call.
LoadOrUnload ==
  /\ app # "off"
  /\ plugin_loaded' = ~plugin_loaded
  /\ plugin_loaded' => PanelsShown /\ selected # NoPlugin /\ ~settings.isolation
  /\ UNCHANGED <<file, app, settings, hud_visible, plugin_metas, selected,
                 sessions, written, left>>

\* Mutant: what the program does not change is not written back.
AtEndForgets == [Defaults EXCEPT !.ui_hud = hud_visible,
                                 !.last_plugin = settings.last_plugin]

\* What the end of main() makes of the settings.
AtEnd ==
  [settings EXCEPT
     !.ui_hud = hud_visible,
     !.last_plugin = IF plugin_loaded /\ selected # NoPlugin THEN selected ELSE @]

\* cfg::save_to_file: what is read where s was printed.
Saved(s) == [s EXCEPT !.numbers = Printed[@]]

\* Escape or a quit event, and the save, which does nothing when the file cannot
\* be opened.
Quit ==
  /\ app # "off"
  /\ app' = "off"
  /\ settings' = AtEnd
  /\ \/ /\ file' = <<Saved(AtEnd)>>
        /\ left' = <<[hud |-> hud_visible,
                      plugin |-> IF plugin_loaded THEN selected
                                 ELSE settings.last_plugin]>>
     \/ UNCHANGED <<file, left>>
  /\ UNCHANGED <<hud_visible, plugin_metas, selected, plugin_loaded, sessions,
                 written>>

\* The program is killed after save_to_file() has truncated the file, or the disk
\* is full; its text is written at once when the stream closes.
KilledInSave ==
  /\ app # "off"
  /\ app' = "off"
  /\ file' = <<>>
  /\ written' = Defaults
  /\ left' = <<>>
  /\ UNCHANGED <<settings, hud_visible, plugin_metas, selected, plugin_loaded,
                 sessions>>

\* --frames ends a headless run, or the program is killed: nothing is saved.
EndUnsaved ==
  /\ app # "off"
  /\ app' = "off"
  /\ UNCHANGED <<file, settings, hud_visible, plugin_metas, selected,
                 plugin_loaded, sessions, written, left>>

\* The user edits the file between sessions.
EditFile ==
  /\ app = "off"
  /\ \E iso, store \in BOOLEAN, n \in Numbers \cup {Unreadable} :
       file' = <<[LoadFromFile EXCEPT !.isolation = iso, !.show_store = store,
                                      !.numbers = n]>>
  /\ written' = file'[1]
  /\ left' = <<>>
  /\ UNCHANGED <<appVars, sessions>>

SettingsNext ==
  \/ \E how \in {"gui", "demo", "headless"} : Start(how)
  \/ ToggleHud \/ SelectPlugin \/ Refresh \/ LoadOrUnload
  \/ Quit \/ KilledInSave \/ EndUnsaved \/ EditFile

SettingsSpec == SettingsInit /\ [][SettingsNext]_cfgVars
-------------------------------------------------------------------------------
\* What a number may read as after it was written: itself, or itself rounded once.
ReadingsOf(n) == {n} \cup (IF n \in Numbers THEN {Printed[n]} ELSE {})

\* What the user set in the file and no part of the program is there to change
\* stays through any number of sessions, whichever way they ended, until the user
\* edits it or the program is killed while it saves: the switches read the same,
\* and a number has at most been rounded to six digits and drifts no further.
SettingsStay ==
  /\ LoadFromFile.isolation = written.isolation
  /\ LoadFromFile.show_store = written.show_store
  /\ LoadFromFile.numbers \in ReadingsOf(written.numbers)

\* The plugins whose name their own path contains and no other.
Recallable == {p \in Plugins : PathsWith[p] = {p}}

\* A session starts with the HUD as the last saved one left it, and with its
\* plugin selected if that is still there and is found by its name.
StartsAsLeft ==
  [][app = "off" /\ app' = "gui" /\ left # <<>> =>
       /\ hud_visible' = left[1].hud
       /\ left[1].plugin \in plugin_metas' \cap Recallable
            => selected' = left[1].plugin]_cfgVars
===============================================================================
