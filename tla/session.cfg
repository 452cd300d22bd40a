SPECIFICATION SessionSpec
CONSTANTS
  Levels = {"info", "warn", "error"}
  Cap = 3
  PanelMax = 2
  MaxLogged = 6
  MaxFrames = 4
  MaxSaves = 2
  Durations = {1, 2, 3}
  Window = 3
  Budget = 1
  Limit = 2
  FlushEvery = 4
  Plugins = {"snake", "pong", "bare"}
  NoPlugin = "none"
  PathsWith <- Found
  MaxSessions = 3
  Numbers <- Deadlines
  Printed <- SixDigits
  BuiltIn = "12"
  Unreadable = "twelve"
INVARIANTS
  PanelShowsNewest
  VerdictIsFair
  DroppedNeverUnderstates
  TelemetryTrails
  
  SettingsStay
PROPERTIES
  StartsAsLeft
CHECK_DEADLOCK FALSE
