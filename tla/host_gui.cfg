SPECIFICATION Spec
CONSTANTS
  pong = pong
  snake = snake
  half = half
  NoPlugin = none
  Plugins <- TwoWhole
  Exports <- OneHasNoShutdown
  Behaviours <- AllFaults
  Headless = FALSE
  Demo = FALSE
  ShowStore = FALSE
  Record = FALSE
  Frames = 0
  MaxVideo = 2
INVARIANTS
  NoNullCall
  SavesAreOwn
  SelectionInRange
  WatchdogCoversLoop
