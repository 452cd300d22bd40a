SPECIFICATION FairSpec
CONSTANTS
  pong = pong
  snake = snake
  half = half
  NoPlugin = none
  Plugins <- PongAndHalf
  Exports <- OneIsNoPlugin
  Behaviours <- ReturningFaults
  Headless = TRUE
  Demo = TRUE
  ShowStore = FALSE
  Record = FALSE
  Frames = 3
  MaxVideo = 2
INVARIANTS
  RunsNFrames
PROPERTIES
  QuitEnds
  HeadlessRunEnds
