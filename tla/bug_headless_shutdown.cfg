SPECIFICATION Spec
CONSTANTS
  pong = pong
  snake = snake
  half = half
  NoPlugin = none
  Plugins <- TwoWhole
  Exports <- WholeExports
  Behaviours <- NoFaults
  Headless = TRUE
  Demo = FALSE
  ShowStore = FALSE
  Record = FALSE
  Frames = 2
  MaxVideo = 1
INVARIANTS
  ShutdownOnExit
