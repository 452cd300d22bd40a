SPECIFICATION Spec
CONSTANTS
  pong = pong
  snake = snake
  half = half
  NoPlugin = none
  Plugins <- TwoWhole
  Exports <- WholeExports
  Behaviours <- LoadFaults
  Headless = FALSE
  Demo = FALSE
  ShowStore = TRUE
  Record = FALSE
  Frames = 0
  MaxVideo = 2
INVARIANTS
  NoNullCall
