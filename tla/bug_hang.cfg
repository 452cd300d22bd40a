SPECIFICATION FairSpec
CONSTANTS
  pong = pong
  snake = snake
  half = half
  NoPlugin = none
  Plugins <- TwoWhole
  Exports <- WholeExports
  Behaviours <- OnlyHang
  Headless = FALSE
  Demo = FALSE
  ShowStore = FALSE
  Record = FALSE
  Frames = 0
  MaxVideo = 2
PROPERTIES
  HangIsContained
