SPECIFICATION FairSpec
CONSTANTS
  pong = pong
  snake = snake
  half = half
  NoPlugin = none
  Plugins <- TwoWhole
  Exports <- WholeExports
  Behaviours <- TimelyFaults
  Headless = FALSE
  Demo = TRUE
  ShowStore = TRUE
  Record = TRUE
  Frames = 0
  MaxVideo = 2
INVARIANTS
  TypeOK
  NoOrphan
  ShutdownBeforeClose
  EndIsClean
PROPERTIES
  DemoEnds
  ObeysAbi
