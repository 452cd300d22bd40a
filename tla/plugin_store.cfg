SPECIFICATION Spec
CONSTANTS
  pong = pong
  snake = snake
  v1 = v1
  v2 = v2
  Ids <- BothIds
  Versions <- TwoVersions
  Missing = Missing
  Empty = Empty
  Damaged = Damaged
  Unmarked = Unmarked
  MaxDepth <- PongIsUpgraded
  IoFails = TRUE
SYMMETRY Symmetric
INVARIANTS
  TypeOK
PROPERTIES
  EntriesAreDirectories
  UpgradeLosesNothing
  RollbackUndoesUpgrade
  RollbackLosesNothing
