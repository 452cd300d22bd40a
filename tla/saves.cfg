SPECIFICATION Spec
CONSTANTS
  score = score
  level = level
  low = low
  high = high
  Keys <- TwoKeys
  Values <- TwoValues
  NoFile = NoFile
  Torn = Torn
  NoPut = NoPut
  SyncsFiles = TRUE
  DiskFills = FALSE
INVARIANTS
  TypeOK
  ReadsAreCurrent
  JournalTrails
PROPERTIES
  PutIsAtomic
