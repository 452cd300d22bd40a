SPECIFICATION Spec
CONSTANTS
  left = left
  right = right
  Inputs <- TwoInputs
  NoFile = NoFile
  HeadWords = 2
  InputWords = 1
  MaxFrames = 3
INVARIANTS
  TypeOK
  ReplayIsFaithful
  ReplayIsComplete
  RecordsLiveFrames
