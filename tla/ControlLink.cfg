SPECIFICATION FairSpec
CONSTANTS
  SeqMax = 2
  Disturbances = 3
  Losses = 2
  MaxQueue = 3
  FrameLines = 2
INVARIANTS
  AnswersMatch
  InStep
PROPERTIES
  Reattaches
