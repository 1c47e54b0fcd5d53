SPECIFICATION FairSpec
CONSTANTS
  FrameCapacity = 3
  ArenaLimit = 2
  ObjectCapacity = 2
  Slots = {word}
  ResetSlot = word
  Imm = Imm
PROPERTIES
  InterruptStops
INVARIANTS
  RefsExact
  RunningCodeLives
  ArenaStacked
