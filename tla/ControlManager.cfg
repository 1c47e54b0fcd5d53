SPECIFICATION Spec
CONSTANTS
  Connects = {c1}
  Disconnects = {d1}
  Requests = {r1}
  Interrupts = {i1}
  First = First
  None = None
INVARIANTS
  NoLeak
  OneExchange
  DisconnectWins
  HolderRuns
PROPERTY
  FailsOnlyItsOwn
