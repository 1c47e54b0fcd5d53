SPECIFICATION FairSpec
CONSTANTS
  Connects = {}
  Disconnects = {d1}
  Requests = {r1, r2}
  Interrupts = {}
  First = First
  None = None
PROPERTY
  DisconnectReturns
