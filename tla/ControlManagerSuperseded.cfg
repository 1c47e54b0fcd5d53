SPECIFICATION Spec
CONSTANTS
  Connects = {c1}
  Disconnects = {d1}
  Requests = {}
  Interrupts = {}
  First = First
  None = None
PROPERTY
  SupersededIsSilent
