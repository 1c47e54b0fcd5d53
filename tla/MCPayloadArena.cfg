SPECIFICATION FairSpec
CONSTANTS
  ObjectCapacity = 3
  PayloadCapacity = 9
  Requests <- MCRequests
INVARIANTS
  TypeOK
  FreeListFits
  OneOwner
  Canonical
  Accounting
PROPERTY
  ReturnCompletes
