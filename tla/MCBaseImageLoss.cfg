SPECIFICATION Spec
CONSTANTS
  Natives <- MCNatives
  Boot = "boot"
  Ffi <- MCFfi
  Lib <- MCLib
  UserNames <- MCUserNames
  NoName = NoName
  User = User
  Unbound = Unbound
  SlotCapacity = 6
  ObjectCapacity = 6
INVARIANTS
  BaseSurvives
