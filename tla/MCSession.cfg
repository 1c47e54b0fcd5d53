SPECIFICATION Spec
CONSTANTS
  LiteralCapacity = 24
  NodeCapacity = 60
  LinkCapacity = 40
  BindingCapacity = 4
  ScopeCapacity = 5
  FrameCapacity = 3
  IntBits = 30
  SymbolCapacity = 16
  ObjectCapacity = 16
  EvalFrameCapacity = 20
  SourceCapacity = 40
  Parse <- ParseSource
  Evaluate <- EvalSource
  Reset <- BaseImageReset
  Load <- Restore
  MaxLines <- MCMaxLines
  Scripts <- MCScripts
  Meanings <- MCMeanings
  Polls = {3, 200}
INVARIANTS
  ProgramsAreProper
  StringsFit
  PhrasesMean
  ImageIsWellFormed
  RunsWhenComplete
  SavedImageComesBack
  RestoredSavesAlike
  DamageIsContained
  FailedRestoreLeavesBase
