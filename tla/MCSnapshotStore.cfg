SPECIFICATION Spec
CONSTANTS
  Base = Base
  ImageA = ImageA
  ImageB = ImageB
  None = None
  Torn = Torn
  Images <- MCImages
  GenModulus = 6
INVARIANTS
  TypeOK
  AckedSaveSurvives
  NoGenerationTie
  SaveAvoidsActive
PROPERTY
  ImplementsDurableImage
