SPECIFICATION SpecPrune
CONSTANTS
  N = 32
  W = 8
  Contents <- RunsAndSpread
  Touched = {0, 1, 9}
INVARIANTS
  TypeOK
  FirstExplicitIsLeaf
  SkippedLevelsStay
PROPERTIES
  PathIsPruned
  ImplementsBitmap
CHECK_DEADLOCK FALSE
