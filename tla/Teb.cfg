SPECIFICATION Spec
CONSTANTS
  N = 8
  W = 4
  Mode = "hybrid"
  Contents <- AllContents
INVARIANTS
  TebTypeOK
  NoFaults
  BuildKeepsBits
  FreeBitsAreTheRest
  TreeIsFull
  OffsetsPointToLevels
  ScanGivesBits
PROPERTIES
  ImplementsBitmap
CHECK_DEADLOCK FALSE
