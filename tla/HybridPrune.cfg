SPECIFICATION SpecPrune
CONSTANTS
  N = 16
  W = 4
  Interfaces = {"set", "update"}
  Strategies = {"naive", "naive_iter", "tree"}
  Scanned <- MergedBits
  Contents <- EachLoop
  Touched = {1, 5}
INVARIANTS
  FreeBitsAreTheRest
  TreeIsFull
  OffsetsPointToLevels
  ScanRight
PROPERTIES
  ImplementsDiff
CHECK_DEADLOCK FALSE
