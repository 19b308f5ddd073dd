SPECIFICATION Spec
CONSTANTS
  N = 8
  W = 16
  Mode = "direct"
  Contents <- StoredContents
PROPERTIES
  UpdateChangesOneBit
CHECK_DEADLOCK FALSE
