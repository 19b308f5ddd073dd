SPECIFICATION Spec
CONSTANTS
  N = 3
  Interfaces = {"set", "update"}
  Strategies = {"naive", "naive_iter", "inplace", "tree"}
INVARIANTS
  TypeOK
  PendingCoversDiff
PROPERTIES
  MergeClearsSetDiff
  ImplementsBitmap
