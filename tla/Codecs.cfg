SPECIFICATION Spec
CONSTANTS
  N = 13
  SkipDistance = 2
  XahBits = 4
  UahBits = 5
  ConciseBits = 4
  MaxRuns = 3
  MaxRunsUpdated = 1
  Kinds = {"xah", "xah_skip", "uah", "uah_skip", "concise", "bah", "bbc"}
INVARIANTS
  TypeOK
  WordsHoldBits
  TestAgrees
  RunIsNext
  TreeRunIsNext
CHECK_DEADLOCK FALSE
