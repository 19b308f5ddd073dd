SPECIFICATION Spec
CONSTANTS
  W = 5
  WordCnt = 3
  WordsPerBlock = 2
INVARIANTS
  TypeOK
  WordsHoldBits
  RankLutIsExact
