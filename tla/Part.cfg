SPECIFICATION Spec
CONSTANTS
  N = 5
  P = 2
  Kinds = {"upforward", "updirect", "run"}
  Written = {"upforward", "updirect"}
INVARIANTS
  TypeOK
  RunIsNext
PROPERTIES
  ImplementsBitmap
