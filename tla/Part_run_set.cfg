SPECIFICATION Spec
CONSTANTS
  N = 5
  P = 4
  Kinds = {"run"}
  Written = {"run"}
PROPERTIES
  ImplementsBitmap
