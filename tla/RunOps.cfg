SPECIFICATION Spec
CONSTANTS
  Len = 5
  Operations = {"and", "or", "xor", "xor_re"}
  Skipped = {"or", "xor", "xor_re"}
INVARIANTS
  TypeOK
  RunIsNext
  NothingLost
PROPERTIES
  CallReturns
