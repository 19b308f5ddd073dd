SPECIFICATION Spec
CONSTANTS
  Len = 4
  Operations = {"and"}
  Skipped = {"and"}
INVARIANTS
  RunIsNext
