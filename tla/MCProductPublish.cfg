SPECIFICATION Spec
CONSTANTS
  N = 2
  MaxRuns = 2
INVARIANTS
  ProductTypeOK
  PairReplaced
  AcceptedKept
PROPERTIES
  ForeignUntouched
CHECK_DEADLOCK FALSE
