SPECIFICATION FairSpec
CONSTANTS
  W = 2
  G = 2
  Rows = {0, 1, 2}
  Expected = 1
  Attempts = 2
  AbsoluteLimit = 5
INVARIANTS
  AcquireTypeOK
  Complete
  CauseReported
  BudgetHolds
  BudgetSuffices
PROPERTIES
  AcquisitionReturns
CHECK_DEADLOCK FALSE
