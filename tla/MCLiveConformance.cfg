SPECIFICATION Spec
CONSTANTS
  Operations = {1, 2}
  ListOperation = 1
  Partitions <- Listings
  MaxPages = 3
  Limit = 7
  Inputs <- PlanInputs
INVARIANTS
  ConformanceTypeOK
  ListingClosed
  ReportTrue
CHECK_DEADLOCK FALSE
