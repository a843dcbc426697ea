SPECIFICATION Spec
CONSTANTS
  MaxCommits = 4
  MaxVersion = 2
  MaxFailures = 2
  Reruns = 2
  Hands = 1
INVARIANTS
  ReleaseTypeOK
  PublicMeansVerified
CHECK_DEADLOCK FALSE
