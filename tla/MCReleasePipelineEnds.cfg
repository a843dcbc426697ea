SPECIFICATION Spec
CONSTANTS
  MaxCommits = 4
  MaxVersion = 2
  MaxFailures = 2
  Reruns = 1
  Hands = 1
PROPERTIES
  InterruptedReleaseCompletes
CHECK_DEADLOCK FALSE
