SPECIFICATION Spec
CONSTANTS
  N = 3
  Files = {3}
  MaxRuns = 2
INVARIANTS
  GuideTypeOK
  SourcesReplaced
  MarkerGuards
  SourcesKept
CHECK_DEADLOCK FALSE
