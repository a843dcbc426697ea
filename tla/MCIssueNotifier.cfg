SPECIFICATION Spec
CONSTANTS
  Runs = 3
  Reruns = 1
  Edits = 1
INVARIANTS
  NotifierTypeOK
  OneIssue
  ToldTruly
CHECK_DEADLOCK FALSE
