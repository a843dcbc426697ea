SPECIFICATION Spec
CONSTANTS
  Runs = 3
  Reruns = 1
  Edits = 0
PROPERTIES
  EveryRunNotified
CHECK_DEADLOCK FALSE
