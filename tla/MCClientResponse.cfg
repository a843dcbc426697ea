SPECIFICATION Spec
CONSTANTS
  MaxBody = 5
  Limits = {2, 4}
INVARIANTS
  ClientTypeOK
  BytesOnceInOrder
  ReplyFits
CHECK_DEADLOCK FALSE
