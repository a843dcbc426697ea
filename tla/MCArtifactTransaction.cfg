SPECIFICATION FairSpec
CONSTANTS
  ChunkSizes <- MCChunkSizes
  Limit = 3
  MaxU64 = 3
  MaxCalls = 4
INVARIANTS
  TypeOK
  PublishedWhole
  RevokedUnpublished
  AssertionsHold
PROPERTIES
  NoClobber
  IsAtomicPublication
  CallsReturn
  WorkerEnds
CHECK_DEADLOCK FALSE
