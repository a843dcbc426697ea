SPECIFICATION PromptSpec
CONSTANTS
  ChunkSizes <- MCChunkSizes
  Limit = 3
  MaxU64 = 3
  MaxCalls = 4
INVARIANTS
  ExecuteTypeOK
  ReportMatchesDestination
  CleanupTold
PROPERTIES
  DownloadEnds
  CallEnds
CHECK_DEADLOCK FALSE
