SPECIFICATION FaultySpec
CONSTANTS
  MaxBytes = 4
  MaxFeed = 2
  Threshold = 2
  ChunkSize = 2
  AutoTruncateFile = TRUE
INVARIANTS
  IOErrorsAreReported
CHECK_DEADLOCK FALSE
