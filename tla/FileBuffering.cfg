SPECIFICATION Spec
CONSTANTS
  MaxBytes = 5
  MaxFeed = 2
  Threshold = 3
  ChunkSize = 2
  AutoTruncateFile = TRUE
INVARIANTS
  TypeOK
  ReaderIsWoken
  MoverAgreesWithReader
  PlansMatchState
PROPERTIES
  ImplementsStream
  DataIsDelivered
  EndIsDelivered
CHECK_DEADLOCK FALSE
