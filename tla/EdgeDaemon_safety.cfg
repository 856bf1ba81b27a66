SPECIFICATION Spec

CONSTANTS
  NumSensors = 2
  NumRegisters = 1
  MaxCycles = 2
  ChunkSize = 2
  MaxFaults = 2
  AllowCrash = TRUE
  AllowStop = TRUE
  DiskMayFail = TRUE
  KeepPolling = FALSE
  SureReads = 1

INVARIANTS
  TypeOK
  NothingDrainedIsLost
  EachItemHeldOnce
  AckIsForTheAwaited

PROPERTIES
  RowsOutliveTheirAck
  DrainedOldestFirst

CHECK_DEADLOCK FALSE
