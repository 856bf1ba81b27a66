SPECIFICATION Spec

CONSTANTS
  NumSensors = 1
  NumRegisters = 0
  MaxCycles = 1
  ChunkSize = 1
  MaxFaults = 0
  AllowCrash = FALSE
  AllowStop = TRUE
  DiskMayFail = FALSE
  KeepPolling = FALSE
  SureReads = 1

INVARIANTS
  SafeFlushLosesNothing

CHECK_DEADLOCK FALSE
