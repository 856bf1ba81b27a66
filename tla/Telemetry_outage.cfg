SPECIFICATION TelemetryFairSpec

CONSTANTS
  NumSensors = 1
  NumRegisters = 0
  MaxCycles = 1
  ChunkSize = 1
  MaxFaults = 0
  AllowCrash = FALSE
  AllowStop = FALSE
  DiskMayFail = FALSE
  KeepPolling = FALSE
  SureReads = 1
  MaxOutages = 1
  NewSensor = FALSE
  StartsUp = TRUE
  MaxInbox = 1

PROPERTIES
  AlwaysEndsUpInPostgres

CHECK_DEADLOCK FALSE
