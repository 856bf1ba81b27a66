SPECIFICATION TelemetryFairSpec

CONSTANTS
  NumSensors = 1
  NumRegisters = 0
  MaxCycles = 2
  ChunkSize = 1
  MaxFaults = 1
  AllowCrash = FALSE
  AllowStop = FALSE
  DiskMayFail = FALSE
  KeepPolling = TRUE
  SureReads = 1
  MaxOutages = 0
  NewSensor = FALSE
  StartsUp = TRUE
  MaxInbox = 1

PROPERTIES
  EventuallyStored

CHECK_DEADLOCK FALSE
