SPECIFICATION TelemetrySpec

CONSTANTS
  NumSensors = 1
  NumRegisters = 1
  MaxCycles = 1
  ChunkSize = 1
  MaxFaults = 2
  AllowCrash = TRUE
  AllowStop = FALSE
  DiskMayFail = TRUE
  KeepPolling = FALSE
  SureReads = 1
  MaxOutages = 1
  NewSensor = TRUE
  StartsUp = TRUE
  MaxInbox = 2

INVARIANTS
  TelemetryTypeOK
  AtMostOneRow
  AcceptedIsKept

PROPERTIES
  ImplementsDelivery

CHECK_DEADLOCK FALSE
