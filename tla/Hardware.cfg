SPECIFICATION HardwareSpec
CONSTANTS
  NumRequests = 3
  Payloads <- HardwarePayloads
  MaxRestarts = 1
  Null = Null
  Shots = 3
  Devices = {d1, d2}
  MaxTime = 2
  Asks <- HardwareAsks
INVARIANTS
  HardwareTypeOK
  LogTellsTheTruth
  StatusFollowsReports
  LatestIsNewest
  AlertFromReadings
  SnapshotServed
PROPERTIES
  Settles
CHECK_DEADLOCK FALSE
