SPECIFICATION FairSpec
CONSTANTS
  Jobs = {j1}
  Workers = {w1}
  WorkerName <- MCWorkerName
  NoName = ""
  NoJob = NoJob
  MaxAttempts = 2
  MaxClock = 3
  MaxFaults = 1
PROPERTIES JobsSettle
CHECK_DEADLOCK FALSE
