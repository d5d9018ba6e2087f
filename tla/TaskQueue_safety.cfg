SPECIFICATION FairSpec
CONSTANTS
  Jobs = {j1, j2}
  Workers = {w1, w2}
  WorkerName <- MCWorkerName
  NoName = ""
  NoJob = NoJob
  MaxAttempts = 2
  MaxClock = 3
  MaxFaults = 1

INVARIANTS HeldExclusively SucceedsAtMostOnce
PROPERTIES JobsSettleUndisturbed BackoffRespected ImplementsLifecycle
CHECK_DEADLOCK FALSE
