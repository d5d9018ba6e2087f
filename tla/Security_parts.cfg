SPECIFICATION AllSpec
CONSTANTS
  Reqs = {r1, r2}
  Operations <- AllOperations
  Mixes <- Pairs
  MaxRequests = 3
  MaxAttempts = 2
  LockTime = 1
  Horizon = 2
  Servers = {s1, s2}
  MaxVisits = 3
  MaxNow = 3
  MaxFailures = 2
  ManyAttempts = 2
  Window = 1
  AttemptsBlock = 1
  BlockDuration = 2
  MaxDuration = 3
  RateWindow = 1
  RateLimit = 2
  RiskLimit = 3
  SafeRisk = 1
  BaseRisk = 1
  MaxRisk = 2
  Fades = {0, 10}
  Logins = {k1, k2}
  Devices = {d1}
  Addresses = {a1, a2}
  Requests = {q1, q2, q3}
  MaxTries = 2
  ManySessions = 1
  SessionWindow = 0
  Threshold = 2
  EventWindow = 0
  Retention = 0
  MaxTime = 2
SYMMETRY Symmetric
INVARIANTS
  LastWordHolds CounterExact ConfirmationsHold TwinsOnlyByOverlap
  BlockHolds AttackIsBlocked CountersExact NewDevicesAreTold RepeatedRequestsAreTold
CHECK_DEADLOCK FALSE
