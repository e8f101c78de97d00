SPECIFICATION MCSpec
CONSTANTS
  Instance = {i1, i2}
  Fingerprint = {f1, f2}
  MaxVersion = 2
  None = None
  Lease = 5
  RenewInterval = 1
  RenewRetry = 1
  RenewTimeout = 1
  SafetyWindow = 1
  HttpShutdown = 1
PROPERTIES NothingStuck
INVARIANTS WorkUnderLease WorkOnOwnSchema
CHECK_DEADLOCK FALSE
