CONSTANTS
  Instance = {i1, i2}
  None = None
  LeaseTtlMs = 9
  RenewIntervalMs = 3
  CheckIntervalMs = 1
  CommandTimeoutMs = 1
  Lag = 1
  MaxDisturbances = 3
SPECIFICATION FairSpec
INVARIANTS LeaderHoldsLease JobRunsUnderLease FailoverBound
PROPERTY LeadershipReturns
