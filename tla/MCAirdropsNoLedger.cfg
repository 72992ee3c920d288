CONSTANTS
  Request = {r1, r2}
  Worker = {w1}
  Address = {x1}
  None = None
  MaxLedger = 2
  LedgerStaleness = 1
  CacheDeclared = FALSE
  IntervalSeconds = 30
  MaxFaults = 1
SPECIFICATION FairSpec
PROPERTY ExpiresEventually
CHECK_DEADLOCK FALSE
