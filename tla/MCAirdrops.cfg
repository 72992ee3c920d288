CONSTANTS
  Request = {r1, r2}
  Worker = {w1, w2}
  Address = {x1}
  None = None
  MaxLedger = 2
  LedgerStaleness = 1
  CacheDeclared = TRUE
  IntervalSeconds = 30
  MaxFaults = 1
SPECIFICATION FairSpec
INVARIANT PaidAndAnnouncedOnce
PROPERTIES ExpiresOnlyWhenDue ExpiresEventually
CHECK_DEADLOCK FALSE
