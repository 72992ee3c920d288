CONSTANTS
  Process = {p1, p2}
  Caller = {c1}
  Source = {dex, gecko}
  Keyed = {gecko}
  Price = {10, 30}
  AnomalyThreshold = 20
  NoPrice = NoPrice
  MaxMoves = 1
  MaxOracleFaults = 1
  Node = {n1, n2}
  Request = {r1, r2}
  Refresher = {b1}
  Token = {t1, t2, t3, t4}
  NoToken = NoToken
  MaxKeyFaults = 1
  Call = {call1, call2, call3}
  FailureThreshold = 2
  SuccessThreshold = 2
  TimeoutMs = 2
  WindowMs = 2
  TrialCount = 2
  None = None
SPECIFICATION Spec
INVARIANTS LockKept ProbeSlotsExact DecisionsTakenAtOnce
PROPERTIES CallersAnswered LastingMoveServed CooldownRespected Recovers
CHECK_DEADLOCK FALSE
