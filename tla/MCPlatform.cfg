CONSTANTS
  Alert = {a1}
  AlertType = {"change_pct"}
  Evaluation = {v1, v2}
  NoAlert = NoAlert
  MaxAlertFaults = 1
  Socket = {s1, s2, s3}
  Ip = {i1, i2}
  Asset = {x, y}
  MaxConnections = 2
  MaxConnectionsPerIp = 1
  MaxAssetsPerClient = 1
  MaxMissedPings = 1
  Drainer = {d1, d2}
  NoIp = NoIp
  Instance = {n1, n2}
  Watched = {w1, w2}
  Queried = {q1}
  MaxEntries = 2
  Concurrency = 1
  Nobody = Nobody
  MaxWarmFaults = 1
  Sid = {s1}
  Caller = {c1, c2}
  AbsoluteLifetime = 1
  IdleTimeout = 1
  Throttle = 1
  ClockSkew = 1
  NoSession = NoSession
  SessionHorizon = 3
  MaxSessionFaults = 1
  MaxTokens = 3
  MaxPresented = 3
  Client = {c1, c2}
  MaxTokenFaults = 1
  Attempt = {a1, a2}
  MaxFailedAttempts = 2
  LockoutDuration = 2
  Window = 2
  LoginHorizon = 5
  Req = {r1, r2, r3}
  LimitMax = 2
  MaxBucket = 1
  MaxGuardFaults = 1
  Job = {j1, j2}
  Poll = {p1, p2}
  JobConcurrency = 1
  MaxJobRetries = 2
  NoJob = NoJob
  MaxQueueFaults = 2
  Operation = {o1, o2, o3}
  MaxConcurrentOps = 1
  MaxClients = 2
  Row = {1, 2}
  Session = {c1, c2}
  Free = Free
  TrxRetries = 1
  Editor = {e1, e2}
  MaxVersion = 3
  MaxDbFaults = 2
  BackgroundJob = {b1, b2}
  Query = {q1}
  Idempotent = {b1}
  MaxAttempts = 2
  MaxQueryRetries = 1
  DeadLetterCap = 1
  MaxRounds = 2
  Shutdown = {h1, h2}
  MaxDeliveries = 3
  MaxMetricsFaults = 2
  MaxLifecycleFaults = 1
  CacheKey = {u1, u2}
  LongLived = {u1}
  ShortTtl = 1
  LongTtl = 2
  CachedRequest = {w3}
  WarmUp = {w4}
  Invalidator = {v3}
  MaxCacheFaults = 1
  MaxMigration = 2
  Destructive = {2}
  Runner = {m1, m2}
  NoRunner = NoRunner
  MaxMigrationFaults = 2
  RowId = {1, 2, 3}
  SortValue = {0, 1, 2}
  Precision = 2
  PageLimit = 1
  NoCursor = NoCursor
  Borrower = {w5, w6}
  Closer = {k1, k2}
  PoolMax = 1
  NoPool = NoPool
  MaxPools = 3
  MaxRequests = 5
SPECIFICATION Spec
INVARIANTS
  AlertsFireAsArmed SubscriptionsConsistent WarmUpSafe SessionsEnd TokensRotate
  LoginsContained RequestsGuarded JobsSettle PermitsExact DatabaseSafe
  ProcessEndsWell InvalidationsComplete AuditTruthful PagesExact
CHECK_DEADLOCK FALSE
