CONSTANTS
  Instance = {i1, i2}
  Delivery = {1, 2}
  WebhookOf <- OneWebhook
  None = None
  MaxAttempts = 2
  RetryBatchSize = 2
  RecentDeliveries = 1
  MaxCrashes = 1
  MaxRedisErrors = 1
SPECIFICATION FairSpec
INVARIANTS ExclusiveAttempt AcceptedOnce AttemptsBounded StatusIndexExact
PROPERTIES TerminalIsFinal EventuallyTerminal ImplementsPromise
CHECK_DEADLOCK FALSE
