CONSTANTS
  Instance = {i1}
  Delivery = {1}
  WebhookOf <- OneWebhook
  None = None
  MaxAttempts = 2
  RetryBatchSize = 1
  RecentDeliveries = 1
  MaxCrashes = 1
  MaxRedisErrors = 0
SPECIFICATION Spec
INVARIANT RetrySurvives
CHECK_DEADLOCK FALSE
