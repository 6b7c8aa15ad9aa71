SPECIFICATION RunbookSpec
CONSTANTS
  Event = {e1}
  Worker = {w1}
  Token = {t1, t2}
  Null = Null
  MaxAttempts = 2
  LeaseTime = 2
  JobTimeout = 1
  Backoff = 1
  Limit = 1
  MaxQueued = 1
  MaxLosses = 0
  MaxRetries = 1
PROPERTIES
  ManualRetryIsProcessed
