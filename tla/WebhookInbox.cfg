SPECIFICATION FairSpec
CONSTANTS
  Event = {e1, e2}
  Worker = {w1, w2}
  Token = {t1, t2, t3}
  Null = Null
  MaxAttempts = 3
  LeaseTime = 2
  JobTimeout = 1
  Backoff = 1
  Limit = 1
  MaxQueued = 1
  MaxLosses = 1
INVARIANTS
  TypeOK
  NoSimultaneousProcessing
  WaitingRowsHaveAttempts
PROPERTIES
  LiveClaimIsOwners
  ImplementsDurableInbox
  AcceptedIsSettled
