SPECIFICATION FairSpec
CONSTANTS
  Request = {r1, r2}
  Key = {k1, k2, k3}
  Call = {c1, c2}
  Null = Null
  LockTimeout = 2
  RequestTime = 1
  Patient = TRUE
  MaxFaults = 1
CHECK_DEADLOCK FALSE
INVARIANTS
  TypeOK
  TakesEffectOnce
  OneRunPerKey
  NeverMismatched
PROPERTY SubmitIsAnswered
