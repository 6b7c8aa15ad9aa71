SPECIFICATION Spec
CONSTANTS
  Key = {k1, k2}
  Plan = {monthly, yearly}
  Request = {r1, r2}
  Worker = {w1, w2}
  Null = Null
  MaxAttempts = 2
  MaxFaults = 1
INVARIANTS TypeOK OneChangeAtATime CompletedHappened InStep
PROPERTIES LiveClaimIsOwners OperationEnds
CHECK_DEADLOCK FALSE
