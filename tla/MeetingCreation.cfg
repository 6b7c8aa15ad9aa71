SPECIFICATION FairSpec
CONSTANTS
  OpId = {o1}
  Token = {t1, t2}
  ZoomId = {m1, m2}
  Recoverer = {r1, r2}
  Null = Null
  MaxAttempts = 3
  MaxFaults = 1
INVARIANTS
  TypeOK
  NeverInLimbo
  EstablishedNeverFails
PROPERTIES
  AttachedForGood
  OperatorIsLeftAlone
  CreationIsSettled
CHECK_DEADLOCK FALSE
