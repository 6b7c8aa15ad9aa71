SPECIFICATION SpecWithUpdate
CONSTANTS
  OpId = {o1, o2}
  Token = {t1, t2}
  ZoomId = {m1}
  Recoverer = {r1}
  Null = Null
  MaxAttempts = 3
  MaxFaults = 0
PROPERTIES
  OldRequestLeavesNewerOperation
CHECK_DEADLOCK FALSE
