SPECIFICATION Spec
CONSTANTS
  OpId = {o1, o2, o3}
  Token = {t1, t2, t3}
  Request = {r1, r2}
  Worker = {w1, w2}
  topic = topic
  password = password
  old = old
  new = new
  Field = {topic, password}
  Val = {old, new}
  Password = password
  Payload <- Payloads
  Null = Null
  Absent = Absent
  Orphan = Orphan
  MaxAttempts = 3
  MaxJobs = 2
  MaxFaults = 2
SYMMETRY Symmetry
INVARIANTS
  TypeOK
  ClaimHasLease
  NeverStranded
  OneCurrentWriter
PROPERTIES
  ImplementsMeetingContract
CHECK_DEADLOCK FALSE
