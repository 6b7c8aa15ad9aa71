SPECIFICATION FairSpec
CONSTANTS
  OpId = {o1, o2}
  Token = {t1, t2}
  Request = {r1}
  Worker = {w1}
  topic = topic
  password = password
  old = old
  new = new
  Field = {topic, password}
  Val = {old, new}
  Password = password
  Payload <- Payloads
  Null = Null
  Absent = Absent
  Orphan = Orphan
  MaxAttempts = 3
  MaxJobs = 1
  MaxFaults = 1
PROPERTIES
  PendingIsSettled
CHECK_DEADLOCK FALSE
