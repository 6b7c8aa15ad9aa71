SPECIFICATION Spec
CONSTANTS
  Handler = {h1, h2}
  topic = topic
  password = password
  old = old
  new = new
  Field = {topic, password}
  Password = password
  Val = {old, new}
  Payload <- Updates
  Stamp = {s1, s2, s3, s4}
  Null = Null
  Absent = Absent
  MaxTime = 1
  MaxEvents = 2
  MaxRequests = 1
  MaxRepeats = 1
SYMMETRY Symmetry
INVARIANTS TypeOK InSync DeletedIsTrue
PROPERTIES CompletedUpdateWasApplied NeverBackwards
CHECK_DEADLOCK FALSE
