SPECIFICATION ModalSpec
CONSTANTS
  Request = {"true", "false"}
  Key = {k1, k2, k3, k4}
  Call = {c1, c2}
  Null = Null
  LockTimeout = 2
  RequestTime = 1
  Patient = TRUE
  MaxFaults = 1
CHECK_DEADLOCK FALSE
INVARIANT MeetingIsCreatedOnce
