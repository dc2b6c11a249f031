SPECIFICATION Spec
CONSTANTS
  Clients = {c1}
  Names = {n1}
  Ops = {"create", "start", "wait"}
  Patient = TRUE
  MaxRequests = 4
  MaxSessions = 4
  MaxOutput = 0
  MaxRestarts = 1
CHECK_DEADLOCK FALSE
PROPERTY WaitNotEarly
