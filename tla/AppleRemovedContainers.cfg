SPECIFICATION CoopSpec
CONSTANTS
  Clients = {c1, c2}
  Names = {n1}
  Ops <- RemovingOps
  Patient = FALSE
  MaxRequests = 4
  MaxSessions = 4
  MaxOutput = 1
  MaxRestarts = 1
CHECK_DEADLOCK FALSE
PROPERTIES
  SessionsLive
  EventuallyAnswered
