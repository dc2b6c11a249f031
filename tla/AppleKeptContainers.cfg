SPECIFICATION Spec
CONSTANTS
  Clients = {c1, c2, c3}
  Names = {n1}
  Ops <- KeptOps
  Patient = TRUE
  MaxRequests = 6
  MaxSessions = 3
  MaxOutput = 1
  MaxRestarts = 0
CHECK_DEADLOCK FALSE
SYMMETRY SymmetricClients
INVARIANT WaitSeesTheEnd
PROPERTIES
  WaitNotEarly
  ExitedIsTrue
