SPECIFICATION CoopSpec
CONSTANTS
  Execs = {e1}
  Starters = {r1, r2, r3}
  Inspectors = {i1}
  Detached = {r3}
  Upgraded = {r2}
  Nobody = Nobody
  MaxOutput = 1
CHECK_DEADLOCK FALSE
INVARIANTS
  EndedMeansComplete
PROPERTIES
  ExecsLive
  StoppedIsTrue
  RequestsServed
  EndsWithRequest
