SPECIFICATION FairSpec
CONSTANTS
  Execs = {e1, e2}
  Starters = {r1}
  Inspectors = {i1}
  Detached = {}
  Upgraded = {r1}
  Nobody = Nobody
  MaxOutput = 1
CHECK_DEADLOCK FALSE
PROPERTY RequestsServed
