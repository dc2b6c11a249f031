SPECIFICATION Spec
CONSTANTS
  Attachers = {a1, a2}
  Followers = {f1}
  Starters = {s1}
  Waiters = {w1}
  Inspectors = {i1}
  Payloads = {p, q}
  ExitStatus = {ok, failed}
  StartFailed = StartFailed
  NoResult = NoResult
  NoReader = NoReader
  Ordered = FALSE
  MaxOutput = 2
CHECK_DEADLOCK FALSE
SYMMETRY Alike
INVARIANTS
  TypeOK
  StreamIsPrefix
  EndedMeansComplete
  WaitTellsTheTruth
  NoReaderForgotten
PROPERTIES
  OutputFinal
  ImplementsLog
  ImplementsLife
