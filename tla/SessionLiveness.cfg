SPECIFICATION CoopSpec
CONSTANTS
  Attachers = {a1}
  Followers = {f1}
  Starters = {s1}
  Waiters = {w1}
  Inspectors = {i1}
  Payloads = {p}
  ExitStatus = {ok, failed}
  StartFailed = StartFailed
  NoResult = NoResult
  NoReader = NoReader
  Ordered = TRUE
  MaxOutput = 2
CHECK_DEADLOCK FALSE
PROPERTIES
  WaitersAnswered
  StreamsEnd
  RequestsAnswered
