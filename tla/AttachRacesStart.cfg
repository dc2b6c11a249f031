SPECIFICATION CoopSpec
CONSTANTS
  Attachers = {a1}
  Followers = {}
  Starters = {s1}
  Waiters = {w1}
  Inspectors = {}
  Payloads = {p}
  ExitStatus = {ok, failed}
  StartFailed = StartFailed
  NoResult = NoResult
  NoReader = NoReader
  Ordered = FALSE
  MaxOutput = 1
CHECK_DEADLOCK FALSE
PROPERTY WaitersAnswered
