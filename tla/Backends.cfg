SPECIFICATION MCSpec
CONSTANTS
  Clients = {c1}
  Ids <- MCIds
  Execs = {e1}
  Names <- MCNames
  DefaultNames = {"compat-18"}
  Abbrev <- MCAbbrev
  Nothing = Nothing
  ImageRefs <- MCImageRefs
  NetworkIds <- MCNetworkIds
  NetworkNames <- MCNetworkNames
  VolumeNames = {"v1"}
  ExitCodes = {0, 1, 137}
  Users = {u1, u2}
  ObjectNames = {"data", "validation"}
  Wording <- MCWording
  WithColon = {"validation"}
  MaxAsks = 3
CHECK_DEADLOCK FALSE
INVARIANTS
  PredefinedStay
  ExitStatusIsTrue
  AnswersAreTrue
PROPERTIES
  FullIdIsExact
  ImplementsLife
  RemovalIsExact
