SPECIFICATION Spec
CONSTANTS
  Instances = {i1, i2}
  Wait = TRUE
  MaxRequests = 1
  Contexts = {"apple-container", "other"}
  Sockets = {"s1", "s2"}
  MaxCommands = 4
  MaxOutput = 5
  MaxRead = 3
  Capacity = 2
  EntryNames <- MCEntryNames
  MaxEntries = 2
  MaxTransfers = 1
  Versions = {"v1.47"}
  RouteIds <- MCRouteIds
CHECK_DEADLOCK FALSE
INVARIANTS
  TypeOK
  ServingIsReachable
  LeftoverIsHarmless
  EndsAreTrue
  SelectionExists
  ClientCanDecode
  TransferIsSound
  ExtractionIsSound
  EveryRouteIsReached
PROPERTIES
  InterruptEndsServe
  ServeComesUp
  AttachedOutputAppears
