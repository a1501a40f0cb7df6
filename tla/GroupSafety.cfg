SPECIFICATION Spec
CONSTANTS
  Process = {p1, p2, p3}
  Request = {r1, r2}
  Admin = {a1}
  NoProcess = NoProcess
  Concurrency = 2
  MinProcesses = 1
  MaxProcesses = 2
  MaxRequests = 2
  MaxQueue = 1
  MaxOobw = 1
  OobwRequests = {}
  StickyRequests = {r1, r2}
  Rooms = {1, 3}
  MaxRestarts = 1
SYMMETRY Symmetry
INVARIANTS
  TypeOK
  SessionsOnLiveProcesses
  SpawnBookkeeping
  DisableWaitlistMatches
  DetachedAreWatched
  ShutDownGroupIsEmpty
  WithinLimits
PROPERTIES
  DetachedForGood
CHECK_DEADLOCK FALSE
