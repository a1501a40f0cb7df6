SPECIFICATION FairSpec
CONSTANTS
  Process = {p1, p2}
  Request = {r1, r2}
  Admin = {a1}
  NoProcess = NoProcess
  Concurrency = 1
  MinProcesses = 1
  MaxProcesses = 2
  MaxRequests = 0
  MaxQueue = 0
  MaxOobw = 1
  OobwRequests = {r1}
  StickyRequests = {}
  Rooms = {2}
  MaxRestarts = 1
PROPERTIES
  WaitersAreAnswered
  DetachedAreCleanedUp
  OobwEnds
CHECK_DEADLOCK FALSE
