SPECIFICATION Spec
CONSTANTS
  Process = {p1, p2, p3}
  Request = {r1, r2}
  Admin = {a1}
  NoProcess = NoProcess
  Concurrency = 1
  MinProcesses = 1
  MaxProcesses = 3
  MaxRequests = 0
  MaxQueue = 0
  MaxOobw = 1
  OobwRequests = {r1, r2}
  StickyRequests = {}
  Rooms = {1, 3}
  MaxRestarts = 0
SYMMETRY Symmetry
INVARIANTS
  OobwTrackedOnce
  OobwRunsAlone
  WaitersAreNotRoutable
PROPERTIES
  KeepsProspects
  FirstComeFirstServed
CHECK_DEADLOCK FALSE
