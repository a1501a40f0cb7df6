SPECIFICATION Spec
CONSTANTS
  Process = {p1, p2, p3}
  Request = {r1, r2}
  Admin = {}
  NoProcess = NoProcess
  Concurrency = 1
  MinProcesses = 1
  MaxProcesses = 2
  MaxRequests = 1
  MaxQueue = 0
  MaxOobw = 1
  OobwRequests = {}
  StickyRequests = {}
  Rooms = {2}
  MaxRestarts = 0
SYMMETRY Symmetry
INVARIANTS
  DetachesWhenAlive
CHECK_DEADLOCK FALSE
