SPECIFICATION Spec
CONSTANTS
  r1 = r1
  r2 = r2
  r3 = r3
  r4 = r4
  Request = {r1, r3}
  App <- MCApp
  StickyRequests = {}
  Order <- MCOrder
  Maxes = {1}
  MinProcesses = 1
  MaxProcesses = 0
  Events = {}
INVARIANTS
  WaitersHaveProspects
