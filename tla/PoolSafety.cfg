SPECIFICATION Spec
CONSTANTS
  r1 = r1
  r2 = r2
  r3 = r3
  r4 = r4
  Request = {r1, r2, r3, r4}
  App <- MCApp
  StickyRequests = {r1}
  Order <- MCOrder
  Maxes = {1, 2}
  MinProcesses = 1
  MaxProcesses = 0
  Events = {"restart", "detachProcess", "detachGroup"}
INVARIANTS
  TypeOK
  AnsweredOnce
  OnlyStickyMeetIdle
  SpawnCountsOne
PROPERTIES
  GrowsWithinMax
  WaitlistKeepsOrder
