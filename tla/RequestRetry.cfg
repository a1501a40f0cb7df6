SPECIFICATION FairSpec
CONSTANTS
  Process = {1, 2}
  Session = {1, 2}
  Concurrency = 1
  Client = {1}
  Request = {1, 2}
  NoClient = NoClient
  NoRequest = NoRequest
  NoSession = NoSession
  NoProcess = NoProcess
  MaxTry = 2
  GracefulExit = FALSE
  Oobw = FALSE
  MaxAccepted = 2
INVARIANTS
  TypeOK
PROPERTIES
  CheckoutsEnd
CHECK_DEADLOCK FALSE
