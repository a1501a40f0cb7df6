SPECIFICATION Spec
CONSTANTS
  Process = {1}
  Session = {1, 2}
  Concurrency = 2
  Client = {1, 2}
  Request = {1, 2, 3}
  NoClient = NoClient
  NoRequest = NoRequest
  NoSession = NoSession
  NoProcess = NoProcess
  MaxTry = 2
  GracefulExit = TRUE
  Oobw = FALSE
  MaxAccepted = 2
INVARIANT LingeringRequestsAreCounted
CHECK_DEADLOCK FALSE
