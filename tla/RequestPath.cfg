SPECIFICATION LiveSpec
CONSTANTS
  Process = {1}
  Session = {1, 2}
  Concurrency = 2
  Client = {1, 2}
  Request = {1, 2, 3}
  NoClient = NoClient
  NoRequest = NoRequest
  NoSession = NoSession
  NoProcess = NoProcess
  MaxTry = 2
  GracefulExit = TRUE
  Oobw = TRUE
  MaxAccepted = 2
INVARIANTS
  ConnectionsAccounted
  SessionHasOneOwner
  CallbacksAreSafe
  ReferencesAreExact
PROPERTIES
  ShutdownFinishes
CHECK_DEADLOCK FALSE
