SPECIFICATION MCSpec
CONSTANTS
  Loops = {dispatcher, janitor, push}
  Ports = 3
  IsTCP <- TCPFirst
  Events = {e1, e2}
  Pushable = {e1}
  Callers = {c1, c2}
  QueueSize = 1
  MaxAttempts = 2
  MaxCrashes = 1
  MaxChanges = 2
  Log = {1, 2}
  Pullers = {p1, p2}
  PullLimit = 1
  MaxLosses = 2
INVARIANTS AtMostOnePush ExitClosesListeners
PROPERTIES QueuedIsProcessed LoggedIsReceived DeadListenerStopsServer FailedLoopStopsServer
CHECK_DEADLOCK FALSE
