SPECIFICATION Spec
CONSTANTS
  Events = {e1, e2}
  Claimers = {dispatcher, pull}
  Dispatcher = dispatcher
  Ackers = {a1}
  NULL = NULL
  AckTimeout = 1
  TTL = 2
  Retention = 1
  MaxAttempts = 2
  MaxTime = 2
  LastAppend = 1
  MaxAppending = 2
  Crashes = TRUE
  Janitor = TRUE
  Autocommit = TRUE
SYMMETRY Symmetry
INVARIANTS ClaimOwnsHead InflightIsHead AttemptsBounded
PROPERTIES NeverRequeued EarlyResendIsRaced ImplementsQueue
