SPECIFICATION MCSpec
CONSTANTS
  Events = {e1, e2}
  Claimers = {dispatcher, pull}
  Dispatcher = dispatcher
  Ackers = {a1}
  NULL = NULL
  AckTimeout = 1
  TTL = 1
  Retention = 1
  MaxAttempts = 1
  MaxTime = 2
  LastAppend = 1
  MaxAppending = 2
  Crashes = FALSE
  Janitor = TRUE
  Autocommit = TRUE
PROPERTIES HeadMovesOn TransactionsEnd
