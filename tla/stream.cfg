SPECIFICATION FairSpec
CONSTANTS
  Conns = {c1}
  Events = {1, 2}
  Notifiers = {n1, n2}
  AckTimeout = 1
  PullLimit = 1
  MaxTime = 2
  MayFail = TRUE
CHECK_DEADLOCK FALSE
INVARIANTS  NoLeakedSubscription
PROPERTIES OncePerLease 
