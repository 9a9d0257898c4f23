SPECIFICATION Spec
CONSTANTS
  Conns = {c1, c2}
  Events = {1}
  Notifiers = {n1, n2}
  AckTimeout = 1
  PullLimit = 1
  MaxTime = 1
  MayFail = TRUE
SYMMETRY Symmetry
CHECK_DEADLOCK FALSE
INVARIANTS NotifyNeverPanics
