SPECIFICATION MCSpec
CONSTANTS
  a = a
  b = b
  k1 = k1
  Users = {a, b}
  Devices = {d1, d2}
  Conns = {k1}
  UserOf <- Only
  Packets = 2
  Kinds = {"message", "commit", "external"}
  MaxChanges = 2
  MaxCrashes = 1
  Rows = {1, 2, 3, 4}
  Keys = {1, 2}
  Limits = {0, 2, 201}
  BatchSize = 2
  Recorders = {c1, c2}
  Amounts = {0, 1, 3}
  Horizon = 13
INVARIANTS AnsweredReachesAll SenderOrder StayedIsSeenOnce UsageIsSum
CHECK_DEADLOCK FALSE
