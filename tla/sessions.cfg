SPECIFICATION MCSpec
CONSTANTS
  Users = {a, b}
  Devices = {d1, d2}
  Ids = {s1, s2}
  Subscriptions = {b1}
  Conns = {k1, k2}
  ChallengeTTL = 0
  MaxTime = 1
  NULL = NULL
  Accounts = {a, b}
  Jobs = {k1, k2, k3}
  Batches <- MCBatches
  MaxNow = 1
SYMMETRY Symmetry
INVARIANTS LoginIsWhole StateIsOneSession SubscriptionBacked ReplacedIsGone FetchedIsLatest
CHECK_DEADLOCK FALSE
