SPECIFICATION MCSpec
CONSTANTS
  NULL = NULL
  Users = {a, b}
  Requests = {r1, r2}
  Calls = {c1, c2, c3}
  Writers = {c1, c2, c3}
  Epochs = {1, 2}
  None = None
  Old = Old
SYMMETRY Symmetry
INVARIANTS FriendsSymmetric
CHECK_DEADLOCK FALSE
