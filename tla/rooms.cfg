SPECIFICATION MCSpec
SYMMETRY Symmetry
CONSTANTS
  Users = {u1, u2}
  Invitations = {i1}
  Calls = {c1, c2}
  Visibilities = {"public", "private"}
  Roles = {1, 2}
  NULL = NULL
  Pair = {u1, u2}
  Guests = {g}
  Creations = {c1, c2}
  Sends = {s1, s2}
  Fetches = {f1}
  None = None
INVARIANTS AcceptedIsMember PrivateByInvitation OneRoomForPair LiveRoomIsFound ToldIsStored FetchedIsMine
PROPERTIES DeletedRoomClosed ErasedIsDead
CHECK_DEADLOCK FALSE
