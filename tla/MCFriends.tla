----------------------------- MODULE MCFriends ------------------------------
(***************************************************************************)
(* Friends on small sets of users, requests and calls, and RoomRecords on  *)
(* the same calls.  The two share no rows: part says which of them runs.   *)
(***************************************************************************)
EXTENDS Friends, RoomRecords, TLC

VARIABLE part

\* The part that does not run starts in one state.
MCInit ==
  /\ Init /\ RecInit /\ part \in {"friends", "records"}
  /\ part = "friends" => permission = None

MCNext ==
  /\ \/ part = "friends" /\ Next /\ UNCHANGED recVars
     \/ part = "records" /\ RecNext /\ UNCHANGED vars
  /\ UNCHANGED part

MCSpec == MCInit /\ [][MCNext]_<<vars, recVars, part>>

\* Users, requests and calls play the same role everywhere.
Symmetry == Permutations(Users) \cup Permutations(Requests) \cup Permutations(Calls)
=============================================================================
