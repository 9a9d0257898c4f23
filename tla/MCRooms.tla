------------------------------ MODULE MCRooms -------------------------------
(***************************************************************************)
(* Rooms, and DirectRooms with the same users and calls.  They share no    *)
(* rows: a room is one or the other.  part says which of them runs.        *)
(***************************************************************************)
EXTENDS Rooms, DirectRooms, TLC

VARIABLE part

\* The part that does not run starts in one state.
MCInit ==
  /\ Init /\ DirectInit /\ part \in {"rooms", "direct"}
  /\ IF part = "rooms" THEN friends ELSE visibility = "public"

MCNext ==
  /\ \/ part = "rooms" /\ Next /\ UNCHANGED directVars
     \/ part = "direct" /\ DirectNext /\ UNCHANGED vars
  /\ UNCHANGED part

MCSpec == MCInit /\ [][MCNext]_<<vars, directVars, part>>

\* Users, invitations and calls of each kind play the same role everywhere.
Symmetry == Permutations(Users) \cup Permutations(Invitations) \cup Permutations(Calls)
              \cup Permutations(Sends) \cup Permutations(Fetches)
=============================================================================
