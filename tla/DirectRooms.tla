---------------------------- MODULE DirectRooms -----------------------------
(***************************************************************************)
(* Direct rooms: the room of one pair of users, found through the table    *)
(* direct_rooms, whose UNIQUE (left, right) key allows one row per pair,   *)
(* and the MLS welcomes kept for it in chat_room_welcomes, one row per     *)
(* room and target.  Calls of CreateDirectRoom by either user overlap,     *)
(* friendships end, and the room is left and (softly) deleted; neither a   *)
(* direct_rooms row nor a welcome is ever removed.                         *)
(*                                                                         *)
(* Each call would create the room whose id is the call itself: uuidGen.New*)
(* is fresh. One direct_rooms key, that of the pair, is modelled, and the  *)
(* welcomes the pair send each other.                                      *)
(***************************************************************************)
EXTENDS Naturals, FiniteSets

CONSTANTS
  Pair,      \* the two users
  Guests,    \* users they may invite to their room
  Creations, \* calls of CreateDirectRoom
  Sends,     \* calls of SendWelcome, and the welcomes they carry
  Fetches,   \* calls of FetchWelcome
  None

ASSUME DirectRoomsAssumption ==
  /\ None \notin Creations \cup Pair \cup Sends
  /\ Cardinality(Pair) = 2 /\ Pair \cap Guests = {}

VARIABLES
  friends,   \* the pair are friends, in both directions
  room,      \* chat_rooms: none, live, deleted
  roomOwner, \* owner_public_key of each room
  members,   \* chat_members with left_at IS NULL
  direct,    \* direct_rooms: the room ids of the rows with the pair's key
  create,    \* the step of each creation
  caller,    \* its caller
  answer,    \* the room the call has answered with
  stored,    \* chat_room_welcomes: the welcome of each room and target
  announced, \* sends whose mlsWelcomeReceived is appended
  send,      \* SendWelcome: step, target and the room to store the welcome for
  fetch      \* FetchWelcome: step, caller, room and the welcome answered

pairVars == <<friends, room, roomOwner, members, direct>>
createVars == <<create, caller, answer>>
welcomeVars == <<stored, announced, send, fetch>>
directVars == <<pairVars, createVars, welcomeVars>>

DirectInit ==
  /\ friends \in BOOLEAN
  /\ room = [c \in Creations |-> "none"]
  /\ roomOwner = [c \in Creations |-> None]
  /\ members = [c \in Creations |-> {}]
  /\ direct = {}
  /\ create = [c \in Creations |-> "start"]
  /\ caller = [c \in Creations |-> None]
  /\ answer = [c \in Creations |-> None]
  /\ stored = [r \in Creations |-> [u \in Pair |-> None]]
  /\ announced = {}
  /\ send = [s \in Sends |-> [step |-> "start", to |-> None, into |-> None]]
  /\ fetch = [f \in Fetches |-> [step |-> 0, by |-> None, from |-> None, got |-> None]]

\* FindDirectRoomIDByUsers: the rows of the pair whose room is not deleted.
Found == {r \in direct : room[r] = "live"}

\* The last steps of a fetch.
Answered == 6
Refused == 7

CreateGoto(c, step) == create' = [create EXCEPT ![c] = step]

-----------------------------------------------------------------------------
(* CreateDirectRoom *)

\* AreFriends; a pair that are not friends are refused.
CheckFriends(c, u) ==
  /\ create[c] = "start"
  /\ caller' = [caller EXCEPT ![c] = u]
  /\ CreateGoto(c, IF friends THEN "find" ELSE "forbidden")
  /\ UNCHANGED <<pairVars, answer, welcomeVars>>

\* A lookup that finds a room answers with it.
Lookup(c, next) ==
  /\ \/ /\ \E r \in Found : answer' = [answer EXCEPT ![c] = r]
        /\ CreateGoto(c, "existed")
     \/ /\ Found = {}
        /\ CreateGoto(c, next)
        /\ answer' = answer
  /\ UNCHANGED <<pairVars, caller, welcomeVars>>

FindOutside(c) == create[c] = "find" /\ Lookup(c, "findInTx")

\* The second lookup, inside the transaction: ErrConflict, answered the same way.
FindInTx(c) == create[c] = "findInTx" /\ Lookup(c, "insert")

\* A transaction holds an uncommitted direct_rooms row of the pair.
KeyLocked(c) == \E d \in Creations \ {c} : create[d] = "commit"

\* Mutation: the table has no unique key.
InsertUnkeyed(c) ==
  /\ create[c] = "insert"
  /\ CreateGoto(c, "commit")
  /\ UNCHANGED <<pairVars, caller, answer, welcomeVars>>

\* CreateRoom and the INSERT INTO direct_rooms, which waits for a transaction
\* that has inserted the same key, and fails when a row has it: whether the room
\* of that row is deleted does not matter. The error is not ErrConflict.
Insert(c) ==
  /\ create[c] = "insert"
  /\ ~KeyLocked(c)
  /\ CreateGoto(c, IF direct = {} THEN "commit" ELSE "failed")
  /\ UNCHANGED <<pairVars, caller, answer, welcomeVars>>

\* The second member, and the commit that makes the room visible.
Commit(c) ==
  /\ create[c] = "commit"
  /\ room' = [room EXCEPT ![c] = "live"]
  /\ roomOwner' = [roomOwner EXCEPT ![c] = caller[c]]
  /\ members' = [members EXCEPT ![c] = Pair]
  /\ direct' = direct \cup {c}
  /\ answer' = [answer EXCEPT ![c] = c]
  /\ CreateGoto(c, "created")
  /\ UNCHANGED <<friends, caller, welcomeVars>>

\* Mutation: CreateRoom's statements are not rolled back.
AbortKeepsRoom(c) ==
  /\ create[c] \in {"find", "findInTx", "insert", "commit"}
  /\ CreateGoto(c, "aborted")
  /\ room' = IF create[c] = "commit" THEN [room EXCEPT ![c] = "live"] ELSE room
  /\ UNCHANGED <<friends, roomOwner, members, direct, caller, answer, welcomeVars>>

\* The call fails at any of its statements: nothing of it stays.
Abort(c) ==
  /\ create[c] \in {"find", "findInTx", "insert", "commit"}
  /\ CreateGoto(c, "aborted")
  /\ UNCHANGED <<pairVars, caller, answer, welcomeVars>>

-----------------------------------------------------------------------------
(* What else changes the room *)

\* AcceptFriendRequest and RemoveFriend (see Friends).
ChangeFriendship ==
  /\ friends' = ~friends
  /\ UNCHANGED <<room, roomOwner, members, direct, createVars, welcomeVars>>

\* LeaveChatRoom, also of a deleted room: the UPDATE names only the member.
LeaveDirectRoom(u, r) ==
  /\ u \in members[r]
  /\ members' = [members EXCEPT ![r] = @ \ {u}]
  /\ UNCHANGED <<friends, room, roomOwner, direct, createVars, welcomeVars>>

\* AcceptChatInvitation brings back a user of the pair, or brings another one
\* (see Rooms), also of a room that was deleted after the accept had read it.
JoinByInvitation(u, r) ==
  /\ room[r] # "none"
  /\ members' = [members EXCEPT ![r] = @ \cup {u}]
  /\ UNCHANGED <<friends, room, roomOwner, direct, createVars, welcomeVars>>

\* DeleteChatRoom by its owner, member or not: deleted_at is set, and neither
\* chat_members nor direct_rooms changes.
DeleteDirectRoom(u, r) ==
  /\ room[r] = "live" /\ roomOwner[r] = u
  /\ room' = [room EXCEPT ![r] = "deleted"]
  /\ UNCHANGED <<friends, roomOwner, members, direct, createVars, welcomeVars>>

-----------------------------------------------------------------------------
(* SendWelcome and FetchWelcome *)

\* The room the welcome is kept for: the one the caller names, if it is a direct
\* room (IsDirectRoom: a direct_rooms row, and not deleted), else the one of the
\* caller and the target; {} when there is none.
ResolveRoom(u, v, requested) ==
  IF requested # None THEN {r \in Found : r = requested}
  ELSE IF u = v THEN {} ELSE Found

SendWelcome(s, u, v, requested) ==
  /\ send[s].step = "start"
  /\ \/ \E r \in ResolveRoom(u, v, requested) :
          send' = [send EXCEPT ![s] = [step |-> "store", to |-> v, into |-> r]]
     \/ /\ ResolveRoom(u, v, requested) = {}
        /\ send' = [send EXCEPT ![s] = [step |-> "append", to |-> v, into |-> None]]
  /\ UNCHANGED <<pairVars, createVars, stored, announced, fetch>>

\* Mutation: the row of a room is looked for without its target.
UpsertRoomWelcomeByRoom(s) ==
  /\ send[s].step = "store"
  /\ stored' = [stored EXCEPT ![send[s].into] = [u \in Pair |-> s]]
  /\ send' = [send EXCEPT ![s].step = "append"]
  /\ UNCHANGED <<pairVars, createVars, announced, fetch>>

\* INSERT ... ON CONFLICT (room_id, target_user_public_key) DO UPDATE
UpsertRoomWelcome(s) ==
  /\ send[s].step = "store"
  /\ stored' = [stored EXCEPT ![send[s].into][send[s].to] = s]
  /\ send' = [send EXCEPT ![s].step = "append"]
  /\ UNCHANGED <<pairVars, createVars, announced, fetch>>

\* Mutation: the event is appended while the welcome is still to be stored.
AppendWelcomeEarly(s) ==
  /\ send[s].step \in {"store", "append"} /\ s \notin announced
  /\ announced' = announced \cup {s}
  /\ send' = [send EXCEPT ![s].step = IF @ = "store" THEN "store" ELSE "accepted"]
  /\ UNCHANGED <<pairVars, createVars, stored, fetch>>

\* mlsWelcomeReceived for the target; then the call is answered.
AppendWelcome(s) ==
  /\ send[s].step = "append"
  /\ announced' = announced \cup {s}
  /\ send' = [send EXCEPT ![s].step = "accepted"]
  /\ UNCHANGED <<pairVars, createVars, stored, fetch>>

\* A statement fails: the error is answered, and a stored welcome stays.
SendFails(s) ==
  /\ send[s].step \in {"store", "append"}
  /\ send' = [send EXCEPT ![s].step = "failed"]
  /\ UNCHANGED <<pairVars, createVars, stored, announced, fetch>>

\* The checks of FetchWelcome and GetRoomWelcome, a statement each: IsDirectRoom,
\* ensureMember, IsDirectRoom again, two active members.
FetchChecks(u, r) == <<r \in Found, u \in members[r], r \in Found,
                       Cardinality(members[r]) = 2>>

FetchStart(f, u, r) ==
  /\ fetch[f].step = 0
  /\ fetch' = [fetch EXCEPT ![f] = [step |-> 1, by |-> u, from |-> r, got |-> None]]
  /\ UNCHANGED <<pairVars, createVars, stored, announced, send>>

\* A check that fails ends the call; the last one leads to the SELECT.
FetchCheck(f) ==
  /\ fetch[f].step \in 1..4
  /\ fetch' = [fetch EXCEPT ![f].step =
       IF FetchChecks(fetch[f].by, fetch[f].from)[@] THEN @ + 1 ELSE Refused]
  /\ UNCHANGED <<pairVars, createVars, stored, announced, send>>

\* The SELECT; None is ErrNotFound.
FetchWelcome(f) ==
  /\ fetch[f].step = 5
  /\ fetch' = [fetch EXCEPT ![f].step = Answered,
                            ![f].got = stored[fetch[f].from][fetch[f].by]]
  /\ UNCHANGED <<pairVars, createVars, stored, announced, send>>

-----------------------------------------------------------------------------
Step(c) ==
  \/ \E u \in Pair : CheckFriends(c, u)
  \/ FindOutside(c) \/ FindInTx(c) \/ Insert(c) \/ Commit(c) \/ Abort(c)

Welcome ==
  \/ \E s \in Sends :
       \/ \E u, v \in Pair, r \in Creations \cup {None} : SendWelcome(s, u, v, r)
       \/ UpsertRoomWelcome(s) \/ AppendWelcome(s) \/ SendFails(s)
  \/ \E f \in Fetches :
       \/ \E u \in Pair, r \in Creations : FetchStart(f, u, r)
       \/ FetchCheck(f) \/ FetchWelcome(f)

DirectNext ==
  \/ \E c \in Creations : Step(c)
  \/ Welcome
  \/ ChangeFriendship
  \/ \E u \in Pair \cup Guests, r \in Creations :
       LeaveDirectRoom(u, r) \/ JoinByInvitation(u, r) \/ DeleteDirectRoom(u, r)

DirectSpec == DirectInit /\ [][DirectNext]_directVars

-----------------------------------------------------------------------------
(* Properties *)

\* The locals of SendWelcome and FetchWelcome.
SendType == [step : {"start", "store", "append", "accepted", "failed"},
             to : Pair \cup {None}, into : Creations \cup {None}]
FetchType == [step : 0..7, by : Pair \cup {None}, from : Creations \cup {None},
              got : Sends \cup {None}]

\* Every variable holds a value of the column or local it stands for: a room's
\* owner is a user of the pair and an answer is a room (CreateDirectRoom).
DirectTypeOK ==
  /\ friends \in BOOLEAN
  /\ room \in [Creations -> {"none", "live", "deleted"}]
  /\ roomOwner \in [Creations -> Pair \cup {None}]
  /\ members \in [Creations -> SUBSET (Pair \cup Guests)]
  /\ direct \subseteq Creations
  /\ create \in [Creations -> {"start", "find", "findInTx", "insert", "commit", "existed",
                              "created", "forbidden", "failed", "aborted"}]
  /\ caller \in [Creations -> Pair \cup {None}]
  /\ answer \in [Creations -> Creations \cup {None}]
  /\ stored \in [Creations -> [Pair -> Sends \cup {None}]]
  /\ announced \subseteq Sends
  /\ send \in [Sends -> SendType] /\ fetch \in [Fetches -> FetchType]

\* Whatever calls overlap, the callers are never sent to two different rooms:
\* all rooms CreateDirectRoom has answered with are one.
OneRoomForPair ==
  \A c, d \in Creations : None \notin {answer[c], answer[d]} => answer[c] = answer[d]

\* A live room of the pair is the one lookups find, and its owner is a user of
\* the pair: no failed creation leaves a room behind (CreateDirectRoom's
\* transaction).
LiveRoomIsFound ==
  \A r \in Creations : room[r] = "live" => Found = {r} /\ roomOwner[r] \in Pair

\* A client that is told of a welcome can fetch one: when mlsWelcomeReceived of
\* a welcome for the pair's room is appended, the room has a welcome for that
\* target, this one or one that replaced it, whatever fails and however sends to
\* both users overlap (SendWelcome stores before it appends).
ToldIsStored ==
  \A s \in announced : send[s].into # None => stored[send[s].into][send[s].to] # None

\* Whichever creations, deletions and sends overlap, a fetched welcome was sent
\* to the user who fetches it, for the room all creations have answered with, and
\* its send had reached the table (GetRoomWelcome).
FetchedIsMine ==
  \A f \in Fetches : fetch[f].got # None =>
    LET s == fetch[f].got IN
      /\ send[s].to = fetch[f].by
      /\ send[s].into = fetch[f].from /\ direct = {fetch[f].from}
      /\ send[s].step # "store"

=============================================================================
