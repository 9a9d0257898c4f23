------------------------------ MODULE Friends -------------------------------
(***************************************************************************)
(* Friend requests and friendships: the tables friend_requests and         *)
(* friends, and the handler calls that change them concurrently.           *)
(*                                                                         *)
(* PostgreSQL runs at READ COMMITTED. A handler call is a small machine    *)
(* whose steps are its SQL statements. What a transaction writes stays in  *)
(* the call's own variables until it commits, and the rows it has written  *)
(* are locked until then. The id of a request is its model value.          *)
(*                                                                         *)
(* A call that finds no row, a foreign row or a row in the wrong state     *)
(* returns an error and changes nothing: it is a stuttering step.          *)
(***************************************************************************)
EXTENDS Naturals, FiniteSets

CONSTANTS
  Users,        \* public keys
  Requests,     \* friend request ids
  Calls,        \* handler calls in progress
  NULL

ASSUME FriendsAssumption ==
  NULL \notin Users \cup Requests

VARIABLES
  sender,   \* friend_requests: sender_public_key
  receiver, \* friend_requests: receiver_public_key
  state,    \* friend_requests: state; none and deleted: there is no row
  friends,  \* friends: pairs <<user, friend>>
  told,     \* events appended for a user about the decision on a request
  pc,       \* the step of each call
  op,       \* accept, decline, cancel or delete
  arg,      \* the request the call decides; the user whose account it deletes
  rows,     \* friends rows the call's transaction inserted or deleted
  raced     \* history: pairs removed while an accept was inserting their rows

reqVars == <<sender, receiver, state>>
vars == <<reqVars, friends, told, pc, op, arg, rows, raced>>

Decisions == {"accept", "decline", "cancel"}

\* The state a decision gives a request.
After == [accept |-> "Accepted", decline |-> "Declined", cancel |-> "Canceled"]

Parties(r) == {sender[r], receiver[r]}

\* The rows of CreateFriendPair, in its order.
LeftRow(r) == <<sender[r], receiver[r]>>
RightRow(r) == <<receiver[r], sender[r]>>

\* The user a decision is announced to: the receiver of a cancelled request,
\* otherwise its sender.
Addressee(o, r) == IF o = "cancel" THEN receiver[r] ELSE sender[r]

RowsOf(u) == {f \in friends : u \in {f[1], f[2]}}

Init ==
  /\ sender = [r \in Requests |-> NULL]
  /\ receiver = [r \in Requests |-> NULL]
  /\ state = [r \in Requests |-> "none"]
  /\ friends = {}
  /\ told = {}
  /\ pc = [c \in Calls |-> "idle"]
  /\ op = [c \in Calls |-> NULL]
  /\ arg = [c \in Calls |-> NULL]
  /\ rows = [c \in Calls |-> {}]
  /\ raced = {}

-----------------------------------------------------------------------------
(* Row locks *)

\* Calls in a transaction that has updated its request.
HoldsRequest(c) == pc[c] \in {"updated", "pair1", "pair2"}

\* Another transaction has updated request r.
RequestLocked(c, r) == \E d \in Calls \ {c} : HoldsRequest(d) /\ arg[d] = r

\* Another transaction has inserted or deleted one of these friends rows.
RowsLocked(c, R) == \E d \in Calls \ {c} : rows[d] \cap R # {}

Ended(c) ==
  /\ pc' = [pc EXCEPT ![c] = "idle"]
  /\ op' = [op EXCEPT ![c] = NULL]
  /\ arg' = [arg EXCEPT ![c] = NULL]
  /\ rows' = [rows EXCEPT ![c] = {}]

-----------------------------------------------------------------------------
(* Requests *)

\* SendFriendRequest: the INSERT (the event to the receiver is not modelled).
\* Nothing stops a request to oneself, or a second one to the same user.
SendFriendRequest(u, v, r) ==
  /\ state[r] = "none"
  /\ sender' = [sender EXCEPT ![r] = u]
  /\ receiver' = [receiver EXCEPT ![r] = v]
  /\ state' = [state EXCEPT ![r] = "Pending"]
  /\ UNCHANGED <<friends, told, pc, op, arg, rows>>

\* The checks of UpdateFriendRequestState on the row it has read.
Allowed(u, r) == state[r] = "Pending" /\ u \in Parties(r)

\* UpdateFriendRequestState up to its UPDATE: a plain SELECT that locks nothing.
ReadRequest(c, o, u, r) ==
  /\ pc[c] = "idle"
  /\ Allowed(u, r)
  /\ pc' = [pc EXCEPT ![c] = "checked"]
  /\ op' = [op EXCEPT ![c] = o]
  /\ arg' = [arg EXCEPT ![c] = r]
  /\ UNCHANGED <<reqVars, friends, told, rows>>

\* DeclineFriendRequest and CancelFriendRequest: the autocommitted UPDATE,
\* whose WHERE clause names only the request id.
Decide(c) ==
  /\ pc[c] = "checked" /\ op[c] \in {"decline", "cancel"}
  /\ ~RequestLocked(c, arg[c])
  /\ state[arg[c]] # "deleted"
  /\ state' = [state EXCEPT ![arg[c]] = After[op[c]]]
  /\ pc' = [pc EXCEPT ![c] = "decided"]
  /\ UNCHANGED <<sender, receiver, friends, told, op, arg, rows>>

\* The event that follows; when it fails the call still succeeds (Fails).
AppendDecided(c) ==
  /\ pc[c] = "decided"
  /\ told' = told \cup {[what |-> After[op[c]], r |-> arg[c],
                         to |-> Addressee(op[c], arg[c])]}
  /\ Ended(c)
  /\ UNCHANGED <<reqVars, friends>>

\* The UPDATE inside AcceptFriendRequest's transaction.
AcceptUpdate(c) ==
  /\ pc[c] = "checked" /\ op[c] = "accept"
  /\ ~RequestLocked(c, arg[c])
  /\ state[arg[c]] # "deleted"
  /\ pc' = [pc EXCEPT ![c] = "updated"]
  /\ UNCHANGED <<reqVars, friends, told, op, arg, rows>>

\* The row is gone when the UPDATE gets its lock: RETURNING gives no row.
RequestVanished(c) ==
  /\ pc[c] = "checked"
  /\ state[arg[c]] = "deleted"
  /\ Ended(c)
  /\ UNCHANGED <<reqVars, friends, told>>

\* Mutation: the INSERT is not part of the transaction.
InsertFriendAutocommit(c, row) ==
  /\ ~RowsLocked(c, {row})
  /\ friends' = friends \cup {row}
  /\ rows' = rows

\* One INSERT ... ON CONFLICT DO NOTHING. It waits for a transaction that has
\* inserted or deleted the same row; an existing row is left alone and unlocked.
InsertFriend(c, row) ==
  /\ ~RowsLocked(c, {row})
  /\ rows' = [rows EXCEPT ![c] = IF row \in friends THEN @ ELSE @ \cup {row}]
  /\ friends' = friends

InsertLeft(c) ==
  /\ pc[c] = "updated"
  /\ InsertFriend(c, LeftRow(arg[c]))
  /\ pc' = [pc EXCEPT ![c] = "pair1"]
  /\ UNCHANGED <<reqVars, told, op, arg>>

InsertRight(c) ==
  /\ pc[c] = "pair1"
  /\ InsertFriend(c, RightRow(arg[c]))
  /\ pc' = [pc EXCEPT ![c] = "pair2"]
  /\ UNCHANGED <<reqVars, told, op, arg>>

\* The event is appended in the transaction, which then commits.
AcceptCommit(c) ==
  /\ pc[c] = "pair2"
  /\ state' = [state EXCEPT ![arg[c]] = "Accepted"]
  /\ friends' = friends \cup rows[c]
  /\ told' = told \cup {[what |-> "Accepted", r |-> arg[c], to |-> sender[arg[c]]]}
  /\ Ended(c)
  /\ UNCHANGED <<sender, receiver>>

-----------------------------------------------------------------------------
(* Removal *)

\* A transaction is past the first INSERT of CreateFriendPair for u and v.
Accepting(u, v) ==
  \E c \in Calls : pc[c] \in {"pair1", "pair2"} /\ Parties(arg[c]) = {u, v}

\* RemoveFriend: one DELETE of both rows, which waits for locked ones.  Rows
\* that an INSERT met and left alone are not locked: the DELETE may come between
\* the two INSERTs of an accept.
RemoveFriend(u, v) ==
  LET pair == friends \cap {<<u, v>>, <<v, u>>} IN
    /\ pair # {}
    /\ ~\E c \in Calls : rows[c] \cap pair # {}
    /\ friends' = friends \ pair
    /\ raced' = IF Accepting(u, v) THEN raced \cup {{u, v}} ELSE raced
    /\ UNCHANGED <<reqVars, told, pc, op, arg, rows>>

\* DeleteAccount's transaction as far as its DELETE FROM friends, which sees
\* the committed rows and waits for those another transaction deletes.
DeleteFriends(c, u) ==
  /\ pc[c] = "idle"
  /\ ~RowsLocked(c, RowsOf(u))
  /\ pc' = [pc EXCEPT ![c] = "deleting"]
  /\ op' = [op EXCEPT ![c] = "delete"]
  /\ arg' = [arg EXCEPT ![c] = u]
  /\ rows' = [rows EXCEPT ![c] = RowsOf(u)]
  /\ UNCHANGED <<reqVars, friends, told>>

\* Mutation: the request rows are not deleted, so their locks are not awaited.
DeleteRequestsSkipped(c) ==
  /\ pc[c] = "deleting"
  /\ friends' = friends \ rows[c]
  /\ Ended(c)
  /\ UNCHANGED <<reqVars, told>>

\* DELETE FROM friend_requests, which waits for requests being decided, the
\* statements on other tables, and the commit.
DeleteRequests(c) ==
  LET mine == {r \in Requests : arg[c] \in Parties(r)} IN
    /\ pc[c] = "deleting"
    /\ \A r \in mine : ~RequestLocked(c, r)
    /\ friends' = friends \ rows[c]
    /\ state' = [r \in Requests |-> IF r \in mine THEN "deleted" ELSE state[r]]
    /\ Ended(c)
    /\ UNCHANGED <<sender, receiver, told>>

\* A statement fails (deadlock victim, cancelled request, lost connection) or
\* the server stops: the transaction is rolled back and the call ends.
Fails(c) ==
  /\ pc[c] # "idle"
  /\ Ended(c)
  /\ UNCHANGED <<reqVars, friends, told>>

-----------------------------------------------------------------------------
Step(c) ==
  \/ \E o \in Decisions, u \in Users, r \in Requests : ReadRequest(c, o, u, r)
  \/ Decide(c) \/ AppendDecided(c)
  \/ AcceptUpdate(c) \/ RequestVanished(c)
  \/ InsertLeft(c) \/ InsertRight(c) \/ AcceptCommit(c)
  \/ \E u \in Users : DeleteFriends(c, u)
  \/ DeleteRequests(c)
  \/ Fails(c)

Next ==
  \/ /\ \/ \E u, v \in Users, r \in Requests : SendFriendRequest(u, v, r)
        \/ \E c \in Calls : Step(c)
     /\ raced' = raced
  \/ \E u, v \in Users : RemoveFriend(u, v)

Spec == Init /\ [][Next]_vars

-----------------------------------------------------------------------------
(* Properties *)

\* The tables.
TablesOK ==
  /\ sender \in [Requests -> Users \cup {NULL}]
  /\ receiver \in [Requests -> Users \cup {NULL}]
  /\ state \in [Requests -> {"none", "Pending", "Accepted", "Declined", "Canceled",
                             "deleted"}]
  /\ friends \subseteq Users \X Users
  /\ told \subseteq [what : {"Accepted", "Declined", "Canceled"}, r : Requests, to : Users]

\* The calls.
CallsOK ==
  /\ pc \in [Calls -> {"idle", "checked", "decided", "updated", "pair1", "pair2",
                       "deleting"}]
  /\ op \in [Calls -> Decisions \cup {"delete", NULL}]
  /\ arg \in [Calls -> Requests \cup Users \cup {NULL}]
  /\ rows \in [Calls -> SUBSET (Users \X Users)]

\* Every table and every call keeps its type: a decision never creates a
\* request, an event or a friendship of nobody (UpdateFriendRequestState).
TypeOK == TablesOK /\ CallsOK /\ raced \subseteq SUBSET Users

\* What CreateFriendPair and AreFriends (client_repository.go) take a friendship
\* to be: two rows.  It fails: see HalvedOnlyByRemoval.
FriendsSymmetric == \A f \in friends : <<f[2], f[1]>> \in friends

\* One thing alone leaves a friendship in one direction, however accepts, account
\* deletions and failures interleave: a removeFriend that ran while an accept was
\* inserting the rows of the pair.  Above all an account deletion takes both
\* rows, since its DELETE FROM friend_requests waits for the accept.
HalvedOnlyByRemoval ==
  \A f \in friends : <<f[2], f[1]>> \in friends \/ {f[1], f[2]} \in raced

\* Every friendship comes from a request whose sender has been told that it was
\* accepted: the event is committed with the rows (AcceptFriendRequest).
FriendshipAnnounced ==
  \A f \in friends : \E r \in Requests :
    /\ Parties(r) = {f[1], f[2]}
    /\ [what |-> "Accepted", r |-> r, to |-> sender[r]] \in told

=============================================================================
