------------------------------- MODULE Rooms --------------------------------
(***************************************************************************)
(* One chat room: its row of chat_rooms, its rows of chat_members and its  *)
(* rows of chat_invitations.                                               *)
(*                                                                         *)
(* Apart from acceptChatInvitation, sendExternalCommit and deleteAccount   *)
(* the RPCs run outside a transaction: one statement reads (is the room    *)
(* live, is the caller an admin, is the invitation pending), a later one   *)
(* writes, and other calls run in between.  A call c is at the step pc[c], after   *)
(* its read and before its write.  A call that fails its checks answers    *)
(* with an error and changes nothing: it is not a step.                    *)
(***************************************************************************)
EXTENDS Naturals

CONSTANTS
  Users,
  Invitations,  \* the invitations that may be sent
  Calls,        \* RPCs that may run at once
  Visibilities, \* what a caller of createChatRoom asks for
  Roles,        \* roles a caller of updateChatMemberRole asks for
  NULL

\* The database refuses a role below 1.
ASSUME RoomsAssumption ==
  /\ Visibilities \subseteq {"public", "linkOnly", "private"}
  /\ NULL \notin Users /\ NULL \notin Invitations
  /\ Roles \subseteq Nat \ {0}

VARIABLES
  owner,       \* chat_rooms.owner_public_key, NULL before createChatRoom
  visibility,  \* chat_rooms.visibility
  deleted,     \* chat_rooms.deleted_at IS NOT NULL
  groupInfo,   \* the room has a row of chat_room_group_infos
  role,        \* chat_members.role of each user, 0 without a row
  active,      \* users whose chat_members row has left_at IS NULL
  locked,      \* users whose row the transaction of deleteAccount has updated
  inviter, invitee, state,  \* chat_invitations
  told,        \* <<i, u>>: room.invitationAccepted of i by u is appended
  pc, by, arg  \* each call: its next step, its user, what it is about

roomVars == <<owner, visibility, deleted, groupInfo>>
memberVars == <<role, active, locked>>
invVars == <<inviter, invitee, state>>
callVars == <<pc, by, arg>>
vars == <<roomVars, memberVars, invVars, told, callVars>>

RoleMember == 1
RoleAdmin == 2
RoleOwner == 3

Parties(i) == {inviter[i], invitee[i]}

Init ==
  /\ owner = NULL /\ visibility \in Visibilities
  /\ deleted = FALSE /\ groupInfo = FALSE
  /\ role = [u \in Users |-> 0] /\ active = {} /\ locked = {}
  /\ inviter = [i \in Invitations |-> NULL]
  /\ invitee = [i \in Invitations |-> NULL]
  /\ state = [i \in Invitations |-> "none"]
  /\ told = {}
  /\ pc = [c \in Calls |-> "idle"]
  /\ by = [c \in Calls |-> NULL]
  /\ arg = [c \in Calls |-> NULL]

\* A call by u goes on to step, about a.
Begin(c, step, u, a) ==
  /\ pc[c] = "idle"
  /\ pc' = [pc EXCEPT ![c] = step]
  /\ by' = [by EXCEPT ![c] = u]
  /\ arg' = [arg EXCEPT ![c] = a]

Goto(c, from, to) ==
  /\ pc[c] = from
  /\ pc' = [pc EXCEPT ![c] = to]
  /\ UNCHANGED <<by, arg>>

End(c) ==
  /\ pc' = [pc EXCEPT ![c] = "idle"]
  /\ by' = [by EXCEPT ![c] = NULL]
  /\ arg' = [arg EXCEPT ![c] = NULL]

-----------------------------------------------------------------------------
(***************************************************************************)
(* The room and its members.                                               *)
(***************************************************************************)
CreateChatRoom(u) ==
  /\ owner = NULL
  /\ owner' = u
  /\ role' = [role EXCEPT ![u] = RoleOwner]
  /\ active' = {u}
  /\ UNCHANGED <<visibility, deleted, groupInfo, locked, invVars, told, callVars>>

\* GetRoom finds the room.
Live == owner # NULL /\ ~deleted

\* Mutation: only link-only rooms are closed to joinChatRoom.
JoinableLinkOnly == Live /\ visibility # "linkOnly"

Joinable == Live /\ visibility # "private"

\* JoinRoom reads the room ...
ReadRoom(c, u) ==
  /\ Joinable
  /\ Begin(c, "join", u, NULL)
  /\ UNCHANGED <<roomVars, memberVars, invVars, told>>

\* INSERT ... ON CONFLICT DO UPDATE SET left_at = NULL, role = EXCLUDED.role,
\* which waits for a deletion of the account, as every write of the row does.
UpsertMember(u) ==
  /\ u \notin locked
  /\ role' = [role EXCEPT ![u] = RoleMember]
  /\ active' = active \cup {u}
  /\ UNCHANGED locked

\* ... and writes the member's row, as sendExternalCommit's transaction does.
Join(c) ==
  /\ pc[c] = "join"
  /\ UpsertMember(by[c])
  /\ End(c)
  /\ UNCHANGED <<roomVars, invVars, told>>

\* sendExternalCommit checks the room and its group info ...
ReadExternal(c, u) ==
  /\ Live /\ visibility = "public" /\ groupInfo
  /\ Begin(c, "external", u, NULL)
  /\ UNCHANGED <<roomVars, memberVars, invVars, told>>

\* ... and UpsertRoomMembership reads the room again.
ExternalGetRoom(c) ==
  /\ Live
  /\ Goto(c, "external", "join")
  /\ UNCHANGED <<roomVars, memberVars, invVars, told>>

LeaveChatRoom(u) ==
  /\ u \in active \ locked
  /\ active' = active \ {u}
  /\ UNCHANGED <<roomVars, role, locked, invVars, told, callVars>>

\* ensureMember and the upsert: to leave the room in between is as good as to
\* leave it afterwards.
UploadGroupInfo(u) ==
  /\ u \in active
  /\ groupInfo' = TRUE
  /\ UNCHANGED <<owner, visibility, deleted, memberVars, invVars, told, callVars>>

\* DeleteRoom: the owner, member or not, deletes the room.
ReadOwner(c, u) ==
  /\ Live /\ owner = u
  /\ Begin(c, "delete", u, NULL)
  /\ UNCHANGED <<roomVars, memberVars, invVars, told>>

DeleteChatRoom(c) ==
  /\ pc[c] = "delete"
  /\ deleted' = TRUE
  /\ End(c)
  /\ UNCHANGED <<owner, visibility, groupInfo, memberVars, invVars, told>>

\* ensureRoomAdmin: nothing is asked of the room itself.
Admin(u) == u \in active /\ role[u] >= RoleAdmin

AdminSteps == {"kick", "role", "invite"}

ReadAdmin(c, step, u, v) ==
  /\ Admin(u)
  /\ Begin(c, step, u, v)
  /\ UNCHANGED <<roomVars, memberVars, invVars, told>>

KickChatMember(c) ==
  /\ pc[c] = "kick" /\ arg[c] \notin locked
  /\ active' = active \ {arg[c]}
  /\ End(c)
  /\ UNCHANGED <<roomVars, role, locked, invVars, told>>

\* The role r is the caller's choice; a row with left_at set keeps its role.
UpdateChatMemberRole(c, r) ==
  /\ pc[c] = "role" /\ arg[c] \notin locked
  /\ role' = [role EXCEPT ![arg[c]] = IF arg[c] \in active THEN r ELSE @]
  /\ End(c)
  /\ UNCHANGED <<roomVars, active, locked, invVars, told>>

-----------------------------------------------------------------------------
(***************************************************************************)
(* Invitations.                                                            *)
(***************************************************************************)
SendChatInvitation(c, i) ==
  /\ pc[c] = "invite"
  /\ state[i] = "none"
  /\ inviter' = [inviter EXCEPT ![i] = by[c]]
  /\ invitee' = [invitee EXCEPT ![i] = arg[c]]
  /\ state' = [state EXCEPT ![i] = "Pending"]
  /\ End(c)
  /\ UNCHANGED <<roomVars, memberVars, told>>

\* UpdateInvitationState first reads the invitation: either party may call.
ReadInvitation(c, step, u, i) ==
  /\ state[i] = "Pending" /\ u \in Parties(i)
  /\ Begin(c, step, u, i)
  /\ UNCHANGED <<roomVars, memberVars, invVars, told>>

\* The row of i is locked by the transaction of another accept.
InvitationLocked(c, i) ==
  \E d \in Calls \ {c} : pc[d] \in {"updated", "room"} /\ arg[d] = i

\* The UPDATE names the invitation only: whatever its state is by now, but it
\* must still be there.
Settle(c) ==
  /\ pc[c] \in {"decline", "revoke"} /\ state[arg[c]] # "Deleted"
  /\ ~InvitationLocked(c, arg[c])
  /\ state' = [state EXCEPT ![arg[c]] =
                 IF pc[c] = "decline" THEN "Declined" ELSE "Revoked"]
  /\ End(c)
  /\ UNCHANGED <<roomVars, memberVars, inviter, invitee, told>>

\* Mutation: UpdateInvitationState runs outside the transaction.
AcceptUpdateAutocommit(c) ==
  /\ Goto(c, "accept", "updated")
  /\ ~InvitationLocked(c, arg[c]) /\ state[arg[c]] # "Deleted"
  /\ state' = [state EXCEPT ![arg[c]] = "Accepted"]
  /\ UNCHANGED <<roomVars, memberVars, inviter, invitee, told>>

\* Mutation: nobody looks whether the UPDATE has found the row.
AcceptUpdateBlind(c) ==
  /\ ~InvitationLocked(c, arg[c])
  /\ Goto(c, "accept", "updated")
  /\ UNCHANGED <<roomVars, memberVars, invVars, told>>

\* acceptChatInvitation: the UPDATE is seen by others at the COMMIT.
AcceptUpdate(c) ==
  /\ Goto(c, "accept", "updated")
  /\ ~InvitationLocked(c, arg[c]) /\ state[arg[c]] # "Deleted"
  /\ UNCHANGED <<roomVars, memberVars, invVars, told>>

\* Mutation: the member is upserted without a look at the room.
AcceptGetNoRoom(c) ==
  /\ Goto(c, "updated", "room")
  /\ UNCHANGED <<roomVars, memberVars, invVars, told>>

\* UpsertRoomMembership reads the room.
AcceptGetRoom(c) ==
  /\ Live
  /\ Goto(c, "updated", "room")
  /\ UNCHANGED <<roomVars, memberVars, invVars, told>>

\* The member's row, room.invitationAccepted to the inviter, COMMIT.
AcceptChatInvitation(c) ==
  /\ pc[c] = "room"
  /\ UpsertMember(by[c])
  /\ state' = [state EXCEPT ![arg[c]] = "Accepted"]
  /\ told' = told \cup {<<arg[c], by[c]>>}
  /\ End(c)
  /\ UNCHANGED <<roomVars, inviter, invitee>>

-----------------------------------------------------------------------------
(***************************************************************************)
(* deleteAccount, from its UPDATE of chat_members on.  It takes the row of *)
(* the member before those of the invitations, acceptChatInvitation the    *)
(* other way round: of two that wait for each other one Fails.             *)
(***************************************************************************)
DeletionSteps == {"left", "purge"}

\* The UPDATE, seen by others at the COMMIT.  The profile's row, which comes first,
\* keeps two deletions of one account apart.
DeleteAccount(c, u) ==
  /\ \A d \in Calls : by[d] = u => pc[d] \notin DeletionSteps
  /\ Begin(c, "left", u, NULL)
  /\ locked' = locked \cup (active \cap {u})
  /\ UNCHANGED <<roomVars, role, active, invVars, told>>

\* DELETE FROM chat_invitations begins: these are the rows it sees ...
DeleteInvitations(c) ==
  /\ pc[c] = "left"
  /\ pc' = [pc EXCEPT ![c] = "purge"]
  /\ arg' = [arg EXCEPT ![c] =
       {i \in Invitations : state[i] \notin {"none", "Deleted"} /\ by[c] \in Parties(i)}]
  /\ UNCHANGED <<roomVars, memberVars, invVars, told, by>>

\* ... and it has them all: COMMIT.
DeleteAccountCommit(c) ==
  /\ pc[c] = "purge"
  /\ \A i \in arg[c] : ~InvitationLocked(c, i)
  /\ state' = [i \in Invitations |-> IF i \in arg[c] THEN "Deleted" ELSE state[i]]
  /\ active' = active \ (locked \cap {by[c]})
  /\ locked' = locked \ {by[c]}
  /\ End(c)
  /\ UNCHANGED <<roomVars, role, inviter, invitee, told>>

\* A statement fails, the request is cancelled or the server stops: a
\* transaction is rolled back, a call outside one has not written yet.
Fails(c) ==
  /\ pc[c] # "idle"
  /\ locked' = IF pc[c] \in DeletionSteps THEN locked \ {by[c]} ELSE locked
  /\ End(c)
  /\ UNCHANGED <<roomVars, role, active, invVars, told>>

-----------------------------------------------------------------------------
Read(c, u) ==
  \/ ReadRoom(c, u) \/ ReadExternal(c, u) \/ ReadOwner(c, u) \/ DeleteAccount(c, u)
  \/ \E step \in AdminSteps, v \in Users : ReadAdmin(c, step, u, v)
  \/ \E step \in {"decline", "revoke", "accept"}, i \in Invitations :
       ReadInvitation(c, step, u, i)

Write(c) ==
  \/ Join(c) \/ ExternalGetRoom(c) \/ DeleteChatRoom(c)
  \/ KickChatMember(c)
  \/ \E r \in Roles : UpdateChatMemberRole(c, r)
  \/ \E i \in Invitations : SendChatInvitation(c, i)
  \/ Settle(c) \/ AcceptUpdate(c) \/ AcceptGetRoom(c) \/ AcceptChatInvitation(c)
  \/ DeleteInvitations(c) \/ DeleteAccountCommit(c)
  \/ Fails(c)

Next ==
  \/ \E u \in Users : CreateChatRoom(u) \/ LeaveChatRoom(u) \/ UploadGroupInfo(u)
  \/ \E c \in Calls : Write(c) \/ (\E u \in Users : Read(c, u))

Spec == Init /\ [][Next]_vars

-----------------------------------------------------------------------------
Steps == {"idle", "join", "external", "delete", "decline", "revoke",
          "accept", "updated", "room"} \cup AdminSteps \cup DeletionSteps

RowsOK ==
  /\ owner \in Users \cup {NULL} /\ visibility \in Visibilities
  /\ deleted \in BOOLEAN /\ groupInfo \in BOOLEAN
  /\ role \in [Users -> Nat]
  /\ active \in SUBSET {u \in Users : role[u] > 0} /\ locked \in SUBSET Users
  /\ inviter \in [Invitations -> Users \cup {NULL}]
  /\ invitee \in [Invitations -> Users \cup {NULL}]
  /\ state \in [Invitations -> {"none", "Pending", "Accepted", "Declined", "Revoked",
                                "Deleted"}]
  /\ told \in SUBSET (Invitations \X Users)

StepsOK ==
  /\ pc \in [Calls -> Steps]
  /\ by \in [Calls -> Users \cup {NULL}]
  /\ arg \in [Calls -> Users \cup Invitations \cup {NULL} \cup SUBSET Invitations]

\* Every variable has its type, and whoever is active has a chat_members row.
TypeOK == RowsOK /\ StepsOK

\* acceptChatInvitation is all or nothing, whatever runs beside it or fails
\* in it: behind an Accepted invitation are a chat_members row of the user who
\* accepted and the room.invitationAccepted event that tells the inviter.
AcceptedIsMember ==
  \A i \in Invitations :
    state[i] = "Accepted" => \E u \in Users : <<i, u>> \in told /\ role[u] > 0

\* A private room is entered by invitation only: besides its owner every user
\* with a chat_members row has himself accepted an invitation addressed to him.
PrivateByInvitation ==
  visibility = "private" =>
    \A u \in Users : role[u] > 0 /\ u # owner =>
      \E i \in Invitations : invitee[i] = u /\ <<i, u>> \in told

\* The calls that have read the room and are about to write a member.
Entering == {c \in Calls : pc[c] \in {"join", "room"}}

\* Once the room is deleted the only members it can still get are the callers
\* that had found it live before, and their number does not grow (JoinRoom,
\* UpsertRoomMembership: the read and the write are two statements).
DeletedRoomClosed ==
  [][deleted => /\ Entering' \subseteq Entering
                /\ active' \ active \subseteq {by[c] : c \in Entering}]_vars

\* An invitation that went with an account is dead: whatever was under way when
\* deleteAccount committed, nobody enters by it and nobody is told of it
\* (DeleteAccount and acceptChatInvitation lock the same rows in opposite order).
ErasedIsDead ==
  [][\A i \in Invitations : state[i] = "Deleted" =>
       /\ state'[i] = "Deleted"
       /\ \A u \in Users : <<i, u>> \in told' => <<i, u>> \in told]_vars

=============================================================================
