---------------------------- MODULE RoomsProofs -----------------------------
(***************************************************************************)
(* Proofs about Rooms, for any number of users, invitations and calls.     *)
(*                                                                         *)
(* PrivateByInvitation is not inductive: the inviter may accept his own    *)
(* invitation, and then there need not be one addressed to him.  He was a  *)
(* member when he sent it, and chat_members rows are never deleted, so he  *)
(* has a row already; RowInv and CallInv carry that fact from the check of *)
(* ensureRoomAdmin to the row of the invitation.                           *)
(***************************************************************************)
EXTENDS Rooms, TLAPS

InvitationSteps == {"decline", "revoke", "accept", "updated", "room"}

\* What a call has learnt by its read and still holds at its write.
Knows(c) ==
  /\ pc[c] # "idle" => by[c] \in Users
  /\ pc[c] \notin DeletionSteps \cup {"idle"} => owner # NULL
  /\ pc[c] \in AdminSteps => arg[c] \in Users /\ role[by[c]] > 0
  /\ pc[c] \in InvitationSteps =>
       arg[c] \in Invitations /\ by[c] \in Parties(arg[c]) /\ state[arg[c]] # "none"
  /\ pc[c] \in {"join", "external"} => visibility # "private"
  /\ pc[c] = "purge" => \A i \in Invitations : i \in arg[c] => state[i] # "none"

CallInv == \A c \in Calls : Knows(c)

\* There are no members before the room, inviters have a member row, and nobody
\* is told of an invitation before it is sent.
RowInv ==
  /\ owner = NULL => ~deleted /\ \A u \in Users : role[u] = 0
  /\ \A i \in Invitations : state[i] # "none" =>
       inviter[i] \in Users /\ invitee[i] \in Users /\ role[inviter[i]] > 0
  /\ \A i \in Invitations : state[i] = "none" => \A u \in Users : <<i, u>> \notin told

RoomInv == TypeOK /\ CallInv /\ RowInv /\ AcceptedIsMember /\ PrivateByInvitation

-----------------------------------------------------------------------------
LEMMA InitRoomInv == Init => RoomInv
<1>. SUFFICES ASSUME Init PROVE RoomInv
  OBVIOUS
<1>1. TypeOK
  BY DEF Init, TypeOK, RowsOK, StepsOK, Steps
<1>2. CallInv /\ RowInv /\ AcceptedIsMember
  BY DEF Init, CallInv, Knows, RowInv, AcceptedIsMember, AdminSteps, InvitationSteps
<1>3. PrivateByInvitation
  BY DEF Init, PrivateByInvitation
<1>. QED BY <1>1, <1>2, <1>3 DEF RoomInv

\* No step takes a member's row away, moves an invitation back to "none" or to
\* other parties, or changes the owner of a room.
Kept ==
  /\ visibility' = visibility
  /\ owner # NULL => owner' = owner
  /\ \A u \in Users : role[u] > 0 => role'[u] > 0
  /\ \A i \in Invitations : state[i] # "none" =>
       state'[i] # "none" /\ inviter'[i] = inviter[i] /\ invitee'[i] = invitee[i]
  /\ told \subseteq told'

\* A step that keeps the rows keeps what a call knows that it does not move.
LEMMA StillKnows ==
  ASSUME RoomInv, Kept, NEW d \in Calls,
         pc'[d] = pc[d], by'[d] = by[d], arg'[d] = arg[d]
  PROVE  Knows(d)'
<1>1. Knows(d)
  BY DEF RoomInv, CallInv
<1>2. (pc[d] # "idle" => by[d] \in Users) /\ role \in [Users -> Nat]
  BY <1>1 DEF Knows, RoomInv, TypeOK, RowsOK
<1>3. pc[d] \in AdminSteps => pc[d] # "idle"
  BY DEF AdminSteps
<1>4. pc[d] \in AdminSteps => (arg[d] \in Users /\ role[by[d]] > 0)'
  BY <1>1, <1>2, <1>3 DEF Knows, Kept
<1>5. pc[d] \in InvitationSteps =>
        (arg[d] \in Invitations /\ by[d] \in Parties(arg[d]) /\ state[arg[d]] # "none")'
  BY <1>1 DEF Knows, Kept, Parties
<1>6. pc[d] \notin DeletionSteps \cup {"idle"} => owner' # NULL
  BY <1>1 DEF Knows, Kept
<1>7. pc[d] = "purge" => \A i \in Invitations : i \in arg[d] => state'[i] # "none"
  BY <1>1 DEF Knows, Kept
<1>. QED BY <1>1, <1>2, <1>4, <1>5, <1>6, <1>7 DEF Knows, Kept

\* RoomInv does not speak of the locks.
RowsUnchanged ==
  /\ UNCHANGED <<owner, visibility, deleted, groupInfo, role, active, invVars, told>>
  /\ locked' \in SUBSET Users

LEMMA RowsUnchangedKeeps ==
  ASSUME RoomInv, RowsUnchanged
  PROVE  Kept /\ RowsOK' /\ RowInv' /\ AcceptedIsMember' /\ PrivateByInvitation'
<1>1. Kept
  BY DEF RowsUnchanged, Kept, invVars
<1>2. RowsOK'
  BY DEF RoomInv, TypeOK, RowsOK, RowsUnchanged, invVars
<1>3. RowInv' /\ AcceptedIsMember' /\ PrivateByInvitation'
  BY DEF RoomInv, RowInv, AcceptedIsMember, PrivateByInvitation, RowsUnchanged, invVars
<1>. QED BY <1>1, <1>2, <1>3

LEMMA Beginning ==
  ASSUME RoomInv, NEW c \in Calls, NEW step \in Steps \ {"purge"}, NEW u \in Users,
         step # "left" => owner # NULL,
         NEW a \in Users \cup Invitations \cup {NULL}, Begin(c, step, u, a),
         step \in AdminSteps => a \in Users /\ role[u] > 0,
         step \in InvitationSteps =>
           a \in Invitations /\ u \in Parties(a) /\ state[a] # "none",
         step \in {"join", "external"} => visibility # "private",
         RowsUnchanged
  PROVE  RoomInv'
<1>1. StepsOK'
  BY DEF RoomInv, TypeOK, StepsOK, Begin
<1>2. CallInv'
  <2>. SUFFICES ASSUME NEW d \in Calls PROVE Knows(d)'
    BY DEF CallInv
  <2>1. CASE d = c
    <3>1. pc'[c] = step /\ by'[c] = u /\ arg'[c] = a
      BY DEF RoomInv, TypeOK, StepsOK, Begin
    <3>. QED BY <2>1, <3>1 DEF Knows, RowsUnchanged, DeletionSteps, Parties, invVars
  <2>2. CASE d # c
    BY <2>2, StillKnows, RowsUnchangedKeeps DEF RoomInv, TypeOK, StepsOK, Begin
  <2>. QED BY <2>1, <2>2
<1>. QED BY <1>1, <1>2, RowsUnchangedKeeps DEF RoomInv, TypeOK

\* A call that ends, or goes on with what it knew, keeps CallInv.
LEMMA Ending ==
  ASSUME RoomInv, NEW c \in Calls, End(c), Kept
  PROVE  StepsOK' /\ CallInv'
<1>1. StepsOK'
  BY DEF RoomInv, TypeOK, StepsOK, End, Steps
<1>2. CallInv'
  <2>. SUFFICES ASSUME NEW d \in Calls PROVE Knows(d)'
    BY DEF CallInv
  <2>1. CASE d = c
    <3>1. pc'[c] = "idle"
      BY DEF RoomInv, TypeOK, StepsOK, End
    <3>. QED BY <2>1, <3>1 DEF Knows, AdminSteps, InvitationSteps
  <2>2. CASE d # c
    BY <2>2, StillKnows DEF RoomInv, TypeOK, StepsOK, End
  <2>. QED BY <2>1, <2>2
<1>. QED BY <1>1, <1>2

LEMMA GoingOn ==
  ASSUME RoomInv, NEW c \in Calls, NEW from \in Steps, NEW to \in Steps \ DeletionSteps,
         Goto(c, from, to), from \notin DeletionSteps \cup {"idle"},
         to \in InvitationSteps => from \in InvitationSteps,
         to \notin AdminSteps,
         to \in {"join", "external"} => from \in {"join", "external"},
         UNCHANGED <<roomVars, memberVars, invVars, told>>
  PROVE  RoomInv'
<1>0. RowsUnchanged
  BY DEF RowsUnchanged, roomVars, memberVars, RoomInv, TypeOK, RowsOK
<1>1. StepsOK'
  BY DEF RoomInv, TypeOK, StepsOK, Goto
<1>2. CallInv'
  <2>. SUFFICES ASSUME NEW d \in Calls PROVE Knows(d)'
    BY DEF CallInv
  <2>1. CASE d = c
    <3>1. pc[c] = from /\ pc'[c] = to /\ by'[c] = by[c] /\ arg'[c] = arg[c]
      BY DEF RoomInv, TypeOK, StepsOK, Goto
    <3>2. Knows(c)
      BY DEF RoomInv, CallInv
    <3>. QED BY <1>0, <2>1, <3>1, <3>2
         DEF Knows, RowsUnchanged, Parties, DeletionSteps, invVars
  <2>2. CASE d # c
    BY <1>0, <2>2, StillKnows, RowsUnchangedKeeps DEF RoomInv, TypeOK, StepsOK, Goto
  <2>. QED BY <2>1, <2>2
<1>. QED BY <1>0, <1>1, <1>2, RowsUnchangedKeeps DEF RoomInv, TypeOK

-----------------------------------------------------------------------------
LEMMA ReadKeepsInv ==
  ASSUME RoomInv, NEW c \in Calls, NEW u \in Users, Read(c, u)
  PROVE  RoomInv'
<1>0. UNCHANGED <<roomVars, memberVars, invVars, told>> => RowsUnchanged
  BY DEF RowsUnchanged, roomVars, memberVars, RoomInv, TypeOK, RowsOK
<1>1. CASE ReadRoom(c, u)
  BY <1>0, <1>1, Beginning
  DEF ReadRoom, Joinable, Live, Steps, AdminSteps, InvitationSteps
<1>2. CASE ReadExternal(c, u)
  BY <1>0, <1>2, Beginning DEF ReadExternal, Live, Steps, AdminSteps, InvitationSteps
<1>3. CASE ReadOwner(c, u)
  BY <1>0, <1>3, Beginning DEF ReadOwner, Live, Steps, AdminSteps, InvitationSteps
<1>4. ASSUME NEW step \in AdminSteps, NEW v \in Users, ReadAdmin(c, step, u, v)
      PROVE  RoomInv'
  <2>1. role[u] > 0
    BY <1>4 DEF ReadAdmin, Admin, RoleAdmin, RoomInv, TypeOK, RowsOK
  <2>2. owner # NULL
    BY <2>1 DEF RoomInv, RowInv
  <2>. QED BY <1>0, <1>4, <2>1, <2>2, Beginning
       DEF ReadAdmin, Steps, AdminSteps, InvitationSteps
<1>5. ASSUME NEW step \in {"decline", "revoke", "accept"}, NEW i \in Invitations,
             ReadInvitation(c, step, u, i)
      PROVE  RoomInv'
  <2>1. state[i] # "none" /\ owner # NULL
    BY <1>5 DEF ReadInvitation, RoomInv, RowInv
  <2>. QED BY <1>0, <1>5, <2>1, Beginning
       DEF ReadInvitation, Steps, AdminSteps, InvitationSteps
<1>6. CASE DeleteAccount(c, u)
  <2>1. RowsUnchanged /\ Begin(c, "left", u, NULL)
    BY <1>6 DEF DeleteAccount, RowsUnchanged, roomVars, RoomInv, TypeOK, RowsOK
  <2>. QED BY <2>1, Beginning DEF Steps, AdminSteps, InvitationSteps, DeletionSteps
<1>. QED BY <1>1, <1>2, <1>3, <1>4, <1>5, <1>6 DEF Read

\* The conjuncts of RoomInv that a write must still establish once it is Kept.
LEMMA WriteEnds ==
  ASSUME RoomInv, NEW c \in Calls, End(c), Kept, RowsOK', RowInv',
         AcceptedIsMember', PrivateByInvitation'
  PROVE  RoomInv'
BY Ending DEF RoomInv, TypeOK

\* A write that leaves the invitations alone and gives a row only to users who
\* may have one.
LEMMA MemberWrite ==
  ASSUME RoomInv, owner # NULL, RowsOK', Kept, UNCHANGED <<owner, visibility>>,
         UNCHANGED <<invVars, told>>,
         visibility = "private" =>
           \A u \in Users : role'[u] > 0 => role[u] > 0
  PROVE  RowInv' /\ AcceptedIsMember' /\ PrivateByInvitation'
<1>1. RowInv'
  BY DEF RoomInv, RowInv, Kept, invVars
<1>2. AcceptedIsMember'
  BY DEF RoomInv, AcceptedIsMember, Kept, invVars
<1>3. PrivateByInvitation'
  BY DEF RoomInv, PrivateByInvitation, invVars
<1>. QED BY <1>1, <1>2, <1>3

LEMMA WriteKeepsInv ==
  ASSUME RoomInv, NEW c \in Calls, Write(c)
  PROVE  RoomInv'
<1>0. TypeOK /\ CallInv /\ RowInv /\ RowsOK /\ StepsOK
  BY DEF RoomInv, TypeOK
<1>1. CASE Join(c)
  <2>1. by[c] \in Users /\ visibility # "private" /\ owner # NULL
    BY <1>0, <1>1 DEF Join, CallInv, Knows, DeletionSteps
  <2>2. /\ role' = [role EXCEPT ![by[c]] = 1] /\ active' = active \cup {by[c]}
        /\ UNCHANGED locked
    BY <1>1 DEF Join, UpsertMember, RoleMember
  <2>3. UNCHANGED <<roomVars, invVars, told>> /\ End(c)
    BY <1>1 DEF Join
  <2>4. Kept
    BY <1>0, <2>1, <2>2, <2>3 DEF Kept, RowsOK, roomVars, invVars
  <2>5. RowsOK'
    BY <1>0, <2>1, <2>2, <2>3 DEF RowsOK, roomVars, invVars
  <2>. QED BY <2>1, <2>3, <2>4, <2>5, MemberWrite, WriteEnds DEF roomVars
<1>2. CASE ExternalGetRoom(c)
  BY <1>2, GoingOn DEF ExternalGetRoom, Steps, AdminSteps, InvitationSteps, DeletionSteps
<1>3. CASE DeleteChatRoom(c)
  <2>1. owner # NULL
    BY <1>0, <1>3 DEF DeleteChatRoom, CallInv, Knows, DeletionSteps
  <2>2. UNCHANGED <<owner, visibility, groupInfo, memberVars, invVars, told>> /\ End(c)
    BY <1>3 DEF DeleteChatRoom
  <2>3. Kept
    BY <2>2 DEF Kept, memberVars, invVars
  <2>4. RowsOK'
    BY <1>0, <1>3, <2>2 DEF RowsOK, DeleteChatRoom, memberVars, invVars
  <2>. QED BY <2>1, <2>2, <2>3, <2>4, MemberWrite, WriteEnds DEF memberVars
<1>4. CASE KickChatMember(c)
  <2>1. owner # NULL
    BY <1>0, <1>4 DEF KickChatMember, CallInv, Knows, DeletionSteps
  <2>2. UNCHANGED <<roomVars, role, locked, invVars, told>> /\ End(c)
    BY <1>4 DEF KickChatMember
  <2>3. Kept
    BY <2>2 DEF Kept, roomVars, invVars
  <2>4. RowsOK'
    BY <1>0, <1>4, <2>2 DEF RowsOK, KickChatMember, roomVars, invVars
  <2>. QED BY <2>1, <2>2, <2>3, <2>4, MemberWrite, WriteEnds DEF roomVars
<1>5. ASSUME NEW r \in Roles, UpdateChatMemberRole(c, r)
      PROVE  RoomInv'
  <2>1. owner # NULL /\ arg[c] \in Users /\ r \in Nat /\ r > 0
    BY <1>0, <1>5, RoomsAssumption DEF UpdateChatMemberRole, CallInv, Knows, DeletionSteps, AdminSteps
  <2>2. UNCHANGED <<roomVars, active, locked, invVars, told>> /\ End(c)
    BY <1>5 DEF UpdateChatMemberRole
  <2>3. role' = [role EXCEPT ![arg[c]] = IF arg[c] \in active THEN r ELSE @]
    BY <1>5 DEF UpdateChatMemberRole
  <2>4. \A u \in Users : role'[u] > 0 <=> role[u] > 0
    BY <1>0, <2>1, <2>3 DEF RowsOK
  <2>5. Kept
    BY <2>2, <2>4 DEF Kept, roomVars, invVars
  <2>6. RowsOK'
    BY <1>0, <2>1, <2>2, <2>3, <2>4 DEF RowsOK, roomVars, invVars
  <2>. QED BY <2>1, <2>2, <2>4, <2>5, <2>6, MemberWrite, WriteEnds DEF roomVars
<1>6. ASSUME NEW i \in Invitations, SendChatInvitation(c, i)
      PROVE  RoomInv'
  <2>1. /\ by[c] \in Users /\ owner # NULL /\ arg[c] \in Users
        /\ role[by[c]] > 0 /\ state[i] = "none"
    BY <1>0, <1>6 DEF SendChatInvitation, CallInv, Knows, DeletionSteps, AdminSteps
  <2>2. UNCHANGED <<roomVars, memberVars, told>> /\ End(c)
    BY <1>6 DEF SendChatInvitation
  <2>3. /\ inviter' = [inviter EXCEPT ![i] = by[c]]
        /\ invitee' = [invitee EXCEPT ![i] = arg[c]]
        /\ state' = [state EXCEPT ![i] = "Pending"]
    BY <1>6 DEF SendChatInvitation
  <2>4. Kept
    BY <1>0, <2>1, <2>2, <2>3 DEF Kept, RowsOK, roomVars, memberVars
  <2>5. RowsOK'
    BY <1>0, <2>1, <2>2, <2>3 DEF RowsOK, roomVars, memberVars
  <2>6. RowInv'
    BY <1>0, <2>1, <2>2, <2>3 DEF RowInv, RowsOK, roomVars, memberVars
  <2>7. AcceptedIsMember'
    BY <1>0, <2>1, <2>2, <2>3 DEF RoomInv, AcceptedIsMember, RowsOK, memberVars
  <2>8. PrivateByInvitation'
    BY <1>0, <2>1, <2>2, <2>3 DEF RoomInv, RowInv, PrivateByInvitation, RowsOK,
       roomVars, memberVars
  <2>. QED BY <2>2, <2>4, <2>5, <2>6, <2>7, <2>8, WriteEnds
<1>7. CASE Settle(c)
  <2>1. arg[c] \in Invitations /\ owner # NULL /\ state[arg[c]] # "none"
    BY <1>0, <1>7 DEF Settle, CallInv, Knows, DeletionSteps, InvitationSteps
  <2>2. UNCHANGED <<roomVars, memberVars, inviter, invitee, told>> /\ End(c)
    BY <1>7 DEF Settle
  <2>3. PICK s \in {"Declined", "Revoked"} : state' = [state EXCEPT ![arg[c]] = s]
    BY <1>7 DEF Settle
  <2>4. Kept
    BY <1>0, <2>1, <2>2, <2>3 DEF Kept, RowsOK, roomVars, memberVars
  <2>5. RowsOK'
    BY <1>0, <2>1, <2>2, <2>3 DEF RowsOK, roomVars, memberVars
  <2>6. RowInv'
    BY <1>0, <2>1, <2>2, <2>3 DEF RowInv, RowsOK, roomVars, memberVars
  <2>7. AcceptedIsMember'
    BY <1>0, <2>1, <2>2, <2>3 DEF RoomInv, AcceptedIsMember, RowsOK, memberVars
  <2>8. PrivateByInvitation'
    BY <1>0, <2>1, <2>2, <2>3 DEF RoomInv, PrivateByInvitation, RowsOK, roomVars,
       memberVars
  <2>. QED BY <2>2, <2>4, <2>5, <2>6, <2>7, <2>8, WriteEnds
<1>8. CASE AcceptUpdate(c)
  BY <1>8, GoingOn DEF AcceptUpdate, Steps, AdminSteps, InvitationSteps, DeletionSteps
<1>9. CASE AcceptGetRoom(c)
  BY <1>9, GoingOn DEF AcceptGetRoom, Steps, AdminSteps, InvitationSteps, DeletionSteps
<1>10. CASE AcceptChatInvitation(c)
  <2>. DEFINE i == arg[c]
              u == by[c]
  <2>1. /\ i \in Invitations /\ u \in Users /\ u \in Parties(i)
        /\ owner # NULL /\ state[i] # "none"
    BY <1>0, <1>10 DEF AcceptChatInvitation, CallInv, Knows, DeletionSteps, InvitationSteps
  <2>2. UNCHANGED <<roomVars, inviter, invitee>> /\ End(c)
    BY <1>10 DEF AcceptChatInvitation
  <2>3. /\ role' = [role EXCEPT ![u] = 1] /\ active' = active \cup {u}
        /\ UNCHANGED locked
        /\ state' = [state EXCEPT ![i] = "Accepted"]
        /\ told' = told \cup {<<i, u>>}
    BY <1>10 DEF AcceptChatInvitation, UpsertMember, RoleMember
  <2>. HIDE DEF i, u
  <2>4. Kept
    BY <1>0, <2>1, <2>2, <2>3 DEF Kept, RowsOK, roomVars
  <2>5. RowsOK'
    BY <1>0, <2>1, <2>2, <2>3 DEF RowsOK, roomVars
  <2>6. RowInv'
    BY <1>0, <2>1, <2>2, <2>3 DEF RowInv, RowsOK, roomVars
  <2>7. AcceptedIsMember'
    <3>. SUFFICES ASSUME NEW j \in Invitations, state'[j] = "Accepted"
                  PROVE  \E v \in Users : <<j, v>> \in told' /\ role'[v] > 0
      BY DEF AcceptedIsMember
    <3>1. CASE j = i
      BY <1>0, <2>1, <2>3, <3>1 DEF RowsOK
    <3>2. CASE j # i
      BY <1>0, <2>1, <2>3, <2>4, <3>2 DEF RoomInv, AcceptedIsMember, Kept, RowsOK
    <3>. QED BY <3>1, <3>2
  <2>8. PrivateByInvitation'
    <3>. SUFFICES ASSUME visibility = "private", NEW v \in Users, role'[v] > 0, v # owner
                  PROVE  \E j \in Invitations : invitee[j] = v /\ <<j, v>> \in told'
      BY <2>2 DEF PrivateByInvitation, roomVars
    <3>1. CASE v = u /\ v = invitee[i]
      BY <2>1, <2>3, <3>1
    <3>2. CASE ~(v = u /\ v = invitee[i])
      \* v has a row already, even if v has accepted: then v is the inviter.
      <4>1. role[v] > 0
        BY <1>0, <2>1, <2>3, <3>2 DEF Parties, RowInv, RowsOK
      <4>. QED BY <4>1, <2>3 DEF RoomInv, PrivateByInvitation
    <3>. QED BY <3>1, <3>2
  <2>. QED BY <2>2, <2>4, <2>5, <2>6, <2>7, <2>8, WriteEnds
<1>11. CASE Fails(c)
  <2>1. RowsUnchanged /\ End(c)
    BY <1>0, <1>11 DEF Fails, RowsUnchanged, RowsOK, roomVars
  <2>. QED BY <2>1, RowsUnchangedKeeps, WriteEnds
<1>12. CASE DeleteInvitations(c)
  <2>1. RowsUnchanged
    BY <1>0, <1>12 DEF DeleteInvitations, RowsUnchanged, RowsOK, roomVars, memberVars
  <2>2. StepsOK'
    BY <1>0, <1>12 DEF DeleteInvitations, StepsOK, Steps, DeletionSteps
  <2>3. CallInv'
    <3>. SUFFICES ASSUME NEW d \in Calls PROVE Knows(d)'
      BY DEF CallInv
    <3>1. CASE d = c
      <4>1. /\ pc'[c] = "purge" /\ by'[c] = by[c]
            /\ \A i \in Invitations : i \in arg'[c] => state[i] # "none"
        BY <1>0, <1>12 DEF DeleteInvitations, StepsOK
      <4>2. by[c] \in Users
        BY <1>0, <1>12 DEF DeleteInvitations, CallInv, Knows
      <4>. QED BY <2>1, <3>1, <4>1, <4>2
           DEF Knows, RowsUnchanged, AdminSteps, InvitationSteps, DeletionSteps, invVars
    <3>2. CASE d # c
      BY <1>0, <1>12, <2>1, <3>2, StillKnows, RowsUnchangedKeeps DEF DeleteInvitations, StepsOK
    <3>. QED BY <3>1, <3>2
  <2>. QED BY <2>1, <2>2, <2>3, RowsUnchangedKeeps DEF RoomInv, TypeOK
<1>13. CASE DeleteAccountCommit(c)
  <2>1. \A i \in Invitations : i \in arg[c] => state[i] # "none"
    BY <1>0, <1>13 DEF DeleteAccountCommit, CallInv, Knows
  <2>2. /\ UNCHANGED <<owner, visibility, deleted, groupInfo, role, inviter, invitee, told>>
        /\ active' \subseteq active /\ locked' \subseteq locked /\ End(c)
    BY <1>13 DEF DeleteAccountCommit, roomVars
  <2>3. state' = [i \in Invitations |-> IF i \in arg[c] THEN "Deleted" ELSE state[i]]
    BY <1>13 DEF DeleteAccountCommit
  <2>4. Kept
    BY <1>0, <2>1, <2>2, <2>3 DEF Kept, RowsOK
  <2>5. RowsOK'
    BY <1>0, <2>2, <2>3 DEF RowsOK
  <2>6. RowInv'
    BY <1>0, <2>1, <2>2, <2>3 DEF RowInv
  <2>7. AcceptedIsMember' /\ PrivateByInvitation'
    BY <2>2, <2>3 DEF RoomInv, AcceptedIsMember, PrivateByInvitation
  <2>. QED BY <2>2, <2>4, <2>5, <2>6, <2>7, WriteEnds
<1>. QED BY <1>1, <1>2, <1>3, <1>4, <1>5, <1>6, <1>7, <1>8, <1>9, <1>10, <1>11,
            <1>12, <1>13 DEF Write

\* createChatRoom, leaveChatRoom and uploadGroupInfo, which have one step.
LEMMA SingleStepKeepsInv ==
  ASSUME RoomInv, NEW u \in Users,
         CreateChatRoom(u) \/ LeaveChatRoom(u) \/ UploadGroupInfo(u)
  PROVE  RoomInv'
<1>0. TypeOK /\ CallInv /\ RowInv /\ RowsOK /\ StepsOK
  BY DEF RoomInv, TypeOK
<1>1. CASE CreateChatRoom(u)
  <2>1. \A c \in Calls : pc[c] \in DeletionSteps \cup {"idle"}
    BY <1>0, <1>1 DEF CreateChatRoom, CallInv, Knows
  <2>2. \A v \in Users : role[v] = 0
    BY <1>0, <1>1 DEF CreateChatRoom, RowInv
  <2>3. \A i \in Invitations : state[i] = "none"
    BY <1>0, <2>2 DEF RowInv
  <2>4. TypeOK'
    BY <1>0, <1>1, RoomsAssumption, <2>2
    DEF CreateChatRoom, TypeOK, RowsOK, StepsOK, RoleOwner, invVars, callVars
  <2>5. CallInv'
    BY <1>0, <1>1, <2>1, RoomsAssumption
    DEF CreateChatRoom, CallInv, Knows, AdminSteps, InvitationSteps, DeletionSteps,
        invVars, callVars
  <2>8. RowInv'
    BY <1>0, <1>1, <2>3, RoomsAssumption DEF CreateChatRoom, RowInv, invVars
  <2>6. AcceptedIsMember'
    BY <1>1, <2>3 DEF CreateChatRoom, AcceptedIsMember, invVars
  <2>7. PrivateByInvitation'
    <3>1. \A v \in Users : role'[v] > 0 => v = owner'
      BY <1>0, <1>1, <2>2 DEF CreateChatRoom, RowsOK
    <3>. QED BY <3>1 DEF PrivateByInvitation
  <2>. QED BY <2>4, <2>5, <2>6, <2>7, <2>8 DEF RoomInv
<1>2. CASE LeaveChatRoom(u) \/ UploadGroupInfo(u)
  <2>1. /\ UNCHANGED <<owner, visibility, deleted, role, locked, invVars, told, callVars>>
        /\ active' \subseteq active /\ groupInfo' \in BOOLEAN
    BY <1>0, <1>2 DEF LeaveChatRoom, UploadGroupInfo, RowsOK, roomVars, memberVars
  <2>2. TypeOK'
    BY <1>0, <2>1 DEF TypeOK, RowsOK, StepsOK, invVars, callVars
  <2>3. CallInv' /\ RowInv'
    BY <1>0, <2>1 DEF CallInv, Knows, RowInv, Parties, invVars, callVars
  <2>4. AcceptedIsMember' /\ PrivateByInvitation'
    BY <2>1 DEF RoomInv, AcceptedIsMember, PrivateByInvitation, invVars
  <2>. QED BY <2>2, <2>3, <2>4 DEF RoomInv
<1>. QED BY <1>1, <1>2

LEMMA StutterKeepsInv == RoomInv /\ UNCHANGED vars => RoomInv'
<1>. SUFFICES ASSUME RoomInv, UNCHANGED vars PROVE RoomInv'
  OBVIOUS
<1>. USE DEF RoomInv, vars, roomVars, memberVars, invVars, callVars
<1>1. TypeOK'
  BY DEF TypeOK, RowsOK, StepsOK
<1>2. CallInv' /\ RowInv'
  BY DEF CallInv, Knows, RowInv, Parties
<1>3. AcceptedIsMember' /\ PrivateByInvitation'
  BY DEF AcceptedIsMember, PrivateByInvitation
<1>. QED BY <1>1, <1>2, <1>3

\* RoomInv is an invariant of the room.
THEOREM RoomInvAlways == Spec => []RoomInv
<1>1. RoomInv /\ [Next]_vars => RoomInv'
  <2>. SUFFICES ASSUME RoomInv, [Next]_vars PROVE RoomInv'
    OBVIOUS
  <2>. QED BY ReadKeepsInv, WriteKeepsInv, SingleStepKeepsInv, StutterKeepsInv DEF Next
<1>. QED BY InitRoomInv, <1>1, PTL DEF Spec

-----------------------------------------------------------------------------
\* Rows and calls keep their types and every active user has a member row,
\* for any number of users, invitations and overlapping calls.
THEOREM RoomsTypeCorrect == Spec => []TypeOK
BY RoomInvAlways, PTL DEF RoomInv

\* However calls overlap and fail, an Accepted invitation comes with the member
\* row and the event that acceptChatInvitation commits together with it.
THEOREM AcceptedIsMemberAlways == Spec => []AcceptedIsMember
BY RoomInvAlways, PTL DEF RoomInv

\* However calls overlap, nobody but the owner gets a row of a private room
\* without an invitation addressed to him.
THEOREM PrivateByInvitationAlways == Spec => []PrivateByInvitation
BY RoomInvAlways, PTL DEF RoomInv

-----------------------------------------------------------------------------
(* What a step may do to a deleted room. *)

\* What DeletedRoomClosed says of a step.
Closed ==
  deleted => /\ Entering' \subseteq Entering
             /\ active' \ active \subseteq {by[c] : c \in Entering}

\* A step that adds no member, and no call to the steps "join" and "room".
LEMMA NobodyEnters ==
  ASSUME active' \subseteq active,
         \A d \in Calls : pc'[d] = pc[d] \/ pc'[d] \notin {"join", "room"}
  PROVE  Closed
BY DEF Closed, Entering

LEMMA NextIsClosed ==
  ASSUME RoomInv, Next
  PROVE  Closed
<1>0. pc \in [Calls -> Steps]
  BY DEF RoomInv, TypeOK, StepsOK
<1>1. ASSUME NEW u \in Users, CreateChatRoom(u) \/ LeaveChatRoom(u) \/ UploadGroupInfo(u)
      PROVE  Closed
  <2>1. UNCHANGED pc
    BY <1>1 DEF CreateChatRoom, LeaveChatRoom, UploadGroupInfo, callVars
  <2>2. CASE CreateChatRoom(u)
    <3>1. Entering' = Entering
      BY <2>1 DEF Entering
    <3>. QED BY <3>1, <2>2 DEF Closed, CreateChatRoom, RoomInv, RowInv
  <2>3. CASE LeaveChatRoom(u) \/ UploadGroupInfo(u)
    BY <2>1, <2>3, NobodyEnters DEF LeaveChatRoom, UploadGroupInfo, memberVars
  <2>. QED BY <1>1, <2>2, <2>3
<1>2. ASSUME NEW c \in Calls, NEW u \in Users, Read(c, u)
      PROVE  Closed
  <2>1. active' = active
    BY <1>2 DEF Read, ReadRoom, ReadExternal, ReadOwner, ReadAdmin, ReadInvitation,
       DeleteAccount, memberVars
  <2>2. CASE ReadRoom(c, u)
    BY <2>2 DEF ReadRoom, Joinable, Live, Closed
  <2>3. ASSUME NEW step, NEW a, Begin(c, step, u, a), step \notin {"join", "room"}
        PROVE  Closed
    BY <1>0, <2>1, <2>3, NobodyEnters DEF Begin
  <2>4. CASE ReadExternal(c, u) \/ ReadOwner(c, u) \/ DeleteAccount(c, u)
    BY <2>3, <2>4 DEF ReadExternal, ReadOwner, DeleteAccount
  <2>5. ASSUME NEW step \in AdminSteps, NEW v \in Users, ReadAdmin(c, step, u, v)
        PROVE  Closed
    BY <2>3, <2>5 DEF ReadAdmin, AdminSteps
  <2>6. ASSUME NEW step \in {"decline", "revoke", "accept"}, NEW i \in Invitations,
               ReadInvitation(c, step, u, i)
        PROVE  Closed
    BY <2>3, <2>6 DEF ReadInvitation
  <2>. QED BY <1>2, <2>2, <2>4, <2>5, <2>6 DEF Read
<1>3. ASSUME NEW c \in Calls, Write(c)
      PROVE  Closed
  <2>1. CASE Join(c) \/ AcceptChatInvitation(c)
    <3>1. c \in Entering /\ active' = active \cup {by[c]} /\ End(c)
      BY <2>1 DEF Join, AcceptChatInvitation, UpsertMember, Entering
    <3>2. Entering' \subseteq Entering
      BY <1>0, <3>1 DEF Entering, End
    <3>. QED BY <3>1, <3>2 DEF Closed
  <2>2. CASE ExternalGetRoom(c) \/ AcceptGetRoom(c)
    BY <2>2 DEF ExternalGetRoom, AcceptGetRoom, Live, Closed
  <2>3. ASSUME active' \subseteq active, End(c)
        PROVE  Closed
    BY <1>0, <2>3, NobodyEnters DEF End
  <2>4. CASE \/ DeleteChatRoom(c) \/ KickChatMember(c) \/ Settle(c) \/ Fails(c)
             \/ DeleteAccountCommit(c)
             \/ \E r \in Roles : UpdateChatMemberRole(c, r)
             \/ \E i \in Invitations : SendChatInvitation(c, i)
    BY <2>3, <2>4 DEF DeleteChatRoom, KickChatMember, Settle, Fails, DeleteAccountCommit,
       UpdateChatMemberRole, SendChatInvitation, memberVars
  <2>5. CASE AcceptUpdate(c) \/ DeleteInvitations(c)
    <3>1. active' = active
      BY <2>5 DEF AcceptUpdate, DeleteInvitations, memberVars
    <3>2. \A d \in Calls : pc'[d] = pc[d] \/ pc'[d] \notin {"join", "room"}
      BY <1>0, <2>5 DEF AcceptUpdate, DeleteInvitations, Goto
    <3>. QED BY <3>1, <3>2, NobodyEnters
  <2>. QED BY <1>3, <2>1, <2>2, <2>4, <2>5 DEF Write
<1>. QED BY <1>1, <1>2, <1>3 DEF Next

\* Whoever still becomes a member of a deleted room had found it live, for any
\* number of overlapping calls.
THEOREM DeletedRoomClosedAlways == Spec => DeletedRoomClosed
<1>1. RoomInv /\ [Next]_vars => [Closed]_vars
  BY NextIsClosed
<1>2. Spec => [][Closed]_vars
  BY <1>1, RoomInvAlways, PTL DEF Spec
<1>. QED BY <1>2, PTL DEF DeletedRoomClosed, Closed

-----------------------------------------------------------------------------
(* Erased invitations. *)

\* An accept that has locked its invitation keeps it from being erased.
HeldInv ==
  \A c \in Calls : pc[c] \in {"updated", "room"} => state[arg[c]] # "Deleted"

\* What ErasedIsDead says of a step.
Dead ==
  \A i \in Invitations : state[i] = "Deleted" =>
    /\ state'[i] = "Deleted"
    /\ \A u \in Users : <<i, u>> \in told' => <<i, u>> \in told

\* A step that erases nothing it should not, and moves no accept forward.
LEMMA HeldKept ==
  ASSUME RoomInv, HeldInv,
         \A d \in Calls : pc'[d] \in {"updated", "room"} =>
           pc[d] \in {"updated", "room"} /\ arg'[d] = arg[d],
         \A i \in Invitations : state'[i] = "Deleted" => state[i] = "Deleted"
  PROVE  HeldInv'
<1>1. \A d \in Calls : pc[d] \in {"updated", "room"} => arg[d] \in Invitations
  BY DEF RoomInv, CallInv, Knows, InvitationSteps
<1>. QED BY <1>1 DEF HeldInv

LEMMA NextKeepsHeld ==
  ASSUME RoomInv, HeldInv, Next
  PROVE  HeldInv' /\ Dead
<1>0. StepsOK /\ RowsOK /\ CallInv
  BY DEF RoomInv, TypeOK
<1>1. ASSUME NEW u \in Users, CreateChatRoom(u) \/ LeaveChatRoom(u) \/ UploadGroupInfo(u)
      PROVE  HeldInv' /\ Dead
  <2>1. UNCHANGED <<pc, arg, state, told>>
    BY <1>1 DEF CreateChatRoom, LeaveChatRoom, UploadGroupInfo, callVars, invVars
  <2>. QED BY <2>1 DEF HeldInv, Dead
<1>2. ASSUME NEW c \in Calls, NEW u \in Users, Read(c, u)
      PROVE  HeldInv' /\ Dead
  <2>1. UNCHANGED <<state, told>>
    BY <1>2 DEF Read, ReadRoom, ReadExternal, ReadOwner, ReadAdmin, ReadInvitation,
       DeleteAccount, invVars
  <2>2. PICK step \in Steps \ {"updated", "room"} : \E a : Begin(c, step, u, a)
    BY <1>2 DEF Read, ReadRoom, ReadExternal, ReadOwner, ReadAdmin, ReadInvitation,
       DeleteAccount, Steps, AdminSteps, DeletionSteps
  <2>3. \A d \in Calls : pc'[d] \in {"updated", "room"} =>
          pc[d] \in {"updated", "room"} /\ arg'[d] = arg[d]
    BY <1>0, <2>2 DEF Begin, StepsOK
  <2>. QED BY <2>1, <2>3, HeldKept DEF Dead
<1>3. ASSUME NEW c \in Calls, Write(c)
      PROVE  HeldInv' /\ Dead
  <2>1. ASSUME End(c),
               \A i \in Invitations : state[i] = "Deleted" <=> state'[i] = "Deleted",
               told' = told
        PROVE  HeldInv' /\ Dead
    <3>1. \A d \in Calls : pc'[d] \in {"updated", "room"} =>
            pc[d] \in {"updated", "room"} /\ arg'[d] = arg[d]
      BY <1>0, <2>1 DEF End, StepsOK
    <3>. QED BY <2>1, <3>1, HeldKept DEF Dead
  <2>2. CASE \/ Join(c) \/ DeleteChatRoom(c) \/ KickChatMember(c) \/ Fails(c)
             \/ \E r \in Roles : UpdateChatMemberRole(c, r)
    BY <2>1, <2>2 DEF Join, DeleteChatRoom, KickChatMember, Fails, UpdateChatMemberRole,
       invVars
  <2>3. ASSUME NEW i \in Invitations, SendChatInvitation(c, i)
        PROVE  HeldInv' /\ Dead
    BY <1>0, <2>1, <2>3 DEF SendChatInvitation, RowsOK
  <2>4. CASE Settle(c)
    BY <1>0, <2>1, <2>4 DEF Settle, RowsOK
  <2>5. CASE ExternalGetRoom(c) \/ AcceptUpdate(c) \/ AcceptGetRoom(c)
    <3>1. UNCHANGED <<state, told, arg>>
      BY <2>5 DEF ExternalGetRoom, AcceptUpdate, AcceptGetRoom, Goto, invVars
    <3>2. \A d \in Calls : pc'[d] \in {"updated", "room"} => state[arg[d]] # "Deleted"
      BY <1>0, <2>5 DEF ExternalGetRoom, AcceptUpdate, AcceptGetRoom, Goto, StepsOK, HeldInv
    <3>. QED BY <3>1, <3>2 DEF HeldInv, Dead
  <2>6. CASE AcceptChatInvitation(c)
    <3>1. /\ End(c) /\ state' = [state EXCEPT ![arg[c]] = "Accepted"]
          /\ told' = told \cup {<<arg[c], by[c]>>}
      BY <2>6 DEF AcceptChatInvitation
    <3>2. state[arg[c]] # "Deleted" /\ arg[c] \in Invitations
      BY <1>0, <2>6 DEF AcceptChatInvitation, HeldInv, CallInv, Knows, InvitationSteps
    <3>3. \A d \in Calls : pc'[d] \in {"updated", "room"} =>
            pc[d] \in {"updated", "room"} /\ arg'[d] = arg[d]
      BY <1>0, <3>1 DEF End, StepsOK
    <3>4. HeldInv'
      BY <1>0, <3>1, <3>3, HeldKept DEF RowsOK
    <3>. QED BY <1>0, <3>1, <3>2, <3>4 DEF Dead, RowsOK
  <2>7. CASE DeleteInvitations(c)
    <3>1. UNCHANGED <<state, told>>
      BY <2>7 DEF DeleteInvitations, invVars
    <3>2. \A d \in Calls : pc'[d] \in {"updated", "room"} =>
            pc[d] \in {"updated", "room"} /\ arg'[d] = arg[d]
      BY <1>0, <2>7 DEF DeleteInvitations, StepsOK
    <3>. QED BY <3>1, <3>2, HeldKept DEF Dead
  <2>8. CASE DeleteAccountCommit(c)
    <3>1. /\ state' = [i \in Invitations |-> IF i \in arg[c] THEN "Deleted" ELSE state[i]]
          /\ told' = told /\ End(c) /\ pc[c] = "purge"
          /\ \A i \in arg[c] : ~InvitationLocked(c, i)
      BY <2>8 DEF DeleteAccountCommit
    <3>2. HeldInv'
      <4>. SUFFICES ASSUME NEW d \in Calls, pc'[d] \in {"updated", "room"}
                    PROVE  state'[arg'[d]] # "Deleted"
        BY DEF HeldInv
      <4>1. d # c /\ pc'[d] = pc[d] /\ arg'[d] = arg[d]
        BY <1>0, <3>1 DEF End, StepsOK
      <4>2. arg[d] \in Invitations /\ state[arg[d]] # "Deleted"
        BY <1>0, <4>1 DEF HeldInv, CallInv, Knows, InvitationSteps
      \* The DELETE has waited for the invitations that are locked.
      <4>3. arg[d] \notin arg[c]
        BY <3>1, <4>1 DEF InvitationLocked
      <4>. QED BY <3>1, <4>1, <4>2, <4>3
    <3>. QED BY <3>1, <3>2 DEF Dead
  <2>. QED BY <1>3, <2>2, <2>3, <2>4, <2>5, <2>6, <2>7, <2>8 DEF Write
<1>. QED BY <1>1, <1>2, <1>3 DEF Next

\* No accept that overlaps deleteAccount uses an invitation the deletion has taken,
\* for any number of users, invitations and calls.
THEOREM ErasedIsDeadAlways == Spec => ErasedIsDead
<1>1. Init => HeldInv
  BY DEF Init, HeldInv
<1>2. RoomInv /\ HeldInv /\ [Next]_vars => HeldInv' /\ [Dead]_vars
  <2>1. HeldInv /\ UNCHANGED vars => HeldInv'
    BY DEF HeldInv, vars, callVars, invVars
  <2>. QED BY <2>1, NextKeepsHeld
<1>3. Spec => [][Dead]_vars
  BY <1>1, <1>2, RoomInvAlways, PTL DEF Spec
<1>. QED BY <1>3, PTL DEF ErasedIsDead, Dead
=============================================================================
