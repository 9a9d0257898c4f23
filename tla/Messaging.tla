----------------------------- MODULE Messaging ------------------------------
(***************************************************************************)
(* The fan-out of MLS messages and commits to the devices of a room's      *)
(* members: sendMessage, sendCommit and sendExternalCommit, as they run    *)
(* beside each other, beside joins, departures and new devices, with       *)
(* appends that fail and a server that stops.                              *)
(*                                                                         *)
(* A call reads the members once and then appends one event per member,    *)
(* each append reading the member's devices and writing one outbox row per *)
(* device; none of it is in a transaction.  All events of a room share a   *)
(* segment of each device, in which rows are sent in the order of their    *)
(* created_at (see Outbox).  A connection's packets are handled one after  *)
(* the other: call <<k, n>> is the n-th packet of connection k.            *)
(***************************************************************************)
EXTENDS Naturals, FiniteSets

CONSTANTS
  Users,
  Devices,     \* device ids
  Conns,       \* authenticated connections
  UserOf,      \* the user of each connection
  Packets,     \* bound: packets of a connection
  Kinds,       \* the calls that are made
  MaxChanges,  \* bound: changes of members, friendship, devices and room
  MaxCrashes   \* bound: server stops

ASSUME MessagingAssumption ==
  /\ UserOf \in [Conns -> Users]
  /\ Packets \in Nat /\ MaxChanges \in Nat /\ MaxCrashes \in Nat
  /\ Kinds \subseteq {"message", "commit", "external"}

VARIABLES
  direct,    \* the room has a direct_rooms row
  deleted,   \* its deleted_at is set
  active,    \* users whose chat_members row has left_at IS NULL
  friends,   \* of a direct room: AreFriends of its two users
  sessions,  \* <<u, d>>: an authenticated auth_sessions row of u with device d
  tokens,    \* <<u, d>>: a device_push_tokens row of u with device d
  outbox,    \* rows of the room's segments
  clock,     \* the clock: every reading is later than the ones before
  pc, kind,  \* each call
  to,        \* members it has still to append for
  now,       \* created_at of the event it appends
  member,    \* the member it appends for, as a set
  left,      \* that member's devices still without a row
  due,       \* history: the devices of its members when it read them
  changes, crashes

envVars == <<direct, deleted, active, friends, sessions, tokens, changes>>
callVars == <<pc, kind, to, now, member, left, due>>
vars == <<envVars, outbox, clock, callVars, crashes>>

Calls == Conns \X (1..Packets)
Sender(c) == UserOf[c[1]]

Ended == {"answered", "failed", "lost"}

\* listTargetDeviceIDs: the UNION of the two tables.
Targets(u) == {d \in Devices : <<u, d>> \in sessions \cup tokens}

Init ==
  /\ active = Users
  /\ direct \in BOOLEAN /\ friends = direct /\ deleted = FALSE
  /\ sessions \in {S \in SUBSET (Users \X Devices) :
                     \A d \in Devices : Cardinality({p \in S : p[2] = d}) = 1}
  /\ tokens = {}
  /\ outbox = {} /\ clock = 0
  /\ pc = [c \in Calls |-> "new"]
  /\ kind = [c \in Calls |-> "none"]
  /\ to = [c \in Calls |-> {}]
  /\ now = [c \in Calls |-> 0]
  /\ member = [c \in Calls |-> {}]
  /\ left = [c \in Calls |-> {}]
  /\ due = [c \in Calls |-> {}]
  /\ changes = 0 /\ crashes = 0

\* The call goes on to step; what is local to an append, or to a call, ends
\* with it.
Goto(c, step) ==
  /\ pc' = [pc EXCEPT ![c] = step]
  /\ to' = [to EXCEPT ![c] = IF step \in Ended THEN {} ELSE @]
  /\ now' = [now EXCEPT ![c] = 0]
  /\ member' = [member EXCEPT ![c] = {}]
  /\ left' = [left EXCEPT ![c] = {}]

-----------------------------------------------------------------------------
(* A call reads the members and checks what it has to. *)

\* Mutation: the packets of a batch are handled concurrently.
InTurnNever(c) == TRUE

\* handlePackets: the packet before this one has been handled.
InTurn(c) == c[2] > 1 => pc[<<c[1], c[2] - 1>>] \in Ended

\* A direct room that is deleted is a direct room no more.
IsDirectRoom == direct /\ ~deleted

\* The step after the members are read.  Only sendMessage asks whether its sender is
\* one of them.  sendExternalCommit has found the room first, one that is not deleted
\* and is public, as no direct room is; a deletion in between could as well have come
\* after the members were read.
AfterMembers(c, k) ==
  CASE k = "message" -> IF Sender(c) \in active THEN "check" ELSE "failed"
    [] k = "external" -> IF direct \/ deleted THEN "failed" ELSE "join"
    [] k = "commit" -> "fanout"

\* ListActiveRoomMemberPublicKeys. A message goes to its sender's devices as
\* well, a commit does not.
ListMembers(c, k) ==
  LET receivers == IF k = "message" THEN active ELSE active \ {Sender(c)} IN
  /\ pc[c] = "new" /\ InTurn(c)
  /\ pc' = [pc EXCEPT ![c] = AfterMembers(c, k)]
  /\ kind' = [kind EXCEPT ![c] = k]
  /\ to' = [to EXCEPT ![c] = IF pc'[c] = "failed" THEN {} ELSE receivers]
  /\ due' = [due EXCEPT ![c] = {p \in sessions : p[1] \in receivers}]
  /\ UNCHANGED <<envVars, outbox, clock, now, member, left, crashes>>

\* A message in a direct room: two members were read, ...
CheckDirect(c) ==
  /\ pc[c] = "check"
  /\ Goto(c, IF ~IsDirectRoom THEN "fanout"
             ELSE IF Cardinality(to[c]) = 2 THEN "friends" ELSE "failed")
  /\ UNCHANGED <<envVars, outbox, clock, kind, due, crashes>>

\* ... who are friends.
CheckFriends(c) ==
  /\ pc[c] = "friends"
  /\ Goto(c, IF friends THEN "fanout" ELSE "failed")
  /\ UNCHANGED <<envVars, outbox, clock, kind, due, crashes>>

\* sendExternalCommit: the joiner becomes a member after the members are read.
JoinExternal(c) ==
  /\ pc[c] = "join"
  /\ active' = active \cup {Sender(c)}
  /\ Goto(c, "fanout")
  /\ UNCHANGED <<direct, deleted, friends, sessions, tokens, changes, outbox, clock, kind,
                 due, crashes>>

\* A statement before the fan-out fails.
ReadFails(c) ==
  /\ pc[c] \in {"check", "friends", "join"}
  /\ Goto(c, "failed")
  /\ UNCHANGED <<envVars, outbox, clock, kind, due, crashes>>

-----------------------------------------------------------------------------
(* The fan-out. *)

\* appendEvent for one member, as far as the list of its devices.
AppendEvent(c, u) ==
  /\ pc[c] = "fanout" /\ u \in to[c]
  /\ clock' = clock + 1
  /\ now' = [now EXCEPT ![c] = clock + 1]
  /\ to' = [to EXCEPT ![c] = @ \ {u}]
  /\ member' = [member EXCEPT ![c] = {u}]
  /\ left' = [left EXCEPT ![c] = Targets(u)]
  /\ pc' = [pc EXCEPT ![c] = "append"]
  /\ UNCHANGED <<envVars, outbox, kind, due, crashes>>

Row(c, u, d) == [call |-> c, user |-> u, device |-> d, createdAt |-> now[c]]

\* The INSERT for one device.
InsertOutbox(c, d) ==
  /\ pc[c] = "append" /\ d \in left[c]
  /\ outbox' = outbox \cup {Row(c, u, d) : u \in member[c]}
  /\ left' = [left EXCEPT ![c] = @ \ {d}]
  /\ UNCHANGED <<envVars, clock, pc, kind, to, now, member, due, crashes>>

\* appendEvent returns.
Appended(c, step) ==
  /\ pc[c] = "append"
  /\ Goto(c, step)
  /\ UNCHANGED <<envVars, outbox, clock, kind, due, crashes>>

AppendDone(c) == left[c] = {} /\ Appended(c, "fanout")

\* Mutation: sendMessage goes on after an error, as sendCommit does.
AppendFailsIgnored(c) == Appended(c, "fanout")

\* A statement of the append fails: sendMessage returns the error and leaves
\* the rows it has written; the commits go on with the next member.
AppendFails(c) == Appended(c, IF kind[c] = "message" THEN "failed" ELSE "fanout")

Answer(c) ==
  /\ pc[c] = "fanout" /\ to[c] = {}
  /\ Goto(c, "answered")
  /\ UNCHANGED <<envVars, outbox, clock, kind, due, crashes>>

\* The server stops: calls in progress are never answered.
Crash ==
  /\ crashes < MaxCrashes
  /\ crashes' = crashes + 1
  /\ pc' = [c \in Calls |-> IF pc[c] \in Ended \cup {"new"} THEN pc[c] ELSE "lost"]
  /\ to' = [c \in Calls |-> {}]
  /\ now' = [c \in Calls |-> 0]
  /\ member' = [c \in Calls |-> {}]
  /\ left' = [c \in Calls |-> {}]
  /\ UNCHANGED <<envVars, outbox, clock, kind, due>>

-----------------------------------------------------------------------------
(* What changes beside the calls. *)

Change == changes < MaxChanges /\ changes' = changes + 1

\* joinChatRoom, acceptChatInvitation; leaveChatRoom, kickChatMember (see Rooms).
ChangeMember(u) ==
  /\ Change
  /\ active' = IF u \in active THEN active \ {u} ELSE active \cup {u}
  /\ UNCHANGED <<direct, deleted, friends, sessions, tokens, outbox, clock, callVars, crashes>>

\* acceptFriendRequest, removeFriend (see Friends).
ChangeFriendship ==
  /\ direct /\ Change
  /\ friends' = ~friends
  /\ UNCHANGED <<direct, deleted, active, sessions, tokens, outbox, clock, callVars, crashes>>

\* deleteChatRoom: the members stay.
DeleteRoom ==
  /\ ~deleted /\ Change
  /\ deleted' = TRUE
  /\ UNCHANGED <<direct, active, friends, sessions, tokens, outbox, clock, callVars, crashes>>

\* MarkAuthenticated; a session's row is never deleted by the server.
Authenticate(u, d) ==
  /\ Change
  /\ <<u, d>> \notin sessions
  /\ sessions' = sessions \cup {<<u, d>>}
  /\ UNCHANGED <<direct, deleted, active, friends, tokens, outbox, clock, callVars, crashes>>

\* registerDevicePushToken takes the device from the session the connection
\* holds, whether that session is authenticated or not (see Sessions).
RegisterDevicePushToken(u, d) ==
  /\ Change
  /\ <<u, d>> \notin tokens
  /\ tokens' = tokens \cup {<<u, d>>}
  /\ UNCHANGED <<direct, deleted, active, friends, sessions, outbox, clock, callVars, crashes>>

\* A session of the device, and with it the device's share of the fan-out, stays.
RemoveDevice(u, d) ==
  /\ Change
  /\ <<u, d>> \in tokens
  /\ tokens' = tokens \ {<<u, d>>}
  /\ UNCHANGED <<direct, deleted, active, friends, sessions, outbox, clock, callVars, crashes>>

-----------------------------------------------------------------------------
Step(c) ==
  \/ \E k \in Kinds : ListMembers(c, k)
  \/ CheckDirect(c) \/ CheckFriends(c) \/ JoinExternal(c) \/ ReadFails(c)
  \/ \E u \in Users : AppendEvent(c, u)
  \/ \E d \in Devices : InsertOutbox(c, d)
  \/ AppendDone(c) \/ AppendFails(c) \/ Answer(c)

Next ==
  \/ \E c \in Calls : Step(c)
  \/ \E u \in Users :
       \/ ChangeMember(u)
       \/ \E d \in Devices :
            Authenticate(u, d) \/ RegisterDevicePushToken(u, d) \/ RemoveDevice(u, d)
  \/ ChangeFriendship \/ DeleteRoom
  \/ Crash

Spec == Init /\ [][Next]_vars

-----------------------------------------------------------------------------
Steps == {"new", "check", "friends", "join", "fanout", "append"} \cup Ended

\* Every variable holds a value of the column or local it stands for.
TypeOK ==
  /\ direct \in BOOLEAN /\ deleted \in BOOLEAN /\ friends \in BOOLEAN /\ active \subseteq Users
  /\ sessions \subseteq Users \X Devices /\ tokens \subseteq Users \X Devices
  /\ outbox \subseteq [call : Calls, user : Users, device : Devices, createdAt : Nat]
  /\ clock \in Nat
  /\ pc \in [Calls -> Steps]
  /\ kind \in [Calls -> Kinds \cup {"none"}]
  /\ to \in [Calls -> SUBSET Users] /\ member \in [Calls -> SUBSET Users]
  /\ now \in [Calls -> Nat]
  /\ left \in [Calls -> SUBSET Devices]
  /\ due \in [Calls -> SUBSET (Users \X Devices)]
  /\ changes \in Nat /\ crashes \in Nat

\* A sendMessage that is answered without an error has left a row for every
\* device its members had when it read them, whatever members and devices
\* came and went meanwhile (SendMessage returns the first append's error).
AnsweredReachesAll ==
  \A c \in Calls : pc[c] = "answered" /\ kind[c] = "message" =>
    \A p \in due[c] : \E r \in outbox : r.call = c /\ r.user = p[1] /\ r.device = p[2]

\* A device gets the messages and commits of one connection in the order they
\* were sent, and each of them once for a user, although every member's event
\* has a created_at of its own and calls fail or are cut off half-way
\* (handlePackets, appendEvent).
SenderOrder ==
  \A r, q \in outbox :
    r.device = q.device /\ r.user = q.user /\ r.call[1] = q.call[1] =>
      /\ r.call[2] < q.call[2] => r.createdAt < q.createdAt
      /\ r.call = q.call => r = q
=============================================================================
