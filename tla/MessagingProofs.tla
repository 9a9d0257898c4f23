--------------------------- MODULE MessagingProofs --------------------------
(***************************************************************************)
(* Proofs about Messaging, for any number of users, devices, connections   *)
(* and packets, about ListPages, for tables of any size, and about Usage,  *)
(* for any number of reports.  The three share nothing.                    *)
(***************************************************************************)
EXTENDS Messaging, ListPages, Usage, FiniteSetTheorems, TLAPS

-----------------------------------------------------------------------------
(* Messaging: the inductive invariant *)

\* The packets of a connection are handled one after the other, and an append is
\* for one member, who will not come up again.
TurnsOK ==
  /\ \A c, d \in Calls : c[1] = d[1] /\ d[2] < c[2] /\ pc[c] # "new" => pc[d] \in Ended
  /\ \A c \in Calls : pc[c] = "append" => \E u \in Users \ to[c] : member[c] = {u}

\* A device that is due to a message is still to be read, still to be written, or
\* has its row; sessions do not go away.
DueOK ==
  \A c \in Calls :
    /\ due[c] \subseteq sessions
    /\ kind[c] = "message" =>
         \A p \in due[c] :
           \/ pc[c] \in {"check", "friends", "join", "fanout", "append"} /\ p[1] \in to[c]
           \/ pc[c] = "append" /\ member[c] = {p[1]} /\ p[2] \in left[c]
           \/ \E r \in outbox : r.call = c /\ r.user = p[1] /\ r.device = p[2]
           \/ pc[c] \in {"failed", "lost"}

\* What an append still has to write is not there yet, and its time is later than
\* that of all rows of earlier packets.
RowsOK ==
  /\ \A r \in outbox : r.createdAt <= clock /\ pc[r.call] # "new" /\ r.user \notin to[r.call]
  /\ \A c \in Calls : pc[c] = "append" =>
       /\ now[c] <= clock
       /\ \A r \in outbox :
            /\ r.call[1] = c[1] /\ r.call # c => r.createdAt < now[c]
            /\ r.call = c /\ r.user \in member[c] => r.device \notin left[c]

MessagingInv == TypeOK /\ TurnsOK /\ DueOK /\ RowsOK /\ SenderOrder

-----------------------------------------------------------------------------
(* Messaging: the steps *)

\* A step beside the calls takes no session away.
LEMMA ChangeKeepsInv ==
  ASSUME MessagingInv, TypeOK', sessions \subseteq sessions', UNCHANGED <<callVars, outbox, clock>>
  PROVE  MessagingInv'
<1> USE DEF callVars, MessagingInv
<1>1. TurnsOK' /\ DueOK'
  BY DEF TurnsOK, DueOK
<1>2. RowsOK' /\ SenderOrder'
  BY DEF RowsOK, SenderOrder
<1> QED BY <1>1, <1>2

LEMMA ChangesKeepInv ==
  ASSUME MessagingInv,
         \/ \E u \in Users :
              \/ ChangeMember(u)
              \/ \E d \in Devices :
                   Authenticate(u, d) \/ RegisterDevicePushToken(u, d) \/ RemoveDevice(u, d)
         \/ ChangeFriendship \/ DeleteRoom
  PROVE  MessagingInv'
<1>1. UNCHANGED <<direct, callVars, outbox, clock, crashes>> /\ changes' = changes + 1
  BY DEF ChangeMember, Authenticate, RegisterDevicePushToken, RemoveDevice, ChangeFriendship,
         DeleteRoom, Change
<1>2. /\ sessions \subseteq sessions' /\ sessions' \subseteq Users \X Devices
      /\ tokens' \subseteq Users \X Devices /\ active' \subseteq Users
  <2> USE DEF MessagingInv, TypeOK
  <2>1. ASSUME NEW u \in Users, ChangeMember(u)
        PROVE  active' \subseteq Users /\ UNCHANGED <<sessions, tokens>>
    BY <2>1 DEF ChangeMember
  <2>2. ASSUME NEW u \in Users, NEW d \in Devices, Authenticate(u, d)
        PROVE  /\ sessions \subseteq sessions' /\ sessions' \subseteq Users \X Devices
               /\ UNCHANGED <<active, tokens>>
    BY <2>2 DEF Authenticate
  <2>3. ASSUME NEW u \in Users, NEW d \in Devices, RegisterDevicePushToken(u, d) \/ RemoveDevice(u, d)
        PROVE  tokens' \subseteq Users \X Devices /\ UNCHANGED <<active, sessions>>
    BY <2>3 DEF RegisterDevicePushToken, RemoveDevice
  <2>4. ASSUME ChangeFriendship \/ DeleteRoom
        PROVE  UNCHANGED <<active, sessions, tokens>>
    BY <2>4 DEF ChangeFriendship, DeleteRoom
  <2> QED BY <2>1, <2>2, <2>3, <2>4
<1>3. friends' \in BOOLEAN /\ deleted' \in BOOLEAN
  BY DEF MessagingInv, TypeOK,
         ChangeMember, Authenticate, RegisterDevicePushToken, RemoveDevice, ChangeFriendship,
         DeleteRoom
<1>4. TypeOK'
  BY <1>1, <1>2, <1>3 DEF MessagingInv, TypeOK, callVars
<1> QED BY <1>1, <1>2, <1>4, ChangeKeepsInv

\* The members are read: nothing of the call is there yet.
LEMMA ListMembersKeepsInv ==
  ASSUME MessagingInv, NEW c \in Calls, NEW k \in Kinds, ListMembers(c, k)
  PROVE  MessagingInv'
<1> DEFINE receivers == IF k = "message" THEN active ELSE active \ {Sender(c)}
<1> USE DEF MessagingInv
<1>1. /\ pc[c] = "new" /\ InTurn(c)
      /\ pc' = [pc EXCEPT ![c] = AfterMembers(c, k)]
      /\ kind' = [kind EXCEPT ![c] = k]
      /\ to' = [to EXCEPT ![c] = IF pc'[c] = "failed" THEN {} ELSE receivers]
      /\ due' = [due EXCEPT ![c] = {p \in sessions : p[1] \in receivers}]
      /\ UNCHANGED <<direct, deleted, active, friends, sessions, tokens, changes, outbox, clock, now,
                     member, left, crashes>>
  BY DEF ListMembers, envVars
<1>2. AfterMembers(c, k) \in {"failed", "check", "fanout", "join"}
  BY MessagingAssumption DEF AfterMembers
<1>3. receivers \subseteq Users
  BY DEF TypeOK
<1> HIDE DEF receivers
<1>4. TypeOK'
  <2>1. pc' \in [Calls -> Steps] /\ kind' \in [Calls -> Kinds \cup {"none"}]
    BY <1>1, <1>2 DEF TypeOK, Steps, Ended
  <2>2. to' \in [Calls -> SUBSET Users]
    BY <1>1, <1>3 DEF TypeOK
  <2>3. due' \in [Calls -> SUBSET (Users \X Devices)]
    BY <1>1 DEF TypeOK
  <2> QED BY <1>1, <2>1, <2>2, <2>3 DEF TypeOK
<1>5. /\ pc'[c] \in {"failed", "check", "fanout", "join"} /\ kind'[c] = k
      /\ to'[c] = IF pc'[c] = "failed" THEN {} ELSE receivers
      /\ due'[c] = {p \in sessions : p[1] \in receivers}
      /\ \A d \in Calls \ {c} : pc'[d] = pc[d] /\ kind'[d] = kind[d] /\ to'[d] = to[d] /\ due'[d] = due[d]
  BY <1>1, <1>2 DEF TypeOK
<1>6. TurnsOK'
  <2>1. ASSUME NEW d \in Calls, c[1] = d[1], d[2] < c[2]
        PROVE  pc[d] \in Ended
    <3>1. /\ c[1] \in Conns /\ c[2] \in 1..Packets /\ d[2] \in 1..Packets /\ c = <<c[1], c[2]>>
          /\ d = <<d[1], d[2]>> /\ Packets \in Nat
      BY MessagingAssumption DEF Calls
    <3>2. c[2] > 1 /\ <<c[1], c[2] - 1>> \in Calls /\ pc[<<c[1], c[2] - 1>>] \in Ended
      BY <1>1, <2>1, <3>1 DEF InTurn, Calls
    <3>3. CASE d[2] = c[2] - 1
      BY <2>1, <3>1, <3>2, <3>3
    <3>4. CASE d[2] < c[2] - 1
      <4> DEFINE b == <<c[1], c[2] - 1>>
      <4>1. b \in Calls /\ b[1] = d[1] /\ d[2] < b[2] /\ pc[b] # "new"
        BY <2>1, <3>2, <3>4 DEF Ended
      <4> QED BY <4>1 DEF TurnsOK
    <3> QED BY <2>1, <3>1, <3>3, <3>4
  <2>2. pc[c] \notin Ended /\ pc[c] # "append" /\ pc'[c] # "append"
    BY <1>1, <1>5 DEF Ended
  <2>3. \A d, e \in Calls : d[1] = e[1] /\ e[2] < d[2] /\ pc'[d] # "new" => pc'[e] \in Ended
    <3> SUFFICES ASSUME NEW d \in Calls, NEW e \in Calls, d[1] = e[1], e[2] < d[2], pc'[d] # "new"
                 PROVE  pc'[e] \in Ended
      OBVIOUS
    <3>1. CASE d = c
      <4>1. e # c
        BY <3>1, MessagingAssumption DEF Calls
      <4> QED BY <2>1, <3>1, <4>1, <1>5
    <3>2. CASE d # c
      <4>1. pc[e] \in Ended
        BY <3>2, <1>5 DEF TurnsOK
      <4> QED BY <4>1, <2>2, <1>5
    <3> QED BY <3>1, <3>2
  <2> QED BY <1>1, <1>5, <2>2, <2>3 DEF TurnsOK
<1>7. DueOK'
  BY <1>1, <1>5 DEF DueOK
<1>8. RowsOK' /\ SenderOrder'
  <2>1. \A r \in outbox : r.call \in Calls /\ r.call # c
    BY <1>1 DEF RowsOK, TypeOK
  <2> QED BY <1>1, <1>5, <2>1 DEF RowsOK, SenderOrder
<1> QED BY <1>4, <1>6, <1>7, <1>8

\* A call goes on to its fan-out or to its end.
LEMMA GotoKeepsInv ==
  ASSUME MessagingInv, NEW c \in Calls, NEW step \in {"friends", "fanout", "failed", "answered"},
         Goto(c, step), pc[c] \in {"check", "friends", "join", "fanout", "append"},
         active' \subseteq Users,
         UNCHANGED <<direct, deleted, friends, sessions, tokens, changes, outbox, clock, kind, due, crashes>>,
         pc[c] = "append" /\ step = "fanout" /\ kind[c] = "message" => left[c] = {},
         step = "friends" => pc[c] = "check",
         step = "answered" => pc[c] = "fanout" /\ to[c] = {}
  PROVE  MessagingInv'
<1> USE DEF MessagingInv
<1>1. TypeOK'
  BY DEF TypeOK, Goto, Steps, Ended
<1>2. /\ pc'[c] = step /\ to'[c] = IF step \in {"friends", "fanout"} THEN to[c] ELSE {}
      /\ \A d \in Calls \ {c} : /\ pc'[d] = pc[d] /\ to'[d] = to[d] /\ now'[d] = now[d]
                                /\ member'[d] = member[d] /\ left'[d] = left[d]
  BY DEF TypeOK, Goto, Ended
<1>3. TurnsOK'
  BY <1>2 DEF TurnsOK, Ended
<1>4. DueOK'
  BY <1>2 DEF DueOK
<1>5. RowsOK' /\ SenderOrder'
  BY <1>2 DEF RowsOK, SenderOrder, TypeOK
<1> QED BY <1>1, <1>3, <1>4, <1>5

LEMMA GotosKeepInv ==
  ASSUME MessagingInv, NEW c \in Calls,
         \/ CheckDirect(c) \/ CheckFriends(c) \/ JoinExternal(c) \/ ReadFails(c)
         \/ AppendDone(c) \/ AppendFails(c) \/ Answer(c)
  PROVE  MessagingInv'
<1>1. active' \subseteq Users
  <2>1. Sender(c) \in Users
    BY MessagingAssumption DEF Sender, Calls
  <2> QED BY <2>1 DEF MessagingInv, TypeOK, CheckDirect, CheckFriends, JoinExternal, ReadFails, AppendDone,
            AppendFails, Appended, Answer, envVars
<1> USE <1>1, GotoKeepsInv DEF envVars
<1>2. CASE CheckDirect(c)
  <2>1. PICK step \in {"friends", "fanout", "failed"} : Goto(c, step)
    BY <1>2 DEF CheckDirect
  <2> QED BY <1>2, <2>1 DEF CheckDirect
<1>8. CASE CheckFriends(c)
  <2>1. PICK step \in {"fanout", "failed"} : Goto(c, step)
    BY <1>8 DEF CheckFriends
  <2> QED BY <1>8, <2>1 DEF CheckFriends
<1>3. CASE JoinExternal(c)
  BY <1>3 DEF JoinExternal
<1>4. CASE ReadFails(c)
  BY <1>4 DEF ReadFails
<1>5. CASE AppendDone(c)
  BY <1>5 DEF AppendDone, Appended
<1>6. CASE AppendFails(c)
  <2>1. CASE kind[c] = "message"
    BY <1>6, <2>1 DEF AppendFails, Appended
  <2>2. CASE kind[c] # "message"
    BY <1>6, <2>2 DEF AppendFails, Appended
  <2> QED BY <2>1, <2>2
<1>7. CASE Answer(c)
  BY <1>7 DEF Answer
<1> QED BY <1>2, <1>3, <1>4, <1>5, <1>6, <1>7, <1>8

\* The member's devices are read: among them every one that is due.
LEMMA AppendEventKeepsInv ==
  ASSUME MessagingInv, NEW c \in Calls, NEW u \in Users, AppendEvent(c, u)
  PROVE  MessagingInv'
<1> USE DEF MessagingInv
<1>1. /\ pc[c] = "fanout" /\ u \in to[c] /\ clock' = clock + 1 /\ clock \in Nat
      /\ UNCHANGED <<direct, deleted, active, friends, sessions, tokens, changes, outbox, kind, due, crashes>>
  BY DEF AppendEvent, envVars, TypeOK
<1>2. TypeOK'
  <2>1. Targets(u) \subseteq Devices
    BY DEF Targets
  <2> QED BY <2>1 DEF AppendEvent, envVars, TypeOK, Steps
<1>3. /\ pc'[c] = "append" /\ now'[c] = clock + 1 /\ to'[c] = to[c] \ {u}
      /\ member'[c] = {u} /\ left'[c] = Targets(u)
      /\ \A d \in Calls \ {c} : /\ pc'[d] = pc[d] /\ to'[d] = to[d] /\ now'[d] = now[d]
                                /\ member'[d] = member[d] /\ left'[d] = left[d]
  BY DEF AppendEvent, TypeOK
<1>4. TurnsOK'
  BY <1>1, <1>3 DEF TurnsOK, Ended
<1>5. DueOK'
  <2>1. ASSUME NEW p \in due[c], p[1] = u
        PROVE  p[2] \in Targets(u)
    <3>1. p \in sessions /\ p \in Users \X Devices
      BY DEF DueOK, TypeOK
    <3>2. p = <<u, p[2]>> /\ p[2] \in Devices
      BY <2>1, <3>1
    <3> QED BY <3>1, <3>2 DEF Targets
  <2>2. ASSUME NEW d \in Calls, d # c
        PROVE  /\ due'[d] \subseteq sessions'
               /\ kind'[d] = "message" =>
                    \A p \in due'[d] :
                      \/ pc'[d] \in {"check", "friends", "join", "fanout", "append"} /\ p[1] \in to'[d]
                      \/ pc'[d] = "append" /\ member'[d] = {p[1]} /\ p[2] \in left'[d]
                      \/ \E r \in outbox' : r.call = d /\ r.user = p[1] /\ r.device = p[2]
                      \/ pc'[d] \in {"failed", "lost"}
    BY <1>1, <1>3, <2>2 DEF DueOK
  <2>3. ASSUME kind[c] = "message", NEW p \in due[c]
        PROVE  \/ p[1] \in to'[c]
               \/ member'[c] = {p[1]} /\ p[2] \in left'[c]
               \/ \E r \in outbox' : r.call = c /\ r.user = p[1] /\ r.device = p[2]
    BY <1>1, <1>3, <2>1, <2>3 DEF DueOK
  <2> QED BY <1>1, <1>3, <2>2, <2>3 DEF DueOK
<1>6. RowsOK'
  <2>1. \A r \in outbox : r.createdAt \in Nat /\ r.createdAt <= clock /\ r.call \in Calls
    BY DEF RowsOK, TypeOK
  <2>2. \A r \in outbox : r.call = c => r.user # u
    BY <1>1 DEF RowsOK
  <2>3. \A r \in outbox : /\ r.createdAt <= clock' /\ pc'[r.call] # "new"
                          /\ r.user \notin to'[r.call]
    BY <1>1, <1>3, <2>1 DEF RowsOK
  <2>4. ASSUME NEW d \in Calls, d # c, pc[d] = "append"
        PROVE  now[d] <= clock' /\ now[d] \in Nat
    BY <1>1, <2>4 DEF RowsOK, TypeOK
  <2> QED BY <1>1, <1>3, <2>1, <2>2, <2>3, <2>4 DEF RowsOK
<1>7. SenderOrder'
  BY <1>1 DEF SenderOrder
<1> QED BY <1>2, <1>4, <1>5, <1>6, <1>7

\* A row is new for its user, device and call, and later than those of earlier packets.
LEMMA InsertKeepsInv ==
  ASSUME MessagingInv, NEW c \in Calls, NEW d \in Devices, InsertOutbox(c, d)
  PROVE  MessagingInv'
<1> USE DEF MessagingInv
<1>1. PICK u \in Users \ to[c] : member[c] = {u}
  BY DEF InsertOutbox, TurnsOK
<1>2. PICK row \in [call : Calls, user : Users, device : Devices, createdAt : Nat] :
        /\ row.call = c /\ row.user = u /\ row.device = d /\ row.createdAt = now[c]
        /\ outbox' = outbox \cup {row}
  <2>1. {Row(c, v, d) : v \in member[c]} = {Row(c, u, d)}
    BY <1>1
  <2>2. Row(c, u, d) \in [call : Calls, user : Users, device : Devices, createdAt : Nat]
    BY DEF Row, TypeOK
  <2> QED BY <2>1, <2>2 DEF InsertOutbox, Row
<1>3. /\ pc[c] = "append" /\ d \in left[c]
      /\ left'[c] = left[c] \ {d} /\ \A b \in Calls \ {c} : left'[b] = left[b]
      /\ UNCHANGED <<direct, deleted, active, friends, sessions, tokens, changes, clock, pc, kind, to,
                     now, member, due, crashes>>
  BY DEF InsertOutbox, envVars, TypeOK
<1>4. TypeOK'
  BY <1>2, <1>3 DEF InsertOutbox, TypeOK
<1>5. TurnsOK'
  BY <1>3 DEF TurnsOK
<1>6. DueOK'
  <2>1. \A r \in outbox : r \in outbox'
    BY <1>2
  <2>2. \A p \in due[c] : member[c] = {p[1]} /\ p[2] \in left[c] =>
          p[2] \in left'[c] \/ (row.user = p[1] /\ row.device = p[2])
    BY <1>1, <1>2, <1>3
  <2> QED BY <1>2, <1>3, <2>1, <2>2 DEF DueOK
<1>7. \A b \in Calls : b # c /\ b[1] = c[1] => (b[2] < c[2] /\ pc[b] \in Ended) \/ pc[b] = "new"
  <2> SUFFICES ASSUME NEW b \in Calls, b # c, b[1] = c[1], pc[b] # "new"
               PROVE  b[2] < c[2] /\ pc[b] \in Ended
    OBVIOUS
  <2>1. b[2] # c[2] /\ b[2] \in Nat /\ c[2] \in Nat
    BY MessagingAssumption DEF Calls
  <2>2. ~(c[2] < b[2])
    BY <1>3 DEF TurnsOK, Ended
  <2> QED BY <2>1, <2>2, <1>3 DEF TurnsOK
<1>8. RowsOK'
  <2>1. now[c] <= clock
    BY <1>3 DEF RowsOK
  <2>2. \A r \in outbox' : r.createdAt <= clock /\ pc[r.call] # "new" /\ r.user \notin to[r.call]
    BY <1>1, <1>2, <1>3, <2>1 DEF RowsOK
  <2>3. ASSUME NEW b \in Calls, pc[b] = "append", NEW r \in outbox'
        PROVE  /\ r.call[1] = b[1] /\ r.call # b => r.createdAt < now[b]
               /\ r.call = b /\ r.user \in member[b] => r.device \notin left'[b]
    <3>1. CASE b = c
      BY <1>2, <1>3, <2>3, <3>1 DEF RowsOK
    <3>2. CASE b # c
      <4>1. b[1] # c[1]
        BY <1>7, <2>3, <3>2 DEF Ended
      <4> QED BY <1>2, <1>3, <2>3, <3>2, <4>1 DEF RowsOK
    <3> QED BY <3>1, <3>2
  <2> QED BY <1>3, <2>1, <2>2, <2>3 DEF RowsOK
<1>9. SenderOrder'
  <2>1. ASSUME NEW r \in outbox, r.device = d, r.user = u, r.call[1] = c[1]
        PROVE  r.call # c /\ r.call[2] < c[2] /\ r.createdAt < now[c]
    <3>1. r.call # c
      BY <1>1, <1>3, <2>1 DEF RowsOK
    <3>2. r.call \in Calls /\ pc[r.call] # "new"
      BY DEF RowsOK, TypeOK
    <3>3. r.createdAt < now[c]
      BY <1>3, <2>1, <3>1 DEF RowsOK
    <3> QED BY <1>7, <2>1, <3>1, <3>2, <3>3
  <2>2. c[2] \in Nat /\ \A r \in outbox : r.call[2] \in Nat
    BY MessagingAssumption DEF Calls, TypeOK
  <2> SUFFICES ASSUME NEW r \in outbox', NEW q \in outbox',
                      r.device = q.device, r.user = q.user, r.call[1] = q.call[1]
               PROVE  /\ r.call[2] < q.call[2] => r.createdAt < q.createdAt
                      /\ r.call = q.call => r = q
    BY DEF SenderOrder
  <2>3. CASE r \in outbox /\ q \in outbox
    BY <2>3 DEF SenderOrder
  <2>4. CASE r = row /\ q = row
    BY <2>2, <2>4, <1>2
  <2>5. CASE r \in outbox /\ q = row
    BY <1>2, <2>1, <2>5
  <2>6. CASE r = row /\ q \in outbox
    <3>1. q.call # c /\ q.call[2] < c[2]
      BY <1>2, <2>1, <2>6
    <3> QED BY <1>2, <2>2, <2>6, <3>1
  <2> QED BY <1>2, <2>3, <2>4, <2>5, <2>6
<1> QED BY <1>4, <1>5, <1>6, <1>8, <1>9

\* The calls that were in progress are lost.
LEMMA CrashKeepsInv ==
  ASSUME MessagingInv, Crash
  PROVE  MessagingInv'
<1> USE DEF MessagingInv, Crash, envVars
<1>1. /\ \A c \in Calls : /\ pc'[c] = IF pc[c] \in Ended \cup {"new"} THEN pc[c] ELSE "lost"
                          /\ to'[c] = {}
      /\ UNCHANGED <<sessions, outbox, clock, kind, due>>
  OBVIOUS
<1>2. TypeOK'
  <2>1. pc' \in [Calls -> Steps]
    BY DEF TypeOK, Steps, Ended
  <2> QED BY <2>1 DEF TypeOK
<1>3. TurnsOK'
  BY <1>1 DEF TurnsOK, Ended
<1>4. DueOK'
  BY <1>1 DEF DueOK, Ended
<1>5. RowsOK' /\ SenderOrder'
  BY <1>1 DEF RowsOK, SenderOrder, Ended, TypeOK
<1> QED BY <1>2, <1>3, <1>4, <1>5

-----------------------------------------------------------------------------
(* Messaging: the theorems *)

LEMMA MessagingInit == Init => MessagingInv
<1> SUFFICES ASSUME Init PROVE MessagingInv
  OBVIOUS
<1>1. TypeOK
  BY DEF Init, TypeOK, Steps
<1> QED BY <1>1 DEF Init, MessagingInv, TurnsOK, DueOK, RowsOK, SenderOrder

\* No sequence of calls, changes, failures and crashes leaves MessagingInv.
THEOREM MessagingInvariance == Spec => []MessagingInv
<1>1. MessagingInv /\ [Next]_vars => MessagingInv'
  <2> SUFFICES ASSUME MessagingInv, [Next]_vars PROVE MessagingInv'
    OBVIOUS
  <2>1. ASSUME NEW c \in Calls, Step(c) PROVE MessagingInv'
    BY <2>1, ListMembersKeepsInv, GotosKeepInv, AppendEventKeepsInv, InsertKeepsInv DEF Step
  <2>2. CASE Crash
    BY <2>2, CrashKeepsInv
  <2>3. CASE UNCHANGED vars
    <3>1. TypeOK'
      BY <2>3 DEF vars, envVars, callVars, MessagingInv, TypeOK
    <3> QED BY <2>3, <3>1, ChangeKeepsInv DEF vars, envVars
  <2> QED BY <2>1, <2>2, <2>3, ChangesKeepInv DEF Next
<1> QED BY <1>1, MessagingInit, PTL DEF Spec

\* An answered sendMessage has reached every device that its members had when it
\* read them, for any number of members and devices that come and go meanwhile.
THEOREM AnsweredReachesAllAlways == Spec => []AnsweredReachesAll
<1>1. MessagingInv => AnsweredReachesAll
  BY DEF MessagingInv, DueOK, AnsweredReachesAll
<1> QED BY <1>1, MessagingInvariance, PTL

\* A device gets the packets of a connection in their order and each of them once,
\* whatever other connections send and whatever fails.
THEOREM SenderOrderAlways == Spec => []SenderOrder
BY MessagingInvariance, PTL DEF MessagingInv

-----------------------------------------------------------------------------
(* ListPages: the order of the rows and their offsets *)

\* What the nine lists have in common.
LEMMA ListFacts ==
  ASSUME list \in Lists
  PROVE  /\ list.query.desc \in BOOLEAN
         /\ list.query.moves => list.query.desc
         /\ list.fallback \in Nat \ {0}
<1>1. \A d, u, m, f : /\ Paged(Query(d, u, m), f).query.desc = d
                      /\ Paged(Query(d, u, m), f).query.moves = m
                      /\ Paged(Query(d, u, m), f).fallback = f
  BY DEF Paged, Query
<1>2. \E d \in BOOLEAN, u \in BOOLEAN, m \in BOOLEAN, f \in {20, 50, 100} :
        list = Paged(Query(d, u, m), f) /\ (m => d)
  BY DEF Lists, ListFriends, ListFriendRequests, ListChatRooms, SearchChatRooms, ListChatMembers,
       ListChatMemberPermissions, ListSentChatInvitations, ListIncomingChatInvitations,
       SearchProfiles, QueryFriends, QueryFriendRequests, QueryRooms, SearchRooms,
       QueryMembers, QueryMemberPermissions, QuerySentInvitations, QueryIncomingInvitations,
       QueryProfiles
<1> QED BY <1>1, <1>2

\* Row y comes before row x.
Precedes(k, y, x) == y # x /\ Sorted(k, y, x)

\* The ORDER BY of a list is a strict total order of the rows.
LEMMA PrecedesIsOrder ==
  ASSUME list \in Lists, NEW k \in [Rows -> Keys]
  PROVE  /\ \A x, y \in Rows : x # y => Precedes(k, x, y) \/ Precedes(k, y, x)
         /\ \A x, y \in Rows : Precedes(k, x, y) => ~Precedes(k, y, x)
         /\ \A x, y, z \in Rows : Precedes(k, x, y) /\ Precedes(k, y, z) => Precedes(k, x, z)
<1>1. \A x \in Rows : x \in Nat /\ k[x] \in Nat
  BY ListPagesAssumption
<1>2. CASE list.query.desc
  <2>1. \A x, y \in Rows : Precedes(k, x, y) <=> k[x] > k[y] \/ (k[x] = k[y] /\ x > y)
    BY <1>1, <1>2 DEF Precedes, Sorted
  <2> QED BY <1>1, <2>1
<1>3. CASE ~list.query.desc
  <2>1. \A x, y \in Rows : Precedes(k, x, y) <=> k[x] < k[y] \/ (k[x] = k[y] /\ x < y)
    BY <1>1, <1>3 DEF Precedes, Sorted
  <2> QED BY <1>1, <2>1
<1> QED BY <1>2, <1>3

\* An offset is a number, and smaller the further to the front the row is.
LEMMA OffsetFacts ==
  ASSUME list \in Lists, NEW k \in [Rows -> Keys], NEW s \in SUBSET Rows
  PROVE  /\ IsFiniteSet(s) /\ Cardinality(s) \in Nat
         /\ \A x \in s : Offset(s, k, x) \in Nat /\ Offset(s, k, x) \in 0..(Cardinality(s) - 1)
         /\ \A x, y \in s : Precedes(k, y, x) => Offset(s, k, y) < Offset(s, k, x)
<1> DEFINE B(x) == {y \in s : Precedes(k, y, x)}
<1>1. \A x : Offset(s, k, x) = Cardinality(B(x))
  BY DEF Offset, Precedes
<1>2. IsFiniteSet(s) /\ Cardinality(s) \in Nat
  BY ListPagesAssumption, FS_Subset, FS_CardinalityType
<1>3. ASSUME NEW x \in s
      PROVE  Cardinality(B(x)) \in Nat /\ Cardinality(B(x)) \in 0..(Cardinality(s) - 1)
  <2>1. /\ IsFiniteSet(s \ {x}) /\ Cardinality(s \ {x}) = Cardinality(s) - 1
    BY <1>2, FS_RemoveElement
  <2>2. B(x) \in SUBSET (s \ {x})
    BY DEF Precedes
  <2>3. IsFiniteSet(B(x)) /\ Cardinality(B(x)) <= Cardinality(s \ {x})
    BY <2>1, <2>2, FS_Subset
  <2>4. Cardinality(B(x)) \in Nat
    BY <2>3, FS_CardinalityType
  <2> QED BY <1>2, <2>1, <2>3, <2>4
<1>4. ASSUME NEW x \in s, NEW y \in s, Precedes(k, y, x)
      PROVE  Cardinality(B(y)) < Cardinality(B(x))
  <2>1. B(y) \in SUBSET B(x)
    BY <1>4, PrecedesIsOrder
  <2>2. y \in B(x) /\ y \notin B(y)
    BY <1>4 DEF Precedes
  <2>3. IsFiniteSet(B(x))
    BY <1>2, FS_Subset
  <2>4. IsFiniteSet(B(y)) /\ Cardinality(B(y)) <= Cardinality(B(x)) /\ Cardinality(B(x)) # Cardinality(B(y))
    BY <2>1, <2>2, <2>3, FS_Subset
  <2>5. Cardinality(B(y)) \in Nat /\ Cardinality(B(x)) \in Nat
    BY <2>3, <2>4, FS_CardinalityType
  <2> QED BY <2>4, <2>5
<1> QED BY <1>1, <1>2, <1>3, <1>4

\* There is a row at every offset below the number of rows.
LEMMA OffsetsAreTaken ==
  ASSUME list \in Lists, NEW k \in [Rows -> Keys], NEW s \in SUBSET Rows,
         NEW n \in 0..(Cardinality(s) - 1)
  PROVE  \E x \in s : Offset(s, k, x) = n
<1> DEFINE T == 0..(Cardinality(s) - 1)
           f == [x \in s |-> Offset(s, k, x)]
<1>1. IsFiniteSet(s) /\ Cardinality(s) \in Nat
  BY OffsetFacts
<1>2. f \in [s -> T]
  BY OffsetFacts
<1>3. \A x, y \in s : f[x] = f[y] => x = y
  <2> SUFFICES ASSUME NEW x \in s, NEW y \in s, x # y
               PROVE  f[x] # f[y]
    OBVIOUS
  <2>1. Precedes(k, x, y) \/ Precedes(k, y, x)
    BY PrecedesIsOrder
  <2>2. f[x] < f[y] \/ f[y] < f[x]
    BY <2>1, OffsetFacts
  <2>3. f[x] \in Int /\ f[y] \in Int
    BY <1>2
  <2> QED BY <2>2, <2>3
<1>4. f \in Injection(s, T)
  BY <1>2, <1>3 DEF Injection, IsInjective
<1>5. IsFiniteSet(T) /\ Cardinality(T) = Cardinality(s)
  BY <1>1, FS_Interval
<1>6. f \in Surjection(s, T)
  BY <1>4, <1>5, FS_Injection
<1> QED BY <1>6 DEF Surjection

\* A page of m rows that comes back with fewer reaches to the end of the list.
LEMMA ShortPageIsLast ==
  ASSUME list \in Lists, key \in [Rows -> Keys], present \subseteq Rows,
         NEW o \in Nat, NEW m \in Nat \ {0}, Cardinality(SelectPage(o, m)) < m,
         NEW x \in present
  PROVE  Offset(present, key, x) < o + m
<1> SUFFICES ASSUME ~(Offset(present, key, x) < o + m)
             PROVE  FALSE
  OBVIOUS
<1> DEFINE S == SelectPage(o, m)
           T == o..(o + m - 1)
           f == [y \in S |-> Offset(present, key, y)]
<1>1. IsFiniteSet(present) /\ Cardinality(present) \in Nat
        /\ Offset(present, key, x) \in 0..(Cardinality(present) - 1)
  BY OffsetFacts
<1>2. T \subseteq 0..(Cardinality(present) - 1)
  BY <1>1
<1>3. f \in Surjection(S, T)
  <2>1. f \in [S -> T]
    BY DEF SelectPage
  <2>2. ASSUME NEW n \in T
        PROVE  \E y \in S : f[y] = n
    BY <1>2, OffsetsAreTaken DEF SelectPage
  <2> QED BY <2>1, <2>2 DEF Surjection
<1>4. IsFiniteSet(S)
  BY <1>1, FS_Subset DEF SelectPage
<1>5. Cardinality(T) <= Cardinality(S)
  BY <1>3, <1>4, FS_Surjection
<1>6. Cardinality(T) = m
  BY FS_Interval
<1>7. Cardinality(S) \in Nat
  BY <1>4, FS_CardinalityType
<1> QED BY <1>5, <1>6, <1>7

\* Taking row x out of the list moves the rows behind it, and no others, one to the front.
LEMMA OffsetWithout ==
  ASSUME list \in Lists, NEW k \in [Rows -> Keys], NEW s \in SUBSET Rows,
         NEW x \in Rows, NEW z \in Rows \ {x}
  PROVE  /\ Offset(s \ {x}, k, z) \in Nat
         /\ Offset(s, k, z) = Offset(s \ {x}, k, z)
                                + (IF x \in s /\ Precedes(k, x, z) THEN 1 ELSE 0)
<1> DEFINE B == {y \in s : y # z /\ Sorted(k, y, z)}
           C == {y \in s \ {x} : y # z /\ Sorted(k, y, z)}
<1>1. Offset(s, k, z) = Cardinality(B) /\ Offset(s \ {x}, k, z) = Cardinality(C)
  BY DEF Offset
<1>2. IsFiniteSet(s)
  BY OffsetFacts
<1>3. IsFiniteSet(B) /\ IsFiniteSet(C) /\ Cardinality(C) \in Nat
  BY <1>2, FS_Subset, FS_CardinalityType
<1>4. CASE x \in s /\ Precedes(k, x, z)
  <2>1. B = C \cup {x} /\ x \notin C
    BY <1>4 DEF Precedes
  <2>2. Cardinality(B) = Cardinality(C) + 1
    BY <1>3, <2>1, FS_AddElement
  <2> QED BY <1>1, <1>3, <1>4, <2>2
<1>5. CASE ~(x \in s /\ Precedes(k, x, z))
  <2>1. B = C
    BY <1>5 DEF Precedes
  <2>2. Offset(s, k, z) = Offset(s \ {x}, k, z) /\ Offset(s \ {x}, k, z) \in Nat
    BY <1>1, <1>3, <2>1
  <2> QED BY <1>5, <2>2
<1> QED BY <1>4, <1>5

\* Where the other rows are without row x does not depend on its key.
LEMMA OffsetIgnores ==
  ASSUME NEW k \in [Rows -> Keys], NEW l \in [Rows -> Keys], NEW s \in SUBSET Rows,
         NEW x \in Rows, NEW z \in Rows \ {x}, \A y \in Rows \ {x} : l[y] = k[y]
  PROVE  Offset(s \ {x}, l, z) = Offset(s \ {x}, k, z)
<1>1. \A y \in s \ {x} : Sorted(l, y, z) <=> Sorted(k, y, z)
  BY DEF Sorted
<1>2. {y \in s \ {x} : y # z /\ Sorted(l, y, z)} = {y \in s \ {x} : y # z /\ Sorted(k, y, z)}
  BY <1>1
<1> QED BY <1>2 DEF Offset

-----------------------------------------------------------------------------
(* ListPages: the walk *)

\* The walk has passed the rows whose offset is below its cursor's.
PassedOK ==
  walk \in {"client", "profile"} =>
    /\ limit >= 1
    /\ "out" \notin shifted =>
         \A x \in stayed : Offset(present, key, x) < DecodeOffsetCursor(cursor) =>
                          x \in seen \cup missed
    /\ "in" \notin shifted =>
         \A x \in stayed \cap seen : Offset(present, key, x) < DecodeOffsetCursor(cursor)

\* Nothing has happened before the first page is asked for.
FreshOK ==
  walk = "new" => seen = {} /\ missed = {} /\ cursor = NoCursor

\* StayedIsSeenOnce, of every list whose order has been fixed.
SeenOnceOK ==
  /\ walk = "done" /\ "out" \notin shifted => stayed \subseteq seen \cup missed
  /\ "in" \notin shifted => again \cap stayed = {}

PageInv == PageTypeOK /\ FreshOK /\ PassedOK /\ SeenOnceOK

\* A cursor holds the offset it was made from.
LEMMA CursorFacts ==
  /\ DecodeOffsetCursor(NoCursor) = 0
  /\ \A n \in Nat : /\ EncodeOffsetCursor(n) # NoCursor
                    /\ DecodeOffsetCursor(EncodeOffsetCursor(n)) = n
<1>1. \A n : EncodeOffsetCursor(n).offset = n /\ NoCursor.offset = -1
  BY DEF EncodeOffsetCursor, NoCursor
<1>2. \A n \in Nat : n # -1
  OBVIOUS
<1>3. \A n \in Nat : EncodeOffsetCursor(n) # NoCursor
  BY <1>1, <1>2
<1> QED BY <1>1, <1>3 DEF DecodeOffsetCursor

\* A walk begins with everything still to come.
LEMMA WalkStarts ==
  ASSUME PageInv, (\E n \in Limits : ClientWalk(n)) \/ ProfileWalk
  PROVE  PageInv'
<1>1. /\ walk' \in {"client", "profile"} /\ limit' \in Nat /\ limit' >= 1
      /\ stayed' = present /\ seen = {} /\ again = {} /\ cursor = NoCursor
      /\ UNCHANGED <<list, present, key, cursor, seen, missed, again, shifted>>
  <2>1. list.fallback \in Nat \ {0}
    BY ListFacts DEF PageInv, PageTypeOK
  <2>2. CASE \E n \in Limits : ClientWalk(n)
    <3>1. PICK n \in Limits : ClientWalk(n)
      BY <2>2
    <3>2. NormalizeLimit(n, list.fallback) \in Nat \ {0}
      BY <2>1, ListPagesAssumption DEF NormalizeLimit
    <3> QED BY <3>1, <3>2 DEF ClientWalk, PageInv, PageTypeOK, FreshOK
  <2>3. CASE ProfileWalk
    BY <2>3, ListPagesAssumption DEF ProfileWalk, PageInv, PageTypeOK, FreshOK
  <2> QED BY <2>2, <2>3
<1>2. \A x \in present : ~(Offset(present, key, x) < 0)
  <2>1. /\ list \in Lists /\ key \in [Rows -> Keys] /\ present \in SUBSET Rows
    BY DEF PageInv, PageTypeOK
  <2>2. /\ Cardinality(present) \in Nat
        /\ \A x \in present : Offset(present, key, x) \in 0..(Cardinality(present) - 1)
    BY <2>1, OffsetFacts
  <2> QED BY <2>2
<1>3. PageTypeOK'
  <2>1. DecodeOffsetCursor(cursor)' = DecodeOffsetCursor(cursor)
    BY <1>1 DEF DecodeOffsetCursor
  <2>2. walk' \in {"new", "client", "profile", "done", "failed"}
    BY <1>1
  <2> QED BY <1>1, <2>1, <2>2 DEF PageInv, PageTypeOK
<1>4. PassedOK'
  <2>1. \A x : Offset(present, key, x)' = Offset(present, key, x)
    BY <1>1 DEF Offset, Sorted
  <2> QED BY <1>1, <1>2, <2>1, CursorFacts DEF PassedOK
<1> QED BY <1>1, <1>3, <1>4 DEF PageInv, FreshOK, SeenOnceOK

\* A page that is answered with, and the cursor of the next.
LEMMA PageGoesOn ==
  ASSUME PageInv, walk \in {"client", "profile"}, walk' = walk,
         NEW items \in SUBSET SelectPage(DecodeOffsetCursor(cursor), limit), AnswerItems(items),
         missed' = missed \cup (SelectPage(DecodeOffsetCursor(cursor), limit) \ items),
         cursor' = EncodeOffsetCursor(DecodeOffsetCursor(cursor) + limit)
  PROVE  PageInv'
<1> DEFINE o == DecodeOffsetCursor(cursor)
           page == SelectPage(o, limit)
<1>1. /\ items \subseteq page /\ missed' = missed \cup (page \ items)
      /\ seen' = seen \cup items /\ again' = again \cup (seen \cap items)
      /\ UNCHANGED <<list, present, key, walk, limit, stayed, shifted>>
      /\ list \in Lists /\ key \in [Rows -> Keys] /\ present \in SUBSET Rows
      /\ o \in Nat /\ limit \in Nat /\ limit >= 1 /\ stayed \subseteq present
  BY DEF AnswerItems, PageInv, PageTypeOK, PassedOK
<1>2. o + limit \in Nat /\ DecodeOffsetCursor(cursor)' = o + limit
  <2>1. o + limit \in Nat
    BY <1>1
  <2> HIDE DEF o
  <2>2. DecodeOffsetCursor(EncodeOffsetCursor(o + limit)) = o + limit
    BY <2>1, CursorFacts
  <2>3. DecodeOffsetCursor(cursor)' = DecodeOffsetCursor(EncodeOffsetCursor(o + limit))
    BY DEF DecodeOffsetCursor, o
  <2> QED BY <2>1, <2>2, <2>3
<1>3. \A x \in present : Offset(present, key, x) \in Nat
  <2>1. /\ Cardinality(present) \in Nat
        /\ \A x \in present : Offset(present, key, x) \in 0..(Cardinality(present) - 1)
    BY <1>1, OffsetFacts
  <2> QED BY <2>1
<1> HIDE DEF o
<1>4. \A x \in present : x \in page <=>
        o <= Offset(present, key, x) /\ Offset(present, key, x) < o + limit
  BY <1>1, <1>3 DEF SelectPage
<1>5. page \subseteq present
  BY DEF SelectPage
<1> HIDE DEF page
<1>6. \A x : Offset(present, key, x)' = Offset(present, key, x)
  BY <1>1 DEF Offset, Sorted
<1>7. PageTypeOK'
  BY <1>1, <1>2, <1>5 DEF PageInv, PageTypeOK
<1>8. PassedOK'
  <2>1. ASSUME "out" \notin shifted, NEW x \in stayed, Offset(present, key, x) < o + limit
        PROVE  x \in seen \cup missed \cup page
    BY <1>1, <1>3, <1>4, <2>1 DEF PageInv, PassedOK, o
  <2>2. ASSUME "in" \notin shifted, NEW x \in stayed \cap (seen \cup items)
        PROVE  Offset(present, key, x) < o + limit
    BY <1>1, <1>3, <1>4, <2>2 DEF PageInv, PassedOK, o
  <2> QED BY <1>1, <1>2, <1>6, <2>1, <2>2 DEF PassedOK
<1>9. SeenOnceOK'
  <2>1. "in" \notin shifted => (seen \cap items) \cap stayed = {}
    <3> SUFFICES ASSUME "in" \notin shifted, NEW x \in stayed, x \in seen, x \in items
                 PROVE  FALSE
      OBVIOUS
    <3>1. Offset(present, key, x) < o
      BY DEF PageInv, PassedOK, o
    <3> QED BY <1>1, <1>3, <1>4, <3>1
  <2> QED BY <1>1, <2>1 DEF PageInv, SeenOnceOK
<1>10. FreshOK'
  BY <1>1 DEF FreshOK
<1> QED BY <1>7, <1>8, <1>9, <1>10 DEF PageInv

\* A page that holds everything from the cursor on ends the walk.
LEMMA LastPage ==
  ASSUME PageInv, walk \in {"client", "profile"}, walk' = "done",
         NEW n \in Nat \ {0},
         NEW items \in SUBSET SelectPage(DecodeOffsetCursor(cursor), n), AnswerItems(items),
         missed' = missed \cup (SelectPage(DecodeOffsetCursor(cursor), n) \ items),
         Cardinality(SelectPage(DecodeOffsetCursor(cursor), n)) < n,
         DecodeOffsetCursor(cursor)' \in Nat
  PROVE  PageInv'
<1> DEFINE o == DecodeOffsetCursor(cursor)
           page == SelectPage(o, n)
<1>1. /\ items \subseteq page /\ missed' = missed \cup (page \ items)
      /\ seen' = seen \cup items /\ again' = again \cup (seen \cap items)
      /\ UNCHANGED <<list, present, key, limit, stayed, shifted>>
      /\ list \in Lists /\ key \in [Rows -> Keys] /\ present \subseteq Rows
      /\ o \in Nat /\ limit \in Nat /\ stayed \subseteq present
  BY DEF AnswerItems, PageInv, PageTypeOK, PassedOK
<1>2. \A x \in present : Offset(present, key, x) \in Nat
  <2>1. /\ Cardinality(present) \in Nat
        /\ \A x \in present : Offset(present, key, x) \in 0..(Cardinality(present) - 1)
    BY <1>1, OffsetFacts
  <2> QED BY <2>1
<1> HIDE DEF o
<1>3. \A x \in present : Offset(present, key, x) < o + n
  BY <1>1, ShortPageIsLast DEF o
<1>4. \A x \in present : x \in page <=> o <= Offset(present, key, x)
  BY <1>1, <1>2, <1>3 DEF SelectPage
<1>5. page \subseteq present
  BY DEF SelectPage
<1> HIDE DEF page
<1>6. PageTypeOK'
  BY <1>1, <1>5 DEF PageInv, PageTypeOK
<1>7. SeenOnceOK'
  <2>1. ASSUME "out" \notin shifted, NEW x \in stayed
        PROVE  x \in seen \cup missed \cup page
    BY <1>1, <1>2, <1>4, <2>1 DEF PageInv, PassedOK, o
  <2>2. "in" \notin shifted => (seen \cap items) \cap stayed = {}
    <3> SUFFICES ASSUME "in" \notin shifted, NEW x \in stayed, x \in seen, x \in items
                 PROVE  FALSE
      OBVIOUS
    <3>1. Offset(present, key, x) < o
      BY DEF PageInv, PassedOK, o
    <3> QED BY <1>1, <1>2, <1>4, <3>1
  <2> QED BY <1>1, <2>1, <2>2 DEF PageInv, SeenOnceOK
<1> QED BY <1>6, <1>7 DEF PageInv, FreshOK, PassedOK

\* A page of a list method (paginateSlice).
LEMMA ClientPagePreserves ==
  ASSUME PageInv, ClientPage
  PROVE  PageInv'
<1> DEFINE o == DecodeOffsetCursor(cursor)
           rows == SelectPage(o, limit + 1)
<1>1. /\ walk = "client" /\ o \in Nat /\ limit \in Nat /\ o + limit \in Nat
      /\ list \in Lists /\ key \in [Rows -> Keys] /\ present \in SUBSET Rows
  BY DEF ClientPage, PageInv, PageTypeOK
<1>2. Cardinality(rows) \in Nat
  <2>1. IsFiniteSet(present)
    BY <1>1, OffsetFacts
  <2>2. rows \subseteq present
    BY DEF SelectPage
  <2> QED BY <2>1, <2>2, FS_Subset, FS_CardinalityType
<1>3. CASE Cardinality(rows) <= limit
  <2>1. PaginateSlice(o, limit) = [items |-> rows, next |-> NoCursor]
    BY <1>3 DEF PaginateSlice
  <2>2. /\ AnswerItems(rows) /\ cursor' = NoCursor /\ walk' = "done"
        /\ missed' = missed \cup (rows \ rows)
    BY <2>1 DEF ClientPage
  <2>3. DecodeOffsetCursor(cursor)' = 0
    BY <2>2 DEF DecodeOffsetCursor
  <2>4. Cardinality(rows) < limit + 1 /\ limit + 1 \in Nat \ {0}
    BY <1>1, <1>2, <1>3
  <2> QED BY <1>1, <2>2, <2>3, <2>4, LastPage
<1>4. CASE ~(Cardinality(rows) <= limit)
  <2>1. PaginateSlice(o, limit)
          = [items |-> SelectPage(o, limit), next |-> EncodeOffsetCursor(o + limit)]
    BY <1>4 DEF PaginateSlice
  <2>2. EncodeOffsetCursor(o + limit) # NoCursor
    BY <1>1, CursorFacts
  <2>3. /\ AnswerItems(SelectPage(o, limit)) /\ cursor' = EncodeOffsetCursor(o + limit)
        /\ walk' = walk /\ missed' = missed \cup (SelectPage(o, limit) \ SelectPage(o, limit))
    BY <1>1, <2>1, <2>2 DEF ClientPage
  <2> QED BY <1>1, <2>3, PageGoesOn
<1> QED BY <1>3, <1>4

\* A batch of the loop of UpdateProfile.
LEMMA ProfilePagePreserves ==
  ASSUME PageInv, ProfilePage
  PROVE  PageInv'
<1> DEFINE o == DecodeOffsetCursor(cursor)
<1>1. /\ walk = "profile" /\ o \in Nat /\ limit \in Nat /\ limit >= 1 /\ o + limit \in Nat
      /\ cursor' = EncodeOffsetCursor(o + limit)
  BY DEF ProfilePage, PageInv, PageTypeOK, PassedOK
<1>2. PICK told \in SUBSET SelectPage(o, limit) :
        AnswerItems(told) /\ missed' = missed \cup (SelectPage(o, limit) \ told)
  BY DEF ProfilePage
<1>3. CASE Cardinality(SelectPage(o, limit)) < limit
  <2>1. walk' = "done"
    BY <1>3 DEF ProfilePage
  <2>2. DecodeOffsetCursor(cursor)' = DecodeOffsetCursor(EncodeOffsetCursor(o + limit))
    BY <1>1 DEF DecodeOffsetCursor
  <2>3. DecodeOffsetCursor(cursor)' \in Nat
    <3> HIDE DEF o
    <3> QED BY <1>1, <2>2, CursorFacts
  <2>4. limit \in Nat \ {0}
    BY <1>1
  <2> QED BY <1>1, <1>2, <1>3, <2>1, <2>3, <2>4, LastPage
<1>4. CASE ~(Cardinality(SelectPage(o, limit)) < limit)
  <2>1. walk' = walk
    BY <1>1, <1>4 DEF ProfilePage
  <2> QED BY <1>1, <1>2, <2>1, PageGoesOn
<1> QED BY <1>3, <1>4

\* What a change of the table, at row x, has to respect: no other row goes back below
\* the cursor unless a row that was passed went, and none is pushed over it unless a row
\* came in before it.
LEMMA TableChange ==
  ASSUME PageInv, walk \in {"client", "profile"},
         UNCHANGED <<list, walk, limit, cursor, seen, missed, again>>,
         key' \in [Rows -> Keys], present' \subseteq Rows,
         stayed' \subseteq stayed \cap present', shifted \subseteq shifted',
         \A z \in stayed' : /\ "out" \notin shifted' /\ ~(Offset(present, key, z) < DecodeOffsetCursor(cursor))
                                 => ~(Offset(present, key, z)' < DecodeOffsetCursor(cursor))
                            /\ "in" \notin shifted' /\ Offset(present, key, z) < DecodeOffsetCursor(cursor)
                                 => Offset(present, key, z)' < DecodeOffsetCursor(cursor)
  PROVE  PageInv'
<1>1. DecodeOffsetCursor(cursor)' = DecodeOffsetCursor(cursor)
  BY DEF DecodeOffsetCursor
<1>2. PageTypeOK'
  BY <1>1 DEF PageInv, PageTypeOK
<1>3. PassedOK'
  <2>1. ASSUME "out" \notin shifted', NEW x \in stayed', Offset(present, key, x)' < DecodeOffsetCursor(cursor)
        PROVE  x \in seen \cup missed
    BY <2>1 DEF PageInv, PassedOK
  <2>2. ASSUME "in" \notin shifted', NEW x \in stayed' \cap seen
        PROVE  Offset(present, key, x)' < DecodeOffsetCursor(cursor)
    BY <2>2 DEF PageInv, PassedOK
  <2>3. limit' >= 1
    BY DEF PageInv, PassedOK
  <2> QED BY <1>1, <2>1, <2>2, <2>3 DEF PassedOK
<1>4. SeenOnceOK' /\ FreshOK'
  BY DEF PageInv, SeenOnceOK, FreshOK
<1> QED BY <1>2, <1>3, <1>4 DEF PageInv

\* A row comes into the list between two pages.
LEMMA ArrivePreserves ==
  ASSUME PageInv, walk \in {"client", "profile"}, NEW x \in Rows, NEW t \in Keys, Arrive(x, t)
  PROVE  PageInv'
<1> DEFINE o == DecodeOffsetCursor(cursor)
<1>1. /\ list \in Lists /\ key \in [Rows -> Keys] /\ present \in SUBSET Rows
      /\ stayed \subseteq present /\ x \notin present /\ o \in Nat
      /\ present' \in SUBSET Rows /\ present' = present \cup {x} /\ present' \ {x} = present
      /\ key' \in [Rows -> Keys] /\ \A y \in Rows \ {x} : key'[y] = key[y]
      /\ UNCHANGED <<list, walk, limit, cursor, seen, missed, again, stayed>>
  BY DEF Arrive, PageInv, PageTypeOK
<1>2. shifted \subseteq shifted' /\ (Offset(present', key', x) < o => "in" \in shifted')
  BY DEF Arrive, Walked
<1> HIDE DEF o
<1>3. \A z : Offset(present, key, z)' = Offset(present', key', z)
  BY <1>1 DEF Offset, Sorted
<1>4. ASSUME NEW z \in stayed
      PROVE  /\ ~(Offset(present, key, z) < o) => ~(Offset(present', key', z) < o)
             /\ "in" \notin shifted' /\ Offset(present, key, z) < o => Offset(present', key', z) < o
  <2>1. z \in Rows \ {x} /\ z \in present'
    BY <1>1
  <2>2. /\ Offset(present, key', z) \in Nat
        /\ Offset(present, key, z) = Offset(present, key', z)
        /\ Offset(present', key', z) = Offset(present, key', z)
                                         + (IF x \in present' /\ Precedes(key', x, z) THEN 1 ELSE 0)
    <3>1. /\ Offset(present' \ {x}, key', z) \in Nat
          /\ Offset(present', key', z) = Offset(present' \ {x}, key', z)
                                         + (IF x \in present' /\ Precedes(key', x, z) THEN 1 ELSE 0)
      <4>1. /\ list \in Lists /\ key' \in [Rows -> Keys] /\ present' \in SUBSET Rows
            /\ z \in Rows \ {x}
        BY <1>1, <2>1
      <4> QED BY <4>1, OffsetWithout
    <3>2. Offset(present' \ {x}, key', z) = Offset(present' \ {x}, key, z)
      <4>1. /\ key \in [Rows -> Keys] /\ key' \in [Rows -> Keys] /\ present' \in SUBSET Rows
            /\ z \in Rows \ {x} /\ \A y \in Rows \ {x} : key'[y] = key[y]
        BY <1>1, <2>1
      <4> QED BY <4>1, OffsetIgnores
    <3> QED BY <1>1, <3>1, <3>2
  <2>3. x \in present' /\ Precedes(key', x, z) => Offset(present', key', x) < Offset(present', key', z)
    BY <1>1, <2>1, OffsetFacts
  <2>4. Offset(present', key', x) \in Nat
    BY <1>1, OffsetFacts
  <2> QED BY <1>1, <1>2, <2>2, <2>3, <2>4
<1>5. \A z \in stayed' :
        /\ "out" \notin shifted' /\ ~(Offset(present, key, z) < o) => ~(Offset(present, key, z)' < o)
        /\ "in" \notin shifted' /\ Offset(present, key, z) < o => Offset(present, key, z)' < o
  BY <1>1, <1>3, <1>4
<1> QED BY <1>1, <1>2, <1>5, TableChange DEF o

\* A row leaves the list between two pages.
LEMMA DepartPreserves ==
  ASSUME PageInv, walk \in {"client", "profile"}, NEW x \in Rows, Depart(x)
  PROVE  PageInv'
<1> DEFINE o == DecodeOffsetCursor(cursor)
<1>1. /\ list \in Lists /\ key \in [Rows -> Keys] /\ present \in SUBSET Rows
      /\ stayed \subseteq present /\ x \in present /\ o \in Nat
      /\ present' = present \ {x} /\ stayed' = stayed \ {x}
      /\ UNCHANGED <<list, key, walk, limit, cursor, seen, missed, again>>
  BY DEF Depart, PageInv, PageTypeOK
<1>2. shifted \subseteq shifted' /\ (Offset(present, key, x) < o => "out" \in shifted')
  BY DEF Depart, Walked
<1> HIDE DEF o
<1>3. \A z : Offset(present, key, z)' = Offset(present', key, z)
  BY <1>1 DEF Offset, Sorted
<1>4. ASSUME NEW z \in stayed \ {x}
      PROVE  /\ "out" \notin shifted' /\ ~(Offset(present, key, z) < o) => ~(Offset(present', key, z) < o)
             /\ Offset(present, key, z) < o => Offset(present', key, z) < o
  <2>1. z \in Rows \ {x} /\ z \in present
    BY <1>1
  <2>2. /\ Offset(present', key, z) \in Nat
        /\ Offset(present, key, z) = Offset(present', key, z)
                                         + (IF x \in present /\ Precedes(key, x, z) THEN 1 ELSE 0)
    BY <1>1, <2>1, OffsetWithout
  <2>3. Precedes(key, x, z) => Offset(present, key, x) < Offset(present, key, z)
    BY <1>1, <2>1, OffsetFacts
  <2>4. Offset(present, key, x) \in Nat
    BY <1>1, OffsetFacts
  <2> QED BY <1>1, <1>2, <2>2, <2>3, <2>4
<1>5. \A z \in stayed' :
        /\ "out" \notin shifted' /\ ~(Offset(present, key, z) < o) => ~(Offset(present, key, z)' < o)
        /\ "in" \notin shifted' /\ Offset(present, key, z) < o => Offset(present, key, z)' < o
  BY <1>1, <1>3, <1>4
<1>6. key' \in [Rows -> Keys] /\ present' \subseteq Rows /\ stayed' \subseteq stayed \cap present'
  BY <1>1
<1> QED BY <1>1, <1>2, <1>5, <1>6, TableChange DEF o

\* A row moves in the list between two pages.
LEMMA TouchPreserves ==
  ASSUME PageInv, walk \in {"client", "profile"}, NEW x \in Rows, NEW t \in Keys, Touch(x, t)
  PROVE  PageInv'
<1> DEFINE o == DecodeOffsetCursor(cursor)
<1>1. /\ list \in Lists /\ key \in [Rows -> Keys] /\ present \in SUBSET Rows
      /\ stayed \subseteq present /\ x \in present /\ o \in Nat
      /\ key' \in [Rows -> Keys] /\ \A y \in Rows \ {x} : key'[y] = key[y]
      /\ stayed' = stayed \ {x} /\ list.query.moves
      /\ UNCHANGED <<list, present, walk, limit, cursor, seen, missed, again>>
  BY DEF Touch, PageInv, PageTypeOK
<1>2. /\ shifted \subseteq shifted'
      /\ Offset(present, key', x) < o /\ ~(Offset(present, key, x) < o) => "in" \in shifted'
      /\ Offset(present, key, x) < o /\ ~(Offset(present, key', x) < o) => "out" \in shifted'
  BY DEF Touch, Walked
<1> HIDE DEF o
<1>3. \A z : Offset(present, key, z)' = Offset(present, key', z)
  BY <1>1 DEF Offset, Sorted
<1>4. ASSUME NEW z \in stayed \ {x}
      PROVE  /\ "out" \notin shifted' /\ ~(Offset(present, key, z) < o) => ~(Offset(present, key', z) < o)
             /\ "in" \notin shifted' /\ Offset(present, key, z) < o => Offset(present, key', z) < o
  <2>1. z \in Rows \ {x} /\ z \in present
    BY <1>1
  <2>2. /\ Offset(present \ {x}, key, z) \in Nat
        /\ Offset(present, key, z) = Offset(present \ {x}, key, z)
                                         + (IF x \in present /\ Precedes(key, x, z) THEN 1 ELSE 0)
    BY <1>1, <2>1, OffsetWithout
  <2>3. Offset(present \ {x}, key', z) = Offset(present \ {x}, key, z)
    <3>1. /\ key \in [Rows -> Keys] /\ key' \in [Rows -> Keys] /\ present \in SUBSET Rows
          /\ z \in Rows \ {x} /\ \A y \in Rows \ {x} : key'[y] = key[y]
      BY <1>1, <2>1
    <3> QED BY <3>1, OffsetIgnores
  <2>4. Offset(present, key', z) = Offset(present \ {x}, key', z)
                                         + (IF x \in present /\ Precedes(key', x, z) THEN 1 ELSE 0)
    BY <1>1, <2>1, OffsetWithout
  <2>5. Precedes(key', x, z) /\ ~Precedes(key, x, z) => Precedes(key, z, x)
    BY <1>1, <2>1, PrecedesIsOrder
  <2>6. Precedes(key, z, x) => Offset(present, key, z) < Offset(present, key, x)
    BY <1>1, <2>1, OffsetFacts
  <2>7. Precedes(key', x, z) => Offset(present, key', x) < Offset(present, key', z)
    BY <1>1, <2>1, OffsetFacts
  <2>8. Offset(present, key, x) \in Nat /\ Offset(present, key', x) \in Nat
    BY <1>1, OffsetFacts
  <2>9. Precedes(key, x, z) => Offset(present, key, x) < Offset(present, key, z)
    BY <1>1, <2>1, OffsetFacts
  <2>10. Precedes(key, x, z) /\ ~Precedes(key', x, z) => Precedes(key', z, x)
    BY <1>1, <2>1, PrecedesIsOrder
  <2>11. Precedes(key', z, x) => Offset(present, key', z) < Offset(present, key', x)
    BY <1>1, <2>1, OffsetFacts
  <2> QED BY <1>1, <1>2, <2>2, <2>3, <2>4, <2>5, <2>6, <2>7, <2>8, <2>9, <2>10, <2>11
<1>5. \A z \in stayed' :
        /\ "out" \notin shifted' /\ ~(Offset(present, key, z) < o) => ~(Offset(present, key, z)' < o)
        /\ "in" \notin shifted' /\ Offset(present, key, z) < o => Offset(present, key, z)' < o
  BY <1>1, <1>3, <1>4
<1>6. key' \in [Rows -> Keys] /\ present' \subseteq Rows /\ stayed' \subseteq stayed \cap present'
  BY <1>1
<1> QED BY <1>1, <1>2, <1>5, <1>6, TableChange DEF o

\* What makes the pages of a list add up is kept by every step.
THEOREM PageInvariance == PageSpec => []PageInv
<1>1. PageInit => PageInv
  BY CursorFacts DEF PageInit, PageInv, PageTypeOK, FreshOK, PassedOK, SeenOnceOK
<1>2. PageInv /\ [PageNext]_pageVars => PageInv'
  <2> SUFFICES ASSUME PageInv, [PageNext]_pageVars
               PROVE  PageInv'
    OBVIOUS
  <2>1. CASE (\E n \in Limits : ClientWalk(n)) \/ ProfileWalk
    BY <2>1, WalkStarts
  <2>2. CASE ClientPage
    BY <2>2, ClientPagePreserves
  <2>3. CASE ProfilePage
    BY <2>3, ProfilePagePreserves
  <2>4. CASE PageFails
    <3>1. DecodeOffsetCursor(cursor)' = DecodeOffsetCursor(cursor)
      BY <2>4 DEF PageFails, DecodeOffsetCursor
    <3> QED BY <2>4, <3>1 DEF PageFails, PageInv, PageTypeOK, FreshOK, PassedOK, SeenOnceOK
  <2>5. CASE /\ walk \in {"client", "profile"}
             /\ \E x \in Rows : Depart(x) \/ \E t \in Keys : Arrive(x, t) \/ Touch(x, t)
    BY <2>5, ArrivePreserves, DepartPreserves, TouchPreserves
  <2>6. CASE UNCHANGED pageVars
    <3>1. DecodeOffsetCursor(cursor)' = DecodeOffsetCursor(cursor)
      BY <2>6 DEF pageVars, DecodeOffsetCursor
    <3>2. \A x : Offset(present, key, x)' = Offset(present, key, x)
      BY <2>6 DEF pageVars, Offset, Sorted
    <3> QED BY <2>6, <3>1, <3>2 DEF pageVars, PageInv, PageTypeOK, FreshOK, PassedOK, SeenOnceOK
  <2> QED BY <2>1, <2>2, <2>3, <2>4, <2>5, <2>6 DEF PageNext
<1> QED BY <1>1, <1>2, PTL DEF PageSpec

\* Whatever comes into a list of any length, leaves it or moves in it between two pages,
\* the walk skips no row that stayed unless a row it has passed went or moved behind the
\* cursor, and answers none twice unless a row came or moved in before it; the loop of
\* UpdateProfile misses only the friends whose append failed (paginateSlice).
THEOREM StayedIsSeenOnceAlways == PageSpec => []StayedIsSeenOnce
<1>1. PageInv => StayedIsSeenOnce
  BY DEF PageInv, SeenOnceOK, StayedIsSeenOnce
<1> QED BY <1>1, PageInvariance, PTL

-----------------------------------------------------------------------------
(* Usage: sums over finite sets *)

\* Induction over the subsets of a finite set: a property that fails of one fails of one
\* that has no smaller one of which it fails.
LEMMA SmallestSubset ==
  ASSUME NEW S, IsFiniteSet(S), NEW X \in SUBSET (SUBSET S), X # {}
  PROVE  \E T \in X : \A U \in X : U \subseteq T => U = T
<1>1. IsWellFoundedOn(StrictSubsetOrdering(S), SUBSET S)
  BY FS_StrictSubsetOrderingWellFounded, FS_FiniteSubsetsOfFinite
<1>2. PICK T \in X : \A U \in X : ~(<<U, T>> \in StrictSubsetOrdering(S))
  BY <1>1, WFMin
<1> QED BY <1>2 DEF StrictSubsetOrdering

\* The element that MapThenSumSet takes out of a set first.
Pick(s) == CHOOSE x \in s : TRUE

\* What is picked is an element of the set.
LEMMA PickIn == ASSUME NEW s, s # {} PROVE Pick(s) \in s
  BY DEF Pick

\* g is the function by which MapThenSumSet is defined, for the requests of r.
Sums(r, S, g) ==
  g = [s \in SUBSET S |-> IF s = {} THEN 0 ELSE r[Pick(s)].requests + g[s \ {Pick(s)}]]

\* The sum of the requests that the calls of A report.
Total(r, A) == MapThenSumSet(LAMBDA c : r[c].requests, A)

\* One step of the recursion: what is picked, and the sum of the rest.
LEMMA SumsStep ==
  ASSUME NEW r, NEW S, NEW g, Sums(r, S, g)
  PROVE  \A s \in SUBSET S : s # {} =>
           /\ Pick(s) \in s /\ s \ {Pick(s)} \in SUBSET S
           /\ g[s] = r[Pick(s)].requests + g[s \ {Pick(s)}]
<1> TAKE s \in SUBSET S
<1> HAVE s # {}
<1>1. Pick(s) \in s
  BY PickIn
<1>2. g[s] = IF s = {} THEN 0 ELSE r[Pick(s)].requests + g[s \ {Pick(s)}]
  BY DEF Sums
<1> QED BY <1>1, <1>2

\* A sum depends on nothing but the elements of the set and their requests.
LEMMA SumsAgree ==
  ASSUME NEW A, NEW B, NEW r, NEW q, IsFiniteSet(A), A \subseteq B,
         \A c \in A : r[c].requests = q[c].requests,
         NEW g, NEW h, Sums(r, A, g), Sums(q, B, h)
  PROVE  g[A] = h[A]
<1> DEFINE X == {t \in SUBSET A : g[t] # h[t]}
<1>1. X = {}
  <2> SUFFICES ASSUME X # {}
               PROVE  FALSE
    OBVIOUS
  <2>1. X \in SUBSET (SUBSET A)
    OBVIOUS
  <2> HIDE DEF X
  <2>2. PICK t \in X : \A u \in X : u \subseteq t => u = t
    BY <2>1, SmallestSubset
  <2>3. t \in SUBSET A /\ t \in SUBSET B /\ g[t] # h[t]
    BY <2>2 DEF X
  <2>4. t # {}
    BY <2>3 DEF Sums
  <2>5. /\ Pick(t) \in t /\ t \ {Pick(t)} \in SUBSET A
        /\ g[t] = r[Pick(t)].requests + g[t \ {Pick(t)}]
    BY <2>3, <2>4, SumsStep
  <2>6. h[t] = q[Pick(t)].requests + h[t \ {Pick(t)}]
    BY <2>3, <2>4, SumsStep
  <2>7. g[t \ {Pick(t)}] = h[t \ {Pick(t)}]
    BY <2>2, <2>5 DEF X
  <2>8. r[Pick(t)].requests = q[Pick(t)].requests
    BY <2>3, <2>5
  <2> QED BY <2>3, <2>5, <2>6, <2>7, <2>8
<1> QED BY <1>1

\* The recursion has a solution.
LEMMA SumsExist ==
  ASSUME NEW S, IsFiniteSet(S), NEW r
  PROVE  \E g : Sums(r, S, g)
<1> DEFINE X == {t \in SUBSET S : ~\E g : Sums(r, t, g)}
<1> SUFFICES ASSUME X # {}
             PROVE  FALSE
  OBVIOUS
<1>1. PICK t \in X : \A u \in X : u \subseteq t => u = t
  <2>1. X \in SUBSET (SUBSET S)
    OBVIOUS
  <2> HIDE DEF X
  <2> QED BY <2>1, SmallestSubset
<1> DEFINE h(u) == CHOOSE g : Sums(r, u, g)
           G == [s \in SUBSET t |-> IF s = {} THEN 0
                                    ELSE r[Pick(s)].requests + h(s \ {Pick(s)})[s \ {Pick(s)}]]
<1>2. ASSUME NEW u \in SUBSET t, u # t
      PROVE  Sums(r, u, h(u))
  <2>1. \E g : Sums(r, u, g)
    BY <1>1, <1>2
  <2> QED BY <2>1
<1> HIDE DEF h
<1>3. ASSUME NEW u \in SUBSET t, u # t
      PROVE  G[u] = h(u)[u]
  <2>1. CASE u = {}
    <3>1. h(u)[u] = 0
      BY <1>2, <1>3, <2>1 DEF Sums
    <3> QED BY <2>1, <3>1
  <2>2. CASE u # {}
    <3> DEFINE v == u \ {Pick(u)}
    <3>1. /\ v \in SUBSET u /\ v # u /\ v # t /\ v \in SUBSET t
          /\ h(u)[u] = r[Pick(u)].requests + h(u)[v]
      BY <1>2, <1>3, <2>2, SumsStep
    <3>2. Sums(r, u, h(u)) /\ Sums(r, v, h(v))
      BY <1>2, <1>3, <3>1
    <3>3. h(u)[v] = h(v)[v]
      <4> HIDE DEF v
      <4>1. IsFiniteSet(v)
        BY <1>1, <3>1, FS_Subset
      <4>2. h(v)[v] = h(u)[v]
        BY <3>1, <3>2, <4>1, SumsAgree
      <4> QED BY <4>2
    <3>4. G[u] = r[Pick(u)].requests + h(v)[v]
      BY <2>2
    <3> QED BY <3>1, <3>3, <3>4
  <2> QED BY <2>1, <2>2
<1>4. ASSUME NEW s \in SUBSET t, s # {}
      PROVE  h(s \ {Pick(s)})[s \ {Pick(s)}] = G[s \ {Pick(s)}]
  <2>1. Pick(s) \in s
    BY <1>4, PickIn
  <2>2. s \ {Pick(s)} \in SUBSET t /\ s \ {Pick(s)} # t
    BY <2>1
  <2> HIDE DEF G
  <2> QED BY <1>3, <2>2
<1>5. Sums(r, t, G)
  <2>1. \A s \in SUBSET t : G[s] = IF s = {} THEN 0 ELSE r[Pick(s)].requests + G[s \ {Pick(s)}]
    BY <1>4
  <2>2. G = [s \in SUBSET t |-> G[s]]
    OBVIOUS
  <2> HIDE DEF G
  <2> QED BY <2>1, <2>2 DEF Sums
<1> QED BY <1>1, <1>5

\* MapThenSumSet is the value of that recursion at the whole set.
LEMMA TotalIs ==
  ASSUME NEW A, IsFiniteSet(A), NEW r
  PROVE  \E g : Sums(r, A, g) /\ Total(r, A) = g[A]
<1> DEFINE it == CHOOSE g : Sums(r, A, g)
<1>1. Sums(r, A, it)
  BY SumsExist
<1>2. Total(r, A) = it[A]
  BY DEF Total, MapThenSumSet, MapThenFoldSet, Pick, Sums
<1> HIDE DEF it
<1> QED BY <1>1, <1>2

\* Nothing reported is nothing.
LEMMA TotalOfNone == ASSUME NEW r PROVE Total(r, {}) = 0
<1>1. PICK g : Sums(r, {}, g) /\ Total(r, {}) = g[{}]
  BY TotalIs, FS_EmptySet
<1> QED BY <1>1 DEF Sums

\* Two states in which the calls report the same have the same sum.
LEMMA TotalAgrees ==
  ASSUME NEW A, IsFiniteSet(A), NEW r, NEW q, \A c \in A : r[c].requests = q[c].requests
  PROVE  Total(r, A) = Total(q, A)
<1>1. PICK g : Sums(r, A, g) /\ Total(r, A) = g[A]
  BY TotalIs
<1>2. PICK h : Sums(q, A, h) /\ Total(q, A) = h[A]
  BY TotalIs
<1>3. g[A] = h[A]
  BY <1>1, <1>2, SumsAgree
<1> QED BY <1>1, <1>2, <1>3

\* Whatever order the elements are taken in, one more call adds its requests.
LEMMA TotalAdds ==
  ASSUME NEW A, IsFiniteSet(A), NEW r, NEW c, c \notin A,
         \A x \in A \cup {c} : r[x].requests \in Nat
  PROVE  Total(r, A) \in Nat /\ Total(r, A \cup {c}) = Total(r, A) + r[c].requests
<1> DEFINE S == A \cup {c}
<1>1. IsFiniteSet(S)
  BY FS_AddElement
<1>2. PICK g : Sums(r, S, g) /\ Total(r, S) = g[S]
  BY <1>1, TotalIs
<1>3. Total(r, A) = g[A]
  <2>1. PICK h : Sums(r, A, h) /\ Total(r, A) = h[A]
    BY TotalIs
  <2>2. A \subseteq S
    OBVIOUS
  <2> HIDE DEF S
  <2>3. h[A] = g[A]
    BY <1>1, <1>2, <2>1, <2>2, SumsAgree
  <2> QED BY <2>1, <2>3
<1>4. \A s \in SUBSET S : g[s] \in Nat
  <2> DEFINE X == {t \in SUBSET S : g[t] \notin Nat}
  <2> SUFFICES ASSUME X # {}
               PROVE  FALSE
    OBVIOUS
  <2>1. PICK t \in X : \A u \in X : u \subseteq t => u = t
    <3>1. X \in SUBSET (SUBSET S)
      OBVIOUS
    <3> HIDE DEF X, S
    <3> QED BY <1>1, <3>1, SmallestSubset
  <2>2. t # {}
    BY <1>2 DEF Sums
  <2>3. /\ Pick(t) \in t /\ t \ {Pick(t)} \in SUBSET S
        /\ g[t] = r[Pick(t)].requests + g[t \ {Pick(t)}]
    BY <1>2, <2>2, SumsStep
  <2>4. g[t \ {Pick(t)}] \in Nat
    BY <2>1, <2>3
  <2> QED BY <2>1, <2>3, <2>4
<1>5. \A b \in SUBSET S, x \in S : x \notin b => g[b \cup {x}] = g[b] + r[x].requests
  <2> DEFINE X == {b \in SUBSET S : \E x \in S \ b : g[b \cup {x}] # g[b] + r[x].requests}
  <2> SUFFICES ASSUME X # {}
               PROVE  FALSE
    OBVIOUS
  <2>1. PICK b \in X : \A u \in X : u \subseteq b => u = b
    <3>1. X \in SUBSET (SUBSET S)
      OBVIOUS
    <3> HIDE DEF X, S
    <3> QED BY <1>1, <3>1, SmallestSubset
  <2>2. PICK x \in S \ b : g[b \cup {x}] # g[b] + r[x].requests
    BY <2>1
  <2>3. b \in SUBSET S /\ r[x].requests \in Nat
    BY <2>1
  <2> DEFINE D == b \cup {x}
             y == Pick(D)
  <2>4. D \in SUBSET S /\ D # {}
    BY <2>2, <2>3
  <2>5. y \in D /\ g[D] = r[y].requests + g[D \ {y}] /\ r[y].requests \in Nat
    <3>1. y \in D /\ g[D] = r[y].requests + g[D \ {y}]
      <4> HIDE DEF D
      <4> QED BY <1>2, <2>4, SumsStep
    <3> QED BY <2>4, <3>1
  <2> HIDE DEF y
  <2>6. CASE y = x
    <3>1. D \ {y} = b
      BY <2>2, <2>6
    <3>2. g[b] \in Nat
      BY <1>4, <2>3
    <3>3. g[D] = r[x].requests + g[b]
      BY <2>5, <2>6, <3>1
    <3> QED BY <2>2, <2>3, <3>2, <3>3
  <2>7. CASE y # x
    <3> DEFINE e == b \ {y}
    <3>1. /\ y \in b /\ y \in S /\ e \in SUBSET S /\ e \subseteq b /\ e # b
          /\ D \ {y} = e \cup {x} /\ e \cup {y} = b /\ x \in S \ e /\ y \in S \ e
      BY <2>2, <2>3, <2>5, <2>7
    <3>2. e \notin X
      BY <2>1, <3>1
    <3>3. \A z \in S \ e : g[e \cup {z}] = g[e] + r[z].requests
      BY <3>1, <3>2
    <3>4. g[e] \in Nat
      BY <1>4, <3>1
    <3>5. g[D \ {y}] = g[e] + r[x].requests /\ g[b] = g[e] + r[y].requests
      BY <3>1, <3>3
    <3> QED BY <2>2, <2>3, <2>5, <3>4, <3>5
  <2> QED BY <2>6, <2>7
<1>6. A \in SUBSET S /\ c \in S
  OBVIOUS
<1> QED BY <1>2, <1>3, <1>4, <1>5, <1>6

-----------------------------------------------------------------------------
(* Usage: every row is the sum of what was reported about its period *)

\* The calls that have written to the row of p that begins at b.
Writers(p, b) == {c \in Written : DateTrunc(p, report[c].at) = b}

\* The inductive invariant: every row there can be is the sum of what was reported about
\* it, the rows of the periods that are still to come too.
UseInv ==
  /\ report \in [Recorders -> [step : {"new", "write", "written", "failed"},
                               at : Nat, requests : Nat]]
  /\ minute \in Nat /\ minute <= Horizon
  /\ IsFiniteSet(Written)
  /\ \A p \in Periods, b \in 0..Horizon : usage[p][b] = Total(report, Writers(p, b))

\* Finitely many calls have written to a row.
LEMMA WritersFinite ==
  ASSUME UseInv, NEW p, NEW b
  PROVE  IsFiniteSet(Writers(p, b))
  BY FS_Subset DEF UseInv, Writers

\* A period begins at a minute of its own, or before.
LEMMA TruncIsEarlier ==
  ASSUME NEW p \in Periods, NEW t \in Nat
  PROVE  DateTrunc(p, t) \in 0..t
<1>1. CASE p = "allTime"
  BY <1>1 DEF DateTrunc
<1>2. CASE p # "allTime"
  <2>1. Length[p] \in {1, 2, 4, 8, 12}
    BY <1>2 DEF Periods, Length
  <2>2. \A k \in {1, 2, 4, 8, 12} : t - (t % k) \in 0..t
    OBVIOUS
  <2> QED BY <1>2, <2>1, <2>2 DEF DateTrunc
<1> QED BY <1>1, <1>2

\* The steps that write no row.
LEMMA NothingWritten ==
  ASSUME UseInv, UNCHANGED usage, minute' \in Nat, minute' <= Horizon,
         report' \in [Recorders -> [step : {"new", "write", "written", "failed"},
                                    at : Nat, requests : Nat]],
         Written' = Written, \A c \in Written : report'[c] = report[c]
  PROVE  UseInv'
<1>1. ASSUME NEW p \in Periods, NEW b \in 0..Horizon
      PROVE  usage'[p][b] = Total(report', Writers(p, b)')
  <2>1. Writers(p, b)' = Writers(p, b)
    BY DEF Writers
  <2>2. \A c \in Writers(p, b) : report[c].requests = report'[c].requests
    BY DEF Writers
  <2>3. Total(report, Writers(p, b)) = Total(report', Writers(p, b))
    BY <2>2, WritersFinite, TotalAgrees
  <2> QED BY <2>1, <2>3 DEF UseInv
<1> QED BY <1>1 DEF UseInv

\* The rows of a report are written.
LEMMA ReportWritten ==
  ASSUME UseInv, NEW c \in Recorders, RecordUserUsage(c)
  PROVE  UseInv'
<1>1. /\ report[c].step = "write" /\ minute' = minute
      /\ usage' = [p \in Periods |-> [b \in 0..Horizon |-> Added(p, b, c)]]
      /\ report' = [report EXCEPT ![c].step = "written"]
  BY DEF RecordUserUsage
<1>2. /\ report' \in [Recorders -> [step : {"new", "write", "written", "failed"},
                                    at : Nat, requests : Nat]]
      /\ report'[c].step = "written"
      /\ \A d \in Recorders \ {c} : report'[d] = report[d]
      /\ \A d \in Recorders : /\ report'[d].at = report[d].at
                              /\ report'[d].requests = report[d].requests
                              /\ report[d].requests \in Nat
  BY <1>1 DEF UseInv
<1>3. Written' = Written \cup {c} /\ c \notin Written
  BY <1>1, <1>2 DEF Written
<1>4. IsFiniteSet(Written')
  BY <1>3, FS_AddElement DEF UseInv
<1>5. ASSUME NEW p \in Periods, NEW b \in 0..Horizon
      PROVE  usage'[p][b] = Total(report', Writers(p, b)')
  <2> DEFINE W == Writers(p, b)
             V == Writers(p, b)'
  <2>1. /\ usage[p][b] = Total(report, W) /\ IsFiniteSet(W) /\ c \notin W
        /\ W \subseteq Recorders
    <3>1. usage[p][b] = Total(report, W)
      BY DEF UseInv
    <3>2. IsFiniteSet(W)
      BY WritersFinite
    <3>3. c \notin W /\ W \subseteq Recorders
      BY <1>3 DEF Writers, Written
    <3> QED BY <3>1, <3>2, <3>3
  <2>2. usage'[p][b] = Added(p, b, c)
    BY <1>1
  <2>3. Total(report, W) = Total(report', W)
    BY <1>2, <2>1, TotalAgrees
  <2>4. Total(report', W) \in Nat /\ Total(report', W \cup {c}) = Total(report', W) + report'[c].requests
    <3>1. \A x \in W \cup {c} : report'[x].requests \in Nat
      BY <1>2, <2>1
    <3> DEFINE q == report'
    <3>2. IsFiniteSet(W) /\ c \notin W /\ \A x \in W \cup {c} : q[x].requests \in Nat
      BY <2>1, <3>1
    <3> HIDE DEF W, q
    <3>3. Total(q, W) \in Nat /\ Total(q, W \cup {c}) = Total(q, W) + q[c].requests
      BY <3>2, TotalAdds
    <3> QED BY <3>3 DEF q
  <2>5. V = IF b = DateTrunc(p, report[c].at) THEN W \cup {c} ELSE W
    BY <1>2, <1>3 DEF Writers, Written
  <2> HIDE DEF W, V
  <2>6. CASE b = DateTrunc(p, report[c].at)
    BY <1>2, <2>1, <2>2, <2>3, <2>4, <2>5, <2>6 DEF Added, V
  <2>7. CASE b # DateTrunc(p, report[c].at)
    BY <2>1, <2>2, <2>3, <2>4, <2>5, <2>7 DEF Added, V
  <2> QED BY <2>6, <2>7
<1> QED BY <1>1, <1>2, <1>4, <1>5 DEF UseInv

\* UseInv always holds: a report that is begun, fails or waits changes no sum, and one
\* that is written adds to one row of every kind (RecordUserUsage).
THEOREM UsageInvariance == UseSpec => []UseInv
<1> USE UsageAssumption
<1>1. UseInit => UseInv
  <2> SUFFICES ASSUME UseInit
               PROVE  UseInv
    OBVIOUS
  <2>1. Written = {} /\ \A p, b : Writers(p, b) = {}
    BY DEF UseInit, Written, Writers
  <2>2. \A p \in Periods, b \in 0..Horizon : usage[p][b] = Total(report, Writers(p, b))
    BY <2>1, TotalOfNone DEF UseInit
  <2> QED BY <2>1, <2>2, FS_EmptySet DEF UseInit, UseInv
<1>2. UseInv /\ [UseNext]_useVars => UseInv'
  <2> SUFFICES ASSUME UseInv, [UseNext]_useVars
               PROVE  UseInv'
    OBVIOUS
  <2>1. ASSUME NEW c \in Recorders, (\E n \in Amounts : RecordUsage(c, n)) \/ RecordFails(c)
        PROVE  UseInv'
    <3>1. /\ report' \in [Recorders -> [step : {"new", "write", "written", "failed"},
                                        at : Nat, requests : Nat]]
          /\ report[c].step # "written" /\ report'[c].step # "written"
          /\ \A d \in Recorders \ {c} : report'[d] = report[d]
          /\ UNCHANGED <<usage, minute>>
      BY <2>1 DEF RecordUsage, RecordFails, UseInv
    <3>2. Written' = Written /\ \A d \in Written : report'[d] = report[d]
      BY <3>1 DEF Written
    <3> QED BY <3>1, <3>2, NothingWritten DEF UseInv
  <2>2. CASE UseTick \/ UNCHANGED useVars
    <3>1. /\ UNCHANGED <<usage, report>> /\ minute' \in Nat /\ minute' <= Horizon
      BY <2>2 DEF UseTick, useVars, UseInv
    <3>2. Written' = Written
      BY <3>1 DEF Written
    <3> QED BY <3>1, <3>2, NothingWritten DEF UseInv
  <2> QED BY <2>1, <2>2, ReportWritten DEF UseNext
<1> QED BY <1>1, <1>2, PTL DEF UseSpec

\* However many reports there are, and in whatever order they are written, each period
\* holds the sum of the requests that were handled in it (RecordUserUsage).
THEOREM UsageIsSumAlways == UseSpec => []UsageIsSum
<1>1. UseInv => UsageIsSum
  <2> SUFFICES ASSUME UseInv, NEW p \in Periods
               PROVE  /\ \A t \in 0..minute : usage[p][DateTrunc(p, t)] = Reported(p, t)
                      /\ GetUserUsageStats(p) = Reported(p, minute)
    BY DEF UsageIsSum
  <2>1. \A t \in 0..minute : usage[p][DateTrunc(p, t)] = Reported(p, t)
    <3> TAKE t \in 0..minute
    <3>1. DateTrunc(p, t) \in 0..Horizon
      BY TruncIsEarlier, UsageAssumption DEF UseInv
    <3>2. Reported(p, t) = Total(report, Writers(p, DateTrunc(p, t)))
      BY DEF Reported, Total, Writers
    <3> QED BY <3>1, <3>2 DEF UseInv
  <2>2. minute \in 0..minute
    BY DEF UseInv
  <2> QED BY <2>1, <2>2 DEF GetUserUsageStats
<1> QED BY <1>1, UsageInvariance, PTL
=============================================================================
