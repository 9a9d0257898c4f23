--------------------------- MODULE FriendsProofs ----------------------------
(***************************************************************************)
(* Proofs about Friends, for any users, requests and calls: every          *)
(* friendship was announced to the sender of an accepted request, and only *)
(* a removeFriend that runs into an accept leaves one in one direction.    *)
(* And about RoomRecords, for any number of calls and epochs.              *)
(***************************************************************************)
EXTENDS Friends, RoomRecords, TLAPS

Deciding(c) == pc[c] \in {"checked", "decided", "updated", "pair1", "pair2"}

\* A request has a sender and a receiver once it has been created, not before.
RequestsHaveParties ==
  \A r \in Requests :
    IF state[r] = "none" THEN sender[r] = NULL /\ receiver[r] = NULL
                         ELSE sender[r] \in Users /\ receiver[r] \in Users

\* A call that decides a request decides one that has been created; a
\* transaction that has updated it has inserted at most the two rows of its pair.
CallsAreSound ==
  \A c \in Calls :
    /\ Deciding(c) => arg[c] \in Requests /\ state[arg[c]] # "none"
    /\ pc[c] = "decided" => op[c] \in {"decline", "cancel"}
    /\ pc[c] = "deleting" => arg[c] \in Users
    /\ pc[c] \in {"idle", "checked", "decided", "updated"} => rows[c] = {}
    /\ pc[c] \in {"pair1", "pair2"} => rows[c] \subseteq {LeftRow(arg[c]), RightRow(arg[c])}

ToldOfCreated == \A n \in told : state[n.r] # "none"

\* Inductive, wherever removeFriend falls.
CallInv ==
  /\ TypeOK
  /\ RequestsHaveParties
  /\ CallsAreSound
  /\ ToldOfCreated
  /\ FriendshipAnnounced

\* The rows a transaction counts on: after the first INSERT of CreateFriendPair
\* the left row exists, committed or its own, after the second the right row too,
\* unless a removeFriend ran into it.
PairKept ==
  \A c \in Calls : Parties(arg[c]) \notin raced =>
    /\ pc[c] \in {"pair1", "pair2"} => LeftRow(arg[c]) \in friends \cup rows[c]
    /\ pc[c] = "pair2" => RightRow(arg[c]) \in friends \cup rows[c]

\* An account deletion removes rows of its user, and whole pairs.
DeletionSymmetric ==
  \A c \in Calls : pc[c] = "deleting" =>
    \A f \in rows[c] :
      /\ <<f[2], f[1]>> \in rows[c] \/ {f[1], f[2]} \in raced
      /\ arg[c] \in {f[1], f[2]}

PairInv == CallInv /\ HalvedOnlyByRemoval /\ PairKept /\ DeletionSymmetric

-----------------------------------------------------------------------------
\* The initial state has no request, no friendship and no call.
LEMMA InitPair == Init => PairInv
  BY FriendsAssumption DEF Init, PairInv, CallInv, TypeOK, TablesOK, CallsOK, RequestsHaveParties, CallsAreSound,
     ToldOfCreated, FriendshipAnnounced, HalvedOnlyByRemoval, PairKept, DeletionSymmetric,
     Deciding

\* No action changes the parties of a request once it is created, or forgets
\* that it was created.
LEMMA PartiesKept ==
  ASSUME CallInv, [Next]_vars, NEW r \in Requests, state[r] # "none"
  PROVE  sender'[r] = sender[r] /\ receiver'[r] = receiver[r] /\ state'[r] # "none"
<1> DEFINE Kept == sender'[r] = sender[r] /\ receiver'[r] = receiver[r] /\ state'[r] # "none"
<1> USE DEF CallInv, TypeOK, TablesOK, CallsOK
<1>1. ASSUME NEW u \in Users, NEW v \in Users, NEW q \in Requests, SendFriendRequest(u, v, q)
      PROVE  Kept
  BY <1>1 DEF SendFriendRequest
<1>2. ASSUME NEW c \in Calls, Decide(c)
      PROVE  Kept
  BY <1>2 DEF Decide, After
<1>3. ASSUME NEW c \in Calls, AcceptCommit(c)
      PROVE  Kept
  BY <1>3 DEF AcceptCommit
<1>4. ASSUME NEW c \in Calls, DeleteRequests(c)
      PROVE  Kept
  BY <1>4 DEF DeleteRequests
<1>5. ASSUME UNCHANGED reqVars
      PROVE  Kept
  BY <1>5 DEF reqVars
<1> QED
  BY <1>1, <1>2, <1>3, <1>4, <1>5 DEF Next, Step, vars, RemoveFriend, ReadRequest,
     AppendDecided, AcceptUpdate, RequestVanished, InsertLeft, InsertRight, DeleteFriends, Fails

-----------------------------------------------------------------------------
\* The tables keep their types, and created requests their parties: one case
\* per action that writes a request, a friendship or an event.
LEMMA TablesStep ==
  ASSUME CallInv, [Next]_vars
  PROVE  TablesOK' /\ RequestsHaveParties'
<1> DEFINE Goal == TablesOK' /\ RequestsHaveParties'
<1> SUFFICES Goal
  OBVIOUS
<1> USE DEF CallInv, TypeOK, TablesOK, CallsOK, RequestsHaveParties, reqVars
<1>1. ASSUME NEW u \in Users, NEW v \in Users, NEW q \in Requests, SendFriendRequest(u, v, q)
      PROVE  Goal
  BY <1>1 DEF SendFriendRequest
<1>2. ASSUME NEW u \in Users, NEW v \in Users, RemoveFriend(u, v)
      PROVE  Goal
  BY <1>2 DEF RemoveFriend
<1>3. ASSUME NEW c \in Calls, Decide(c)
      PROVE  Goal
  <2>1. /\ After[op[c]] \in {"Declined", "Canceled"}
        /\ arg[c] \in Requests /\ state[arg[c]] # "none"
    BY <1>3 DEF Decide, After, CallsAreSound, Deciding
  <2> QED BY <1>3, <2>1 DEF Decide
<1>4. ASSUME NEW c \in Calls, AppendDecided(c)
      PROVE  Goal
  <2>1. After[op[c]] \in {"Declined", "Canceled"} /\ arg[c] \in Requests
        /\ Addressee(op[c], arg[c]) \in Users
    BY <1>4 DEF AppendDecided, After, CallsAreSound, Deciding, Addressee
  <2> QED BY <1>4, <2>1 DEF AppendDecided
<1>5. ASSUME NEW c \in Calls, AcceptCommit(c)
      PROVE  Goal
  <2>1. arg[c] \in Requests /\ state[arg[c]] # "none" /\ sender[arg[c]] \in Users
    BY <1>5 DEF AcceptCommit, CallsAreSound, Deciding
  <2> QED BY <1>5, <2>1 DEF AcceptCommit
<1>6. ASSUME NEW c \in Calls, DeleteRequests(c)
      PROVE  Goal
  <2>1. \A r \in Requests : arg[c] \in Parties(r) => state[r] # "none"
    BY <1>6, FriendsAssumption DEF DeleteRequests, Parties, CallsAreSound
  <2> QED BY <1>6, <2>1 DEF DeleteRequests
<1>7. ASSUME NEW c \in Calls, InsertLeft(c) \/ InsertRight(c)
      PROVE  Goal
  BY <1>7 DEF InsertLeft, InsertRight, InsertFriend
<1>8. ASSUME UNCHANGED <<reqVars, friends, told>>
      PROVE  Goal
  BY <1>8 DEF reqVars
<1> HIDE DEF Goal
<1> QED
  BY <1>1, <1>2, <1>3, <1>4, <1>5, <1>6, <1>7, <1>8 DEF Next, Step, vars, ReadRequest,
     AcceptUpdate, RequestVanished, DeleteFriends, Fails

\* A call that has ended is idle, with nothing to decide and no rows.
LEMMA EndedCall ==
  ASSUME CallInv, NEW c \in Calls, Ended(c)
  PROVE  /\ CallsOK'
         /\ pc'[c] = "idle" /\ rows'[c] = {}
         /\ \A d \in Calls \ {c} : pc'[d] = pc[d] /\ op'[d] = op[d]
                                 /\ arg'[d] = arg[d] /\ rows'[d] = rows[d]
BY DEF Ended, CallInv, TypeOK, CallsOK

\* The calls keep their types, and stay sound: one case per action of a call.
LEMMA CallsStep ==
  ASSUME CallInv, [Next]_vars
  PROVE  CallsOK' /\ CallsAreSound'
<1> DEFINE
           Sound(d) ==
             /\ pc'[d] \in {"checked", "decided", "updated", "pair1", "pair2"} =>
                  arg'[d] \in Requests /\ state[arg'[d]] # "none"
             /\ pc'[d] = "decided" => op'[d] \in {"decline", "cancel"}
             /\ pc'[d] = "deleting" => arg'[d] \in Users
             /\ pc'[d] \in {"idle", "checked", "decided", "updated"} => rows'[d] = {}
             /\ pc'[d] \in {"pair1", "pair2"} =>
                  rows'[d] \subseteq {LeftRow(arg'[d]), RightRow(arg'[d])}
           Kept(d) ==
             /\ pc'[d] = pc[d] /\ op'[d] = op[d]
             /\ arg'[d] = arg[d] /\ rows'[d] = rows[d]
<1>1. ASSUME NEW d \in Calls, Kept(d)
      PROVE  Sound(d)
  BY <1>1 DEF CallInv, CallsAreSound, Deciding
<1>2. ASSUME NEW c \in Calls, Step(c)
      PROVE  CallsOK' /\ Sound(c) /\ \A d \in Calls \ {c} : Kept(d)
  <2> USE DEF CallInv, TypeOK, TablesOK, CallsOK, reqVars
  <2>1. ASSUME NEW o \in Decisions, NEW u \in Users, NEW r \in Requests,
               ReadRequest(c, o, u, r)
        PROVE  CallsOK' /\ Sound(c) /\ \A d \in Calls \ {c} : Kept(d)
    BY <2>1 DEF ReadRequest, Allowed, CallsAreSound
  <2>2. CASE Decide(c)
    BY <2>2 DEF Decide, CallsAreSound, Deciding
  <2>3. CASE AcceptUpdate(c)
    BY <2>3 DEF AcceptUpdate, CallsAreSound, Deciding
  <2>4. CASE InsertLeft(c)
    <3>1. arg[c] \in Requests /\ rows[c] = {} /\ state[arg[c]] # "none"
      BY <2>4 DEF InsertLeft, CallsAreSound, Deciding
    <3>2. LeftRow(arg[c]) \in Users \X Users
      BY <3>1 DEF RequestsHaveParties, LeftRow
    <3> QED BY <2>4, <3>1, <3>2 DEF InsertLeft, InsertFriend
  <2>5. CASE InsertRight(c)
    <3>1. /\ arg[c] \in Requests /\ state[arg[c]] # "none"
          /\ rows[c] \subseteq {LeftRow(arg[c]), RightRow(arg[c])}
      BY <2>5 DEF InsertRight, CallsAreSound, Deciding
    <3>2. RightRow(arg[c]) \in Users \X Users
      BY <3>1 DEF RequestsHaveParties, RightRow
    <3> QED BY <2>5, <3>1, <3>2 DEF InsertRight, InsertFriend
  <2>6. ASSUME NEW u \in Users, DeleteFriends(c, u)
        PROVE  CallsOK' /\ Sound(c) /\ \A d \in Calls \ {c} : Kept(d)
    <3>1. RowsOf(u) \subseteq Users \X Users
      BY DEF RowsOf
    <3> QED BY <2>6, <3>1 DEF DeleteFriends
  <2>7. CASE Ended(c)
    BY <2>7, EndedCall
  <2> QED
    BY <1>2, <2>1, <2>2, <2>3, <2>4, <2>5, <2>6, <2>7 DEF Step, AppendDecided,
       RequestVanished, AcceptCommit, DeleteRequests, Fails
<1>3. CallsOK' /\ \A d \in Calls : Sound(d)
  <2>1. CASE \E c \in Calls : Step(c)
    BY <1>1, <1>2, <2>1
  <2>2. CASE UNCHANGED <<pc, op, arg, rows>>
    BY <1>1, <2>2 DEF CallInv, TypeOK, CallsOK
  <2> QED
    BY <2>1, <2>2 DEF Next, vars, SendFriendRequest, RemoveFriend
<1>4. ASSUME NEW d \in Calls
      PROVE  /\ Deciding(d)' => arg'[d] \in Requests /\ state'[arg'[d]] # "none"
             /\ pc'[d] \in {"pair1", "pair2"} =>
                  rows'[d] \subseteq {LeftRow(arg[d])', RightRow(arg[d])'}
  BY <1>3, PartiesKept DEF Deciding, LeftRow, RightRow
<1> QED
  BY <1>3, <1>4 DEF CallsAreSound

-----------------------------------------------------------------------------
\* An announced friendship stays announced: requests keep their parties, events
\* are never taken back, and new rows come with their event.
LEMMA AnnouncedStep ==
  ASSUME CallInv, [Next]_vars
  PROVE  ToldOfCreated' /\ FriendshipAnnounced'
<1> DEFINE Notice(r) == [what |-> "Accepted", r |-> r, to |-> sender[r]]
           Announced(f, r) == Parties(r) = {f[1], f[2]} /\ Notice(r) \in told
<1>1. ASSUME NEW n \in told
      PROVE  n.r \in Requests /\ state[n.r] # "none"
  BY <1>1 DEF CallInv, TypeOK, TablesOK, ToldOfCreated
<1>2. ASSUME NEW f \in friends, told \subseteq told'
      PROVE  \E r \in Requests : Announced(f, r)'
  <2>1. PICK r \in Requests : Announced(f, r)
    BY DEF CallInv, FriendshipAnnounced
  <2>2. state[r] # "none"
    <3>1. Notice(r).r = r
      OBVIOUS
    <3> QED BY <1>1, <2>1, <3>1
  <2>3. sender'[r] = sender[r] /\ receiver'[r] = receiver[r]
    BY <2>2, PartiesKept
  <2>4. Announced(f, r)'
    BY <1>2, <2>1, <2>3 DEF Parties
  <2> QED BY <2>4
<1>3. ASSUME told' = told, friends' \subseteq friends
      PROVE  ToldOfCreated' /\ FriendshipAnnounced'
  <2>1. ToldOfCreated'
    BY <1>1, <1>3, PartiesKept DEF ToldOfCreated
  <2>2. FriendshipAnnounced'
    BY <1>2, <1>3 DEF FriendshipAnnounced
  <2> QED BY <2>1, <2>2
<1>4. ASSUME NEW c \in Calls, AppendDecided(c)
      PROVE  ToldOfCreated' /\ FriendshipAnnounced'
  <2> DEFINE new == [what |-> After[op[c]], r |-> arg[c], to |-> Addressee(op[c], arg[c])]
  <2>1. /\ arg[c] \in Requests /\ state[arg[c]] # "none"
        /\ told' = told \cup {new} /\ friends' = friends
    BY <1>4 DEF AppendDecided, CallInv, CallsAreSound, Deciding
  <2>2. new.r = arg[c]
    OBVIOUS
  <2> HIDE DEF new
  <2>3. ToldOfCreated'
    BY <1>1, <2>1, <2>2, PartiesKept DEF ToldOfCreated
  <2>4. FriendshipAnnounced'
    BY <1>2, <2>1 DEF FriendshipAnnounced
  <2> QED BY <2>3, <2>4
<1>5. ASSUME NEW c \in Calls, AcceptCommit(c)
      PROVE  ToldOfCreated' /\ FriendshipAnnounced'
  <2>1. PICK r \in Requests :
        /\ r = arg[c] /\ state[r] # "none"
        /\ rows[c] \subseteq {LeftRow(r), RightRow(r)}
    BY <1>5 DEF AcceptCommit, CallInv, CallsAreSound, Deciding
  <2>2. /\ told' = told \cup {Notice(r)} /\ friends' = friends \cup rows[c]
        /\ sender' = sender /\ receiver' = receiver
    BY <1>5, <2>1 DEF AcceptCommit
  <2>3. Notice(r).r = r
    OBVIOUS
  <2>4. ToldOfCreated'
    BY <1>1, <2>1, <2>2, <2>3, PartiesKept DEF ToldOfCreated
  <2>5. ASSUME NEW f \in rows[c]
        PROVE  Announced(f, r)'
    <3>1. f = LeftRow(r) \/ f = RightRow(r)
      BY <2>1
    <3>2. Parties(r)' = {f[1], f[2]}
      BY <2>2, <3>1 DEF Parties, LeftRow, RightRow
    <3> QED BY <2>2, <3>2
  <2>6. FriendshipAnnounced'
    BY <1>2, <2>1, <2>2, <2>5 DEF FriendshipAnnounced
  <2> QED BY <2>4, <2>6
<1> QED
  BY <1>3, <1>4, <1>5 DEF Next, Step, vars, SendFriendRequest, RemoveFriend, ReadRequest,
     Decide, AcceptUpdate, RequestVanished, InsertLeft, InsertRight, InsertFriend,
     DeleteFriends, DeleteRequests, Fails

\* The invariant of requests and calls is inductive.
LEMMA CallStep == CallInv /\ [Next]_vars => CallInv'
<1> SUFFICES ASSUME CallInv, [Next]_vars PROVE CallInv'
  OBVIOUS
<1>1. raced' \subseteq SUBSET Users
  BY DEF CallInv, TypeOK, Next, RemoveFriend, vars
<1> QED BY <1>1, TablesStep, CallsStep, AnnouncedStep DEF CallInv, TypeOK

\* Tables and calls keep their types, for any users, requests and calls.
THEOREM FriendsTypeCorrect == Spec => []TypeOK
<1>1. Init => CallInv
  BY InitPair DEF PairInv
<1>2. CallInv => TypeOK
  BY DEF CallInv
<1> QED
  BY <1>1, <1>2, CallStep, PTL DEF Spec

\* No friendship exists whose requester has not been told that the request was
\* accepted, for any users, requests and calls, wherever removeFriend falls.
THEOREM FriendshipAnnouncedAlways == Spec => []FriendshipAnnounced
<1>1. Init => CallInv
  BY InitPair DEF PairInv
<1>2. CallInv => FriendshipAnnounced
  BY DEF CallInv
<1> QED
  BY <1>1, <1>2, CallStep, PTL DEF Spec

-----------------------------------------------------------------------------
\* When a call's rows reach friends or it gives them up, pairs stay whole.
\* The case that matters is DeleteRequests: a transaction that counts on a
\* committed row holds the lock of a request of the deleted user, so the
\* deletion has not got past its DELETE FROM friend_requests.
LEMMA PairStep ==
  ASSUME PairInv, [Next]_vars
  PROVE  HalvedOnlyByRemoval' /\ PairKept' /\ DeletionSymmetric'
<1> DEFINE Goal == HalvedOnlyByRemoval' /\ PairKept' /\ DeletionSymmetric'
           L(d) == <<sender[arg[d]], receiver[arg[d]]>>
           R(d) == <<receiver[arg[d]], sender[arg[d]]>>
           P(d) == {sender[arg[d]], receiver[arg[d]]}
           Pairs(d) == P(d)' \notin raced' =>
             /\ pc'[d] \in {"pair1", "pair2"} => L(d)' \in friends' \cup rows'[d]
             /\ pc'[d] = "pair2" => R(d)' \in friends' \cup rows'[d]
           Deletes(d) ==
             pc'[d] = "deleting" =>
               \A f \in rows'[d] :
                 /\ <<f[2], f[1]>> \in rows'[d] \/ {f[1], f[2]} \in raced'
                 /\ arg'[d] \in {f[1], f[2]}
           Kept(d) == pc'[d] = pc[d] /\ arg'[d] = arg[d] /\ rows'[d] = rows[d]
<1>0. CallInv' /\ raced \subseteq raced'
  BY CallStep DEF PairInv, Next, RemoveFriend, vars
<1>1. ASSUME NEW d \in Calls, Kept(d), friends \subseteq friends'
      PROVE  Pairs(d) /\ Deletes(d)
  <2>1. Deletes(d)
    BY <1>0, <1>1 DEF PairInv, DeletionSymmetric
  <2>2. ASSUME pc[d] \in {"pair1", "pair2"}
        PROVE  Pairs(d)
    <3>1. arg[d] \in Requests /\ state[arg[d]] # "none"
      BY <2>2 DEF PairInv, CallInv, CallsAreSound, Deciding
    <3>2. L(d)' = L(d) /\ R(d)' = R(d) /\ P(d)' = P(d)
      BY <1>1, <3>1, PartiesKept DEF PairInv
    <3> QED BY <1>0, <1>1, <2>2, <3>2 DEF PairInv, PairKept, LeftRow, RightRow, Parties
  <2> QED BY <1>1, <2>1, <2>2
<1>2. ASSUME \A d \in Calls : Pairs(d) /\ Deletes(d)
      PROVE  PairKept' /\ DeletionSymmetric'
  BY <1>2 DEF PairKept, DeletionSymmetric, LeftRow, RightRow, Parties
<1>3. ASSUME NEW c \in Calls, pc'[c] \notin {"pair1", "pair2", "deleting"},
             \A d \in Calls \ {c} : Kept(d), friends' = friends
      PROVE  Goal
  BY <1>0, <1>1, <1>2, <1>3 DEF PairInv, HalvedOnlyByRemoval
<1> USE DEF PairInv, CallInv, TypeOK, CallsOK
<1>4. ASSUME NEW c \in Calls, InsertLeft(c)
      PROVE  Goal
  <2>1. pc'[c] = "pair1" /\ friends' = friends /\ \A d \in Calls \ {c} : Kept(d)
    BY <1>4 DEF InsertLeft, InsertFriend
  <2>2. Pairs(c) /\ Deletes(c)
    BY <1>4 DEF InsertLeft, InsertFriend, LeftRow, reqVars
  <2> QED BY <1>0, <1>1, <1>2, <2>1, <2>2 DEF HalvedOnlyByRemoval
<1>5. ASSUME NEW c \in Calls, InsertRight(c)
      PROVE  Goal
  <2>1. pc'[c] = "pair2" /\ friends' = friends /\ \A d \in Calls \ {c} : Kept(d)
    BY <1>5 DEF InsertRight, InsertFriend
  <2>2. P(c) \in raced \/ L(c) \in friends \cup rows[c]
    BY <1>5 DEF InsertRight, PairKept, LeftRow, Parties
  <2>3. Pairs(c) /\ Deletes(c)
    BY <1>0, <1>5, <2>2 DEF InsertRight, InsertFriend, RightRow, reqVars
  <2> QED BY <1>0, <1>1, <1>2, <2>1, <2>3 DEF HalvedOnlyByRemoval
<1>6. ASSUME NEW c \in Calls, AcceptCommit(c)
      PROVE  Goal
  <2>1. /\ pc'[c] = "idle" /\ friends' = friends \cup rows[c]
        /\ \A d \in Calls \ {c} : Kept(d)
    BY <1>6 DEF AcceptCommit, Ended
  <2>2. P(c) \in raced \/ (L(c) \in friends \cup rows[c] /\ R(c) \in friends \cup rows[c])
    BY <1>6 DEF AcceptCommit, PairKept, LeftRow, RightRow, Parties
  <2>3. rows[c] \subseteq {L(c), R(c)}
    BY <1>6 DEF AcceptCommit, CallsAreSound, LeftRow, RightRow
  <2>4. HalvedOnlyByRemoval'
    <3> SUFFICES ASSUME NEW f \in friends \cup rows[c]
                 PROVE  <<f[2], f[1]>> \in friends \cup rows[c] \/ {f[1], f[2]} \in raced
      BY <1>0, <2>1 DEF HalvedOnlyByRemoval
    <3>1. CASE f \in friends
      BY <3>1 DEF HalvedOnlyByRemoval
    <3>2. CASE f = L(c) \/ f = R(c)
      <4>1. {f[1], f[2]} = P(c) /\ <<f[2], f[1]>> \in {L(c), R(c)}
        BY <3>2
      <4> QED BY <2>2, <4>1
    <3> QED BY <2>3, <3>1, <3>2
  <2> QED BY <1>1, <1>2, <2>1, <2>4
<1>7. ASSUME NEW c \in Calls, NEW u \in Users, DeleteFriends(c, u)
      PROVE  Goal
  <2>1. /\ pc'[c] = "deleting" /\ friends' = friends
        /\ \A d \in Calls \ {c} : Kept(d)
    BY <1>7 DEF DeleteFriends
  <2>2. rows'[c] = RowsOf(u) /\ arg'[c] = u
    BY <1>7 DEF DeleteFriends
  <2>3. \A f \in RowsOf(u) : /\ <<f[2], f[1]>> \in RowsOf(u) \/ {f[1], f[2]} \in raced
                             /\ u \in {f[1], f[2]}
    BY DEF RowsOf, HalvedOnlyByRemoval
  <2>4. Pairs(c) /\ Deletes(c)
    BY <1>0, <2>1, <2>2, <2>3
  <2> QED BY <1>0, <1>1, <1>2, <2>1, <2>4 DEF HalvedOnlyByRemoval
<1>8. ASSUME NEW c \in Calls, DeleteRequests(c)
      PROVE  Goal
  <2>1. /\ pc[c] = "deleting" /\ pc'[c] = "idle" /\ friends' = friends \ rows[c]
        /\ sender' = sender /\ receiver' = receiver
        /\ \A d \in Calls \ {c} : Kept(d)
    BY <1>8 DEF DeleteRequests, Ended
  <2>2. \A f \in rows[c] : /\ <<f[2], f[1]>> \in rows[c] \/ {f[1], f[2]} \in raced
                           /\ arg[c] \in {f[1], f[2]}
    BY <2>1 DEF DeletionSymmetric
  <2>3. HalvedOnlyByRemoval'
    <3> SUFFICES ASSUME NEW f \in friends, f \notin rows[c], {f[1], f[2]} \notin raced
                 PROVE  <<f[2], f[1]>> \in friends /\ <<f[2], f[1]>> \notin rows[c]
      BY <1>0, <2>1 DEF HalvedOnlyByRemoval
    <3>1. f = <<f[1], f[2]>>
      BY DEF TablesOK
    <3>2. <<f[2], f[1]>> \notin rows[c]
      <4>1. {f[2], f[1]} = {f[1], f[2]}
        OBVIOUS
      <4> QED BY <2>2, <3>1, <4>1
    <3> QED BY <3>2 DEF HalvedOnlyByRemoval
  <2>4. ASSUME NEW d \in Calls \ {c}, HoldsRequest(d)
        PROVE  L(d) \notin rows[c] /\ R(d) \notin rows[c]
    <3>1. arg[d] \in Requests
      BY <2>4 DEF HoldsRequest, CallsAreSound, Deciding
    <3>2. RequestLocked(c, arg[d])
      BY <2>4 DEF RequestLocked
    <3>3. arg[c] \notin Parties(arg[d])
      BY <1>8, <3>1, <3>2 DEF DeleteRequests
    <3> QED BY <2>2, <3>3 DEF Parties
  <2>5. ASSUME NEW d \in Calls \ {c}
        PROVE  Pairs(d) /\ Deletes(d)
    BY <1>0, <2>1, <2>4 DEF PairKept, DeletionSymmetric, HoldsRequest, LeftRow, RightRow,
       Parties
  <2> QED BY <1>2, <2>1, <2>3, <2>5
<1>9. ASSUME UNCHANGED <<friends, pc, arg, rows>>
      PROVE  Goal
  BY <1>0, <1>1, <1>2, <1>9 DEF HalvedOnlyByRemoval
<1>10. ASSUME NEW c \in Calls, Ended(c), friends' = friends
       PROVE  Goal
  <2>1. pc'[c] = "idle" /\ \A d \in Calls \ {c} : Kept(d)
    BY <1>10 DEF Ended
  <2> QED BY <1>3, <1>10, <2>1
<1>11. ASSUME NEW c \in Calls, Decide(c) \/ AcceptUpdate(c)
       PROVE  Goal
  BY <1>3, <1>11 DEF Decide, AcceptUpdate
<1>12. ASSUME NEW c \in Calls, NEW o \in Decisions, NEW u \in Users, NEW r \in Requests,
              ReadRequest(c, o, u, r)
       PROVE  Goal
  BY <1>3, <1>12 DEF ReadRequest
<1>13. ASSUME NEW u \in Users, NEW v \in Users, RemoveFriend(u, v)
       PROVE  Goal
  <2> DEFINE both == {<<u, v>>, <<v, u>>}
  <2>1. /\ friends' = friends \ both /\ (Accepting(u, v) => {u, v} \in raced')
        /\ sender' = sender /\ receiver' = receiver
        /\ \A d \in Calls : Kept(d)
    BY <1>13 DEF RemoveFriend, reqVars
  <2>2. HalvedOnlyByRemoval'
    <3> SUFFICES ASSUME NEW f \in friends, f \notin both, {f[1], f[2]} \notin raced
                 PROVE  <<f[2], f[1]>> \in friends /\ <<f[2], f[1]>> \notin both
      BY <1>0, <2>1 DEF HalvedOnlyByRemoval
    <3>1. f = <<f[1], f[2]>>
      BY DEF TablesOK
    <3>2. <<f[2], f[1]>> \notin both
      BY <3>1
    <3> QED BY <3>2 DEF HalvedOnlyByRemoval
  <2>3. ASSUME NEW d \in Calls, pc[d] \in {"pair1", "pair2"}, P(d) \notin raced'
        PROVE  L(d) \notin both /\ R(d) \notin both
    <3>1. Parties(arg[d]) # {u, v}
      BY <2>1, <2>3 DEF Accepting, Parties
    <3> QED BY <3>1 DEF Parties
  <2>4. ASSUME NEW d \in Calls
        PROVE  Pairs(d) /\ Deletes(d)
    BY <1>0, <2>1, <2>3 DEF PairKept, DeletionSymmetric, LeftRow, RightRow, Parties
  <2> QED BY <1>2, <2>2, <2>4
<1> HIDE DEF Goal, PairInv, CallInv, TypeOK, CallsOK
<1> QED
  BY <1>4, <1>5, <1>6, <1>7, <1>8, <1>9, <1>10, <1>11, <1>12, <1>13 DEF Goal, Next, Step,
     vars, SendFriendRequest, AppendDecided, RequestVanished, Fails

\* However accepts, removals, account deletions, rollbacks and crashes interleave,
\* only a removeFriend that runs while an accept inserts the rows of the same pair
\* leaves a friendship in one direction.
THEOREM HalvedOnlyByRemovalAlways == Spec => []HalvedOnlyByRemoval
<1>1. PairInv /\ [Next]_vars => PairInv'
  BY CallStep, PairStep DEF PairInv
<1>2. PairInv => HalvedOnlyByRemoval
  BY DEF PairInv
<1> QED
  BY <1>1, <1>2, InitPair, PTL DEF Spec

-----------------------------------------------------------------------------
(* RoomRecords: the inductive invariant *)

RecType ==
  [kind : {"none", "state", "text", "permit", "change", "drop", "account"},
   step : {"new", "insert", "inserted", "write", "upsert", "change", "drop",
           "account", "answered", "failed"},
   epoch : Epochs \cup {None}, sets : SUBSET Fields,
   id : Writers \cup {Old, None}, read : [Fields -> Writers \cup {None}]]

\* What a call is about follows from its step.
KindOfStep ==
  \A c \in Writers :
    /\ rec[c].step = "new" => rec[c].kind = "none"
    /\ rec[c].step \in {"insert", "inserted"} => rec[c].kind = "state"
    /\ rec[c].step = "write" => rec[c].kind = "text"
    /\ rec[c].step = "upsert" => rec[c].kind = "permit"
    /\ rec[c].step \in {"change", "drop", "account"} => rec[c].kind = rec[c].step
    /\ rec[c].kind = "state" => rec[c].epoch \in Epochs

\* Only a call that has ended is before another, and only one that has begun is
\* after another.
EarlierIsOver ==
  \A c, d \in Writers : <<c, d>> \in earlier =>
    rec[c].step \in {"answered", "failed"} /\ rec[d].step # "new"

\* The states of the table are those of the accepted calls, and of the calls whose
\* INSERT is not committed yet, each is alone with its epoch.
StoredIsAccepted ==
  /\ \A e \in Epochs : stored[e] # None =>
       /\ rec[stored[e]].kind = "state" /\ rec[stored[e]].step = "answered"
       /\ rec[stored[e]].epoch = e
  /\ \A c \in Writers : rec[c].step = "inserted" =>
       /\ stored[rec[c].epoch] = None
       /\ \A d \in Writers \ {c} : rec[d].step = "inserted" => rec[d].epoch # rec[c].epoch

\* If the permission is not the row that a call found, its last writer had not
\* ended when the call began.
ReplacedSince ==
  \A c \in Writers :
    rec[c].step \in {"change", "drop", "account"} /\ permission # None
      /\ permission.id # rec[c].id => <<permission.by, c>> \notin earlier

RecInv ==
  /\ RecTypeOK /\ rec \in [Writers -> RecType]
  /\ KindOfStep /\ EarlierIsOver /\ StoredIsAccepted /\ ReplacedSince
  /\ AcceptedIsFetched /\ CurrentIsRecent

USE DEF Fields

-----------------------------------------------------------------------------
(* The first step of a call *)

LEMMA StartKeepsInv ==
  ASSUME RecInv, NEW c \in Writers, NEW r \in RecType, StartRec(c, r),
         r.kind # "none", r.step \notin {"new", "inserted", "answered", "failed"},
         r.step = "insert" => r.kind = "state", r.kind = "state" => r.epoch \in Epochs,
         r.step = "write" => r.kind = "text", r.step = "upsert" => r.kind = "permit",
         r.step \in {"change", "drop", "account"} =>
           r.kind = r.step /\ permission # None /\ r.id = permission.id
  PROVE  RecInv'
<1> USE DEF RecInv
<1>1. RecTypeOK' /\ rec' \in [Writers -> RecType]
  BY DEF RecTypeOK, StartRec, Over
<1>2. rec'[c] = r /\ \A d \in Writers \ {c} : rec'[d] = rec[d]
  BY DEF StartRec
<1>3. rec[c].step = "new" /\ c \notin Over
  BY DEF StartRec, Over
<1>4. UNCHANGED <<stored, stateId, texts, permission>>
  BY DEF StartRec
<1>5. \A d, e : <<d, e>> \in earlier' <=> (<<d, e>> \in earlier \/ (d \in Over /\ e = c))
  BY DEF StartRec
<1>6. KindOfStep'
  BY <1>2 DEF KindOfStep
<1>7. EarlierIsOver'
  BY <1>2, <1>3, <1>5 DEF EarlierIsOver, Over
<1>8. StoredIsAccepted'
  BY <1>2, <1>3, <1>4 DEF StoredIsAccepted, RecTypeOK
<1>9. ReplacedSince'
  BY <1>2, <1>4, <1>5 DEF ReplacedSince, RecTypeOK, PermissionRow
<1>10. AcceptedIsFetched'
  BY <1>2, <1>3, <1>4, RoomRecordsAssumption
     DEF AcceptedIsFetched, FetchRoomState, StoredIsAccepted
<1>11. \A k : Answers(k)' = Answers(k) /\ c \notin Answers(k)
  BY <1>2, <1>3 DEF Answers
<1>12. CurrentIsRecent'
  <2>1. (stateId \in Answers("state") \cup {None} /\ Recent(stateId, Answers("state")))'
    BY <1>4, <1>11, <1>5 DEF CurrentIsRecent, Recent
  <2>2. (\A f \in Fields :
           Recent(texts[f], {d \in Answers("text") : f \in rec[d].sets}))'
    <3> SUFFICES ASSUME NEW f \in Fields, NEW d \in Answers("text"), f \in rec'[d].sets
                 PROVE  texts[f] \in Writers /\ <<texts[f], d>> \notin earlier'
      BY <1>4, <1>11 DEF Recent
    <3>1. d \in Writers /\ d # c
      BY <1>11 DEF Answers
    <3> QED BY <3>1, <1>2, <1>5 DEF CurrentIsRecent, Recent
  <2>3. ASSUME NEW d \in Answers("permit"),
               \A e \in Writers : rec'[e].kind \in {"drop", "account"} => <<e, d>> \in earlier'
        PROVE  permission # None /\ Recent(permission.by, Answers("permit") \cup Answers("change"))'
    <3>1. d \in Writers /\ d # c
      BY <1>11 DEF Answers
    <3>2. \A e \in Writers : rec[e].kind \in {"drop", "account"} => <<e, d>> \in earlier
      BY <2>3, <3>1, <1>2, <1>3, <1>5 DEF KindOfStep
    <3> QED BY <3>2, <1>4, <1>5, <1>11 DEF CurrentIsRecent, Recent
  <2> QED BY <2>1, <2>2, <2>3, <1>4, <1>11 DEF CurrentIsRecent
<1> QED BY <1>1, <1>6, <1>7, <1>8, <1>9, <1>10, <1>12

-----------------------------------------------------------------------------
(* The later steps *)

\* What a later step of call c leaves alone, and that nothing is after c yet.
Moved(c, from, to) ==
  /\ rec' \in [Writers -> RecType] /\ KindOfStep' /\ EarlierIsOver'
  /\ earlier' = earlier
  /\ rec[c].step = from /\ rec'[c].step = to
  /\ \A d \in Writers \ {c} : rec'[d] = rec[d]
  /\ \A d \in Writers :
       /\ rec'[d].kind = rec[d].kind /\ rec'[d].epoch = rec[d].epoch
       /\ rec'[d].sets = rec[d].sets /\ rec'[d].id = rec[d].id
  /\ \A d \in Writers : <<c, d>> \notin earlier

LEMMA StepFrame ==
  ASSUME RecInv, NEW c \in Writers, NEW from, NEW to, StepRec(c, from, to),
         from \notin {"new", "answered", "failed"}, to \in {"inserted", "answered", "failed"},
         to = "inserted" => from = "insert"
  PROVE  Moved(c, from, to)
<1> USE DEF RecInv
<1>1. rec[c] \in RecType /\ rec' = [rec EXCEPT ![c].step = to]
  BY DEF StepRec
<1>2. rec' \in [Writers -> RecType]
  BY <1>1 DEF RecType
<1>3. /\ earlier' = earlier /\ rec[c].step = from /\ rec'[c].step = to
      /\ \A d \in Writers \ {c} : rec'[d] = rec[d]
  BY <1>1 DEF StepRec, RecType
<1>4. \A d \in Writers :
        /\ rec'[d].kind = rec[d].kind /\ rec'[d].epoch = rec[d].epoch
        /\ rec'[d].sets = rec[d].sets /\ rec'[d].id = rec[d].id
  BY <1>1 DEF RecType
<1>5. KindOfStep'
  BY <1>3, <1>4 DEF KindOfStep
<1>6. EarlierIsOver' /\ \A d \in Writers : <<c, d>> \notin earlier
  BY <1>3 DEF EarlierIsOver
<1> QED BY <1>2, <1>3, <1>4, <1>5, <1>6 DEF Moved

LEMMA InsertStateKeepsInv ==
  ASSUME RecInv, NEW c \in Writers, InsertState(c)
  PROVE  RecInv'
<1> USE DEF RecInv, Moved
<1>1. Moved(c, "insert", "inserted")
  BY StepFrame, Zenon DEF InsertState
<1>2. UNCHANGED <<stored, stateId, texts, permission>>
  BY DEF InsertState
<1>3. RecTypeOK'
  BY <1>1, <1>2 DEF RecTypeOK
<1>4. StoredIsAccepted'
  BY <1>1, <1>2 DEF StoredIsAccepted, InsertState, RecTypeOK
<1>5. ReplacedSince'
  BY <1>1, <1>2 DEF ReplacedSince
<1>6. AcceptedIsFetched'
  BY <1>1, <1>2 DEF AcceptedIsFetched, FetchRoomState, KindOfStep
<1>7. \A k : Answers(k)' = Answers(k)
  BY <1>1 DEF Answers
<1>8. CurrentIsRecent'
  BY <1>1, <1>2, <1>7 DEF CurrentIsRecent, Recent, Answers
<1> QED BY <1>1, <1>3, <1>4, <1>5, <1>6, <1>8

LEMMA CommitStateKeepsInv ==
  ASSUME RecInv, NEW c \in Writers, CommitState(c)
  PROVE  RecInv'
<1> USE DEF RecInv, Moved
<1>1. Moved(c, "inserted", "answered")
  BY StepFrame, Zenon DEF CommitState
<1>2. UNCHANGED <<texts, permission>> /\ stateId' = c
  BY DEF CommitState
<1>3. /\ rec[c].kind = "state" /\ rec[c].epoch \in Epochs
      /\ stored' = [stored EXCEPT ![rec[c].epoch] = c]
      /\ stored[rec[c].epoch] = None
  BY <1>1 DEF CommitState, KindOfStep, StoredIsAccepted
<1>4. RecTypeOK'
  BY <1>1, <1>2, <1>3 DEF RecTypeOK
<1>5. StoredIsAccepted'
  BY <1>1, <1>3, RoomRecordsAssumption DEF StoredIsAccepted, RecTypeOK, KindOfStep
<1>6. ReplacedSince'
  BY <1>1, <1>2 DEF ReplacedSince
<1>7. AcceptedIsFetched'
  BY <1>1, <1>3, RoomRecordsAssumption
     DEF AcceptedIsFetched, FetchRoomState, RecTypeOK, KindOfStep
<1>8. /\ Answers("state")' = Answers("state") \cup {c}
      /\ \A k \in {"text", "permit", "change"} : Answers(k)' = Answers(k)
  BY <1>1, <1>3 DEF Answers
<1>9. CurrentIsRecent'
  BY <1>1, <1>2, <1>8 DEF CurrentIsRecent, Recent, Answers
<1> QED BY <1>1, <1>4, <1>5, <1>6, <1>7, <1>9

LEMMA UpdateRoomKeepsInv ==
  ASSUME RecInv, NEW c \in Writers, UpdateRoom(c)
  PROVE  RecInv'
<1> USE DEF RecInv, Moved
<1>1. Moved(c, "write", "answered")
  BY StepFrame DEF UpdateRoom
<1>2. UNCHANGED <<stored, stateId, permission>> /\ texts' = Merged(c) /\ rec[c].kind = "text"
  BY <1>1 DEF UpdateRoom, KindOfStep
<1>3. RecTypeOK'
  BY <1>1, <1>2 DEF RecTypeOK, Merged
<1>4. StoredIsAccepted' /\ ReplacedSince'
  BY <1>1, <1>2 DEF StoredIsAccepted, ReplacedSince, RecTypeOK
<1>5. AcceptedIsFetched'
  BY <1>1, <1>2 DEF AcceptedIsFetched, FetchRoomState
<1>6. /\ Answers("text")' = Answers("text") \cup {c}
      /\ \A k \in {"state", "permit", "change"} : Answers(k)' = Answers(k)
  BY <1>1, <1>2 DEF Answers
<1>7. CurrentIsRecent'
  BY <1>1, <1>2, <1>6 DEF CurrentIsRecent, Recent, Answers, Merged
<1> QED BY <1>1, <1>3, <1>4, <1>5, <1>7

\* A step that touches neither states nor texts, and answers no call about them.
LEMMA PermissionFrame ==
  ASSUME RecInv, NEW c \in Writers, NEW from, NEW to, Moved(c, from, to),
         to \in {"answered", "failed"}, to = "answered" => rec[c].kind \notin {"state", "text"},
         from \notin {"answered", "failed"}, UNCHANGED <<stored, stateId, texts>>
  PROVE  /\ StoredIsAccepted' /\ AcceptedIsFetched'
         /\ (stateId \in Answers("state") \cup {None} /\ Recent(stateId, Answers("state")))'
         /\ (\A f \in Fields : Recent(texts[f], {d \in Answers("text") : f \in rec[d].sets}))'
<1> USE DEF RecInv, Moved
<1>1. StoredIsAccepted'
  BY DEF StoredIsAccepted, RecTypeOK
<1>2. AcceptedIsFetched'
  BY DEF AcceptedIsFetched, FetchRoomState, StoredIsAccepted
<1>3. Answers("state")' = Answers("state") /\ Answers("text")' = Answers("text")
  BY DEF Answers
<1>4. (stateId \in Answers("state") \cup {None} /\ Recent(stateId, Answers("state")))'
  BY <1>3 DEF CurrentIsRecent, Recent
<1>5. (\A f \in Fields : Recent(texts[f], {d \in Answers("text") : f \in rec[d].sets}))'
  BY <1>3 DEF CurrentIsRecent, Recent, Answers
<1> QED BY <1>1, <1>2, <1>4, <1>5

\* Call c writes the permission: whatever is answered, c is not older.
LEMMA PermissionWritten ==
  ASSUME RecInv, NEW c \in Writers, NEW from, Moved(c, from, "answered"),
         permission' \in PermissionRow, permission'.by = c,
         rec[c].kind \in {"permit", "change"}, from \notin {"answered", "failed"},
         UNCHANGED <<stored, stateId, texts>>
  PROVE  RecInv'
<1> USE DEF RecInv, Moved
<1>1. RecTypeOK'
  BY DEF RecTypeOK
<1>2. /\ StoredIsAccepted' /\ AcceptedIsFetched'
      /\ (stateId \in Answers("state") \cup {None} /\ Recent(stateId, Answers("state")))'
      /\ (\A f \in Fields : Recent(texts[f], {d \in Answers("text") : f \in rec[d].sets}))'
  BY PermissionFrame
<1>3. ReplacedSince'
  BY DEF ReplacedSince
<1>4. permission' # None /\ Recent(permission.by, Answers("permit") \cup Answers("change"))'
  BY RoomRecordsAssumption DEF Recent, Answers
<1>5. CurrentIsRecent'
  BY <1>2, <1>4 DEF CurrentIsRecent
<1> QED BY <1>1, <1>2, <1>3, <1>5

LEMMA CreateMemberPermissionKeepsInv ==
  ASSUME RecInv, NEW c \in Writers, CreateMemberPermission(c)
  PROVE  RecInv'
<1>1. Moved(c, "upsert", "answered")
  BY StepFrame DEF CreateMemberPermission
<1>2. permission' \in PermissionRow /\ permission'.by = c
  BY DEF CreateMemberPermission, RecInv, RecTypeOK, PermissionRow
<1>3. rec[c].kind = "permit"
  BY <1>1 DEF Moved, RecInv, KindOfStep
<1> QED BY <1>1, <1>2, <1>3, PermissionWritten DEF CreateMemberPermission

\* The named row is gone: had the last writer of another row ended before the call
\* began, the call would have found that row.
LEMMA UpdateMemberPermissionKeepsInv ==
  ASSUME RecInv, NEW c \in Writers, UpdateMemberPermission(c)
  PROVE  RecInv'
<1>1. Moved(c, "change", "answered") /\ UNCHANGED <<stored, stateId, texts>>
  BY StepFrame DEF UpdateMemberPermission
<1>2. rec[c].kind = "change"
  BY <1>1 DEF Moved, RecInv, KindOfStep
<1>3. CASE Named(c)
  <2>1. permission' \in PermissionRow /\ permission'.by = c
    BY <1>3 DEF UpdateMemberPermission, Named, RecInv, RecTypeOK, PermissionRow
  <2> QED BY <1>1, <1>2, <2>1, PermissionWritten
<1>4. CASE ~Named(c)
  <2> USE DEF RecInv, Moved
  <2>1. permission' = permission
    BY <1>4 DEF UpdateMemberPermission
  <2>2. RecTypeOK'
    BY <1>1, <2>1 DEF RecTypeOK
  <2>3. /\ StoredIsAccepted' /\ AcceptedIsFetched'
        /\ (stateId \in Answers("state") \cup {None} /\ Recent(stateId, Answers("state")))'
        /\ (\A f \in Fields : Recent(texts[f], {d \in Answers("text") : f \in rec[d].sets}))'
    BY <1>1, <1>2, PermissionFrame
  <2>4. ReplacedSince'
    BY <1>1, <2>1 DEF ReplacedSince
  <2>5. /\ Answers("permit")' = Answers("permit")
        /\ Answers("change")' = Answers("change") \cup {c}
    BY <1>1, <1>2 DEF Answers
  <2>6. permission # None => <<permission.by, c>> \notin earlier
    BY <1>1, <1>4 DEF Named, ReplacedSince
  <2>7. CurrentIsRecent'
    <3>1. ASSUME NEW d \in Answers("permit"),
                 \A e \in Writers : rec[e].kind \in {"drop", "account"} => <<e, d>> \in earlier
          PROVE  permission # None
                 /\ Recent(permission.by, Answers("permit") \cup Answers("change"))'
      BY <3>1, <1>1, <2>1, <2>5, <2>6 DEF CurrentIsRecent, Recent
    <3> QED BY <1>1, <2>1, <2>3, <2>5, <3>1 DEF CurrentIsRecent
  <2> QED BY <1>1, <2>2, <2>3, <2>4, <2>7
<1> QED BY <1>3, <1>4

\* A removal ends after every creation that is answered by then began.
LEMMA RemovalKeepsInv ==
  ASSUME RecInv, NEW c \in Writers, DeleteMemberPermission(c) \/ DeleteAccountPermissionsCommit(c)
  PROVE  RecInv'
<1> USE DEF RecInv, Moved
<1>1. PICK from \in {"drop", "account"} :
        /\ Moved(c, from, "answered") /\ UNCHANGED <<stored, stateId, texts>>
        /\ permission' \in {permission, None}
  <2>1. CASE DeleteMemberPermission(c)
    BY <2>1, StepFrame DEF DeleteMemberPermission
  <2>2. CASE DeleteAccountPermissionsCommit(c)
    BY <2>2, StepFrame DEF DeleteAccountPermissionsCommit
  <2> QED BY <2>1, <2>2
<1>2. rec[c].kind \in {"drop", "account"}
  BY <1>1 DEF KindOfStep
<1>3. RecTypeOK'
  BY <1>1 DEF RecTypeOK
<1>4. /\ StoredIsAccepted' /\ AcceptedIsFetched'
      /\ (stateId \in Answers("state") \cup {None} /\ Recent(stateId, Answers("state")))'
      /\ (\A f \in Fields : Recent(texts[f], {d \in Answers("text") : f \in rec[d].sets}))'
  BY <1>1, <1>2, PermissionFrame
<1>5. ReplacedSince'
  BY <1>1 DEF ReplacedSince
<1>6. Answers("permit")' = Answers("permit")
  BY <1>1, <1>2 DEF Answers
<1>7. \A d \in Answers("permit") : rec'[c].kind \in {"drop", "account"} /\ <<c, d>> \notin earlier'
  BY <1>1, <1>2 DEF Answers
<1>8. CurrentIsRecent'
  BY <1>4, <1>6, <1>7 DEF CurrentIsRecent
<1> QED BY <1>1, <1>3, <1>4, <1>5, <1>8

LEMMA FailureKeepsInv ==
  ASSUME RecInv, NEW c \in Writers, RecFails(c)
  PROVE  RecInv'
<1> USE DEF RecInv
<1>1. Moved(c, rec[c].step, "failed") /\ UNCHANGED <<stored, stateId, texts, permission>>
  BY StepFrame DEF RecFails
<1>2. rec[c].step \notin {"answered", "failed"}
  BY DEF RecFails
<1>3. RecTypeOK'
  BY <1>1 DEF RecTypeOK, Moved
<1>4. /\ StoredIsAccepted' /\ AcceptedIsFetched'
      /\ (stateId \in Answers("state") \cup {None} /\ Recent(stateId, Answers("state")))'
      /\ (\A f \in Fields : Recent(texts[f], {d \in Answers("text") : f \in rec[d].sets}))'
  BY <1>1, <1>2, PermissionFrame
<1>5. ReplacedSince'
  BY <1>1 DEF ReplacedSince, Moved
<1>6. \A k : Answers(k)' = Answers(k)
  BY <1>1, <1>2 DEF Answers, Moved
<1>7. CurrentIsRecent'
  BY <1>1, <1>4, <1>6 DEF CurrentIsRecent, Recent, Moved
<1> QED BY <1>1, <1>3, <1>4, <1>5, <1>7 DEF Moved

-----------------------------------------------------------------------------
(* The theorems *)

\* No sequence of uploads, updates, grants, removals and failures leaves RecInv.
THEOREM RecInvariance == RecSpec => []RecInv
<1>1. RecInit => RecInv
  BY RoomRecordsAssumption
     DEF RecInit, Rec, RecInv, RecTypeOK, RecType, KindOfStep, EarlierIsOver, StoredIsAccepted,
         ReplacedSince, AcceptedIsFetched, FetchRoomState, CurrentIsRecent, Recent, Answers,
         PermissionRow
<1>2. RecInv /\ [RecNext]_recVars => RecInv'
  <2> SUFFICES ASSUME RecInv, [RecNext]_recVars
               PROVE  RecInv'
    OBVIOUS
  <2>0. texts \in [Fields -> Writers \cup {None}] /\ permission \in PermissionRow \cup {None}
    BY DEF RecInv, RecTypeOK
  <2>1. ASSUME NEW c \in Writers, NEW e \in Epochs, AddRoomState(c, e)
        PROVE  RecInv'
    <3>1. Rec("state", "insert", e, {}, None) \in RecType
      BY <2>0 DEF Rec, RecType
    <3> QED BY <2>1, <3>1, StartKeepsInv DEF AddRoomState, Rec
  <2>2. ASSUME NEW c \in Writers, NEW fs \in SUBSET Fields, UpdateChatRoom(c, fs)
        PROVE  RecInv'
    <3>1. Rec("text", "write", None, fs, None) \in RecType
      BY <2>0 DEF Rec, RecType
    <3> QED BY <2>2, <3>1, StartKeepsInv DEF UpdateChatRoom, Rec
  <2>3. ASSUME NEW c \in Writers, CreateChatMemberPermission(c)
        PROVE  RecInv'
    <3>1. Rec("permit", "upsert", None, {}, None) \in RecType
      BY <2>0 DEF Rec, RecType
    <3> QED BY <2>3, <3>1, StartKeepsInv DEF CreateChatMemberPermission, Rec
  <2>4. ASSUME NEW c \in Writers, NEW kind \in {"change", "drop", "account"},
               LookupPermissionRoom(c, kind)
        PROVE  RecInv'
    <3>1. Rec(kind, kind, None, {}, permission.id) \in RecType /\ permission # None
      BY <2>0, <2>4 DEF Rec, RecType, PermissionRow, LookupPermissionRoom
    <3> QED BY <2>4, <3>1, StartKeepsInv DEF LookupPermissionRoom, Rec
  <2>5. CASE UNCHANGED recVars
    BY <2>5 DEF recVars, RecInv, RecTypeOK, KindOfStep, EarlierIsOver, StoredIsAccepted,
                ReplacedSince, AcceptedIsFetched, FetchRoomState, CurrentIsRecent, Recent, Answers
  <2> QED
    BY <2>1, <2>2, <2>3, <2>4, <2>5, InsertStateKeepsInv, CommitStateKeepsInv,
       UpdateRoomKeepsInv, CreateMemberPermissionKeepsInv, UpdateMemberPermissionKeepsInv,
       RemovalKeepsInv, FailureKeepsInv
       DEF RecNext, DeleteAccountPermissions
<1> QED BY <1>1, <1>2, PTL DEF RecSpec

\* However uploads of an epoch overlap and fail, an accepted state is what
\* fetchChatRoomState answers from then on (AddRoomState).
THEOREM AcceptedIsFetchedAlways == RecSpec => []AcceptedIsFetched
BY RecInvariance, PTL DEF RecInv

\* No answered upload, update of a text or grant of a permission is lost to an older
\* one, and a late removal takes no permission that was created since it began.
THEOREM CurrentIsRecentAlways == RecSpec => []CurrentIsRecent
BY RecInvariance, PTL DEF RecInv
=============================================================================
