------------------------- MODULE DirectRoomsProofs --------------------------
(***************************************************************************)
(* Proofs about DirectRooms, for any number of creations, welcomes and     *)
(* fetches.                                                                *)
(***************************************************************************)
EXTENDS DirectRooms, TLAPS

-----------------------------------------------------------------------------
(* The inductive invariant *)

\* The unique key: one committed row at most, and none while a transaction holds the
\* key, as a single one can.
OneRow ==
  /\ \A r, q \in direct : r = q
  /\ \A c \in Creations : create[c] = "commit" => direct = {} /\ ~KeyLocked(c)

\* A room is committed together with its row and its owner, and answers name
\* committed rooms.
RowsAndRooms ==
  /\ \A c \in Creations : create[c] # "start" => caller[c] \in Pair
  /\ \A r \in Creations : room[r] # "none" <=> r \in direct
  /\ \A r \in direct : roomOwner[r] \in Pair
  /\ \A c \in Creations : answer[c] # None => answer[c] \in direct

\* A send is about a room of the pair; a welcome it has gone past storing is stored,
\* or another for the same target is.
SendsOK ==
  \A s \in Sends :
    /\ send[s].step # "start" => send[s].to \in Pair
    /\ send[s].step = "store" => send[s].into # None
    /\ send[s].into # None => send[s].into \in direct /\ send[s].step # "start"
    /\ send[s].into # None /\ send[s].step \in {"append", "accepted"} =>
         stored[send[s].into][send[s].to] # None
    /\ s \in announced => send[s].step = "accepted"

\* Welcome s was sent to u for room r, and its send has stored it.
IsWelcome(s, r, u) ==
  send[s].to = u /\ send[s].into = r /\ send[s].step \notin {"start", "store"}

StoredOK ==
  \A r \in Creations, u \in Pair : stored[r][u] # None => IsWelcome(stored[r][u], r, u)

FetchesOK ==
  \A f \in Fetches :
    /\ fetch[f].step # 0 => fetch[f].by \in Pair /\ fetch[f].from \in Creations
    /\ fetch[f].got # None =>
         fetch[f].step # 0 /\ IsWelcome(fetch[f].got, fetch[f].from, fetch[f].by)

DirectInv ==
  DirectTypeOK /\ OneRow /\ RowsAndRooms /\ SendsOK /\ StoredOK /\ FetchesOK

-----------------------------------------------------------------------------
(* CreateDirectRoom and the room *)

\* A step that leaves rows, rooms and welcomes alone, but for members.
LEMMA CallKeepsInv ==
  ASSUME DirectInv, DirectTypeOK', UNCHANGED <<room, roomOwner, direct, welcomeVars>>,
         \A c \in Creations : create'[c] = "commit" =>
           create[c] = "commit" \/ (direct = {} /\ ~KeyLocked(c)),
         \A c, d \in Creations : create'[c] = "commit" /\ create'[d] = "commit" => c = d,
         \A c \in Creations : create'[c] # "start" => caller'[c] \in Pair,
         \A c \in Creations : answer'[c] # None => answer'[c] \in direct
  PROVE  DirectInv'
<1> USE DEF DirectInv, welcomeVars
<1>1. OneRow' /\ RowsAndRooms'
  BY DEF OneRow, RowsAndRooms, KeyLocked
<1>2. SendsOK' /\ StoredOK' /\ FetchesOK'
  BY DEF SendsOK, StoredOK, FetchesOK, IsWelcome
<1> QED BY <1>1, <1>2

LEMMA CheckFriendsKeepsInv ==
  ASSUME DirectInv, NEW c \in Creations, NEW u \in Pair, CheckFriends(c, u)
  PROVE  DirectInv'
<1> USE DEF CheckFriends, CreateGoto, pairVars, welcomeVars
<1>1. DirectTypeOK'
  BY DEF DirectInv, DirectTypeOK
<1> QED BY <1>1, CallKeepsInv DEF DirectInv, DirectTypeOK, OneRow, RowsAndRooms, KeyLocked

LEMMA LookupKeepsInv ==
  ASSUME DirectInv, NEW c \in Creations, NEW next \in {"findInTx", "insert"},
         create[c] \in {"find", "findInTx"}, Lookup(c, next)
  PROVE  DirectInv'
<1> USE DEF Lookup, CreateGoto, pairVars, welcomeVars
<1>1. answer' = answer \/ \E r \in direct : answer' = [answer EXCEPT ![c] = r]
  BY DEF Found
<1>2. create' = [create EXCEPT ![c] = "existed"] \/ create' = [create EXCEPT ![c] = next]
  OBVIOUS
<1>3. DirectTypeOK'
  <2>1. answer' \in [Creations -> Creations \cup {None}]
    BY <1>1 DEF DirectInv, DirectTypeOK
  <2>2. create' \in [Creations -> {"start", "find", "findInTx", "insert", "commit", "existed",
                          "created", "forbidden", "failed", "aborted"}]
    BY <1>2 DEF DirectInv, DirectTypeOK
  <2>3. UNCHANGED <<friends, room, roomOwner, members, direct, caller, stored, announced, send, fetch>>
    OBVIOUS
  <2> QED BY <2>1, <2>2, <2>3 DEF DirectInv, DirectTypeOK
<1>4. \A d \in Creations : answer'[d] # None => answer'[d] \in direct
  BY <1>1 DEF DirectInv, DirectTypeOK, RowsAndRooms
<1>5. \A d \in Creations : create'[d] = "commit" => create[d] = "commit"
  BY <1>2 DEF DirectInv, DirectTypeOK
<1>6. \A d \in Creations : create'[d] # "start" => caller'[d] \in Pair
  BY <1>2 DEF DirectInv, DirectTypeOK, RowsAndRooms
<1> QED BY <1>3, <1>4, <1>5, <1>6, CallKeepsInv DEF DirectInv, OneRow, KeyLocked

LEMMA InsertKeepsInv ==
  ASSUME DirectInv, NEW c \in Creations, Insert(c)
  PROVE  DirectInv'
<1> USE DEF Insert, CreateGoto, pairVars, welcomeVars
<1>1. DirectTypeOK'
  BY DEF DirectInv, DirectTypeOK
<1> QED BY <1>1, CallKeepsInv DEF DirectInv, DirectTypeOK, OneRow, RowsAndRooms, KeyLocked

LEMMA AbortKeepsInv ==
  ASSUME DirectInv, NEW c \in Creations, Abort(c)
  PROVE  DirectInv'
<1> USE DEF Abort, CreateGoto, pairVars, welcomeVars
<1>1. DirectTypeOK'
  BY DEF DirectInv, DirectTypeOK
<1> QED BY <1>1, CallKeepsInv DEF DirectInv, DirectTypeOK, OneRow, RowsAndRooms, KeyLocked

\* The commit: the key was free when the row was inserted, and is held since.
LEMMA CommitKeepsInv ==
  ASSUME DirectInv, NEW c \in Creations, Commit(c)
  PROVE  DirectInv'
<1> USE DEF DirectInv, Commit, CreateGoto, welcomeVars
<1>1. direct = {} /\ direct' = {c} /\ \A d \in Creations \ {c} : create[d] # "commit"
  BY DEF OneRow, KeyLocked
<1>2. caller[c] \in Pair
  BY DEF RowsAndRooms
<1>3. DirectTypeOK'
  BY <1>2 DEF DirectTypeOK
<1>4. OneRow'
  BY <1>1 DEF OneRow, KeyLocked, DirectTypeOK
<1>5. RowsAndRooms'
  BY <1>1, <1>2 DEF RowsAndRooms, DirectTypeOK
<1>6. SendsOK' /\ StoredOK' /\ FetchesOK'
  BY <1>1 DEF SendsOK, StoredOK, FetchesOK, IsWelcome
<1> QED BY <1>3, <1>4, <1>5, <1>6

LEMMA ChangeFriendshipKeepsInv ==
  ASSUME DirectInv, ChangeFriendship
  PROVE  DirectInv'
<1> USE DEF ChangeFriendship, createVars, welcomeVars
<1>1. friends' \in BOOLEAN
  OBVIOUS
<1>2. DirectTypeOK'
  BY <1>1 DEF DirectInv, DirectTypeOK
<1> QED BY <1>2, CallKeepsInv DEF DirectInv, OneRow, RowsAndRooms, KeyLocked

LEMMA MembersKeepInv ==
  ASSUME DirectInv, NEW u \in Pair \cup Guests, NEW r \in Creations,
         LeaveDirectRoom(u, r) \/ JoinByInvitation(u, r)
  PROVE  DirectInv'
<1> USE DEF LeaveDirectRoom, JoinByInvitation, createVars, welcomeVars
<1>1. DirectTypeOK'
  BY DEF DirectInv, DirectTypeOK
<1> QED BY <1>1, CallKeepsInv DEF DirectInv, OneRow, RowsAndRooms, KeyLocked

LEMMA DeleteChatRoomKeepsInv ==
  ASSUME DirectInv, NEW u \in Pair \cup Guests, NEW r \in Creations, DeleteDirectRoom(u, r)
  PROVE  DirectInv'
<1> USE DEF DirectInv, DeleteDirectRoom, createVars, welcomeVars
<1>1. DirectTypeOK'
  BY DEF DirectTypeOK
<1>2. OneRow' /\ RowsAndRooms'
  BY DEF OneRow, RowsAndRooms, KeyLocked, DirectTypeOK
<1>3. SendsOK' /\ StoredOK' /\ FetchesOK'
  BY DEF SendsOK, StoredOK, FetchesOK, IsWelcome
<1> QED BY <1>1, <1>2, <1>3

-----------------------------------------------------------------------------
(* SendWelcome and FetchWelcome *)

LEMMA TypeFacts ==
  ASSUME DirectTypeOK
  PROVE  /\ None \notin Sends \cup Creations \cup Pair /\ direct \subseteq Creations
         /\ \A s \in Sends : /\ send[s] \in SendType
                             /\ send[s].to \in Pair \cup {None} /\ send[s].into \in Creations \cup {None}
         /\ \A f \in Fetches : fetch[f] \in FetchType /\ fetch[f].got \in Sends \cup {None}
         /\ \A r \in Creations, u \in Pair : stored[r][u] \in Sends \cup {None}
BY DirectRoomsAssumption DEF DirectTypeOK, SendType, FetchType

\* A step of a send has moved it on and left its fields alone.
LEMMA SendStep ==
  ASSUME DirectTypeOK, NEW s \in Sends, NEW step \in {"append", "accepted", "failed"},
         send' = [send EXCEPT ![s].step = step]
  PROVE  /\ send' \in [Sends -> SendType]
         /\ \A w \in Sends \ {s} : send'[w] = send[w]
         /\ send'[s].to = send[s].to /\ send'[s].into = send[s].into /\ send'[s].step = step
BY DEF DirectTypeOK, SendType

LEMMA SendWelcomeKeepsInv ==
  ASSUME DirectInv, NEW s \in Sends, NEW u \in Pair, NEW v \in Pair,
         NEW r \in Creations \cup {None}, SendWelcome(s, u, v, r)
  PROVE  DirectInv'
<1> USE DEF DirectInv, pairVars, createVars
<1>1. UNCHANGED <<friends, room, roomOwner, members, direct, create, caller, answer, stored, announced, fetch>>
  BY DEF SendWelcome
<1>2. PICK q \in direct \cup {None} :
        send' = [send EXCEPT ![s] = [step |-> IF q = None THEN "append" ELSE "store",
                                     to |-> v, into |-> q]]
  <2>1. None \notin direct
    BY DirectRoomsAssumption DEF DirectTypeOK
  <2> QED BY <2>1 DEF SendWelcome, ResolveRoom, Found
<1>3. send[s].step = "start"
  BY DEF SendWelcome
<1>4. DirectTypeOK'
  BY <1>1, <1>2 DEF DirectTypeOK, SendType
<1>5. OneRow' /\ RowsAndRooms'
  BY <1>1 DEF OneRow, RowsAndRooms, KeyLocked
<1>6. /\ \A w \in Sends \ {s} : send'[w] = send[w]
      /\ send'[s].to = v /\ send'[s].into = q
      /\ send'[s].step = IF q = None THEN "append" ELSE "store"
  BY <1>2 DEF DirectTypeOK, SendType
<1>7. SendsOK'
  BY <1>1, <1>3, <1>6 DEF SendsOK
<1>8. StoredOK' /\ FetchesOK'
  BY <1>1, <1>3, <1>6, TypeFacts DEF StoredOK, FetchesOK, IsWelcome
<1> QED BY <1>4, <1>5, <1>7, <1>8

\* The welcome replaces one for the same room and target, if there is any.
LEMMA UpsertRoomWelcomeKeepsInv ==
  ASSUME DirectInv, NEW s \in Sends, UpsertRoomWelcome(s)
  PROVE  DirectInv'
<1> USE DEF DirectInv, pairVars, createVars
<1>1. UNCHANGED <<friends, room, roomOwner, members, direct, create, caller, answer, announced, fetch>>
  BY DEF UpsertRoomWelcome
<1>2. send[s].to \in Pair /\ send[s].into \in Creations /\ send[s].step = "store"
  BY DEF UpsertRoomWelcome, SendsOK, DirectTypeOK
<1>3. /\ \A w \in Sends \ {s} : send'[w] = send[w]
      /\ send'[s].to = send[s].to /\ send'[s].into = send[s].into /\ send'[s].step = "append"
      /\ send' \in [Sends -> SendType]
  BY SendStep DEF UpsertRoomWelcome
<1>4. \A r \in Creations, u \in Pair :
        stored'[r][u] = IF r = send[s].into /\ u = send[s].to THEN s ELSE stored[r][u]
  BY <1>2 DEF UpsertRoomWelcome, DirectTypeOK
<1>5. DirectTypeOK'
  BY <1>1, <1>2, <1>3 DEF DirectTypeOK, UpsertRoomWelcome
<1>6. OneRow' /\ RowsAndRooms'
  BY <1>1 DEF OneRow, RowsAndRooms, KeyLocked
<1>7. SendsOK'
  BY <1>1, <1>2, <1>3, <1>4, TypeFacts DEF SendsOK
<1>8. StoredOK'
  BY <1>2, <1>3, <1>4, TypeFacts DEF StoredOK, IsWelcome
<1>9. FetchesOK'
  BY <1>1, <1>2, <1>3, TypeFacts DEF FetchesOK, IsWelcome
<1> QED BY <1>5, <1>6, <1>7, <1>8, <1>9

LEMMA SendEndsKeepsInv ==
  ASSUME DirectInv, NEW s \in Sends, AppendWelcome(s) \/ SendFails(s)
  PROVE  DirectInv'
<1> USE DEF DirectInv, pairVars, createVars
<1>1. UNCHANGED <<friends, room, roomOwner, members, direct, create, caller, answer, stored, fetch>>
  BY DEF AppendWelcome, SendFails
<1>2. /\ \A w \in Sends \ {s} : send'[w] = send[w]
      /\ send'[s].to = send[s].to /\ send'[s].into = send[s].into
      /\ \/ send[s].step = "append" /\ send'[s].step = "accepted" /\ announced' = announced \cup {s}
         \/ send[s].step \in {"store", "append"} /\ send'[s].step = "failed" /\ announced' = announced
      /\ send' \in [Sends -> SendType]
  <2>1. CASE AppendWelcome(s)
    BY <2>1, SendStep DEF AppendWelcome
  <2>2. CASE SendFails(s)
    BY <2>2, SendStep DEF SendFails
  <2> QED BY <2>1, <2>2
<1>3. DirectTypeOK'
  BY <1>1, <1>2 DEF DirectTypeOK
<1>4. OneRow' /\ RowsAndRooms'
  BY <1>1 DEF OneRow, RowsAndRooms, KeyLocked
<1>5. SendsOK'
  BY <1>1, <1>2 DEF SendsOK
<1>6. StoredOK' /\ FetchesOK'
  BY <1>1, <1>2, TypeFacts DEF StoredOK, FetchesOK, IsWelcome
<1> QED BY <1>3, <1>4, <1>5, <1>6

LEMMA FetchKeepsInv ==
  ASSUME DirectInv, NEW f \in Fetches,
         \/ \E u \in Pair, r \in Creations : FetchStart(f, u, r)
         \/ FetchCheck(f) \/ FetchWelcome(f)
  PROVE  DirectInv'
<1> USE DEF DirectInv, pairVars, createVars
<1>1. UNCHANGED <<friends, room, roomOwner, members, direct, create, caller, answer, stored, announced, send>>
  BY DEF FetchStart, FetchCheck, FetchWelcome
<1>2. OneRow' /\ RowsAndRooms' /\ SendsOK' /\ StoredOK'
  BY <1>1 DEF OneRow, RowsAndRooms, KeyLocked, SendsOK, StoredOK, IsWelcome
<1>3. CASE \E u \in Pair, r \in Creations : FetchStart(f, u, r)
  <2>1. DirectTypeOK'
    BY <1>1, <1>3, DirectRoomsAssumption DEF DirectTypeOK, FetchType, FetchStart
  <2>2. FetchesOK'
    BY <1>1, <1>3 DEF DirectTypeOK, FetchType, FetchStart, FetchesOK, IsWelcome
  <2> QED BY <1>2, <2>1, <2>2
<1>4. CASE FetchCheck(f)
  <2> DEFINE k == IF FetchChecks(fetch[f].by, fetch[f].from)[fetch[f].step]
                    THEN fetch[f].step + 1 ELSE Refused
  <2>1. fetch[f].step \in 1..4 /\ fetch' = [fetch EXCEPT ![f].step = k]
    BY <1>4 DEF FetchCheck
  <2>2. k \in 1..7
    BY <2>1 DEF Refused
  <2> HIDE DEF k
  <2>3. fetch' \in [Fetches -> FetchType]
    <3>1. fetch \in [Fetches -> FetchType] /\ fetch[f] \in FetchType
      BY DEF DirectTypeOK
    <3>2. k \in 0..7
      BY <2>2
    <3>3. [fetch[f] EXCEPT !.step = k] \in FetchType
      BY <3>1, <3>2 DEF FetchType
    <3> QED BY <2>1, <3>1, <3>3
  <2>4. DirectTypeOK'
    BY <1>1, <2>3 DEF DirectTypeOK
  <2>5. FetchesOK'
    BY <1>1, <2>1, <2>2 DEF DirectTypeOK, FetchType, FetchesOK, IsWelcome
  <2> QED BY <1>2, <2>4, <2>5
<1>5. CASE FetchWelcome(f)
  <2>1. fetch[f].step = 5 /\ fetch[f].by \in Pair /\ fetch[f].from \in Creations
    BY <1>5 DEF FetchWelcome, FetchesOK
  <2>2. DirectTypeOK'
    <3>1. stored[fetch[f].from][fetch[f].by] \in Sends \cup {None}
      BY <2>1, TypeFacts
    <3>2. fetch \in [Fetches -> FetchType] /\ fetch[f] \in FetchType
      BY DEF DirectTypeOK
    <3>3. fetch' \in [Fetches -> FetchType]
      <4> DEFINE g == stored[fetch[f].from][fetch[f].by]
      <4>1. fetch' = [fetch EXCEPT ![f].step = 6, ![f].got = g] /\ g \in Sends \cup {None}
        BY <1>5, <3>1 DEF FetchWelcome, Answered
      <4> HIDE DEF g
      <4>2. 6 \in 0..7
        OBVIOUS
      <4> QED BY <3>2, <4>1, <4>2 DEF FetchType
    <3> QED BY <1>1, <3>3 DEF DirectTypeOK
  <2>3. /\ \A g \in Fetches \ {f} : fetch'[g] = fetch[g]
        /\ fetch'[f].by = fetch[f].by /\ fetch'[f].from = fetch[f].from
        /\ fetch'[f].step = 6 /\ fetch'[f].got = stored[fetch[f].from][fetch[f].by]
    BY <1>5 DEF FetchWelcome, Answered, DirectTypeOK, FetchType
  <2>4. FetchesOK'
    BY <1>1, <2>1, <2>3 DEF FetchesOK, StoredOK, IsWelcome
  <2> QED BY <1>2, <2>2, <2>4
<1> QED BY <1>3, <1>4, <1>5

-----------------------------------------------------------------------------
(* The theorems *)

\* No sequence of creations, deletions, leaves, welcomes and failures leaves DirectInv.
THEOREM DirectInvariance == DirectSpec => []DirectInv
<1>1. DirectInit => DirectInv
  BY DirectRoomsAssumption
     DEF DirectInit, DirectInv, DirectTypeOK, SendType, FetchType, OneRow, RowsAndRooms, SendsOK, StoredOK, FetchesOK, IsWelcome
<1>2. DirectInv /\ [DirectNext]_directVars => DirectInv'
  <2> SUFFICES ASSUME DirectInv, [DirectNext]_directVars
               PROVE  DirectInv'
    OBVIOUS
  <2>1. ASSUME NEW c \in Creations, Step(c)
        PROVE  DirectInv'
    BY <2>1, CheckFriendsKeepsInv, LookupKeepsInv, InsertKeepsInv, CommitKeepsInv, AbortKeepsInv
       DEF Step, FindOutside, FindInTx
  <2>2. CASE Welcome
    BY <2>2, SendWelcomeKeepsInv, UpsertRoomWelcomeKeepsInv, SendEndsKeepsInv, FetchKeepsInv
       DEF Welcome
  <2>3. CASE ChangeFriendship
    BY <2>3, ChangeFriendshipKeepsInv
  <2>4. ASSUME NEW u \in Pair \cup Guests, NEW r \in Creations,
               LeaveDirectRoom(u, r) \/ JoinByInvitation(u, r) \/ DeleteDirectRoom(u, r)
        PROVE  DirectInv'
    BY <2>4, MembersKeepInv, DeleteChatRoomKeepsInv
  <2>5. CASE UNCHANGED directVars
    BY <2>5 DEF directVars, pairVars, createVars, welcomeVars, DirectInv, DirectTypeOK, OneRow, RowsAndRooms,
                KeyLocked, SendsOK, StoredOK, FetchesOK, IsWelcome
  <2> QED BY <2>1, <2>2, <2>3, <2>4, <2>5 DEF DirectNext
<1> QED BY <1>1, <1>2, PTL DEF DirectSpec

\* Whatever calls overlap and fail, the users of a pair are never sent to two rooms.
THEOREM OneRoomForPairAlways == DirectSpec => []OneRoomForPair
<1>1. DirectInv => OneRoomForPair
  BY DEF DirectInv, OneRow, RowsAndRooms, OneRoomForPair
<1> QED BY <1>1, DirectInvariance, PTL

\* A live room of the pair is the one that lookups find, and a user of the pair owns it.
THEOREM LiveRoomIsFoundAlways == DirectSpec => []LiveRoomIsFound
<1>1. DirectInv => LiveRoomIsFound
  BY DEF DirectInv, OneRow, RowsAndRooms, LiveRoomIsFound, Found
<1> QED BY <1>1, DirectInvariance, PTL

\* When a welcome for the pair's room is announced, the room has one for the target.
THEOREM ToldIsStoredAlways == DirectSpec => []ToldIsStored
<1>1. DirectInv => ToldIsStored
  BY DEF DirectInv, SendsOK, ToldIsStored, DirectTypeOK
<1> QED BY <1>1, DirectInvariance, PTL

\* A fetched welcome was sent to the caller, for the one room of the pair.
THEOREM FetchedIsMineAlways == DirectSpec => []FetchedIsMine
<1>1. DirectInv => FetchedIsMine
  <2> SUFFICES ASSUME DirectInv, NEW f \in Fetches, fetch[f].got # None
               PROVE  /\ send[fetch[f].got].to = fetch[f].by
                      /\ send[fetch[f].got].into = fetch[f].from /\ direct = {fetch[f].from}
                      /\ send[fetch[f].got].step # "store"
    BY DEF FetchedIsMine
  <2>1. fetch[f].got \in Sends /\ fetch[f].from \in Creations /\ fetch[f].from # None
    BY TypeFacts DEF DirectInv, FetchesOK
  <2>2. IsWelcome(fetch[f].got, fetch[f].from, fetch[f].by)
    BY DEF DirectInv, FetchesOK
  <2>3. fetch[f].from \in direct
    BY <2>1, <2>2 DEF DirectInv, SendsOK, IsWelcome
  <2> QED BY <2>2, <2>3 DEF DirectInv, OneRow, IsWelcome
<1> QED BY <1>1, DirectInvariance, PTL
=============================================================================
