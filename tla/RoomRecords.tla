---------------------------- MODULE RoomRecords -----------------------------
(***************************************************************************)
(* What a room has besides its members: the MLS states by epoch and the    *)
(* state_id that names the current one, the texts of its chat_rooms row,   *)
(* and its rows of chat_member_permissions, here those of one member and   *)
(* one permission key.                                                     *)
(*                                                                         *)
(* A value is the call that wrote it.  UpdateChatRoomState runs in a       *)
(* transaction; the other calls read and then write.  A call whose checks  *)
(* fail (not a member, not the owner, not an admin) is not a step; Rooms   *)
(* models who passes them.                                                 *)
(***************************************************************************)
CONSTANTS
  Writers,  \* calls about the room
  Epochs,   \* epochs a client uploads a state for
  Old,      \* an earlier call, which may have given the permission
  None

\* A row of chat_member_permissions: its id and its last writer.
PermissionRow == [id : Writers \cup {Old}, by : Writers \cup {Old}]

ASSUME RoomRecordsAssumption == None \notin Writers \cup {Old} \cup PermissionRow

VARIABLES
  stored,      \* chat_room_states: the call whose state an epoch has, or None
  stateId,     \* chat_rooms.state_id
  texts,       \* title, description and avatar_hash of chat_rooms
  permission,  \* the row's id and last writer, or None
  rec,         \* each call
  earlier      \* history: <<c, d>>: c had ended when d began

recVars == <<stored, stateId, texts, permission, rec, earlier>>

Fields == {"title", "description", "avatarHash"}

\* A call, and the texts as they are when it begins.
Rec(kind, step, epoch, sets, id) ==
  [kind |-> kind, step |-> step, epoch |-> epoch, sets |-> sets, id |-> id, read |-> texts]

RecInit ==
  /\ stored = [e \in Epochs |-> None] /\ stateId = None
  /\ texts = [f \in Fields |-> None]
  /\ permission \in {None, [id |-> Old, by |-> Old]}
  /\ rec = [c \in Writers |-> Rec("none", "new", None, {}, None)]
  /\ earlier = {}

Over == {c \in Writers : rec[c].step \in {"answered", "failed"}}

\* Call c has made its checks and comes to the step; r is what it is about.
StartRec(c, r) ==
  /\ rec[c].step = "new"
  /\ rec' = [rec EXCEPT ![c] = r]
  /\ earlier' = earlier \cup (Over \X {c})
  /\ UNCHANGED <<stored, stateId, texts, permission>>

StepRec(c, from, to) ==
  /\ rec[c].step = from
  /\ rec' = [rec EXCEPT ![c].step = to]
  /\ UNCHANGED earlier

-----------------------------------------------------------------------------
(* UpdateChatRoomState *)

\* ensureMember.
AddRoomState(c, e) == StartRec(c, Rec("state", "insert", e, {}, None))

\* Mutation: a second state of an epoch replaces the first.
InsertStateOver(c) ==
  /\ StepRec(c, "insert", "inserted")
  /\ \A d \in Writers : rec[d].step = "inserted" => rec[d].epoch # rec[c].epoch
  /\ UNCHANGED <<stored, stateId, texts, permission>>

\* The INSERT, of a second state of the epoch it waits and then fails.
InsertState(c) ==
  /\ StepRec(c, "insert", "inserted")
  /\ stored[rec[c].epoch] = None
  /\ \A d \in Writers : rec[d].step = "inserted" => rec[d].epoch # rec[c].epoch
  /\ UNCHANGED <<stored, stateId, texts, permission>>

\* The UPDATE of chat_rooms and COMMIT.
CommitState(c) ==
  /\ StepRec(c, "inserted", "answered")
  /\ stored' = [stored EXCEPT ![rec[c].epoch] = c]
  /\ stateId' = c
  /\ UNCHANGED <<texts, permission>>

FetchRoomState(e) == stored[e]

-----------------------------------------------------------------------------
(* UpdateChatRoom *)

\* GetRoom; an empty argument stands for a text that is to stay.
UpdateChatRoom(c, fs) == StartRec(c, Rec("text", "write", None, fs, None))

\* Mutation: the texts that are to stay are those GetRoom had read.
MergedRead(c) == [f \in Fields |-> IF f \in rec[c].sets THEN c ELSE rec[c].read[f]]

\* COALESCE(NULLIF(argument, ''), column), on the row as the UPDATE finds it.
Merged(c) == [f \in Fields |-> IF f \in rec[c].sets THEN c ELSE texts[f]]

UpdateRoom(c) ==
  /\ StepRec(c, "write", "answered")
  /\ texts' = Merged(c)
  /\ UNCHANGED <<stored, stateId, permission>>

-----------------------------------------------------------------------------
(* Member permissions *)

\* ensureRoomAdmin.
CreateChatMemberPermission(c) == StartRec(c, Rec("permit", "upsert", None, {}, None))

\* ON CONFLICT DO UPDATE keeps the id of the row; the answer names a fresh one.
CreateMemberPermission(c) ==
  /\ StepRec(c, "upsert", "answered")
  /\ permission' = IF permission = None THEN [id |-> c, by |-> c]
                   ELSE [permission EXCEPT !.by = c]
  /\ UNCHANGED <<stored, stateId, texts>>

\* lookupPermissionRoom finds the row the client names, and ensureRoomAdmin.
LookupPermissionRoom(c, kind) ==
  /\ permission # None
  /\ StartRec(c, Rec(kind, kind, None, {}, permission.id))

\* The row the call names is there still.
Named(c) == permission # None /\ permission.id = rec[c].id

\* The UPDATE; without a row it has no effect, and the call is answered.
UpdateMemberPermission(c) ==
  /\ StepRec(c, "change", "answered")
  /\ permission' = IF Named(c) THEN [permission EXCEPT !.by = c] ELSE permission
  /\ UNCHANGED <<stored, stateId, texts>>

DeleteMemberPermission(c) ==
  /\ StepRec(c, "drop", "answered")
  /\ permission' = IF Named(c) THEN None ELSE permission
  /\ UNCHANGED <<stored, stateId, texts>>

\* The member's deleteAccount, whose DELETE takes the rows it sees.
DeleteAccountPermissions(c) == LookupPermissionRoom(c, "account")

DeleteAccountPermissionsCommit(c) ==
  /\ StepRec(c, "account", "answered")
  /\ permission' = IF Named(c) THEN None ELSE permission
  /\ UNCHANGED <<stored, stateId, texts>>

\* A statement fails: nothing is committed yet.
RecFails(c) ==
  /\ rec[c].step \notin {"new", "answered", "failed"}
  /\ StepRec(c, rec[c].step, "failed")
  /\ UNCHANGED <<stored, stateId, texts, permission>>

RecNext ==
  \E c \in Writers :
    \/ \E e \in Epochs : AddRoomState(c, e)
    \/ InsertState(c) \/ CommitState(c)
    \/ \E fs \in SUBSET Fields : UpdateChatRoom(c, fs)
    \/ UpdateRoom(c)
    \/ CreateChatMemberPermission(c) \/ CreateMemberPermission(c)
    \/ \E kind \in {"change", "drop"} : LookupPermissionRoom(c, kind)
    \/ UpdateMemberPermission(c) \/ DeleteMemberPermission(c)
    \/ DeleteAccountPermissions(c) \/ DeleteAccountPermissionsCommit(c)
    \/ RecFails(c)

RecSpec == RecInit /\ [][RecNext]_recVars

-----------------------------------------------------------------------------
Answers(kind) == {c \in Writers : rec[c].kind = kind /\ rec[c].step = "answered"}

\* c wrote the value, and no call of ds began after c had ended.
Recent(c, ds) == \A d \in ds : c \in Writers /\ <<c, d>> \notin earlier

\* Every row is of a call that wrote it.
RecTypeOK ==
  /\ stored \in [Epochs -> Writers \cup {None}] /\ stateId \in Writers \cup {None}
  /\ texts \in [Fields -> Writers \cup {None}]
  /\ permission \in PermissionRow \cup {None}
  /\ earlier \subseteq Writers \X Writers

\* A state that was accepted is what fetchChatRoomState answers for its epoch from
\* then on, and a state that was refused is never fetched, however many uploads of
\* one epoch overlap and fail (AddRoomState, UNIQUE (room_id, epoch)).
AcceptedIsFetched ==
  \A c \in Writers : rec[c].kind = "state" =>
    (rec[c].step = "answered" <=> FetchRoomState(rec[c].epoch) = c)

\* No answered write is lost to an older one.  The room's current state was accepted,
\* and none that was accepted later is passed over (it need not be the one of the
\* highest epoch).  A text is never older than an answered update of it, although
\* UpdateRoom reads the row before it writes it and updates of different texts
\* overlap.  A permission that was created is there, in no older form, unless a
\* removal overlapped the creation or came after it (DeleteMemberPermission and
\* DeleteAccount take the row they found, not one that was created since).
CurrentIsRecent ==
  /\ stateId \in Answers("state") \cup {None}
  /\ Recent(stateId, Answers("state"))
  /\ \A f \in Fields :
       Recent(texts[f], {c \in Answers("text") : f \in rec[c].sets})
  /\ \A c \in Answers("permit") :
       (\A d \in Writers : rec[d].kind \in {"drop", "account"} => <<d, c>> \in earlier)
         => /\ permission # None
            /\ Recent(permission.by, Answers("permit") \cup Answers("change"))
=============================================================================
