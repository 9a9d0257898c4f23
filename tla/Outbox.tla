------------------------------- MODULE Outbox -------------------------------
(***************************************************************************)
(* The transactional outbox of one (device_id, segment_id) pair: the rows  *)
(* of table outbox that carry its events and the one row of                *)
(* outbox_segments that points at the event to be sent (head_event_id) and *)
(* at the event that is out (inflight_event_id).                           *)
(*                                                                         *)
(* A step is one SQL statement, or a group of statements whose order       *)
(* against the other actors cannot be observed.  All statements run at     *)
(* READ COMMITTED: a statement sees what is committed, an UPDATE waits for *)
(* the row lock of another transaction, and what a transaction writes is   *)
(* seen when it commits.  Locks are read off the program counters:         *)
(* a claimer at "locked" owns the segment row (SELECT ... FOR UPDATE OF s),*)
(* an acknowledger past AckMark owns the outbox row of its event.          *)
(***************************************************************************)
EXTENDS Integers, FiniteSets

CONSTANTS
  Events,        \* outbox rows that may be appended to this segment
  Claimers,      \* callers of DispatchOnce: the dispatcher and push loops
  Dispatcher,    \* the claimer whose error stops the server
  Ackers,        \* acknowledgeEvent requests that may run at once
  NULL,          \* SQL NULL
  AckTimeout,    \* Config.AckTimeout, in ticks
  TTL,           \* EventRetention: expires_at - created_at
  Retention,     \* AckRetention = DropRetention
  MaxAttempts,   \* Config.MaxAttempts
  MaxTime,       \* bound: the clock stops here
  LastAppend,    \* bound: no append starts later than this
  MaxAppending,  \* bound: appends in progress at once
  Crashes,       \* TRUE iff the server may crash (and is started again)
  Janitor,       \* TRUE iff RunJanitor is running
  Autocommit     \* TRUE iff some appends run outside a transaction

ASSUME OutboxAssumption ==
  /\ NULL \notin Events
  /\ IsFiniteSet(Claimers)
  /\ AckTimeout \in Nat /\ TTL \in Nat /\ Retention \in Nat
  /\ MaxAttempts \in Nat \ {0}
  /\ MaxTime \in Nat /\ LastAppend \in Nat /\ MaxAppending \in Nat
  /\ Crashes \in BOOLEAN /\ Janitor \in BOOLEAN /\ Autocommit \in BOOLEAN

VARIABLES
  status,         \* outbox.status; "absent" before the INSERT, "deleted" after
  attempts,       \* outbox.attempts
  createdAt,      \* outbox.created_at (and send_after until the first claim)
  inflightUntil,  \* outbox.inflight_until (and send_after from then on)
  ackedAt,        \* outbox.acked_at
  head,           \* outbox_segments.head_event_id
  inflight,       \* outbox_segments.inflight_event_id
  now,            \* the clock
  apc,            \* the append of each event
  cpc, item,      \* each claimer, and the candidate it has scanned
  kpc, ack,       \* each acknowledger, and its locals
  jpc, sweep      \* the janitor, and its locals

rowVars == <<status, attempts, createdAt, inflightUntil, ackedAt>>
segVars == <<head, inflight>>
claimVars == <<cpc, item>>
ackVars == <<kpc, ack>>
sweepVars == <<jpc, sweep>>
vars == <<rowVars, segVars, now, apc, claimVars, ackVars, sweepVars>>

Live == {"Pending", "InFlight"}
Terminal == {"Acked", "Dropped"}
Status == Live \cup Terminal \cup {"absent", "deleted"}

Present(e) == status[e] \in Live \cup Terminal
expiresAt(e) == createdAt[e] + TTL

(***************************************************************************)
(* Locks.                                                                  *)
(***************************************************************************)
\* Mutation: ClaimPending without FOR UPDATE.
NoForUpdate == FALSE

SegmentLocked == \E c \in Claimers : cpc[c] = "locked"

Marked == {"marked", "head", "other", "next"}

RowLocked(e) == \E a \in Ackers : kpc[a] \in Marked /\ ack[a].event = e

\* Mutation: drop what is acknowledged as well.
SegmentTailAnyStatus(from) == {e \in Events : Present(e) /\ createdAt[e] >= from}

\* The rows dropSegmentTail updates.
SegmentTail(from) == {e \in Events : status[e] \in Live /\ createdAt[e] >= from}

\* Mutation: give the events back instead of dropping them.
DropRequeues(E) == status' = [e \in Events |-> IF e \in E THEN "Pending" ELSE status[e]]

Drop(E) == status' = [e \in Events |-> IF e \in E THEN "Dropped" ELSE status[e]]

-----------------------------------------------------------------------------
NoItem == [event |-> NULL, attempts |-> 0, createdAt |-> 0, t |-> 0]
NoAck == [event |-> NULL, next |-> NULL, t |-> 0]
NoSweep == [from |-> 0, t |-> 0]

Init ==
  /\ status = [e \in Events |-> "absent"]
  /\ attempts = [e \in Events |-> 0]
  /\ createdAt = [e \in Events |-> 0]
  /\ inflightUntil = [e \in Events |-> 0]
  /\ ackedAt = [e \in Events |-> 0]
  /\ head = NULL /\ inflight = NULL
  /\ now = 0
  /\ apc = [e \in Events |-> "idle"]
  /\ cpc = [c \in Claimers |-> "idle"]
  /\ item = [c \in Claimers |-> NoItem]
  /\ kpc = [a \in Ackers |-> "idle"]
  /\ ack = [a \in Ackers |-> NoAck]
  /\ jpc = "idle"
  /\ sweep = NoSweep

(***************************************************************************)
(* Append.  created_at is read from the clock by the caller; the INSERT    *)
(* and the upsert of the segment follow, in the caller's transaction when  *)
(* there is one (AppendTx) and otherwise as two autocommitted statements   *)
(* (AppendInsert, AppendUpsert).  The upsert waits for the segment's lock. *)
(***************************************************************************)
Appending == {e \in Events : apc[e] \in {"stamped", "inserted"}}

Upsert(e) == head' = IF head = NULL THEN e ELSE head

AppendStamp(e) ==
  /\ apc[e] = "idle"
  /\ now <= LastAppend
  /\ Cardinality(Appending) < MaxAppending
  /\ apc' = [apc EXCEPT ![e] = "stamped"]
  /\ createdAt' = [createdAt EXCEPT ![e] = now]
  /\ UNCHANGED <<status, attempts, inflightUntil, ackedAt, segVars, now,
                 claimVars, ackVars, sweepVars>>

InsertRow(e) ==
  /\ apc[e] = "stamped"
  /\ status' = [status EXCEPT ![e] = "Pending"]
  /\ UNCHANGED <<attempts, createdAt, inflightUntil, ackedAt, inflight, now,
                 claimVars, ackVars, sweepVars>>

AppendTx(e) ==
  /\ InsertRow(e)
  /\ ~SegmentLocked
  /\ Upsert(e)
  /\ apc' = [apc EXCEPT ![e] = "done"]

AppendInsert(e) ==
  /\ Autocommit
  /\ InsertRow(e)
  /\ apc' = [apc EXCEPT ![e] = "inserted"]
  /\ UNCHANGED head

AppendUpsert(e) ==
  /\ apc[e] = "inserted"
  /\ ~SegmentLocked
  /\ Upsert(e)
  /\ apc' = [apc EXCEPT ![e] = "done"]
  /\ UNCHANGED <<rowVars, inflight, now, claimVars, ackVars, sweepVars>>

\* The request's context is cancelled, or a statement fails, part-way.
AppendInterrupted(e) ==
  /\ apc[e] \in {"stamped", "inserted"}
  /\ apc' = [apc EXCEPT ![e] = "lost"]
  /\ UNCHANGED <<rowVars, segVars, now, claimVars, ackVars, sweepVars>>

-----------------------------------------------------------------------------
(***************************************************************************)
(* ClaimPending, in the transaction of DispatchOnce.  The scan and the     *)
(* lock are two steps: the SELECT works on its snapshot and locks the      *)
(* segment afterwards.  If the segment row changed in between, PostgreSQL  *)
(* rechecks the condition with the new segment row and the OLD outbox row  *)
(* (only s is FOR UPDATE), so the item keeps the status and attempts of    *)
(* the snapshot and only the join on head_event_id is really re-evaluated. *)
(***************************************************************************)
\* Mutation: in flight events are claimed whatever their inflight_until.
ClaimableAlways(e) ==
  expiresAt(e) <= now \/ (status[e] \in Live /\ createdAt[e] <= now)

\* Mutation: an expired row is claimed only while it is pending or out.
ClaimableLive(e) ==
  \/ status[e] = "Pending" /\ createdAt[e] <= now
  \/ status[e] = "InFlight" /\ inflightUntil[e] <= now

Claimable(e) ==
  \/ expiresAt(e) <= now
  \/ status[e] = "Pending" /\ createdAt[e] <= now
  \/ status[e] = "InFlight" /\ inflightUntil[e] <= now

HeadClaimable == head # NULL /\ Present(head) /\ Claimable(head)

\* DispatchOnce finds no candidate: 0 events, no error.
ClaimNothing(c) == cpc[c] = "idle" /\ ~HeadClaimable /\ UNCHANGED vars

ClaimScan(c) ==
  /\ cpc[c] = "idle"
  /\ HeadClaimable
  /\ cpc' = [cpc EXCEPT ![c] = "scanned"]
  /\ item' = [item EXCEPT ![c] = [event |-> head, attempts |-> attempts[head],
                                  createdAt |-> createdAt[head], t |-> now]]
  /\ UNCHANGED <<rowVars, segVars, now, apc, ackVars, sweepVars>>

ClaimLock(c) ==
  /\ cpc[c] = "scanned"
  /\ ~SegmentLocked
  /\ head = item[c].event
  /\ cpc' = [cpc EXCEPT ![c] = "locked"]
  /\ UNCHANGED <<rowVars, segVars, now, apc, item, ackVars, sweepVars>>

\* SKIP LOCKED, or the recheck of the changed segment row fails.
ClaimSkip(c) ==
  /\ cpc[c] = "scanned"
  /\ SegmentLocked \/ head # item[c].event
  /\ cpc' = [cpc EXCEPT ![c] = "idle"]
  /\ item' = [item EXCEPT ![c] = NoItem]
  /\ UNCHANGED <<rowVars, segVars, now, apc, ackVars, sweepVars>>

\* Mutation: one attempt too many.
GivesUpLate(i) == i.createdAt + TTL <= i.t \/ i.attempts > MaxAttempts

GivesUp(i) == i.createdAt + TTL <= i.t \/ i.attempts + 1 > MaxAttempts

\* inflight_until of a claim.
LeaseEnd(i) == i.t + AckTimeout

ClaimEnd(c) ==
  /\ cpc' = [cpc EXCEPT ![c] = "idle"]
  /\ item' = [item EXCEPT ![c] = NoItem]

\* UPDATE outbox ... RETURNING, UPDATE outbox_segments, COMMIT.
ClaimDeliver(c) ==
  LET e == item[c].event
  IN /\ cpc[c] = "locked"
     /\ ~GivesUp(item[c])
     /\ Present(e)
     /\ ~RowLocked(e)
     /\ status' = [status EXCEPT ![e] = "InFlight"]
     /\ attempts' = [attempts EXCEPT ![e] = @ + 1]
     /\ inflightUntil' = [inflightUntil EXCEPT ![e] = LeaseEnd(item[c])]
     /\ inflight' = e
     /\ ClaimEnd(c)
     /\ UNCHANGED <<createdAt, ackedAt, head, now, apc, ackVars, sweepVars>>

\* dropSegmentTail under the segment's lock, COMMIT.
ClaimDrop(c) ==
  LET dropped == SegmentTail(item[c].createdAt)
  IN /\ cpc[c] = "locked"
     /\ GivesUp(item[c])
     /\ \A e \in dropped : ~RowLocked(e)
     /\ Drop(dropped)
     /\ head' = NULL /\ inflight' = NULL
     /\ ClaimEnd(c)
     /\ UNCHANGED <<attempts, createdAt, inflightUntil, ackedAt, now, apc,
                    ackVars, sweepVars>>

-----------------------------------------------------------------------------
(***************************************************************************)
(* AcknowledgeOutbox, in the transaction of Service.Acknowledge.  Any row  *)
(* of the device that is not acknowledged yet may be named, sent or not.   *)
(* Nothing but the outbox row is locked until the last statement.          *)
(***************************************************************************)
AckSelect(a, e) ==
  /\ kpc[a] = "idle"
  /\ Present(e) /\ status[e] # "Acked"
  /\ kpc' = [kpc EXCEPT ![a] = "selected"]
  /\ ack' = [ack EXCEPT ![a] = [event |-> e, next |-> NULL, t |-> now]]
  /\ UNCHANGED <<rowVars, segVars, now, apc, claimVars, sweepVars>>

\* UPDATE outbox: takes the row's lock; seen by others at the COMMIT.
AckMark(a) ==
  /\ kpc[a] = "selected"
  /\ ~RowLocked(ack[a].event)
  /\ kpc' = [kpc EXCEPT ![a] = "marked"]
  /\ UNCHANGED <<rowVars, segVars, now, apc, claimVars, ack, sweepVars>>

AckReadHead(a) ==
  /\ kpc[a] = "marked"
  /\ kpc' = [kpc EXCEPT ![a] = IF head = ack[a].event THEN "head" ELSE "other"]
  /\ UNCHANGED <<rowVars, segVars, now, apc, claimVars, ack, sweepVars>>

\* The rows the "next head" query may return.
Successors(e, t) == {f \in Events \ {e} : status[f] \in Live /\ expiresAt(f) > t}

Earliest(E) == {f \in E : \A g \in E : createdAt[f] <= createdAt[g]}

AckReadNext(a) ==
  LET E == Successors(ack[a].event, ack[a].t)
  IN /\ kpc[a] = "head"
     /\ \E f \in IF E = {} THEN {NULL} ELSE Earliest(E) :
          ack' = [ack EXCEPT ![a].next = f]
     /\ kpc' = [kpc EXCEPT ![a] = "next"]
     /\ UNCHANGED <<rowVars, segVars, now, apc, claimVars, sweepVars>>

\* COMMIT of the UPDATE made by AckMark (a row deleted before it stays so).
AckCommit(a) ==
  LET e == ack[a].event
  IN /\ status' = [status EXCEPT ![e] = IF Present(e) THEN "Acked" ELSE @]
     /\ ackedAt' = [ackedAt EXCEPT ![e] = IF Present(e) THEN ack[a].t ELSE @]
     /\ kpc' = [kpc EXCEPT ![a] = "idle"]
     /\ ack' = [ack EXCEPT ![a] = NoAck]
     /\ UNCHANGED <<attempts, createdAt, inflightUntil, now, apc, claimVars,
                    sweepVars>>

\* Mutation: the head moves, inflight_event_id stays.
AckAdvanceKeepsInflight(a) ==
  /\ kpc[a] = "next"
  /\ ~SegmentLocked
  /\ head' = ack[a].next
  /\ AckCommit(a)
  /\ UNCHANGED inflight

AckAdvance(a) ==
  /\ kpc[a] = "next"
  /\ ~SegmentLocked
  /\ head' = ack[a].next
  /\ inflight' = NULL
  /\ AckCommit(a)

AckClear(a) ==
  /\ kpc[a] = "other"
  /\ inflight = ack[a].event => ~SegmentLocked
  /\ inflight' = IF inflight = ack[a].event THEN NULL ELSE inflight
  /\ AckCommit(a)
  /\ UNCHANGED head

-----------------------------------------------------------------------------
(***************************************************************************)
(* Claim locks the segment and then the outbox row; an acknowledgement the *)
(* outbox row and then the segment.  PostgreSQL breaks the cycle by        *)
(* aborting either transaction.  An error of DispatchOnce ends             *)
(* RunDispatcher, and with it the server, when the dispatcher is the       *)
(* caller; a push loop just fails its pull.                                *)
(***************************************************************************)
WaitsForSegment(a) ==
  kpc[a] = "next" \/ (kpc[a] = "other" /\ inflight = ack[a].event)

ClaimWrites(c) ==
  IF GivesUp(item[c]) THEN SegmentTail(item[c].createdAt) ELSE {item[c].event}

\* Mutation: no deadlock detection.
DeadlockIgnored(a, c) == FALSE

Deadlocked(a, c) ==
  /\ cpc[c] = "locked"
  /\ WaitsForSegment(a)
  /\ ack[a].event \in ClaimWrites(c)

AckAbort(a) ==
  /\ \E c \in Claimers : Deadlocked(a, c)
  /\ kpc' = [kpc EXCEPT ![a] = "idle"]
  /\ ack' = [ack EXCEPT ![a] = NoAck]
  /\ UNCHANGED <<rowVars, segVars, now, apc, claimVars, sweepVars>>

\* Every transaction in progress is rolled back; an append whose first
\* autocommitted statement is done keeps it.
Stop ==
  /\ apc' = [e \in Events |->
               IF apc[e] \in {"stamped", "inserted"} THEN "lost" ELSE apc[e]]
  /\ cpc' = [c \in Claimers |-> "idle"]
  /\ item' = [c \in Claimers |-> NoItem]
  /\ kpc' = [a \in Ackers |-> "idle"]
  /\ ack' = [a \in Ackers |-> NoAck]
  /\ jpc' = "idle"
  /\ sweep' = NoSweep
  /\ UNCHANGED <<rowVars, segVars, now>>

ClaimFail(c) ==
  /\ cpc[c] = "locked"
  /\ \/ \E a \in Ackers : Deadlocked(a, c)
     \/ ~GivesUp(item[c]) /\ ~Present(item[c].event)   \* RETURNING: no row
  /\ \/ c = Dispatcher /\ Stop
     \/ /\ c # Dispatcher
        /\ ClaimEnd(c)
        /\ UNCHANGED <<rowVars, segVars, now, apc, ackVars, sweepVars>>

-----------------------------------------------------------------------------
(***************************************************************************)
(* RunJanitor: DropExpiredHeads and DeleteTerminal, outside any            *)
(* transaction.  DropExpiredHeads is a SELECT, then dropSegmentTail's two  *)
(* UPDATEs, each committed on its own.                                     *)
(***************************************************************************)
HeadExpired == head # NULL /\ Present(head) /\ expiresAt(head) <= now

JanitorSelect ==
  /\ Janitor
  /\ jpc = "idle"
  /\ HeadExpired
  /\ jpc' = "drop"
  /\ sweep' = [from |-> createdAt[head], t |-> now]
  /\ UNCHANGED <<rowVars, segVars, now, apc, claimVars, ackVars>>

JanitorDrop ==
  LET dropped == SegmentTail(sweep.from)
  IN /\ jpc = "drop"
     /\ \A e \in dropped : ~RowLocked(e)
     /\ Drop(dropped)
     /\ jpc' = "clear"
     /\ sweep' = [sweep EXCEPT !.from = 0]   \* not read again
     /\ UNCHANGED <<attempts, createdAt, inflightUntil, ackedAt, segVars, now,
                    apc, claimVars, ackVars>>

JanitorClear ==
  /\ jpc = "clear"
  /\ ~SegmentLocked
  /\ head' = NULL /\ inflight' = NULL
  /\ jpc' = "purge"
  /\ UNCHANGED <<rowVars, now, apc, claimVars, ackVars, sweep>>

\* COALESCE(acked_at, expires_at) <= now - retention
Purgeable(e, t) ==
  \/ status[e] = "Acked" /\ ackedAt[e] + Retention <= t
  \/ status[e] = "Dropped" /\ expiresAt(e) + Retention <= t

\* DeleteTerminal, after dropSegmentTail or after a SELECT that found nothing.
JanitorPurge ==
  LET t == IF jpc = "idle" THEN now ELSE sweep.t
      old == {e \in Events : Purgeable(e, t)}
  IN /\ Janitor
     /\ jpc = "purge" \/ (jpc = "idle" /\ ~HeadExpired)
     /\ \A e \in old : ~RowLocked(e)
     /\ status' = [e \in Events |-> IF e \in old THEN "deleted" ELSE status[e]]
     /\ jpc' = "idle"
     /\ sweep' = NoSweep
     /\ UNCHANGED <<attempts, createdAt, inflightUntil, ackedAt, segVars, now,
                    apc, claimVars, ackVars>>

-----------------------------------------------------------------------------
Crash == Crashes /\ Stop

Tick ==
  /\ now < MaxTime
  /\ now' = now + 1
  /\ UNCHANGED <<rowVars, segVars, apc, claimVars, ackVars, sweepVars>>

AppendStep(e) ==
  \/ AppendTx(e) \/ AppendInsert(e) \/ AppendUpsert(e) \/ AppendInterrupted(e)

ClaimStep(c) ==
  \/ ClaimNothing(c) \/ ClaimScan(c) \/ ClaimLock(c) \/ ClaimSkip(c)
  \/ ClaimDeliver(c) \/ ClaimDrop(c) \/ ClaimFail(c)

AckStep(a) ==
  \/ AckMark(a) \/ AckReadHead(a) \/ AckReadNext(a)
  \/ AckAdvance(a) \/ AckClear(a) \/ AckAbort(a)

JanitorStep == JanitorSelect \/ JanitorDrop \/ JanitorClear \/ JanitorPurge

Next ==
  \/ \E e \in Events : AppendStamp(e) \/ AppendStep(e)
  \/ \E c \in Claimers : ClaimStep(c)
  \/ \E a \in Ackers : AckStep(a) \/ \E e \in Events : AckSelect(a, e)
  \/ JanitorStep
  \/ Crash
  \/ Tick

Spec == Init /\ [][Next]_vars

(***************************************************************************)
(* The claim loops keep running and a started acknowledgement goes on;     *)
(* nothing is asked of clients, of appends or of the janitor.  PostgreSQL  *)
(* hands a lock to its waiters in the order they came, so the statements   *)
(* that wait for one (ClaimWaits, AckWaits) get it if they could have had  *)
(* it again and again: strong fairness.                                    *)
(***************************************************************************)
ClaimWaits(c) == ClaimDeliver(c) \/ ClaimDrop(c)

AckWaits(a) == AckMark(a) \/ AckAdvance(a) \/ AckClear(a)

Fairness ==
  /\ \A c \in Claimers : WF_vars(ClaimStep(c)) /\ SF_vars(ClaimWaits(c))
  /\ \A a \in Ackers : WF_vars(AckStep(a)) /\ SF_vars(AckWaits(a))
  /\ WF_vars(Tick)

FairSpec == Spec /\ Fairness

-----------------------------------------------------------------------------
(***************************************************************************)
(* Properties.                                                             *)
(***************************************************************************)
Ref == Events \cup {NULL}

\* Every variable holds a value of the column or local it stands for.
TypeOK ==
  /\ status \in [Events -> Status]
  /\ attempts \in [Events -> Nat]
  /\ createdAt \in [Events -> Nat]
  /\ inflightUntil \in [Events -> Nat]
  /\ ackedAt \in [Events -> Nat]
  /\ head \in Ref /\ inflight \in Ref
  /\ now \in Nat
  /\ apc \in [Events -> {"idle", "stamped", "inserted", "done", "lost"}]
  /\ cpc \in [Claimers -> {"idle", "scanned", "locked"}]
  /\ item \in [Claimers -> [event : Ref, attempts : Nat, createdAt : Nat, t : Nat]]
  /\ kpc \in [Ackers -> {"idle", "selected"} \cup Marked]
  /\ ack \in [Ackers -> [event : Ref, next : Ref, t : Nat]]
  /\ jpc \in {"idle", "drop", "clear", "purge"}
  /\ sweep \in [from : Nat, t : Nat]

\* FOR UPDATE OF s works: from the lock to the COMMIT of a claim no append,
\* acknowledgement, janitor sweep or other claim moves the head away from the
\* event the claim is about to send (ClaimPending), and no two claims hold the
\* segment at once.
ClaimOwnsHead ==
  \A c \in Claimers : cpc[c] = "locked" =>
    /\ head = item[c].event
    /\ \A d \in Claimers : cpc[d] = "locked" => d = c

\* inflight_event_id never points behind or past the head: whatever writes
\* the two columns, and in whatever order the writers run, it is NULL or the
\* head (ClaimPending, AcknowledgeOutbox, dropSegmentTail, appendOutbox).
InflightIsHead == inflight # NULL => inflight = head

\* An event is sent (attempts + 1) only while it is the head of its segment.
SendsOnlyHead ==
  [][\A e \in Events : attempts'[e] > attempts[e] => head = e /\ head' = e]_vars

\* No event becomes "Pending" again and no purged row comes back: a claim, a
\* reclaim, a drop, a late ack or a crash never re-queues an event.
NeverRequeued ==
  [][\A e \in Events :
       /\ status'[e] = "Pending" => status[e] \in {"absent", "Pending"}
       /\ status[e] = "deleted" => status'[e] = "deleted"]_vars

\* What the repository's test of concurrent claims expects: an event is sent
\* again only when the client had its AckTimeout to acknowledge the previous
\* attempt (inflight_until).
LeaseRespected ==
  [][\A e \in Events :
       attempts'[e] > attempts[e] =>
         attempts[e] = 0 \/ inflightUntil[e] <= now]_vars

\* A device is sent an event again within the lease of the last attempt only
\* by a claim that had scanned the row before that attempt committed: every
\* claim that saw the attempt waits for inflight_until (ClaimPending).
EarlyResendIsRaced ==
  [][\A e \in Events :
       attempts'[e] > attempts[e] =>
         \/ attempts[e] = 0 \/ inflightUntil[e] <= now
         \/ \E c \in Claimers : /\ cpc[c] = "locked"
                                /\ item[c].event = e
                                /\ item[c].attempts < attempts[e]]_vars

\* The dispatcher and the pulls share the budget of attempts: each claimer but
\* the first can overrun MaxAttempts once, with a row it scanned before the
\* others' sends (ClaimPending checks the attempts of its snapshot).
MaxSends == MaxAttempts + Cardinality(Claimers) - 1

AttemptsBounded == \A e \in Events : attempts[e] <= MaxSends

\* An error of the dispatcher's DispatchOnce stops the server (ClaimFail); a
\* server that keeps being restarted and stopped promises nothing.
ServerStaysUp == <>[][~ClaimFail(Dispatcher)]_vars

\* No event clogs the segment: whatever races put it at the head (an append
\* whose upsert comes after the acknowledgement of its row included), the head
\* moves on in the end, unless its row was purged under it (ClaimPending,
\* AcknowledgeOutbox).
HeadMovesOn ==
  ServerStaysUp =>
    \A e \in Events : head = e ~> head # e \/ status[e] = "deleted"

\* Acknowledgements and claims lock in opposite orders, and still each of
\* them ends: no transaction waits for ever.
TransactionsEnd ==
  /\ \A a \in Ackers : kpc[a] # "idle" ~> kpc[a] = "idle"
  /\ \A c \in Claimers : cpc[c] = "locked" ~> cpc[c] # "locked"

\* An event whose append has committed is sent, or dropped, in the end.
PendingIsDispatched ==
  \A e \in Events :
    status[e] = "Pending" /\ apc[e] = "done" ~> status[e] # "Pending"

\* The outbox implements DeviceQueue: phase is the status column, sends the
\* attempts column and front the segment's head_event_id.
Queue == INSTANCE DeviceQueue
           WITH phase <- status, sends <- attempts, front <- head, None <- NULL

\* Every step of the outbox, with the janitor, autocommitted appends and any
\* number of claimers, is a step of the abstract queue or leaves it alone.
ImplementsQueue == Queue!QueueSpec

=============================================================================
