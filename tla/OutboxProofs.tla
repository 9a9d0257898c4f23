---------------------------- MODULE OutboxProofs ----------------------------
(***************************************************************************)
(* Theorems about Outbox, for any number of events, claimers and           *)
(* acknowledgers and any timeouts.                                         *)
(***************************************************************************)
EXTENDS Outbox, FiniteSetTheorems, TLAPS

(***************************************************************************)
(* Type correctness.                                                       *)
(***************************************************************************)
LEMMA AppendTypes ==
  ASSUME TypeOK, NEW e \in Events, AppendStamp(e) \/ AppendStep(e)
  PROVE  TypeOK'
<1> USE OutboxAssumption DEF TypeOK, Ref, Status, Live, Terminal, rowVars, segVars,
          claimVars, ackVars, sweepVars
<1>1. CASE AppendStamp(e)
  BY <1>1 DEF AppendStamp
<1>2. CASE AppendTx(e)
  BY <1>2 DEF AppendTx, InsertRow, Upsert
<1>3. CASE AppendInsert(e)
  BY <1>3 DEF AppendInsert, InsertRow
<1>4. CASE AppendUpsert(e)
  BY <1>4 DEF AppendUpsert, Upsert
<1>5. CASE AppendInterrupted(e)
  BY <1>5 DEF AppendInterrupted
<1>6. QED
  BY <1>1, <1>2, <1>3, <1>4, <1>5 DEF AppendStep

LEMMA StopTypes ==
  ASSUME TypeOK, Stop
  PROVE  /\ apc' \in [Events -> {"idle", "stamped", "inserted", "done", "lost"}]
         /\ cpc' \in [Claimers -> {"idle", "scanned", "locked"}]
         /\ item' \in [Claimers -> [event : Ref, attempts : Nat, createdAt : Nat, t : Nat]]
         /\ kpc' \in [Ackers -> {"idle", "selected"} \cup Marked]
         /\ ack' \in [Ackers -> [event : Ref, next : Ref, t : Nat]]
         /\ jpc' = "idle" /\ sweep' \in [from : Nat, t : Nat]
         /\ UNCHANGED <<rowVars, segVars, now>>
BY DEF TypeOK, Stop, Ref, NoItem, NoAck, NoSweep

LEMMA ClaimTypes ==
  ASSUME TypeOK, NEW c \in Claimers, ClaimStep(c)
  PROVE  TypeOK'
<1> USE OutboxAssumption DEF TypeOK, Ref, rowVars, segVars, claimVars, ackVars,
          sweepVars
<1>0. CASE ClaimNothing(c)
  BY <1>0 DEF ClaimNothing, vars
<1>1. CASE ClaimScan(c)
  <2>1. head \in Events
    BY <1>1 DEF ClaimScan, HeadClaimable
  <2>2. QED
    BY <1>1, <2>1 DEF ClaimScan
<1>2. CASE ClaimLock(c)
  BY <1>2 DEF ClaimLock
<1>3. CASE ClaimSkip(c)
  BY <1>3 DEF ClaimSkip, NoItem
<1>4. CASE ClaimDeliver(c)
  <2>1. item[c].event \in Ref /\ LeaseEnd(item[c]) \in Nat
    BY DEF LeaseEnd
  <2>2. item' \in [Claimers -> [event : Ref, attempts : Nat, createdAt : Nat, t : Nat]]
    BY <1>4 DEF ClaimDeliver, ClaimEnd, NoItem
  <2>3. status' \in [Events -> Status]
    BY <1>4 DEF ClaimDeliver, Status, Live
  <2>4. attempts' \in [Events -> Nat]
    <3> DEFINE e == item[c].event
    <3>1. attempts' = [attempts EXCEPT ![e] = attempts[e] + 1]
      BY <1>4 DEF ClaimDeliver
    <3>2. attempts \in [Events -> Nat]
      OBVIOUS
    <3> HIDE DEF e, TypeOK
    <3>3. CASE e \in Events
      BY <3>1, <3>2, <3>3
    <3>4. CASE e \notin Events
      BY <3>1, <3>2, <3>4
    <3>5. QED
      BY <3>3, <3>4
  <2>5. inflightUntil' \in [Events -> Nat]
    BY <1>4, <2>1 DEF ClaimDeliver
  <2>6. QED
    BY <1>4, <2>1, <2>2, <2>3, <2>4, <2>5 DEF ClaimDeliver, ClaimEnd
<1>5. CASE ClaimDrop(c)
  BY <1>5 DEF ClaimDrop, ClaimEnd, NoItem, Drop, Status, Terminal
<1>6. CASE ClaimFail(c)
  <2>1. CASE Stop
    BY <1>6, <2>1, StopTypes DEF ClaimFail
  <2>2. CASE ClaimEnd(c) /\ UNCHANGED <<rowVars, segVars, now, apc, ackVars, sweepVars>>
    BY <1>6, <2>2 DEF ClaimFail, ClaimEnd, NoItem
  <2>3. QED
    BY <1>6, <2>1, <2>2 DEF ClaimFail
<1>7. QED
  BY <1>0, <1>1, <1>2, <1>3, <1>4, <1>5, <1>6 DEF ClaimStep

LEMMA AckCommitTypes ==
  ASSUME TypeOK, NEW a \in Ackers, AckCommit(a)
  PROVE  /\ status' \in [Events -> Status]
         /\ ackedAt' \in [Events -> Nat]
         /\ kpc' \in [Ackers -> {"idle", "selected"} \cup Marked]
         /\ ack' \in [Ackers -> [event : Ref, next : Ref, t : Nat]]
BY DEF TypeOK, AckCommit, Ref, NoAck, Status, Terminal

LEMMA AckTypes ==
  ASSUME TypeOK, NEW a \in Ackers,
         AckStep(a) \/ \E e \in Events : AckSelect(a, e)
  PROVE  TypeOK'
<1> USE OutboxAssumption DEF TypeOK, Ref, rowVars, segVars, claimVars, ackVars,
          sweepVars, Marked
<1>1. ASSUME NEW e \in Events, AckSelect(a, e)
      PROVE  TypeOK'
  BY <1>1 DEF AckSelect
<1>2. CASE AckMark(a)
  BY <1>2 DEF AckMark
<1>3. CASE AckReadHead(a)
  BY <1>3 DEF AckReadHead
<1>4. CASE AckReadNext(a)
  <2>1. PICK f \in Ref : ack' = [ack EXCEPT ![a].next = f]
    BY <1>4 DEF AckReadNext, Earliest, Successors
  <2>2. QED
    BY <1>4, <2>1 DEF AckReadNext
<1>5. CASE AckAdvance(a)
  BY <1>5, AckCommitTypes DEF AckAdvance, AckCommit
<1>6. CASE AckClear(a)
  BY <1>6, AckCommitTypes DEF AckClear, AckCommit
<1>7. CASE AckAbort(a)
  BY <1>7 DEF AckAbort, NoAck
<1>8. QED
  BY <1>1, <1>2, <1>3, <1>4, <1>5, <1>6, <1>7 DEF AckStep

LEMMA JanitorTypes ==
  ASSUME TypeOK, JanitorStep
  PROVE  TypeOK'
<1> USE OutboxAssumption DEF TypeOK, Ref, rowVars, segVars, claimVars, ackVars,
          sweepVars
<1>1. CASE JanitorSelect
  <2>1. head \in Events
    BY <1>1 DEF JanitorSelect, HeadExpired
  <2>2. QED
    BY <1>1, <2>1 DEF JanitorSelect
<1>2. CASE JanitorDrop
  BY <1>2 DEF JanitorDrop, Drop, Status, Terminal
<1>3. CASE JanitorClear
  BY <1>3 DEF JanitorClear
<1>4. CASE JanitorPurge
  BY <1>4 DEF JanitorPurge, NoSweep, Status
<1>5. QED
  BY <1>1, <1>2, <1>3, <1>4 DEF JanitorStep

\* Every reachable state of the outbox is well typed, for all constants.
THEOREM TypeCorrect == Spec => []TypeOK
<1>1. Init => TypeOK
  BY OutboxAssumption
  DEF Init, TypeOK, Ref, Status, NoItem, NoAck, NoSweep
<1>2. TypeOK /\ [Next]_vars => TypeOK'
  <2> SUFFICES ASSUME TypeOK, [Next]_vars
               PROVE  TypeOK'
    OBVIOUS
  <2>1. CASE Crash
    BY <2>1, StopTypes
    DEF Crash, TypeOK, rowVars, segVars
  <2>2. CASE Tick
    BY <2>2 DEF Tick, TypeOK, rowVars, segVars, claimVars, ackVars, sweepVars
  <2>3. CASE UNCHANGED vars
    BY <2>3 DEF vars, TypeOK, rowVars, segVars, claimVars, ackVars, sweepVars
  <2>4. QED
    BY <2>1, <2>2, <2>3, AppendTypes, ClaimTypes, AckTypes, JanitorTypes DEF Next
<1>3. QED
  BY <1>1, <1>2, PTL DEF Spec

(***************************************************************************)
(* The segment's lock.  ClaimOwnsHead is inductive given the types: every  *)
(* statement that writes head_event_id waits for the lock, and only the    *)
(* owner's COMMIT both writes it and gives the lock up.                    *)
(***************************************************************************)
LEMMA ClaimOwnsHeadStep ==
  ASSUME TypeOK, ClaimOwnsHead, [Next]_vars
  PROVE  ClaimOwnsHead'
<1> USE DEF TypeOK, ClaimOwnsHead, rowVars, segVars, claimVars, ackVars, sweepVars
<1>1. ASSUME NEW e \in Events, AppendStamp(e) \/ AppendStep(e)
      PROVE  ClaimOwnsHead'
  BY <1>1 DEF AppendStamp, AppendStep, AppendTx, InsertRow, AppendInsert,
              AppendUpsert, AppendInterrupted, Upsert, SegmentLocked
<1>2. ASSUME NEW c \in Claimers, ClaimStep(c)
      PROVE  ClaimOwnsHead'
  <2>1. CASE ClaimNothing(c)
    BY <2>1 DEF ClaimNothing, vars
  <2>2. CASE ClaimScan(c)
    BY <2>2 DEF ClaimScan
  <2>3. CASE ClaimLock(c)
    BY <2>3 DEF ClaimLock, SegmentLocked
  <2>4. CASE ClaimSkip(c)
    BY <2>4 DEF ClaimSkip
  <2>5. CASE ClaimDeliver(c)
    BY <2>5 DEF ClaimDeliver, ClaimEnd
  <2>6. CASE ClaimDrop(c)
    BY <2>6 DEF ClaimDrop, ClaimEnd
  <2>7. CASE ClaimFail(c)
    BY <2>7 DEF ClaimFail, Stop, ClaimEnd
  <2>8. QED
    BY <1>2, <2>1, <2>2, <2>3, <2>4, <2>5, <2>6, <2>7 DEF ClaimStep
<1>3. ASSUME NEW a \in Ackers, AckStep(a) \/ \E e \in Events : AckSelect(a, e)
      PROVE  ClaimOwnsHead'
  BY <1>3 DEF AckStep, AckSelect, AckMark, AckReadHead, AckReadNext, AckAdvance,
              AckClear, AckAbort, AckCommit, SegmentLocked
<1>4. CASE JanitorStep
  BY <1>4 DEF JanitorStep, JanitorSelect, JanitorDrop, JanitorClear, JanitorPurge,
              SegmentLocked
<1>5. CASE Crash
  BY <1>5 DEF Crash, Stop
<1>6. CASE Tick
  BY <1>6 DEF Tick
<1>7. CASE UNCHANGED vars
  BY <1>7 DEF vars
<1>8. QED
  BY <1>1, <1>2, <1>3, <1>4, <1>5, <1>6, <1>7 DEF Next

\* From its lock to its COMMIT a claim owns the segment and its head.
THEOREM ClaimOwnsHeadAlways == Spec => []ClaimOwnsHead
<1>1. Init => ClaimOwnsHead
  BY DEF Init, ClaimOwnsHead
<1>2. TypeOK /\ ClaimOwnsHead /\ [Next]_vars => ClaimOwnsHead'
  BY ClaimOwnsHeadStep
<1>3. QED
  BY <1>1, <1>2, TypeCorrect, PTL DEF Spec

\* inflight_event_id is NULL or the head, whoever writes the segment's row.
THEOREM InflightIsHeadAlways == Spec => []InflightIsHead
<1>1. Init => InflightIsHead
  BY DEF Init, InflightIsHead
<1>2. TypeOK /\ ClaimOwnsHead /\ InflightIsHead /\ [Next]_vars => InflightIsHead'
  <2> SUFFICES ASSUME TypeOK, ClaimOwnsHead, InflightIsHead, [Next]_vars
               PROVE  InflightIsHead'
    OBVIOUS
  <2> USE DEF InflightIsHead, rowVars, segVars, claimVars, ackVars, sweepVars
  <2>1. ASSUME NEW e \in Events, AppendStamp(e) \/ AppendStep(e)
        PROVE  InflightIsHead'
    BY <2>1 DEF AppendStamp, AppendStep, AppendTx, InsertRow, AppendInsert,
                AppendUpsert, AppendInterrupted, Upsert
  <2>2. ASSUME NEW c \in Claimers, ClaimStep(c)
        PROVE  InflightIsHead'
    <3>1. CASE ClaimDeliver(c)
      BY <3>1 DEF ClaimDeliver, ClaimOwnsHead
    <3>2. CASE ~ClaimDeliver(c)
      BY <2>2, <3>2 DEF ClaimStep, ClaimNothing, ClaimScan, ClaimLock, ClaimSkip,
                        ClaimDrop, ClaimFail, ClaimEnd, Stop, vars
    <3>3. QED
      BY <3>1, <3>2
  <2>3. ASSUME NEW a \in Ackers, AckStep(a) \/ \E e \in Events : AckSelect(a, e)
        PROVE  InflightIsHead'
    BY <2>3 DEF AckStep, AckSelect, AckMark, AckReadHead, AckReadNext, AckAdvance,
                AckClear, AckAbort, AckCommit
  <2>4. CASE JanitorStep
    BY <2>4 DEF JanitorStep, JanitorSelect, JanitorDrop, JanitorClear, JanitorPurge
  <2>5. CASE Crash \/ Tick \/ UNCHANGED vars
    BY <2>5 DEF Crash, Stop, Tick, vars
  <2>6. QED
    BY <2>1, <2>2, <2>3, <2>4, <2>5 DEF Next
<1>3. QED
  BY <1>1, <1>2, TypeCorrect, ClaimOwnsHeadAlways, PTL DEF Spec

(***************************************************************************)
(* What the attempts column does in a step.                                *)
(***************************************************************************)
LEMMA AttemptsStep ==
  ASSUME TypeOK, [Next]_vars
  PROVE  UNCHANGED attempts \/ \E c \in Claimers : ClaimDeliver(c)
<1> USE DEF rowVars, segVars, claimVars, ackVars, sweepVars
<1>1. ASSUME NEW e \in Events, AppendStamp(e) \/ AppendStep(e)
      PROVE  UNCHANGED attempts
  BY <1>1 DEF AppendStamp, AppendStep, AppendTx, InsertRow, AppendInsert,
              AppendUpsert, AppendInterrupted
<1>2. ASSUME NEW c \in Claimers, ClaimStep(c), ~ClaimDeliver(c)
      PROVE  UNCHANGED attempts
  BY <1>2 DEF ClaimStep, ClaimNothing, ClaimScan, ClaimLock, ClaimSkip, ClaimDrop,
              ClaimFail, Stop, vars
<1>3. ASSUME NEW a \in Ackers, AckStep(a) \/ \E e \in Events : AckSelect(a, e)
      PROVE  UNCHANGED attempts
  BY <1>3 DEF AckStep, AckSelect, AckMark, AckReadHead, AckReadNext, AckAdvance,
              AckClear, AckAbort, AckCommit
<1>4. CASE JanitorStep
  BY <1>4 DEF JanitorStep, JanitorSelect, JanitorDrop, JanitorClear, JanitorPurge
<1>5. CASE Crash \/ Tick \/ UNCHANGED vars
  BY <1>5 DEF Crash, Stop, Tick, vars
<1>6. QED
  BY <1>1, <1>2, <1>3, <1>4, <1>5 DEF Next

\* An event is sent only while it is the head of its segment: the action
\* property SendsOnlyHead, from the ownership of the segment's lock.
THEOREM SendsOnlyHeadAlways == Spec => SendsOnlyHead
<1>1. TypeOK /\ ClaimOwnsHead /\ [Next]_vars =>
        [\A e \in Events : attempts'[e] > attempts[e] => head = e /\ head' = e]_vars
  <2> SUFFICES ASSUME TypeOK, ClaimOwnsHead, [Next]_vars, NEW e \in Events,
                      attempts'[e] > attempts[e]
               PROVE  head = e /\ head' = e
    OBVIOUS
  <2>1. PICK c \in Claimers : ClaimDeliver(c)
    BY AttemptsStep DEF TypeOK
  <2>2. head = item[c].event /\ head' = head
    BY <2>1 DEF ClaimDeliver, ClaimOwnsHead
  <2>3. e = item[c].event
    BY <2>1 DEF ClaimDeliver, TypeOK
  <2>4. QED
    BY <2>2, <2>3
<1>2. QED
  BY <1>1, TypeCorrect, ClaimOwnsHeadAlways, PTL DEF Spec, SendsOnlyHead

(***************************************************************************)
(* RowInv: what every run of the outbox keeps about the life of a row.  A  *)
(* row is absent exactly until its INSERT, unsent rows have no attempts,   *)
(* and what a claim or an acknowledgement in progress names is a row that  *)
(* was inserted.                                                           *)
(***************************************************************************)
RowInv ==
  /\ \A e \in Events : apc[e] \in {"idle", "stamped"} => status[e] = "absent"
  /\ \A e \in Events : apc[e] = "inserted" => status[e] # "absent"
  /\ \A e \in Events : status[e] \in {"absent", "Pending"} => attempts[e] = 0
  /\ \A a \in Ackers : kpc[a] # "idle" =>
       ack[a].event \in Events /\ status[ack[a].event] # "absent"
  /\ \A a \in Ackers : kpc[a] = "next" /\ ack[a].next # NULL =>
       /\ ack[a].next # ack[a].event
       /\ ack[a].next \in Events /\ status[ack[a].next] # "absent"
  /\ \A c \in Claimers : cpc[c] # "idle" => item[c].event \in Events

LEMMA AckedRow ==
  ASSUME status \in [Events -> Status], NEW x \in Events,
         status' = [status EXCEPT ![x] = IF Present(x) THEN "Acked" ELSE @]
  PROVE  \A e \in Events : \/ status'[e] = status[e]
                           \/ Present(e) /\ status'[e] = "Acked"
OBVIOUS

LEMMA RowInvStep ==
  ASSUME TypeOK, RowInv, [Next]_vars
  PROVE  RowInv'
<1> USE OutboxAssumption DEF TypeOK, RowInv, rowVars, segVars, claimVars, ackVars,
          sweepVars
<1>1. ASSUME NEW e \in Events, AppendStamp(e) \/ AppendStep(e)
      PROVE  RowInv'
  <2>1. CASE AppendStamp(e)
    BY <2>1 DEF AppendStamp
  <2>2. CASE AppendTx(e)
    BY <2>2 DEF AppendTx, InsertRow
  <2>3. CASE AppendInsert(e)
    BY <2>3 DEF AppendInsert, InsertRow
  <2>4. CASE AppendUpsert(e) \/ AppendInterrupted(e)
    BY <2>4 DEF AppendUpsert, AppendInterrupted
  <2>5. QED
    BY <1>1, <2>1, <2>2, <2>3, <2>4 DEF AppendStep
<1>2. ASSUME NEW c \in Claimers, ClaimStep(c)
      PROVE  RowInv'
  <2>1. CASE ClaimNothing(c)
    BY <2>1 DEF ClaimNothing, vars
  <2>2. CASE ClaimScan(c)
    BY <2>2 DEF ClaimScan, HeadClaimable, Ref
  <2>3. CASE ClaimLock(c)
    BY <2>3 DEF ClaimLock
  <2>4. CASE ClaimSkip(c)
    BY <2>4 DEF ClaimSkip
  <2>5. CASE ClaimDeliver(c)
    <3>1. item[c].event \in Events /\ Present(item[c].event)
      BY <2>5 DEF ClaimDeliver
    <3>2. QED
      BY <2>5, <3>1 DEF ClaimDeliver, ClaimEnd, Present, Live, Terminal
  <2>6. CASE ClaimDrop(c)
    BY <2>6 DEF ClaimDrop, ClaimEnd, Drop, SegmentTail, Live
  <2>7. CASE ClaimFail(c)
    BY <2>7 DEF ClaimFail, Stop, ClaimEnd
  <2>8. QED
    BY <1>2, <2>1, <2>2, <2>3, <2>4, <2>5, <2>6, <2>7 DEF ClaimStep
<1>3. ASSUME NEW a \in Ackers, AckStep(a) \/ \E e \in Events : AckSelect(a, e)
      PROVE  RowInv'
  <2>1. ASSUME NEW e \in Events, AckSelect(a, e)
        PROVE  RowInv'
    BY <2>1 DEF AckSelect, Present, Live, Terminal
  <2>2. CASE AckMark(a) \/ AckReadHead(a) \/ AckAbort(a)
    <3>1. CASE AckMark(a)
      BY <3>1 DEF AckMark
    <3>2. CASE AckReadHead(a)
      BY <3>2 DEF AckReadHead
    <3>3. CASE AckAbort(a)
      BY <3>3 DEF AckAbort
    <3>4. QED
      BY <2>2, <3>1, <3>2, <3>3
  <2>3. CASE AckReadNext(a)
    BY <2>3 DEF AckReadNext, Earliest, Successors, Live
  <2>4. CASE AckAdvance(a) \/ AckClear(a)
    <3>1. /\ kpc' = [kpc EXCEPT ![a] = "idle"] /\ ack' = [ack EXCEPT ![a] = NoAck]
          /\ UNCHANGED <<attempts, apc, cpc, item>>
      BY <2>4 DEF AckAdvance, AckClear, AckCommit
    <3>2. \A e \in Events : \/ status'[e] = status[e]
                            \/ Present(e) /\ status'[e] = "Acked"
      <4>1. PICK x \in Events : x = ack[a].event
        BY <2>4 DEF AckAdvance, AckClear
      <4>2. status' = [status EXCEPT ![x] = IF Present(x) THEN "Acked" ELSE @]
        BY <2>4, <4>1 DEF AckAdvance, AckClear, AckCommit
      <4>3. status \in [Events -> Status]
        OBVIOUS
      <4>4. QED
        BY <4>2, <4>3, AckedRow
    <3>3. \A e \in Events : Present(e) => apc[e] \notin {"idle", "stamped"}
      BY DEF Present, Live, Terminal
    <3>4. QED
      BY <3>1, <3>2, <3>3
  <2>5. QED
    BY <1>3, <2>1, <2>2, <2>3, <2>4 DEF AckStep
<1>4. CASE JanitorStep
  BY <1>4 DEF JanitorStep, JanitorSelect, JanitorDrop, JanitorClear, JanitorPurge,
              Drop, SegmentTail, Purgeable, Live
<1>5. CASE Crash
  BY <1>5 DEF Crash, Stop
<1>6. CASE Tick \/ UNCHANGED vars
  BY <1>6 DEF Tick, vars
<1>7. QED
  BY <1>1, <1>2, <1>3, <1>4, <1>5, <1>6 DEF Next

LEMMA RowInvAlways == Spec => []RowInv
<1>1. Init => RowInv
  BY DEF Init, RowInv
<1>2. TypeOK /\ RowInv /\ [Next]_vars => RowInv'
  BY RowInvStep
<1>3. QED
  BY <1>1, <1>2, TypeCorrect, PTL DEF Spec

\* No append, claim, drop, acknowledgement, sweep or crash re-queues an event
\* or revives a deleted row.
THEOREM NeverRequeuedAlways == Spec => NeverRequeued
<1> DEFINE A == \A e \in Events :
       /\ status'[e] = "Pending" => status[e] \in {"absent", "Pending"}
       /\ status[e] = "deleted" => status'[e] = "deleted"
<1>1. TypeOK /\ RowInv /\ [Next]_vars => [A]_vars
  <2> SUFFICES ASSUME TypeOK, RowInv, Next
               PROVE  A
    BY DEF vars
  <2> USE DEF TypeOK, RowInv, rowVars, segVars, claimVars, ackVars, sweepVars
  <2>1. ASSUME NEW e \in Events, AppendStamp(e) \/ AppendStep(e)
        PROVE  A
    BY <2>1 DEF AppendStamp, AppendStep, AppendTx, InsertRow, AppendInsert,
                AppendUpsert, AppendInterrupted
  <2>2. ASSUME NEW c \in Claimers, ClaimStep(c)
        PROVE  A
    <3>1. CASE ClaimDeliver(c)
      BY <3>1 DEF ClaimDeliver, Present, Live, Terminal
    <3>2. CASE ClaimDrop(c)
      BY <3>2 DEF ClaimDrop, Drop, SegmentTail, Live
    <3>3. CASE ~ClaimDeliver(c) /\ ~ClaimDrop(c)
      BY <2>2, <3>3 DEF ClaimStep, ClaimNothing, ClaimScan, ClaimLock, ClaimSkip,
                        ClaimFail, Stop, vars
    <3>4. QED
      BY <3>1, <3>2, <3>3
  <2>3. ASSUME NEW a \in Ackers, AckStep(a) \/ \E e \in Events : AckSelect(a, e)
        PROVE  A
    <3>1. CASE AckAdvance(a) \/ AckClear(a)
      BY <3>1 DEF AckAdvance, AckClear, AckCommit, Present, Live, Terminal
    <3>2. CASE ~(AckAdvance(a) \/ AckClear(a))
      BY <2>3, <3>2 DEF AckStep, AckSelect, AckMark, AckReadHead, AckReadNext,
                        AckAbort
    <3>3. QED
      BY <3>1, <3>2
  <2>4. CASE JanitorStep
    BY <2>4 DEF JanitorStep, JanitorSelect, JanitorDrop, JanitorClear, JanitorPurge,
                Drop, SegmentTail, Purgeable, Live
  <2>5. CASE Crash \/ Tick
    BY <2>5 DEF Crash, Stop, Tick
  <2>6. QED
    BY <2>1, <2>2, <2>3, <2>4, <2>5 DEF Next
<1>2. QED
  BY <1>1, TypeCorrect, RowInvAlways, PTL DEF Spec, NeverRequeued

(***************************************************************************)
(* SnapshotInv: what a claim scanned is no newer than the row, and a       *)
(* snapshot that is still the row's last attempt was taken when the lease  *)
(* of that attempt was over.                                               *)
(***************************************************************************)
SnapshotInv ==
  \A c \in Claimers : cpc[c] # "idle" =>
    /\ item[c].attempts <= attempts[item[c].event]
    /\ item[c].attempts = attempts[item[c].event] =>
         \/ GivesUp(item[c])
         \/ attempts[item[c].event] = 0
         \/ inflightUntil[item[c].event] <= now

LEMMA SnapshotInvStep ==
  ASSUME TypeOK, RowInv, SnapshotInv, [Next]_vars
  PROVE  SnapshotInv'
<1> USE OutboxAssumption DEF TypeOK, SnapshotInv, GivesUp, rowVars, segVars,
          claimVars, ackVars, sweepVars
<1>1. ASSUME NEW e \in Events, AppendStamp(e) \/ AppendStep(e)
      PROVE  SnapshotInv'
  BY <1>1 DEF AppendStamp, AppendStep, AppendTx, InsertRow, AppendInsert,
              AppendUpsert, AppendInterrupted
<1>2. ASSUME NEW c \in Claimers, ClaimStep(c)
      PROVE  SnapshotInv'
  <2>1. CASE ClaimNothing(c)
    BY <2>1 DEF ClaimNothing, vars
  <2>2. CASE ClaimScan(c)
    <3>1. head \in Events
      BY <2>2 DEF ClaimScan, HeadClaimable, Ref
    <3>2. \/ createdAt[head] + TTL <= now
          \/ attempts[head] = 0
          \/ inflightUntil[head] <= now
      BY <2>2, <3>1 DEF ClaimScan, HeadClaimable, Claimable, expiresAt, RowInv
    <3>3. item'[c] = [event |-> head, attempts |-> attempts[head],
                      createdAt |-> createdAt[head], t |-> now]
      BY <2>2 DEF ClaimScan
    <3>4. \A d \in Claimers \ {c} : item'[d] = item[d] /\ cpc'[d] = cpc[d]
      BY <2>2 DEF ClaimScan
    <3>5. UNCHANGED <<attempts, inflightUntil, now>>
      BY <2>2 DEF ClaimScan
    <3>6. QED
      BY <3>1, <3>2, <3>3, <3>4, <3>5
  <2>3. CASE ClaimLock(c)
    BY <2>3 DEF ClaimLock
  <2>4. CASE ClaimSkip(c)
    BY <2>4 DEF ClaimSkip
  <2>5. CASE ClaimDeliver(c)
    <3> DEFINE x == item[c].event
    <3>1. x \in Events
      BY <2>5 DEF ClaimDeliver, RowInv
    <3>2. attempts'[x] = attempts[x] + 1 /\ \A e \in Events \ {x} :
            attempts'[e] = attempts[e] /\ inflightUntil'[e] = inflightUntil[e]
      BY <2>5, <3>1 DEF ClaimDeliver
    <3>3. /\ cpc'[c] = "idle" /\ now' = now
          /\ \A d \in Claimers \ {c} : item'[d] = item[d] /\ cpc'[d] = cpc[d]
      BY <2>5 DEF ClaimDeliver, ClaimEnd
    <3>4. \A d \in Claimers : cpc[d] # "idle" => item[d].event \in Events
      BY DEF RowInv
    <3>5. QED
      BY <3>1, <3>2, <3>3, <3>4
  <2>6. CASE ClaimDrop(c)
    BY <2>6 DEF ClaimDrop, ClaimEnd
  <2>7. CASE ClaimFail(c)
    BY <2>7 DEF ClaimFail, Stop, ClaimEnd
  <2>8. QED
    BY <1>2, <2>1, <2>2, <2>3, <2>4, <2>5, <2>6, <2>7 DEF ClaimStep
<1>3. ASSUME NEW a \in Ackers, AckStep(a) \/ \E e \in Events : AckSelect(a, e)
      PROVE  SnapshotInv'
  BY <1>3 DEF AckStep, AckSelect, AckMark, AckReadHead, AckReadNext, AckAdvance,
              AckClear, AckAbort, AckCommit
<1>4. CASE JanitorStep
  BY <1>4 DEF JanitorStep, JanitorSelect, JanitorDrop, JanitorClear, JanitorPurge
<1>5. CASE Crash
  BY <1>5 DEF Crash, Stop
<1>6. CASE Tick
  <2>1. UNCHANGED <<attempts, inflightUntil, claimVars>> /\ now' = now + 1
    BY <1>6 DEF Tick
  <2>2. ASSUME NEW c \in Claimers, cpc[c] # "idle"
        PROVE  inflightUntil[item[c].event] <= now
                 => inflightUntil[item[c].event] <= now + 1
    BY <2>2 DEF RowInv
  <2>3. QED
    BY <2>1, <2>2
<1>7. CASE UNCHANGED vars
  BY <1>7 DEF vars
<1>8. QED
  BY <1>1, <1>2, <1>3, <1>4, <1>5, <1>6, <1>7 DEF Next

LEMMA SnapshotInvAlways == Spec => []SnapshotInv
<1>1. Init => SnapshotInv
  BY DEF Init, SnapshotInv
<1>2. TypeOK /\ RowInv /\ SnapshotInv /\ [Next]_vars => SnapshotInv'
  BY SnapshotInvStep
<1>3. QED
  BY <1>1, <1>2, TypeCorrect, RowInvAlways, PTL DEF Spec

\* With any number of claimers, an event is sent again within its lease only by
\* a claim whose snapshot is older than the last attempt.
THEOREM EarlyResendIsRacedAlways == Spec => EarlyResendIsRaced
<1> DEFINE A == \A e \in Events : attempts'[e] > attempts[e] =>
         \/ attempts[e] = 0 \/ inflightUntil[e] <= now
         \/ \E c \in Claimers : /\ cpc[c] = "locked"
                                /\ item[c].event = e
                                /\ item[c].attempts < attempts[e]
<1>1. TypeOK /\ SnapshotInv /\ [Next]_vars => [A]_vars
  <2> SUFFICES ASSUME TypeOK, SnapshotInv, [Next]_vars, NEW e \in Events,
                      attempts'[e] > attempts[e],
                      ~(attempts[e] = 0 \/ inflightUntil[e] <= now)
               PROVE  \E c \in Claimers : /\ cpc[c] = "locked"
                                          /\ item[c].event = e
                                          /\ item[c].attempts < attempts[e]
    OBVIOUS
  <2>1. PICK c \in Claimers : ClaimDeliver(c)
    BY AttemptsStep DEF TypeOK
  <2>2. e = item[c].event
    BY <2>1 DEF ClaimDeliver, TypeOK
  <2>3. cpc[c] = "locked" /\ ~GivesUp(item[c])
    BY <2>1 DEF ClaimDeliver
  <2>4. item[c].attempts <= attempts[e] /\ item[c].attempts # attempts[e]
    BY <2>2, <2>3 DEF SnapshotInv
  <2>5. item[c].attempts < attempts[e]
    <3>1. item[c].attempts \in Nat /\ attempts[e] \in Nat
      BY DEF TypeOK
    <3>2. QED
      BY <2>4, <3>1
  <2>6. QED
    BY <2>2, <2>3, <2>5
<1>2. QED
  BY <1>1, TypeCorrect, SnapshotInvAlways, PTL DEF Spec, EarlyResendIsRaced

(***************************************************************************)
(* BudgetInv: an event's attempts, and the claims in progress that have    *)
(* seen fewer than MaxAttempts of them and so may add one, stay within     *)
(* MaxSends.  A claim that scans a row with MaxAttempts attempts gives up, *)
(* so it never joins Senders; a claim that sends leaves Senders.           *)
(***************************************************************************)
Senders(e) ==
  {c \in Claimers : cpc[c] # "idle" /\ item[c].event = e /\ item[c].attempts < MaxAttempts}

BudgetInv == \A e \in Events : attempts[e] + Cardinality(Senders(e)) <= MaxSends

LEMMA SendersFinite ==
  ASSUME NEW S \in SUBSET Claimers
  PROVE  /\ IsFiniteSet(S) /\ Cardinality(S) \in Nat
         /\ Cardinality(S) <= Cardinality(Claimers)
         /\ Cardinality(Claimers) \in Nat
BY OutboxAssumption, FS_Subset, FS_CardinalityType

LEMMA SendersStep ==
  ASSUME TypeOK, RowInv, [Next]_vars, NEW e \in Events, attempts[e] >= MaxAttempts
  PROVE  Senders(e)' \subseteq Senders(e)
<1> USE OutboxAssumption DEF TypeOK, Senders, rowVars, segVars, claimVars, ackVars,
          sweepVars
<1>1. ASSUME NEW f \in Events, AppendStamp(f) \/ AppendStep(f)
      PROVE  UNCHANGED claimVars
  BY <1>1 DEF AppendStamp, AppendStep, AppendTx, InsertRow, AppendInsert,
              AppendUpsert, AppendInterrupted
<1>2. ASSUME NEW c \in Claimers, ClaimStep(c)
      PROVE  Senders(e)' \subseteq Senders(e)
  <2>1. CASE ClaimNothing(c)
    BY <2>1 DEF ClaimNothing, vars
  <2>2. CASE ClaimScan(c)
    <3>1. item'[c].event = head /\ item'[c].attempts = attempts[head]
      BY <2>2 DEF ClaimScan
    <3>2. ~(item'[c].event = e /\ item'[c].attempts < MaxAttempts)
      BY <3>1
    <3>3. QED
      BY <2>2, <3>2 DEF ClaimScan
  <2>3. CASE ClaimLock(c) \/ ClaimSkip(c)
    BY <2>3 DEF ClaimLock, ClaimSkip
  <2>4. CASE ClaimDeliver(c) \/ ClaimDrop(c)
    BY <2>4 DEF ClaimDeliver, ClaimDrop, ClaimEnd
  <2>5. CASE ClaimFail(c)
    BY <2>5 DEF ClaimFail, Stop, ClaimEnd
  <2>6. QED
    BY <1>2, <2>1, <2>2, <2>3, <2>4, <2>5 DEF ClaimStep
<1>3. ASSUME NEW a \in Ackers, AckStep(a) \/ \E f \in Events : AckSelect(a, f)
      PROVE  UNCHANGED claimVars
  BY <1>3 DEF AckStep, AckSelect, AckMark, AckReadHead, AckReadNext, AckAdvance,
              AckClear, AckAbort, AckCommit
<1>4. CASE JanitorStep
  BY <1>4 DEF JanitorStep, JanitorSelect, JanitorDrop, JanitorClear, JanitorPurge
<1>5. CASE Crash
  BY <1>5 DEF Crash, Stop
<1>6. CASE Tick \/ UNCHANGED vars
  BY <1>6 DEF Tick, vars
<1>7. QED
  BY <1>1, <1>2, <1>3, <1>4, <1>5, <1>6 DEF Next

LEMMA BudgetInvStep ==
  ASSUME TypeOK, RowInv, BudgetInv, [Next]_vars
  PROVE  BudgetInv'
<1> SUFFICES ASSUME NEW e \in Events
             PROVE  attempts'[e] + Cardinality(Senders(e)') <= MaxSends
  BY DEF BudgetInv, MaxSends
<1>0. /\ attempts[e] \in Nat /\ MaxAttempts \in Nat
      /\ attempts[e] + Cardinality(Senders(e)) <= MaxSends
      /\ Senders(e) \in SUBSET Claimers /\ Senders(e)' \in SUBSET Claimers
  BY OutboxAssumption DEF TypeOK, BudgetInv, Senders
<1>1. /\ IsFiniteSet(Senders(e)) /\ Cardinality(Senders(e)) \in Nat
      /\ Cardinality(Senders(e)') \in Nat
      /\ Cardinality(Senders(e)') <= Cardinality(Claimers)
      /\ Cardinality(Claimers) \in Nat
  BY <1>0, SendersFinite
<1>2. CASE UNCHANGED attempts /\ attempts[e] < MaxAttempts
  BY <1>0, <1>1, <1>2 DEF MaxSends
<1>3. CASE UNCHANGED attempts /\ attempts[e] >= MaxAttempts
  <2>1. Senders(e)' \subseteq Senders(e)
    BY <1>3, SendersStep
  <2>2. Cardinality(Senders(e)') <= Cardinality(Senders(e))
    BY <2>1, <1>1, FS_Subset
  <2>3. QED
    BY <1>0, <1>1, <1>3, <2>2 DEF MaxSends
<1>4. ASSUME NEW c \in Claimers, ClaimDeliver(c)
      PROVE  attempts'[e] + Cardinality(Senders(e)') <= MaxSends
  <2>1. /\ cpc' = [cpc EXCEPT ![c] = "idle"]
        /\ \A d \in Claimers \ {c} : item'[d] = item[d]
    BY <1>4 DEF ClaimDeliver, ClaimEnd, TypeOK
  <2>2. Senders(e)' \subseteq Senders(e) \ {c}
    BY <2>1 DEF Senders, TypeOK
  <2>3. CASE item[c].event = e
    <3>1. c \in Senders(e)
      BY <1>4, <2>3, OutboxAssumption DEF ClaimDeliver, GivesUp, Senders, TypeOK
    <3>2. /\ IsFiniteSet(Senders(e) \ {c})
          /\ Cardinality(Senders(e) \ {c}) = Cardinality(Senders(e)) - 1
      BY <3>1, <1>1, FS_RemoveElement
    <3>3. Cardinality(Senders(e)') <= Cardinality(Senders(e)) - 1
      BY <2>2, <3>2, FS_Subset
    <3>4. attempts'[e] = attempts[e] + 1
      BY <1>4, <2>3 DEF ClaimDeliver, TypeOK
    <3>5. QED
      BY <1>0, <1>1, <3>3, <3>4 DEF MaxSends
  <2>4. CASE item[c].event # e
    <3>1. Senders(e)' \subseteq Senders(e)
      BY <2>2
    <3>2. Cardinality(Senders(e)') <= Cardinality(Senders(e))
      BY <3>1, <1>1, FS_Subset
    <3>3. attempts'[e] = attempts[e]
      BY <1>4, <2>4 DEF ClaimDeliver, TypeOK
    <3>4. QED
      BY <1>0, <1>1, <3>2, <3>3 DEF MaxSends
  <2>5. QED
    BY <2>3, <2>4
<1>5. QED
  BY <1>0, <1>2, <1>3, <1>4, AttemptsStep

LEMMA BudgetInvAlways == Spec => []BudgetInv
<1>1. Init => BudgetInv
  <2> SUFFICES ASSUME Init, NEW e \in Events
               PROVE  attempts[e] + Cardinality(Senders(e)) <= MaxSends
    BY DEF BudgetInv
  <2>1. attempts[e] = 0 /\ Senders(e) \in SUBSET Claimers
    BY DEF Init, Senders
  <2>2. QED
    BY <2>1, SendersFinite, OutboxAssumption DEF MaxSends
<1>2. TypeOK /\ RowInv /\ BudgetInv /\ [Next]_vars => BudgetInv'
  BY BudgetInvStep
<1>3. QED
  BY <1>1, <1>2, TypeCorrect, RowInvAlways, PTL DEF Spec

\* However many claimers, crashes, late acknowledgements and sweeps there are,
\* an event is sent at most MaxAttempts times and once more per extra claimer.
THEOREM AttemptsBoundedAlways == Spec => []AttemptsBounded
<1>1. TypeOK /\ BudgetInv => AttemptsBounded
  <2> SUFFICES ASSUME TypeOK, BudgetInv, NEW e \in Events
               PROVE  attempts[e] <= MaxSends
    BY DEF AttemptsBounded
  <2>1. Senders(e) \in SUBSET Claimers /\ attempts[e] \in Nat
    BY DEF Senders, TypeOK
  <2>2. QED
    BY <2>1, SendersFinite, OutboxAssumption DEF BudgetInv, MaxSends
<1>2. QED
  BY <1>1, TypeCorrect, BudgetInvAlways, PTL

(***************************************************************************)
(* Refinement of DeviceQueue, with everything switched on: no assumption   *)
(* on the janitor, on the appends or on the number of claimers.            *)
(***************************************************************************)
LEMMA QueueStep ==
  ASSUME TypeOK, RowInv, ClaimOwnsHead, BudgetInv', [Next]_vars
  PROVE  [Queue!QueueNext]_(Queue!queueVars)
<1> USE DEF TypeOK, rowVars, segVars, claimVars, ackVars, sweepVars,
          Queue!queueVars
<1>1. ASSUME NEW e \in Events, AppendStamp(e) \/ AppendStep(e)
      PROVE  \/ UNCHANGED <<status, attempts, head>>
             \/ Queue!Enqueue(e) \/ Queue!Link(e)
  <2>1. CASE AppendTx(e) \/ AppendInsert(e)
    BY <2>1 DEF AppendTx, AppendInsert, InsertRow, Upsert, RowInv, Queue!Enqueue
  <2>2. CASE AppendUpsert(e)
    BY <2>2 DEF AppendUpsert, Upsert, RowInv, Queue!Link, Queue!Queued
  <2>3. CASE AppendStamp(e) \/ AppendInterrupted(e)
    BY <2>3 DEF AppendStamp, AppendInterrupted
  <2>4. QED
    BY <1>1, <2>1, <2>2, <2>3 DEF AppendStep
<1>2. ASSUME NEW c \in Claimers, ClaimStep(c)
      PROVE  \/ UNCHANGED <<status, attempts, head>>
             \/ \E e \in Events : Queue!Send(e)
             \/ \E D \in SUBSET Events : Queue!Discard(D)
  <2>1. CASE ClaimDeliver(c)
    <3>1. PICK e \in Events : item[c].event = e /\ head = e /\ Present(e)
      BY <2>1 DEF ClaimDeliver, ClaimOwnsHead, RowInv
    <3>2. attempts'[e] = attempts[e] + 1
      BY <2>1, <3>1 DEF ClaimDeliver
    <3>3. Senders(e)' \in SUBSET Claimers
      BY DEF Senders
    <3>4. attempts'[e] + Cardinality(Senders(e)') <= MaxSends
      BY DEF BudgetInv, MaxSends
    <3>5. attempts[e] < MaxSends
      BY <3>1, <3>2, <3>3, <3>4, SendersFinite, OutboxAssumption DEF MaxSends
    <3>6. Queue!Send(e)
      BY <2>1, <3>1, <3>5
      DEF ClaimDeliver, Present, Live, Terminal, Queue!Send, Queue!Waiting, Queue!Ended
    <3>7. QED
      BY <3>1, <3>6
  <2>2. CASE ClaimDrop(c)
    <3>1. Queue!Discard(SegmentTail(item[c].createdAt))
      BY <2>2 DEF ClaimDrop, Drop, SegmentTail, Live, Queue!Discard, Queue!Waiting
    <3>2. SegmentTail(item[c].createdAt) \in SUBSET Events
      BY DEF SegmentTail
    <3>3. QED
      BY <3>1, <3>2
  <2>3. CASE ~ClaimDeliver(c) /\ ~ClaimDrop(c)
    BY <1>2, <2>3 DEF ClaimStep, ClaimNothing, ClaimScan, ClaimLock, ClaimSkip,
                      ClaimFail, Stop, vars
  <2>4. QED
    BY <2>1, <2>2, <2>3
<1>3. ASSUME NEW a \in Ackers, AckStep(a) \/ \E e \in Events : AckSelect(a, e)
      PROVE  \/ UNCHANGED <<status, attempts, head>>
             \/ \E e \in Events : Queue!Settle(e)
  <2>1. CASE AckAdvance(a) \/ AckClear(a)
    <3> DEFINE e == ack[a].event
    <3>1. e \in Events /\ status[e] # "absent"
      BY <2>1 DEF AckAdvance, AckClear, RowInv
    <3>2. status[e] \in Queue!Waiting \cup Queue!Ended \cup {"deleted"}
      BY <3>1 DEF Status, Live, Terminal, Queue!Waiting, Queue!Ended
    <3>3. /\ status' = [status EXCEPT ![e] = IF status[e] = "deleted"
                                            THEN status[e] ELSE "Acked"]
          /\ UNCHANGED attempts
      BY <2>1, <3>1, <3>2 DEF AckAdvance, AckClear, AckCommit, Present, Live, Terminal,
                              Queue!Waiting, Queue!Ended
    <3>4. head' \in {head, NULL} \cup (Queue!Queued \ {e})
      BY <2>1 DEF AckAdvance, AckClear, RowInv, Queue!Queued
    <3>5. Queue!Settle(e)
      BY <3>2, <3>3, <3>4 DEF Queue!Settle
    <3>6. QED
      BY <3>1, <3>5
  <2>2. CASE ~(AckAdvance(a) \/ AckClear(a))
    BY <1>3, <2>2 DEF AckStep, AckSelect, AckMark, AckReadHead, AckReadNext, AckAbort
  <2>3. QED
    BY <2>1, <2>2
<1>4. CASE JanitorStep
  <2>1. CASE JanitorDrop
    <3>1. Queue!Discard(SegmentTail(sweep.from))
      BY <2>1 DEF JanitorDrop, Drop, SegmentTail, Live, Queue!Discard, Queue!Waiting
    <3>2. SegmentTail(sweep.from) \in SUBSET Events
      BY DEF SegmentTail
    <3>3. QED
      BY <3>1, <3>2 DEF Queue!QueueNext
  <2>2. CASE JanitorClear
    <3>1. Queue!Discard({})
      BY <2>2 DEF JanitorClear, Queue!Discard
    <3>2. QED
      BY <3>1 DEF Queue!QueueNext
  <2>3. CASE JanitorPurge
    <3>1. PICK old \in SUBSET Events :
            /\ \A e \in old : status[e] \in Queue!Ended
            /\ status' = [e \in Events |-> IF e \in old THEN "deleted" ELSE status[e]]
      BY <2>3 DEF JanitorPurge, Purgeable, Queue!Ended
    <3>2. Queue!Purge(old)
      BY <2>3, <3>1 DEF JanitorPurge, Queue!Purge
    <3>3. QED
      BY <3>2 DEF Queue!QueueNext
  <2>4. CASE JanitorSelect
    BY <2>4 DEF JanitorSelect
  <2>5. QED
    BY <1>4, <2>1, <2>2, <2>3, <2>4 DEF JanitorStep
<1>5. CASE Crash \/ Tick \/ UNCHANGED vars
  BY <1>5 DEF Crash, Stop, Tick, vars
<1>6. QED
  BY <1>1, <1>2, <1>3, <1>4, <1>5 DEF Next, Queue!QueueNext

\* The outbox implements the abstract queue, whatever the constants: stale
\* claims, late upserts, sweeps and crashes included.
THEOREM ImplementsQueueAlways == Spec => ImplementsQueue
<1>1. Init => Queue!QueueInit
  BY DEF Init, Queue!QueueInit
<1>2. TypeOK /\ RowInv /\ ClaimOwnsHead /\ BudgetInv' /\ [Next]_vars =>
        [Queue!QueueNext]_(Queue!queueVars)
  BY QueueStep
<1>3. QED
  BY <1>1, <1>2, TypeCorrect, RowInvAlways, ClaimOwnsHeadAlways, BudgetInvAlways,
     PTL DEF Spec, ImplementsQueue, Queue!QueueSpec

=============================================================================
