---------------------------- MODULE PushNotifier ----------------------------
(***************************************************************************)
(* Mobile pushes for outbox events.  Every caller of DispatchOnce hands    *)
(* what it claimed to the notifier's bounded queue, without waiting; one   *)
(* goroutine empties the queue and sends to FCM.  A claim is reduced to    *)
(* the attempts it returns: the UPDATE ... RETURNING of ClaimPending hands *)
(* each attempt number of an event to one caller only, also when two       *)
(* callers claim the same event (see Outbox).                              *)
(***************************************************************************)
EXTENDS Naturals, Sequences

CONSTANTS
  Events,       \* events of one device
  Pushable,     \* the events MapOutboxEvent has an envelope for
  Callers,      \* callers of DispatchOnce
  QueueSize,    \* capacity of Notifier.queue
  MaxAttempts,  \* bound: claims of an event
  MaxCrashes,   \* bound: restarts of the server
  MaxChanges    \* bound: changes of the device's registration

ASSUME NotifierAssumption ==
  /\ Pushable \subseteq Events
  /\ QueueSize \in Nat \ {0}
  /\ MaxAttempts \in Nat /\ MaxCrashes \in Nat /\ MaxChanges \in Nat

VARIABLES
  attempts,  \* outbox.attempts
  handing,   \* each caller: what it has claimed and not yet handed over
  queue,     \* Notifier.queue
  worker,    \* Run: where process is
  current,   \* the event it works on
  device,    \* what LookupDevice finds for the device
  sent,      \* history: pushes FCM accepted, per event
  fate,      \* history: what became of the first attempt's push
  crashes, changes

pushVars == <<attempts, handing, queue, worker, current, device, sent, fate, crashes, changes>>

Claims == [event : Events, attempts : Nat]

\* Everything but "android" makes process skip the push: no row, is_enabled
\* false, an empty token, another platform.
Device == {"none", "disabled", "noToken", "other", "android"}

PushInit ==
  /\ attempts = [e \in Events |-> 0]
  /\ handing = [c \in Callers |-> {}]
  /\ queue = << >>
  /\ worker = "idle"
  /\ current = {}
  /\ device = "none"
  /\ sent = [e \in Events |-> 0]
  /\ fate = [e \in Events |-> "none"]
  /\ crashes = 0 /\ changes = 0

-----------------------------------------------------------------------------
\* ClaimPending returns the event with its new attempts.
Claim(c, e) ==
  /\ handing[c] = {}
  /\ attempts[e] < MaxAttempts
  /\ attempts' = [attempts EXCEPT ![e] = @ + 1]
  /\ handing' = [handing EXCEPT ![c] = {[event |-> e, attempts |-> attempts[e] + 1]}]
  /\ UNCHANGED <<queue, worker, current, device, sent, fate, crashes, changes>>

Settle(i, how) ==
  fate' = [fate EXCEPT ![i.event] = IF i.attempts = 1 THEN how ELSE @]

HasRoom == Len(queue) < QueueSize

\* select { case n.queue <- event: default: }
NotifyOutboxEvent(c) ==
  \E i \in handing[c] :
    /\ handing' = [handing EXCEPT ![c] = {}]
    /\ queue' = IF HasRoom THEN Append(queue, i) ELSE queue
    /\ Settle(i, IF HasRoom THEN "queued" ELSE "lost")
    /\ UNCHANGED <<attempts, worker, current, device, sent, crashes, changes>>

-----------------------------------------------------------------------------
Dequeue ==
  /\ worker = "idle" /\ queue # << >>
  /\ current' = {Head(queue)}
  /\ queue' = Tail(queue)
  /\ worker' = "map"
  /\ UNCHANGED <<attempts, handing, device, sent, fate, crashes, changes>>

\* Mutation: a second attempt is pushed as well.
IsRetryLate(i) == i.attempts > 2

IsRetry(i) == i.attempts > 1

\* Mutation: a failure ends Run.
ReturnEndsRun(i, how) ==
  /\ worker' = IF how = "failed" THEN "ended" ELSE "idle"
  /\ current' = {}
  /\ Settle(i, how)

\* process returns: back to the loop of Run.
Return(i, how) ==
  /\ worker' = "idle" /\ current' = {}
  /\ Settle(i, how)

MapOutboxEvent ==
  \E i \in current :
    /\ worker = "map"
    /\ IF IsRetry(i) \/ i.event \notin Pushable
         THEN Return(i, "skipped")
         ELSE worker' = "lookup" /\ UNCHANGED <<current, fate>>
    /\ UNCHANGED <<attempts, handing, queue, device, sent, crashes, changes>>

LookupDevice ==
  \E i \in current :
    /\ worker = "lookup"
    /\ IF device # "android"
         THEN Return(i, "skipped")
         ELSE worker' = "send" /\ UNCHANGED <<current, fate>>
    /\ UNCHANGED <<attempts, handing, queue, device, sent, crashes, changes>>

\* The SELECT fails, or FCM refuses or does not answer.
ProcessFails ==
  \E i \in current :
    /\ worker \in {"lookup", "send"}
    /\ Return(i, "failed")
    /\ UNCHANGED <<attempts, handing, queue, device, sent, crashes, changes>>

Send ==
  \E i \in current :
    /\ worker = "send"
    /\ sent' = [sent EXCEPT ![i.event] = @ + 1]
    /\ Return(i, "sent")
    /\ UNCHANGED <<attempts, handing, queue, device, crashes, changes>>

-----------------------------------------------------------------------------
\* RegisterDevicePushToken, RemoveDevice, DeleteAccount.
ChangeDevice(d) ==
  /\ changes < MaxChanges
  /\ changes' = changes + 1
  /\ device' = d
  /\ UNCHANGED <<attempts, handing, queue, worker, current, sent, fate, crashes>>

\* The queue is in memory only.
Crash ==
  /\ crashes < MaxCrashes
  /\ crashes' = crashes + 1
  /\ handing' = [c \in Callers |-> {}]
  /\ queue' = << >>
  /\ worker' = "idle" /\ current' = {}
  /\ fate' = [e \in Events |-> IF fate[e] = "queued" THEN "lost" ELSE fate[e]]
  /\ UNCHANGED <<attempts, device, sent, changes>>

Work == Dequeue \/ MapOutboxEvent \/ LookupDevice \/ ProcessFails \/ Send

PushNext ==
  \/ \E c \in Callers : NotifyOutboxEvent(c) \/ \E e \in Events : Claim(c, e)
  \/ Work
  \/ \E d \in Device : ChangeDevice(d)
  \/ Crash

PushSpec == PushInit /\ [][PushNext]_pushVars

\* Goroutines keep running; nothing is assumed of claims, devices or crashes.
PushFairSpec ==
  /\ PushSpec
  /\ \A c \in Callers : WF_pushVars(NotifyOutboxEvent(c))
  /\ WF_pushVars(Work)

-----------------------------------------------------------------------------
\* Every variable has its type, and the queue stays within its capacity.
PushTypeOK ==
  /\ attempts \in [Events -> Nat]
  /\ \A c \in Callers : handing[c] \subseteq Claims
  /\ queue \in Seq(Claims) /\ Len(queue) <= QueueSize
  /\ worker \in {"idle", "map", "lookup", "send"}
  /\ current \subseteq Claims
  /\ device \in Device
  /\ sent \in [Events -> Nat]
  /\ fate \in [Events -> {"none", "queued", "lost", "skipped", "failed", "sent"}]
  /\ crashes \in Nat /\ changes \in Nat

\* An event makes at most one push, however often it is claimed again, by
\* whichever callers, and across restarts (process: Attempts > 1 is skipped).
AtMostOnePush == \A e \in Events : sent[e] <= 1

\* A push can be lost to a full queue, a failure or a crash, but not silently
\* stuck: whatever was queued is dealt with, failures of other events
\* notwithstanding (Run goes on after process returns).
QueuedIsProcessed == \A e \in Events : fate[e] = "queued" ~> fate[e] # "queued"
=============================================================================
