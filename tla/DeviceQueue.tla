----------------------------- MODULE DeviceQueue -----------------------------
(***************************************************************************)
(* What one segment of a device's outbox promises, without statements,     *)
(* transactions, locks or clocks.  Each event is queued once; it is sent   *)
(* only from the front of the queue, and at most MaxSends times; the front *)
(* is only ever an event that was queued; an event is dropped only while   *)
(* it is waiting or out, purged only when it is acknowledged or dropped,   *)
(* and a purged one never comes back.                                      *)
(***************************************************************************)
EXTENDS Naturals

CONSTANTS Events, None, MaxSends

VARIABLES phase, sends, front

queueVars == <<phase, sends, front>>

Waiting == {"Pending", "InFlight"}
Ended == {"Acked", "Dropped"}

Queued == {e \in Events : phase[e] # "absent"}

QueueInit ==
  /\ phase = [e \in Events |-> "absent"]
  /\ sends = [e \in Events |-> 0]
  /\ front = None

\* The new event becomes the front of an empty queue, at once or later (Link).
Enqueue(e) ==
  /\ phase[e] = "absent"
  /\ phase' = [phase EXCEPT ![e] = "Pending"]
  /\ front' \in IF front = None THEN {None, e} ELSE {front}
  /\ UNCHANGED sends

Link(e) ==
  /\ front = None
  /\ e \in Queued
  /\ front' = e
  /\ UNCHANGED <<phase, sends>>

Send(e) ==
  /\ front = e
  /\ phase[e] \in Waiting \cup Ended
  /\ sends[e] < MaxSends
  /\ phase' = [phase EXCEPT ![e] = "InFlight"]
  /\ sends' = [sends EXCEPT ![e] = @ + 1]
  /\ UNCHANGED front

\* An acknowledgement.  A front that moves moves past the acknowledged event.
Settle(e) ==
  /\ phase[e] \in Waiting \cup Ended \cup {"deleted"}
  /\ phase' = [phase EXCEPT ![e] = IF @ = "deleted" THEN @ ELSE "Acked"]
  /\ front' \in {front, None} \cup (Queued \ {e})
  /\ UNCHANGED sends

\* The waiting events D are given up, with the front or without.
Discard(D) ==
  /\ \A e \in D : phase[e] \in Waiting
  /\ phase' = [e \in Events |-> IF e \in D THEN "Dropped" ELSE phase[e]]
  /\ front' \in {front, None}
  /\ UNCHANGED sends

Purge(D) ==
  /\ \A e \in D : phase[e] \in Ended
  /\ phase' = [e \in Events |-> IF e \in D THEN "deleted" ELSE phase[e]]
  /\ UNCHANGED <<sends, front>>

QueueNext ==
  \/ \E e \in Events : Enqueue(e) \/ Link(e) \/ Send(e) \/ Settle(e)
  \/ \E D \in SUBSET Events : Discard(D) \/ Purge(D)

QueueSpec == QueueInit /\ [][QueueNext]_queueVars
=============================================================================
