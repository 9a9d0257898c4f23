------------------------------ MODULE EventLog ------------------------------
(***************************************************************************)
(* The log of one user's events (user_events) that a connection reads when *)
(* the handler has no outbox: PullEvents lists the oldest events that are  *)
(* due and marks them delivered in a transaction of its own, and           *)
(* acknowledgeEvent deletes one.  The user's connections pull at once, and *)
(* an answer may be lost with its connection.                              *)
(*                                                                         *)
(* Time is left to the environment: an event that was marked is due again  *)
(* once its cooldown is over, and at some time it expires.  Nothing calls  *)
(* DeleteExpired, so an expired row stays.                                 *)
(***************************************************************************)
EXTENDS Naturals, FiniteSets

CONSTANTS
  Log,        \* event ids in the order of created_at
  Pullers,    \* the user's connections
  PullLimit,  \* Config.EventBatchSize
  MaxLosses   \* bound: pulls that fail and answers that are lost

ASSUME EventLogAssumption ==
  Log \subseteq Nat /\ PullLimit \in Nat \ {0} /\ MaxLosses \in Nat

VARIABLES
  rows,      \* user_events
  due,       \* delivered_at is NULL or before the cooldown
  expired,   \* expires_at has passed
  pull,      \* each connection: its step and the events it listed
  received,  \* events a client has got
  acked,     \* history: events that were acknowledged
  losses

logVars == <<rows, due, expired, pull, received, acked, losses>>

NoPull == [step |-> "idle", events |-> {}]

LogInit ==
  /\ rows = {} /\ due = Log /\ expired = {}
  /\ pull = [p \in Pullers |-> NoPull]
  /\ received = {} /\ acked = {}
  /\ losses = 0

\* Event e is logged, after events with a later created_at or before them.
AppendLog(e) ==
  /\ e \notin rows \cup acked
  /\ rows' = rows \cup {e}
  /\ UNCHANGED <<due, expired, pull, received, acked, losses>>

-----------------------------------------------------------------------------
(* PullEvents *)

Pending == {e \in rows \cap due : e \notin expired}

\* ORDER BY created_at ASC LIMIT
ListPending == {e \in Pending : Cardinality({f \in Pending : f < e}) < PullLimit}

\* The SELECT; with nothing to list the pull is over.
PullEvents(p) ==
  /\ pull[p].step = "idle" /\ ListPending # {}
  /\ pull' = [pull EXCEPT ![p] = [step |-> "mark", events |-> ListPending]]
  /\ UNCHANGED <<rows, due, expired, received, acked, losses>>

\* Mutation: delivered events are deleted.
MarkDeliveredDeletes(p) ==
  /\ pull[p].step = "mark"
  /\ rows' = rows \ pull[p].events
  /\ pull' = [pull EXCEPT ![p].step = "answer"]
  /\ UNCHANGED <<due, expired, received, acked, losses>>

\* The transaction; an event that was acknowledged since has no row to update.
MarkDelivered(p) ==
  /\ pull[p].step = "mark"
  /\ due' = due \ (pull[p].events \cap rows)
  /\ pull' = [pull EXCEPT ![p].step = "answer"]
  /\ UNCHANGED <<rows, expired, received, acked, losses>>

\* The events follow the responses of the batch.
AnswerEvents(p) ==
  /\ pull[p].step = "answer"
  /\ received' = received \cup pull[p].events
  /\ pull' = [pull EXCEPT ![p] = NoPull]
  /\ UNCHANGED <<rows, due, expired, acked, losses>>

\* The UPDATE fails, and no event is answered; or the connection ends with the
\* answer.
PullLost(p) ==
  /\ pull[p].step \in {"mark", "answer"}
  /\ losses < MaxLosses
  /\ losses' = losses + 1
  /\ pull' = [pull EXCEPT ![p] = NoPull]
  /\ UNCHANGED <<rows, due, expired, received, acked>>

-----------------------------------------------------------------------------
\* acknowledgeEvent of a client that has got the event.
AcknowledgeEvent(e) ==
  /\ e \in received \cap rows
  /\ rows' = rows \ {e} /\ acked' = acked \cup {e}
  /\ UNCHANGED <<due, expired, pull, received, losses>>

\* The redelivery cooldown of e is over.
CoolDown(e) ==
  /\ e \in rows \ due
  /\ due' = due \cup {e}
  /\ UNCHANGED <<rows, expired, pull, received, acked, losses>>

Expire(e) ==
  /\ e \in rows \ expired
  /\ expired' = expired \cup {e}
  /\ UNCHANGED <<rows, due, pull, received, acked, losses>>

PullStep(p) == PullEvents(p) \/ MarkDelivered(p) \/ AnswerEvents(p)

LogNext ==
  \/ \E p \in Pullers : PullStep(p) \/ PullLost(p)
  \/ \E e \in Log : AppendLog(e) \/ AcknowledgeEvent(e) \/ CoolDown(e) \/ Expire(e)

LogSpec == LogInit /\ [][LogNext]_logVars

\* Clients go on calling and acknowledge what they got; time passes.  Nothing is
\* assumed of appends and of expiry.
LogFairSpec ==
  /\ LogSpec
  /\ \A p \in Pullers : WF_logVars(PullStep(p))
  /\ \A e \in Log : WF_logVars(AcknowledgeEvent(e)) /\ WF_logVars(CoolDown(e))

-----------------------------------------------------------------------------
\* The tables and the pulls have their types, and a pull is within its limit.
LogTypeOK ==
  /\ rows \cup due \cup expired \cup received \cup acked \subseteq Log
  /\ pull \in [Pullers -> [step : {"idle", "mark", "answer"}, events : SUBSET Log]]
  /\ \A p \in Pullers : Cardinality(pull[p].events) <= PullLimit
  /\ losses \in Nat

\* Every logged event reaches a client or expires, although answers are lost, pulls
\* overlap, and a pull takes only the oldest events: acknowledging those, and the
\* cooldown of what was lost, let the others through (PullEvents).
LoggedIsReceived == \A e \in Log : e \in rows ~> e \in received \cup expired
=============================================================================
