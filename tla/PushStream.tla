----------------------------- MODULE PushStream -----------------------------
(***************************************************************************)
(* How the connections of one device receive its events: the in-process    *)
(* event bus (subscribe, notify, unsubscribe), the push goroutine and the  *)
(* read loop of a WebSocket or TCP connection, and the dispatcher.  Both   *)
(* kinds of connection run the same code; handleWebSocket and HandleStream *)
(* differ in framing only.                                                 *)
(*                                                                         *)
(* The outbox is reduced to what a pull sees of it: an event is pending,   *)
(* in flight until some time, or acknowledged (its segments are modelled   *)
(* by Outbox).                                                             *)
(***************************************************************************)
EXTENDS Naturals, FiniteSets

CONSTANTS
  Conns,      \* connections of the device, each used once
  Events,     \* events queued for the device, numbered by created_at
  Notifiers,  \* goroutines that may be inside NotifyKey at once
  AckTimeout, \* the lease of an event in flight
  PullLimit,  \* how many events a ListInflight returns at most
  MaxTime,    \* bound: the clock stops here
  MayFail     \* TRUE iff connections may end and pulls may fail

ASSUME StreamAssumption ==
  /\ Events \subseteq Nat
  /\ AckTimeout \in Nat \ {0} /\ PullLimit \in Nat \ {0} /\ MaxTime \in Nat
  /\ MayFail \in BOOLEAN

VARIABLES
  state, until, now,  \* the outbox and the clock
  subs, chan,         \* Bus.subs for the device's key; the channels (capacity 1)
  npc, copy,          \* each notifier, and the channels it has still to send to
  rpc,                \* each connection's read loop
  push,               \* its push goroutine
  cancelled,          \* its context
  sent,               \* sentEvents: event -> inflight_until, 0 when not in the map
  pulled,             \* a pull in progress: what ListInflight returned, and when
  out,                \* packets the push goroutine is about to write
  received,           \* events some write brought to the client
  handed              \* history: packets made for the connection, and their lease

outboxVars == <<state, until, now>>
busVars == <<subs, chan, npc, copy>>
connVars == <<rpc, push, cancelled, sent, pulled, out, received, handed>>
vars == <<outboxVars, busVars, connVars>>

Never == [e \in Events |-> 0]
NoPull == [events |-> {}, lease |-> Never, t |-> 0]

Init ==
  /\ state = [e \in Events |-> "none"]
  /\ until = Never
  /\ now = 0
  /\ subs = {}
  /\ chan = [c \in Conns |-> "none"]
  /\ npc = [n \in Notifiers |-> "idle"]
  /\ copy = [n \in Notifiers |-> {}]
  /\ rpc = [c \in Conns |-> "new"]
  /\ push = [c \in Conns |-> "off"]
  /\ cancelled = [c \in Conns |-> FALSE]
  /\ sent = [c \in Conns |-> Never]
  /\ pulled = [c \in Conns |-> [batch |-> NoPull, push |-> NoPull]]
  /\ out = [c \in Conns |-> {}]
  /\ received = {}
  /\ handed = [c \in Conns |-> [e \in Events |-> [n |-> 0, lease |-> 0]]]

-----------------------------------------------------------------------------
(* The outbox as a pull sees it. *)
Claimable == {e \in Events : \/ state[e] = "pending"
                             \/ state[e] = "inflight" /\ until[e] <= now}

InFlight == {e \in Events : state[e] = "inflight"}

Lapsed == {e \in InFlight : until[e] <= now}

Leased == InFlight \ Lapsed

\* ListInflight: ORDER BY created_at LIMIT PullLimit.
Listed == {e \in Leased : Cardinality({f \in Leased : f < e}) < PullLimit}

Alive == \E n \in Notifiers : npc[n] # "dead"

Enqueue(e) ==
  /\ Alive
  /\ state[e] = "none"
  /\ state' = [state EXCEPT ![e] = "pending"]
  /\ UNCHANGED <<until, now, busVars, connVars>>

\* Mutation: nobody is notified.
DueForgotten(n) == npc[n] = "idle" /\ UNCHANGED busVars

\* A notifier that is about to call NotifyKey(deviceID).
Due(n) ==
  /\ npc[n] = "idle"
  /\ npc' = [npc EXCEPT ![n] = "due"]
  /\ UNCHANGED <<subs, chan, copy>>

\* inflight_until of a claim.
LeaseEnd == now + AckTimeout

\* DispatchOnce, by the dispatcher or by a pull that listed nothing: claim,
\* then NotifyKey for the device.
DispatchOnce(n) ==
  /\ Claimable # {}
  /\ state' = [e \in Events |-> IF e \in Claimable THEN "inflight" ELSE state[e]]
  /\ until' = [e \in Events |-> IF e \in Claimable THEN LeaseEnd ELSE until[e]]
  /\ Due(n)
  /\ UNCHANGED <<now, connVars>>

\* acknowledgeEvent: the client has the event; NotifyKey after the commit.
Acknowledge(e, n) ==
  /\ e \in received /\ state[e] = "inflight"
  /\ state' = [state EXCEPT ![e] = "acked"]
  /\ Due(n)
  /\ UNCHANGED <<until, now, connVars>>

Tick ==
  /\ now < MaxTime
  /\ now' = now + 1
  /\ UNCHANGED <<state, until, busVars, connVars>>

-----------------------------------------------------------------------------
(* Bus.NotifyKey: copy the channels under the lock, send after it. *)
NotifyCopy(n) ==
  /\ npc[n] = "due"
  /\ npc' = [npc EXCEPT ![n] = IF subs = {} THEN "idle" ELSE "send"]
  /\ copy' = [copy EXCEPT ![n] = subs]
  /\ UNCHANGED <<subs, chan, outboxVars, connVars>>

\* Mutation: make(chan struct{}), with no buffer.
DeliverUnbuffered(c) ==
  IF chan[c] = "empty" /\ push[c] = "wait" THEN "full" ELSE chan[c]

\* select { case ch <- struct{}{}: default: } on a channel of capacity 1.
Deliver(c) == IF chan[c] = "empty" THEN "full" ELSE chan[c]

NotifySend(n, c) ==
  /\ npc[n] = "send" /\ c \in copy[n]
  /\ chan[c] # "closed"
  /\ chan' = [chan EXCEPT ![c] = Deliver(c)]
  /\ copy' = [copy EXCEPT ![n] = @ \ {c}]
  /\ npc' = [npc EXCEPT ![n] = IF copy[n] = {c} THEN "idle" ELSE "send"]
  /\ UNCHANGED <<subs, outboxVars, connVars>>

\* A send on a closed channel panics, also in a select with a default: no
\* goroutine recovers, and the process ends with all its connections.
NotifyPanics(n, c) ==
  /\ npc[n] = "send" /\ c \in copy[n]
  /\ chan[c] = "closed"
  /\ npc' = [m \in Notifiers |-> "dead"]
  /\ copy' = [m \in Notifiers |-> {}]
  /\ subs' = {}
  /\ chan' = [d \in Conns |-> "none"]
  /\ rpc' = [d \in Conns |-> "ended"]
  /\ push' = [d \in Conns |-> "done"]
  /\ UNCHANGED <<outboxVars, cancelled, sent, pulled, out, received, handed>>

SubscribeKey(c) ==
  /\ subs' = subs \cup {c}
  /\ chan' = [chan EXCEPT ![c] = "empty"]
  /\ UNCHANGED <<npc, copy>>

Unsubscribe(c) ==
  /\ subs' = subs \ {c}
  /\ chan' = [chan EXCEPT ![c] = IF c \in subs THEN "closed" ELSE @]
  /\ UNCHANGED <<npc, copy>>

-----------------------------------------------------------------------------
(***************************************************************************)
(* pullOutboxPackets, run by the push goroutine and by handlePackets under *)
(* sentEventsMu: forget what has expired, list, skip what is in            *)
(* sentEvents, remember the rest.                                          *)
(***************************************************************************)
Holding(c) == push[c] = "listed" \/ rpc[c] = "listed"

Pull == [events |-> Listed, lease |-> until, t |-> now]

\* Mutation: sentEvents is not consulted.
PacketsAlways(c, p) == p.events

\* What a pull p sends on connection c.
Packets(c, p) == {e \in p.events : sent[c][e] <= p.t}

MarkSent(c, p) ==
  /\ sent' = [sent EXCEPT ![c] = [e \in Events |->
                IF e \in Packets(c, p) THEN p.lease[e]
                ELSE IF @[e] <= p.t THEN 0 ELSE @[e]]]
  /\ handed' = [handed EXCEPT ![c] = [e \in Events |->
                  IF e \in Packets(c, p) THEN [n |-> @[e].n + 1, lease |-> p.lease[e]]
                  ELSE @[e]]]

\* Mutation: the goroutine ends without its unsubscribe.
PushStopKeepsSub(c) ==
  /\ push' = [push EXCEPT ![c] = "done"]
  /\ UNCHANGED busVars

(* The push goroutine.  Its stop() runs once, from here or the read loop. *)
PushStop(c) ==
  /\ push' = [push EXCEPT ![c] = "done"]
  /\ Unsubscribe(c)

PushExit(c) ==
  /\ push[c] \in {"pull", "wait", "failed"} /\ cancelled[c]
  /\ PushStop(c)
  /\ UNCHANGED <<outboxVars, rpc, cancelled, sent, pulled, out, received, handed>>

\* The last ListInflight of a pull. The DispatchOnce of a pull that lists
\* nothing is an action of its own, and claims nothing when another claimer
\* holds the segments (SKIP LOCKED).
PushList(c) ==
  /\ push[c] = "pull" /\ ~cancelled[c]
  /\ ~Holding(c)
  /\ push' = [push EXCEPT ![c] = "listed"]
  /\ pulled' = [pulled EXCEPT ![c].push = Pull]
  /\ UNCHANGED <<outboxVars, busVars, rpc, cancelled, sent, out, received, handed>>

\* A statement of the pull fails: wait as if there were nothing to send.
PushListFails(c) ==
  /\ MayFail
  /\ push[c] = "pull" /\ ~Holding(c)
  /\ push' = [push EXCEPT ![c] = "failed"]
  /\ UNCHANGED <<outboxVars, busVars, rpc, cancelled, sent, pulled, out, received, handed>>

PushMark(c) ==
  LET p == pulled[c].push
  IN /\ push[c] = "listed"
     /\ MarkSent(c, p)
     /\ out' = [out EXCEPT ![c] = Packets(c, p)]
     /\ push' = [push EXCEPT ![c] = IF Packets(c, p) = {} THEN "wait" ELSE "write"]
     /\ pulled' = [pulled EXCEPT ![c].push = NoPull]
     /\ UNCHANGED <<outboxVars, busVars, rpc, cancelled, received>>

PushWrite(c) ==
  /\ push[c] = "write"
  /\ received' = received \cup out[c]
  /\ out' = [out EXCEPT ![c] = {}]
  /\ push' = [push EXCEPT ![c] = "pull"]
  /\ UNCHANGED <<outboxVars, busVars, rpc, cancelled, sent, pulled, handed>>

\* The write fails: cancel() the connection's context and stop.
PushWriteFails(c) ==
  /\ MayFail
  /\ push[c] = "write"
  /\ PushStop(c)
  /\ cancelled' = [cancelled EXCEPT ![c] = TRUE]
  /\ out' = [out EXCEPT ![c] = {}]
  /\ UNCHANGED <<outboxVars, rpc, sent, pulled, received, handed>>

PushWake(c) ==
  /\ push[c] \in {"wait", "failed"} /\ chan[c] = "full"
  /\ push' = [push EXCEPT ![c] = "pull"]
  /\ chan' = [chan EXCEPT ![c] = "empty"]
  /\ UNCHANGED <<outboxVars, subs, npc, copy, rpc, cancelled, sent, pulled,
                 out, received, handed>>

\* eventRedeliveryPollInterval
PushPoll(c) ==
  /\ push[c] \in {"wait", "failed"}
  /\ push' = [push EXCEPT ![c] = "pull"]
  /\ UNCHANGED <<outboxVars, busVars, rpc, cancelled, sent, pulled, out, received,
                 handed>>

-----------------------------------------------------------------------------
(***************************************************************************)
(* The read loop.  A batch of an authenticated connection pulls under the  *)
(* mutex, starts the push goroutine if there is none, and writes.  The     *)
(* response of a batch whose pull fails carries no events.                 *)
(***************************************************************************)
BatchList(c) ==
  /\ rpc[c] \in {"new", "open"}
  /\ ~Holding(c)
  /\ rpc' = [rpc EXCEPT ![c] = "listed"]
  /\ \/ ~cancelled[c] /\ pulled' = [pulled EXCEPT ![c].batch = Pull]
     \/ (cancelled[c] \/ MayFail) /\ pulled' = [pulled EXCEPT ![c].batch = NoPull]
  /\ UNCHANGED <<outboxVars, busVars, push, cancelled, sent, out, received, handed>>

StartPush(c) ==
  IF push[c] = "off"
    THEN push' = [push EXCEPT ![c] = "pull"] /\ SubscribeKey(c)
    ELSE UNCHANGED <<push, busVars>>

Batch(c) ==
  LET p == pulled[c].batch
  IN /\ rpc[c] = "listed"
     /\ MarkSent(c, p)
     /\ received' = received \cup Packets(c, p)
     /\ StartPush(c)
     /\ rpc' = [rpc EXCEPT ![c] = "open"]
     /\ pulled' = [pulled EXCEPT ![c].batch = NoPull]
     /\ UNCHANGED <<outboxVars, cancelled, out>>

\* Its response cannot be written; Close follows.
BatchFails(c) ==
  /\ MayFail
  /\ rpc[c] = "listed"
  /\ MarkSent(c, pulled[c].batch)
  /\ StartPush(c)
  /\ rpc' = [rpc EXCEPT ![c] = "broken"]
  /\ pulled' = [pulled EXCEPT ![c].batch = NoPull]
  /\ UNCHANGED <<outboxVars, cancelled, out, received>>

\* The read failed, or the write did: stopPush, return.
Close(c) ==
  /\ MayFail
  /\ rpc[c] \in {"open", "broken"}
  /\ rpc' = [rpc EXCEPT ![c] = "ended"]
  /\ cancelled' = [cancelled EXCEPT ![c] = TRUE]
  /\ Unsubscribe(c)
  /\ UNCHANGED <<outboxVars, push, sent, pulled, out, received, handed>>

-----------------------------------------------------------------------------
PushStep(c) ==
  \/ PushExit(c) \/ PushList(c) \/ PushListFails(c) \/ PushMark(c) \/ PushWrite(c)
  \/ PushWriteFails(c) \/ PushWake(c)

\* The rest of a batch that has pulled.
BatchStep(c) ==
  Batch(c) \/ BatchFails(c) \/ (rpc[c] = "broken" /\ Close(c))

NotifyStep(n) ==
  NotifyCopy(n) \/ \E c \in Conns : NotifySend(n, c) \/ NotifyPanics(n, c)

Next ==
  \/ \E e \in Events : Enqueue(e) \/ \E n \in Notifiers : Acknowledge(e, n)
  \/ \E n \in Notifiers : DispatchOnce(n) \/ NotifyStep(n)
  \/ \E c \in Conns :
       \/ PushStep(c) \/ PushPoll(c)
       \/ BatchList(c) \/ Batch(c) \/ BatchFails(c) \/ Close(c)
  \/ Tick

Spec == Init /\ [][Next]_vars

(***************************************************************************)
(* Goroutines keep running and the dispatcher's ticker keeps firing.  A    *)
(* sync.Mutex does not starve a waiter, so a push goroutine gets           *)
(* sentEventsMu however often the read loop takes it: strong fairness.  No *)
(* fairness for PushPoll: what is shown does not rest on the poll.         *)
(***************************************************************************)
Fairness ==
  /\ \A c \in Conns : SF_vars(PushStep(c)) /\ WF_vars(BatchStep(c))
  /\ \A n \in Notifiers : WF_vars(NotifyStep(n))
  /\ WF_vars(\E n \in Notifiers : DispatchOnce(n))

FairSpec == Spec /\ Fairness

-----------------------------------------------------------------------------
LeaseMap == [Events -> Nat]
PullType == [events : SUBSET Events, lease : LeaseMap, t : Nat]

\* Every variable holds a value of the field it stands for.
TypeOK ==
  /\ state \in [Events -> {"none", "pending", "inflight", "acked"}]
  /\ until \in LeaseMap /\ now \in Nat
  /\ subs \subseteq Conns
  /\ chan \in [Conns -> {"none", "empty", "full", "closed"}]
  /\ npc \in [Notifiers -> {"idle", "due", "send", "dead"}]
  /\ copy \in [Notifiers -> SUBSET Conns]
  /\ rpc \in [Conns -> {"new", "listed", "open", "broken", "ended"}]
  /\ push \in [Conns -> {"off", "pull", "listed", "write", "wait", "failed",
                        "done"}]
  /\ cancelled \in [Conns -> BOOLEAN]
  /\ sent \in [Conns -> LeaseMap]
  /\ pulled \in [Conns -> [batch : PullType, push : PullType]]
  /\ out \in [Conns -> SUBSET Events]
  /\ received \subseteq Events
  /\ handed \in [Conns -> [Events -> [n : Nat, lease : Nat]]]

\* No lost wake-up: when a push goroutine sleeps with no signal in its channel
\* and none on the way, every event that a pull would list has been handed to
\* its connection, unless a lease has run out, so that a claim, and with it a
\* signal, is due.  A claim that commits between the goroutine's pull and its
\* wait leaves a token (the channel's capacity of 1 in SubscribeKey), and so
\* does the acknowledgement that lets an event past the LIMIT be listed.
NoLostWakeup ==
  \A c \in Conns :
    /\ push[c] = "wait" /\ chan[c] = "empty"
    /\ \A n \in Notifiers : npc[n] # "due" /\ c \notin copy[n]
    /\ Lapsed = {}
    => \A e \in Listed : sent[c][e] = until[e]

\* The read loop and the push goroutine of a connection never both send an
\* event under one lease: a packet for it is made again only after the lease
\* it was last sent under has run out (sentEvents, sentEventsMu).
OncePerLease ==
  [][\A c \in Conns, e \in Events :
       handed'[c][e].n > handed[c][e].n => handed[c][e].lease <= now]_vars

\* A connection that is gone keeps no subscription: whichever of its two
\* goroutines notices first, stop() has removed and closed its channel.
NoLeakedSubscription ==
  \A c \in Conns :
    rpc[c] = "ended" \/ push[c] = "done" => c \notin subs /\ chan[c] # "full"

\* The bus alone, without the one-second poll, brings a queued event to a
\* device with a running push goroutine: unless the device for ever leaves more
\* events unacknowledged than a pull lists, the event is received, or that
\* goroutine meets an error or ends.
Running(c) == push[c] \in {"pull", "listed", "write", "wait"} /\ ~cancelled[c]

Crowded == Cardinality(InFlight) > PullLimit

DeliveredWithoutPolling ==
  <>[](~Crowded) =>
    \A e \in Events, c \in Conns :
      state[e] = "pending" /\ Running(c) ~> e \in received \/ ~Running(c)

\* Notifying is best effort: it never takes the process down (NotifyKey).
NotifyNeverPanics == Alive

=============================================================================
