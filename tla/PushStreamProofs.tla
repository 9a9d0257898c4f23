-------------------------- MODULE PushStreamProofs --------------------------
(***************************************************************************)
(* Proofs about PushStream, for any number of connections, events and      *)
(* notifiers, any LIMIT of a pull, length of lease and bound of the clock.  *)
(***************************************************************************)
EXTENDS PushStream, TLAPS

-----------------------------------------------------------------------------
(* The inductive invariant *)

\* The channels of the subscriptions are the open ones, and a connection that is
\* gone has none.
BusOK ==
  /\ \A c \in Conns : c \in subs <=> chan[c] \in {"empty", "full"}
  /\ \A c \in Conns : rpc[c] = "ended" \/ push[c] = "done" => c \notin subs

\* sentEventsMu: the read loop and the push goroutine do not pull at once.
OneHolder == \A c \in Conns : ~(push[c] = "listed" /\ rpc[c] = "listed")

\* An event that was never claimed has no lease.
UnclaimedOK == \A e \in Events : state[e] \in {"none", "pending"} => until[e] = 0

\* A lease t of e that was read earlier: it is the present one, or it has ended.
Known(t, e) == t <= until[e] /\ (t > now => t = until[e])

\* What a pull in progress has read is of the past, and what sentEvents held then
\* were leases of the time.
PullOK(c, p) ==
  /\ p.t <= now
  /\ \A e \in p.events : p.t < p.lease[e] /\ Known(p.lease[e], e)

PullsOK ==
  \A c \in Conns :
    /\ PullOK(c, pulled[c].batch) /\ PullOK(c, pulled[c].push)
    /\ push[c] = "listed" =>
         \A e \in pulled[c].push.events :
           sent[c][e] > pulled[c].push.t => sent[c][e] = pulled[c].push.lease[e]

\* sentEvents holds leases, and the lease of the last packet until it has ended.
SentOK ==
  \A c \in Conns, e \in Events :
    /\ Known(sent[c][e], e)
    /\ handed[c][e].lease \in {sent[c][e]} \cup 0..now

\* A signal for connection c is in its channel or on the way.
Signalled(c) ==
  chan[c] = "full" \/ \E n \in Notifiers : npc[n] = "due" \/ c \in copy[n]

\* Until it is signalled, what a goroutine has listed is all that a pull would list,
\* and one that waits has sent it, as long as no lease has run out.
WakeupOK ==
  \A c \in Conns : chan[c] = "empty" /\ ~Signalled(c) /\ Lapsed = {} =>
    /\ push[c] = "listed" =>
         \A e \in Listed : e \in pulled[c].push.events /\ pulled[c].push.lease[e] = until[e]
    /\ push[c] = "wait" => \A e \in Listed : sent[c][e] = until[e]

StreamInv ==
  TypeOK /\ BusOK /\ OneHolder /\ UnclaimedOK /\ PullsOK /\ SentOK /\ WakeupOK

-----------------------------------------------------------------------------
(* The operators *)

\* What a pull lists is under a lease.
LEMMA ListedIsLeased ==
  ASSUME TypeOK
  PROVE  \A e \in Listed : e \in Events /\ now < until[e]
BY DEF TypeOK, LeaseMap, Listed, Leased, InFlight, Lapsed

\* It depends on the outbox and the clock alone.
LEMMA SameListed ==
  ASSUME UNCHANGED outboxVars
  PROVE  Listed' = Listed /\ Lapsed' = Lapsed
<1>1. InFlight' = InFlight /\ Lapsed' = Lapsed
  BY DEF outboxVars, InFlight, Lapsed
<1>2. Leased' = Leased
  BY <1>1 DEF Leased
<1> QED BY <1>1, <1>2 DEF Listed

\* What a pull has read has its type.
LEMMA PullTyped ==
  ASSUME TypeOK, NEW c \in Conns
  PROVE  /\ Pull \in PullType /\ NoPull \in PullType
         /\ pulled[c] \in [batch : PullType, push : PullType]
         /\ pulled[c].batch \in PullType /\ pulled[c].push \in PullType
<1>1. Listed \subseteq Events /\ until \in LeaseMap /\ now \in Nat /\ Never \in LeaseMap
  BY ListedIsLeased DEF TypeOK, Never, LeaseMap
<1>2. Pull \in PullType /\ NoPull \in PullType
  BY <1>1 DEF Pull, NoPull, PullType
<1> QED BY <1>2 DEF TypeOK

\* What pullOutboxPackets does to sentEvents, an entry at a time.
LEMMA MarkSentFacts ==
  ASSUME TypeOK, NEW c \in Conns, NEW p \in PullType, MarkSent(c, p)
  PROVE  /\ sent' \in [Conns -> LeaseMap]
         /\ handed' \in [Conns -> [Events -> [n : Nat, lease : Nat]]]
         /\ \A d \in Conns \ {c} : sent'[d] = sent[d] /\ handed'[d] = handed[d]
         /\ \A e \in Events :
              /\ sent'[c][e] = IF e \in Packets(c, p) THEN p.lease[e]
                               ELSE IF sent[c][e] <= p.t THEN 0 ELSE sent[c][e]
              /\ e \in Packets(c, p) => handed'[c][e].lease = p.lease[e]
              /\ e \notin Packets(c, p) => handed'[c][e] = handed[c][e]
<1> DEFINE S == [e \in Events |-> IF e \in Packets(c, p) THEN p.lease[e]
                                  ELSE IF sent[c][e] <= p.t THEN 0 ELSE sent[c][e]]
           H == [e \in Events |-> IF e \in Packets(c, p)
                                    THEN [n |-> handed[c][e].n + 1, lease |-> p.lease[e]]
                                    ELSE handed[c][e]]
<1>1. sent' = [sent EXCEPT ![c] = S] /\ handed' = [handed EXCEPT ![c] = H]
  BY DEF MarkSent
<1>2. sent[c] \in LeaseMap /\ handed[c] \in [Events -> [n : Nat, lease : Nat]]
  BY DEF TypeOK
<1>3. p.lease \in LeaseMap
  BY DEF PullType
<1>4. S \in LeaseMap
  BY <1>2, <1>3 DEF LeaseMap
<1>5. H \in [Events -> [n : Nat, lease : Nat]]
  BY <1>2, <1>3 DEF LeaseMap
<1>6. sent \in [Conns -> LeaseMap] /\ handed \in [Conns -> [Events -> [n : Nat, lease : Nat]]]
  BY DEF TypeOK
<1>7. sent' \in [Conns -> LeaseMap] /\ sent'[c] = S
  BY <1>1, <1>4, <1>6
<1>8. handed' \in [Conns -> [Events -> [n : Nat, lease : Nat]]] /\ handed'[c] = H
  BY <1>1, <1>5, <1>6
<1>9. \A d \in Conns \ {c} : sent'[d] = sent[d] /\ handed'[d] = handed[d]
  BY <1>1, <1>6
<1> QED BY <1>7, <1>8, <1>9

\* A pull in progress that is marked as sent keeps what is known of the leases.
LEMMA MarkKeepsSentOK ==
  ASSUME TypeOK, SentOK, NEW c \in Conns, NEW p \in PullType, PullOK(c, p),
         MarkSent(c, p), UNCHANGED outboxVars
  PROVE  SentOK'
<1> USE DEF outboxVars
<1>1. now \in Nat /\ until \in LeaseMap /\ p.t \in Nat /\ p.lease \in LeaseMap /\ p.events \subseteq Events
  BY DEF TypeOK, PullType
<1>2. /\ \A d \in Conns \ {c} : sent'[d] = sent[d] /\ handed'[d] = handed[d]
      /\ \A e \in Events :
           /\ sent'[c][e] = IF e \in Packets(c, p) THEN p.lease[e]
                            ELSE IF sent[c][e] <= p.t THEN 0 ELSE sent[c][e]
           /\ e \in Packets(c, p) => handed'[c][e].lease = p.lease[e]
           /\ e \notin Packets(c, p) => handed'[c][e] = handed[c][e]
  BY MarkSentFacts
<1>3. ASSUME NEW d \in Conns, NEW e \in Events, d # c
      PROVE  Known(sent[d][e], e)' /\ handed'[d][e].lease \in {sent'[d][e]} \cup 0..now'
  BY <1>2, <1>3 DEF SentOK, Known
<1>4. ASSUME NEW e \in Events
      PROVE  Known(sent[c][e], e)' /\ handed'[c][e].lease \in {sent'[c][e]} \cup 0..now'
  <2>1. CASE e \in Packets(c, p)
    <3>1. e \in p.events
      BY <2>1 DEF Packets
    <3>2. sent'[c][e] = p.lease[e] /\ handed'[c][e].lease = p.lease[e]
      BY <1>2, <2>1
    <3> QED BY <3>1, <3>2 DEF PullOK, Known
  <2>2. CASE e \notin Packets(c, p)
    <3>1. /\ handed'[c][e] = handed[c][e]
          /\ sent'[c][e] = IF sent[c][e] <= p.t THEN 0 ELSE sent[c][e]
      BY <1>2, <2>2
    <3>2. sent[c][e] \in Nat /\ until[e] \in Nat /\ handed[c][e].lease \in Nat
      BY DEF TypeOK, LeaseMap
    <3>3. p.t <= now
      BY DEF PullOK
    <3>4. Known(sent[c][e], e) /\ handed[c][e].lease \in {sent[c][e]} \cup 0..now
      BY DEF SentOK
    <3> QED BY <1>1, <3>1, <3>2, <3>3, <3>4 DEF Known
  <2> QED BY <2>1, <2>2
<1> QED BY <1>3, <1>4 DEF SentOK

-----------------------------------------------------------------------------
(* The outbox and the clock *)

\* A step of the outbox: leases change when they have ended, and with a signal on the
\* way a step may do as it likes with what a pull lists.
LEMMA OutboxKeepsInv ==
  ASSUME StreamInv, TypeOK', UNCHANGED <<subs, chan, copy, connVars>>,
         now <= now',
         \A e \in Events : until'[e] = until[e] \/ (until[e] <= now /\ now' < until'[e]),
         UnclaimedOK',
         \A n \in Notifiers : npc[n] = "due" => npc'[n] = "due",
         \/ \E n \in Notifiers : npc'[n] = "due"
         \/ Lapsed' = {} =>
              /\ Lapsed = {}
              /\ \A e \in Listed' : e \in Listed /\ until'[e] = until[e]
  PROVE  StreamInv'
<1> USE DEF connVars
<1>1. /\ now \in Nat /\ now' \in Nat
      /\ \A e \in Events : until[e] \in Nat /\ until'[e] \in Nat
  BY DEF StreamInv, TypeOK, LeaseMap
<1>2. ASSUME NEW e \in Events, NEW t \in Nat, Known(t, e)
      PROVE  t <= until'[e] /\ (t > now' => t = until'[e])
  BY <1>1, <1>2 DEF Known
<1>3. BusOK' /\ OneHolder'
  BY DEF StreamInv, BusOK, OneHolder
<1>4. SentOK'
  <2> SUFFICES ASSUME NEW c \in Conns, NEW e \in Events
               PROVE  Known(sent[c][e], e)' /\ handed'[c][e].lease \in {sent'[c][e]} \cup 0..now'
    BY DEF SentOK
  <2>1. sent[c][e] \in Nat /\ handed[c][e].lease \in Nat
    BY DEF StreamInv, TypeOK, LeaseMap
  <2>2. Known(sent[c][e], e) /\ handed[c][e].lease \in {sent[c][e]} \cup 0..now
    BY DEF StreamInv, SentOK
  <2> QED BY <1>1, <1>2, <2>1, <2>2 DEF Known
<1>5. PullsOK'
  <2>1. ASSUME NEW c \in Conns, NEW p \in PullType, PullOK(c, p)
        PROVE  p.t <= now' /\ \A e \in p.events : p.t < p.lease[e] /\ p.lease[e] <= until'[e]
                 /\ (p.lease[e] > now' => p.lease[e] = until'[e])
    <3>1. p.t \in Nat /\ p.events \subseteq Events /\ p.lease \in [Events -> Nat]
      BY DEF PullType, LeaseMap
    <3> QED BY <1>1, <1>2, <2>1, <3>1 DEF PullOK
  <2>2. ASSUME NEW c \in Conns
        PROVE  /\ PullOK(c, pulled[c].batch)' /\ PullOK(c, pulled[c].push)'
    <3>1. pulled[c].batch \in PullType /\ pulled[c].push \in PullType
      BY PullTyped DEF StreamInv
    <3>2. PullOK(c, pulled[c].batch) /\ PullOK(c, pulled[c].push)
      BY DEF StreamInv, PullsOK
    <3> QED BY <2>1, <3>1, <3>2 DEF PullOK, Known
  <2> QED BY <2>2 DEF PullsOK, StreamInv
<1>6. WakeupOK'
  <2>1. CASE \E n \in Notifiers : npc'[n] = "due"
    BY <2>1 DEF WakeupOK, Signalled
  <2>2. CASE Lapsed' = {} => /\ Lapsed = {}
                             /\ \A e \in Listed' : e \in Listed /\ until'[e] = until[e]
    <3> SUFFICES ASSUME NEW c \in Conns, chan'[c] = "empty", ~Signalled(c)', Lapsed' = {},
                        NEW e \in Listed'
                 PROVE  /\ push'[c] = "listed" => /\ e \in pulled'[c].push.events
                                                  /\ pulled'[c].push.lease[e] = until'[e]
                        /\ push'[c] = "wait" => sent'[c][e] = until'[e]
      BY DEF WakeupOK
    <3>1. chan[c] = "empty" /\ ~Signalled(c)
      BY DEF Signalled
    <3>2. Lapsed = {} /\ e \in Listed /\ until'[e] = until[e]
      BY <2>2
    <3> QED BY <3>1, <3>2 DEF StreamInv, WakeupOK
  <2> QED BY <2>1, <2>2
<1> QED BY <1>3, <1>4, <1>5, <1>6 DEF StreamInv

LEMMA EnqueueKeepsInv ==
  ASSUME StreamInv, NEW e \in Events, Enqueue(e)
  PROVE  StreamInv'
<1> USE DEF Enqueue, busVars, connVars, StreamInv
<1>1. TypeOK'
  BY DEF TypeOK
<1>2. now <= now'
  BY DEF TypeOK
<1>3. Lapsed' = Lapsed /\ Leased' = Leased
  BY DEF TypeOK, InFlight, Lapsed, Leased
<1>4. Listed' = Listed
  BY <1>3 DEF Listed
<1> QED BY <1>1, <1>2, <1>3, <1>4, OutboxKeepsInv DEF TypeOK, UnclaimedOK

LEMMA TickKeepsInv ==
  ASSUME StreamInv, Tick
  PROVE  StreamInv'
<1> USE DEF Tick, busVars, connVars, StreamInv
<1>1. TypeOK'
  BY DEF TypeOK
<1>2. now <= now'
  BY DEF TypeOK
<1>3. Lapsed' = {} => Lapsed = {} /\ Leased' = Leased
  BY <1>2 DEF TypeOK, InFlight, Lapsed, Leased, LeaseMap
<1>4. Lapsed' = {} => Listed' = Listed
  BY <1>3 DEF Listed
<1> QED BY <1>1, <1>2, <1>3, <1>4, OutboxKeepsInv DEF UnclaimedOK

LEMMA AcknowledgeKeepsInv ==
  ASSUME StreamInv, NEW e \in Events, NEW n \in Notifiers, Acknowledge(e, n)
  PROVE  StreamInv'
<1> USE DEF Acknowledge, Due, connVars, StreamInv
<1>1. TypeOK'
  BY DEF TypeOK
<1>2. now <= now'
  BY DEF TypeOK
<1>3. npc'[n] = "due"
  BY DEF TypeOK
<1> QED BY <1>1, <1>2, <1>3, OutboxKeepsInv DEF TypeOK, UnclaimedOK

LEMMA DispatchKeepsInv ==
  ASSUME StreamInv, NEW n \in Notifiers, DispatchOnce(n)
  PROVE  StreamInv'
<1> USE DEF DispatchOnce, Due, connVars, StreamInv
<1>1. LeaseEnd \in Nat /\ LeaseEnd > now /\ now \in Nat
  BY StreamAssumption DEF TypeOK, LeaseEnd
<1>2. TypeOK'
  BY <1>1 DEF TypeOK, LeaseMap
<1>3. \A e \in Events : until'[e] = until[e] \/ (until[e] <= now /\ now' < until'[e])
  BY <1>1 DEF Claimable, UnclaimedOK, TypeOK
<1>4. UnclaimedOK'
  BY DEF UnclaimedOK, TypeOK
<1>5. npc'[n] = "due" /\ \A m \in Notifiers : npc[m] = "due" => npc'[m] = "due"
  BY DEF TypeOK
<1> QED BY <1>1, <1>2, <1>3, <1>4, <1>5, OutboxKeepsInv

-----------------------------------------------------------------------------
(* The bus *)

\* A step of NotifyKey loses no signal for a channel that stays empty.
LEMMA NotifyKeepsInv ==
  ASSUME StreamInv, TypeOK', BusOK', UNCHANGED <<outboxVars, connVars>>,
         \A c \in Conns : chan'[c] = "empty" =>
           chan[c] = "empty" /\ (Signalled(c) => Signalled(c)')
  PROVE  StreamInv'
<1> USE DEF outboxVars, connVars, StreamInv
<1>1. OneHolder' /\ UnclaimedOK'
  BY DEF OneHolder, UnclaimedOK
<1>2. PullsOK' /\ SentOK'
  BY DEF PullsOK, SentOK, PullOK, Known
<1>3. WakeupOK'
  BY SameListed DEF WakeupOK
<1> QED BY <1>1, <1>2, <1>3

LEMMA NotifyCopyKeepsInv ==
  ASSUME StreamInv, NEW n \in Notifiers, NotifyCopy(n)
  PROVE  StreamInv'
<1> USE DEF NotifyCopy, StreamInv
<1>1. TypeOK'
  BY DEF TypeOK, outboxVars, connVars
<1>2. BusOK'
  BY DEF BusOK, outboxVars, connVars
<1>3. ASSUME NEW c \in Conns, chan'[c] = "empty"
      PROVE  chan[c] = "empty" /\ (Signalled(c) => Signalled(c)')
  <2>1. c \in copy'[n] /\ chan[c] = "empty"
    BY <1>3 DEF BusOK, TypeOK
  <2> QED BY <2>1 DEF Signalled
<1> QED BY <1>1, <1>2, <1>3, NotifyKeepsInv

LEMMA NotifySendKeepsInv ==
  ASSUME StreamInv, NEW n \in Notifiers, NEW c \in Conns, NotifySend(n, c)
  PROVE  StreamInv'
<1> USE DEF NotifySend, StreamInv
<1>1. chan'[c] \in {"none", "full"} /\ (chan'[c] = "full" <=> chan[c] \in {"empty", "full"})
  BY DEF TypeOK, Deliver
<1>2. \A d \in Conns \ {c} : chan'[d] = chan[d]
  BY DEF TypeOK
<1>3. TypeOK'
  <2>1. Deliver(c) \in {"none", "empty", "full", "closed"}
    BY DEF TypeOK, Deliver
  <2> QED BY <2>1 DEF TypeOK, outboxVars, connVars
<1>4. BusOK'
  BY <1>1, <1>2 DEF BusOK, TypeOK, outboxVars, connVars
<1>5. ASSUME NEW d \in Conns, chan'[d] = "empty"
      PROVE  chan[d] = "empty" /\ (Signalled(d) => Signalled(d)')
  <2>1. d # c /\ chan[d] = "empty"
    BY <1>1, <1>2, <1>5
  <2>2. /\ \A m \in Notifiers : d \in copy[m] => d \in copy'[m]
        /\ \A m \in Notifiers : npc[m] = "due" => npc'[m] = "due"
    BY <2>1 DEF TypeOK
  <2> QED BY <2>1, <2>2 DEF Signalled
<1> QED BY <1>3, <1>4, <1>5, NotifyKeepsInv

LEMMA NotifyPanicsKeepsInv ==
  ASSUME StreamInv, NEW n \in Notifiers, NEW c \in Conns, NotifyPanics(n, c)
  PROVE  StreamInv'
<1> USE DEF NotifyPanics, StreamInv, outboxVars
<1>1. TypeOK'
  BY DEF TypeOK
<1>2. BusOK' /\ OneHolder' /\ UnclaimedOK' /\ WakeupOK'
  BY DEF BusOK, OneHolder, UnclaimedOK, WakeupOK
<1>3. PullsOK' /\ SentOK'
  BY DEF PullsOK, SentOK, PullOK, Known
<1> QED BY <1>1, <1>2, <1>3

-----------------------------------------------------------------------------
(* The push goroutine *)

\* stop(), from either goroutine of the connection.
LEMMA StopKeepsInv ==
  ASSUME StreamInv, TypeOK', NEW c \in Conns, Unsubscribe(c),
         UNCHANGED <<outboxVars, sent, pulled, handed>>,
         \A d \in Conns \ {c} : push'[d] = push[d] /\ rpc'[d] = rpc[d],
         push'[c] \in {push[c], "done"}, rpc'[c] \in {rpc[c], "ended"}
  PROVE  StreamInv'
<1> USE DEF StreamInv, outboxVars
<1>1. /\ subs' = subs \ {c} /\ chan'[c] \in {"none", "closed"}
      /\ \A d \in Conns \ {c} : chan'[d] = chan[d]
      /\ UNCHANGED <<npc, copy>>
  BY DEF Unsubscribe, BusOK, TypeOK
<1>2. BusOK' /\ OneHolder' /\ UnclaimedOK'
  BY <1>1 DEF BusOK, OneHolder, UnclaimedOK
<1>3. PullsOK' /\ SentOK'
  BY DEF PullsOK, SentOK, PullOK, Known
<1>4. WakeupOK'
  BY <1>1, SameListed DEF WakeupOK, Signalled
<1> QED BY <1>2, <1>3, <1>4

LEMMA StopsKeepInv ==
  ASSUME StreamInv, NEW c \in Conns, PushExit(c) \/ PushWriteFails(c) \/ Close(c)
  PROVE  StreamInv'
<1> USE DEF PushExit, PushWriteFails, Close, PushStop
<1>1. Unsubscribe(c)
  OBVIOUS
<1>2. chan' \in [Conns -> {"none", "empty", "full", "closed"}]
  <2>1. \A x : x \in {"none", "empty", "full", "closed"} =>
          (IF c \in subs THEN "closed" ELSE x) \in {"none", "empty", "full", "closed"}
    OBVIOUS
  <2> QED BY <1>1, <2>1 DEF StreamInv, TypeOK, Unsubscribe
<1>3. TypeOK'
  <2> USE DEF StreamInv, TypeOK, Unsubscribe, outboxVars
  <2>1. CASE PushExit(c)
    BY <2>1, <1>2
  <2>2. CASE PushWriteFails(c)
    BY <2>2, <1>2
  <2>3. CASE Close(c)
    BY <2>3, <1>2
  <2> QED BY <2>1, <2>2, <2>3
<1> QED BY <1>1, <1>3, StopKeepsInv DEF StreamInv, TypeOK

\* The goroutine goes on to pull, or its pull fails.
LEMMA MovesKeepInv ==
  ASSUME StreamInv, NEW c \in Conns,
         PushListFails(c) \/ PushWrite(c) \/ PushWake(c) \/ PushPoll(c)
  PROVE  StreamInv'
<1> USE DEF PushListFails, PushWrite, PushWake, PushPoll, StreamInv, outboxVars, busVars
<1>1. /\ push'[c] \in {"pull", "failed"} /\ push[c] # "done"
      /\ \A d \in Conns \ {c} : push'[d] = push[d] /\ chan'[d] = chan[d]
      /\ chan'[c] \in {"empty", "full"} <=> chan[c] \in {"empty", "full"}
      /\ UNCHANGED <<outboxVars, subs, npc, copy, rpc, sent, pulled, handed>>
  BY DEF TypeOK
<1>2. TypeOK'
  <2>1. CASE PushListFails(c)
    BY <2>1 DEF TypeOK
  <2>2. CASE PushWrite(c)
    BY <2>2 DEF TypeOK
  <2>3. CASE PushWake(c)
    BY <2>3 DEF TypeOK
  <2>4. CASE PushPoll(c)
    BY <2>4 DEF TypeOK
  <2> QED BY <2>1, <2>2, <2>3, <2>4
<1>3. BusOK' /\ OneHolder' /\ UnclaimedOK'
  BY <1>1 DEF BusOK, OneHolder, UnclaimedOK
<1>4. PullsOK' /\ SentOK'
  BY <1>1 DEF PullsOK, SentOK, PullOK, Known
<1>5. WakeupOK'
  BY <1>1, SameListed DEF WakeupOK, Signalled
<1> QED BY <1>2, <1>3, <1>4, <1>5

\* What a pull reads now.
LEMMA PullIsOK ==
  ASSUME TypeOK, NEW c \in Conns
  PROVE  PullOK(c, Pull) /\ PullOK(c, NoPull)
BY ListedIsLeased DEF TypeOK, LeaseMap, Pull, NoPull, PullOK, Known, Never

LEMMA PushListKeepsInv ==
  ASSUME StreamInv, NEW c \in Conns, PushList(c)
  PROVE  StreamInv'
<1> USE DEF PushList, StreamInv, outboxVars, busVars
<1>1. /\ pulled' \in [Conns -> [batch : PullType, push : PullType]]
      /\ pulled'[c].push = Pull /\ pulled'[c].batch = pulled[c].batch
      /\ \A d \in Conns \ {c} : pulled'[d] = pulled[d]
  <2>1. pulled \in [Conns -> [batch : PullType, push : PullType]] /\ Pull \in PullType
    BY PullTyped DEF TypeOK
  <2> QED BY <2>1
<1>2. push'[c] = "listed" /\ \A d \in Conns \ {c} : push'[d] = push[d]
  BY DEF TypeOK
<1>3. TypeOK'
  BY <1>1 DEF TypeOK
<1>4. BusOK' /\ OneHolder' /\ UnclaimedOK'
  BY <1>2 DEF BusOK, OneHolder, UnclaimedOK, Holding
<1>5. SentOK'
  BY DEF SentOK, Known
<1>6. PullsOK'
  <2>1. \A d \in Conns : PullOK(d, pulled'[d].batch) /\ PullOK(d, pulled'[d].push)
    BY <1>1, PullIsOK DEF PullsOK
  <2>2. \A e \in Events : sent[c][e] > now => sent[c][e] = until[e]
    BY DEF SentOK, Known
  <2>3. \A e \in Pull.events : sent[c][e] > Pull.t => sent[c][e] = Pull.lease[e]
    BY <2>2, ListedIsLeased DEF Pull
  <2>4. \A d \in Conns : push'[d] = "listed" =>
          \A e \in pulled'[d].push.events :
            sent[d][e] > pulled'[d].push.t => sent[d][e] = pulled'[d].push.lease[e]
    BY <1>1, <1>2, <2>3 DEF PullsOK
  <2> QED BY <2>1, <2>4 DEF PullsOK, PullOK, Known
<1>7. WakeupOK'
  <2>1. \A e \in Listed : e \in Pull.events /\ Pull.lease[e] = until[e]
    BY DEF Pull
  <2> QED BY <1>1, <1>2, <2>1, SameListed DEF WakeupOK, Signalled
<1> QED BY <1>3, <1>4, <1>5, <1>6, <1>7

LEMMA PushMarkKeepsInv ==
  ASSUME StreamInv, NEW c \in Conns, PushMark(c)
  PROVE  StreamInv'
<1> DEFINE p == pulled[c].push
<1> USE DEF StreamInv
<1>1. /\ push[c] = "listed" /\ MarkSent(c, p)
      /\ push' = [push EXCEPT ![c] = IF Packets(c, p) = {} THEN "wait" ELSE "write"]
      /\ out' = [out EXCEPT ![c] = Packets(c, p)]
      /\ UNCHANGED <<state, until, now, subs, chan, npc, copy, rpc, cancelled, received>>
  BY DEF PushMark, outboxVars, busVars
<1>2. /\ pulled' \in [Conns -> [batch : PullType, push : PullType]]
      /\ pulled'[c].push = NoPull /\ pulled'[c].batch = pulled[c].batch
      /\ \A d \in Conns \ {c} : pulled'[d] = pulled[d]
  <2>1. pulled \in [Conns -> [batch : PullType, push : PullType]] /\ NoPull \in PullType
    BY PullTyped DEF TypeOK
  <2>2. pulled' = [pulled EXCEPT ![c].push = NoPull]
    BY DEF PushMark
  <2> QED BY <2>1, <2>2
<1>3. p \in PullType /\ PullOK(c, p)
  BY PullTyped DEF PullsOK
<1>4. \A e \in p.events : sent[c][e] > p.t => sent[c][e] = p.lease[e]
  BY <1>1 DEF PullsOK
<1>5. chan[c] = "empty" /\ ~Signalled(c) /\ Lapsed = {} =>
        \A e \in Listed : e \in p.events /\ p.lease[e] = until[e]
  BY <1>1 DEF WakeupOK
<1> HIDE DEF p
<1>6. /\ sent' \in [Conns -> LeaseMap]
      /\ handed' \in [Conns -> [Events -> [n : Nat, lease : Nat]]]
      /\ \A d \in Conns \ {c} : sent'[d] = sent[d]
      /\ \A e \in Events : sent'[c][e] = IF e \in Packets(c, p) THEN p.lease[e]
                                         ELSE IF sent[c][e] <= p.t THEN 0 ELSE sent[c][e]
  BY <1>1, <1>3, MarkSentFacts
<1>7. SentOK'
  BY <1>1, <1>3, MarkKeepsSentOK DEF outboxVars
<1>8. TypeOK'
  <2>1. Packets(c, p) \subseteq Events
    BY <1>3 DEF Packets, PullType
  <2> QED BY <1>1, <1>2, <1>6, <2>1 DEF TypeOK
<1>9. push'[c] \in {"wait", "write"} /\ \A d \in Conns \ {c} : push'[d] = push[d]
  BY <1>1 DEF TypeOK
<1>10. BusOK' /\ OneHolder' /\ UnclaimedOK'
  BY <1>1, <1>9 DEF BusOK, OneHolder, UnclaimedOK
<1>11. PullsOK'
  <2>1. \A d \in Conns : PullOK(d, pulled'[d].batch) /\ PullOK(d, pulled'[d].push)
    BY <1>2, PullIsOK DEF PullsOK
  <2>2. \A d \in Conns : push'[d] = "listed" =>
          /\ d # c /\ push[d] = "listed"
          /\ pulled'[d].push = pulled[d].push /\ sent'[d] = sent[d]
    BY <1>2, <1>6, <1>9
  <2>3. \A d \in Conns : push'[d] = "listed" =>
          \A e \in pulled'[d].push.events :
            sent'[d][e] > pulled'[d].push.t => sent'[d][e] = pulled'[d].push.lease[e]
    BY <2>2 DEF PullsOK
  <2>4. \A d \in Conns : PullOK(d, pulled[d].batch)' /\ PullOK(d, pulled[d].push)'
    BY <1>1, <2>1 DEF PullOK, Known
  <2> QED BY <2>3, <2>4 DEF PullsOK
<1>12. WakeupOK'
  <2> SUFFICES ASSUME NEW d \in Conns, chan[d] = "empty", ~Signalled(d), Lapsed = {}
               PROVE  /\ push'[d] = "listed" =>
                           \A e \in Listed : /\ e \in pulled'[d].push.events
                                             /\ pulled'[d].push.lease[e] = until[e]
                      /\ push'[d] = "wait" => \A e \in Listed : sent'[d][e] = until[e]
    BY <1>1, SameListed DEF WakeupOK, Signalled, outboxVars
  <2>1. CASE d # c
    BY <1>2, <1>6, <1>9, <2>1 DEF WakeupOK
  <2>2. CASE d = c
    <3> SUFFICES ASSUME push'[c] = "wait", NEW e \in Listed
                 PROVE  sent'[c][e] = until[e]
      BY <1>9, <2>2
    <3>1. e \in Events /\ e \in p.events /\ p.lease[e] = until[e] /\ e \notin Packets(c, p)
      BY <1>1, <1>5, <2>2, ListedIsLeased DEF TypeOK
    <3>2. ~(sent[c][e] <= p.t)
      BY <3>1 DEF Packets
    <3>3. sent[c][e] > p.t
      BY <3>1, <3>2, <1>3 DEF TypeOK, LeaseMap, PullType
    <3> QED BY <1>4, <1>6, <3>1, <3>2, <3>3
  <2> QED BY <2>1, <2>2
<1> QED BY <1>7, <1>8, <1>10, <1>11, <1>12

-----------------------------------------------------------------------------
(* The read loop *)

LEMMA BatchListKeepsInv ==
  ASSUME StreamInv, NEW c \in Conns, BatchList(c)
  PROVE  StreamInv'
<1> USE DEF BatchList, StreamInv, outboxVars, busVars
<1>1. PICK p \in {Pull, NoPull} : pulled' = [pulled EXCEPT ![c].batch = p]
  OBVIOUS
<1>2. p \in PullType /\ PullOK(c, p)
  BY PullTyped, PullIsOK
<1>3. /\ pulled' \in [Conns -> [batch : PullType, push : PullType]]
      /\ pulled'[c].batch = p /\ pulled'[c].push = pulled[c].push
      /\ \A d \in Conns \ {c} : pulled'[d] = pulled[d]
  <2>1. pulled \in [Conns -> [batch : PullType, push : PullType]]
    BY DEF TypeOK
  <2> HIDE DEF BatchList, StreamInv, outboxVars, busVars
  <2> QED BY <1>1, <1>2, <2>1
<1>4. rpc'[c] = "listed" /\ rpc[c] # "ended" /\ \A d \in Conns \ {c} : rpc'[d] = rpc[d]
  BY DEF TypeOK
<1>5. TypeOK'
  BY <1>3 DEF TypeOK
<1>6. BusOK' /\ OneHolder' /\ UnclaimedOK'
  BY <1>4 DEF BusOK, OneHolder, UnclaimedOK, Holding
<1>7. SentOK'
  BY DEF SentOK, Known
<1>8. PullsOK'
  <2>1. \A d \in Conns : PullOK(d, pulled'[d].batch) /\ PullOK(d, pulled'[d].push)
    BY <1>2, <1>3 DEF PullsOK
  <2> QED BY <1>3, <2>1 DEF PullsOK, PullOK, Known
<1>9. WakeupOK'
  BY <1>3, SameListed DEF WakeupOK, Signalled
<1> QED BY <1>5, <1>6, <1>7, <1>8, <1>9

\* What a batch does, whether its answer can be written or not.
LEMMA BatchesKeepInv ==
  ASSUME StreamInv, NEW c \in Conns, Batch(c) \/ BatchFails(c)
  PROVE  StreamInv'
<1> DEFINE p == pulled[c].batch
<1> USE DEF StreamInv
<1>1. rpc[c] = "listed" /\ MarkSent(c, p) /\ UNCHANGED <<state, until, now, npc, copy, out>>
  BY DEF Batch, BatchFails, StartPush, SubscribeKey, Unsubscribe, outboxVars, busVars
<1>2. /\ pulled' \in [Conns -> [batch : PullType, push : PullType]]
      /\ pulled'[c].batch = NoPull /\ pulled'[c].push = pulled[c].push
      /\ \A d \in Conns \ {c} : pulled'[d] = pulled[d]
  <2>1. pulled \in [Conns -> [batch : PullType, push : PullType]] /\ NoPull \in PullType
    BY PullTyped DEF TypeOK
  <2>2. pulled' = [pulled EXCEPT ![c].batch = NoPull]
    BY DEF Batch, BatchFails
  <2> QED BY <2>1, <2>2
<1>3. p \in PullType /\ PullOK(c, p)
  BY PullTyped DEF PullsOK
<1>4. \* the goroutine and the subscription
      /\ \A d \in Conns \ {c} : push'[d] = push[d] /\ rpc'[d] = rpc[d] /\ chan'[d] = chan[d]
                                  /\ (d \in subs' <=> d \in subs)
      /\ subs' \subseteq Conns /\ push[c] # "listed"
      /\ rpc'[c] \in {"open", "broken"}
      /\ \/ /\ push[c] = "off" /\ push'[c] = "pull"
            /\ c \in subs' /\ chan'[c] = "empty"
         \/ /\ push'[c] = push[c]
            /\ (c \in subs' <=> c \in subs) /\ chan'[c] = chan[c]
  <2>1. push[c] # "listed"
    BY <1>1 DEF OneHolder
  <2>2. PICK r \in {"open", "broken"} : rpc' = [rpc EXCEPT ![c] = r]
    BY DEF Batch, BatchFails
  <2>3. StartPush(c)
    BY DEF Batch, BatchFails
  <2> QED BY <2>1, <2>2, <2>3 DEF StartPush, SubscribeKey, TypeOK, busVars
<1>5. /\ sent' \in [Conns -> LeaseMap]
      /\ handed' \in [Conns -> [Events -> [n : Nat, lease : Nat]]]
      /\ \A d \in Conns \ {c} : sent'[d] = sent[d]
      /\ \A e \in Events : sent'[c][e] = IF e \in Packets(c, p) THEN p.lease[e]
                                         ELSE IF sent[c][e] <= p.t THEN 0 ELSE sent[c][e]
  BY <1>1, <1>3, MarkSentFacts
<1>6. SentOK'
  BY <1>1, <1>3, MarkKeepsSentOK DEF outboxVars
<1>7. TypeOK'
  <2>1. Packets(c, p) \subseteq Events
    BY <1>3 DEF Packets, PullType
  <2>2. PICK r \in {"open", "broken"} : rpc' = [rpc EXCEPT ![c] = r]
    BY DEF Batch, BatchFails
  <2>3. StartPush(c)
    BY DEF Batch, BatchFails
  <2>4. received' \subseteq Events /\ cancelled' \in [Conns -> BOOLEAN]
    BY <2>1 DEF TypeOK, Batch, BatchFails
  <2>5. /\ push' \in [Conns -> {"off", "pull", "listed", "write", "wait", "failed", "done"}]
        /\ subs' \subseteq Conns
        /\ chan' \in [Conns -> {"none", "empty", "full", "closed"}]
    <3>1. /\ push \in [Conns -> {"off", "pull", "listed", "write", "wait", "failed", "done"}]
          /\ subs \subseteq Conns
          /\ chan \in [Conns -> {"none", "empty", "full", "closed"}]
      BY DEF TypeOK
    <3>2. CASE push[c] = "off"
      <4>1. /\ push' = [push EXCEPT ![c] = "pull"] /\ subs' = subs \cup {c}
            /\ chan' = [chan EXCEPT ![c] = "empty"]
        BY <2>3, <3>2 DEF StartPush, SubscribeKey
      <4> HIDE DEF StreamInv
      <4> QED BY <3>1, <4>1
    <3>3. CASE push[c] # "off"
      BY <2>3, <3>1, <3>3 DEF StartPush, busVars
    <3> QED BY <3>2, <3>3
  <2> QED BY <1>1, <1>2, <1>5, <2>2, <2>4, <2>5 DEF TypeOK
<1>8. BusOK' /\ OneHolder' /\ UnclaimedOK'
  BY <1>1, <1>4 DEF BusOK, OneHolder, UnclaimedOK
<1>9. PullsOK'
  <2>1. \A d \in Conns : PullOK(d, pulled'[d].batch) /\ PullOK(d, pulled'[d].push)
    BY <1>2, PullIsOK DEF PullsOK
  <2>2. \A d \in Conns : push'[d] = "listed" =>
          /\ d # c /\ push[d] = "listed"
          /\ pulled'[d].push = pulled[d].push /\ sent'[d] = sent[d]
    BY <1>2, <1>4, <1>5
  <2>3. \A d \in Conns : push'[d] = "listed" =>
          \A e \in pulled'[d].push.events :
            sent'[d][e] > pulled'[d].push.t => sent'[d][e] = pulled'[d].push.lease[e]
    BY <2>2 DEF PullsOK
  <2>4. \A d \in Conns : PullOK(d, pulled[d].batch)' /\ PullOK(d, pulled[d].push)'
    BY <1>1, <2>1 DEF PullOK, Known
  <2> QED BY <2>3, <2>4 DEF PullsOK
<1>10. WakeupOK'
  <2> SUFFICES ASSUME NEW d \in Conns, chan'[d] = "empty", ~Signalled(d)', Lapsed = {}
               PROVE  /\ push'[d] = "listed" =>
                           \A e \in Listed : /\ e \in pulled'[d].push.events
                                             /\ pulled'[d].push.lease[e] = until[e]
                      /\ push'[d] = "wait" => \A e \in Listed : sent'[d][e] = until[e]
    BY <1>1, SameListed DEF WakeupOK, outboxVars
  <2>1. CASE d # c
    <3>1. chan[d] = "empty" /\ ~Signalled(d)
      BY <1>1, <1>4, <2>1 DEF Signalled
    <3>2. push'[d] = push[d] /\ pulled'[d] = pulled[d] /\ sent'[d] = sent[d]
      BY <1>2, <1>4, <1>5, <2>1
    <3> QED BY <3>1, <3>2 DEF WakeupOK
  <2>2. CASE d = c
    <3> SUFFICES ASSUME push'[c] = "wait", NEW e \in Listed
                 PROVE  sent'[c][e] = until[e]
      BY <1>4, <2>2
    <3>1. push[c] = "wait" /\ chan[c] = "empty" /\ ~Signalled(c)
      BY <1>1, <1>4, <2>2 DEF Signalled
    <3>2. e \in Events /\ sent[c][e] = until[e] /\ until[e] > now
      BY <3>1, ListedIsLeased DEF WakeupOK
    <3>3. ~(sent[c][e] <= p.t)
      BY <1>3, <3>2 DEF PullOK, PullType, TypeOK, LeaseMap
    <3>4. e \notin Packets(c, p)
      BY <3>3 DEF Packets
    <3> QED BY <1>5, <3>2, <3>3, <3>4
  <2> QED BY <2>1, <2>2
<1> QED BY <1>6, <1>7, <1>8, <1>9, <1>10

-----------------------------------------------------------------------------
(* The theorems *)

LEMMA StreamInit == Init => StreamInv
<1> SUFFICES ASSUME Init PROVE StreamInv
  OBVIOUS
<1> USE DEF Init
<1>1. Never \in LeaseMap /\ NoPull \in PullType
  BY DEF Never, LeaseMap, NoPull, PullType
<1>2. TypeOK
  BY <1>1 DEF TypeOK
<1>3. BusOK /\ OneHolder /\ UnclaimedOK /\ WakeupOK
  BY DEF BusOK, OneHolder, UnclaimedOK, WakeupOK, Never
<1>4. PullsOK /\ SentOK
  BY DEF PullsOK, PullOK, SentOK, Known, NoPull, Never
<1> QED BY <1>2, <1>3, <1>4 DEF StreamInv

\* Every step of a goroutine, of the bus and of the outbox keeps StreamInv.
LEMMA StreamStep == StreamInv /\ [Next]_vars => StreamInv'
<1> SUFFICES ASSUME StreamInv, [Next]_vars PROVE StreamInv'
  OBVIOUS
<1>1. ASSUME NEW e \in Events, Enqueue(e) \/ \E n \in Notifiers : Acknowledge(e, n)
      PROVE  StreamInv'
  BY <1>1, EnqueueKeepsInv, AcknowledgeKeepsInv
<1>2. ASSUME NEW n \in Notifiers, DispatchOnce(n) \/ NotifyStep(n)
      PROVE  StreamInv'
  BY <1>2, DispatchKeepsInv, NotifyCopyKeepsInv, NotifySendKeepsInv, NotifyPanicsKeepsInv
     DEF NotifyStep
<1>3. ASSUME NEW c \in Conns, PushStep(c) \/ PushPoll(c)
      PROVE  StreamInv'
  BY <1>3, StopsKeepInv, MovesKeepInv, PushListKeepsInv, PushMarkKeepsInv DEF PushStep
<1>4. ASSUME NEW c \in Conns, BatchList(c) \/ Batch(c) \/ BatchFails(c) \/ Close(c)
      PROVE  StreamInv'
  BY <1>4, StopsKeepInv, BatchListKeepsInv, BatchesKeepInv
<1>5. CASE Tick
  BY <1>5, TickKeepsInv
<1>6. CASE UNCHANGED vars
  <2> USE <1>6 DEF vars, outboxVars, busVars, connVars, StreamInv
  <2>1. TypeOK'
    BY DEF TypeOK
  <2> QED BY <2>1, NotifyKeepsInv DEF BusOK, Signalled
<1> QED BY <1>1, <1>2, <1>3, <1>4, <1>5, <1>6 DEF Next

\* No sequence of claims, notifications, pulls, writes and failures leaves StreamInv.
THEOREM StreamInvariance == Spec => []StreamInv
BY StreamInit, StreamStep, PTL DEF Spec

\* No wake-up is lost, for any number of connections, events and notifiers and any
\* LIMIT of the pull: a push goroutine that sleeps without a signal while every lease
\* still runs has sent all that a pull would list.
THEOREM NoLostWakeupAlways == Spec => []NoLostWakeup
<1>1. StreamInv => NoLostWakeup
  BY DEF StreamInv, WakeupOK, Signalled, NoLostWakeup
<1> QED BY <1>1, StreamInvariance, PTL

\* Whichever goroutine of a connection stops first, and however, no subscription is
\* left behind.
THEOREM NoLeakedSubscriptionAlways == Spec => []NoLeakedSubscription
<1>1. StreamInv => NoLeakedSubscription
  BY DEF StreamInv, BusOK, NoLeakedSubscription
<1> QED BY <1>1, StreamInvariance, PTL

\* The read loop and the push goroutine never both send an event under one lease,
\* for any lengths of leases and any failures.
THEOREM OncePerLeaseAlways == Spec => OncePerLease
<1> DEFINE Once == \A c \in Conns, e \in Events :
                     handed'[c][e].n > handed[c][e].n => handed[c][e].lease <= now
<1>1. StreamInv /\ [Next]_vars => [Once]_vars
  <2> SUFFICES ASSUME StreamInv, Next, NEW c \in Conns, NEW e \in Events,
                      handed'[c][e].n > handed[c][e].n
               PROVE  handed[c][e].lease <= now
    OBVIOUS
  <2>1. handed[c][e].n \in Nat /\ handed[c][e].lease \in Nat /\ sent[c][e] \in Nat /\ now \in Nat
    BY DEF StreamInv, TypeOK, LeaseMap
  <2>2. handed' # handed
    BY <2>1
  <2>3. PICK d \in Conns : \E p \in {pulled[d].batch, pulled[d].push} : MarkSent(d, p)
    BY <2>2 DEF Next, Enqueue, Acknowledge, DispatchOnce, NotifyStep, NotifyCopy, NotifySend,
         NotifyPanics, PushStep, PushExit, PushList, PushListFails, PushMark, PushWrite,
         PushWriteFails, PushWake, PushPoll, BatchList, Batch, BatchFails, Close, Tick, connVars
  <2>4. PICK p \in {pulled[d].batch, pulled[d].push} : MarkSent(d, p)
    BY <2>3
  <2>5. p \in PullType /\ PullOK(d, p)
    BY PullTyped DEF StreamInv, PullsOK
  <2>6. /\ \A b \in Conns \ {d} : handed'[b] = handed[b]
        /\ \A f \in Events : f \notin Packets(d, p) => handed'[d][f] = handed[d][f]
    BY <2>4, <2>5, MarkSentFacts DEF StreamInv
  <2>7. c = d /\ e \in Packets(d, p)
    BY <2>1, <2>6
  <2>8. sent[c][e] <= now
    BY <2>1, <2>5, <2>7 DEF Packets, PullOK, PullType
  <2> QED BY <2>1, <2>8 DEF StreamInv, SentOK
<1> QED BY <1>1, StreamInvariance, PTL DEF Spec, OncePerLease
=============================================================================
