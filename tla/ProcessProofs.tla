--------------------------- MODULE ProcessProofs ----------------------------
(***************************************************************************)
(* Proofs about the goroutines of the server process: Lifecycle, for any   *)
(* number of loops and listeners, and PushNotifier, for any number of      *)
(* events and callers, any capacity of the queue and any number of claims  *)
(* and restarts.                                                           *)
(***************************************************************************)
EXTENDS Lifecycle, PushNotifier, TLAPS

-----------------------------------------------------------------------------
(* Lifecycle *)

\* startAll opens the listeners in order, and what is copied has been opened.
OpenedOK ==
  /\ \A p \in Listeners : listener[p] = "off" <=> p >= next
  /\ \A p \in taken : listener[p] # "off"

\* What Shutdown has dealt with is not open, and stays so.
ClosedOK ==
  /\ main \in {"select", "copy"} => taken = {}
  /\ \A p \in taken \ copied : listener[p] # "open"
  /\ main = "exit" => copied = {}

LifeInv == TypeOK /\ OpenedOK /\ ClosedOK

\* The steps that open no listener and close none.
LEMMA ListenersStay ==
  ASSUME LifeInv, TypeOK', UNCHANGED <<next, taken, copied>>,
         \/ UNCHANGED <<main, listener>>
         \/ listener' = listener /\ main = "select" /\ main' = "copy"
         \/ listener' = listener /\ main = "close" /\ main' = "exit" /\ copied = {}
         \/ /\ UNCHANGED main
            /\ \E p \in Listeners : listener[p] = "open" /\ listener' = [listener EXCEPT ![p] = "failed"]
  PROVE  LifeInv'
<1>1. ASSUME NEW p \in Listeners
      PROVE  /\ listener'[p] = "off" <=> listener[p] = "off"
             /\ listener'[p] = "open" => listener[p] = "open"
  BY DEF LifeInv, TypeOK
<1>2. OpenedOK'
  BY <1>1 DEF LifeInv, TypeOK, OpenedOK
<1>3. ClosedOK'
  BY <1>1 DEF LifeInv, TypeOK, ClosedOK
<1> QED BY <1>2, <1>3 DEF LifeInv

\* What is known of the listeners is kept by every step.
THEOREM LifecycleInvariance == Spec => []LifeInv
<1> USE LifecycleAssumption
<1>1. Init => LifeInv
  <2> SUFFICES ASSUME Init
               PROVE  LifeInv
    OBVIOUS
  <2>1. TypeOK
    <3>1. next \in 1..(Ports + 1)
      BY DEF Init
    <3> QED BY <3>1 DEF Init, TypeOK
  <2>2. OpenedOK /\ ClosedOK
    BY DEF Init, OpenedOK, ClosedOK, Listeners
  <2> QED BY <2>1, <2>2 DEF LifeInv
<1>2. LifeInv /\ [Next]_vars => LifeInv'
  <2> SUFFICES ASSUME LifeInv, [Next]_vars
               PROVE  LifeInv'
    OBVIOUS
  <2>1. CASE StartListener
    <3>1. next \in Listeners /\ next + 1 \in 1..(Ports + 1) /\ next \in Nat
      BY <2>1 DEF StartListener, LifeInv, TypeOK, Listeners
    <3>2. TypeOK'
      BY <2>1, <3>1 DEF StartListener, LifeInv, TypeOK
    <3>3. next \notin taken
      BY <3>1 DEF LifeInv, OpenedOK
    <3>4. listener'[next] = "open" /\ \A p \in Listeners \ {next} : listener'[p] = listener[p]
      BY <2>1, <3>1 DEF StartListener, LifeInv, TypeOK
    <3>5. \A p \in Listeners : p \in Nat
      BY DEF Listeners
    <3>6. \A p \in Listeners : listener'[p] = "off" <=> p >= next'
      <4> TAKE p \in Listeners
      <4>1. next' = next + 1
        BY <2>1 DEF StartListener
      <4>2. CASE p = next
        BY <3>1, <3>4, <4>1, <4>2
      <4>3. CASE p # next
        BY <3>1, <3>4, <3>5, <4>1, <4>3 DEF LifeInv, OpenedOK
      <4> QED BY <4>2, <4>3
    <3>7. OpenedOK'
      BY <2>1, <3>2, <3>3, <3>4, <3>6 DEF StartListener, LifeInv, TypeOK, OpenedOK
    <3>8. ClosedOK'
      BY <2>1, <3>3, <3>4 DEF StartListener, LifeInv, TypeOK, ClosedOK
    <3> QED BY <3>2, <3>7, <3>8 DEF LifeInv
  <2>2. CASE ListenFails \/ Started \/ RunReturns \/ RunReports \/ Signal \/ UNCHANGED vars
    <3>1. TypeOK'
      BY <2>2 DEF ListenFails, Started, RunReturns, RunReports, Signal, vars, LifeInv, TypeOK
    <3>2. UNCHANGED <<next, taken, copied, main, listener>>
      BY <2>2 DEF ListenFails, Started, RunReturns, RunReports, Signal, vars
    <3> QED BY <3>1, <3>2, ListenersStay
  <2>3. ASSUME NEW l \in Loops, LoopFails(l) \/ LoopCancelled(l) \/ LoopReports(l)
        PROVE  LifeInv'
    <3>1. TypeOK'
      BY <2>3 DEF LoopFails, LoopCancelled, LoopReports, LifeInv, TypeOK
    <3>2. UNCHANGED <<next, taken, copied, main, listener>>
      BY <2>3 DEF LoopFails, LoopCancelled, LoopReports
    <3> QED BY <3>1, <3>2, ListenersStay
  <2>4. ASSUME NEW p \in Listeners, ListenerFails(p)
        PROVE  LifeInv'
    <3>1. TypeOK'
      BY <2>4 DEF ListenerFails, ReportError, LifeInv, TypeOK
    <3> QED BY <2>4, <3>1, ListenersStay DEF ListenerFails
  <2>5. CASE MainSelect \/ Exit
    <3>1. TypeOK'
      BY <2>5 DEF MainSelect, Exit, LifeInv, TypeOK
    <3> QED BY <2>5, <3>1, ListenersStay DEF MainSelect, Exit
  <2>6. CASE ShutdownCopy
    BY <2>6 DEF ShutdownCopy, LifeInv, TypeOK, OpenedOK, ClosedOK
  <2>7. ASSUME NEW p \in Listeners, NEW ok \in BOOLEAN, ShutdownClose(p, ok)
        PROVE  LifeInv'
    <3>1. /\ listener'[p] = (IF listener[p] = "open" THEN "closed" ELSE listener[p])
          /\ \A q \in Listeners \ {p} : listener'[q] = listener[q]
          /\ copied' = copied \ {p} /\ main = "close"
          /\ UNCHANGED <<main, ctx, mainCh, loop, run, next, errCh, taken>>
      BY <2>7 DEF ShutdownClose, AfterClose, LifeInv, TypeOK
    <3>2. TypeOK'
      BY <2>7 DEF ShutdownClose, AfterClose, LifeInv, TypeOK
    <3>3. OpenedOK'
      BY <3>1 DEF LifeInv, TypeOK, OpenedOK
    <3>4. ClosedOK'
      BY <3>1 DEF LifeInv, TypeOK, ClosedOK
    <3> QED BY <3>2, <3>3, <3>4 DEF LifeInv
  <2> QED BY <2>1, <2>2, <2>3, <2>4, <2>5, <2>6, <2>7 DEF Next, RunStep, MainStep
<1> QED BY <1>1, <1>2, PTL DEF Spec

\* However many listeners there are, and whichever of the closes before it failed, a
\* listener that was known when the shutdown began is not open at the exit (Shutdown).
THEOREM ExitClosesListenersAlways == Spec => []ExitClosesListeners
<1>1. LifeInv => ExitClosesListeners
  BY DEF LifeInv, ClosedOK, ExitClosesListeners
<1> QED BY <1>1, LifecycleInvariance, PTL

-----------------------------------------------------------------------------
(* PushNotifier *)

\* The first claim of an event: the only one that is pushed.
First(e) == [event |-> e, attempts |-> 1]

\* A claim is one of those the event has had.
Had(i) == i \in Claims /\ 1 <= i.attempts /\ i.attempts <= attempts[i.event]

\* Callers, queue and worker hold such claims, a caller and the worker one at a time.
ClaimsOK ==
  /\ handing \in [Callers -> SUBSET Claims] /\ attempts \in [Events -> Nat]
  /\ queue \in Seq(Claims) /\ current \subseteq Claims /\ sent \in [Events -> Nat]
  /\ \A c \in Callers : (\A i \in handing[c] : Had(i)) /\ \A i, j \in handing[c] : i = j
  /\ \A n \in 1..Len(queue) : Had(queue[n])
  /\ (\A i \in current : Had(i)) /\ \A i, j \in current : i = j
  /\ worker \in {"lookup", "send"} => \A i \in current : i.attempts = 1

\* The first claim of e is in one place at most, and while it is in one nothing of e has
\* been pushed.
OnePlace(e) ==
  /\ \A c \in Callers : First(e) \in handing[c] =>
       /\ \A d \in Callers \ {c} : First(e) \notin handing[d]
       /\ \A n \in 1..Len(queue) : queue[n] # First(e)
       /\ First(e) \notin current /\ sent[e] = 0
  /\ \A n \in 1..Len(queue) : queue[n] = First(e) =>
       /\ \A m \in 1..Len(queue) : queue[m] = First(e) => m = n
       /\ First(e) \notin current /\ sent[e] = 0
  /\ First(e) \in current => sent[e] = 0
  /\ attempts[e] = 0 => sent[e] = 0
  /\ sent[e] <= 1

PushInv == ClaimsOK /\ \A e \in Events : OnePlace(e)

LEMMA FirstFacts ==
  /\ \A e : First(e).event = e /\ First(e).attempts = 1
  /\ \A i \in Claims : i.event \in Events /\ i.attempts \in Nat
  /\ \A i \in Claims : i.attempts = 1 => i = First(i.event)
  BY DEF First, Claims

\* A claim makes the attempts go up: it is the first only of an event of which there is
\* nothing yet.
LEMMA ClaimKeeps ==
  ASSUME PushInv, NEW c \in Callers, NEW e \in Events, Claim(c, e)
  PROVE  PushInv'
<1> DEFINE x == [event |-> e, attempts |-> attempts[e] + 1]
<1>1. /\ handing[c] = {} /\ handing' = [handing EXCEPT ![c] = {x}]
      /\ attempts' = [attempts EXCEPT ![e] = @ + 1]
      /\ UNCHANGED <<queue, worker, current, sent>>
  BY DEF Claim
<1>2. attempts[e] \in Nat /\ x \in Claims /\ x.event = e /\ x.attempts = attempts[e] + 1
  BY DEF PushInv, ClaimsOK, Claims
<1> HIDE DEF x
<1>3. /\ attempts' \in [Events -> Nat] /\ attempts'[e] = attempts[e] + 1
      /\ \A f \in Events \ {e} : attempts'[f] = attempts[f]
  BY <1>1, <1>2 DEF PushInv, ClaimsOK
<1>4. /\ handing' \in [Callers -> SUBSET Claims] /\ handing'[c] = {x}
      /\ \A d \in Callers \ {c} : handing'[d] = handing[d]
  BY <1>1, <1>2 DEF PushInv, ClaimsOK
<1>5. ASSUME NEW i, Had(i)
      PROVE  Had(i)'
  <2>1. i.event \in Events /\ i.attempts \in Nat
    BY <1>5, FirstFacts DEF Had
  <2>2. attempts[i.event] \in Nat /\ attempts[i.event] <= attempts'[i.event]
    <3>1. attempts \in [Events -> Nat]
      BY DEF PushInv, ClaimsOK
    <3>2. CASE i.event = e
      BY <1>2, <1>3, <3>2
    <3>3. CASE i.event # e
      BY <1>3, <2>1, <3>1, <3>3
    <3> QED BY <3>2, <3>3
  <2>3. attempts'[i.event] \in Nat
    BY <1>3, <2>1
  <2> QED BY <1>5, <2>1, <2>2, <2>3 DEF Had
<1>6. \A i : i = x => Had(i)'
  <2>1. 1 <= attempts[e] + 1 /\ attempts[e] + 1 <= attempts'[e]
    BY <1>2, <1>3
  <2> QED BY <1>2, <2>1 DEF Had
<1>7. ClaimsOK'
  BY <1>1, <1>3, <1>4, <1>5, <1>6 DEF PushInv, ClaimsOK
<1>8. ASSUME NEW f \in Events
      PROVE  OnePlace(f)'
  <2>1. CASE x = First(f)
    <3>1. f = e /\ attempts[e] = 0
      BY <1>2, <2>1, FirstFacts
    <3>2. \A i : Had(i) => i # First(f)
      BY <3>1, FirstFacts DEF Had
    <3>3. /\ \A d \in Callers \ {c} : First(f) \notin handing'[d]
          /\ \A n \in 1..Len(queue) : queue[n] # First(f)
          /\ First(f) \notin current
      BY <1>4, <3>2 DEF PushInv, ClaimsOK
    <3>4. sent[f] = 0
      BY <3>1 DEF PushInv, OnePlace
    <3> QED BY <1>1, <3>3, <3>4 DEF OnePlace
  <2>2. CASE x # First(f)
    <3>1. \A d \in Callers : First(f) \in handing'[d] => First(f) \in handing[d]
      BY <1>4, <2>2
    <3>2. attempts'[f] = 0 => attempts[f] = 0
      BY <1>2, <1>3
    <3> QED BY <1>1, <3>1, <3>2 DEF PushInv, OnePlace
  <2> QED BY <2>1, <2>2
<1> QED BY <1>7, <1>8 DEF PushInv

\* A caller hands its claim to the queue, or drops it.
LEMMA NotifyKeeps ==
  ASSUME PushInv, NEW c \in Callers, NotifyOutboxEvent(c)
  PROVE  PushInv'
<1>1. PICK i \in handing[c] :
        /\ handing' = [handing EXCEPT ![c] = {}]
        /\ queue' = IF HasRoom THEN Append(queue, i) ELSE queue
        /\ UNCHANGED <<attempts, worker, current, device, sent>>
  BY DEF NotifyOutboxEvent
<1>2. i \in Claims /\ Had(i) /\ queue \in Seq(Claims)
  BY DEF PushInv, ClaimsOK
<1>3. /\ handing' \in [Callers -> SUBSET Claims] /\ handing'[c] = {}
      /\ \A d \in Callers \ {c} : handing'[d] = handing[d]
  BY <1>1 DEF PushInv, ClaimsOK
<1>4. \A j : Had(j)' <=> Had(j)
  BY <1>1 DEF Had
<1>5. /\ queue' \in Seq(Claims)
      /\ \A n \in 1..Len(queue') : \/ n \in 1..Len(queue) /\ queue'[n] = queue[n]
                                   \/ n = Len(queue) + 1 /\ queue'[n] = i
  <2>1. CASE HasRoom
    <3>1. queue' = Append(queue, i)
      BY <1>1, <2>1
    <3>2. /\ Append(queue, i) \in Seq(Claims) /\ Len(Append(queue, i)) = Len(queue) + 1
          /\ \A n \in 1..Len(queue) : Append(queue, i)[n] = queue[n]
          /\ Append(queue, i)[Len(queue) + 1] = i /\ Len(queue) \in Nat
      BY <1>2
    <3> QED BY <3>1, <3>2
  <2>2. CASE ~HasRoom
    <3>1. queue' = queue
      BY <1>1, <2>2
    <3> QED BY <1>2, <3>1
  <2> QED BY <2>1, <2>2
<1>6. ClaimsOK'
  BY <1>1, <1>2, <1>3, <1>4, <1>5 DEF PushInv, ClaimsOK
<1>7. ASSUME NEW f \in Events
      PROVE  OnePlace(f)'
  <2>1. OnePlace(f)
    BY DEF PushInv
  <2>2. \A d \in Callers : First(f) \in handing'[d] => First(f) \in handing[d] /\ d # c
    BY <1>3
  <2>3. CASE i = First(f)
    <3>1. /\ \A d \in Callers : First(f) \notin handing'[d]
          /\ \A n \in 1..Len(queue) : queue[n] # First(f)
          /\ First(f) \notin current /\ sent[f] = 0
      BY <2>1, <2>2, <2>3 DEF OnePlace
    <3>2. \A n \in 1..Len(queue') : queue'[n] = First(f) => n = Len(queue) + 1
      BY <1>5, <3>1
    <3> QED BY <1>1, <3>1, <3>2 DEF OnePlace
  <2>4. CASE i # First(f)
    <3>1. \A n \in 1..Len(queue') : queue'[n] = First(f) => n \in 1..Len(queue) /\ queue[n] = First(f)
      BY <1>5, <2>4
    <3> QED BY <1>1, <2>1, <2>2, <3>1 DEF OnePlace
  <2> QED BY <2>3, <2>4
<1> QED BY <1>6, <1>7 DEF PushInv

\* The worker takes the head of the queue.
LEMMA DequeueKeeps ==
  ASSUME PushInv, Dequeue
  PROVE  PushInv'
<1>1. /\ queue # << >> /\ current' = {Head(queue)} /\ queue' = Tail(queue) /\ worker' = "map"
      /\ UNCHANGED <<attempts, handing, sent>>
  BY DEF Dequeue
<1>2. /\ queue \in Seq(Claims) /\ queue' \in Seq(Claims) /\ Head(queue) = queue[1]
      /\ 1 \in 1..Len(queue) /\ Head(queue) \in Claims
      /\ \A n \in 1..Len(queue') : n + 1 \in 1..Len(queue) /\ queue'[n] = queue[n + 1] /\ n + 1 # 1
  BY <1>1 DEF PushInv, ClaimsOK
<1>3. \A j : Had(j)' <=> Had(j)
  BY <1>1 DEF Had
<1>4. ClaimsOK'
  BY <1>1, <1>2, <1>3 DEF PushInv, ClaimsOK
<1>5. ASSUME NEW f \in Events
      PROVE  OnePlace(f)'
  <2>1. OnePlace(f)
    BY DEF PushInv
  <2>2. First(f) \in current' => queue[1] = First(f)
    BY <1>1, <1>2
  <2>3. \A n \in 1..Len(queue') : queue'[n] = First(f) => queue[n + 1] = First(f) /\ queue[1] # First(f)
    BY <1>2, <2>1 DEF OnePlace
  <2>4. \A n, m \in 1..Len(queue') : queue'[n] = First(f) /\ queue'[m] = First(f) => n = m
    <3> SUFFICES ASSUME NEW n \in 1..Len(queue'), NEW m \in 1..Len(queue'),
                        queue'[n] = First(f), queue'[m] = First(f)
                 PROVE  n = m
      OBVIOUS
    <3>1. n + 1 = m + 1
      BY <1>2, <2>1 DEF OnePlace
    <3> QED BY <3>1
  <2>5. \A n \in 1..Len(queue') : queue'[n] = First(f) => First(f) \notin current' /\ sent[f] = 0
    BY <1>2, <2>1, <2>2, <2>3 DEF OnePlace
  <2>6. \A c \in Callers : First(f) \in handing[c] =>
          (\A n \in 1..Len(queue') : queue'[n] # First(f)) /\ First(f) \notin current'
    BY <1>2, <2>1, <2>2, <2>3 DEF OnePlace
  <2>7. First(f) \in current' => sent[f] = 0
    BY <1>2, <2>1, <2>2 DEF OnePlace
  <2> QED BY <1>1, <2>1, <2>4, <2>5, <2>6, <2>7 DEF OnePlace
<1> QED BY <1>4, <1>5 DEF PushInv

\* process goes on with a claim, or is done with it: a claim it goes on with is the first.
LEMMA WorkKeeps ==
  ASSUME PushInv, MapOutboxEvent \/ LookupDevice \/ ProcessFails
  PROVE  PushInv'
<1>1. /\ UNCHANGED <<attempts, handing, queue, sent>> /\ current' \subseteq current
      /\ worker' \in {"lookup", "send"} => current' = current /\ \A i \in current : i.attempts = 1
  <2>1. CASE MapOutboxEvent
    <3>1. PICK i \in current :
            /\ worker = "map"
            /\ IF IsRetry(i) \/ i.event \notin Pushable
                 THEN Return(i, "skipped")
                 ELSE worker' = "lookup" /\ UNCHANGED <<current, fate>>
            /\ UNCHANGED <<attempts, handing, queue, device, sent, crashes, changes>>
      BY <2>1 DEF MapOutboxEvent
    <3>2. CASE IsRetry(i) \/ i.event \notin Pushable
      BY <3>1, <3>2 DEF Return
    <3>3. CASE ~(IsRetry(i) \/ i.event \notin Pushable)
      <4>1. i.attempts \in Nat /\ 1 <= i.attempts /\ \A j \in current : j = i
        BY FirstFacts DEF PushInv, ClaimsOK, Had
      <4>2. i.attempts = 1
        BY <3>3, <4>1 DEF IsRetry
      <4> QED BY <3>1, <3>3, <4>1, <4>2
    <3> QED BY <3>2, <3>3
  <2>2. CASE LookupDevice
    BY <2>2 DEF LookupDevice, Return, PushInv, ClaimsOK
  <2>3. CASE ProcessFails
    BY <2>3 DEF ProcessFails, Return
  <2> QED BY <2>1, <2>2, <2>3
<1>2. \A j : Had(j)' <=> Had(j)
  BY <1>1 DEF Had
<1>3. ClaimsOK'
  BY <1>1, <1>2 DEF PushInv, ClaimsOK
<1>4. \A e \in Events : OnePlace(e)'
  BY <1>1 DEF PushInv, OnePlace
<1> QED BY <1>3, <1>4 DEF PushInv

\* FCM accepts the push of a first claim, which is then nowhere.
LEMMA SendKeeps ==
  ASSUME PushInv, Send
  PROVE  PushInv'
<1>1. PICK i \in current :
        /\ worker = "send" /\ worker' = "idle" /\ current' = {}
        /\ sent' = [sent EXCEPT ![i.event] = @ + 1]
        /\ UNCHANGED <<attempts, handing, queue>>
  BY DEF Send, Return
<1>2. i \in Claims /\ i.attempts = 1 /\ Had(i) /\ i.event \in Events
  BY <1>1, FirstFacts DEF PushInv, ClaimsOK
<1>3. First(i.event) \in current /\ sent[i.event] = 0 /\ attempts[i.event] # 0
  <2>1. First(i.event) \in current
    BY <1>2, FirstFacts
  <2>2. attempts[i.event] \in Nat /\ 1 <= attempts[i.event]
    BY <1>2 DEF Had, PushInv, ClaimsOK
  <2> QED BY <1>2, <2>1, <2>2 DEF PushInv, OnePlace
<1>4. /\ sent' \in [Events -> Nat] /\ sent'[i.event] = 1
      /\ \A e \in Events \ {i.event} : sent'[e] = sent[e]
  BY <1>1, <1>2, <1>3 DEF PushInv, ClaimsOK
<1>5. \A j : Had(j)' <=> Had(j)
  BY <1>1 DEF Had
<1>6. ClaimsOK'
  BY <1>1, <1>4, <1>5 DEF PushInv, ClaimsOK
<1>7. ASSUME NEW e \in Events
      PROVE  OnePlace(e)'
  <2>1. CASE e = i.event
    <3>1. /\ \A c \in Callers : First(e) \notin handing[c]
          /\ \A n \in 1..Len(queue) : queue[n] # First(e)
      BY <1>3, <2>1 DEF PushInv, OnePlace
    <3> QED BY <1>1, <1>3, <1>4, <2>1, <3>1 DEF OnePlace
  <2>2. CASE e # i.event
    BY <1>1, <1>4, <2>2 DEF PushInv, OnePlace
  <2> QED BY <2>1, <2>2
<1> QED BY <1>6, <1>7 DEF PushInv

\* The first claim of an event is handed on, never copied.
THEOREM PushInvariance == PushSpec => []PushInv
<1>1. PushInit => PushInv
  <2> SUFFICES ASSUME PushInit
               PROVE  PushInv
    OBVIOUS
  <2>1. queue = << >> /\ queue \in Seq(Claims) /\ 1..Len(queue) = {}
    BY DEF PushInit
  <2>2. ClaimsOK
    BY <2>1 DEF PushInit, ClaimsOK
  <2>3. \A e \in Events : OnePlace(e)
    BY <2>1 DEF PushInit, OnePlace
  <2> QED BY <2>2, <2>3 DEF PushInv
<1>2. PushInv /\ [PushNext]_pushVars => PushInv'
  <2> SUFFICES ASSUME PushInv, [PushNext]_pushVars
               PROVE  PushInv'
    OBVIOUS
  <2>1. CASE \E c \in Callers : NotifyOutboxEvent(c) \/ \E e \in Events : Claim(c, e)
    BY <2>1, NotifyKeeps, ClaimKeeps
  <2>2. CASE Work
    BY <2>2, DequeueKeeps, WorkKeeps, SendKeeps DEF Work
  <2>3. CASE (\E d \in Device : ChangeDevice(d)) \/ UNCHANGED pushVars
    <3>1. UNCHANGED <<attempts, handing, queue, worker, current, sent>>
      BY <2>3 DEF ChangeDevice, pushVars
    <3>2. \A j : Had(j)' <=> Had(j)
      BY <3>1 DEF Had
    <3>3. ClaimsOK'
      BY <3>1, <3>2 DEF PushInv, ClaimsOK
    <3>4. \A e \in Events : OnePlace(e)'
      BY <3>1 DEF PushInv, OnePlace
    <3> QED BY <3>3, <3>4 DEF PushInv
  <2>4. CASE Crash
    <3>1. /\ UNCHANGED <<attempts, sent>> /\ handing' = [c \in Callers |-> {}]
          /\ queue' = << >> /\ worker' = "idle" /\ current' = {}
      BY <2>4 DEF Crash
    <3>2. queue' \in Seq(Claims) /\ 1..Len(queue') = {}
      BY <3>1
    <3>3. ClaimsOK'
      BY <3>1, <3>2 DEF PushInv, ClaimsOK
    <3>4. \A e \in Events : OnePlace(e)'
      BY <3>1, <3>2 DEF PushInv, OnePlace
    <3> QED BY <3>3, <3>4 DEF PushInv
  <2> QED BY <2>1, <2>2, <2>3, <2>4 DEF PushNext
<1> QED BY <1>1, <1>2, PTL DEF PushSpec

\* However often an event is claimed, by however many callers, and whatever restarts the
\* server, FCM accepts at most one push for it (process skips Attempts > 1).
THEOREM AtMostOnePushAlways == PushSpec => []AtMostOnePush
<1>1. PushInv => AtMostOnePush
  BY DEF PushInv, OnePlace, AtMostOnePush
<1> QED BY <1>1, PushInvariance, PTL
=============================================================================
