----------------------------- MODULE Lifecycle ------------------------------
(***************************************************************************)
(* Start and stop of the server process: main, the four goroutines it      *)
(* starts (runtime.Run, RunDispatcher, RunJanitor, pushNotifier.Run), the  *)
(* listeners of the runtime with their own goroutines, and the two error   *)
(* channels of capacity 1 (runtimeErrCh and Runtime.errCh).                *)
(***************************************************************************)
EXTENDS Naturals, Sequences, FiniteSets

CONSTANTS
  Loops,    \* RunDispatcher, RunJanitor, pushNotifier.Run
  Ports,    \* the listeners, in the order of startAll
  IsTCP     \* IsTCP[i]: port i is opened by startAll itself (net.Listen)

ASSUME LifecycleAssumption ==
  /\ Ports \in Nat \ {0}
  /\ IsTCP \in [1..Ports -> BOOLEAN]

VARIABLES
  main,       \* "select", then in Shutdown "copy" and "close", then "exit"
  ctx,        \* TRUE when the signal context is done
  mainCh,     \* runtimeErrCh holds an error
  loop,       \* each loop: running, reporting (blocked on runtimeErrCh), ended
  run,        \* runtime.Run: starting, select, reporting, ended
  next,       \* the listener startAll opens next
  listener,   \* each listener: off, open, failed, closed
  errCh,      \* Runtime.errCh holds an error
  taken,      \* the listeners Shutdown copied
  copied      \* those it has not yet closed

vars == <<main, ctx, mainCh, loop, run, next, listener, errCh, taken, copied>>

Listeners == 1..Ports

Init ==
  /\ main = "select" /\ ctx = FALSE /\ mainCh = FALSE
  /\ loop = [l \in Loops |-> "running"]
  /\ run = "starting" /\ next = 1
  /\ listener = [p \in Listeners |-> "off"]
  /\ errCh = FALSE
  /\ taken = {} /\ copied = {}

Alive == main # "exit"

-----------------------------------------------------------------------------
(* runtime.Run *)
\* startTCPListener or startHTTPServer: registered in the runtime, then served
\* by a goroutine of its own.
StartListener ==
  /\ Alive
  /\ run = "starting" /\ next <= Ports
  /\ listener' = [listener EXCEPT ![next] = "open"]
  /\ next' = next + 1
  /\ UNCHANGED <<main, ctx, mainCh, loop, run, errCh, taken, copied>>

\* net.Listen fails: startAll, and Run, return the error.
ListenFails ==
  /\ Alive
  /\ run = "starting" /\ next <= Ports /\ IsTCP[next]
  /\ run' = "reporting"
  /\ UNCHANGED <<main, ctx, mainCh, loop, next, listener, errCh, taken, copied>>

Started ==
  /\ Alive
  /\ run = "starting" /\ next > Ports
  /\ run' = "select"
  /\ UNCHANGED <<main, ctx, mainCh, loop, next, listener, errCh, taken, copied>>

\* Mutation: make(chan error), so that the default case loses the error unless
\* Run is already in its select.
ReportErrorUnbuffered == errCh' = (errCh \/ run = "select")

\* select { case r.errCh <- err: default: }
ReportError == errCh' = TRUE

\* Accept or ListenAndServe returns an error other than "closed".
ListenerFails(p) ==
  /\ Alive
  /\ listener[p] = "open"
  /\ listener' = [listener EXCEPT ![p] = "failed"]
  /\ ReportError
  /\ UNCHANGED <<main, ctx, mainCh, loop, run, next, taken, copied>>

\* The select of Run: the context, or a listener's error.
RunReturns ==
  /\ Alive
  /\ run = "select"
  /\ \/ ctx /\ run' = "ended" /\ UNCHANGED errCh
     \/ errCh /\ run' = "reporting" /\ errCh' = FALSE
  /\ UNCHANGED <<main, ctx, mainCh, loop, next, listener, taken, copied>>

\* runtimeErrCh <- runErr, without a look at the context.
RunReports ==
  /\ Alive
  /\ run = "reporting" /\ ~mainCh
  /\ mainCh' = TRUE
  /\ run' = "ended"
  /\ UNCHANGED <<main, ctx, loop, next, listener, errCh, taken, copied>>

-----------------------------------------------------------------------------
(* The other loops. *)
\* An error of DispatchOnce, of the janitor or of the notifier; it is dropped
\* when the context is done.
LoopFails(l) ==
  /\ Alive
  /\ loop[l] = "running"
  /\ loop' = [loop EXCEPT ![l] = IF ctx THEN "ended" ELSE "reporting"]
  /\ UNCHANGED <<main, ctx, mainCh, run, next, listener, errCh, taken, copied>>

LoopCancelled(l) ==
  /\ Alive
  /\ loop[l] = "running" /\ ctx
  /\ loop' = [loop EXCEPT ![l] = "ended"]
  /\ UNCHANGED <<main, ctx, mainCh, run, next, listener, errCh, taken, copied>>

LoopReports(l) ==
  /\ Alive
  /\ loop[l] = "reporting" /\ ~mainCh
  /\ mainCh' = TRUE
  /\ loop' = [loop EXCEPT ![l] = "ended"]
  /\ UNCHANGED <<main, ctx, run, next, listener, errCh, taken, copied>>

-----------------------------------------------------------------------------
(* main *)
\* SIGTERM or SIGINT.
Signal ==
  /\ Alive
  /\ ~ctx
  /\ ctx' = TRUE
  /\ UNCHANGED <<main, mainCh, loop, run, next, listener, errCh, taken, copied>>

\* Mutation: main waits for a signal only.
MainSelectSignalOnly ==
  /\ main = "select" /\ ctx
  /\ main' = "copy"
  /\ UNCHANGED <<ctx, mainCh, loop, run, next, listener, errCh, taken, copied>>

MainSelect ==
  /\ main = "select"
  /\ \/ mainCh /\ mainCh' = FALSE
     \/ ctx /\ UNCHANGED mainCh
  /\ ctx' = TRUE                                    \* stop()
  /\ main' = "copy"
  /\ UNCHANGED <<loop, run, next, listener, errCh, taken, copied>>

\* Shutdown copies the lists of listeners under the lock.
ShutdownCopy ==
  /\ main = "copy"
  /\ taken' = {p \in Listeners : listener[p] # "off"}
  /\ copied' = taken'
  /\ main' = "close"
  /\ UNCHANGED <<ctx, mainCh, loop, run, next, listener, errCh>>

\* Mutation: Shutdown returns at the first error.
AfterCloseGivesUp(p, ok) == IF ok THEN copied \ {p} ELSE {}

\* Shutdown goes on with the other listeners after an error.
AfterClose(p, ok) == copied \ {p}

\* Close, or Shutdown(ctx), which reports an error when requests outlive the
\* timeout; the listener is closed in either case.
ShutdownClose(p, ok) ==
  /\ main = "close" /\ p \in copied
  /\ listener' = [listener EXCEPT ![p] = IF @ = "open" THEN "closed" ELSE @]
  /\ copied' = AfterClose(p, ok)
  /\ UNCHANGED <<main, ctx, mainCh, loop, run, next, errCh, taken>>

Exit ==
  /\ main = "close" /\ copied = {}
  /\ main' = "exit"
  /\ UNCHANGED <<ctx, mainCh, loop, run, next, listener, errCh, taken, copied>>

RunStep == StartListener \/ Started \/ RunReturns \/ RunReports
MainStep ==
  MainSelect \/ ShutdownCopy \/ Exit
  \/ \E p \in Listeners, ok \in BOOLEAN : ShutdownClose(p, ok)

Next ==
  \/ RunStep \/ ListenFails \/ MainStep \/ Signal
  \/ \E p \in Listeners : ListenerFails(p)
  \/ \E l \in Loops : LoopFails(l) \/ LoopCancelled(l) \/ LoopReports(l)

Spec == Init /\ [][Next]_vars

\* Goroutines keep running; nothing need fail and no signal need come.
FairSpec ==
  /\ Spec
  /\ WF_vars(RunStep) /\ WF_vars(MainStep)
  /\ \A l \in Loops : WF_vars(LoopReports(l))

-----------------------------------------------------------------------------
\* Every variable has its type; startAll never runs past its listeners.
TypeOK ==
  /\ main \in {"select", "copy", "close", "exit"}
  /\ ctx \in BOOLEAN /\ mainCh \in BOOLEAN /\ errCh \in BOOLEAN
  /\ loop \in [Loops -> {"running", "reporting", "ended"}]
  /\ run \in {"starting", "select", "reporting", "ended"}
  /\ next \in 1..(Ports + 1)
  /\ listener \in [Listeners -> {"off", "open", "failed", "closed"}]
  /\ taken \subseteq Listeners /\ copied \subseteq taken

\* A listener that dies while the runtime is still starting, or while another
\* error is being reported, is not forgotten: the server stops (Runtime.errCh,
\* reportError).
DeadListenerStopsServer ==
  \A p \in Listeners : listener[p] = "failed" ~> main = "exit"

\* A dispatcher, janitor or push loop that gives up takes the server down with
\* it, however many of them fail at once and with runtimeErrCh full.
FailedLoopStopsServer ==
  \A l \in Loops : loop[l] = "reporting" ~> main = "exit"

\* Every listener known when the shutdown began is closed at the exit, however
\* many of the closes before it failed or ran into the timeout.
ExitClosesListeners ==
  main = "exit" => \A p \in taken : listener[p] # "open"
=============================================================================
