----------------------------- MODULE MCProcess ------------------------------
(***************************************************************************)
(* The goroutines of the server process: Lifecycle, PushNotifier and the   *)
(* pulls of EventLog.  They share no state: part says which of them runs,  *)
(* and fairness is that of the running one.  Not symmetric: the run checks *)
(* liveness properties.                                                    *)
(***************************************************************************)
EXTENDS Lifecycle, PushNotifier, EventLog

\* The TCP port, then the HTTP and the WebSocket port.
TCPFirst == <<TRUE, FALSE, FALSE>>

VARIABLE part

Is(x) == part = x

MCInit == Init /\ PushInit /\ LogInit /\ part \in {"lifecycle", "push", "log"}

MCNext ==
  /\ \/ Is("lifecycle") /\ Next /\ UNCHANGED <<pushVars, logVars>>
     \/ Is("push") /\ PushNext /\ UNCHANGED <<vars, logVars>>
     \/ Is("log") /\ LogNext /\ UNCHANGED <<vars, pushVars>>
  /\ UNCHANGED part

\* The fairness of FairSpec, of PushFairSpec and of LogFairSpec.
MCSpec ==
  /\ MCInit /\ [][MCNext]_<<vars, pushVars, logVars, part>>
  /\ WF_vars(Is("lifecycle") /\ RunStep) /\ WF_vars(Is("lifecycle") /\ MainStep)
  /\ \A l \in Loops : WF_vars(Is("lifecycle") /\ LoopReports(l))
  /\ \A c \in Callers : WF_pushVars(Is("push") /\ NotifyOutboxEvent(c))
  /\ WF_pushVars(Is("push") /\ Work)
  /\ \A p \in Pullers : WF_logVars(Is("log") /\ PullStep(p))
  /\ \A e \in Log : WF_logVars(Is("log") /\ AcknowledgeEvent(e))
  /\ \A e \in Log : WF_logVars(Is("log") /\ CoolDown(e))
=============================================================================
