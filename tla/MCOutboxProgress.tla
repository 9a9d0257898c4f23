-------------------------- MODULE MCOutboxProgress --------------------------
(***************************************************************************)
(* Outbox for the liveness properties, which cost more than the safety     *)
(* ones, in two instances: all claimers and the janitor over a segment     *)
(* that only ever gets one event ("actors"), and several events with the   *)
(* dispatcher as the only claimer and no janitor ("events").  Fairness is  *)
(* that of FairSpec, for the actors of the instance.                       *)
(***************************************************************************)
EXTENDS Outbox

VARIABLE load

TheEvent == CHOOSE e \in Events : TRUE

Runs(c) == load = "actors" \/ c = Dispatcher

MCInit == Init /\ load \in {"actors", "events"}

MCNext ==
  /\ Next
  /\ load = "actors" => \A e \in Events \ {TheEvent} : apc'[e] = "idle"
  /\ load = "events" => jpc' = "idle" /\ \A c \in Claimers : ~Runs(c) => cpc'[c] = "idle"
  /\ UNCHANGED load

MCSpec ==
  /\ MCInit /\ [][MCNext]_<<vars, load>>
  /\ \A c \in Claimers : /\ WF_vars(Runs(c) /\ ClaimStep(c))
                         /\ SF_vars(Runs(c) /\ ClaimWaits(c))
  /\ \A a \in Ackers : WF_vars(AckStep(a)) /\ SF_vars(AckWaits(a))
  /\ WF_vars(Tick)
=============================================================================
