----------------------------- MODULE MCSessions -----------------------------
(***************************************************************************)
(* Sessions, and Devices with the same users; the connections are among    *)
(* the calls of Devices.  The two share no rows: part says which of them   *)
(* runs.                                                                   *)
(***************************************************************************)
EXTENDS Sessions, Devices, TLC

VARIABLE part

MCInit == Init /\ DevInit /\ part \in {"sessions", "devices"}

MCNext ==
  /\ \/ part = "sessions" /\ Next /\ UNCHANGED devVars
     \/ part = "devices" /\ DevNext /\ UNCHANGED vars
  /\ UNCHANGED part

MCSpec == MCInit /\ [][MCNext]_<<vars, devVars, part>>

\* No packages, or one that expires while the clock runs and a last-resort package
\* that does not.
MCBatches == {{}, {[last |-> FALSE, expires |-> 1], [last |-> TRUE, expires |-> 2]}}

\* The calls of Devices play the same role too, but only those that are connections
\* of Sessions are exchanged: more permutations cost more than they save.
Symmetry == Permutations(Users) \cup Permutations(Devices) \cup Permutations(Ids)
              \cup Permutations(Conns)
=============================================================================
