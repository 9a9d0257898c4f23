---------------------------- MODULE MCMessaging -----------------------------
(***************************************************************************)
(* Messaging with one connection, of user a; ListPages; and Usage.  They   *)
(* share no rows: part says which of them runs.                            *)
(***************************************************************************)
EXTENDS Messaging, ListPages, Usage, TLC

CONSTANTS a, b, k1

Only == k1 :> a

VARIABLE part

\* The parts that do not run start in one state.
MCInit ==
  /\ Init /\ PageInit /\ UseInit
  /\ \/ part = "messaging"
     \/ part \in {"pages", "usage"} /\ ~direct /\ sessions = {a} \X Devices
  /\ \/ part = "pages"
     \/ /\ part \in {"messaging", "usage"}
        /\ list = ListFriends /\ present = {} /\ \A x \in Rows, k \in Keys : key[x] <= k

MCNext ==
  /\ \/ part = "messaging" /\ Next /\ UNCHANGED <<pageVars, useVars>>
     \/ part = "pages" /\ PageNext /\ UNCHANGED <<vars, useVars>>
     \/ part = "usage" /\ UseNext /\ UNCHANGED <<vars, pageVars>>
  /\ UNCHANGED part

MCSpec == MCInit /\ [][MCNext]_<<vars, pageVars, useVars, part>>
=============================================================================
