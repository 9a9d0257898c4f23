------------------------------- MODULE Usage --------------------------------
(***************************************************************************)
(* The usage statistics of one user: rows of user_usage_stats, one per     *)
(* kind of period and start of the period.  The read loop and the push     *)
(* goroutine of every connection of the user record what they have handled *)
(* in one statement, with a time that was read before it.                  *)
(*                                                                         *)
(* Requests stand for all three counters.  Time is counted in minutes and  *)
(* periods are shortened; as in the calendar an hour divides a day and a   *)
(* day divides a week and a month, and a week does not divide a month.     *)
(***************************************************************************)
EXTENDS Naturals, FiniteSetsExt

CONSTANTS
  Recorders,  \* calls of recordUsage
  Amounts,    \* requests they report
  Horizon     \* bound: the clock stops here

ASSUME UsageAssumption == Amounts \subseteq Nat /\ Horizon \in Nat

VARIABLES
  usage,   \* user_usage_stats.requests of each kind and start, 0 without a row
  report,  \* each call: its step, time and requests
  minute   \* the clock

useVars == <<usage, report, minute>>

Length == [minute |-> 1, hour |-> 2, day |-> 4, week |-> 8, month |-> 12]
Periods == DOMAIN Length \cup {"allTime"}

\* date_trunc; allTime has one row.
DateTrunc(p, t) == IF p = "allTime" THEN 0 ELSE t - (t % Length[p])

UseInit ==
  /\ usage = [p \in Periods |-> [b \in 0..Horizon |-> 0]]
  /\ report = [c \in Recorders |-> [step |-> "new", at |-> 0, requests |-> 0]]
  /\ minute = 0

\* RecordUserUsage of the service; nothing to report writes nothing.
RecordUsage(c, n) ==
  /\ report[c].step = "new" /\ n > 0
  /\ report' = [report EXCEPT ![c] = [step |-> "write", at |-> minute, requests |-> n]]
  /\ UNCHANGED <<usage, minute>>

\* Mutation: a second report of a period replaces the first.
AddedOver(p, b, c) ==
  IF b = DateTrunc(p, report[c].at) THEN report[c].requests ELSE usage[p][b]

\* DO UPDATE SET requests = user_usage_stats.requests + EXCLUDED.requests
Added(p, b, c) ==
  usage[p][b] + (IF b = DateTrunc(p, report[c].at) THEN report[c].requests ELSE 0)

\* The rows of all kinds are upserted by one statement.
RecordUserUsage(c) ==
  /\ report[c].step = "write"
  /\ usage' = [p \in Periods |-> [b \in 0..Horizon |-> Added(p, b, c)]]
  /\ report' = [report EXCEPT ![c].step = "written"]
  /\ UNCHANGED minute

\* The error is logged.
RecordFails(c) ==
  /\ report[c].step = "write"
  /\ report' = [report EXCEPT ![c].step = "failed"]
  /\ UNCHANGED <<usage, minute>>

UseTick ==
  /\ minute < Horizon
  /\ minute' = minute + 1
  /\ UNCHANGED <<usage, report>>

UseNext ==
  \/ UseTick
  \/ \E c \in Recorders :
       (\E n \in Amounts : RecordUsage(c, n)) \/ RecordUserUsage(c) \/ RecordFails(c)

UseSpec == UseInit /\ [][UseNext]_useVars

\* What getMyUsageStats answers for the period p that now is in.
GetUserUsageStats(p) == usage[p][DateTrunc(p, minute)]

-----------------------------------------------------------------------------
Written == {c \in Recorders : report[c].step = "written"}

\* The requests of the reports about the period p that the minute t is in.
Reported(p, t) ==
  MapThenSumSet(LAMBDA c : report[c].requests,
                {c \in Written : DateTrunc(p, report[c].at) = DateTrunc(p, t)})

\* Nothing is lost or counted twice when reports overlap, fail or are written in a
\* later period than the one they are about: each period holds the sum of the
\* requests that were handled in it, and the answer is that of the periods that
\* now is in (RecordUserUsage, GetUserUsageStats).
UsageIsSum ==
  \A p \in Periods :
    /\ \A t \in 0..minute : usage[p][DateTrunc(p, t)] = Reported(p, t)
    /\ GetUserUsageStats(p) = Reported(p, minute)
=============================================================================
