--------------------------- MODULE SessionsProofs ---------------------------
(***************************************************************************)
(* Proofs about Sessions, for any number of users, devices, sessions and   *)
(* connections, and about Devices, for any number of accounts and calls    *)
(* and uploads of any size.                                                *)
(*                                                                         *)
(* SessionInv is inductive: besides the four properties it says what a     *)
(* packet in progress and a connection know of a session: the row they     *)
(* name exists, and a row that exists is never written again by            *)
(* RequestAuthChallenge.  So is DevInv: a call that deletes has seen every *)
(* row of its past or the row is gone, and what an upload has inserted is  *)
(* there as long as no other call deletes after it.                        *)
(***************************************************************************)
EXTENDS Sessions, Devices, TLAPS

\* A packet in progress is about a row that exists, and a solve was in time.
Knows(c) ==
  /\ pc[c] \in {"solve", "lookup", "subscribe"} => arg[c] \in Ids /\ user[arg[c]] # NULL
  /\ pc[c] = "solve" => t[c] <= expiresAt[arg[c]]
  /\ pc[c] = "subscribe" => arg[c] \in authenticated
  /\ pc[c] = "profile" => conn[c].authenticated

\* A connection holds a session whose row exists.
Holds(c) ==
  /\ conn[c].id # NULL => user[conn[c].id] # NULL
  /\ conn[c].authenticated => conn[c].id # NULL

CallInv == \A c \in Conns : Knows(c) /\ Holds(c)

SessionInv ==
  /\ TypeOK /\ CallInv /\ LoginIsWhole /\ StateIsOneSession /\ SubscriptionBacked

-----------------------------------------------------------------------------
LEMMA SessionInit == Init => SessionInv
  BY SessionsAssumption
  DEF Init, SessionInv, TypeOK, CallInv, Knows, Holds, LoginIsWhole,
      StateIsOneSession, SubscriptionBacked, NoState

\* requestAuthChallenge writes a row that nothing names yet.
LEMMA ChallengeKeeps ==
  ASSUME SessionInv, NEW c \in Conns, NEW s \in Ids, NEW u \in Users,
         NEW d \in Devices, RequestAuthChallenge(c, s, u, d)
  PROVE  SessionInv'
<1> USE SessionsAssumption DEF SessionInv, GetSession, CreateSession, Challenged
<1>1. TypeOK'
  BY DEF TypeOK, RequestAuthChallenge, profileVars, subVars, callVars
<1>2. CallInv'
  BY DEF TypeOK, CallInv, Knows, Holds, RequestAuthChallenge, callVars
<1>3. LoginIsWhole'
  BY DEF TypeOK, LoginIsWhole, RequestAuthChallenge, profileVars
<1>4. StateIsOneSession'
  <2> SUFFICES ASSUME NEW k \in Conns, conn'[k].id # NULL
               PROVE  /\ conn'[k].user = user'[conn'[k].id]
                      /\ conn'[k].device = device'[conn'[k].id]
    BY DEF StateIsOneSession
  <2>1. CASE k = c
    BY <2>1 DEF TypeOK, RequestAuthChallenge
  <2>2. CASE k # c
    BY <2>2 DEF TypeOK, CallInv, Holds, StateIsOneSession, RequestAuthChallenge
  <2> QED BY <2>1, <2>2
<1>5. SubscriptionBacked'
  BY DEF TypeOK, LoginIsWhole, SubscriptionBacked, RequestAuthChallenge, subVars
<1> QED BY <1>1, <1>2, <1>3, <1>4, <1>5

\* The steps of a packet that read, and the end of a packet.
LEMMA PacketKeeps ==
  ASSUME SessionInv, NEW c \in Conns,
         \/ \E s \in Ids : SolveRead(c, s)
         \/ SolveLookup(c) \/ Fails(c) \/ SubscribeRead(c)
         \/ ProfileCompleted(c) \/ Close(c)
  PROVE  SessionInv'
<1> USE SessionsAssumption DEF SessionInv, sessionVars, profileVars, subVars
<1>1. CASE \E s \in Ids : SolveRead(c, s)
  <2> PICK s \in Ids : SolveRead(c, s) BY <1>1
  <2> USE DEF SolveRead, GetSession, InTime, Begin
  <2>1. TypeOK' BY DEF TypeOK
  <2>2. CallInv' BY DEF TypeOK, CallInv, Knows, Holds
  <2>3. LoginIsWhole' /\ StateIsOneSession' /\ SubscriptionBacked'
    BY DEF LoginIsWhole, StateIsOneSession, SubscriptionBacked
  <2> QED BY <2>1, <2>2, <2>3
<1>2. CASE SolveLookup(c)
  <2> USE <1>2 DEF SolveLookup, End
  <2>0. arg[c] \in Ids /\ user[arg[c]] # NULL BY DEF CallInv, Knows
  <2>1. TypeOK' BY <2>0 DEF TypeOK
  <2>2. CallInv' BY <2>0 DEF TypeOK, CallInv, Knows, Holds
  <2>3. LoginIsWhole' /\ StateIsOneSession' /\ SubscriptionBacked'
    BY <2>0 DEF TypeOK, CallInv, Knows, LoginIsWhole, StateIsOneSession, SubscriptionBacked
  <2> QED BY <2>1, <2>2, <2>3
<1>3. CASE Fails(c)
  <2> USE <1>3 DEF Fails, End
  <2>1. TypeOK' BY DEF TypeOK
  <2>2. CallInv' BY DEF TypeOK, CallInv, Knows, Holds
  <2>3. LoginIsWhole' /\ StateIsOneSession' /\ SubscriptionBacked'
    BY DEF LoginIsWhole, StateIsOneSession, SubscriptionBacked
  <2> QED BY <2>1, <2>2, <2>3
<1>4. CASE SubscribeRead(c)
  <2> USE <1>4 DEF SubscribeRead, MaySubscribe, Begin
  <2>1. TypeOK' BY DEF TypeOK
  <2>2. CallInv' BY DEF TypeOK, CallInv, Knows, Holds
  <2>3. LoginIsWhole' /\ StateIsOneSession' /\ SubscriptionBacked'
    BY DEF LoginIsWhole, StateIsOneSession, SubscriptionBacked
  <2> QED BY <2>1, <2>2, <2>3
<1>5. CASE ProfileCompleted(c)
  <2> USE <1>5 DEF ProfileCompleted, End
  <2>1. TypeOK' BY DEF TypeOK
  <2>2. CallInv' BY DEF TypeOK, CallInv, Knows, Holds
  <2>3. LoginIsWhole' /\ StateIsOneSession' /\ SubscriptionBacked'
    BY DEF TypeOK, CallInv, Knows, LoginIsWhole, StateIsOneSession, SubscriptionBacked
  <2> QED BY <2>1, <2>2, <2>3
<1>6. CASE Close(c)
  <2> USE <1>6 DEF Close, End, NoState
  <2>1. TypeOK' BY DEF TypeOK
  <2>2. CallInv' BY DEF TypeOK, CallInv, Knows, Holds
  <2>3. LoginIsWhole' /\ StateIsOneSession' /\ SubscriptionBacked'
    BY DEF TypeOK, CallInv, Knows, LoginIsWhole, StateIsOneSession, SubscriptionBacked
  <2> QED BY <2>1, <2>2, <2>3
<1> QED BY <1>1, <1>2, <1>3, <1>4, <1>5, <1>6

\* The transaction of a solve writes all that LoginIsWhole asks for.
LEMMA MarkKeeps ==
  ASSUME SessionInv, NEW c \in Conns, SolveMark(c)
  PROVE  SessionInv'
<1> USE SessionsAssumption
    DEF SessionInv, SolveMark, MarkAuthenticated, TouchProfile, subVars
<1>0. arg[c] \in Ids /\ user[arg[c]] # NULL /\ t[c] <= expiresAt[arg[c]]
  BY DEF CallInv, Knows
<1>1. TypeOK' BY <1>0 DEF TypeOK
<1>2. CallInv' BY <1>0 DEF TypeOK, CallInv, Knows, Holds
<1>3. LoginIsWhole' BY <1>0 DEF TypeOK, LoginIsWhole
<1>4. StateIsOneSession' /\ SubscriptionBacked'
  BY DEF StateIsOneSession, SubscriptionBacked
<1> QED BY <1>1, <1>2, <1>3, <1>4

LEMMA SubscriptionKeeps ==
  ASSUME SessionInv, NEW c \in Conns, NEW b \in Subscriptions,
         SubscribeToEvents(c, b) \/ UnsubscribeFromEvents(c, b)
  PROVE  SessionInv'
<1> USE SessionsAssumption DEF SessionInv, sessionVars, profileVars, callVars
<1>1. CASE SubscribeToEvents(c, b)
  <2> USE <1>1 DEF SubscribeToEvents, CreateSubscription, End
  <2>0. arg[c] \in Ids /\ user[arg[c]] # NULL /\ arg[c] \in authenticated
    BY DEF CallInv, Knows
  <2>1. TypeOK' BY <2>0 DEF TypeOK
  <2>2. CallInv' BY DEF TypeOK, CallInv, Knows, Holds
  <2>3. LoginIsWhole' /\ StateIsOneSession'
    BY DEF LoginIsWhole, StateIsOneSession
  <2>4. SubscriptionBacked' BY <2>0 DEF TypeOK, SubscriptionBacked
  <2> QED BY <2>1, <2>2, <2>3, <2>4
<1>2. CASE UnsubscribeFromEvents(c, b)
  <2> USE <1>2 DEF UnsubscribeFromEvents, DeactivateSubscription
  <2>1. TypeOK' BY DEF TypeOK
  <2>2. CallInv' BY DEF CallInv, Knows, Holds
  <2>3. LoginIsWhole' /\ StateIsOneSession' /\ SubscriptionBacked'
    BY DEF LoginIsWhole, StateIsOneSession, SubscriptionBacked
  <2> QED BY <2>1, <2>2, <2>3
<1> QED BY <1>1, <1>2

LEMMA ProfileKeeps ==
  ASSUME SessionInv, NEW c \in Conns, NEW name \in BOOLEAN, UpdateProfile(c, name)
  PROVE  SessionInv'
<1> USE SessionsAssumption
    DEF SessionInv, UpdateProfile, SetName, Begin, sessionVars, subVars
<1>0. conn[c].user \in Users
  BY DEF TypeOK, CallInv, Holds, StateIsOneSession
<1>1. TypeOK' BY <1>0 DEF TypeOK
<1>2. CallInv' BY DEF TypeOK, CallInv, Knows, Holds
<1>3. LoginIsWhole' BY DEF LoginIsWhole
<1>4. StateIsOneSession' /\ SubscriptionBacked'
  BY DEF StateIsOneSession, SubscriptionBacked
<1> QED BY <1>1, <1>2, <1>3, <1>4

LEMMA IdleKeeps ==
  ASSUME SessionInv, Tick \/ UNCHANGED vars
  PROVE  SessionInv'
<1> USE DEF SessionInv, sessionVars, profileVars, subVars, callVars
<1>1. CASE Tick
  <2>1. TypeOK' BY <1>1, SessionsAssumption DEF TypeOK, Tick
  <2>2. CallInv' BY <1>1 DEF CallInv, Knows, Holds, Tick
  <2>3. LoginIsWhole' /\ StateIsOneSession' /\ SubscriptionBacked'
    BY <1>1 DEF LoginIsWhole, StateIsOneSession, SubscriptionBacked, Tick
  <2> QED BY <2>1, <2>2, <2>3
<1>2. CASE UNCHANGED vars
  BY <1>2 DEF TypeOK, CallInv, Knows, Holds, LoginIsWhole, StateIsOneSession,
              SubscriptionBacked, vars
<1> QED BY <1>1, <1>2

\* SessionInv is an invariant of the specification.
THEOREM SessionInvariant == Spec => []SessionInv
<1>1. SessionInv /\ [Next]_vars => SessionInv'
  <2> SUFFICES ASSUME SessionInv, [Next]_vars PROVE SessionInv'
    OBVIOUS
  <2>1. CASE Tick \/ UNCHANGED vars BY <2>1, IdleKeeps
  <2>2. CASE \E c \in Conns : Packet(c)
    <3> PICK c \in Conns : Packet(c) BY <2>2
    <3> QED BY ChallengeKeeps, PacketKeeps, MarkKeeps, SubscriptionKeeps, ProfileKeeps
            DEF Packet
  <2> QED BY <2>1, <2>2 DEF Next
<1> QED BY SessionInit, <1>1, PTL DEF Spec

-----------------------------------------------------------------------------
\* Every table and every connection keeps its type.
THEOREM SessionsTypeCorrect == Spec => []TypeOK
  BY SessionInvariant, PTL DEF SessionInv

\* A login is all or nothing, for every number of connections that solve
\* challenges at once and every failure between their statements.
THEOREM LoginIsWholeAlways == Spec => []LoginIsWhole
  BY SessionInvariant, PTL DEF SessionInv

\* A connection never mixes the fields of two sessions.
THEOREM StateIsOneSessionAlways == Spec => []StateIsOneSession
  BY SessionInvariant, PTL DEF SessionInv

\* Every subscription is that of an authenticated session.
THEOREM SubscriptionBackedAlways == Spec => []SubscriptionBacked
  BY SessionInvariant, PTL DEF SessionInv

-----------------------------------------------------------------------------
(* Devices: what a call that deletes knows of the rows *)

TokenRow == [id : Jobs, job : Jobs, by : Accounts]
PackageRow == [job : Jobs, by : Accounts, at : Nat, last : BOOLEAN, expires : Nat]
Kinds == {"none", "register", "upload", "remove", "account"}

JobType ==
  job \in [Jobs -> [kind : Kinds, by : SUBSET Accounts, step : Steps, at : Nat,
                    todo : SUBSET Package, carried : SUBSET Package,
                    saw : SUBSET (Jobs \cup TokenRow \cup PackageRow), wiped : BOOLEAN]]

\* How far a call has come.
StepOK(j) ==
  /\ job[j].todo \subseteq job[j].carried /\ \A u, v \in job[j].by : u = v
  /\ job[j].step = "new" => ~job[j].wiped
  /\ job[j].step = "token" => job[j].kind = "remove"
  /\ job[j].step \in {"packages", "commit"} =>
       job[j].kind = "account" /\ \A r \in job[j].saw : r.by \in job[j].by
  /\ job[j].step = "wipe" => job[j].kind \in {"upload", "remove"}
  /\ job[j].step = "insert" => job[j].kind = "upload"
  /\ job[j].kind = "upload" =>
       /\ job[j].step = "wipe" => job[j].todo = job[j].carried
       /\ job[j].step = "answered" => job[j].todo = {}
       /\ job[j].step \in {"insert", "answered"} /\ job[j].carried # {} => job[j].wiped

\* A call that is in another's past has ended.
BeforeOK == \A c, d \in Jobs : <<c, d>> \in before => c \in Ended

\* A removal or an account deletion has seen every token of its past, or it is gone.
TokensOK(d) ==
  /\ job[d].step = "token" =>
       \A k \in TokensOf(job[d].by) : k.id \in job[d].saw \/ <<k.job, d>> \notin before
  /\ job[d].step \in {"packages", "commit"} =>
       \A k \in TokensOf(job[d].by) : k \in job[d].saw \/ <<k.job, d>> \notin before
  /\ job[d].kind # "upload" /\ (job[d].step = "wipe" \/ job[d].wiped) =>
       \A k \in TokensOf(job[d].by) : <<k.job, d>> \notin before

\* So it is with the packages.
PackagesOK(d) ==
  /\ job[d].step = "commit" =>
       \A p \in PackagesOf(job[d].by) : p \in job[d].saw \/ <<p.job, d>> \notin before
  /\ job[d].wiped => \A p \in PackagesOf(job[d].by) : <<p.job, d>> \notin before

\* A package is of an upload that has wiped, and has its time.
OriginOK ==
  \A p \in packages :
    /\ job[p.job].kind = "upload" /\ job[p.job].wiped
    /\ p.by \in job[p.job].by /\ p.at = job[p.job].at

RowOf(c, u, q) ==
  [job |-> c, by |-> u, at |-> job[c].at, last |-> q.last, expires |-> q.expires]

\* Every other call that deleted packages of u was over when c began.
LastWord(c, u) ==
  \A d \in Jobs \ {c} : job[d].wiped /\ u \in job[d].by => <<d, c>> \in before

\* What an upload that has the last word has inserted is there.
InsertedOK(c) ==
  job[c].kind = "upload" /\ job[c].wiped =>
    \A u \in job[c].by : LastWord(c, u) =>
      \A q \in job[c].carried \ job[c].todo : RowOf(c, u, q) \in packages

DevInv ==
  /\ DevTypeOK /\ JobType /\ BeforeOK /\ OriginOK
  /\ \A j \in Jobs : StepOK(j) /\ TokensOK(j) /\ PackagesOK(j) /\ InsertedOK(j)

\* A step of call j, which has not ended, leaves what is known of the other calls: its
\* new rows are not in their past, and it deletes packages of an account only as one
\* that has wiped, so that no other upload of the account has the last word.
LEMMA OthersKeep ==
  ASSUME DevInv, JobType', NEW j \in Jobs, j \notin Ended,
         \A d \in Jobs \ {j} : job'[d] = job[d],
         job[j].wiped => job'[j].wiped /\ job'[j].by = job[j].by,
         before \subseteq before',
         \A c \in Jobs, d \in Jobs \ {j} : <<c, d>> \in before' => <<c, d>> \in before,
         \A k \in tokens' \ tokens : k.job = j,
         \A p \in packages' \ packages : p.job = j,
         \A p \in packages \ packages' : p.by \in job'[j].by /\ job'[j].wiped,
         NEW d \in Jobs \ {j}
  PROVE  StepOK(d)' /\ TokensOK(d)' /\ PackagesOK(d)' /\ InsertedOK(d)'
<1>1. <<j, d>> \notin before'
  BY DEF DevInv, BeforeOK
<1>2. StepOK(d)'
  BY DEF DevInv, StepOK
<1>3. TokensOK(d)'
  <2>1. \A k \in tokens' : k \in tokens \/ <<k.job, d>> \notin before'
    BY <1>1
  <2>2. \A k \in tokens : k.job \in Jobs
    BY DEF DevInv, DevTypeOK
  <2>3. \A k \in tokens : <<k.job, d>> \in before' => <<k.job, d>> \in before
    BY <2>2
  <2> QED BY <2>1, <2>3 DEF DevInv, TokensOK, TokensOf
<1>4. PackagesOK(d)'
  <2>1. \A p \in packages' : p \in packages \/ <<p.job, d>> \notin before'
    BY <1>1
  <2>2. \A p \in packages : p.job \in Jobs
    BY DEF DevInv, DevTypeOK
  <2>3. \A p \in packages : <<p.job, d>> \in before' => <<p.job, d>> \in before
    BY <2>2
  <2> QED BY <2>1, <2>3 DEF DevInv, PackagesOK, PackagesOf
<1>5. InsertedOK(d)'
  <2> SUFFICES ASSUME job[d].kind = "upload", job[d].wiped, NEW u \in job[d].by, LastWord(d, u)',
                      NEW q \in job[d].carried \ job[d].todo
               PROVE  RowOf(d, u, q)' \in packages'
    BY DEF InsertedOK
  <2>1. LastWord(d, u)
    <3> SUFFICES ASSUME NEW e \in Jobs \ {d}, job[e].wiped, u \in job[e].by
                 PROVE  <<e, d>> \in before
      BY DEF LastWord
    <3>1. job'[e].wiped /\ u \in job'[e].by
      OBVIOUS
    <3> QED BY <3>1 DEF LastWord
  <2>2. RowOf(d, u, q) \in packages /\ RowOf(d, u, q)' = RowOf(d, u, q)
    BY <2>1 DEF DevInv, InsertedOK, RowOf
  <2>3. RowOf(d, u, q).by = u
    BY DEF RowOf
  <2>4. ~(u \in job'[j].by /\ job'[j].wiped)
    BY <1>1 DEF LastWord
  <2> QED BY <2>2, <2>3, <2>4
<1> QED BY <1>2, <1>3, <1>4, <1>5

\* A call begins.
LEMMA StartKeeps ==
  ASSUME DevInv, NEW j \in Jobs, NEW u \in Accounts, NEW kind \in Kinds,
         NEW step \in Steps \ {"commit"}, NEW b \in SUBSET Package,
         NEW s \in SUBSET (Jobs \cup TokenRow \cup PackageRow),
         StartJob(j, kind, u, step, b, s),
         packages' = packages, tokens' \subseteq TokenRow,
         \A k, l \in tokens' : k.by = l.by => k = l,
         \A k \in tokens' \ tokens : k.job = j,
         StepOK(j)', TokensOK(j)'
  PROVE  DevInv'
<1> DEFINE new == [kind |-> kind, by |-> {u}, step |-> step, at |-> now,
                   todo |-> b, carried |-> b, saw |-> s, wiped |-> FALSE]
<1>1. /\ job[j].step = "new" /\ now' = now /\ before' = before \cup (Ended \X {j})
      /\ job' = [job EXCEPT ![j] = new]
  BY DEF StartJob
<1>2. /\ job'[j].step = step /\ ~job'[j].wiped /\ ~job[j].wiped /\ j \notin Ended
      /\ \A d \in Jobs \ {j} : job'[d] = job[d]
  BY <1>1 DEF DevInv, JobType, StepOK, Ended
<1>3. JobType'
  <2>1. new \in [kind : Kinds, by : SUBSET Accounts, step : Steps, at : Nat,
                 todo : SUBSET Package, carried : SUBSET Package,
                 saw : SUBSET (Jobs \cup TokenRow \cup PackageRow), wiped : BOOLEAN]
    BY DEF DevInv, DevTypeOK
  <2> QED BY <1>1, <2>1 DEF DevInv, JobType
<1>4. Ended \subseteq Jobs /\ Ended \subseteq Ended'
  BY <1>2 DEF Ended
<1>5. DevTypeOK'
  <2>1. before' \subseteq Jobs \X Jobs
    BY <1>1, <1>4 DEF DevInv, DevTypeOK
  <2>2. \A d \in Jobs : job'[d].step \in Steps /\ job'[d].by \subseteq Accounts
    BY <1>3 DEF JobType
  <2> QED BY <1>1, <2>1, <2>2 DEF DevInv, DevTypeOK, TokenRow
<1>6. BeforeOK'
  BY <1>1, <1>4 DEF DevInv, BeforeOK
<1>7. \A p \in packages : p.job \in Jobs \ {j}
  BY <1>2 DEF DevInv, DevTypeOK, OriginOK
<1>8. OriginOK'
  BY <1>2, <1>7 DEF DevInv, OriginOK
<1>9. PackagesOK(j)' /\ InsertedOK(j)'
  BY <1>2 DEF PackagesOK, InsertedOK
<1>10. \A c \in Jobs, d \in Jobs \ {j} : <<c, d>> \in before' => <<c, d>> \in before
  BY <1>1
<1>11. \A d \in Jobs \ {j} : StepOK(d)' /\ TokensOK(d)' /\ PackagesOK(d)' /\ InsertedOK(d)'
  BY <1>1, <1>2, <1>3, <1>10, OthersKeep
<1> QED BY <1>3, <1>5, <1>6, <1>8, <1>9, <1>11 DEF DevInv

\* The call that has begun, in its own record.
LEMMA Started ==
  ASSUME DevInv, NEW j \in Jobs, NEW u, NEW kind, NEW step, NEW b, NEW s,
         StartJob(j, kind, u, step, b, s)
  PROVE  /\ job'[j].kind = kind /\ job'[j].by = {u} /\ job'[j].step = step
         /\ job'[j].todo = b /\ job'[j].carried = b /\ job'[j].saw = s /\ ~job'[j].wiped
  BY DEF StartJob, DevInv, JobType

LEMMA UpsertKeeps ==
  ASSUME DevInv, NEW j \in Jobs, NEW u \in Accounts, UpsertDevice(j, u)
  PROVE  DevInv'
<1> DEFINE mine == TokensOf({u})
           ids == IF mine = {} THEN {j} ELSE {k.id : k \in mine}
           new == {[id |-> i, job |-> j, by |-> u] : i \in ids}
<1>1. /\ StartJob(j, "register", u, "answered", {}, {})
      /\ tokens' = (tokens \ mine) \cup new /\ packages' = packages
  BY DEF UpsertDevice
<1>2. \A k \in tokens : k \in TokenRow /\ (k \in mine <=> k.by = u)
  BY DEF DevInv, DevTypeOK, TokenRow, TokensOf
<1>3. \E i \in Jobs : new = {[id |-> i, job |-> j, by |-> u]}
  <2>1. CASE mine = {}
    BY <2>1
  <2>2. CASE mine # {}
    <3>1. PICK k \in mine : TRUE
      BY <2>2
    <3>2. mine = {k} /\ k.id \in Jobs
      BY <1>2, <3>1 DEF DevInv, DevTypeOK, TokensOf
    <3> QED BY <2>2, <3>2
  <2> QED BY <2>1, <2>2
<1>4. PICK i \in Jobs : new = {[id |-> i, job |-> j, by |-> u]}
  BY <1>3
<1> DEFINE row == [id |-> i, job |-> j, by |-> u]
<1>5. row \in TokenRow /\ row.job = j /\ row.by = u
  BY DEF TokenRow
<1> HIDE DEF row, new, mine
<1>6. tokens' = (tokens \ mine) \cup {row}
  BY <1>1, <1>4 DEF row
<1>7. /\ tokens' \subseteq TokenRow
      /\ \A k, l \in tokens' : k.by = l.by => k = l
      /\ \A k \in tokens' \ tokens : k.job = j
  BY <1>2, <1>5, <1>6 DEF DevInv, DevTypeOK
<1>8. StepOK(j)' /\ TokensOK(j)'
  BY <1>1, Started DEF StepOK, TokensOK
<1> QED BY <1>1, <1>7, <1>8, StartKeeps DEF Kinds, Steps

LEMMA BeginKeeps ==
  ASSUME DevInv, NEW j \in Jobs, NEW u \in Accounts,
         RemoveDevice(j, u) \/ DeleteAccount(j, u) \/ \E b \in Batches : UploadKeyPackages(j, u, b)
  PROVE  DevInv'
<1>1. \A k \in TokensOf({u}) : k \in TokenRow /\ k.id \in Jobs /\ k.by = u
  BY DEF DevInv, DevTypeOK, TokenRow, TokensOf
<1>2. tokens' = tokens => /\ tokens' \subseteq TokenRow
                          /\ \A k, l \in tokens' : k.by = l.by => k = l
                          /\ \A k \in tokens' \ tokens : k.job = j
  BY DEF DevInv, DevTypeOK, TokenRow
<1>3. CASE RemoveDevice(j, u)
  <2> DEFINE ids == {k.id : k \in TokensOf({u})}
  <2>1. /\ StartJob(j, "remove", u, "token", {}, ids)
        /\ tokens' = tokens /\ packages' = packages
    BY <1>3 DEF RemoveDevice
  <2>2. /\ job'[j].kind = "remove" /\ job'[j].by = {u} /\ job'[j].step = "token"
        /\ job'[j].saw = ids /\ ~job'[j].wiped /\ job'[j].todo = {}
    BY <2>1, Started
  <2>3. StepOK(j)' /\ TokensOK(j)'
    BY <2>1, <2>2 DEF StepOK, TokensOK, TokensOf
  <2>4. ids \in SUBSET (Jobs \cup TokenRow \cup PackageRow)
    BY <1>1
  <2> QED BY <1>2, <2>1, <2>3, <2>4, StartKeeps DEF Kinds, Steps
<1>4. CASE DeleteAccount(j, u)
  <2>1. /\ StartJob(j, "account", u, "packages", {}, TokensOf({u}))
        /\ tokens' = tokens /\ packages' = packages
    BY <1>4 DEF DeleteAccount
  <2>2. /\ job'[j].kind = "account" /\ job'[j].by = {u} /\ job'[j].step = "packages"
        /\ job'[j].saw = TokensOf({u}) /\ ~job'[j].wiped /\ job'[j].todo = {}
    BY <2>1, Started
  <2>3. StepOK(j)' /\ TokensOK(j)'
    BY <1>1, <2>1, <2>2 DEF StepOK, TokensOK, TokensOf
  <2>4. TokensOf({u}) \in SUBSET (Jobs \cup TokenRow \cup PackageRow)
    BY <1>1
  <2> QED BY <1>2, <2>1, <2>3, <2>4, StartKeeps DEF Kinds, Steps
<1>5. CASE \E b \in Batches : UploadKeyPackages(j, u, b)
  <2>1. PICK b \in Batches : UploadKeyPackages(j, u, b)
    BY <1>5
  <2> DEFINE step == IF b = {} THEN "insert" ELSE "wipe"
  <2>2. /\ StartJob(j, "upload", u, step, b, {})
        /\ tokens' = tokens /\ packages' = packages
    BY <2>1 DEF UploadKeyPackages
  <2>3. /\ job'[j].kind = "upload" /\ job'[j].by = {u} /\ job'[j].step = step
        /\ job'[j].todo = b /\ job'[j].carried = b /\ ~job'[j].wiped
    BY <2>2, Started
  <2>4. StepOK(j)' /\ TokensOK(j)'
    BY <2>3 DEF StepOK, TokensOK
  <2>5. b \in SUBSET Package /\ step \in Steps \ {"commit"}
    BY DevicesAssumption DEF Steps
  <2> QED BY <1>2, <2>2, <2>4, <2>5, StartKeeps DEF Kinds
<1> QED BY <1>3, <1>4, <1>5

\* A call goes on: what it may change in the tables.
LEMMA GoesOn ==
  ASSUME DevInv, JobType', NEW j \in Jobs, j \notin Ended,
         \A d \in Jobs \ {j} : job'[d] = job[d],
         job'[j].kind = job[j].kind, job'[j].by = job[j].by, job'[j].at = job[j].at,
         job[j].wiped => job'[j].wiped,
         UNCHANGED <<now, before>>, tokens' \subseteq tokens,
         \A p \in packages' \ packages :
           /\ p \in PackageRow /\ p.job = j /\ p.by \in job[j].by /\ p.at = job[j].at
           /\ job[j].kind = "upload" /\ job'[j].wiped,
         \A p \in packages \ packages' : p.by \in job[j].by /\ job'[j].wiped,
         StepOK(j)', TokensOK(j)', PackagesOK(j)', InsertedOK(j)'
  PROVE  DevInv'
<1>1. Ended \subseteq Ended'
  BY DEF Ended
<1>2. DevTypeOK'
  <2>1. \A d \in Jobs : job'[d].step \in Steps /\ job'[d].by \subseteq Accounts
    BY DEF JobType
  <2>2. packages' \subseteq PackageRow
    BY DEF DevInv, DevTypeOK, PackageRow
  <2> QED BY <2>1, <2>2 DEF DevInv, DevTypeOK, PackageRow
<1>3. BeforeOK'
  BY <1>1 DEF DevInv, BeforeOK
<1>4. OriginOK'
  <2> SUFFICES ASSUME NEW p \in packages'
               PROVE  /\ job'[p.job].kind = "upload" /\ job'[p.job].wiped
                      /\ p.by \in job'[p.job].by /\ p.at = job'[p.job].at
    BY DEF OriginOK
  <2>1. CASE p \in packages
    <3>1. p.job \in Jobs
      BY <2>1 DEF DevInv, DevTypeOK
    <3>2. /\ job[p.job].kind = "upload" /\ job[p.job].wiped
          /\ p.by \in job[p.job].by /\ p.at = job[p.job].at
      BY <2>1 DEF DevInv, OriginOK
    <3>3. CASE p.job = j
      BY <3>2, <3>3
    <3>4. CASE p.job # j
      BY <3>1, <3>2, <3>4
    <3> QED BY <3>3, <3>4
  <2>2. CASE p \notin packages
    BY <2>2
  <2> QED BY <2>1, <2>2
<1>5. \A d \in Jobs \ {j} : StepOK(d)' /\ TokensOK(d)' /\ PackagesOK(d)' /\ InsertedOK(d)'
  BY OthersKeep
<1> QED BY <1>2, <1>3, <1>4, <1>5 DEF DevInv

LEMMA WipeKeeps ==
  ASSUME DevInv, NEW j \in Jobs, Wipe(j)
  PROVE  DevInv'
<1>1. /\ job[j].step = "wipe" /\ job[j].kind \in {"upload", "remove"}
      /\ packages' = packages \ PackagesOf(job[j].by)
      /\ UNCHANGED <<tokens, now, before>>
  BY DEF Wipe, DevInv, StepOK
<1>2. /\ JobType' /\ \A d \in Jobs \ {j} : job'[d] = job[d]
      /\ job'[j].kind = job[j].kind /\ job'[j].by = job[j].by /\ job'[j].at = job[j].at
      /\ job'[j].todo = job[j].todo /\ job'[j].carried = job[j].carried /\ job'[j].wiped
      /\ job'[j].step = IF job[j].kind = "upload" THEN "insert" ELSE "answered"
  BY DEF Wipe, DevInv, JobType, Steps
<1>3. j \notin Ended
  BY <1>1 DEF Ended
<1>4. StepOK(j)'
  BY <1>1, <1>2 DEF DevInv, StepOK
<1>5. TokensOK(j)'
  BY <1>1, <1>2 DEF DevInv, TokensOK, TokensOf
<1>6. PackagesOK(j)'
  BY <1>1, <1>2 DEF PackagesOK, PackagesOf
<1>7. InsertedOK(j)'
  BY <1>1, <1>2 DEF DevInv, StepOK, InsertedOK
<1>8. \A p \in packages \ packages' : p.by \in job[j].by
  BY <1>1 DEF PackagesOf
<1>9. packages' \subseteq packages /\ tokens' \subseteq tokens
  BY <1>1
<1> QED BY <1>1, <1>2, <1>3, <1>4, <1>5, <1>6, <1>7, <1>8, <1>9, GoesOn

LEMMA InsertKeeps ==
  ASSUME DevInv, NEW j \in Jobs, InsertKeyPackages(j)
  PROVE  DevInv'
<1>1. /\ job[j].step = "insert" /\ job[j].kind = "upload" /\ j \notin Ended
      /\ UNCHANGED <<tokens, now, before>> /\ <<j, j>> \notin before
  BY DEF InsertKeyPackages, DevInv, StepOK, Ended, BeforeOK
<1>2. CASE \E p \in job[j].todo, u \in job[j].by :
             /\ packages' = packages \cup {[job |-> j, by |-> u, at |-> job[j].at,
                                            last |-> p.last, expires |-> p.expires]}
             /\ job' = [job EXCEPT ![j].todo = @ \ {p}]
  <2>1. PICK p \in job[j].todo, u \in job[j].by :
             /\ packages' = packages \cup {[job |-> j, by |-> u, at |-> job[j].at,
                                            last |-> p.last, expires |-> p.expires]}
             /\ job' = [job EXCEPT ![j].todo = @ \ {p}]
    BY <1>2
  <2> DEFINE row == [job |-> j, by |-> u, at |-> job[j].at,
                     last |-> p.last, expires |-> p.expires]
  <2>2. p \in Package /\ u \in Accounts /\ job[j].at \in Nat
    BY DEF DevInv, JobType
  <2>3. row \in PackageRow /\ row.job = j /\ row.by = u /\ row.at = job[j].at
    BY <2>2 DEF PackageRow, Package
  <2>4. /\ JobType' /\ \A d \in Jobs \ {j} : job'[d] = job[d]
        /\ job'[j].kind = job[j].kind /\ job'[j].by = job[j].by /\ job'[j].at = job[j].at
        /\ job'[j].carried = job[j].carried /\ job'[j].wiped = job[j].wiped
        /\ job'[j].step = "insert" /\ job'[j].todo = job[j].todo \ {p}
    BY <1>1, <2>1 DEF DevInv, JobType
  <2>5. job[j].wiped
    <3>1. job[j].carried # {}
      BY DEF DevInv, JobType, StepOK
    <3> QED BY <1>1, <3>1 DEF DevInv, StepOK
  <2>6. StepOK(j)'
    BY <1>1, <2>4, <2>5 DEF DevInv, StepOK
  <2>7. TokensOK(j)'
    BY <1>1, <2>4 DEF TokensOK
  <2>8. PackagesOK(j)'
    BY <1>1, <2>1, <2>3, <2>4, <2>5 DEF DevInv, PackagesOK, PackagesOf
  <2>9. InsertedOK(j)'
    <3>1. LastWord(j, u)' <=> LastWord(j, u)
      BY <1>1, <2>4 DEF LastWord
    <3>2. \A q : RowOf(j, u, q)' = RowOf(j, u, q)
      BY <2>4 DEF RowOf
    <3>3. RowOf(j, u, p) = row
      BY DEF RowOf
    <3>4. \A v \in job'[j].by : v = u
      BY <2>4 DEF DevInv, StepOK
    <3>5. LastWord(j, u) => \A q \in job[j].carried \ job[j].todo : RowOf(j, u, q) \in packages
      BY <1>1, <2>5 DEF DevInv, InsertedOK
    <3>6. ASSUME LastWord(j, u), NEW q \in job'[j].carried \ job'[j].todo
          PROVE  RowOf(j, u, q) \in packages'
      BY <2>1, <2>4, <3>3, <3>5, <3>6
    <3> HIDE DEF row
    <3>7. SUFFICES ASSUME NEW v \in job'[j].by, LastWord(j, v)', NEW q \in job'[j].carried \ job'[j].todo
                   PROVE  RowOf(j, v, q)' \in packages'
      BY DEF InsertedOK
    <3>8. v = u
      BY <3>4
    <3>9. LastWord(j, u)'
      BY <3>7, <3>8
    <3> QED BY <3>1, <3>2, <3>6, <3>8, <3>9
  <2>10. packages' \ packages \subseteq {row} /\ packages \ packages' = {} /\ tokens' \subseteq tokens
    BY <1>1, <2>1
  <2> QED BY <1>1, <2>3, <2>4, <2>5, <2>6, <2>7, <2>8, <2>9, <2>10, GoesOn
<1>3. CASE /\ job[j].todo = {} /\ job' = [job EXCEPT ![j].step = "answered"]
           /\ UNCHANGED packages
  <2>1. /\ JobType' /\ \A d \in Jobs \ {j} : job'[d] = job[d]
        /\ job'[j].kind = job[j].kind /\ job'[j].by = job[j].by /\ job'[j].at = job[j].at
        /\ job'[j].carried = job[j].carried /\ job'[j].wiped = job[j].wiped
        /\ job'[j].step = "answered" /\ job'[j].todo = {}
    BY <1>3 DEF DevInv, JobType, Steps
  <2>2. StepOK(j)'
    BY <1>1, <2>1 DEF DevInv, StepOK
  <2>3. TokensOK(j)' /\ PackagesOK(j)'
    BY <1>1, <1>3, <2>1 DEF DevInv, TokensOK, PackagesOK, PackagesOf
  <2>4. InsertedOK(j)'
    BY <1>1, <1>3, <2>1 DEF DevInv, InsertedOK, LastWord, RowOf
  <2> QED BY <1>1, <1>3, <2>1, <2>2, <2>3, <2>4, GoesOn
<1> QED BY <1>2, <1>3 DEF InsertKeyPackages

LEMMA RemoveTokenKeeps ==
  ASSUME DevInv, NEW j \in Jobs, RemoveToken(j)
  PROVE  DevInv'
<1>1. /\ job[j].step = "token" /\ job[j].kind = "remove" /\ j \notin Ended
      /\ tokens' = {k \in tokens : k.id \notin job[j].saw}
      /\ UNCHANGED <<packages, now, before>>
  BY DEF RemoveToken, DevInv, StepOK, Ended
<1>2. /\ JobType' /\ \A d \in Jobs \ {j} : job'[d] = job[d]
      /\ job'[j].kind = job[j].kind /\ job'[j].by = job[j].by /\ job'[j].at = job[j].at
      /\ job'[j].todo = job[j].todo /\ job'[j].carried = job[j].carried
      /\ job'[j].wiped = job[j].wiped /\ job'[j].step = "wipe"
  BY DEF RemoveToken, DevInv, JobType, Steps
<1>3. StepOK(j)'
  BY <1>1, <1>2 DEF DevInv, StepOK
<1>4. TokensOK(j)'
  BY <1>1, <1>2 DEF DevInv, TokensOK, TokensOf
<1>5. PackagesOK(j)' /\ InsertedOK(j)'
  BY <1>1, <1>2 DEF DevInv, PackagesOK, PackagesOf, InsertedOK
<1>6. tokens' \subseteq tokens
  BY <1>1
<1> QED BY <1>1, <1>2, <1>3, <1>4, <1>5, <1>6, GoesOn

\* The two statements of a deletion's transaction, and its commit.
LEMMA DeletionKeeps ==
  ASSUME DevInv, NEW j \in Jobs, DeleteAccountPackages(j) \/ DeleteAccountCommit(j)
  PROVE  DevInv'
<1>1. CASE DeleteAccountPackages(j)
  <2>1. /\ job[j].step = "packages" /\ job[j].kind = "account" /\ j \notin Ended
        /\ UNCHANGED <<tokens, packages, now, before>>
    BY <1>1 DEF DeleteAccountPackages, DevInv, StepOK, Ended
  <2>2. PackagesOf(job[j].by) \subseteq PackageRow
    BY DEF DevInv, DevTypeOK, PackagesOf, PackageRow
  <2>3. /\ JobType' /\ \A d \in Jobs \ {j} : job'[d] = job[d]
        /\ job'[j].kind = job[j].kind /\ job'[j].by = job[j].by /\ job'[j].at = job[j].at
        /\ job'[j].todo = job[j].todo /\ job'[j].carried = job[j].carried
        /\ job'[j].wiped = job[j].wiped /\ job'[j].step = "commit"
        /\ job'[j].saw = job[j].saw \cup PackagesOf(job[j].by)
    BY <1>1, <2>2 DEF DeleteAccountPackages, DevInv, JobType, Steps
  <2>4. StepOK(j)'
    BY <2>1, <2>3 DEF DevInv, StepOK, PackagesOf
  <2>5. TokensOK(j)'
    BY <2>1, <2>3 DEF DevInv, TokensOK, TokensOf
  <2>6. PackagesOK(j)' /\ InsertedOK(j)'
    BY <2>1, <2>3 DEF DevInv, PackagesOK, PackagesOf, InsertedOK
  <2> QED BY <2>1, <2>3, <2>4, <2>5, <2>6, GoesOn
<1>2. CASE DeleteAccountCommit(j)
  <2>1. /\ job[j].step = "commit" /\ job[j].kind = "account" /\ j \notin Ended
        /\ tokens' = tokens \ job[j].saw /\ packages' = packages \ job[j].saw
        /\ UNCHANGED <<now, before>>
    BY <1>2 DEF DeleteAccountCommit, DevInv, StepOK, Ended
  <2>2. /\ JobType' /\ \A d \in Jobs \ {j} : job'[d] = job[d]
        /\ job'[j].kind = job[j].kind /\ job'[j].by = job[j].by /\ job'[j].at = job[j].at
        /\ job'[j].todo = job[j].todo /\ job'[j].carried = job[j].carried
        /\ job'[j].wiped /\ job'[j].step = "answered"
    BY <1>2 DEF DeleteAccountCommit, DevInv, JobType, Steps
  <2>3. StepOK(j)'
    BY <2>1, <2>2 DEF DevInv, StepOK
  <2>4. TokensOK(j)' /\ PackagesOK(j)'
    BY <2>1, <2>2 DEF DevInv, TokensOK, TokensOf, PackagesOK, PackagesOf
  <2>5. InsertedOK(j)'
    BY <2>1, <2>2 DEF InsertedOK
  <2>6. \A p \in packages \ packages' : p.by \in job[j].by
    BY <2>1 DEF DevInv, StepOK
  <2>7. tokens' \subseteq tokens /\ packages' \subseteq packages
    BY <2>1
  <2> QED BY <2>1, <2>2, <2>3, <2>4, <2>5, <2>6, <2>7, GoesOn
<1> QED BY <1>1, <1>2

LEMMA FailureKeeps ==
  ASSUME DevInv, NEW j \in Jobs, JobFails(j)
  PROVE  DevInv'
<1>1. /\ job[j].step \in {"wipe", "insert", "token", "packages", "commit"} /\ j \notin Ended
      /\ UNCHANGED <<tokens, packages, now, before>>
  BY DEF JobFails, Ended
<1>2. /\ JobType' /\ \A d \in Jobs \ {j} : job'[d] = job[d]
      /\ job'[j].kind = job[j].kind /\ job'[j].by = job[j].by /\ job'[j].at = job[j].at
      /\ job'[j].todo = job[j].todo /\ job'[j].carried = job[j].carried
      /\ job'[j].wiped = job[j].wiped /\ job'[j].step = "failed"
  BY DEF JobFails, DevInv, JobType, Steps
<1>3. StepOK(j)'
  BY <1>2 DEF DevInv, StepOK
<1>4. TokensOK(j)' /\ PackagesOK(j)'
  BY <1>1, <1>2 DEF DevInv, TokensOK, TokensOf, PackagesOK, PackagesOf
<1>5. InsertedOK(j)'
  <2>1. \A u : LastWord(j, u)' <=> LastWord(j, u)
    BY <1>1, <1>2 DEF LastWord
  <2>2. \A u, q : RowOf(j, u, q)' = RowOf(j, u, q)
    BY <1>2 DEF RowOf
  <2>3. InsertedOK(j)
    BY DEF DevInv
  <2> QED BY <1>1, <1>2, <2>1, <2>2, <2>3 DEF InsertedOK
<1> QED BY <1>1, <1>2, <1>3, <1>4, <1>5, GoesOn

\* Nothing but the clock changes.
LEMMA ClockKeeps ==
  ASSUME DevInv, UNCHANGED <<tokens, packages, job, before>>, now' \in Nat
  PROVE  DevInv'
<1>1. DevTypeOK' /\ JobType' /\ BeforeOK' /\ OriginOK'
  BY DEF DevInv, DevTypeOK, JobType, BeforeOK, OriginOK, Ended
<1>2. ASSUME NEW j \in Jobs
      PROVE  StepOK(j)' /\ TokensOK(j)' /\ PackagesOK(j)' /\ InsertedOK(j)'
  <2>1. StepOK(j)' /\ TokensOK(j)' /\ PackagesOK(j)'
    BY DEF DevInv, StepOK, TokensOK, TokensOf, PackagesOK, PackagesOf
  <2>2. \A u : LastWord(j, u)' <=> LastWord(j, u)
    BY DEF LastWord
  <2>3. \A u, q : RowOf(j, u, q)' = RowOf(j, u, q)
    BY DEF RowOf
  <2>4. InsertedOK(j)
    BY DEF DevInv
  <2> QED BY <2>1, <2>2, <2>3, <2>4 DEF InsertedOK
<1> QED BY <1>1, <1>2 DEF DevInv

\* What the calls about a device know of its rows is kept by every step.
THEOREM DeviceInvariant == DevSpec => []DevInv
<1>1. DevInit => DevInv
  <2> SUFFICES ASSUME DevInit
               PROVE  DevInv
    OBVIOUS
  <2>1. JobType
    BY DEF DevInit, JobType, NoJob, Kinds, Steps
  <2>2. \A j \in Jobs : /\ job[j].step = "new" /\ ~job[j].wiped /\ job[j].kind = "none"
                        /\ job[j].by = {} /\ job[j].todo = {}
    BY DEF DevInit, NoJob
  <2>3. DevTypeOK /\ BeforeOK /\ OriginOK
    BY <2>1, <2>2 DEF DevInit, DevTypeOK, BeforeOK, OriginOK, Steps
  <2>4. \A j \in Jobs : StepOK(j) /\ TokensOK(j) /\ PackagesOK(j) /\ InsertedOK(j)
    BY <2>2 DEF StepOK, TokensOK, PackagesOK, InsertedOK
  <2> QED BY <2>1, <2>3, <2>4 DEF DevInv
<1>2. DevInv /\ [DevNext]_devVars => DevInv'
  <2> SUFFICES ASSUME DevInv, [DevNext]_devVars
               PROVE  DevInv'
    OBVIOUS
  <2>1. CASE DevTick
    <3>1. now' \in Nat
      BY <2>1 DEF DevTick, DevInv, DevTypeOK
    <3> QED BY <2>1, <3>1, ClockKeeps DEF DevTick
  <2>2. CASE UNCHANGED devVars
    <3>1. now' \in Nat
      BY <2>2 DEF devVars, DevInv, DevTypeOK
    <3> QED BY <2>2, <3>1, ClockKeeps DEF devVars
  <2>3. ASSUME NEW j \in Jobs,
               \/ \E u \in Accounts : UpsertDevice(j, u) \/ RemoveDevice(j, u) \/ DeleteAccount(j, u)
               \/ \E u \in Accounts, b \in Batches : UploadKeyPackages(j, u, b)
        PROVE  DevInv'
    BY <2>3, UpsertKeeps, BeginKeeps
  <2>4. ASSUME NEW j \in Jobs, Wipe(j) \/ InsertKeyPackages(j) \/ RemoveToken(j) \/ JobFails(j)
        PROVE  DevInv'
    BY <2>4, WipeKeeps, InsertKeeps, RemoveTokenKeeps, FailureKeeps
  <2>5. ASSUME NEW j \in Jobs, DeleteAccountPackages(j) \/ DeleteAccountCommit(j)
        PROVE  DevInv'
    BY <2>5, DeletionKeeps
  <2> QED BY <2>1, <2>2, <2>3, <2>4, <2>5 DEF DevNext
<1> QED BY <1>1, <1>2, PTL DEF DevSpec

\* However many calls about a device overlap and fail, once an upload, a removal or an
\* account deletion has deleted, nothing of a call that had ended when it began is left
\* (UploadKeyPackages, RemoveDevice, DeleteAccount).
THEOREM ReplacedIsGoneAlways == DevSpec => []ReplacedIsGone
<1>1. DevInv => ReplacedIsGone
  BY DEF DevInv, TokensOK, PackagesOK, ReplacedIsGone
<1> QED BY <1>1, DeviceInvariant, PTL

\* Rows that were all written at one time are all the best.
LEMMA AllBest ==
  ASSUME NEW S, NEW t0 \in Nat, \A p \in S : p.at = t0
  PROVE  Best(S) = S
  BY DEF Best

\* When an upload of any size has the last word on an account's packages,
\* FetchKeyPackages answers with one of its packages as long as one is not expired, and
\* with a last-resort package only when no other is left (UploadKeyPackages, which is
\* not a transaction, against every other call).
THEOREM FetchedIsLatestAlways == DevSpec => []FetchedIsLatest
<1>1. DevInv => FetchedIsLatest
  <2> SUFFICES ASSUME DevInv, NEW c \in Jobs, NEW u \in Accounts, Latest(c, u)
               PROVE  LET usable == {p \in job[c].carried : p.expires > now} IN
                        /\ usable # {} => FetchKeyPackages(u) # {}
                        /\ \A p \in FetchKeyPackages(u) :
                             p.job = c /\ (p.last => \A q \in usable : q.last)
    BY DEF FetchedIsLatest
  <2> DEFINE S == {p \in PackagesOf({u}) : p.expires > now}
             fresh == {p \in S : ~p.last}
             usable == {p \in job[c].carried : p.expires > now}
  <2>1. /\ job[c].kind = "upload" /\ job[c].wiped /\ job[c].todo = {} /\ u \in job[c].by
        /\ LastWord(c, u) /\ job[c].at \in Nat
    BY DEF Latest, LastWord, DevInv, StepOK, JobType
  <2>2. \A p \in PackagesOf({u}) : p.job = c /\ p.at = job[c].at
    <3> SUFFICES ASSUME NEW p \in packages, p.by = u
                 PROVE  p.job = c /\ p.at = job[c].at
      BY DEF PackagesOf
    <3>1. /\ p.job \in Jobs /\ job[p.job].wiped /\ u \in job[p.job].by /\ p.at = job[p.job].at
      BY DEF DevInv, DevTypeOK, OriginOK
    <3>2. <<p.job, c>> \notin before
      BY <2>1 DEF DevInv, PackagesOK, PackagesOf
    <3> QED BY <2>1, <3>1, <3>2 DEF LastWord
  <2>3. \A q \in usable : RowOf(c, u, q) \in S /\ RowOf(c, u, q).last = q.last
    <3>1. \A q \in job[c].carried : RowOf(c, u, q) \in packages
      BY <2>1 DEF DevInv, InsertedOK
    <3>2. \A q : RowOf(c, u, q).by = u /\ RowOf(c, u, q).last = q.last
                   /\ RowOf(c, u, q).expires = q.expires
      BY DEF RowOf
    <3> QED BY <3>1, <3>2 DEF PackagesOf
  <2>4. FetchKeyPackages(u) = IF fresh = {} THEN S ELSE fresh
    <3>1. Best(S) = S
      BY <2>1, <2>2, AllBest
    <3>2. Best(fresh) = fresh
      BY <2>1, <2>2, AllBest
    <3> QED BY <3>1, <3>2 DEF FetchKeyPackages, Preferred
  <2>5. usable # {} => FetchKeyPackages(u) # {}
    BY <2>3, <2>4
  <2>6. ASSUME NEW p \in FetchKeyPackages(u)
        PROVE  p.job = c /\ (p.last => \A q \in usable : q.last)
    BY <2>2, <2>3, <2>4
  <2> QED BY <2>5, <2>6
<1> QED BY <1>1, DeviceInvariant, PTL
=============================================================================
