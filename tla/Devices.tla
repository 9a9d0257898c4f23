------------------------------ MODULE Devices -------------------------------
(***************************************************************************)
(* One device and the accounts that log in on it: their rows of            *)
(* device_push_tokens (one per account) and of key_packages.               *)
(*                                                                         *)
(* UploadKeyPackages deletes the account's packages for the device and     *)
(* inserts the new ones one by one, RemoveDevice deletes the token and     *)
(* then the packages, and neither runs in a transaction: calls overlap and *)
(* fail between any two statements.  DeleteAccount is a transaction.       *)
(* The session's device never changes, so LookupSession is not a step.     *)
(***************************************************************************)
EXTENDS Naturals

CONSTANTS
  Accounts,  \* users who log in on the device
  Jobs,      \* calls about the device
  Batches,   \* what an upload may carry: sets of packages
  MaxNow     \* bound: the clock stops here

Package == [last : BOOLEAN, expires : Nat]

ASSUME DevicesAssumption ==
  /\ MaxNow \in Nat
  /\ Batches \subseteq SUBSET Package

VARIABLES
  tokens,    \* device_push_tokens: row id (the call that inserted it), last
             \* writer and owner
  packages,  \* key_packages: rows with the upload they came with
  job,       \* each call
  now,       \* the clock
  before     \* history: <<c, d>>: c had ended when d began

devVars == <<tokens, packages, job, now, before>>

Steps == {"new", "wipe", "insert", "token", "packages", "commit", "answered", "failed"}

NoJob == [kind |-> "none", by |-> {}, step |-> "new", at |-> 0, todo |-> {},
          carried |-> {}, saw |-> {}, wiped |-> FALSE]

DevInit ==
  /\ tokens = {} /\ packages = {}
  /\ job = [j \in Jobs |-> NoJob]
  /\ now = 0
  /\ before = {}

Ended == {j \in Jobs : job[j].step \in {"answered", "failed"}}

TokensOf(us) == {k \in tokens : k.by \in us}
PackagesOf(us) == {p \in packages : p.by \in us}

\* The rows of the account are locked by a deletion that is not committed.
Locked(j, rows) ==
  \E d \in Jobs \ {j} : job[d].step \in {"packages", "commit"} /\ job[d].saw \cap rows # {}

\* Call j of account u begins and goes to step; s is what it has read, b what it
\* carries.
StartJob(j, kind, u, step, b, s) ==
  /\ job[j].step = "new"
  /\ job' = [job EXCEPT ![j] = [kind |-> kind, by |-> {u}, step |-> step, at |-> now,
       todo |-> b, carried |-> b, saw |-> s, wiped |-> FALSE]]
  /\ before' = before \cup (Ended \X {j})
  /\ UNCHANGED now

-----------------------------------------------------------------------------
(* RegisterDevicePushToken *)

\* INSERT ... ON CONFLICT (user_public_key, device_id) DO UPDATE keeps the id.
UpsertDevice(j, u) ==
  /\ ~Locked(j, TokensOf({u}))
  /\ StartJob(j, "register", u, "answered", {}, {})
  /\ tokens' = (tokens \ TokensOf({u})) \cup
       {[id |-> i, job |-> j, by |-> u] :
          i \in IF TokensOf({u}) = {} THEN {j} ELSE {k.id : k \in TokensOf({u})}}
  /\ UNCHANGED packages

-----------------------------------------------------------------------------
(* UploadKeyPackages *)

\* An upload without packages deletes nothing.
UploadKeyPackages(j, u, b) ==
  /\ StartJob(j, "upload", u, IF b = {} THEN "insert" ELSE "wipe", b, {})
  /\ UNCHANGED <<tokens, packages>>

\* Mutation: only the expired packages are deleted.
WipeExpired(j) ==
  /\ job[j].step = "wipe"
  /\ ~Locked(j, PackagesOf(job[j].by))
  /\ packages' = packages \ {p \in PackagesOf(job[j].by) : p.expires <= now}
  /\ job' = [job EXCEPT ![j].wiped = TRUE,
       ![j].step = IF job[j].kind = "upload" THEN "insert" ELSE "answered"]
  /\ UNCHANGED <<tokens, now, before>>

\* DeleteKeyPackagesByUserDevice, the last statement of a removal.
Wipe(j) ==
  /\ job[j].step = "wipe"
  /\ ~Locked(j, PackagesOf(job[j].by))
  /\ packages' = packages \ PackagesOf(job[j].by)
  /\ job' = [job EXCEPT ![j].wiped = TRUE,
       ![j].step = IF job[j].kind = "upload" THEN "insert" ELSE "answered"]
  /\ UNCHANGED <<tokens, now, before>>

\* InsertKeyPackages, one INSERT at a time; created_at is the call's time.
InsertKeyPackages(j) ==
  /\ job[j].step = "insert"
  /\ \/ \E p \in job[j].todo, u \in job[j].by :
          /\ packages' = packages \cup {[job |-> j, by |-> u, at |-> job[j].at,
                                         last |-> p.last, expires |-> p.expires]}
          /\ job' = [job EXCEPT ![j].todo = @ \ {p}]
     \/ /\ job[j].todo = {}
        /\ job' = [job EXCEPT ![j].step = "answered"]
        /\ UNCHANGED packages
  /\ UNCHANGED <<tokens, now, before>>

-----------------------------------------------------------------------------
(* RemoveDevice and DeleteAccount *)

\* lookupDeviceIdentifier finds the row the caller names.
RemoveDevice(j, u) ==
  /\ TokensOf({u}) # {}
  /\ StartJob(j, "remove", u, "token", {}, {k.id : k \in TokensOf({u})})
  /\ UNCHANGED <<tokens, packages>>

\* DELETE ... WHERE id = $1: a row that was inserted since then has another id.
RemoveToken(j) ==
  /\ job[j].step = "token"
  /\ ~Locked(j, TokensOf(job[j].by))
  /\ tokens' = {k \in tokens : k.id \notin job[j].saw}
  /\ job' = [job EXCEPT ![j].step = "wipe"]
  /\ UNCHANGED <<packages, now, before>>

\* DeleteAccount: what its two DELETEs see goes at the commit; what is inserted
\* meanwhile stays.
DeleteAccount(j, u) ==
  /\ ~Locked(j, TokensOf({u}))
  /\ StartJob(j, "account", u, "packages", {}, TokensOf({u}))
  /\ UNCHANGED <<tokens, packages>>

DeleteAccountPackages(j) ==
  /\ job[j].step = "packages"
  /\ ~Locked(j, PackagesOf(job[j].by))
  /\ job' = [job EXCEPT ![j].step = "commit", ![j].saw = @ \cup PackagesOf(job[j].by)]
  /\ UNCHANGED <<tokens, packages, now, before>>

DeleteAccountCommit(j) ==
  /\ job[j].step = "commit"
  /\ tokens' = tokens \ job[j].saw
  /\ packages' = packages \ job[j].saw
  /\ job' = [job EXCEPT ![j].step = "answered", ![j].wiped = TRUE]
  /\ UNCHANGED <<now, before>>

\* A statement fails: what is committed stays, a transaction leaves nothing.
JobFails(j) ==
  /\ job[j].step \in {"wipe", "insert", "token", "packages", "commit"}
  /\ job' = [job EXCEPT ![j].step = "failed"]
  /\ UNCHANGED <<tokens, packages, now, before>>

DevTick ==
  /\ now < MaxNow
  /\ now' = now + 1
  /\ UNCHANGED <<tokens, packages, job, before>>

DevNext ==
  \/ DevTick
  \/ \E j \in Jobs :
       \/ \E u \in Accounts : UpsertDevice(j, u) \/ RemoveDevice(j, u) \/ DeleteAccount(j, u)
       \/ \E u \in Accounts, b \in Batches : UploadKeyPackages(j, u, b)
       \/ Wipe(j) \/ InsertKeyPackages(j) \/ RemoveToken(j)
       \/ DeleteAccountPackages(j) \/ DeleteAccountCommit(j) \/ JobFails(j)

DevSpec == DevInit /\ [][DevNext]_devVars

-----------------------------------------------------------------------------
(* FetchKeyPackages *)

Best(ps) == {p \in ps : \A q \in ps : q.at <= p.at}

\* Mutation: the last-resort package comes first.
PreferredLast(ps) ==
  LET last == {p \in ps : p.last} IN Best(IF last = {} THEN ps ELSE last)

\* ORDER BY is_last_resort ASC, created_at DESC: the rows that may come first.
Preferred(ps) ==
  LET fresh == {p \in ps : ~p.last} IN Best(IF fresh = {} THEN ps ELSE fresh)

FetchKeyPackages(u) == Preferred({p \in PackagesOf({u}) : p.expires > now})

-----------------------------------------------------------------------------
\* Every row is of an account and of a call that wrote it, and an account has one
\* token for the device.
DevTypeOK ==
  /\ tokens \subseteq [id : Jobs, job : Jobs, by : Accounts]
  /\ \A k, l \in tokens : k.by = l.by => k = l
  /\ packages \subseteq [job : Jobs, by : Accounts, at : Nat, last : BOOLEAN, expires : Nat]
  /\ now \in Nat
  /\ before \subseteq Jobs \X Jobs
  /\ \A j \in Jobs : job[j].step \in Steps /\ job[j].by \subseteq Accounts

\* A call that replaces or removes leaves nothing of what was there before it:
\* once an upload, a removal or an account deletion has deleted, no package of a
\* call that had ended when it began is left, nor, after the latter two, a token;
\* whatever overlaps and fails (UploadKeyPackages, RemoveDevice, DeleteAccount).
ReplacedIsGone ==
  \A c, d \in Jobs : <<c, d>> \in before /\ job[d].wiped =>
    /\ \A p \in PackagesOf(job[d].by) : p.job # c
    /\ job[d].kind # "upload" => \A k \in TokensOf(job[d].by) : k.job # c

\* The last word on an account's packages: an answered upload, every other call
\* that deleted having ended before it began.
Latest(c, u) ==
  /\ job[c].kind = "upload" /\ job[c].step = "answered"
  /\ u \in job[c].by /\ job[c].carried # {}
  /\ \A d \in Jobs \ {c} : job[d].wiped /\ u \in job[d].by => <<d, c>> \in before

\* FetchKeyPackages answers with the latest upload: with one of its packages as
\* long as one is not expired, and with a last-resort package only when no other
\* is left, although the upload is not a transaction.
FetchedIsLatest ==
  \A c \in Jobs, u \in Accounts : Latest(c, u) =>
    LET usable == {p \in job[c].carried : p.expires > now} IN
      /\ usable # {} => FetchKeyPackages(u) # {}
      /\ \A p \in FetchKeyPackages(u) :
           p.job = c /\ (p.last => \A q \in usable : q.last)
=============================================================================
