------------------------------ MODULE Sessions ------------------------------
(***************************************************************************)
(* Authentication: the tables auth_sessions and event_subscriptions, the   *)
(* profile row a login touches, and the sessionState each connection keeps *)
(* in memory.  Connections run concurrently, each one packet at a time;    *)
(* solveAuthChallenge is a SELECT, a transaction, and two more SELECTs,    *)
(* any of which may fail.                                                  *)
(*                                                                         *)
(* Signatures are taken to be right (ed25519 is external): a packet with a *)
(* wrong one is answered with an error and changes nothing, as does every  *)
(* packet that fails its checks.                                           *)
(***************************************************************************)
EXTENDS Naturals

CONSTANTS
  Users, Devices,
  Ids,            \* session ids; uuidGenerator.New is fresh
  Subscriptions,  \* subscription ids
  Conns,          \* connections
  ChallengeTTL,   \* Config.ChallengeTTL
  MaxTime,        \* bound: the clock stops here
  NULL

ASSUME SessionsAssumption ==
  /\ NULL \notin Users \cup Devices \cup Ids
  /\ ChallengeTTL \in Nat /\ MaxTime \in Nat

VARIABLES
  user, device, expiresAt,       \* auth_sessions; user is NULL without a row
  authenticated, authenticatedAt,
  profiles,                      \* users with a row of profiles
  named,                         \* users whose profile has a display name
  told,                          \* sessions with an auth.sessionAuthenticated event
  subSession, subUser, active,   \* event_subscriptions
  clock,
  conn,                          \* sessionState of each connection
  pc, arg, t                     \* the packet a connection is handling

sessionVars == <<user, device, expiresAt, authenticated, authenticatedAt>>
profileVars == <<profiles, named>>
subVars == <<subSession, subUser, active>>
callVars == <<pc, arg, t>>
vars == <<sessionVars, profileVars, told, subVars, clock, conn, callVars>>

NoState == [id |-> NULL, user |-> NULL, device |-> NULL,
            authenticated |-> FALSE, profileCompleted |-> FALSE]

Init ==
  /\ user = [s \in Ids |-> NULL] /\ device = [s \in Ids |-> NULL]
  /\ expiresAt = [s \in Ids |-> 0]
  /\ authenticated = {} /\ authenticatedAt = [s \in Ids |-> 0]
  /\ profiles = {} /\ named = {}
  /\ told = {}
  /\ subSession = [b \in Subscriptions |-> NULL]
  /\ subUser = [b \in Subscriptions |-> NULL]
  /\ active = {}
  /\ clock = 0
  /\ conn = [c \in Conns |-> NoState]
  /\ pc = [c \in Conns |-> "idle"]
  /\ arg = [c \in Conns |-> NULL]
  /\ t = [c \in Conns |-> 0]

Begin(c, step, s) ==
  /\ pc[c] = "idle"
  /\ pc' = [pc EXCEPT ![c] = step]
  /\ arg' = [arg EXCEPT ![c] = s]
  /\ t' = [t EXCEPT ![c] = clock]

End(c) ==
  /\ pc' = [pc EXCEPT ![c] = "idle"]
  /\ arg' = [arg EXCEPT ![c] = NULL]
  /\ t' = [t EXCEPT ![c] = 0]

-----------------------------------------------------------------------------
(* Login *)

GetSession(s) == user[s] # NULL

CreateSession(s, u, d) ==
  /\ ~GetSession(s)
  /\ user' = [user EXCEPT ![s] = u]
  /\ device' = [device EXCEPT ![s] = d]
  /\ expiresAt' = [expiresAt EXCEPT ![s] = clock + ChallengeTTL]

\* The connection is about the new session from now on; whether it is
\* authenticated does not change.
Challenged(c, s, u, d) ==
  [id |-> s, user |-> u, device |-> d, authenticated |-> conn[c].authenticated,
   profileCompleted |-> conn[c].profileCompleted]

RequestAuthChallenge(c, s, u, d) ==
  /\ pc[c] = "idle"
  /\ CreateSession(s, u, d)
  /\ conn' = [conn EXCEPT ![c] = Challenged(c, s, u, d)]
  /\ UNCHANGED <<authenticated, authenticatedAt, profileVars, told, subVars, clock, callVars>>

\* ! now.After(session.ExpiresAt)
InTime(s) == clock <= expiresAt[s]

\* solveAuthChallenge: GetSession, the clock, the checks.
SolveRead(c, s) ==
  /\ GetSession(s) /\ InTime(s)
  /\ Begin(c, "solve", s)
  /\ UNCHANGED <<sessionVars, profileVars, told, subVars, clock, conn>>

MarkAuthenticated(s, at) ==
  /\ authenticated' = authenticated \cup {s}
  /\ authenticatedAt' = [authenticatedAt EXCEPT ![s] = at]

\* An upsert of the row; its texts stay.
TouchProfile(u) == profiles' = profiles \cup {u}

\* Mutation: the session is marked outside the transaction of the event.
SolveMarkAutocommit(c) ==
  /\ pc[c] = "solve"
  /\ MarkAuthenticated(arg[c], t[c])
  /\ \/ TouchProfile(user[arg[c]]) /\ told' = told \cup {arg[c]}
     \/ UNCHANGED <<profiles, told>>
  /\ pc' = [pc EXCEPT ![c] = "lookup"]
  /\ UNCHANGED <<user, device, expiresAt, named, subVars, clock, conn, arg, t>>

\* The transaction: MarkAuthenticated, TouchProfile and the event, with the
\* time that was read before it.
SolveMark(c) ==
  /\ pc[c] = "solve"
  /\ MarkAuthenticated(arg[c], t[c])
  /\ TouchProfile(user[arg[c]])
  /\ told' = told \cup {arg[c]}
  /\ pc' = [pc EXCEPT ![c] = "lookup"]
  /\ UNCHANGED <<user, device, expiresAt, named, subVars, clock, conn, arg, t>>

\* LookupSession and profileCompleted: the connection's new state.
SolveLookup(c) ==
  /\ pc[c] = "lookup"
  /\ conn' = [conn EXCEPT ![c] =
       [id |-> arg[c], user |-> user[arg[c]], device |-> device[arg[c]],
        authenticated |-> TRUE, profileCompleted |-> user[arg[c]] \in named]]
  /\ End(c)
  /\ UNCHANGED <<sessionVars, profileVars, told, subVars, clock>>

\* Mutation: an error after the transaction leaves the half-made state.
FailsHalfway(c) ==
  /\ pc[c] # "idle"
  /\ conn' = IF pc[c] = "lookup"
               THEN [conn EXCEPT ![c].id = arg[c], ![c].user = user[arg[c]],
                                 ![c].authenticated = TRUE]
               ELSE conn
  /\ End(c)
  /\ UNCHANGED <<sessionVars, profileVars, told, subVars, clock>>

\* A statement fails: the packet is answered with an error and the connection
\* keeps the state it had before the packet.
Fails(c) ==
  /\ pc[c] # "idle"
  /\ End(c)
  /\ UNCHANGED <<sessionVars, profileVars, told, subVars, clock, conn>>

-----------------------------------------------------------------------------
(* Subscriptions *)

\* Mutation: the connection's flag is checked, not the session's.
MaySubscribeByState(c) == conn[c].id # NULL /\ conn[c].authenticated

\* subscribeToEvents reads the session of the connection.
MaySubscribe(c) == conn[c].id # NULL /\ conn[c].id \in authenticated

SubscribeRead(c) ==
  /\ MaySubscribe(c)
  /\ Begin(c, "subscribe", conn[c].id)
  /\ UNCHANGED <<sessionVars, profileVars, told, subVars, clock, conn>>

CreateSubscription(b, s) ==
  /\ subSession[b] = NULL
  /\ subSession' = [subSession EXCEPT ![b] = s]
  /\ subUser' = [subUser EXCEPT ![b] = user[s]]
  /\ active' = active \cup {b}

\* The transaction: the INSERT and the event auth.eventsSubscribed.
SubscribeToEvents(c, b) ==
  /\ pc[c] = "subscribe"
  /\ CreateSubscription(b, arg[c])
  /\ End(c)
  /\ UNCHANGED <<sessionVars, profileVars, told, clock, conn>>

\* The UPDATE of an active subscription, whosever it is.
DeactivateSubscription(b) ==
  /\ b \in active
  /\ active' = active \ {b}

UnsubscribeFromEvents(c, b) ==
  /\ pc[c] = "idle" /\ conn[c].id # NULL
  /\ DeactivateSubscription(b)
  /\ UNCHANGED <<sessionVars, profileVars, told, subSession, subUser, clock, conn, callVars>>

-----------------------------------------------------------------------------
(* Profiles, connections, time *)

\* The display name of the upsert; an empty one is stored as NULL.
SetName(u, name) == named' = IF name THEN named \cup {u} ELSE named \ {u}

\* updateProfile: the upsert with or without a display name; it is the one
\* client call a connection without a complete profile may make.
UpdateProfile(c, name) ==
  /\ conn[c].authenticated
  /\ Begin(c, "profile", NULL)
  /\ profiles' = profiles \cup {conn[c].user}
  /\ SetName(conn[c].user, name)
  /\ UNCHANGED <<sessionVars, told, subVars, clock, conn>>

\* The profile is read again for the connection; others keep what they read.
ProfileCompleted(c) ==
  /\ pc[c] = "profile"
  /\ conn' = [conn EXCEPT ![c] =
       [id |-> conn[c].id, user |-> conn[c].user, device |-> conn[c].device,
        authenticated |-> conn[c].authenticated,
        profileCompleted |-> conn[c].user \in named]]
  /\ End(c)
  /\ UNCHANGED <<sessionVars, profileVars, told, subVars, clock>>

\* The connection ends, between packets or during one: its state is dropped
\* (httpConnectionSessions.delete, or the locals of the read loop) and the packet goes
\* no further.  What a push goroutine does is in PushStream.
Close(c) ==
  /\ conn' = [conn EXCEPT ![c] = NoState]
  /\ End(c)
  /\ UNCHANGED <<sessionVars, profileVars, told, subVars, clock>>

Tick ==
  /\ clock < MaxTime
  /\ clock' = clock + 1
  /\ UNCHANGED <<sessionVars, profileVars, told, subVars, conn, callVars>>

-----------------------------------------------------------------------------
Packet(c) ==
  \/ \E s \in Ids, u \in Users, d \in Devices : RequestAuthChallenge(c, s, u, d)
  \/ \E s \in Ids : SolveRead(c, s)
  \/ SolveMark(c) \/ SolveLookup(c) \/ Fails(c)
  \/ SubscribeRead(c)
  \/ \E b \in Subscriptions : SubscribeToEvents(c, b) \/ UnsubscribeFromEvents(c, b)
  \/ \E name \in BOOLEAN : UpdateProfile(c, name)
  \/ ProfileCompleted(c)
  \/ Close(c)

Next == Tick \/ \E c \in Conns : Packet(c)

Spec == Init /\ [][Next]_vars

-----------------------------------------------------------------------------
\* Every variable holds a value of the column or field it stands for.
TypeOK ==
  /\ user \in [Ids -> Users \cup {NULL}] /\ device \in [Ids -> Devices \cup {NULL}]
  /\ expiresAt \in [Ids -> Nat] /\ authenticatedAt \in [Ids -> Nat]
  /\ authenticated \subseteq Ids /\ told \subseteq Ids
  /\ profiles \subseteq Users /\ named \subseteq profiles
  /\ subSession \in [Subscriptions -> Ids \cup {NULL}]
  /\ subUser \in [Subscriptions -> Users \cup {NULL}]
  /\ active \subseteq Subscriptions
  /\ clock \in Nat
  /\ conn \in [Conns -> [id : Ids \cup {NULL}, user : Users \cup {NULL},
                         device : Devices \cup {NULL}, authenticated : BOOLEAN,
                         profileCompleted : BOOLEAN]]
  /\ pc \in [Conns -> {"idle", "solve", "lookup", "subscribe", "profile"}]
  /\ arg \in [Conns -> Ids \cup {NULL}]
  /\ t \in [Conns -> Nat]

\* A login is all or nothing: whatever fails or overlaps, an authenticated
\* session has its event, its user has a profile row, and its challenge was
\* answered in time (SolveAuthChallenge).
LoginIsWhole ==
  \A s \in authenticated :
    s \in told /\ user[s] \in profiles /\ authenticatedAt[s] <= expiresAt[s]

\* The session id, user and device of a connection always come from one row of
\* auth_sessions, also after a challenge is replaced, a solve fails after its
\* commit, or another connection's session is solved (handlePacket).
StateIsOneSession ==
  \A c \in Conns : conn[c].id # NULL =>
    conn[c].user = user[conn[c].id] /\ conn[c].device = device[conn[c].id]

\* A subscription belongs to an authenticated session and to that session's
\* user, although the connection that makes it may meanwhile hold a session
\* whose challenge is unsolved (SubscribeToEvents reads the session again).
SubscriptionBacked ==
  \A b \in Subscriptions : subSession[b] # NULL =>
    subSession[b] \in authenticated /\ subUser[b] = user[subSession[b]]
=============================================================================
