----------------------------- MODULE ListPages ------------------------------
(***************************************************************************)
(* Walking a list page by page.  Every list of the client API is one       *)
(* SELECT ... ORDER BY ... LIMIT ... OFFSET per page, with a cursor that   *)
(* holds nothing but the offset of the next page, and the table changes    *)
(* between two pages.  UpdateProfile walks the caller's friends the same   *)
(* way to announce the new profile.                                        *)
(*                                                                         *)
(* The row at offset n is the one with n rows before it; rows carry the    *)
(* column the list is sorted by as their key, and are numbered by their id.*)
(***************************************************************************)
EXTENDS Integers, FiniteSets

CONSTANTS
  Rows,      \* ids of the rows that may be in the list
  Keys,      \* values of the sort column
  Limits,    \* limits a client asks for
  BatchSize  \* Config.EventBatchSize

ASSUME ListPagesAssumption ==
  /\ Rows \subseteq Nat /\ IsFiniteSet(Rows)
  /\ Keys \subseteq Nat /\ Limits \subseteq Int
  /\ BatchSize \in Nat \ {0}

VARIABLES
  list,      \* the list that is walked
  present,   \* rows the query selects
  key,       \* their sort column
  walk,      \* the walk: "new", "client", "profile" or "done"
  limit, cursor,
  seen,      \* rows answered with so far, or friends told
  missed,    \* history: friends the event of UpdateProfile could not be appended for
  again,     \* history: rows answered with twice
  stayed,    \* history: rows in the list, with the same key, since the walk began
  shifted    \* history: "in", "out": a row came before the cursor, one before it went

pageVars == <<list, present, key, walk, limit, cursor, seen, missed, again, stayed, shifted>>

-----------------------------------------------------------------------------
(***************************************************************************)
(* The queries: is the order descending, does the id decide between equal  *)
(* keys, does a row's key change while it is in the list.                  *)
(***************************************************************************)
Query(desc, unique, moves) == [desc |-> desc, unique |-> unique, moves |-> moves]

QueryFriends == Query(TRUE, TRUE, FALSE)
QueryFriendRequests == Query(TRUE, TRUE, FALSE)
QueryRooms == Query(TRUE, TRUE, TRUE)
SearchRooms == Query(TRUE, TRUE, TRUE)
QueryMembers == Query(FALSE, TRUE, FALSE)
QueryMemberPermissions == Query(TRUE, TRUE, FALSE)
QuerySentInvitations == Query(TRUE, TRUE, FALSE)
QueryIncomingInvitations == Query(TRUE, TRUE, FALSE)
QueryProfiles == Query(TRUE, FALSE, TRUE)

\* The lists of the API: a query, and the limit used for one that is out of range.
Paged(query, fallback) == [query |-> query, fallback |-> fallback]

ListFriends == Paged(QueryFriends, 50)
ListFriendRequests == Paged(QueryFriendRequests, 50)
ListChatRooms == Paged(QueryRooms, 50)
SearchChatRooms == Paged(SearchRooms, 50)
ListChatMembers == Paged(QueryMembers, 100)
ListChatMemberPermissions == Paged(QueryMemberPermissions, 100)
ListSentChatInvitations == Paged(QuerySentInvitations, 50)
ListIncomingChatInvitations == Paged(QueryIncomingInvitations, 50)
SearchProfiles == Paged(QueryProfiles, 20)

Lists == {ListFriends, ListFriendRequests, ListChatRooms, SearchChatRooms,
          ListChatMembers, ListChatMemberPermissions, ListSentChatInvitations,
          ListIncomingChatInvitations, SearchProfiles}

-----------------------------------------------------------------------------
(* Pages *)

NormalizeLimit(n, fallback) == IF n <= 0 \/ n > 200 THEN fallback ELSE n

\* A cursor is an encoded offset; the empty one stands for the first page.
NoCursor == [offset |-> -1]
EncodeOffsetCursor(n) == [offset |-> n]
DecodeOffsetCursor(c) == IF c = NoCursor THEN 0 ELSE c.offset

\* x is sorted before y, by the keys k.
Sorted(k, x, y) ==
  \/ k[x] # k[y] /\ (list.query.desc <=> k[x] > k[y])
  \/ k[x] = k[y] /\ (list.query.desc <=> x > y)

Offset(s, k, x) == Cardinality({y \in s : y # x /\ Sorted(k, y, x)})

\* LIMIT n OFFSET o.  Without an id in the ORDER BY, equal keys come in any order.
SelectPage(o, n) == {x \in present : Offset(present, key, x) \in o..(o + n - 1)}

\* Mutation: the row that only shows that there is a next page is left out of both.
PaginateSkips(o, n) ==
  LET rows == SelectPage(o, n + 1) IN
    IF Cardinality(rows) <= n THEN [items |-> rows, next |-> NoCursor]
    ELSE [items |-> SelectPage(o, n), next |-> EncodeOffsetCursor(o + n + 1)]

\* The query asks for one row more than the page; paginateSlice cuts it off and
\* makes a cursor when it is there.
PaginateSlice(o, n) ==
  LET rows == SelectPage(o, n + 1) IN
    IF Cardinality(rows) <= n THEN [items |-> rows, next |-> NoCursor]
    ELSE [items |-> SelectPage(o, n), next |-> EncodeOffsetCursor(o + n)]

-----------------------------------------------------------------------------
PageInit ==
  /\ list \in Lists
  /\ present \in SUBSET Rows /\ key \in [Rows -> Keys]
  /\ walk = "new" /\ limit = 0 /\ cursor = NoCursor
  /\ seen = {} /\ missed = {} /\ again = {} /\ stayed = {} /\ shifted = {}

\* A client asks for the first page.
ClientWalk(n) ==
  /\ walk = "new"
  /\ walk' = "client" /\ limit' = NormalizeLimit(n, list.fallback)
  /\ stayed' = present
  /\ UNCHANGED <<list, present, key, cursor, seen, missed, again, shifted>>

\* UpdateProfile has written the profile.
ProfileWalk ==
  /\ walk = "new" /\ list = ListFriends
  /\ walk' = "profile" /\ limit' = BatchSize
  /\ stayed' = present
  /\ UNCHANGED <<list, present, key, cursor, seen, missed, again, shifted>>

AnswerItems(items) ==
  /\ seen' = seen \cup items /\ again' = again \cup (seen \cap items)
  /\ UNCHANGED <<list, present, key, limit, stayed, shifted>>

\* The client asks for the page of the cursor, until there is none.
ClientPage ==
  /\ walk = "client"
  /\ LET page == PaginateSlice(DecodeOffsetCursor(cursor), limit) IN
       /\ AnswerItems(page.items)
       /\ cursor' = page.next /\ UNCHANGED missed
       /\ walk' = IF page.next = NoCursor THEN "done" ELSE "client"

\* profile.updated to each friend of the page; an append that fails is passed over.
\* A short page is the last.
ProfilePage ==
  /\ walk = "profile"
  /\ LET o == DecodeOffsetCursor(cursor)
         page == SelectPage(o, limit)
     IN  /\ \E told \in SUBSET page :
              AnswerItems(told) /\ missed' = missed \cup (page \ told)
         /\ cursor' = EncodeOffsetCursor(o + limit)
         /\ walk' = IF Cardinality(page) < limit THEN "done" ELSE "profile"

\* ListFriends fails: UpdateProfile answers with the error, the client gives up.
PageFails ==
  /\ walk \in {"client", "profile"}
  /\ walk' = "failed"
  /\ UNCHANGED <<list, present, key, limit, cursor, seen, missed, again, stayed, shifted>>

-----------------------------------------------------------------------------
(* The table changes *)

Walked(x, s, k) == Offset(s, k, x) < DecodeOffsetCursor(cursor)

\* A row comes into the list, with a key of its own time (its writer took the time
\* before it committed), or comes back with its old one.
Arrive(x, t) ==
  /\ x \notin present
  /\ present' = present \cup {x}
  /\ key' = [key EXCEPT ![x] = t]
  /\ shifted' = IF Walked(x, present', key') THEN shifted \cup {"in"} ELSE shifted
  /\ UNCHANGED <<list, walk, limit, cursor, seen, missed, again, stayed>>

Depart(x) ==
  /\ x \in present
  /\ present' = present \ {x}
  /\ stayed' = stayed \ {x}
  /\ shifted' = IF Walked(x, present, key) THEN shifted \cup {"out"} ELSE shifted
  /\ UNCHANGED <<list, key, walk, limit, cursor, seen, missed, again>>

\* A write sets the row's updated_at to a time it took before: the row may move to the
\* front or, when a write that began later was faster, back.
Touch(x, t) ==
  LET was == Walked(x, present, key)
      is == Walked(x, present, key')
  IN  /\ x \in present /\ list.query.moves
      /\ key' = [key EXCEPT ![x] = t]
      /\ stayed' = stayed \ {x}
      /\ shifted' = shifted \cup (IF is /\ ~was THEN {"in"} ELSE {})
                           \cup (IF was /\ ~is THEN {"out"} ELSE {})
      /\ UNCHANGED <<list, present, walk, limit, cursor, seen, missed, again>>

PageNext ==
  \/ \E n \in Limits : ClientWalk(n)
  \/ ProfileWalk \/ ClientPage \/ ProfilePage \/ PageFails
  \/ /\ walk \in {"client", "profile"}
     /\ \E x \in Rows : Depart(x) \/ \E t \in Keys : Arrive(x, t) \/ Touch(x, t)

PageSpec == PageInit /\ [][PageNext]_pageVars

-----------------------------------------------------------------------------
\* Every variable has its type.
PageTypeOK ==
  /\ list \in Lists
  /\ present \subseteq Rows /\ key \in [Rows -> Keys]
  /\ walk \in {"new", "client", "profile", "done", "failed"}
  /\ limit \in Nat /\ DecodeOffsetCursor(cursor) \in Nat
  /\ seen \subseteq Rows /\ missed \subseteq Rows /\ again \subseteq seen /\ stayed \subseteq present

\* Whatever comes into the list, leaves it or moves in it during a walk, the walk skips
\* no row that stayed, unless a row it has passed went or moved behind its cursor, and
\* answers none of them twice, unless a row came or moved in before the cursor; so
\* UpdateProfile tries to tell every friend who stays one, if no friendship ends
\* meanwhile, and misses the ones whose append fails (paginateSlice, the loop of
\* UpdateProfile).  A list with equal keys in no fixed order is excepted.
StayedIsSeenOnce ==
  list.query.unique =>
    /\ walk = "done" /\ "out" \notin shifted => stayed \subseteq seen \cup missed
    /\ "in" \notin shifted => again \cap stayed = {}
=============================================================================
