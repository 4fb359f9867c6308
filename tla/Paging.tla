--------------------------------- MODULE Paging ---------------------------------
(***************************************************************************)
(* GET /api/task and GET /api/auth/users, read page by page while the      *)
(* worker inserts rows and reporters assign tasks.  A page is an offset    *)
(* into the rows the caller may see, newest first; its rows and the total  *)
(* come from two queries that run side by side in no transaction, and rows *)
(* with equal createdAt come in any order.  A reader asks for page 1, 2,   *)
(* ... until a page comes back short.                                      *)
(***************************************************************************)
EXTENDS Integers, FiniteSets

CONSTANTS
  Tasks,     \* rows the list can ever hold
  Readers,   \* callers that page through it
  NoUser,    \* assignedTo is null
  Matching,  \* the rows whose title (name, email) contains the search text
  Stamps,    \* values of createdAt
  PageSizes, \* values of pageSize
  MaxMoves   \* bound: rows that enter or leave a list during one request

ASSUME PagingAssumption ==
  /\ IsFiniteSet(Tasks)
  /\ Matching \subseteq Tasks
  /\ NoUser \notin Readers
  /\ Stamps \subseteq Nat \ {0}
  /\ PageSizes \subseteq Nat \ {0}
  /\ MaxMoves \in Nat

Unborn == 0   \* the createdAt of a row that is not there yet
Pending == -1 \* the total that is not counted yet

VARIABLES
  query,      \* reader -> the role in its token, and its pageSize
  createdAt,  \* row -> its createdAt, or Unborn
  assignedTo, \* row -> its assignee
  state,      \* reader -> between requests, in one, or at the end of the list
  page,       \* reader -> the page it asks for (next)
  found,      \* reader -> the rows of its request have been read
  rows,       \* reader -> the rows of its request
  total,      \* reader -> the total of its request, or Pending
  moved,      \* history: rows that entered or left its list in this request
  lost,       \* history: rows that left its list since it asked for page 1
  owed        \* history: rows that were in its list all the time since, and
              \* that no page has brought

table == <<query, createdAt, assignedTo>>
reading == <<state, page, found, rows, total>>
history == <<moved, lost, owed>>
vars == <<table, reading, history>>

Queries == [role : {"user", "reporter"}, pageSize : PageSizes]

\* Faulty variant: the search text is ignored.
ListedUnsearched(r) ==
  {t \in Tasks :
     /\ createdAt[t] # Unborn
     /\ query[r].role = "user" => assignedTo[t] = r}

\* The rows that match the caller's query.
Listed(r) ==
  {t \in Matching :
     /\ createdAt[t] # Unborn
     /\ query[r].role = "user" => assignedTo[t] = r}

\* Faulty variant: pages are counted from 0.
SkipFromZero(p, pageSize) == p * pageSize

Skip(p, pageSize) == (p - 1) * pageSize

Offset(r) == Skip(page[r], query[r].pageSize)

\* Faulty variant: ORDER BY is forgotten, and every query has an order of its own.
NewestFirstForgotten(S, T) == TRUE

\* No row of T is newer than a row of S.
NewestFirst(S, T) == \A s \in S, t \in T : createdAt[s] >= createdAt[t]

AtMost(m, n) == IF m <= n THEN m ELSE n

\* R can be what LIMIT limit OFFSET skip leaves of L ORDER BY createdAt DESC.
IsPage(R, L, skip, limit) ==
  \E B \in SUBSET L :
    /\ R \subseteq L \ B
    /\ Cardinality(B) = AtMost(skip, Cardinality(L))
    /\ Cardinality(R) = AtMost(limit, Cardinality(L \ B))
    /\ NewestFirst(B, L \ B)
    /\ NewestFirst(R, L \ (B \cup R))

Init ==
  /\ query \in [Readers -> Queries]
  /\ createdAt = [t \in Tasks |-> Unborn]
  /\ assignedTo = [t \in Tasks |-> NoUser]
  /\ state = [r \in Readers |-> "between"]
  /\ page = [r \in Readers |-> 1]
  /\ found = [r \in Readers |-> FALSE]
  /\ rows = [r \in Readers |-> {}]
  /\ total = [r \in Readers |-> Pending]
  /\ moved = [r \in Readers |-> 0]
  /\ lost = [r \in Readers |-> 0]
  /\ owed = [r \in Readers |-> {}]

(***************************************************************************)
(* One request.                                                            *)
(***************************************************************************)
Ask(r) ==
  /\ state[r] = "between"
  /\ state' = [state EXCEPT ![r] = "asked"]
  /\ owed' = [owed EXCEPT ![r] = IF page[r] = 1 THEN Listed(r) ELSE @]
  /\ UNCHANGED <<table, page, found, rows, total, moved, lost>>

FindRows(r) ==
  /\ state[r] = "asked"
  /\ ~found[r]
  /\ \E R \in SUBSET Listed(r) :
       /\ IsPage(R, Listed(r), Offset(r), query[r].pageSize)
       /\ rows' = [rows EXCEPT ![r] = R]
       /\ owed' = [owed EXCEPT ![r] = @ \ R]
  /\ found' = [found EXCEPT ![r] = TRUE]
  /\ UNCHANGED <<table, state, page, total, moved, lost>>

\* Faulty variant: the count ignores the filter.
CountAll(r) ==
  /\ state[r] = "asked"
  /\ total[r] = Pending
  /\ total' = [total EXCEPT ![r] = Cardinality({t \in Tasks : createdAt[t] # Unborn})]
  /\ UNCHANGED <<table, state, page, found, rows, history>>

Count(r) ==
  /\ state[r] = "asked"
  /\ total[r] = Pending
  /\ total' = [total EXCEPT ![r] = Cardinality(Listed(r))]
  /\ UNCHANGED <<table, state, page, found, rows, history>>

\* The reader takes the answer, and stops when its page is not full.
Answer(r) ==
  /\ found[r]
  /\ total[r] # Pending
  /\ state' = [state EXCEPT ![r] =
       IF Cardinality(rows[r]) < query[r].pageSize THEN "over" ELSE "between"]
  /\ page' = [page EXCEPT ![r] = @ + 1]
  /\ found' = [found EXCEPT ![r] = FALSE]
  /\ rows' = [rows EXCEPT ![r] = {}]
  /\ total' = [total EXCEPT ![r] = Pending]
  /\ moved' = [moved EXCEPT ![r] = 0]
  /\ UNCHANGED <<table, lost, owed>>

(***************************************************************************)
(* Meanwhile in the table.                                                 *)
(***************************************************************************)
Left(r)    == Listed(r) \ Listed(r)'
Entered(r) == Listed(r)' \ Listed(r)

\* What the change of the table does to the lists that are being read.
Tally ==
  /\ moved' = [r \in Readers |->
       IF state[r] = "asked"
       THEN moved[r] + Cardinality(Left(r)) + Cardinality(Entered(r)) ELSE moved[r]]
  /\ lost' = [r \in Readers |->
       IF state[r] = "asked" \/ (state[r] = "between" /\ page[r] > 1)
       THEN lost[r] + Cardinality(Left(r)) ELSE lost[r]]
  /\ owed' = [r \in Readers |-> owed[r] \ Left(r)]
  /\ \A r \in Readers : moved'[r] <= MaxMoves /\ lost'[r] <= MaxMoves

\* A row is committed.  Its createdAt was taken before that, in its process:
\* it need not be the newest.
InsertRow(t, s) ==
  /\ createdAt[t] = Unborn
  /\ createdAt' = [createdAt EXCEPT ![t] = s]
  /\ UNCHANGED <<query, assignedTo>>
  /\ Tally
  /\ UNCHANGED reading

\* ASSIGN, UNASSIGN, or the flush of a request that lost a race.
SetAssignee(t, u) ==
  /\ createdAt[t] # Unborn
  /\ assignedTo[t] # u
  /\ assignedTo' = [assignedTo EXCEPT ![t] = u]
  /\ UNCHANGED <<query, createdAt>>
  /\ Tally
  /\ UNCHANGED reading

Next ==
  \/ \E r \in Readers : Ask(r) \/ FindRows(r) \/ Count(r) \/ Answer(r)
  \/ \E t \in Tasks, s \in Stamps : InsertRow(t, s)
  \/ \E t \in Tasks, u \in Readers \cup {NoUser} : SetAssignee(t, u)

Spec == Init /\ [][Next]_vars

(***************************************************************************)
(* Properties.                                                             *)
(***************************************************************************)
\* The values of the table and of the readers.
PagingTypeOK ==
  /\ query \in [Readers -> Queries]
  /\ createdAt \in [Tasks -> Stamps \cup {Unborn}]
  /\ assignedTo \in [Tasks -> Readers \cup {NoUser}]
  /\ state \in [Readers -> {"between", "asked", "over"}]
  /\ page \in [Readers -> Nat \ {0}]
  /\ found \in [Readers -> BOOLEAN]
  /\ rows \in [Readers -> SUBSET Matching]
  /\ total \in [Readers -> Nat \cup {Pending}]
  /\ moved \in [Readers -> Nat]
  /\ lost \in [Readers -> Nat]
  /\ owed \in [Readers -> SUBSET Matching]

Unique(t) == \A u \in Tasks \ {t} : createdAt[u] # createdAt[t]

\* A reader that has come to the end has seen every row that was in its list
\* from the beginning, except as many as were taken out of the list meanwhile:
\* insertions, which shift the pages, never hide a row, in whatever order they
\* are committed.  (For rows that share their createdAt with no other row.)
MissesAtMostLost ==
  \A r \in Readers : state[r] = "over" =>
    Cardinality({t \in owed[r] : Unique(t)}) <= lost[r]

\* How many rows the page of r holds of a list of n rows.
Share(r, n) ==
  IF n <= Offset(r) THEN 0 ELSE AtMost(query[r].pageSize, n - Offset(r))

\* The total of an answer fits its page, up to the rows that entered or left
\* the list while the two queries ran: with a quiet list, page 1 to totalPages
\* are the pages that hold rows.
RowsFitTotal ==
  \A r \in Readers : found[r] /\ total[r] # Pending =>
    /\ Cardinality(rows[r]) >= Share(r, total[r] - moved[r])
    /\ Cardinality(rows[r]) <= Share(r, total[r] + moved[r])
=============================================================================
