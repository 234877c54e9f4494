-------------------------------- MODULE Paging --------------------------------
(***************************************************************************)
(* The lists that are served page by page: orders of a user, transactions  *)
(* of a wallet, users and audit logs.  A client walks from the first page  *)
(* to the last while rows are inserted and, in the list of users, change   *)
(* the status it is filtered by.  Every page is two queries, the rows and  *)
(* then their number, which see different states of the table.             *)
(***************************************************************************)
EXTENDS Integers, Sequences, FiniteSets, SequencesExt

CONSTANTS
    Rows,         \* rows of the table
    Times,        \* values of created_at
    Lists,        \* which lists are walked: "users", "audit", "orders", "transactions"
    MaxSize,      \* the largest page size the services accept (100)
    DefaultSize,  \* the one they take instead of any other (20)
    Queries       \* what clients send: the page they begin with and page_size

ASSUME PagingConstants ==
    /\ Times \subseteq Nat
    /\ Lists \subseteq {"users", "audit", "orders", "transactions"}
    /\ MaxSize \in Nat /\ DefaultSize \in 1..MaxSize
    /\ Queries \subseteq Int \X Int

VARIABLES
    list,   \* the list that is walked
    at,     \* at[r]: created_at of a row of the table
    match,  \* the rows that pass the filter
    walk,   \* the client's walk: pc, first page, page and page_size sent
    seen,   \* seen[r]: how often the walk has returned row r
    there,  \* history: the rows that have matched since the walk began
    came,   \* history: the rows that began to match after that
    left    \* history: the rows that have ceased to match after that

paging == <<list, at, match, walk, seen, there, came, left>>

PagingInit ==
    /\ list \in Lists
    /\ at = [r \in {} |-> 0]
    /\ match = {}
    /\ walk = [pc |-> "idle", first |-> 0, page |-> 0, size |-> 0]
    /\ seen = [r \in Rows |-> 0]
    /\ there = {} /\ came = {} /\ left = {}

Walking == walk.pc \in {"list", "count"}

(* What happens to the table after the walk is of no interest. *)
Watched == walk.pc \in {"idle", "list", "count"}

-------------------------------------------------------------------------------
(* The table *)

Enters(r) == /\ match' = match \cup {r}
             /\ came' = IF Walking THEN came \cup {r} ELSE came
             /\ UNCHANGED <<there, left>>

(* created_at is NOW(), the start of the inserting transaction, which may commit *)
(* after transactions that began later.                                          *)
Insert(r, t) ==
    /\ Watched
    /\ r \notin DOMAIN at
    /\ at' = [i \in DOMAIN at \cup {r} |-> IF i = r THEN t ELSE at[i]]
    /\ Enters(r)
    /\ UNCHANGED <<list, walk, seen>>

(* UpdateUserStatus moves a user out of the status the list is filtered by, or *)
(* back into it; the columns the other lists are filtered by never change.     *)
ChangeStatus(r) ==
    /\ Watched
    /\ list = "users"
    /\ r \in DOMAIN at
    /\ \/ r \notin match /\ Enters(r)
       \/ /\ r \in match
          /\ match' = match \ {r}
          /\ there' = there \ {r}
          /\ left' = IF Walking THEN left \cup {r} ELSE left
          /\ UNCHANGED came
    /\ UNCHANGED <<list, at, walk, seen>>

-------------------------------------------------------------------------------
(* The services *)

clampPage(p) == IF p < 1 THEN 1 ELSE p

clampSize(n) == IF n < 1 \/ n > MaxSize THEN DefaultSize ELSE n

\* Mutant of offset: taken from the page size as it was sent.
offsetUnclamped(page, size) == (clampPage(page) - 1) * size

offset(page, size) == (clampPage(page) - 1) * clampSize(size)

(* ORDER BY created_at DESC: rows of one time come in any order, each time anew. *)
Sorted(S) == {s \in SetToSeqs(S) : \A i, j \in 1..Len(s) : i < j => at[s[i]] >= at[s[j]]}

(* LIMIT clampSize OFFSET offset *)
PageOf(s, page, size) ==
    {s[i] : i \in {j \in 1..Len(s) : /\ j > offset(page, size)
                                     /\ j <= offset(page, size) + clampSize(size)}}

(* Division of Go's integers: towards zero. *)
goDiv(a, b) == IF (a < 0) = (b < 0) THEN (IF b < 0 THEN -a ELSE a) \div (IF b < 0 THEN -b ELSE b)
               ELSE -((IF a < 0 THEN -a ELSE a) \div (IF b < 0 THEN -b ELSE b))

(* total_pages is computed by the services from the page size they used, but for *)
(* the audit logs by the handler, from the one that was sent.                    *)
pageSize == IF list = "audit" THEN walk.size ELSE clampSize(walk.size)

totalPages(total) ==
    LET n == goDiv(total + pageSize - 1, pageSize)
    IN  IF n = 0 THEN 1 ELSE n

(* The page of the response, from which the client goes on. *)
answeredPage == IF list = "audit" THEN walk.page ELSE clampPage(walk.page)

-------------------------------------------------------------------------------
(* The walk *)

Start(first, size) ==
    /\ walk.pc = "idle"
    /\ walk' = [pc |-> "list", first |-> first, page |-> first, size |-> size]
    /\ there' = match
    /\ UNCHANGED <<list, at, match, seen, came, left>>

(* ListByUser, ListTransactions, ListUsers, List *)
ListRows ==
    /\ walk.pc = "list"
    /\ \E s \in Sorted(match) :
          seen' = [r \in Rows |-> IF r \in PageOf(s, walk.page, walk.size)
                                  THEN seen[r] + 1 ELSE seen[r]]
    /\ walk' = [walk EXCEPT !.pc = "count"]
    /\ UNCHANGED <<list, at, match, there, came, left>>

\* Mutant of CountRows: the number of rows is cached when the walk begins.
CountRowsCached ==
    /\ walk.pc = "count"
    /\ pageSize # 0
    /\ LET pages == totalPages(Cardinality(there \cup left))
       IN  walk' = IF answeredPage < pages
                   THEN [walk EXCEPT !.pc = "list", !.page = answeredPage + 1]
                   ELSE [walk EXCEPT !.pc = "done"]
    /\ UNCHANGED <<list, at, match, seen, there, came, left>>

(* CountByUser, CountTransactions, CountUsers, Count: the client asks for the *)
(* next page, or has read the last.                                           *)
CountRows ==
    /\ walk.pc = "count"
    /\ pageSize # 0
    /\ LET pages == totalPages(Cardinality(match))
       IN  walk' = IF answeredPage < pages
                   THEN [walk EXCEPT !.pc = "list", !.page = answeredPage + 1]
                   ELSE [walk EXCEPT !.pc = "done"]
    /\ UNCHANGED <<list, at, match, seen, there, came, left>>

(* A division by zero: gin.Recovery answers 500. *)
CountPanics ==
    /\ walk.pc = "count"
    /\ pageSize = 0
    /\ walk' = [walk EXCEPT !.pc = "failed"]
    /\ UNCHANGED <<list, at, match, seen, there, came, left>>

(* One of the queries fails: the client gets an error and gives up. *)
QueryFails ==
    /\ Walking
    /\ walk' = [walk EXCEPT !.pc = "failed"]
    /\ UNCHANGED <<list, at, match, seen, there, came, left>>

PagingNext ==
    \/ \E r \in Rows, t \in Times : Insert(r, t)
    \/ \E r \in Rows : ChangeStatus(r)
    \/ \E q \in Queries : Start(q[1], q[2])
    \/ ListRows
    \/ CountRows
    \/ CountPanics
    \/ QueryFails

PagingSpec == PagingInit /\ [][PagingNext]_paging

-------------------------------------------------------------------------------
(* Properties *)

(* Another row that may come before r. *)
Before(r, S) == \E q \in S \ {r} : at[q] >= at[r]

(* A row shares its created_at with another of the list. *)
Tied(r) == \E q \in (there \cup came \cup left) \ {r} : at[q] = at[r]

(* The page size that was sent was not the one that was used. *)
Clamped == clampSize(walk.size) # walk.size

(* A walk from the first page to the last returns every row that was in the     *)
(* list from its beginning to its end, although pages shift under it while rows *)
(* are inserted and the two queries of a page see different tables.  It may     *)
(* miss a row only if the order among rows of the same time changed, if a user  *)
(* before it left the list, or if the number of pages was computed from another *)
(* page size than the pages, as for the audit logs.                             *)
NothingSkipped ==
    walk.pc = "done" /\ walk.first <= 1 =>
        \A r \in there : \/ seen[r] > 0
                         \/ Tied(r)
                         \/ Before(r, left)
                         \/ list = "audit" /\ Clamped

(* A walk returns a row twice only if a row came in before it, if rows share its *)
(* time, or if it began at a page that does not exist and the response named     *)
(* that page, as for the audit logs.                                             *)
NothingRepeated ==
    \A r \in there : seen[r] > 1 => \/ Before(r, came)
                                    \/ Tied(r)
                                    \/ list = "audit" /\ walk.first < 1
===============================================================================
