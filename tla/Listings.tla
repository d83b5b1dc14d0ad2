------------------------------- MODULE Listings -------------------------------
(***************************************************************************)
(* The paginated listings of the services.  A client walks through the     *)
(* pages of one listing; every page is two reads of the database, the rows *)
(* and their number, that no transaction joins, and other requests create, *)
(* update and remove rows between any two of them.                         *)
(***************************************************************************)
EXTENDS Naturals, FiniteSets, SequencesExt

CONSTANTS
  Key,         \* what a row is sorted by: of two rows the lesser comes first
  Limit,       \* rows on a page
  MaxRows,     \* bound: rows there are
  MaxChanges   \* bound: rows created, updated and removed during the walk

VARIABLES
  list,  \* the listing of this behaviour
  rows,  \* the rows its table had since the walk began
  walk   \* the client: its query, where it is and what it has been shown

vars == <<list, rows, walk>>

-----------------------------------------------------------------------------
(* The listings.  by: what the query sorts by, a column the client chooses *)
(* and that may be updated (createdAt, which never is, if it chooses none),*)
(* what is fixed when a row is created, or nothing; filters: whether the   *)
(* query filters; reads: which read comes first; hides: whether rows with  *)
(* a deletedAt are left out; removals: how rows of this table go (a        *)
(* deletedAt, or for good).                                                *)

By == {"column", "fixed", "none"}
Listing == [by : By, filters : BOOLEAN, reads : {"rows", "count", "both"},
            hides : BOOLEAN, removals : SUBSET {"soft", "hard"}]

\* Rows, then their number.
RowsFirst(hides, removals) ==
  [by |-> "column", filters |-> TRUE, reads |-> "rows", hides |-> hides, removals |-> removals]

GetInventories == RowsFirst(TRUE, {"soft"})
GetAllProducts == RowsFirst(TRUE, {"soft"})
\* A barred customer is still listed.
GetCustomers == RowsFirst(FALSE, {"soft", "hard"})
GetAgents == RowsFirst(FALSE, {})
GetUsers == [RowsFirst(FALSE, {"hard"}) EXCEPT !.filters = FALSE]

\* The number, then the rows.
FetchDevices == [RowsFirst(FALSE, {"hard"}) EXCEPT !.reads = "count"]
\* Contracts come in the order the database finds them.
GetAllContracts ==
  [by |-> "none", filters |-> FALSE, reads |-> "count", hides |-> FALSE, removals |-> {}]
GetAllSales == [GetAllContracts EXCEPT !.by = "fixed"]

\* Both at once.
Together(removals) ==
  [by |-> "column", filters |-> TRUE, reads |-> "both", hides |-> FALSE, removals |-> removals]
\* Removed stores are still listed.
FindStores == Together({"soft"})
FindTenants == Together({"hard"})
GetStoreUsers == Together({"hard"})
\* The members of the tenant, whatever their store.
GetUnassignedUsers == GetStoreUsers
GetAllInventorySales == [Together({}) EXCEPT !.by = "fixed"]

Listings ==
  {GetInventories, GetAllProducts, GetCustomers, GetAgents, GetUsers, FetchDevices,
   GetAllContracts, GetAllSales, FindStores, FindTenants, GetStoreUsers, GetUnassignedUsers,
   GetAllInventorySales}

-----------------------------------------------------------------------------
(* Rows *)

Row == [key : Key, tag : {"a", "b"}, state : {"live", "soft", "hard"}]

\* Columns the query neither sorts by nor filters on make no difference.
Keys == IF list.by = "none" THEN {CHOOSE k \in Key : TRUE} ELSE Key
Tags == IF walk.filter THEN {"a", "b"} ELSE {"a"}

\* The where clause, the same for both reads.
Matches(row) ==
  /\ row.state \in (IF list.hides THEN {"live"} ELSE {"live", "soft"})
  /\ walk.filter => row.tag = "a"

\* What it means for the walk that row r is now this one: it moves if what it
\* is sorted by changes; it leaves, or comes to, what the query finds, behind
\* every row since the walk began, before one, or before one and between the
\* two reads of a page.
Meaning(r, row) ==
  LET there == r \in DOMAIN rows
      matched == there /\ Matches(rows[r])
      behind == \A q \in DOMAIN rows \ {r} : rows[q].key < row.key
  IN  IF there /\ row.key # rows[r].key THEN {"move"}
      ELSE IF matched = Matches(row) THEN {}
      ELSE IF matched THEN {"leave"}
      ELSE IF behind THEN {"append"}
      ELSE IF walk.read = {} THEN {"insert"} ELSE {"tear"}

\* What is written after the walk is nothing to it.
Note(r, row) ==
  /\ walk.at = "page" /\ walk.changes < MaxChanges
  /\ walk' = [walk EXCEPT !.changes = @ + 1, !.writes = @ \cup Meaning(r, row)]

\* A row is created: with whatever it is sorted by, as rows are created
\* together and come in another order than that of their times.
CreateRow ==
  /\ Len(rows) < MaxRows
  /\ \E k \in Keys, t \in Tags :
       LET row == [key |-> k, tag |-> t, state |-> "live"]
       IN  rows' = Append(rows, row) /\ Note(Len(rows) + 1, row)
  /\ UNCHANGED list

Replace(r, row) ==
  /\ row # rows[r]
  /\ rows' = [rows EXCEPT ![r] = row]
  /\ Note(r, row)
  /\ UNCHANGED list

\* The columns the query filters and, maybe, sorts by are updated.
UpdateRow ==
  \E r \in DOMAIN rows :
    \E k \in (IF list.by = "column" THEN Keys ELSE {rows[r].key}), t \in Tags :
      rows[r].state # "hard" /\ Replace(r, [rows[r] EXCEPT !.key = k, !.tag = t])

RemoveRow ==
  \E r \in DOMAIN rows, how \in list.removals :
    rows[r].state = "live" /\ Replace(r, [rows[r] EXCEPT !.state = how])

-----------------------------------------------------------------------------
(* A page *)

Matching == {r \in DOMAIN rows : Matches(rows[r])}

\* Whether row r may come before row q: rows that are sorted alike come as
\* they come.
MayPrecede(r, q) == list.by # "none" => rows[r].key <= rows[q].key

\* Mutant: no orderBy.
AnyOrder == SetToSeqs(Matching)

\* The orders a query may answer in.
Orders ==
  {o \in SetToSeqs(Matching) : \A i, j \in DOMAIN o : i < j => MayPrecede(o[i], o[j])}

\* Mutant: the last, incomplete page is not counted.
FullPages(total) == IF walk.limit = 0 THEN 0 ELSE total \div walk.limit

TotalPages(total) == IF walk.limit = 0 THEN 0 ELSE (total + walk.limit - 1) \div walk.limit

\* skip and take.
Page(order) ==
  LET skip == (walk.page - 1) * walk.limit
      last == IF skip + walk.limit < Len(order) THEN skip + walk.limit ELSE Len(order)
  IN SubSeq(order, skip + 1, last)

-----------------------------------------------------------------------------
(* The walk *)

\* The first page; the query is fixed for all pages.
Begun(filter, limit, found) ==
  [at |-> "page", filter |-> filter, limit |-> limit, page |-> 1, read |-> {},
   total |-> 0, shown |-> <<>>, start |-> found, changes |-> 0, writes |-> {}]

ReadRows ==
  /\ walk.at = "page"
  /\ "rows" \notin walk.read
  /\ list.reads = "count" => "count" \in walk.read
  /\ \E order \in Orders :
       walk' = [walk EXCEPT !.read = @ \cup {"rows"}, !.shown = @ \o Page(order)]
  /\ UNCHANGED <<list, rows>>

ReadCount ==
  /\ walk.at = "page"
  /\ "count" \notin walk.read
  /\ list.reads = "rows" => "rows" \in walk.read
  /\ walk' = [walk EXCEPT !.read = @ \cup {"count"}, !.total = Cardinality(Matching)]
  /\ UNCHANGED <<list, rows>>

\* The page is answered; the client goes on as long as there are pages.
Answer ==
  /\ walk.read = {"rows", "count"}
  /\ walk' = [walk EXCEPT !.read = {},
                          !.at = IF walk.page < TotalPages(walk.total) THEN "page" ELSE "end",
                          !.page = @ + (IF walk.page < TotalPages(walk.total) THEN 1 ELSE 0)]
  /\ UNCHANGED <<list, rows>>

\* The walk begins with any table; its rows are numbered as they are sorted.
Init ==
  /\ list \in Listings
  /\ \E filter \in (IF list.filters THEN BOOLEAN ELSE {FALSE}), limit \in Limit, n \in 0..MaxRows :
       \E keys \in [1..n -> IF list.by = "none" THEN {CHOOSE k \in Key : TRUE} ELSE Key],
          tags \in [1..n -> IF filter THEN {"a", "b"} ELSE {"a"}] :
         /\ \A i, j \in 1..n : i < j => keys[i] <= keys[j]
         /\ rows = [i \in 1..n |-> [key |-> keys[i], tag |-> tags[i], state |-> "live"]]
         /\ walk = Begun(filter, limit, {i \in 1..n : tags[i] = "a"})

Next == CreateRow \/ UpdateRow \/ RemoveRow \/ ReadRows \/ ReadCount \/ Answer

Spec == Init /\ [][Next]_vars

-----------------------------------------------------------------------------
(* Correctness *)

Write == {"append", "insert", "tear", "leave", "move"}

\* Every row and the walk keep their shape.
TypeOK ==
  /\ list \in Listing
  /\ rows \in Seq(Row)
  /\ walk \in [at : {"page", "end"}, filter : BOOLEAN, limit : Limit,
               page : Nat, read : SUBSET {"rows", "count"}, total : Nat,
               shown : Seq(Nat), start : SUBSET Nat, changes : Nat, writes : SUBSET Write]

\* The query orders the rows since the walk began one way only.
Ordered ==
  list.by # "none" /\ \A r, q \in DOMAIN rows : rows[r].key = rows[q].key => r = q

\* What may be written during a walk without hiding a row, and without showing
\* one twice.
Hidden == {"append", "insert"} \cup (IF list.reads = "rows" THEN {"tear"} ELSE {})
Doubled == {"append", "leave"}

\* A walk to the last page shows every row the query found when it began,
\* whatever else is created, or updated so that the query finds it, if no row
\* leaves what it finds or changes what it is sorted by and no two are sorted
\* alike; where the number is not read last, only if between the two reads of a
\* page nothing comes but behind all rows.  A page has to have room for a row.
WalkShowsEveryRow ==
  walk.at = "end" /\ Ordered /\ walk.limit > 0 /\ walk.writes \subseteq Hidden
    => walk.start \subseteq ToSet(walk.shown)

\* A walk shows no row twice, whatever is removed or updated so that the query
\* does not find it any more, if nothing comes but behind all rows since it
\* began, nothing changes what it is sorted by and no two are sorted alike.
NoRowTwice == Ordered /\ walk.writes \subseteq Doubled => IsInjective(walk.shown)

-----------------------------------------------------------------------------
(* Why: a row is shown when the walk passes its place in the order *)

\* The rows that come before row r, and the places the walk has passed.
Ahead(r) == {q \in Matching : q # r /\ MayPrecede(q, r)}
Passed == IF "rows" \in walk.read THEN walk.page * walk.limit ELSE (walk.page - 1) * walk.limit

\* Nothing is read after the last page; pages are numbered from 1; the rows a
\* walk began with are found as long as none leaves.
InPlace ==
  /\ walk.at = "end" => walk.read = {}
  /\ walk.page >= 1
  /\ list.reads = "rows" /\ "count" \in walk.read => "rows" \in walk.read
  /\ ToSet(walk.shown) \cup walk.start \subseteq DOMAIN rows
  /\ walk.writes \subseteq {"append", "insert", "tear"} => walk.start \subseteq Matching

\* Whatever was shown has its place among those passed: rows that leave only
\* move others forward, and rows that come behind all move none.
ShownPassed ==
  Ordered /\ walk.writes \subseteq Doubled /\ walk.at = "page"
    => \A r \in ToSet(walk.shown) : Cardinality(Ahead(r)) < Passed

\* Whatever was passed is shown: rows that come only move others back.
PassedShown ==
  Ordered /\ walk.writes \subseteq {"append", "insert", "tear"} /\ walk.at = "page"
    => \A r \in walk.start \ ToSet(walk.shown) : Cardinality(Ahead(r)) >= Passed

\* A number that was read counts every row the walk has not come to.
TotalGoesOn ==
  Ordered /\ walk.writes \subseteq Hidden /\ walk.at = "page" /\ "count" \in walk.read
    => \A r \in walk.start \ ToSet(walk.shown) :
         Cardinality(Ahead(r)) >= walk.page * walk.limit => walk.total > walk.page * walk.limit

WalkInv ==
  /\ TypeOK /\ InPlace
  /\ ShownPassed /\ PassedShown /\ TotalGoesOn
  /\ NoRowTwice /\ WalkShowsEveryRow
=============================================================================
