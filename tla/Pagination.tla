------------------------------ MODULE Pagination ------------------------------
(***************************************************************************)
(* Reading a table page by page while rows come and go: the cursors of     *)
(* utils/stablePagination.js, and streamBatches of database/index.js.      *)
(*                                                                         *)
(* A row is its id and the value of the sort column, which does not change *)
(* while the row is there.  A cursor carries that value through JSON,      *)
(* which keeps less than the column may hold (a timestamp loses its        *)
(* microseconds).                                                          *)
(***************************************************************************)
EXTENDS Naturals, FiniteSets, FiniteSetsExt

CONSTANTS
  RowId,      \* ids
  SortValue,  \* values of the sort column
  Precision,  \* what JSON keeps of a value is its multiples
  PageLimit,  \* limit, batchSize
  NoCursor

ASSUME PaginationConfig ==
  /\ RowId \subseteq Nat /\ IsFiniteSet(RowId) /\ SortValue \subseteq Nat
  /\ Precision \in Nat \ {0} /\ PageLimit \in Nat \ {0}
  /\ NoCursor \notin [k : Nat, id : RowId]

VARIABLES
  rows,      \* id -> sort value of the rows in the table
  reader,    \* "none", "desc", "asc" (pages) or "batches", or "done"
  after,     \* the cursor of the last page: [k, id]
  seen,      \* history: how often each row was returned, at most twice
  steady,    \* history: the rows that were there all along
  pageEnds   \* history: the values of the rows that cursors were made of

paginationVars == <<rows, reader, after, seen, steady, pageEnds>>

NotThere == Max(SortValue) + 1
Rows == {r \in RowId : rows[r] # NotThere}

PaginationInit ==
  /\ rows = [r \in RowId |-> NotThere]
  /\ reader = "none" /\ after = NoCursor
  /\ seen = [r \in RowId |-> 0]
  /\ steady = {} /\ pageEnds = {}

\* Ids are not used again: a row that was read does not come back.
Insert(r, v) ==
  /\ r \notin Rows /\ seen[r] = 0
  /\ rows' = [rows EXCEPT ![r] = v]
  /\ UNCHANGED <<reader, after, seen, steady, pageEnds>>

Delete(r) ==
  /\ r \in Rows
  /\ rows' = [rows EXCEPT ![r] = NotThere]
  /\ steady' = steady \ {r}
  /\ UNCHANGED <<reader, after, seen, pageEnds>>

Open(kind) ==
  /\ reader = "none"
  /\ reader' = kind /\ after' = NoCursor
  /\ seen' = [r \in RowId |-> 0]
  /\ steady' = Rows /\ pageEnds' = {}
  /\ UNCHANGED rows

-----------------------------------------------------------------------------

\* encodeCursor and decodeCursor.
encodeCursor(v) == (v \div Precision) * Precision

\* The WHERE of applyCursor: (sortColumn, idColumn) beyond the cursor.
Beyond_SortOnly(r, c) == IF reader = "desc" THEN rows[r] < c.k ELSE rows[r] > c.k

Beyond(r, c) ==
  IF reader = "desc"
  THEN rows[r] < c.k \/ (rows[r] = c.k /\ r < c.id)
  ELSE rows[r] > c.k \/ (rows[r] = c.k /\ r > c.id)

\* Its ORDER BY.
Precedes(q, r) ==
  IF reader = "desc"
  THEN rows[q] > rows[r] \/ (rows[q] = rows[r] /\ q > r)
  ELSE rows[q] < rows[r] \/ (rows[q] = rows[r] /\ q < r)

\* The first n of a set of rows.
First(S, n) == {r \in S : Cardinality({q \in S : Precedes(q, r)}) < n}
LastOf(S) == CHOOSE r \in S : \A q \in S : q = r \/ Precedes(q, r)

applyCursor == {r \in Rows : after = NoCursor \/ Beyond(r, after)}

Return(items) == seen' = [r \in RowId |-> IF r \in items /\ seen[r] < 2 THEN seen[r] + 1 ELSE seen[r]]

\* One row more than the page is fetched: there is a next page exactly if it is
\* there, and the cursor is the last row of this one (buildPage).
buildPage ==
  LET fetched == First(applyCursor, PageLimit + 1)
      hasMore == Cardinality(fetched) > PageLimit
      items == First(fetched, PageLimit)
  IN
  /\ reader \in {"asc", "desc"}
  /\ Return(items)
  /\ IF hasMore
     THEN /\ after' = [k |-> encodeCursor(rows[LastOf(items)]), id |-> LastOf(items)]
          /\ pageEnds' = pageEnds \cup {rows[LastOf(items)]}
          /\ UNCHANGED reader
     ELSE reader' = "done" /\ UNCHANGED <<after, pageEnds>>
  /\ UNCHANGED <<rows, steady>>

\* streamBatches over a query ordered by id: a short batch is the last one.
streamBatches ==
  LET left == {r \in Rows : after = NoCursor \/ r > after.id}
      batch == {r \in left : Cardinality({q \in left : q < r}) < PageLimit}
  IN
  /\ reader = "batches"
  /\ Return(batch)
  /\ IF Cardinality(batch) < PageLimit
     THEN reader' = "done" /\ UNCHANGED after
     ELSE after' = [k |-> 0, id |-> Max(batch)] /\ UNCHANGED reader
  /\ UNCHANGED <<rows, steady, pageEnds>>

\* onBatch returns false, or the client asks for no further page.
Close ==
  /\ reader # "none"
  /\ reader' = "none"
  /\ seen' = [r \in RowId |-> 0] /\ after' = NoCursor
  /\ steady' = {} /\ pageEnds' = {}
  /\ UNCHANGED rows

PaginationNext ==
  \/ \E r \in RowId : Delete(r) \/ \E v \in SortValue : Insert(r, v)
  \/ \E kind \in {"asc", "desc", "batches"} : Open(kind)
  \/ buildPage \/ streamBatches \/ Close

PaginationSpec == PaginationInit /\ [][PaginationNext]_paginationVars

-----------------------------------------------------------------------------

\* The cursor of some page was made of a value that JSON does not tell from this one.
Blurred(v) == \E e \in pageEnds : e # encodeCursor(e) /\ encodeCursor(v) = encodeCursor(e)

\* Whatever is inserted and deleted between the pages, a reader that reaches the
\* end has been given every row that was there all along, exactly once, and no
\* row twice before; except rows whose sort value a cursor could not carry.
PagesExact ==
  \A r \in Rows : ~Blurred(rows[r]) =>
    /\ seen[r] <= 1
    /\ reader = "done" /\ r \in steady => seen[r] = 1

=============================================================================
