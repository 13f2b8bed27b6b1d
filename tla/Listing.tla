------------------------------ MODULE Listing ------------------------------
(***************************************************************************)
(* GET /v1/transactions page by page (keyset pagination), while rows are   *)
(* inserted, committed late, rolled back, and change of status.            *)
(*                                                                         *)
(* A page is one SELECT, hence one committed state.  Nothing links two     *)
(* pages but the cursor the caller sends back.  created_at is the start of *)
(* the SQL transaction, to the millisecond: rows share it, and a row may   *)
(* appear behind the place the walk has reached.                           *)
(***************************************************************************)
EXTENDS Integers, FiniteSets

CONSTANTS
  Row,       \* ids, as ranks in the order of their UUIDs
  MaxLimit,  \* the largest ?limit= the DTO accepts
  MaxTime,   \* bound: milliseconds
  MaxFlips   \* bound: changes of status that matter to ?status=

ASSUME ListingAssumption ==
  /\ Row \subseteq Nat /\ IsFiniteSet(Row)
  /\ MaxLimit \in Nat \ {0} /\ MaxTime \in Nat /\ MaxFlips \in Nat

VARIABLES
  now,        \* the clock of the database
  createdAt,  \* transactions.created_at, also of a row not committed yet
  begun,      \* rows whose SQL transaction is open
  committed,  \* rows of the table
  matching,   \* rows the filters of the walk select (status, merchant, dates)
  flips,      \* changes of status so far
  cursor,     \* the cursor the caller holds
  at,         \* where the walk is: "idle", "walking" or "ended"
  page,       \* the rows of the page received last
  earlier,    \* history: the rows of the pages before it
  steady      \* history: rows there and selected ever since the walk began

table == <<now, createdAt, begun, committed, matching, flips>>
walk == <<cursor, at, page, earlier>>
lvars == <<table, walk, steady>>

---------------------------------------------------------------------------
(* The query. *)

Place(r) == [time |-> createdAt[r], id |-> r]

\* ORDER BY created_at DESC, id DESC: x comes before y.
Before(x, y) == x.time > y.time \/ (x.time = y.time /\ x.id > y.id)

\* The WHERE the cursor adds.  Bug: the row of the cursor is taken again.
FromCursor(x, y) == x = y \/ Before(x, y)
\* Bug: the rows of the same millisecond are left out, or all taken again.
AfterMillisecond(x, y) == x.time > y.time
FromMillisecond(x, y) == x.time >= y.time
AfterCursor(x, y) == Before(x, y)

Selected == committed \cap matching
Remaining == {r \in Selected : at = "walking" => AfterCursor(cursor, Place(r))}

\* The first rows of S.
Ahead(S, r) == {q \in S : Before(Place(q), Place(r))}
Page(S, limit) == {r \in S : Cardinality(Ahead(S, r)) < limit}

\* take: limit + 1.  One row more than the page means there is a next page.
HasMore(S, limit) == Cardinality(S) > limit

IsLast(S, r) == r \in S /\ \A q \in S : q = r \/ Before(Place(q), Place(r))

---------------------------------------------------------------------------
LInit ==
  /\ now = 1
  /\ createdAt = [r \in Row |-> 0]
  /\ begun = {} /\ committed = {} /\ matching = {}
  /\ flips = 0
  /\ cursor = [time |-> 0, id |-> 0] /\ at = "idle"
  /\ page = {} /\ earlier = {}
  /\ steady = {}

Tick ==
  /\ now < MaxTime /\ now' = now + 1
  /\ UNCHANGED <<createdAt, begun, committed, matching, flips, walk, steady>>

\* Bug: the row is seen by others at once.
InsertVisibly(r) ==
  /\ r \notin begun \cup committed
  /\ createdAt' = [createdAt EXCEPT ![r] = now]
  /\ begun' = begun \cup {r} /\ committed' = committed \cup {r}
  /\ UNCHANGED <<now, matching, flips, walk, steady>>

\* A POST: created_at := CURRENT_TIMESTAMP, the start of the SQL transaction,
\* whose rows nobody else sees ...
Insert(r) ==
  /\ r \notin begun \cup committed
  /\ createdAt' = [createdAt EXCEPT ![r] = now]
  /\ begun' = begun \cup {r}
  /\ UNCHANGED <<now, committed, matching, flips, walk, steady>>

\* ... until it commits, selected by the filters or not ...
Commit(r, selected) ==
  /\ r \in begun
  /\ begun' = begun \ {r}
  /\ committed' = committed \cup {r}
  /\ matching' = IF selected THEN matching \cup {r} ELSE matching
  /\ UNCHANGED <<now, createdAt, flips, walk, steady>>

\* ... or rolls back.
Rollback(r) ==
  /\ r \in begun
  /\ begun' = begun \ {r}
  /\ createdAt' = [createdAt EXCEPT ![r] = 0]
  /\ UNCHANGED <<now, committed, matching, flips, walk, steady>>

\* A transition makes a row enter or leave what ?status= selects.
Flip(r) ==
  /\ r \in committed /\ flips < MaxFlips
  /\ flips' = flips + 1
  /\ matching' = IF r \in matching THEN matching \ {r} ELSE matching \cup {r}
  /\ steady' = steady \ {r}
  /\ UNCHANGED <<now, createdAt, begun, committed, walk>>

\* One GET: the page, and the cursor of the next one if there is one.
TakePage(limit) ==
  /\ page' = Page(Remaining, limit)
  /\ earlier' = earlier \cup page
  /\ IF HasMore(Remaining, limit)
     THEN at' = "walking" /\ \E r \in Row : IsLast(page', r) /\ cursor' = Place(r)
     ELSE at' = "ended" /\ UNCHANGED cursor

FirstPage ==
  /\ at = "idle"
  /\ \E limit \in 1..MaxLimit : TakePage(limit)
  /\ steady' = Selected
  /\ UNCHANGED table

NextPage ==
  /\ at = "walking"
  /\ \E limit \in 1..MaxLimit : TakePage(limit)
  /\ UNCHANGED <<table, steady>>

LNext ==
  \/ Tick
  \/ \E r \in Row : Insert(r) \/ Rollback(r) \/ Flip(r)
  \/ \E r \in Row, selected \in BOOLEAN : Commit(r, selected)
  \/ FirstPage
  \/ NextPage

\* The caller who began to read goes on until nextCursor is null.
LSpec == LInit /\ [][LNext]_lvars /\ WF_lvars(NextPage)

---------------------------------------------------------------------------
LTypeOK ==
  /\ now \in Nat /\ createdAt \in [Row -> Nat]
  /\ begun \subseteq Row /\ committed \subseteq Row
  /\ matching \subseteq committed /\ steady \subseteq Selected
  /\ begun \cap committed = {}
  /\ cursor \in [time : Nat, id : Nat]
  /\ at \in {"idle", "walking", "ended"}
  /\ page \subseteq committed /\ earlier \subseteq committed

\* The pages put end to end are in the order of one single list, strictly: no
\* row is listed twice and none goes back, whatever is inserted, committed
\* late or changed between two pages (cursor.util.ts).
ListedInOrder == \A q \in earlier, r \in page : Before(Place(q), Place(r))

\* A row that was there when the walk began, and selected ever since, is on
\* some page by the end: neither the rows of its millisecond nor those that
\* came or went around it make the walk jump over it.
NothingSkipped == at = "ended" => steady \subseteq earlier \cup page

\* The inductive invariant: while the walk goes on, the cursor is behind every
\* row it has passed and before every steady row it still owes.
LInv ==
  /\ LTypeOK /\ ListedInOrder /\ NothingSkipped
  /\ at = "idle" => page = {} /\ earlier = {}
  /\ at = "walking" => \A q \in earlier \cup page : ~Before(cursor, Place(q))
  /\ at = "walking" => \A r \in steady : r \in earlier \cup page \/ Before(cursor, Place(r))

\* The walk ends: new rows come before the cursor, never after it for ever.
WalkEnds == at = "walking" ~> at = "ended"

=============================================================================
