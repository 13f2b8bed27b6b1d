--------------------------- MODULE ListingProofs ---------------------------
(***************************************************************************)
(* For every set of rows, every clock and every sequence of page sizes:    *)
(* the pages of a walk are in order, and nothing that was there from the   *)
(* beginning is skipped.  The order is places, pages, invariant, steps.    *)
(***************************************************************************)
EXTENDS Listing, FiniteSetTheorems, TLAPS

USE ListingAssumption

Spot == [time : Nat, id : Nat]

\* (created_at DESC, id DESC) is a strict total order on places.
LEMMA BeforeIsAnOrder ==
  ASSUME NEW x \in Spot, NEW y \in Spot, NEW z \in Spot
  PROVE  /\ ~Before(x, x)
         /\ Before(x, y) => ~Before(y, x)
         /\ Before(x, y) /\ Before(y, z) => Before(x, z)
         /\ x = y \/ Before(x, y) \/ Before(y, x)
BY DEF Before, Spot

\* Two rows are never at the same place: the id decides.
LEMMA PlaceFacts ==
  ASSUME createdAt \in [Row -> Nat], NEW q \in Row, NEW r \in Row
  PROVE  /\ Place(q) \in Spot
         /\ Place(q) = Place(r) => q = r
BY DEF Place, Spot

---------------------------------------------------------------------------
\* What a page leaves for later comes after its last row.
LEMMA RestComesAfter ==
  ASSUME createdAt \in [Row -> Nat], NEW S \in SUBSET Row, NEW limit \in Nat,
         NEW last \in Row, IsLast(Page(S, limit), last),
         NEW r \in S, r \notin Page(S, limit)
  PROVE  Before(Place(last), Place(r))
<1>1. last \in S /\ Cardinality(Ahead(S, last)) < limit /\ last # r
  BY DEF IsLast, Page
<1>2. Place(last) \in Spot /\ Place(r) \in Spot /\ Place(last) # Place(r)
  BY <1>1, PlaceFacts
<1>3. ASSUME Before(Place(r), Place(last)) PROVE FALSE
  <2>1. Ahead(S, r) \subseteq Ahead(S, last)
    <3> SUFFICES ASSUME NEW q \in S, Before(Place(q), Place(r))
                 PROVE  Before(Place(q), Place(last))
      BY DEF Ahead
    <3>1. Place(q) \in Spot
      BY PlaceFacts
    <3> QED
      BY <1>2, <1>3, <3>1, BeforeIsAnOrder
  <2>2. IsFiniteSet(Ahead(S, last))
    BY FS_Subset DEF Ahead
  <2>3. /\ Cardinality(Ahead(S, r)) \in Nat /\ Cardinality(Ahead(S, last)) \in Nat
        /\ Cardinality(Ahead(S, r)) <= Cardinality(Ahead(S, last))
    BY <2>1, <2>2, FS_Subset, FS_CardinalityType
  <2>4. Cardinality(Ahead(S, r)) < limit
    BY <1>1, <2>3
  <2> QED
    BY <2>4 DEF Page
<1> QED
  BY <1>2, <1>3, BeforeIsAnOrder

\* Without one row more than the page, everything is on the page.
LEMMA LastPageIsAll ==
  ASSUME createdAt \in [Row -> Nat], NEW S \in SUBSET Row, NEW limit \in Nat,
         ~HasMore(S, limit)
  PROVE  Page(S, limit) = S
<1> SUFFICES ASSUME NEW r \in S PROVE Cardinality(Ahead(S, r)) < limit
  BY DEF Page
<1>1. IsFiniteSet(S)
  BY FS_Subset
<1>2. Ahead(S, r) \subseteq S \ {r}
  BY PlaceFacts, BeforeIsAnOrder DEF Ahead
<1>3. IsFiniteSet(S \ {r}) /\ Cardinality(S \ {r}) = Cardinality(S) - 1
  BY <1>1, FS_RemoveElement
<1>4. /\ Cardinality(Ahead(S, r)) \in Nat /\ Cardinality(S) \in Nat
      /\ Cardinality(Ahead(S, r)) <= Cardinality(S \ {r})
  BY <1>1, <1>2, <1>3, FS_Subset, FS_CardinalityType
<1>5. Cardinality(S) <= limit
  BY <1>4 DEF HasMore
<1> QED
  BY <1>3, <1>4, <1>5

---------------------------------------------------------------------------
(* Steps of the writers: no row already committed changes place. *)

\* A step of the writers that keeps the places keeps what the walk has seen in order.
LEMMA TableStep ==
  ASSUME LInv, LTypeOK', UNCHANGED walk, steady' \subseteq steady,
         \A r \in committed : createdAt'[r] = createdAt[r]
  PROVE  LInv'
<1>1. /\ cursor' = cursor /\ at' = at /\ page' = page /\ earlier' = earlier
      /\ page \subseteq committed /\ earlier \subseteq committed
      /\ steady \subseteq committed
  BY DEF LInv, LTypeOK, walk, Selected
<1>2. \A r \in committed : Place(r)' = Place(r)
  BY DEF Place
<1>3. ListedInOrder'
  <2> SUFFICES ASSUME NEW q \in earlier, NEW r \in page PROVE Before(Place(q)', Place(r)')
    BY <1>1 DEF ListedInOrder
  <2> QED
    BY <1>1, <1>2 DEF LInv, ListedInOrder
<1>4. NothingSkipped'
  BY <1>1 DEF LInv, NothingSkipped
<1>5. (at = "idle" => page = {} /\ earlier = {})'
  BY <1>1 DEF LInv
<1>6. (at = "walking" => \A q \in earlier \cup page : ~Before(cursor, Place(q)))'
  <2> SUFFICES ASSUME at = "walking", NEW q \in earlier \cup page
               PROVE  ~Before(cursor, Place(q)')
    BY <1>1
  <2> QED
    BY <1>1, <1>2 DEF LInv
<1>7. (at = "walking" => \A r \in steady : r \in earlier \cup page \/ Before(cursor, Place(r)))'
  <2> SUFFICES ASSUME at = "walking", NEW r \in steady'
               PROVE  r \in earlier \cup page \/ Before(cursor, Place(r)')
    BY <1>1
  <2>1. r \in steady /\ Place(r)' = Place(r)
    BY <1>1, <1>2
  <2> QED
    BY <2>1 DEF LInv
<1> QED
  BY <1>3, <1>4, <1>5, <1>6, <1>7 DEF LInv

---------------------------------------------------------------------------
(* Steps of the reader. *)

\* A page taken from the rows that remain, all of them after what was listed,
\* among which is every steady row not listed yet.
LEMMA PageStep ==
  ASSUME LInv, UNCHANGED table, NEW limit \in Nat, TakePage(limit),
         steady' \subseteq Selected,
         \A q \in earlier \cup page, r \in Remaining : Before(Place(q), Place(r)),
         \A r \in steady' : r \in earlier \cup page \/ r \in Remaining
  PROVE  LInv'
<1>1. /\ createdAt \in [Row -> Nat] /\ committed \subseteq Row
      /\ createdAt' = createdAt /\ committed' = committed /\ Selected' = Selected
      /\ Remaining \in SUBSET Row /\ Remaining \subseteq committed
      /\ page \subseteq committed /\ earlier \subseteq committed
  BY DEF LInv, LTypeOK, table, Remaining, Selected
<1>2. /\ page' \subseteq Remaining /\ page' = Page(Remaining, limit)
      /\ earlier' = earlier \cup page
  BY DEF TakePage, Page
<1>3. \A r : Place(r)' = Place(r)
  BY <1>1 DEF Place
<1>4. CASE ~HasMore(Remaining, limit)
  <2>1. at' = "ended" /\ cursor' = cursor
    BY <1>4 DEF TakePage
  <2>2. page' = Remaining
    BY <1>1, <1>2, <1>4, LastPageIsAll
  <2>3. LTypeOK'
    BY <1>1, <1>2, <2>1 DEF LInv, LTypeOK, table
  <2>4. ListedInOrder'
    BY <1>2, <1>3 DEF ListedInOrder
  <2>5. NothingSkipped'
    BY <1>2, <2>2 DEF NothingSkipped
  <2> QED
    BY <2>1, <2>3, <2>4, <2>5 DEF LInv
<1>5. CASE HasMore(Remaining, limit)
  <2>1. PICK last \in Row : IsLast(page', last) /\ cursor' = Place(last)
    BY <1>5 DEF TakePage
  <2>2. at' = "walking" /\ last \in page' /\ last \in Remaining
    BY <1>2, <1>5, <2>1 DEF TakePage, IsLast
  <2>3. \A q \in committed : Place(q) \in Spot
    BY <1>1, PlaceFacts
  <2>4. cursor' \in Spot
    BY <1>1, <2>1, PlaceFacts
  <2>5. LTypeOK'
    BY <1>1, <1>2, <2>2, <2>4 DEF LInv, LTypeOK, table, Spot
  <2>6. ListedInOrder'
    BY <1>2, <1>3 DEF ListedInOrder
  <2>7. \A q \in earlier' \cup page' : ~Before(cursor', Place(q))
    <3> SUFFICES ASSUME NEW q \in earlier' \cup page' PROVE ~Before(cursor', Place(q))
      OBVIOUS
    <3>1. q \in committed /\ Place(q) \in Spot
      BY <1>1, <1>2, <2>3
    <3>2. q = last \/ Before(Place(q), Place(last))
      BY <1>2, <2>1, <2>2 DEF IsLast
    <3> QED
      BY <2>1, <2>4, <3>1, <3>2, BeforeIsAnOrder
  <2>8. \A r \in steady' : r \in earlier' \cup page' \/ Before(cursor', Place(r))
    <3> SUFFICES ASSUME NEW r \in Remaining, r \notin page' PROVE Before(cursor', Place(r))
      BY <1>2
    <3> QED
      BY <1>1, <1>2, <2>1, RestComesAfter
  <2>9. NothingSkipped'
    BY <2>2 DEF NothingSkipped
  <2> QED
    BY <1>3, <2>2, <2>5, <2>6, <2>7, <2>8, <2>9 DEF LInv
<1> QED
  BY <1>4, <1>5

\* The first page begins before every row.
LEMMA FirstPageInv == LInv /\ FirstPage => LInv'
<1> SUFFICES ASSUME LInv, FirstPage PROVE LInv'
  OBVIOUS
<1>1. PICK limit \in 1..MaxLimit : TakePage(limit)
  BY DEF FirstPage
<1>2. /\ at = "idle" /\ steady' = Selected /\ UNCHANGED table
      /\ earlier = {} /\ page = {} /\ Remaining = Selected
  BY DEF FirstPage, LInv, Remaining
<1> QED
  BY <1>1, <1>2, PageStep

\* A further page begins right after the cursor.
LEMMA NextPageInv == LInv /\ NextPage => LInv'
<1> SUFFICES ASSUME LInv, NextPage PROVE LInv'
  OBVIOUS
<1>1. PICK limit \in 1..MaxLimit : TakePage(limit)
  BY DEF NextPage
<1>2. at = "walking" /\ UNCHANGED table /\ steady' = steady
  BY DEF NextPage
<1>3. steady \subseteq Selected /\ cursor \in Spot
  BY DEF LInv, LTypeOK, Spot
<1>4. ASSUME NEW q \in earlier \cup page, NEW r \in Remaining
      PROVE  Before(Place(q), Place(r))
  <2>1. Place(q) \in Spot /\ Place(r) \in Spot
    BY PlaceFacts DEF LInv, LTypeOK, Remaining, Selected
  <2>2. ~Before(cursor, Place(q)) /\ Before(cursor, Place(r))
    BY <1>2 DEF LInv, Remaining, AfterCursor
  <2>3. Place(q) = cursor \/ Before(Place(q), cursor)
    BY <1>3, <2>1, <2>2, BeforeIsAnOrder
  <2> QED
    BY <1>3, <2>1, <2>2, <2>3, BeforeIsAnOrder
<1>5. ASSUME NEW r \in steady PROVE r \in earlier \cup page \/ r \in Remaining
  BY <1>2, <1>3 DEF LInv, Remaining, AfterCursor
<1> QED
  BY <1>1, <1>2, <1>3, <1>4, <1>5, PageStep

---------------------------------------------------------------------------
\* No walk has begun.
LEMMA InitInv == LInit => LInv
<1> SUFFICES ASSUME LInit PROVE LInv
  OBVIOUS
<1>1. LTypeOK
  BY DEF LInit, LTypeOK, Selected
<1> QED
  BY <1>1 DEF LInit, LInv, ListedInOrder, NothingSkipped

\* The clock moves no row.
LEMMA TickInv == LInv /\ Tick => LInv'
<1> SUFFICES ASSUME LInv, Tick PROVE LInv'
  OBVIOUS
<1>1. LTypeOK'
  BY DEF LInv, LTypeOK, Tick, walk, Selected
<1> QED
  BY <1>1, TableStep DEF Tick

\* A row being inserted is not in the table yet.
LEMMA InsertInv ==
  ASSUME LInv, NEW r \in Row, Insert(r) \/ Rollback(r)
  PROVE  LInv'
<1>1. LTypeOK'
  <2>1. /\ createdAt' \in [Row -> Nat] /\ begun' \subseteq begun \cup {r}
        /\ r \notin committed
    BY DEF LInv, LTypeOK, Insert, Rollback
  <2>2. UNCHANGED <<now, committed, matching, steady, cursor, at, page, earlier>>
    BY DEF Insert, Rollback, walk
  <2> QED
    BY <2>1, <2>2 DEF LInv, LTypeOK, Selected
<1>2. r \notin committed /\ steady' = steady /\ UNCHANGED walk
  BY DEF LInv, LTypeOK, Insert, Rollback
<1>3. \A q \in committed : createdAt'[q] = createdAt[q]
  BY <1>2 DEF LInv, LTypeOK, Insert, Rollback
<1> QED
  BY <1>1, <1>2, <1>3, TableStep

\* A row that commits has the place its SQL transaction began with.
LEMMA CommitInv ==
  ASSUME LInv, NEW r \in Row, NEW selected \in BOOLEAN, Commit(r, selected)
  PROVE  LInv'
<1>1. /\ committed' = committed \cup {r} /\ matching \subseteq matching'
      /\ matching' \subseteq committed'
  BY DEF LInv, LTypeOK, Commit
<1>2. LTypeOK'
  BY <1>1 DEF LInv, LTypeOK, Commit, walk, Selected
<1> QED
  BY <1>2, TableStep DEF Commit

\* A row that no longer matches the filter is no longer owed.
LEMMA FlipInv ==
  ASSUME LInv, NEW r \in Row, Flip(r)
  PROVE  LInv'
<1>1. LTypeOK'
  BY DEF LInv, LTypeOK, Flip, walk, Selected
<1> QED
  BY <1>1, TableStep DEF Flip

\* Nothing happens.
LEMMA StutterInv == LInv /\ UNCHANGED lvars => LInv'
<1> SUFFICES ASSUME LInv, UNCHANGED lvars PROVE LInv'
  OBVIOUS
<1>1. LTypeOK'
  BY DEF LInv, LTypeOK, lvars, table, walk, Selected
<1> QED
  BY <1>1, TableStep DEF lvars, table

\* The inductive invariant holds of every reachable state.
THEOREM ListingInvariance == LSpec => []LInv
<1>1. LInv /\ [LNext]_lvars => LInv'
  BY TickInv, InsertInv, CommitInv, FlipInv, FirstPageInv, NextPageInv, StutterInv DEF LNext
<1> QED
  BY InitInv, <1>1, PTL DEF LSpec

\* Clock, rows and pages keep their types, and every page is made of committed
\* rows: nothing in flight is shown.
THEOREM ListingTypeCorrect == LSpec => []LTypeOK
<1>1. LInv => LTypeOK
  BY DEF LInv
<1> QED
  BY ListingInvariance, <1>1, PTL

\* The pages of a walk follow the order of one list: no row twice.
THEOREM ListingOrdered == LSpec => []ListedInOrder
<1>1. LInv => ListedInOrder
  BY DEF LInv
<1> QED
  BY ListingInvariance, <1>1, PTL

\* A walk that ended showed every row that was there all along.
THEOREM ListingComplete == LSpec => []NothingSkipped
<1>1. LInv => NothingSkipped
  BY DEF LInv
<1> QED
  BY ListingInvariance, <1>1, PTL

=============================================================================
