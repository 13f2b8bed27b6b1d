---------------------------- MODULE AccessProofs ----------------------------
(***************************************************************************)
(* For any merchants, keys, rows and requests in flight: a MERCHANT key    *)
(* sees its own rows, another's rows look absent to it, and who collects   *)
(* has an account.  The order is: what a step keeps, what an answer may    *)
(* say, one lemma per statement, theorems.                                 *)
(***************************************************************************)
EXTENDS Access, TLAPS

USE AccessAssumption

\* No step takes a key, a row or an exception away, nor changes whose they are.
KeysKept ==
  \A k \in DOMAIN keys : /\ k \in DOMAIN keys' /\ keys'[k].role = keys[k].role
                        /\ keys'[k].merchant = keys[k].merchant
RowsKept == \A t \in DOMAIN rows : t \in DOMAIN rows' /\ rows'[t] = rows[t]
Kept == KeysKept /\ RowsKept /\ DOMAIN exceptions \subseteq DOMAIN exceptions'

\* What the tables say of each other.
TablesInv == RefundFollowsPayment /\ merchants \subseteq accounts /\ PaymentHasAccount
AnswerInv == OwnRowsOnly /\ ForeignLooksAbsent

\* What a waiting request has found stays found.
LEMMA FoundStays ==
  ASSUME AInv, Kept, NEW c \in Caller, call'[c] = call[c]
  PROVE  FoundIsVisible(c)'
<1>1. FoundIsVisible(c)
  BY DEF AInv
<1>2. call[c].at # "idle" => call[c].by \in DOMAIN keys
  BY DEF AInv, ATypeOK
<1> QED
  BY <1>1, <1>2 DEF FoundIsVisible, Serves, IsMerchant, OwnParent, Visible, Kept, KeysKept, RowsKept

\* What a step of the request of c has to show.
LEMMA StepInv ==
  ASSUME AInv, NEW c \in Caller, Kept, ATypeOK', TablesInv', AnswerInv', FoundIsVisible(c)',
         \A d \in Caller \ {c} : call'[d] = call[d]
  PROVE  AInv'
<1>1. ASSUME NEW d \in Caller PROVE FoundIsVisible(d)'
  BY FoundStays
<1> QED
  BY <1>1 DEF AInv, TablesInv, AnswerInv

\* The same for a step of nobody's request.
LEMMA OtherInv ==
  ASSUME AInv, Kept, ATypeOK', TablesInv', AnswerInv', UNCHANGED call
  PROVE  AInv'
<1>1. ASSUME NEW d \in Caller PROVE FoundIsVisible(d)'
  BY FoundStays
<1> QED
  BY <1>1 DEF AInv, TablesInv, AnswerInv

\* A step that leaves the tables alone keeps what holds of them.
LEMMA TablesStay ==
  ASSUME AInv, UNCHANGED tables
  PROVE  Kept /\ TablesInv'
<1>1. Kept
  BY DEF tables, Kept, KeysKept, RowsKept
<1>2. TablesInv'
  BY DEF AInv, TablesInv, RefundFollowsPayment, PaymentHasAccount, tables
<1> QED
  BY <1>1, <1>2

---------------------------------------------------------------------------
(* Answers. *)

\* A step that answers nobody shows nothing.
LEMMA SilenceIsSafe ==
  ASSUME ATypeOK', answer' = Silence
  PROVE  AnswerInv'
<1>1. 0 \notin DOMAIN keys'
  BY DEF ATypeOK
<1> QED
  BY <1>1 DEF AnswerInv, OwnRowsOnly, ForeignLooksAbsent, IsMerchant, Silence

\* An answer that shows nothing and is not about a transaction.
LEMMA EmptyIsSafe ==
  ASSUME answer'.shown = {},
         answer'.route \notin {"getOne", "audit", "createRefund"} \/ answer'.code = "404"
  PROVE  AnswerInv'
BY DEF AnswerInv, OwnRowsOnly, ForeignLooksAbsent

\* An answer to another role.
LEMMA OtherRoleIsSafe ==
  ASSUME ~IsMerchant(answer.to)'
  PROVE  AnswerInv'
BY DEF AnswerInv, OwnRowsOnly, ForeignLooksAbsent

\* A request that is over relies on nothing it has found.
LEMMA IdleIsFound ==
  ASSUME NEW c \in Caller, call'[c] = Idle
  PROVE  FoundIsVisible(c)'
BY DEF FoundIsVisible, Idle, Serves

\* What answering does to the request and to the answer.
LEMMA AnswerType ==
  ASSUME AInv, NEW c \in Caller, NEW on \in Nat, NEW code \in Code, NEW seen \in SUBSET Nat,
         Answer(c, on, code, seen)
  PROVE  /\ answer' = [code |-> code, to |-> call[c].by, route |-> call[c].route, on |-> on, shown |-> seen]
         /\ answer' \in [code : Code, to : Nat, route : Route, on : Nat, shown : SUBSET Nat]
         /\ call' \in [Caller -> Call] /\ call'[c] = Idle
         /\ \A d \in Caller \ {c} : call'[d] = call[d]
<1>1. call \in [Caller -> Call] /\ call[c] \in Call
  BY DEF AInv, ATypeOK
<1>2. Idle \in Call
  BY DEF Idle, Call, Route
<1> QED
  BY <1>1, <1>2 DEF Answer, Call

\* What going on with a row found does to the request.
LEMMA ProceedType ==
  ASSUME AInv, NEW c \in Caller, NEW on \in Nat, NEW i \in IdempotencyKey \cup {NoKey},
         Proceed(c, on, i)
  PROVE  /\ answer' = Silence
         /\ call' \in [Caller -> Call]
         /\ call'[c] = [call[c] EXCEPT !.at = "found", !.on = on, !.with = i]
         /\ call'[c].at = "found" /\ call'[c].by = call[c].by /\ call'[c].route = call[c].route
         /\ call'[c].on = on /\ call'[c].with = i
         /\ \A d \in Caller \ {c} : call'[d] = call[d]
<1>1. call \in [Caller -> Call] /\ call[c] \in Call
  BY DEF AInv, ATypeOK
<1> QED
  BY <1>1 DEF Proceed, Call

\* Whoever is being served holds a key that exists.
LEMMA CallersStayKnown ==
  ASSUME AInv, NEW c \in Caller, call'[c] = Idle, DOMAIN keys \subseteq DOMAIN keys',
         \A d \in Caller \ {c} : call'[d] = call[d]
  PROVE  \A d \in Caller : call'[d].at # "idle" => call'[d].by \in DOMAIN keys'
<1>1. \A d \in Caller : call[d].at # "idle" => call[d].by \in DOMAIN keys
  BY DEF AInv, ATypeOK
<1>2. call'[c].at = "idle"
  BY DEF Idle
<1> QED
  BY <1>1, <1>2

\* The parts of the type invariant a step that leaves the tables alone may touch.
LEMMA TypeStays ==
  ASSUME AInv, UNCHANGED <<tables, script>>, call' \in [Caller -> Call],
         \A c \in Caller : call'[c].at # "idle" => call'[c].by \in DOMAIN keys,
         answer' \in [code : Code, to : Nat, route : Route, on : Nat, shown : SUBSET Nat],
         answer'.shown \subseteq DOMAIN rows
  PROVE  ATypeOK'
BY DEF AInv, ATypeOK, tables

---------------------------------------------------------------------------
(* Statements that write nothing. *)

\* A handler that answers from the tables, and writes none, needs a safe answer only.
LEMMA AnswerOnly ==
  ASSUME AInv, NEW c \in Caller, UNCHANGED <<tables, script>>,
         NEW on \in Nat, NEW code \in Code, NEW seen \in SUBSET DOMAIN rows,
         Answer(c, on, code, seen), AnswerInv'
  PROVE  AInv'
<1>1. seen \in SUBSET Nat
  BY DEF AInv, ATypeOK
<1>2. /\ answer' = [code |-> code, to |-> call[c].by, route |-> call[c].route, on |-> on, shown |-> seen]
      /\ answer' \in [code : Code, to : Nat, route : Route, on : Nat, shown : SUBSET Nat]
      /\ call' \in [Caller -> Call] /\ call'[c] = Idle
      /\ \A d \in Caller \ {c} : call'[d] = call[d]
  BY <1>1, AnswerType
<1>3. \A d \in Caller : call'[d].at # "idle" => call'[d].by \in DOMAIN keys
  <2>1. DOMAIN keys \subseteq DOMAIN keys' /\ keys' = keys
    BY DEF tables
  <2> QED
    BY <1>2, <2>1, CallersStayKnown
<1>4. ATypeOK'
  BY <1>2, <1>3, TypeStays
<1>5. FoundIsVisible(c)'
  BY <1>2, IdleIsFound
<1>6. Kept /\ TablesInv'
  BY TablesStay
<1> QED
  BY <1>2, <1>4, <1>5, <1>6, StepInv

\* A handler that goes on needs to have found a row its caller may see.
LEMMA ProceedOnly ==
  ASSUME AInv, NEW c \in Caller, call[c].at # "idle", UNCHANGED <<tables, script>>,
         NEW on \in Nat, NEW i \in IdempotencyKey \cup {NoKey},
         Proceed(c, on, i), FoundIsVisible(c)'
  PROVE  AInv'
<1>1. /\ answer' = Silence /\ call' \in [Caller -> Call] /\ call'[c].by = call[c].by
      /\ \A d \in Caller \ {c} : call'[d] = call[d]
  BY ProceedType
<1>2. \A d \in Caller : call'[d].at # "idle" => call'[d].by \in DOMAIN keys
  BY <1>1 DEF AInv, ATypeOK
<1>3. /\ answer' \in [code : Code, to : Nat, route : Route, on : Nat, shown : SUBSET Nat]
      /\ answer'.shown = {}
  BY <1>1 DEF Silence, Code, Route
<1>4. ATypeOK'
  BY <1>1, <1>2, <1>3, TypeStays
<1>5. AnswerInv'
  BY <1>1, <1>4, SilenceIsSafe
<1>6. Kept /\ TablesInv'
  BY TablesStay
<1> QED
  BY <1>1, <1>4, <1>5, <1>6, StepInv

\* DELETE of a key: the row is found first ...
LEMMA FindKeyInv ==
  ASSUME AInv, NEW c \in Caller, NEW k \in 1..MaxKeys, FindKey(c, k)
  PROVE  AInv'
<1>1. /\ call[c].route = "revoke" /\ call[c].at = "authenticated"
      /\ UNCHANGED <<tables, script>> /\ k \in Nat
  BY DEF FindKey, Serves
<1>2. CASE k \in DOMAIN keys
  <2>1. Proceed(c, k, NoKey)
    BY <1>2 DEF FindKey
  <2>2. call'[c].route = "revoke" /\ call'[c].on = k
    BY <1>1, <2>1, ProceedType
  <2>3. FoundIsVisible(c)'
    BY <1>1, <1>2, <2>2 DEF FoundIsVisible, Serves, tables
  <2> QED
    BY <1>1, <2>1, <2>3, ProceedOnly
<1>3. CASE k \notin DOMAIN keys
  <2>1. Answer(c, 0, "404", {})
    BY <1>3 DEF FindKey
  <2>2. answer'.shown = {} /\ answer'.code = "404"
    BY <2>1 DEF Answer
  <2>3. AnswerInv'
    BY <2>2, EmptyIsSafe
  <2> QED
    BY <1>1, <2>1, <2>3, AnswerOnly DEF Code
<1> QED
  BY <1>2, <1>3

\* Resolving an exception: it is found, whoever asks ...
LEMMA FindExceptionInv ==
  ASSUME AInv, NEW c \in Caller, NEW x \in 1..MaxExceptions, FindException(c, x)
  PROVE  AInv'
<1>1. /\ call[c].route = "resolve" /\ call[c].at = "authenticated"
      /\ UNCHANGED <<tables, script>> /\ x \in Nat
  BY DEF FindException, Serves
<1>2. CASE x \in DOMAIN exceptions /\ Proceed(c, x, NoKey)
  <2>1. call'[c].route = "resolve" /\ call'[c].on = x
    BY <1>1, <1>2, ProceedType
  <2>2. FoundIsVisible(c)'
    BY <1>1, <1>2, <2>1 DEF FoundIsVisible, Serves, tables
  <2> QED
    BY <1>1, <1>2, <2>2, ProceedOnly
<1>3. ASSUME NEW code \in {"404", "409"}, Answer(c, x, code, {}) PROVE AInv'
  <2>1. answer'.shown = {} /\ answer'.route = "resolve"
    BY <1>1, <1>3 DEF Answer
  <2>2. AnswerInv'
    BY <2>1, EmptyIsSafe
  <2>3. code \in Code /\ {} \in SUBSET DOMAIN rows
    BY <1>3 DEF Code
  <2> QED
    BY <1>1, <1>3, <2>2, <2>3, AnswerOnly
<1> QED
  BY <1>2, <1>3 DEF FindException

\* POST of a refund: the parent is looked for among the rows of the caller ...
LEMMA FindParentInv ==
  ASSUME AInv, NEW c \in Caller, NEW t \in 1..MaxRows, NEW i \in IdempotencyKey,
         FindParent(c, t, i)
  PROVE  AInv'
<1>1. /\ call[c].route = "createRefund" /\ call[c].at = "authenticated"
      /\ UNCHANGED <<tables, script>> /\ t \in Nat
  BY DEF FindParent, Serves
<1>2. CASE t \in DOMAIN rows /\ OwnParent(call[c].by, t)
  <2>1. Proceed(c, t, i)
    BY <1>2 DEF FindParent
  <2>2. call'[c].route = "createRefund" /\ call'[c].on = t /\ call'[c].with = i /\ call'[c].by = call[c].by
    BY <1>1, <2>1, ProceedType
  <2>3. IsMerchant(call[c].by)
    BY <1>1 DEF AInv, FoundIsVisible
  <2>4. FoundIsVisible(c)'
    BY <1>1, <1>2, <2>2, <2>3 DEF FoundIsVisible, Serves, IsMerchant, OwnParent, tables
  <2> QED
    BY <1>1, <2>1, <2>4, ProceedOnly
<1>3. CASE ~(t \in DOMAIN rows /\ OwnParent(call[c].by, t))
  <2>1. Answer(c, t, "404", {})
    BY <1>3 DEF FindParent
  <2>2. answer'.shown = {} /\ answer'.code = "404"
    BY <2>1 DEF Answer
  <2>3. AnswerInv'
    BY <2>2, EmptyIsSafe
  <2> QED
    BY <1>1, <2>1, <2>3, AnswerOnly DEF Code
<1> QED
  BY <1>2, <1>3

\* The audit looks for the transaction among the rows of the caller ...
LEMMA FindAuditedInv ==
  ASSUME AInv, NEW c \in Caller, NEW t \in 1..MaxRows, FindAudited(c, t)
  PROVE  AInv'
<1>1. /\ call[c].route = "audit" /\ call[c].at = "authenticated"
      /\ UNCHANGED <<tables, script>> /\ t \in Nat
  BY DEF FindAudited, Serves
<1>2. CASE t \in DOMAIN rows /\ Visible(call[c].by, t)
  <2>1. Proceed(c, t, NoKey)
    BY <1>2 DEF FindAudited
  <2>2. call'[c].route = "audit" /\ call'[c].on = t /\ call'[c].by = call[c].by
    BY <1>1, <2>1, ProceedType
  <2>3. FoundIsVisible(c)'
    BY <1>1, <1>2, <2>2 DEF FoundIsVisible, Serves, Visible, tables
  <2> QED
    BY <1>1, <2>1, <2>3, ProceedOnly
<1>3. CASE ~(t \in DOMAIN rows /\ Visible(call[c].by, t))
  <2>1. Answer(c, t, "404", {})
    BY <1>3 DEF FindAudited
  <2>2. answer'.shown = {} /\ answer'.code = "404"
    BY <2>1 DEF Answer
  <2>3. AnswerInv'
    BY <2>2, EmptyIsSafe
  <2> QED
    BY <1>1, <2>1, <2>3, AnswerOnly DEF Code
<1> QED
  BY <1>2, <1>3

\* An answer that shows rows the key may see, about one of them.
LEMMA OwnIsSafe ==
  ASSUME AInv, NEW c \in Caller, NEW on \in Nat, NEW code \in Code, NEW seen,
         Answer(c, on, code, seen), UNCHANGED <<keys, rows>>,
         IsMerchant(call[c].by) => seen \subseteq OwnRows(call[c].by),
         \/ call[c].route \notin {"getOne", "audit", "createRefund"}
         \/ IsMerchant(call[c].by) => on \in OwnRows(call[c].by)
  PROVE  AnswerInv'
<1>1. /\ answer'.to = call[c].by /\ answer'.route = call[c].route
      /\ answer'.on = on /\ answer'.shown = seen
  BY DEF Answer
<1>2. /\ IsMerchant(answer.to)' = IsMerchant(call[c].by)
      /\ OwnRows(answer.to)' = OwnRows(call[c].by)
  BY <1>1 DEF IsMerchant, OwnRows, OwnedBy
<1> QED
  BY <1>1, <1>2 DEF AnswerInv, OwnRowsOnly, ForeignLooksAbsent

\* GET of one transaction shows a row of the caller or 404.
LEMMA GetOneInv ==
  ASSUME AInv, NEW c \in Caller, NEW t \in 1..MaxRows, GetOne(c, t)
  PROVE  AInv'
<1>1. UNCHANGED <<tables, script>> /\ UNCHANGED <<keys, rows>> /\ t \in Nat
  BY DEF GetOne, tables
<1>2. CASE t \in DOMAIN rows /\ Visible(call[c].by, t)
  <2>1. Answer(c, t, "200", {t}) /\ {t} \in SUBSET DOMAIN rows /\ "200" \in Code
    BY <1>2 DEF GetOne, Code
  <2>2. IsMerchant(call[c].by) => t \in OwnRows(call[c].by)
    BY <1>2 DEF IsMerchant, Visible, OwnRows, OwnedBy
  <2>3. AnswerInv'
    BY <1>1, <2>1, <2>2, OwnIsSafe
  <2> QED
    BY <1>1, <2>1, <2>3, AnswerOnly
<1>3. CASE ~(t \in DOMAIN rows /\ Visible(call[c].by, t))
  <2>1. Answer(c, t, "404", {})
    BY <1>3 DEF GetOne
  <2>2. answer'.shown = {} /\ answer'.code = "404"
    BY <2>1 DEF Answer
  <2>3. AnswerInv'
    BY <2>2, EmptyIsSafe
  <2> QED
    BY <1>1, <2>1, <2>3, AnswerOnly DEF Code
<1> QED
  BY <1>2, <1>3

\* A list shows rows of the caller only.
LEMMA ListInv ==
  ASSUME AInv, NEW c \in Caller, List(c)
  PROVE  AInv'
<1> DEFINE k == call[c].by
           seen == IF keys[k].role = "MERCHANT" THEN OwnedBy(keys[k].merchant) ELSE DOMAIN rows
<1>1. /\ UNCHANGED <<tables, script>> /\ UNCHANGED <<keys, rows>>
      /\ call[c].route = "list" /\ Answer(c, 0, "200", seen) /\ "200" \in Code
  BY DEF List, tables, Serves, Code
<1>2. seen \in SUBSET DOMAIN rows
  BY DEF OwnedBy
<1>3. IsMerchant(k) => seen \subseteq OwnRows(k)
  BY DEF IsMerchant, OwnRows
<1> HIDE DEF seen
<1>4. AnswerInv'
  BY <1>1, <1>3, OwnIsSafe
<1> QED
  BY <1>1, <1>2, <1>4, AnswerOnly

\* What an audit adds to the row it checked has the owner of that row.
LEMMA FamilyIsOwn ==
  ASSUME AInv, NEW t \in DOMAIN rows,
         NEW r \in {t} \cup RefundsOf(t) \cup (IF rows[t].parent = 0 THEN {} ELSE {rows[t].parent})
  PROVE  r \in DOMAIN rows /\ rows[r].owner = rows[t].owner
<1>1. /\ rows \in Seq([owner : Merchant, parent : Nat, key : IdempotencyKey])
      /\ \A u \in DOMAIN rows : rows[u].parent \in 0..u - 1
      /\ \A u \in DOMAIN rows : rows[u].parent # 0 => rows[rows[u].parent].owner = rows[u].owner
  BY DEF AInv, ATypeOK, RefundFollowsPayment
<1>2. t \in 1..Len(rows) /\ DOMAIN rows = 1..Len(rows) /\ Len(rows) \in Nat
  BY <1>1
<1>3. CASE r = t
  BY <1>3
<1>4. CASE r \in RefundsOf(t)
  <2>1. r \in DOMAIN rows /\ rows[r].parent = t
    BY <1>4 DEF RefundsOf
  <2>2. rows[r].parent # 0
    BY <1>2, <2>1
  <2> QED
    BY <1>1, <2>1, <2>2
<1>5. CASE rows[t].parent # 0 /\ r = rows[t].parent
  BY <1>1, <1>2, <1>5
<1> QED
  BY <1>3, <1>4, <1>5

\* ... and shows it with its refunds, which have its owner.
LEMMA AuditInv ==
  ASSUME AInv, NEW c \in Caller, Audit(c)
  PROVE  AInv'
<1> DEFINE t == call[c].on
           seen == {t} \cup RefundsOf(t) \cup (IF rows[t].parent = 0 THEN {} ELSE {rows[t].parent})
<1>1. /\ UNCHANGED <<tables, script>> /\ UNCHANGED <<keys, rows>> /\ t \in Nat
      /\ Serves(c, "audit", "found") /\ Answer(c, t, "200", seen) /\ "200" \in Code
  BY DEF Audit, tables, Code, AInv, ATypeOK, Call
<1>2. t \in DOMAIN rows /\ Visible(call[c].by, t)
  BY <1>1 DEF AInv, FoundIsVisible
<1>3. seen \in SUBSET DOMAIN rows /\ \A r \in seen : rows[r].owner = rows[t].owner
  BY <1>2, FamilyIsOwn
<1>4. IsMerchant(call[c].by) => t \in OwnRows(call[c].by) /\ seen \subseteq OwnRows(call[c].by)
  BY <1>2, <1>3 DEF IsMerchant, Visible, OwnRows, OwnedBy
<1> HIDE DEF seen, t
<1>5. AnswerInv'
  BY <1>1, <1>4, OwnIsSafe
<1> QED
  BY <1>1, <1>3, <1>5, AnswerOnly

---------------------------------------------------------------------------
(* Statements that write one table each. *)

\* A key is added, for any merchant that exists.
LEMMA KeyAdded ==
  ASSUME AInv, NEW role \in Role, NEW m \in merchants \cup {NoMerchant}, WellFormed(role, m),
         NewKey(role, m), UNCHANGED <<merchants, accounts, rows, exceptions>>
  PROVE  /\ Kept /\ TablesInv'
         /\ keys' \in Seq([role : Role, merchant : Merchant \cup {NoMerchant}, active : BOOLEAN])
         /\ \A k \in DOMAIN keys' : /\ keys'[k].role = "MERCHANT" <=> keys'[k].merchant # NoMerchant
                                    /\ keys'[k].merchant \in merchants \cup {NoMerchant}
         /\ DOMAIN keys \subseteq DOMAIN keys'
<1> DEFINE new == [role |-> role, merchant |-> m, active |-> TRUE]
           KeyRow == [role : Role, merchant : Merchant \cup {NoMerchant}, active : BOOLEAN]
<1>1. /\ keys \in Seq(KeyRow) /\ new \in KeyRow /\ keys' = Append(keys, new)
      /\ \A k \in DOMAIN keys : /\ keys[k].role = "MERCHANT" <=> keys[k].merchant # NoMerchant
                                /\ keys[k].merchant \in merchants \cup {NoMerchant}
      /\ role = "MERCHANT" <=> m # NoMerchant
  BY DEF AInv, ATypeOK, NewKey, WellFormed
<1>2. new.role = role /\ new.merchant = m
  OBVIOUS
<1> HIDE DEF new, KeyRow
<1>3. /\ keys' \in Seq(KeyRow) /\ DOMAIN keys' = DOMAIN keys \cup {Len(keys) + 1}
      /\ \A k \in DOMAIN keys : k \in DOMAIN keys' /\ keys'[k] = keys[k]
      /\ keys'[Len(keys) + 1] = new
  BY <1>1
<1>4. Kept
  BY <1>3 DEF Kept, KeysKept, RowsKept
<1>5. /\ merchants \subseteq accounts /\ RefundFollowsPayment /\ PaymentHasAccount
  BY DEF AInv
<1>6. TablesInv'
  BY <1>1, <1>2, <1>3, <1>5 DEF TablesInv, RefundFollowsPayment, PaymentHasAccount
<1>7. keys' \in Seq([role : Role, merchant : Merchant \cup {NoMerchant}, active : BOOLEAN])
  BY <1>3 DEF KeyRow
<1> QED
  BY <1>1, <1>2, <1>3, <1>4, <1>6, <1>7

\* A key that is created shows nothing and belongs to a merchant that exists.
LEMMA CreateKeyInv ==
  ASSUME AInv, NEW c \in Caller, NEW role \in Role, NEW m \in Merchant \cup {NoMerchant},
         CreateKey(c, role, m)
  PROVE  AInv'
<1>1. /\ UNCHANGED <<merchants, accounts, rows, exceptions, script>>
      /\ call[c].route = "createKey"
  BY DEF CreateKey, Serves
<1>2. ASSUME NEW code \in Code, Answer(c, 0, code, {}) PROVE AnswerInv'
  <2>1. answer'.shown = {} /\ answer'.route = "createKey"
    BY <1>1, <1>2 DEF Answer
  <2> QED
    BY <2>1, EmptyIsSafe
<1>3. ASSUME NEW code \in {"400", "500"}, Answer(c, 0, code, {}), UNCHANGED keys PROVE AInv'
  <2>1. code \in Code /\ UNCHANGED <<tables, script>> /\ {} \in SUBSET DOMAIN rows
    BY <1>1, <1>3 DEF Code, tables
  <2> QED
    BY <1>2, <1>3, <2>1, AnswerOnly
<1>4. CASE /\ WellFormed(role, m) /\ m \in merchants \cup {NoMerchant}
           /\ NewKey(role, m) /\ Answer(c, 0, "201", {})
  <2>1. "201" \in Code /\ {} \in SUBSET Nat
    BY DEF Code
  <2>2. /\ answer' \in [code : Code, to : Nat, route : Route, on : Nat, shown : SUBSET Nat]
        /\ answer'.shown = {}
        /\ call' \in [Caller -> Call] /\ call'[c] = Idle
        /\ \A d \in Caller \ {c} : call'[d] = call[d]
    BY <1>4, <2>1, AnswerType
  <2>3. /\ Kept /\ TablesInv'
        /\ keys' \in Seq([role : Role, merchant : Merchant \cup {NoMerchant}, active : BOOLEAN])
        /\ \A k \in DOMAIN keys' : /\ keys'[k].role = "MERCHANT" <=> keys'[k].merchant # NoMerchant
                                   /\ keys'[k].merchant \in merchants \cup {NoMerchant}
        /\ DOMAIN keys \subseteq DOMAIN keys'
    BY <1>1, <1>4, KeyAdded
  <2>4. \A d \in Caller : call'[d].at # "idle" => call'[d].by \in DOMAIN keys'
    BY <2>2, <2>3, CallersStayKnown
  <2>5. ATypeOK'
    BY <1>1, <2>2, <2>3, <2>4 DEF AInv, ATypeOK
  <2>6. AnswerInv'
    BY <1>2, <1>4, <2>1
  <2> QED
    BY <2>2, <2>3, <2>5, <2>6, IdleIsFound, StepInv
<1> QED
  BY <1>3, <1>4 DEF CreateKey

\* The bootstrap script makes an administrator.
LEMMA CreateAdminInv ==
  ASSUME AInv, CreateAdmin
  PROVE  AInv'
<1>1. /\ UNCHANGED <<merchants, accounts, rows, exceptions, call>> /\ answer' = Silence
      /\ NewKey("ADMIN", NoMerchant) /\ script' = "idle"
  BY DEF CreateAdmin
<1>2. "ADMIN" \in Role /\ WellFormed("ADMIN", NoMerchant)
  BY DEF WellFormed
<1>3. /\ Kept /\ TablesInv'
      /\ keys' \in Seq([role : Role, merchant : Merchant \cup {NoMerchant}, active : BOOLEAN])
      /\ \A k \in DOMAIN keys' : /\ keys'[k].role = "MERCHANT" <=> keys'[k].merchant # NoMerchant
                                 /\ keys'[k].merchant \in merchants \cup {NoMerchant}
      /\ DOMAIN keys \subseteq DOMAIN keys'
  BY <1>1, <1>2, KeyAdded
<1>4. \A d \in Caller : call'[d].at # "idle" => call'[d].by \in DOMAIN keys'
  BY <1>1, <1>3 DEF AInv, ATypeOK
<1>5. /\ answer' \in [code : Code, to : Nat, route : Route, on : Nat, shown : SUBSET Nat]
      /\ answer'.shown = {}
  BY <1>1 DEF Silence, Code, Route
<1>6. ATypeOK'
  BY <1>1, <1>3, <1>4, <1>5 DEF AInv, ATypeOK
<1> QED
  BY <1>1, <1>3, <1>6, SilenceIsSafe, OtherInv

\* ... and revoked in a statement of its own.
LEMMA RevokeKeyInv ==
  ASSUME AInv, NEW c \in Caller, RevokeKey(c)
  PROVE  AInv'
<1> DEFINE k == call[c].on
           KeyRow == [role : Role, merchant : Merchant \cup {NoMerchant}, active : BOOLEAN]
<1>1. /\ UNCHANGED <<merchants, accounts, rows, exceptions, script>>
      /\ call[c].route = "revoke" /\ Serves(c, "revoke", "found")
      /\ keys' = [keys EXCEPT ![k] = [@ EXCEPT !.active = FALSE]]
  BY DEF RevokeKey, Serves
<1>2. keys \in Seq(KeyRow) /\ k \in DOMAIN keys
  BY <1>1 DEF AInv, ATypeOK, FoundIsVisible
<1>3. /\ keys' \in Seq(KeyRow) /\ DOMAIN keys' = DOMAIN keys
      /\ \A j \in DOMAIN keys : /\ keys'[j].role = keys[j].role
                                /\ keys'[j].merchant = keys[j].merchant
  <2> HIDE DEF KeyRow, k
  <2>1. keys[k] \in KeyRow
    BY <1>2
  <2>2. /\ [keys[k] EXCEPT !.active = FALSE] \in KeyRow
        /\ [keys[k] EXCEPT !.active = FALSE].role = keys[k].role
        /\ [keys[k] EXCEPT !.active = FALSE].merchant = keys[k].merchant
    BY <2>1 DEF KeyRow
  <2> QED
    BY <1>1, <1>2, <2>2
<1>4. Kept
  BY <1>1, <1>3 DEF Kept, KeysKept, RowsKept
<1>5. TablesInv'
  BY <1>1, <1>3 DEF AInv, TablesInv, RefundFollowsPayment, PaymentHasAccount
<1>6. PICK code \in {"204", "500"} : Answer(c, 0, code, {})
  BY DEF RevokeKey
<1>7. code \in Code /\ {} \in SUBSET Nat
  BY DEF Code
<1>8. /\ answer' \in [code : Code, to : Nat, route : Route, on : Nat, shown : SUBSET Nat]
      /\ answer'.shown = {} /\ answer'.route = "revoke"
      /\ call' \in [Caller -> Call] /\ call'[c] = Idle
      /\ \A d \in Caller \ {c} : call'[d] = call[d]
  BY <1>1, <1>6, <1>7, AnswerType
<1>9. \A d \in Caller : call'[d].at # "idle" => call'[d].by \in DOMAIN keys'
  BY <1>3, <1>8, CallersStayKnown
<1>10. ATypeOK'
  <2>1. \A j \in DOMAIN keys' : /\ keys'[j].role = "MERCHANT" <=> keys'[j].merchant # NoMerchant
                               /\ keys'[j].merchant \in merchants \cup {NoMerchant}
    BY <1>3 DEF AInv, ATypeOK
  <2> QED
    BY <1>1, <1>3, <1>8, <1>9, <2>1 DEF AInv, ATypeOK
<1>11. AnswerInv'
  BY <1>8, EmptyIsSafe
<1> QED
  BY <1>4, <1>5, <1>8, <1>10, <1>11, IdleIsFound, StepInv

\* A merchant comes with its payable account, in one SQL transaction.
LEMMA CreateMerchantInv ==
  ASSUME AInv, NEW c \in Caller, NEW m \in Merchant, CreateMerchant(c, m)
  PROVE  AInv'
<1>1. /\ UNCHANGED <<keys, rows, exceptions, script>> /\ call[c].route = "createMerchant"
  BY DEF CreateMerchant, Serves
<1>2. PICK code \in {"201", "500"} :
        /\ Answer(c, 0, code, {})
        /\ \/ UNCHANGED <<merchants, accounts>>
           \/ merchants' = merchants \cup {m} /\ accounts' = accounts \cup {m}
  BY DEF CreateMerchant
<1>3. Kept
  BY <1>1 DEF Kept, KeysKept, RowsKept
<1>4. TablesInv'
  BY <1>1, <1>2 DEF AInv, TablesInv, RefundFollowsPayment, PaymentHasAccount
<1>5. code \in Code /\ {} \in SUBSET Nat
  BY DEF Code
<1>6. /\ answer' \in [code : Code, to : Nat, route : Route, on : Nat, shown : SUBSET Nat]
      /\ answer'.shown = {} /\ answer'.route = "createMerchant"
      /\ call' \in [Caller -> Call] /\ call'[c] = Idle
      /\ \A d \in Caller \ {c} : call'[d] = call[d]
  BY <1>1, <1>2, <1>5, AnswerType
<1>7. \A d \in Caller : call'[d].at # "idle" => call'[d].by \in DOMAIN keys'
  BY <1>1, <1>6, CallersStayKnown
<1>8. ATypeOK'
  BY <1>1, <1>2, <1>6, <1>7 DEF AInv, ATypeOK
<1>9. AnswerInv'
  BY <1>6, EmptyIsSafe
<1> QED
  BY <1>3, <1>4, <1>6, <1>8, <1>9, IdleIsFound, StepInv

\* ... and updated only if nobody resolved it since.
LEMMA ResolveExceptionInv ==
  ASSUME AInv, NEW c \in Caller, ResolveException(c)
  PROVE  AInv'
<1> DEFINE x == call[c].on
<1>1. /\ UNCHANGED <<keys, merchants, accounts, rows, script>> /\ call[c].route = "resolve"
      /\ call[c].at = "found" /\ Serves(c, "resolve", "found")
  BY DEF ResolveException, Serves
<1>2. PICK code \in {"200", "500"} :
        /\ Answer(c, x, code, {})
        /\ \/ UNCHANGED exceptions
           \/ exceptions' = [exceptions EXCEPT ![x] = [by |-> call[c].by]]
  BY DEF ResolveException
<1>3. /\ call[c].by \in Nat /\ x \in Nat /\ x \in DOMAIN exceptions /\ exceptions \in Seq([by : Nat])
  BY <1>1 DEF AInv, ATypeOK, Call, FoundIsVisible
<1>4. exceptions' \in Seq([by : Nat]) /\ DOMAIN exceptions' = DOMAIN exceptions
  <2> DEFINE XRow == [by : Nat]
             resolved == [by |-> call[c].by]
  <2>1. resolved \in XRow /\ exceptions \in Seq(XRow)
    BY <1>3
  <2>2. exceptions' = exceptions \/ exceptions' = [exceptions EXCEPT ![x] = resolved]
    BY <1>2
  <2>3. x \in DOMAIN exceptions
    BY <1>3
  <2> HIDE DEF XRow, resolved, x
  <2>4. exceptions' \in Seq(XRow) /\ DOMAIN exceptions' = DOMAIN exceptions
    BY <2>1, <2>2, <2>3
  <2> QED
    BY <2>4 DEF XRow
<1>5. Kept
  BY <1>1, <1>4 DEF Kept, KeysKept, RowsKept
<1>6. TablesInv'
  BY <1>1 DEF AInv, TablesInv, RefundFollowsPayment, PaymentHasAccount
<1>7. code \in Code /\ {} \in SUBSET Nat
  BY DEF Code
<1>8. /\ answer' \in [code : Code, to : Nat, route : Route, on : Nat, shown : SUBSET Nat]
      /\ answer'.shown = {} /\ answer'.route = "resolve"
      /\ call' \in [Caller -> Call] /\ call'[c] = Idle
      /\ \A d \in Caller \ {c} : call'[d] = call[d]
  BY <1>1, <1>2, <1>3, <1>7, AnswerType
<1>9. \A d \in Caller : call'[d].at # "idle" => call'[d].by \in DOMAIN keys'
  BY <1>1, <1>8, CallersStayKnown
<1>10. ATypeOK'
  BY <1>1, <1>4, <1>8, <1>9 DEF AInv, ATypeOK
<1>11. AnswerInv'
  BY <1>8, EmptyIsSafe
<1> QED
  BY <1>5, <1>6, <1>8, <1>10, <1>11, IdleIsFound, StepInv

\* A transaction is added, for a merchant with an account; a refund, for the
\* owner of its payment.
LEMMA RowAdded ==
  ASSUME AInv, NEW m \in Merchant, m \in accounts, NEW parent \in Nat, NEW i \in IdempotencyKey,
         parent # 0 => parent \in DOMAIN rows /\ rows[parent].owner = m,
         rows' = Append(rows, [owner |-> m, parent |-> parent, key |-> i]),
         UNCHANGED <<keys, merchants, accounts, exceptions>>
  PROVE  /\ Kept /\ TablesInv'
         /\ rows' \in Seq([owner : Merchant, parent : Nat, key : IdempotencyKey])
         /\ \A t \in DOMAIN rows' : rows'[t].parent \in 0..t - 1
         /\ Len(rows) + 1 \in Nat /\ Len(rows) + 1 \in DOMAIN rows' /\ rows'[Len(rows) + 1].owner = m
<1> DEFINE Row == [owner : Merchant, parent : Nat, key : IdempotencyKey]
           new == [owner |-> m, parent |-> parent, key |-> i]
<1>1. /\ rows \in Seq(Row) /\ new \in Row /\ rows' = Append(rows, new)
      /\ \A t \in DOMAIN rows : rows[t].parent \in 0..t - 1
  BY DEF AInv, ATypeOK
<1>2. new.owner = m /\ new.parent = parent
  OBVIOUS
<1> HIDE DEF Row, new
<1>3. /\ rows' \in Seq(Row) /\ Len(rows) \in Nat
      /\ DOMAIN rows = 1..Len(rows) /\ DOMAIN rows' = 1..Len(rows) + 1
      /\ \A t \in DOMAIN rows : t \in DOMAIN rows' /\ rows'[t] = rows[t]
      /\ rows'[Len(rows) + 1] = new /\ Len(rows) + 1 \in DOMAIN rows'
  BY <1>1
<1>4. \A t \in DOMAIN rows' : t = Len(rows) + 1 \/ t \in DOMAIN rows
  BY <1>3
<1>5. Kept
  BY <1>3 DEF Kept, KeysKept, RowsKept
<1>6. \A t \in DOMAIN rows' : rows'[t].parent \in 0..t - 1
  <2>1. parent \in 0..Len(rows)
    BY <1>3
  <2> QED
    BY <1>1, <1>2, <1>3, <1>4, <2>1
<1>7. RefundFollowsPayment'
  <2>1. ASSUME NEW t \in DOMAIN rows, rows[t].parent # 0
        PROVE  /\ rows[t].parent \in DOMAIN rows
               /\ rows[rows[t].parent].owner = rows[t].owner
    BY <1>1, <1>3, <2>1 DEF AInv, RefundFollowsPayment
  <2>2. ASSUME NEW t \in DOMAIN rows', rows'[t].parent # 0
        PROVE  rows'[rows'[t].parent].owner = rows'[t].owner
    BY <1>2, <1>3, <1>4, <2>1, <2>2
  <2> QED
    BY <2>2 DEF RefundFollowsPayment
<1>8. merchants \subseteq accounts /\ PaymentHasAccount
  BY DEF AInv
<1>9. TablesInv'
  BY <1>2, <1>3, <1>4, <1>7, <1>8 DEF TablesInv, PaymentHasAccount
<1>10. rows' \in Seq([owner : Merchant, parent : Nat, key : IdempotencyKey])
  BY <1>3 DEF Row
<1> QED
  BY <1>2, <1>3, <1>5, <1>6, <1>9, <1>10

\* The insertion of a payment, or of a refund whose parent was checked.
LEMMA InsertInv ==
  ASSUME AInv, NEW c \in Caller, NEW m \in Merchant, m \in accounts,
         NEW parent \in Nat, NEW i \in IdempotencyKey,
         parent # 0 => parent \in DOMAIN rows /\ rows[parent].owner = m,
         IsMerchant(call[c].by), keys[call[c].by].merchant = m,
         \/ call[c].route = "createPayment"
         \/ call[c].route = "createRefund" /\ parent # 0,
         Insert(c, m, parent, i), UNCHANGED <<keys, merchants, accounts, exceptions, script>>
  PROVE  AInv'
<1>1. /\ \A t \in DOMAIN rows : t \in Nat
      /\ \A t \in DOMAIN rows : rows[t].parent # 0 => rows[rows[t].parent].owner = rows[t].owner
  BY DEF AInv, ATypeOK, RefundFollowsPayment
<1>2. parent # 0 => parent \in OwnRows(call[c].by)
  BY DEF OwnRows, OwnedBy
<1>3. CASE UNCHANGED rows
  <2>1. PICK code \in {"422", "replayed"}, seen \in SUBSET DOMAIN rows :
          /\ Answer(c, parent, code, seen)
          /\ \A t \in seen : rows[t].parent = parent
          /\ code = "422" => seen = {}
    <3>1. ~(rows' = Append(rows, [owner |-> m, parent |-> parent, key |-> i]))
      BY <1>3 DEF AInv, ATypeOK
    <3> QED
      BY <3>1 DEF Insert
  <2>2. code \in Code /\ UNCHANGED <<tables, script>>
    BY <1>3 DEF Code, tables
  <2>3. AnswerInv'
    <3>1. CASE call[c].route = "createRefund"
      <4>1. seen \subseteq OwnRows(call[c].by)
        BY <1>1, <2>1, <3>1 DEF OwnRows, OwnedBy
      <4> QED
        BY <1>2, <1>3, <2>1, <2>2, <3>1, <4>1, OwnIsSafe
    <3>2. CASE call[c].route = "createPayment"
      <4>1. answer'.route = "createPayment" /\ (answer'.code = "replayed" \/ answer'.shown = {})
        BY <2>1, <3>2 DEF Answer
      <4> QED
        BY <4>1 DEF AnswerInv, OwnRowsOnly, ForeignLooksAbsent
    <3> QED
      BY <3>1, <3>2
  <2> QED
    BY <1>3, <2>1, <2>2, <2>3, AnswerOnly
<1>4. CASE /\ rows' = Append(rows, [owner |-> m, parent |-> parent, key |-> i])
           /\ Answer(c, parent, "201", {Len(rows) + 1})
  <2>1. /\ Kept /\ TablesInv'
        /\ rows' \in Seq([owner : Merchant, parent : Nat, key : IdempotencyKey])
        /\ \A t \in DOMAIN rows' : rows'[t].parent \in 0..t - 1
        /\ Len(rows) + 1 \in Nat /\ Len(rows) + 1 \in DOMAIN rows' /\ rows'[Len(rows) + 1].owner = m
    BY <1>4, RowAdded
  <2>2. "201" \in Code /\ {Len(rows) + 1} \in SUBSET Nat
    BY <2>1 DEF Code
  <2>3. /\ answer' = [code |-> "201", to |-> call[c].by, route |-> call[c].route,
                      on |-> parent, shown |-> {Len(rows) + 1}]
        /\ answer' \in [code : Code, to : Nat, route : Route, on : Nat, shown : SUBSET Nat]
        /\ call' \in [Caller -> Call] /\ call'[c] = Idle
        /\ \A d \in Caller \ {c} : call'[d] = call[d]
    BY <1>4, <2>2, AnswerType
  <2>4. \A d \in Caller : call'[d].at # "idle" => call'[d].by \in DOMAIN keys'
    BY <2>3, CallersStayKnown
  <2>5. ATypeOK'
    BY <2>1, <2>3, <2>4 DEF AInv, ATypeOK
  <2>6. OwnRows(answer.to)' = {t \in DOMAIN rows' : rows'[t].owner = m}
    BY <2>3 DEF OwnRows, OwnedBy
  <2>7. answer'.shown \subseteq OwnRows(answer.to)'
    BY <2>1, <2>3, <2>6
  <2>8. parent # 0 => parent \in OwnRows(answer.to)'
    BY <2>1, <2>6 DEF Kept, RowsKept
  <2>9. AnswerInv'
    BY <2>3, <2>7, <2>8 DEF AnswerInv, OwnRowsOnly, ForeignLooksAbsent
  <2> QED
    BY <2>1, <2>3, <2>5, <2>9, IdleIsFound, StepInv
<1> QED
  BY <1>3, <1>4 DEF Insert

\* A payment takes its owner from the key, never from the body.
LEMMA CreatePaymentInv ==
  ASSUME AInv, NEW c \in Caller, NEW i \in IdempotencyKey, CreatePayment(c, i)
  PROVE  AInv'
<1> DEFINE m == keys[call[c].by].merchant
<1>1. /\ call[c].route = "createPayment" /\ call[c].at = "authenticated"
      /\ UNCHANGED <<keys, merchants, accounts, exceptions, script>>
  BY DEF CreatePayment, Serves
<1>2. IsMerchant(call[c].by)
  BY <1>1 DEF AInv, FoundIsVisible
<1>3. m \in Merchant /\ m \in accounts
  BY <1>2 DEF AInv, ATypeOK, IsMerchant, PaymentHasAccount
<1>4. CASE Insert(c, m, 0, i)
  BY <1>1, <1>2, <1>3, <1>4, InsertInv
<1>5. CASE Answer(c, 0, "500", {}) /\ UNCHANGED rows
  <2>1. answer'.shown = {} /\ answer'.route = "createPayment"
    BY <1>1, <1>5 DEF Answer
  <2>2. UNCHANGED <<tables, script>> /\ "500" \in Code /\ {} \in SUBSET DOMAIN rows
    BY <1>1, <1>5 DEF tables, Code
  <2>3. AnswerInv'
    BY <2>1, EmptyIsSafe
  <2> QED
    BY <1>5, <2>2, <2>3, AnswerOnly
<1> QED
  BY <1>4, <1>5 DEF CreatePayment

\* ... whose owner the refund takes.
LEMMA CreateRefundInv ==
  ASSUME AInv, NEW c \in Caller, CreateRefund(c)
  PROVE  AInv'
<1> DEFINE t == call[c].on
           i == call[c].with
           m == rows[t].owner
<1>1. /\ call[c].route = "createRefund" /\ call[c].at = "found" /\ Serves(c, "createRefund", "found")
      /\ UNCHANGED <<keys, merchants, accounts, exceptions, script>>
  BY DEF CreateRefund, Serves
<1>2. /\ IsMerchant(call[c].by) /\ t \in DOMAIN rows /\ keys[call[c].by].merchant = m
      /\ i # NoKey
  BY <1>1 DEF AInv, FoundIsVisible, OwnParent
<1>3. call[c] \in Call /\ rows \in Seq([owner : Merchant, parent : Nat, key : IdempotencyKey])
  BY DEF AInv, ATypeOK
<1>4. i \in IdempotencyKey /\ t \in Nat /\ t # 0 /\ m \in Merchant
  <2>1. i \in IdempotencyKey
    BY <1>2, <1>3 DEF Call
  <2> HIDE DEF t
  <2>2. t \in 1..Len(rows) /\ Len(rows) \in Nat
    BY <1>2, <1>3
  <2>3. m \in Merchant
    <3> DEFINE Row == [owner : Merchant, parent : Nat, key : IdempotencyKey]
    <3>1. t \in DOMAIN rows /\ rows \in Seq(Row)
      BY <1>2, <1>3
    <3> HIDE DEF Row
    <3>2. rows[t] \in Row
      BY <3>1
    <3> QED
      BY <3>2 DEF Row
  <2> QED
    BY <2>1, <2>2, <2>3
<1>5. m \in accounts
  BY <1>2 DEF AInv, PaymentHasAccount
<1>6. CASE Insert(c, m, t, i)
  BY <1>1, <1>2, <1>4, <1>5, <1>6, InsertInv
<1>7. CASE Answer(c, t, "409", {}) /\ UNCHANGED rows
  <2>1. UNCHANGED <<tables, script>> /\ "409" \in Code /\ {} \in SUBSET DOMAIN rows
    BY <1>1, <1>7 DEF tables, Code
  <2>2. t \in OwnRows(call[c].by)
    BY <1>2 DEF OwnRows, OwnedBy
  <2>3. AnswerInv'
    BY <1>1, <1>4, <1>7, <2>1, <2>2, OwnIsSafe
  <2> QED
    BY <1>4, <1>7, <2>1, <2>3, AnswerOnly
<1> QED
  BY <1>6, <1>7 DEF CreateRefund

---------------------------------------------------------------------------
(* The remaining steps. *)

\* Authentication binds a request to a key that exists.
LEMMA AuthenticateInv ==
  ASSUME AInv, NEW c \in Caller, NEW k \in 1..MaxKeys, NEW route \in Route,
         Authenticate(c, k, route)
  PROVE  AInv'
<1>1. /\ UNCHANGED <<tables, script>> /\ k \in Nat /\ k \in DOMAIN keys
      /\ keys[k].role \in Allowed(route) /\ answer' = Silence
      /\ call' = [call EXCEPT ![c] = [Idle EXCEPT !.at = "authenticated", !.route = route, !.by = k]]
  BY DEF Authenticate, IsValid
<1>2. call \in [Caller -> Call]
  BY DEF AInv, ATypeOK
<1>3. /\ [Idle EXCEPT !.at = "authenticated", !.route = route, !.by = k] \in Call
      /\ call'[c].at = "authenticated" /\ call'[c].route = route /\ call'[c].by = k
      /\ \A d \in Caller \ {c} : call'[d] = call[d]
  BY <1>1, <1>2 DEF Idle, Call
<1>4. call' \in [Caller -> Call]
  BY <1>1, <1>2, <1>3
<1>5. \A d \in Caller : call'[d].at # "idle" => call'[d].by \in DOMAIN keys
  <2>1. \A d \in Caller : call[d].at # "idle" => call[d].by \in DOMAIN keys
    BY DEF AInv, ATypeOK
  <2> QED
    BY <1>1, <1>3, <2>1
<1>6. /\ answer' \in [code : Code, to : Nat, route : Route, on : Nat, shown : SUBSET Nat]
      /\ answer'.shown = {}
  BY <1>1 DEF Silence, Code, Route
<1>7. ATypeOK'
  BY <1>1, <1>4, <1>5, <1>6, TypeStays
<1>8. FoundIsVisible(c)'
  <2>1. route \in {"createPayment", "createRefund"} => keys[k].role = "MERCHANT"
    BY <1>1 DEF Allowed
  <2>2. UNCHANGED keys
    BY <1>1 DEF tables
  <2> QED
    BY <1>1, <1>3, <2>1, <2>2 DEF FoundIsVisible, IsMerchant, Serves
<1> QED
  BY <1>1, <1>3, <1>7, <1>8, TablesStay, SilenceIsSafe, StepInv

\* The script looks for an administrator and shows nothing.
LEMMA LookForAdminInv ==
  ASSUME AInv, LookForAdmin
  PROVE  AInv'
<1>1. UNCHANGED tables /\ UNCHANGED call /\ answer' = Silence /\ script' = "alone"
  BY DEF LookForAdmin
<1>2. /\ answer' \in [code : Code, to : Nat, route : Route, on : Nat, shown : SUBSET Nat]
      /\ answer'.shown = {}
  BY <1>1 DEF Silence, Code, Route
<1>3. ATypeOK'
  BY <1>1, <1>2 DEF AInv, ATypeOK, tables
<1> QED
  BY <1>1, <1>3, TablesStay, SilenceIsSafe, OtherInv

\* An exception the jobs report shows nothing to anybody.
LEMMA ReportInv ==
  ASSUME AInv, Report
  PROVE  AInv'
<1>1. /\ UNCHANGED <<keys, merchants, accounts, rows, script, call>> /\ answer' = Silence
      /\ exceptions' = Append(exceptions, [by |-> 0])
  BY DEF Report
<1>2. exceptions \in Seq([by : Nat]) /\ [by |-> 0] \in [by : Nat]
  BY DEF AInv, ATypeOK
<1>3. exceptions' \in Seq([by : Nat]) /\ DOMAIN exceptions \subseteq DOMAIN exceptions'
  BY <1>1, <1>2
<1>4. Kept /\ TablesInv'
  BY <1>1, <1>3
     DEF Kept, KeysKept, RowsKept, AInv, TablesInv, RefundFollowsPayment, PaymentHasAccount
<1>5. /\ answer' \in [code : Code, to : Nat, route : Route, on : Nat, shown : SUBSET Nat]
      /\ answer'.shown = {}
  BY <1>1 DEF Silence, Code, Route
<1>6. ATypeOK'
  BY <1>1, <1>3, <1>5 DEF AInv, ATypeOK
<1> QED
  BY <1>1, <1>4, <1>6, SilenceIsSafe, OtherInv

\* Before the first request nothing is shown and nothing is found.
LEMMA AccessInit == AInit => AInv
<1> SUFFICES ASSUME AInit PROVE AInv
  OBVIOUS
<1>1. /\ keys = <<>> /\ rows = <<>> /\ exceptions = <<>> /\ merchants = {Demo} /\ accounts = {Demo}
      /\ script = "idle" /\ call = [c \in Caller |-> Idle] /\ answer = Silence
  BY DEF AInit
<1>2. \A c \in Caller : call[c].at = "idle"
  BY <1>1 DEF Idle
<1>3. call \in [Caller -> Call]
  BY <1>1 DEF Idle, Call, Route
<1>4. /\ answer \in [code : Code, to : Nat, route : Route, on : Nat, shown : SUBSET Nat]
      /\ answer.shown = {} /\ answer.to = 0 /\ answer.route = "list"
  BY <1>1 DEF Silence, Code, Route
<1>5. DOMAIN keys = {} /\ DOMAIN rows = {} /\ DOMAIN exceptions = {}
  BY <1>1
<1>6. ATypeOK
  BY <1>1, <1>2, <1>3, <1>4, <1>5 DEF ATypeOK
<1>7. \A c \in Caller : FoundIsVisible(c)
  BY <1>2 DEF FoundIsVisible, Serves
<1> QED
  BY <1>1, <1>4, <1>5, <1>6, <1>7
     DEF AInv, RefundFollowsPayment, OwnRowsOnly, ForeignLooksAbsent, PaymentHasAccount

\* Whatever the route, the handler keeps the invariant.
LEMMA HandleInv ==
  ASSUME AInv, NEW c \in Caller, Handle(c)
  PROVE  AInv'
BY CreateKeyInv, FindKeyInv, RevokeKeyInv, CreateMerchantInv, FindExceptionInv, ResolveExceptionInv,
   CreatePaymentInv, FindParentInv, CreateRefundInv, GetOneInv, FindAuditedInv, ListInv, AuditInv
   DEF Handle

\* Every step keeps the invariant.
LEMMA AccessStep == AInv /\ [ANext]_avars => AInv'
<1> SUFFICES ASSUME AInv, [ANext]_avars PROVE AInv'
  OBVIOUS
<1>1. CASE ANext
  BY <1>1, LookForAdminInv, CreateAdminInv, ReportInv, AuthenticateInv, HandleInv DEF ANext
<1>2. CASE UNCHANGED avars
  <2>1. UNCHANGED <<tables, script>> /\ UNCHANGED call /\ UNCHANGED answer
    BY <1>2 DEF avars
  <2>2. ATypeOK'
    BY <2>1 DEF AInv, ATypeOK, tables
  <2>3. AnswerInv'
    BY <2>1 DEF AInv, AnswerInv, OwnRowsOnly, ForeignLooksAbsent, IsMerchant, OwnRows, OwnedBy, tables
  <2> QED
    BY <2>1, <2>2, <2>3, TablesStay, OtherInv
<1> QED
  BY <1>1, <1>2

\* The invariant: what every handler has found is still there and its key's.
THEOREM AccessInvariance == ASpec => []AInv
<1> QED
  BY AccessInit, AccessStep, PTL DEF ASpec

\* The tables keep their foreign keys and CHECKs, requests hold rows that
\* exist, answers show rows that exist.
THEOREM AccessTypeCorrect == ASpec => []ATypeOK
<1>1. AInv => ATypeOK
  BY DEF AInv
<1> QED
  BY <1>1, AccessInvariance, PTL

\* A MERCHANT key is shown rows of its merchant alone (the guards, the WHERE of
\* the list, the family an audit adds, the refund of a checked parent).
THEOREM MerchantsSeeTheirOwn == ASpec => []OwnRowsOnly
<1>1. AInv => OwnRowsOnly
  BY DEF AInv
<1> QED
  BY <1>1, AccessInvariance, PTL

\* To a MERCHANT key, a reference of another merchant is a reference of nobody.
THEOREM ForeignIsAbsent == ASpec => []ForeignLooksAbsent
<1>1. AInv => ForeignLooksAbsent
  BY DEF AInv
<1> QED
  BY <1>1, AccessInvariance, PTL

\* A merchant that can be paid has its payable account.
THEOREM MerchantsHaveAccounts == ASpec => []PaymentHasAccount
<1>1. AInv => PaymentHasAccount
  BY DEF AInv
<1> QED
  BY <1>1, AccessInvariance, PTL

---------------------------------------------------------------------------
\* What one step has to leave of the resolutions there are.
KeepsResolutions ==
  \A x \in DOMAIN exceptions :
    exceptions[x].by # 0 =>
      /\ exceptions'[x] = exceptions[x]
      /\ answer'.route = "resolve" /\ answer'.on = x => answer'.code # "200"

\* A handler of another route answers for its route and writes no exception.
LEMMA OtherRoutesKeep ==
  ASSUME exceptions' = exceptions, answer'.route # "resolve" \/ answer'.code # "200"
  PROVE  KeepsResolutions
BY DEF KeepsResolutions

LEMMA ResolutionsStay == AInv /\ ANext => KeepsResolutions
<1> SUFFICES ASSUME AInv, ANext PROVE KeepsResolutions
  OBVIOUS
<1>0. Silence.code # "200"
  BY DEF Silence
<1>1. CASE LookForAdmin
  BY <1>0, <1>1, OtherRoutesKeep DEF LookForAdmin, tables
<1>2. CASE CreateAdmin
  BY <1>0, <1>2, OtherRoutesKeep DEF CreateAdmin
<1>3. CASE Report
  <2>1. exceptions' = Append(exceptions, [by |-> 0]) /\ answer' = Silence
    BY <1>3 DEF Report
  <2>2. exceptions \in Seq([by : Nat])
    BY DEF AInv, ATypeOK
  <2>3. \A x \in DOMAIN exceptions : exceptions'[x] = exceptions[x]
    BY <2>1, <2>2
  <2> QED
    BY <1>0, <2>1, <2>3 DEF KeepsResolutions
<1>4. ASSUME NEW c \in Caller, NEW k \in 1..MaxKeys, NEW route \in Route, Authenticate(c, k, route)
      PROVE  KeepsResolutions
  BY <1>0, <1>4, OtherRoutesKeep DEF Authenticate, tables
<1>5. ASSUME NEW c \in Caller, Handle(c) PROVE KeepsResolutions
  <2>1. CASE \E x \in 1..MaxExceptions : FindException(c, x)
    <3>1. PICK x \in 1..MaxExceptions : FindException(c, x)
      BY <2>1
    <3>2. exceptions' = exceptions /\ answer'.code # "200"
      BY <1>0, <3>1 DEF FindException, Answer, Proceed, tables
    <3> QED
      BY <3>2, OtherRoutesKeep
  <2>2. CASE ResolveException(c)
    <3>1. CASE Unresolved(call[c].on)
      <4>1. /\ exceptions[call[c].on].by = 0
            /\ exceptions' = [exceptions EXCEPT ![call[c].on] = [by |-> call[c].by]]
            /\ answer'.on = call[c].on
        BY <2>2, <3>1 DEF ResolveException, Unresolved, Answer
      <4>2. \A x \in DOMAIN exceptions : exceptions[x].by # 0 => x # call[c].on
        BY <4>1
      <4>3. \A x \in DOMAIN exceptions : x # call[c].on => exceptions'[x] = exceptions[x]
        BY <4>1
      <4> QED
        BY <4>1, <4>2, <4>3 DEF KeepsResolutions
    <3>2. CASE ~Unresolved(call[c].on)
      BY <2>2, <3>2, OtherRoutesKeep DEF ResolveException, Answer
    <3> QED
      BY <3>1, <3>2
  <2>3. ASSUME exceptions' = exceptions,
               \/ answer' = Silence
               \/ \E on, code, seen : Answer(c, on, code, seen) /\ call[c].route # "resolve"
        PROVE  KeepsResolutions
    BY <1>0, <2>3, OtherRoutesKeep DEF Answer
  <2>4. CASE \E role \in Role, m \in Merchant \cup {NoMerchant} : CreateKey(c, role, m)
    BY <2>3, <2>4 DEF CreateKey, Serves
  <2>5. CASE \E k \in 1..MaxKeys : FindKey(c, k)
    BY <2>3, <2>5 DEF FindKey, Serves, Proceed, tables
  <2>6. CASE RevokeKey(c)
    BY <2>3, <2>6 DEF RevokeKey, Serves
  <2>7. CASE \E m \in Merchant : CreateMerchant(c, m)
    BY <2>3, <2>7 DEF CreateMerchant, Serves
  <2>8. CASE \E i \in IdempotencyKey : CreatePayment(c, i)
    BY <2>3, <2>8 DEF CreatePayment, Insert, Serves
  <2>9. CASE \E t \in 1..MaxRows, i \in IdempotencyKey : FindParent(c, t, i)
    BY <2>3, <2>9 DEF FindParent, Serves, Proceed, tables
  <2>10. CASE CreateRefund(c)
    BY <2>3, <2>10 DEF CreateRefund, Insert, Serves
  <2>11. CASE \E t \in 1..MaxRows : GetOne(c, t) \/ FindAudited(c, t)
    BY <2>3, <2>11 DEF GetOne, FindAudited, Serves, Proceed, tables
  <2>12. CASE List(c)
    BY <2>3, <2>12 DEF List, Serves, tables
  <2>13. CASE Audit(c)
    BY <2>3, <2>13 DEF Audit, Serves, tables
  <2> QED
    BY <1>5, <2>1, <2>2, <2>4, <2>5, <2>6, <2>7, <2>8, <2>9, <2>10, <2>11, <2>12, <2>13 DEF Handle
<1> QED
  BY <1>1, <1>2, <1>3, <1>4, <1>5 DEF ANext

\* An exception is resolved once: of two analysts who both found it open, the
\* trigger refuses the second, and no resolution is ever overwritten.
THEOREM ResolvedByOne == ASpec => ResolvedOnce
<1>1. AInv /\ ANext => KeepsResolutions
  BY ResolutionsStay
<1>2. AInv /\ [ANext]_avars => [KeepsResolutions]_avars
  BY <1>1
<1> QED
  BY <1>2, AccessInvariance, PTL DEF ASpec, ResolvedOnce, KeepsResolutions

=============================================================================
