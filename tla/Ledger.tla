------------------------------- MODULE Ledger -------------------------------
(***************************************************************************)
(* The ledger as a sequence of committed SQL transactions: one action per  *)
(* transaction the API commits.  Every transition locks the row it decides *)
(* on (SELECT ... FOR UPDATE) before it reads it, and a refund locks its   *)
(* parent too, so that its reads and writes take effect at its commit.     *)
(* The one place that reads without a lock, the BEFORE INSERT trigger of a *)
(* refund, is split in two actions.                                        *)
(*                                                                         *)
(* A refused attempt (404, 409, 412, 422, a CHECK or a trigger) rolls back *)
(* and changes nothing: it is the absence of a step.                       *)
(***************************************************************************)
EXTENDS LedgerRules, FiniteSets

CONSTANTS
  Payment,         \* ids of the rows of type PAYMENT
  Refund,          \* ids of the rows of type REFUND
  NoPayment,       \* the parent of a refund that does not exist yet
  Amount,          \* the amounts a request may carry
  Currency,        \* the currencies a request may carry
  LedgerCurrency,  \* the currency of every account of the chart of accounts
  BatchSize,       \* EXPIRATION_BATCH_SIZE
  MaxVersion,      \* bound: updates of one row
  MaxLate          \* bound: late acknowledgments of one transaction

ASSUME LedgerAssumption ==
  /\ Payment \cap Refund = {}
  /\ NoPayment \notin Payment
  /\ Amount \subseteq Nat \ {0}
  /\ LedgerCurrency \in Currency
  /\ BatchSize \in Nat \ {0}
  /\ MaxVersion \in Nat \ {0}
  /\ MaxLate \in Nat

Transaction == Payment \cup Refund

VARIABLES
  status,     \* transactions.status, "ABSENT" before the row is committed
  amount,     \* transactions.amount, frozen
  currency,   \* transactions.currency, frozen
  parent,     \* transactions.parent_transaction_id, frozen
  refunded,   \* transactions.refunded_amount
  version,    \* transactions.version
  overdue,    \* the transactions whose expires_at is in the past
  inserting,  \* refunds past fn_transactions_before_insert, not committed
  history,    \* transaction_status_history, per transaction
  entries,    \* journal_entries with their postings, per transaction
  position,   \* what the postings of a payment and of its refunds add up to
  late        \* LATE_ACKNOWLEDGMENT rows of reconciliation_exceptions

row == <<status, refunded, version, history>>
attributes == <<amount, currency, parent>>
books == <<entries, position>>
vars == <<row, attributes, overdue, inserting, books, late>>

---------------------------------------------------------------------------
Init ==
  /\ status = [t \in Transaction |-> "ABSENT"]
  /\ amount = [t \in Transaction |-> 0]
  /\ currency = [t \in Transaction |-> LedgerCurrency]
  /\ parent = [r \in Refund |-> NoPayment]
  /\ refunded = [t \in Transaction |-> 0]
  /\ version = [t \in Transaction |-> 0]
  /\ overdue = {}
  /\ inserting = {}
  /\ history = [t \in Transaction |-> <<>>]
  /\ entries = [t \in Transaction |-> <<>>]
  /\ position = [p \in Payment |-> [a \in Account |-> 0]]
  /\ late = [t \in Transaction |-> 0]

\* Bug: the first line of the history names a previous status.
InsertRowFromNowhere(t) ==
  /\ status' = [status EXCEPT ![t] = "INITIATED"]
  /\ version' = [version EXCEPT ![t] = 1]
  /\ refunded' = [refunded EXCEPT ![t] = 0]
  /\ history' = [history EXCEPT ![t] = << <<"ABSENT", "INITIATED">> >>]

\* fn_transactions_before_insert and fn_transactions_record_status on INSERT.
InsertRow(t) ==
  /\ status' = [status EXCEPT ![t] = "INITIATED"]
  /\ version' = [version EXCEPT ![t] = 1]
  /\ refunded' = [refunded EXCEPT ![t] = 0]
  /\ history' = [history EXCEPT ![t] = << <<"NULL", "INITIATED">> >>]

\* POST /v1/payments, first use of the idempotency key.
CreatePayment(p, a, c) ==
  /\ status[p] = "ABSENT"
  /\ amount' = [amount EXCEPT ![p] = a]
  /\ currency' = [currency EXCEPT ![p] = c]
  /\ InsertRow(p)
  /\ UNCHANGED <<parent, overdue, inserting, books, late>>

\* Bug: the money of the parent may still be on its way.
RefundableBeforeSettlement(p, a) ==
  /\ status[p] \in {"PENDING", "SUCCEEDED", "PARTIALLY_REFUNDED"}
  /\ a <= amount[p] - refunded[p]

\* LX010: what the trigger asks of the parent of a refund, read without a
\* lock.  Currency and provider are copied from the parent by createRefund.
Refundable(p, a) ==
  /\ status[p] \in {"SUCCEEDED", "PARTIALLY_REFUNDED"}
  /\ a <= amount[p] - refunded[p]

\* POST /v1/payments/:reference/refunds: the INSERT passes the trigger ...
CheckRefund(r, p, a) ==
  /\ status[r] = "ABSENT" /\ r \notin inserting
  /\ Refundable(p, a)
  /\ inserting' = inserting \cup {r}
  /\ amount' = [amount EXCEPT ![r] = a]
  /\ currency' = [currency EXCEPT ![r] = currency[p]]
  /\ parent' = [parent EXCEPT ![r] = p]
  /\ UNCHANGED <<row, overdue, books, late>>

\* ... waits, if need be, for the transition that locks the parent (foreign
\* key), and commits without looking at the parent again ...
CommitRefund(r) ==
  /\ r \in inserting
  /\ inserting' = inserting \ {r}
  /\ InsertRow(r)
  /\ UNCHANGED <<attributes, overdue, books, late>>

\* ... or is rolled back (timeout of the SQL transaction, lost connection).
AbortRefund(r) ==
  /\ r \in inserting
  /\ inserting' = inserting \ {r}
  /\ amount' = [amount EXCEPT ![r] = 0]
  /\ currency' = [currency EXCEPT ![r] = LedgerCurrency]
  /\ parent' = [parent EXCEPT ![r] = NoPayment]
  /\ UNCHANGED <<row, overdue, books, late>>

---------------------------------------------------------------------------
(* PATCH /v1/transactions/:reference/status, with an If-Match that is      *)
(* current.  The operator's callbacks take the same path.                  *)

\* One UPDATE of the row of t, through the trigger and the CHECKs.
UpdateOK(t, newS, newBack) ==
  /\ UpdateAllowed(status[t], refunded[t], newS, newBack)
  /\ RowCheck(t \in Payment, newS, amount[t], newBack)
  /\ version[t] < MaxVersion

\* A posting is accepted when the account has its currency (LX003) and the
\* entry when it is valid at COMMIT (LX002).
Postable(t, e) == currency[t] = LedgerCurrency /\ EntryValid(e)

\* The entry e is attached to t and moves the money of payment p.
Book(t, p, e) ==
  /\ entries' = [entries EXCEPT ![t] = Append(@, e)]
  /\ position' = [position EXCEPT ![p] = [a \in Account |-> position[p][a] + e[a]]]

\* Bug: any confirmation that comes again is taken for a late one.
IsRepeatedAcknowledgment(t, to) == status[t] \in {"EXPIRED", "SUCCEEDED"} /\ to = "SUCCEEDED"

\* Bug: the guard on the status before the update is dropped.
IsAnySuccess(t, to) == status[t] \in {"PENDING", "DISPUTED"} /\ to = "SUCCEEDED"

\* Requests that transition() treats apart.
IsLateAcknowledgment(t, to) == status[t] = "EXPIRED" /\ to = "SUCCEEDED"
IsSettlement(t, to) == status[t] = "PENDING" /\ to = "SUCCEEDED"
IsReversal(t, to) == status[t] = "DISPUTED" /\ to = "REVERSED"

\* A transition that moves no money.  The status may stay the same: the
\* trigger lets it through and the version still grows.
ChangeStatus(t, to) ==
  /\ status[t] # "ABSENT"
  /\ ~IsLateAcknowledgment(t, to) /\ ~IsSettlement(t, to) /\ ~IsReversal(t, to)
  /\ UpdateOK(t, to, refunded[t])
  /\ status' = [status EXCEPT ![t] = to]
  /\ version' = [version EXCEPT ![t] = NextVersion(status[t], to, @)]
  /\ history' = [history EXCEPT ![t] = Recorded(@, status[t], to)]
  /\ UNCHANGED <<refunded, attributes, overdue, inserting, books, late>>

\* EXPIRED -> SUCCEEDED requested: the exception is committed, the row is not
\* touched, the caller gets 409.
LateAcknowledgment(t) ==
  /\ IsLateAcknowledgment(t, "SUCCEEDED")
  /\ late[t] < MaxLate
  /\ late' = [late EXCEPT ![t] = @ + 1]
  /\ UNCHANGED <<row, attributes, overdue, inserting, books>>

\* PENDING -> SUCCEEDED of a payment, with bookPaymentSuccess.
SettlePayment(p) ==
  LET e == PaymentEntry(amount[p]) IN
  /\ IsSettlement(p, "SUCCEEDED")
  /\ UpdateOK(p, "SUCCEEDED", refunded[p])
  /\ Postable(p, e)
  /\ status' = [status EXCEPT ![p] = "SUCCEEDED"]
  /\ version' = [version EXCEPT ![p] = NextVersion(status[p], "SUCCEEDED", @)]
  /\ history' = [history EXCEPT ![p] = Recorded(@, status[p], "SUCCEEDED")]
  /\ Book(p, p, e)
  /\ UNCHANGED <<refunded, attributes, overdue, inserting, late>>

\* refunded_amount after refund r.  Bug: it is replaced, not cumulated, as when
\* two refunds start from the same reading of the parent.
Overwritten(p, r) == amount[r]
Cumulated(p, r) == refunded[p] + amount[r]

ParentStatus(p, back) == IF back = amount[p] THEN "REFUNDED" ELSE "PARTIALLY_REFUNDED"

\* PENDING -> SUCCEEDED of a refund, with bookRefundSuccess: the parent is
\* locked and its cumulated amount checked, its status is not read.
SettleRefund(r) ==
  LET p == parent[r]
      back == Cumulated(p, r)
      e == ReturnEntry(amount[r]) IN
  /\ IsSettlement(r, "SUCCEEDED")
  /\ UpdateOK(r, "SUCCEEDED", refunded[r])
  /\ back <= amount[p]
  /\ UpdateOK(p, ParentStatus(p, back), back)
  /\ Postable(r, e)
  /\ status' = [status EXCEPT ![r] = "SUCCEEDED", ![p] = ParentStatus(p, back)]
  /\ refunded' = [refunded EXCEPT ![p] = back]
  /\ version' = [version EXCEPT ![r] = NextVersion(status[r], "SUCCEEDED", @),
                                ![p] = NextVersion(status[p], ParentStatus(p, back), @)]
  /\ history' = [history EXCEPT ![r] = Recorded(@, status[r], "SUCCEEDED"),
                                ![p] = Recorded(@, status[p], ParentStatus(p, back))]
  /\ Book(r, p, e)
  /\ UNCHANGED <<attributes, overdue, inserting, late>>

\* DISPUTED -> REVERSED, with bookDisputeReversal: the row is updated twice,
\* once for the status, once for the refunded amount.
ReverseDispute(t) ==
  LET remaining == amount[t] - refunded[t]
      e == ReturnEntry(remaining) IN
  /\ IsReversal(t, "REVERSED")
  /\ UpdateOK(t, "REVERSED", refunded[t])
  /\ remaining > 0
  /\ UpdateAllowed("REVERSED", refunded[t], "REVERSED", amount[t])
  /\ RowCheck(t \in Payment, "REVERSED", amount[t], amount[t])
  /\ version[t] + 1 < MaxVersion
  /\ Postable(t, e)
  /\ status' = [status EXCEPT ![t] = "REVERSED"]
  /\ refunded' = [refunded EXCEPT ![t] = amount[t]]
  /\ version' = [version EXCEPT ![t] = @ + 2]
  /\ history' = [history EXCEPT ![t] = Recorded(@, status[t], "REVERSED")]
  /\ Book(t, t, e)
  /\ UNCHANGED <<attributes, overdue, inserting, late>>

---------------------------------------------------------------------------
(* Time and the expiration job. *)

\* expires_at is frozen, so a deadline that is past stays past.  Only PENDING
\* rows are ever compared with it: the later ones are left out.
DeadlinePasses(t) ==
  /\ status[t] \in {"INITIATED", "PENDING"} /\ t \notin overdue
  /\ overdue' = overdue \cup {t}
  /\ UNCHANGED <<row, attributes, inserting, books, late>>

\* The WHERE of the job.  Bug: it looks for what was never acknowledged.
ExpirableUnacknowledged(t) == t \in overdue /\ status[t] = "INITIATED"
Expirable(t) == t \in overdue /\ status[t] = "PENDING"

\* expireOneBatch: any part of what is overdue and PENDING, the rest being
\* locked by others (SKIP LOCKED) or beyond the LIMIT.
ExpireBatch(batch) ==
  /\ batch # {} /\ Cardinality(batch) <= BatchSize
  /\ \A t \in batch : Expirable(t) /\ UpdateOK(t, "EXPIRED", refunded[t])
  /\ status' = [t \in Transaction |-> IF t \in batch THEN "EXPIRED" ELSE status[t]]
  /\ version' = [t \in Transaction |->
                   IF t \in batch THEN NextVersion(status[t], "EXPIRED", version[t]) ELSE version[t]]
  /\ history' = [t \in Transaction |->
                   IF t \in batch THEN Recorded(history[t], status[t], "EXPIRED") ELSE history[t]]
  /\ UNCHANGED <<refunded, attributes, overdue, inserting, books, late>>

---------------------------------------------------------------------------
Next ==
  \/ \E p \in Payment, a \in Amount, c \in Currency : CreatePayment(p, a, c)
  \/ \E r \in Refund, p \in Payment, a \in Amount : CheckRefund(r, p, a)
  \/ \E r \in Refund : CommitRefund(r)
  \/ \E r \in Refund : AbortRefund(r)
  \/ \E t \in Transaction, to \in Status : ChangeStatus(t, to)
  \/ \E t \in Transaction : LateAcknowledgment(t)
  \/ \E p \in Payment : SettlePayment(p)
  \/ \E r \in Refund : SettleRefund(r)
  \/ \E p \in Payment : ReverseDispute(p)
  \/ \E t \in Transaction : DeadlinePasses(t)
  \/ \E batch \in SUBSET Transaction : ExpireBatch(batch)

Spec == Init /\ [][Next]_vars

---------------------------------------------------------------------------
(* What a row, its journal entries and its history say of each other. *)

\* The payments whose money the operator has confirmed.
Collected == {"SUCCEEDED", "PARTIALLY_REFUNDED", "REFUNDED", "DISPUTED", "REVERSED"}

Final == {"FAILED", "EXPIRED", "REFUNDED", "REVERSED"}

Exists(t) == status[t] # "ABSENT"

\* The shape of the state: every variable, and the CHECK constraints of a row
\* and the attributes a refund copied from its parent.
TypeOK ==
  /\ status \in [Transaction -> Status \cup {"ABSENT"}]
  /\ amount \in [Transaction -> Nat]
  /\ currency \in [Transaction -> Currency]
  /\ parent \in [Refund -> Payment \cup {NoPayment}]
  /\ refunded \in [Transaction -> Nat]
  /\ version \in [Transaction -> 0..MaxVersion]
  /\ overdue \subseteq Transaction
  /\ inserting \subseteq Refund
  /\ history \in [Transaction -> Seq((Status \cup {"NULL"}) \X Status)]
  /\ entries \in [Transaction -> Seq([Account -> Int])]
  /\ position \in [Payment -> [Account -> Int]]
  /\ late \in [Transaction -> 0..MaxLate]

\* A payment is booked once, when the operator confirms it, and a second time
\* only when a dispute is lost; a refund is booked once, when it succeeds.
\* No replay, dispute or expiry books anything else (transition: the guard on
\* the status the row had before the update).
BookedOnce ==
  /\ \A p \in Payment :
       /\ status[p] \notin Collected => entries[p] = <<>>
       /\ status[p] \in Collected \ {"REVERSED"} => entries[p] = <<PaymentEntry(amount[p])>>
       /\ status[p] = "REVERSED" =>
            \E rest \in 1..amount[p] :
              entries[p] = <<PaymentEntry(amount[p]), ReturnEntry(rest)>>
  /\ \A r \in Refund :
       entries[r] = IF status[r] = "SUCCEEDED" THEN <<ReturnEntry(amount[r])>> ELSE <<>>

\* What the row of a payment says should be in the books.
Held(p) == IF status[p] \in Collected THEN amount[p] - refunded[p] ELSE 0
Kept(p) == IF status[p] \in Collected THEN computeCommission(amount[p]) ELSE 0

\* The books and the row agree: what the operator still holds for a payment
\* is its amount less its refunded_amount, the platform keeps the commission
\* whatever happens next, and the merchant is owed the difference.
BooksMatchRow ==
  \A p \in Payment :
    /\ position[p]["clearing"] = Held(p)
    /\ position[p]["payable"] = Kept(p) - Held(p)
    /\ position[p]["fees"] = 0 - Kept(p)

\* A refund, even one whose INSERT is still in flight, belongs to a payment
\* whose money was collected, in the currency of that payment, and asks no
\* more than the payment was worth.
RefundHasCollectedParent ==
  \A r \in Refund :
    Exists(r) \/ r \in inserting =>
      /\ parent[r] \in Payment
      /\ status[parent[r]] \in Collected
      /\ currency[r] = currency[parent[r]]
      /\ 0 < amount[r] /\ amount[r] <= amount[parent[r]]

\* bookDisputeReversal relies on it: a payment in dispute has something left
\* to take back, and a payment reversed or refunded has nothing left.
DisputeLeavesARest ==
  \A p \in Payment :
    /\ status[p] = "DISPUTED" => refunded[p] < amount[p]
    /\ status[p] \in {"REVERSED", "REFUNDED"} => refunded[p] = amount[p]

\* The CHECK constraints hold of every committed row although SettleRefund
\* and ReverseDispute update rows their caller did not name or update twice.
RowsPassChecks ==
  \A t \in Transaction :
    Exists(t) => RowCheck(t \in Payment, status[t], amount[t], refunded[t])

\* The history of a transaction is an unbroken path of the state machine from
\* its creation to its present status, including the changes a refund or the
\* expiration job made to it.
HistoryIsAPath ==
  \A t \in Transaction :
    /\ Exists(t) <=> history[t] # <<>>
    /\ \A i \in DOMAIN history[t] :
         /\ i = 1 => history[t][i] = <<"NULL", "INITIATED">>
         /\ i > 1 => /\ history[t][i] \in StatusTransitions
                     /\ history[t][i][1] = history[t][i - 1][2]
         /\ i = Len(history[t]) => history[t][i][2] = status[t]

\* The sum of a function to the integers of which some values are counted,
\* those above 0: the number of its francs.
Francs(f) == UNION {{x} \X (1..f[x]) : x \in DOMAIN f}
Total(f) == Cardinality(Francs(f))

\* "concerned" in TransactionAuditService: the payment and its refunds.
\* Bug: the refunds are left out.
PaymentAlone(p) == {p}
Concerned(p) == {p} \cup {r \in Refund : parent[r] = p}

\* The postings of some transactions on an account, each known by its
\* transaction and the number of its entry: the lines the audit lists.
Postings(ts, a) ==
  [line \in UNION {{t} \X DOMAIN entries[t] : t \in ts} |-> entries[line[1]][line[2]][a]]
Opposite(f) == [x \in DOMAIN f |-> 0 - f[x]]

\* Debits less credits of the postings the audit lists on an account.
AuditedBalance(p, a) ==
  LET lines == Postings(Concerned(p), a) IN Total(lines) - Total(Opposite(lines))

\* Added up by hand, the postings the audit of a payment lists say what its
\* row says: what the operator still holds, what the platform keeps, and what
\* the merchant is owed.  Nothing is lost between the entries of a payment
\* and those of its refunds.
AuditAgreesWithRow ==
  \A p \in Payment :
    /\ AuditedBalance(p, "clearing") = Held(p)
    /\ AuditedBalance(p, "payable") = Kept(p) - Held(p)
    /\ AuditedBalance(p, "fees") = 0 - Kept(p)

GivenBack(p) == {r \in Refund : parent[r] = p /\ status[r] = "SUCCEEDED"}

\* refunded_amount is what the succeeded refunds gave back, plus the rest a
\* lost dispute took: settling twice, or out of order, loses no refund.
RefundedIsTheSum ==
  \A p \in Payment :
    refunded[p] = Total([r \in GivenBack(p) |-> amount[r]])
                  + (IF status[p] = "REVERSED" THEN entries[p][2].payable ELSE 0)

\* A late acknowledgment is recorded only against money the books do not have.
LateMeansNotBooked ==
  \A t \in Transaction : late[t] > 0 => status[t] = "EXPIRED" /\ entries[t] = <<>>

\* The inductive invariant the proofs rest on: the properties above that
\* speak of money, with the two facts they need about rows being inserted.
PaymentAmount == \A p \in Payment : Exists(p) => amount[p] \in Amount
InsertingIsInvisible == \A r \in inserting : ~Exists(r)

IInv ==
  /\ TypeOK /\ PaymentAmount /\ InsertingIsInvisible
  /\ RefundHasCollectedParent /\ RowsPassChecks /\ DisputeLeavesARest
  /\ BookedOnce /\ BooksMatchRow /\ LateMeansNotBooked

---------------------------------------------------------------------------
(* What a step may never do. *)

\* A final status is final, also for a parent that a refund updates.
FinalIsFinal ==
  [][\A t \in Transaction : status[t] \in Final => status'[t] = status[t]]_vars

\* If-Match compares versions only: a row never changes under an unchanged
\* version, not even when the change comes from a refund or from the job.
VersionCoversRow ==
  [][\A t \in Transaction :
       Exists(t) /\ <<status[t], refunded[t]>> # <<status'[t], refunded'[t]>>
       => version'[t] > version[t]]_vars

\* A dispute closed in favour of the merchant gives the payment back the
\* status it had before the dispute (ADR 0006), by the CHECK constraints
\* alone: the caller may ask for either status.
WonDisputeRestoresStatus ==
  [][\A p \in Payment :
       /\ status[p] = "DISPUTED" /\ status'[p] \in {"SUCCEEDED", "PARTIALLY_REFUNDED"}
       /\ refunded'[p] = refunded[p]
       => status'[p] = history[p][Len(history[p])][1]]_vars

---------------------------------------------------------------------------
(* What the documents say and the code does not do. *)

\* ADR 0006: a dispute closed in favour of the merchant moves no money.
\* bookRefundSuccess never reads the status of the parent: a refund that is
\* confirmed meanwhile closes the dispute and gives money back.
WonDisputeMovesNoMoney ==
  [][\A p \in Payment :
       status[p] = "DISPUTED" /\ status'[p] \in {"SUCCEEDED", "PARTIALLY_REFUNDED"}
       => position'[p] = position[p]]_vars

---------------------------------------------------------------------------
(* The balances of the three accounts implement the abstract flow. *)

Flow == INSTANCE MoneyFlow WITH
          collected <- {p \in Payment : entries[p] # <<>>},
          held      <- [p \in Payment |-> position[p]["clearing"]],
          owed      <- [p \in Payment |-> 0 - position[p]["payable"]],
          earned    <- [p \in Payment |-> 0 - position[p]["fees"]]

\* Whatever the interleaving of settlements, refunds, disputes and expirations,
\* the accounts move only as the abstract flow allows: in once, out of what is
\* held, the commission never given back.
ImplementsMoneyFlow == Flow!Spec

=============================================================================
