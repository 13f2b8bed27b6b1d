---------------------------- MODULE LedgerProofs ----------------------------
(***************************************************************************)
(* For every set of payments and refunds and every amount: the safety      *)
(* properties of Ledger, from one inductive invariant, and the refinement  *)
(* of MoneyFlow.  The order is types, invariant, steps, refinement.        *)
(***************************************************************************)
EXTENDS Ledger, SequenceTheorems, TLAPS

USE LedgerAssumption DEF Transaction

\* The entries the services write are functions from account roles to integers.
LEMMA EntryTypes ==
  ASSUME NEW a \in Nat
  PROVE  /\ computeCommission(a) \in Nat
         /\ PaymentEntry(a) \in [Account -> Int]
         /\ ReturnEntry(a) \in [Account -> Int]
<1>1. computeCommission(a) \in Nat
  BY DEF computeCommission
<1> QED
  BY <1>1 DEF PaymentEntry, ReturnEntry, Account

\* fn_transactions_record_status adds a well-formed line or none.
LEMMA RecordedType ==
  ASSUME NEW h \in Seq((Status \cup {"NULL"}) \X Status), NEW s \in Status, NEW n \in Status
  PROVE  Recorded(h, s, n) \in Seq((Status \cup {"NULL"}) \X Status)
BY DEF Recorded

\* What the transition table alone implies: final statuses stay, collected money
\* stays collected, and only a few statuses lead to DISPUTED, REVERSED or SUCCEEDED.
LEMMA TransitionFacts ==
  ASSUME NEW s \in Status, NEW n \in Status, NEW b, NEW nb, UpdateAllowed(s, b, n, nb)
  PROVE  /\ s \in Final => n = s
         /\ s \in Collected => n \in Collected
         /\ n \in Collected => s \in Collected \/ (s = "PENDING" /\ n = "SUCCEEDED")
         /\ n = "REVERSED" => s \in {"DISPUTED", "REVERSED"}
         /\ n = "DISPUTED" => s \in {"SUCCEEDED", "PARTIALLY_REFUNDED", "DISPUTED"}
         /\ n = "SUCCEEDED" => s \in {"PENDING", "DISPUTED", "SUCCEEDED"}
         /\ n = "INITIATED" => s = "INITIATED"
BY DEF UpdateAllowed, StatusTransitions, Status, Final, Collected

\* The empty database is well typed.
LEMMA InitType == Init => TypeOK
BY DEF Init, TypeOK, Account

\* Creating a payment keeps the types.
LEMMA CreatePaymentType ==
  ASSUME TypeOK, NEW p \in Payment, NEW a \in Amount, NEW c \in Currency, CreatePayment(p, a, c)
  PROVE  TypeOK'
<1> USE DEF CreatePayment, InsertRow, TypeOK, books
<1>1. history' \in [Transaction -> Seq((Status \cup {"NULL"}) \X Status)]
  BY DEF Status
<1> QED
  BY <1>1 DEF Status

\* The three steps of the INSERT of a refund keep the types.
LEMMA InsertRefundType ==
  ASSUME TypeOK, NEW r \in Refund,
         \/ \E p \in Payment, a \in Amount : CheckRefund(r, p, a)
         \/ CommitRefund(r)
         \/ AbortRefund(r)
  PROVE  TypeOK'
<1> USE DEF TypeOK, row, attributes, books
<1>1. CASE \E p \in Payment, a \in Amount : CheckRefund(r, p, a)
  <2> PICK p \in Payment, a \in Amount : CheckRefund(r, p, a)
    BY <1>1
  <2>1. a \in Nat /\ r \in Transaction /\ p \in Transaction
    BY LedgerAssumption
  <2>2. amount' \in [Transaction -> Nat] /\ currency' \in [Transaction -> Currency]
    BY <2>1 DEF CheckRefund
  <2>3. parent' \in [Refund -> Payment \cup {NoPayment}] /\ inserting' \subseteq Refund
    BY DEF CheckRefund
  <2> QED
    BY <2>2, <2>3 DEF CheckRefund
<1>2. CASE CommitRefund(r)
  <2> USE <1>2 DEF CommitRefund, InsertRow
  <2>1. history' \in [Transaction -> Seq((Status \cup {"NULL"}) \X Status)]
    BY DEF Status
  <2> QED
    BY <2>1 DEF Status
<1>3. CASE AbortRefund(r)
  BY <1>3 DEF AbortRefund
<1> QED
  BY <1>1, <1>2, <1>3

\* A transition that moves no money keeps the types.
LEMMA ChangeStatusType ==
  ASSUME TypeOK, NEW t \in Transaction, NEW to \in Status, ChangeStatus(t, to)
  PROVE  TypeOK'
<1> USE DEF NextVersion, ChangeStatus, TypeOK, attributes, books
<1>1. status[t] \in Status
  OBVIOUS
<1>2. history' \in [Transaction -> Seq((Status \cup {"NULL"}) \X Status)]
  BY <1>1, RecordedType
<1>3. version' \in [Transaction -> 0..MaxVersion]
  BY DEF UpdateOK
<1> QED
  BY <1>2, <1>3

\* The two halves of Book keep the types of the journal and of the balances.
LEMMA BookType ==
  ASSUME TypeOK, NEW t \in Transaction, NEW p \in Payment, NEW e \in [Account -> Int], Book(t, p, e)
  PROVE  /\ entries' \in [Transaction -> Seq([Account -> Int])]
         /\ position' \in [Payment -> [Account -> Int]]
<1>1. entries' \in [Transaction -> Seq([Account -> Int])]
  <2> DEFINE T == Transaction
             E == [Account -> Int]
  <2>1. entries \in [T -> Seq(E)] /\ t \in T /\ e \in E
    BY DEF TypeOK
  <2>2. entries' = [entries EXCEPT ![t] = Append(entries[t], e)]
    BY DEF Book
  <2> HIDE DEF T, E
  <2>3. Append(entries[t], e) \in Seq(E)
    BY <2>1
  <2>4. entries' \in [T -> Seq(E)]
    BY <2>1, <2>2, <2>3
  <2> QED
    BY <2>4 DEF T, E
<1>2. [a \in Account |-> position[p][a] + e[a]] \in [Account -> Int]
  BY DEF TypeOK
<1>3. position' \in [Payment -> [Account -> Int]]
  BY <1>2 DEF Book, TypeOK
<1> QED
  BY <1>1, <1>3

\* bookPaymentSuccess keeps the types.
LEMMA SettlePaymentType ==
  ASSUME TypeOK, NEW p \in Payment, SettlePayment(p)
  PROVE  TypeOK'
<1> USE DEF NextVersion, SettlePayment, TypeOK, attributes
<1>1. status[p] \in Status /\ "SUCCEEDED" \in Status
  BY DEF IsSettlement, Status
<1>2. history' \in [Transaction -> Seq((Status \cup {"NULL"}) \X Status)]
  BY <1>1, RecordedType
<1>3. version' \in [Transaction -> 0..MaxVersion]
  BY DEF UpdateOK
<1>4. /\ entries' \in [Transaction -> Seq([Account -> Int])]
      /\ position' \in [Payment -> [Account -> Int]]
  BY BookType, EntryTypes
<1> QED
  BY <1>1, <1>2, <1>3, <1>4

\* bookRefundSuccess, which updates two rows, keeps the types.
LEMMA SettleRefundType ==
  ASSUME TypeOK, RefundHasCollectedParent, NEW r \in Refund, SettleRefund(r)
  PROVE  TypeOK'
<1> DEFINE p == parent[r]
           back == refunded[p] + amount[r]
           s == ParentStatus(p, back)
<1>1. p \in Payment /\ status[p] \in Collected
  BY DEF RefundHasCollectedParent, Exists, SettleRefund, IsSettlement
<1>2. /\ status[r] \in Status /\ status[p] \in Status
      /\ s \in Status /\ "SUCCEEDED" \in Status
  BY <1>1 DEF SettleRefund, IsSettlement, Collected, Status, ParentStatus
<1>3. /\ version[r] + 1 \in 0..MaxVersion /\ version[p] + 1 \in 0..MaxVersion
      /\ back \in Nat
  <2>1. version[r] < MaxVersion /\ version[p] < MaxVersion
    BY DEF SettleRefund, UpdateOK
  <2>2. /\ version[r] \in 0..MaxVersion /\ version[p] \in 0..MaxVersion
        /\ refunded[p] \in Nat /\ amount[r] \in Nat
    BY <1>1 DEF TypeOK
  <2> QED
    BY <2>1, <2>2
<1>4. /\ Recorded(history[r], status[r], "SUCCEEDED") \in Seq((Status \cup {"NULL"}) \X Status)
      /\ Recorded(history[p], status[p], s) \in Seq((Status \cup {"NULL"}) \X Status)
  BY <1>1, <1>2, RecordedType DEF TypeOK
<1>5. /\ entries' \in [Transaction -> Seq([Account -> Int])]
      /\ position' \in [Payment -> [Account -> Int]]
  BY <1>1, BookType, EntryTypes DEF SettleRefund, Cumulated, NextVersion, TypeOK
<1>6. /\ status' = [status EXCEPT ![r] = "SUCCEEDED", ![p] = s]
      /\ refunded' = [refunded EXCEPT ![p] = back]
      /\ version' = [version EXCEPT ![r] = @ + 1, ![p] = @ + 1]
      /\ history' = [history EXCEPT ![r] = Recorded(@, status[r], "SUCCEEDED"),
                                    ![p] = Recorded(@, status[p], s)]
      /\ UNCHANGED <<attributes, overdue, inserting, late>>
  BY DEF SettleRefund, Cumulated, NextVersion
<1> HIDE DEF p, back, s
<1>7. r \in Transaction /\ p \in Transaction /\ r # p
  BY <1>1, LedgerAssumption
<1>8. status' \in [Transaction -> Status \cup {"ABSENT"}] /\ refunded' \in [Transaction -> Nat]
  BY <1>2, <1>3, <1>6, <1>7 DEF TypeOK
<1>9. version' \in [Transaction -> 0..MaxVersion]
  BY <1>3, <1>6, <1>7 DEF TypeOK
<1>10. history' \in [Transaction -> Seq((Status \cup {"NULL"}) \X Status)]
  BY <1>4, <1>6, <1>7 DEF TypeOK
<1> QED
  BY <1>5, <1>6, <1>8, <1>9, <1>10 DEF TypeOK, attributes

\* bookDisputeReversal, which updates a row twice, keeps the types.
LEMMA ReverseDisputeType ==
  ASSUME TypeOK, NEW p \in Payment, ReverseDispute(p)
  PROVE  TypeOK'
<1> USE DEF ReverseDispute, TypeOK, attributes
<1>1. status[p] \in Status /\ "REVERSED" \in Status
  BY DEF IsReversal, Status
<1>2. history' \in [Transaction -> Seq((Status \cup {"NULL"}) \X Status)]
  BY <1>1, RecordedType
<1>3. version' \in [Transaction -> 0..MaxVersion]
  OBVIOUS
<1>4. /\ entries' \in [Transaction -> Seq([Account -> Int])]
      /\ position' \in [Payment -> [Account -> Int]]
  <2>1. amount[p] - refunded[p] \in Nat
    OBVIOUS
  <2> QED
    BY <2>1, BookType, EntryTypes
<1> QED
  BY <1>1, <1>2, <1>3, <1>4

\* A batch of the expiration job keeps the types.
LEMMA ExpireBatchType ==
  ASSUME TypeOK, NEW batch \in SUBSET Transaction, ExpireBatch(batch)
  PROVE  TypeOK'
<1> USE DEF NextVersion, Expirable, ExpireBatch, TypeOK, attributes, books
<1>1. "EXPIRED" \in Status /\ "PENDING" \in Status
  BY DEF Status
<1>2. history' \in [Transaction -> Seq((Status \cup {"NULL"}) \X Status)]
  BY <1>1, RecordedType
<1>3. version' \in [Transaction -> 0..MaxVersion]
  BY DEF UpdateOK
<1> QED
  BY <1>1, <1>2, <1>3

\* So do late acknowledgments and the passing of a deadline.
LEMMA OtherType ==
  ASSUME TypeOK, NEW t \in Transaction, LateAcknowledgment(t) \/ DeadlinePasses(t)
  PROVE  TypeOK'
<1> USE DEF TypeOK, row, attributes, books
<1>1. CASE LateAcknowledgment(t)
  <2>1. late' \in [Transaction -> 0..MaxLate]
    BY <1>1 DEF LateAcknowledgment
  <2> QED
    BY <1>1, <2>1 DEF LateAcknowledgment
<1>2. CASE DeadlinePasses(t)
  BY <1>2 DEF DeadlinePasses
<1> QED
  BY <1>1, <1>2

---------------------------------------------------------------------------
(* The inductive invariant. *)

\* Journals of one and of two entries, as sequences.
LEMMA AppendFacts ==
  ASSUME NEW a \in [Account -> Int], NEW b \in [Account -> Int]
  PROVE  /\ Append(<<>>, a) = <<a>>
         /\ Append(<<a>>, b) = <<a, b>>
<1> DEFINE S == [Account -> Int]
<1>1. <<>> \in Seq(S) /\ <<a>> \in Seq(S) /\ <<a, b>> \in Seq(S)
  OBVIOUS
<1>2. /\ Append(<<>>, a) \in Seq(S) /\ Len(Append(<<>>, a)) = 1 /\ Append(<<>>, a)[1] = a
      /\ Append(<<a>>, b) \in Seq(S) /\ Len(Append(<<a>>, b)) = 2
      /\ Append(<<a>>, b)[1] = a /\ Append(<<a>>, b)[2] = b
  BY <1>1
<1>3. Append(<<>>, a) = <<a>>
  BY <1>1, <1>2, SeqEqual
<1>4. Append(<<a>>, b) = <<a, b>>
  <2>1. \A i \in 1..2 : Append(<<a>>, b)[i] = <<a, b>>[i]
    BY <1>2
  <2> QED
    BY <1>1, <1>2, <2>1, SeqEqual
<1> QED
  BY <1>3, <1>4

\* What a refund r that succeeds does to each row and to the books.
RefundEffect(r, p) ==
  /\ p \in Payment /\ status[p] \in Collected /\ status[r] = "PENDING"
  /\ refunded[p] + amount[r] <= amount[p]
  /\ UpdateAllowed(status[p], refunded[p],
                   ParentStatus(p, refunded[p] + amount[r]), refunded[p] + amount[r])
  /\ RowCheck(TRUE, ParentStatus(p, refunded[p] + amount[r]), amount[p], refunded[p] + amount[r])
  /\ RowCheck(FALSE, "SUCCEEDED", amount[r], refunded[r])
  /\ status'[r] = "SUCCEEDED" /\ status'[p] = ParentStatus(p, refunded[p] + amount[r])
  /\ refunded'[p] = refunded[p] + amount[r] /\ refunded'[r] = refunded[r]
  /\ \A t \in Transaction \ {r, p} : status'[t] = status[t] /\ refunded'[t] = refunded[t]
  /\ entries'[r] = Append(entries[r], ReturnEntry(amount[r]))
  /\ \A t \in Transaction \ {r} : entries'[t] = entries[t]
  /\ \A a \in Account : position'[p][a] = position[p][a] + ReturnEntry(amount[r])[a]
  /\ \A q \in Payment \ {p} : position'[q] = position[q]
  /\ UNCHANGED <<amount, currency, parent, overdue, inserting, late>>

\* What the settlement of a refund changes, on the refund and on its parent.
LEMMA SettleRefundEffect ==
  ASSUME TypeOK, RefundHasCollectedParent, NEW r \in Refund, SettleRefund(r),
         NEW p, p = parent[r]
  PROVE  RefundEffect(r, p)
<1>1. p \in Payment /\ status[p] \in Collected /\ status[r] = "PENDING" /\ p \notin Refund
  BY LedgerAssumption DEF RefundHasCollectedParent, Exists, SettleRefund, IsSettlement
<1>2. /\ refunded[p] + amount[r] <= amount[p]
      /\ UpdateAllowed(status[p], refunded[p],
                       ParentStatus(p, refunded[p] + amount[r]), refunded[p] + amount[r])
      /\ RowCheck(TRUE, ParentStatus(p, refunded[p] + amount[r]), amount[p], refunded[p] + amount[r])
      /\ RowCheck(FALSE, "SUCCEEDED", amount[r], refunded[r])
  <2>1. (p \in Payment) = TRUE /\ (r \in Payment) = FALSE
    BY <1>1, LedgerAssumption
  <2> QED
    BY <2>1 DEF SettleRefund, Cumulated, UpdateOK
<1>3. /\ status' = [status EXCEPT ![r] = "SUCCEEDED",
                                  ![p] = ParentStatus(p, refunded[p] + amount[r])]
      /\ refunded' = [refunded EXCEPT ![p] = refunded[p] + amount[r]]
      /\ entries' = [entries EXCEPT ![r] = Append(@, ReturnEntry(amount[r]))]
      /\ position' = [position EXCEPT ![p] =
                        [a \in Account |-> position[p][a] + ReturnEntry(amount[r])[a]]]
      /\ UNCHANGED <<amount, currency, parent, overdue, inserting, late>>
  BY DEF SettleRefund, Cumulated, Book, attributes
<1>4. r # p /\ r \in Transaction /\ p \in Transaction
  BY <1>1, LedgerAssumption
<1> QED
  BY <1>1, <1>2, <1>3, <1>4 DEF TypeOK, RefundEffect

\* The settlement of a refund: the parent was collected, so the books of the
\* parent move by the amount that its refunded_amount gains.
LEMMA SettleRefundInv ==
  ASSUME IInv, NEW r \in Refund, SettleRefund(r)
  PROVE  IInv'
<1>0. PICK p : p = parent[r]
  OBVIOUS
<1>1. TypeOK'
  BY SettleRefundType DEF IInv
<1>2. RefundEffect(r, p)
  BY <1>0, SettleRefundEffect DEF IInv
<1>3. r \notin Payment /\ p \notin Refund /\ p # r
  BY <1>2, LedgerAssumption DEF RefundEffect
<1> USE DEF RefundEffect
<1>4. status'[p] \in {"REFUNDED", "PARTIALLY_REFUNDED"}
  BY <1>2 DEF ParentStatus
<1>5. /\ amount \in [Transaction -> Nat] /\ refunded \in [Transaction -> Nat]
      /\ position \in [Payment -> [Account -> Int]]
  BY DEF IInv, TypeOK
<1>6. PaymentAmount' /\ InsertingIsInvisible'
  <2>1. \A t \in Transaction : Exists(t)' => Exists(t)
    BY <1>2 DEF Exists, Collected
  <2>2. r \notin inserting /\ p \notin inserting
    BY <1>2 DEF IInv, InsertingIsInvisible, Exists, Collected
  <2> QED
    BY <1>2, <1>3, <2>1, <2>2 DEF IInv, TypeOK, PaymentAmount, InsertingIsInvisible, Exists
<1>7. RefundHasCollectedParent'
  <2> SUFFICES ASSUME NEW q \in Refund, Exists(q)' \/ q \in inserting
               PROVE  /\ parent[q] \in Payment
                      /\ status'[parent[q]] \in Collected
                      /\ currency[q] = currency[parent[q]]
                      /\ 0 < amount[q] /\ amount[q] <= amount[parent[q]]
    BY <1>2 DEF RefundHasCollectedParent
  <2>1. Exists(q) \/ q \in inserting
    BY <1>2, <1>3 DEF Exists
  <2>2. /\ parent[q] \in Payment
        /\ status[parent[q]] \in Collected
        /\ currency[q] = currency[parent[q]]
        /\ 0 < amount[q] /\ amount[q] <= amount[parent[q]]
    BY <2>1 DEF IInv, RefundHasCollectedParent
  <2>3. status'[parent[q]] \in Collected
    BY <1>2, <1>3, <1>4, <2>2 DEF Collected
  <2> QED
    BY <2>2, <2>3
<1>8. RowsPassChecks'
  <2> SUFFICES ASSUME NEW t \in Transaction, Exists(t)'
               PROVE  RowCheck(t \in Payment, status[t], amount[t], refunded[t])'
    BY DEF RowsPassChecks
  <2>1. CASE t = r
    <3>1. (t \in Payment) = FALSE
      BY <1>3, <2>1
    <3> QED
      BY <1>2, <2>1, <3>1
  <2>2. CASE t = p
    <3>1. (t \in Payment) = TRUE
      BY <1>2, <2>2
    <3> QED
      BY <1>2, <2>2, <3>1
  <2>3. CASE t # r /\ t # p
    BY <1>2, <2>3 DEF IInv, RowsPassChecks, Exists
  <2> QED
    BY <2>1, <2>2, <2>3
<1>9. DisputeLeavesARest'
  BY <1>2, <1>3, <1>4 DEF IInv, DisputeLeavesARest, ParentStatus
<1>10. BookedOnce'
  <2>1. entries'[r] = <<ReturnEntry(amount[r])>>
    BY <1>2, <1>5, AppendFacts, EntryTypes DEF IInv, BookedOnce
  <2>2. status[p] # "REVERSED"
    BY <1>2, <1>4, <1>5, TransitionFacts DEF Collected, UpdateAllowed, StatusTransitions
  <2>3. entries'[p] = <<PaymentEntry(amount[p])>>
    BY <1>2, <1>3, <2>2 DEF IInv, BookedOnce
  <2>4. ASSUME NEW q \in Payment
        PROVE  /\ status'[q] \notin Collected => entries'[q] = <<>>
               /\ status'[q] \in Collected \ {"REVERSED"} => entries'[q] = <<PaymentEntry(amount'[q])>>
               /\ status'[q] = "REVERSED" =>
                    \E rest \in 1..amount'[q] :
                      entries'[q] = <<PaymentEntry(amount'[q]), ReturnEntry(rest)>>
    <3>1. CASE q = p
      BY <1>2, <1>4, <2>3, <3>1 DEF Collected
    <3>2. CASE q # p
      <4>1. q \in Transaction \ {r, p} /\ q \in Transaction \ {r}
        BY <1>3, <3>2
      <4>2. status'[q] = status[q] /\ entries'[q] = entries[q] /\ amount' = amount
        BY <1>2, <4>1
      <4> QED
        BY <4>2 DEF IInv, BookedOnce
    <3> QED
      BY <3>1, <3>2
  <2>5. ASSUME NEW q \in Refund
        PROVE  entries'[q] = IF status'[q] = "SUCCEEDED" THEN <<ReturnEntry(amount'[q])>> ELSE <<>>
    <3>1. CASE q = r
      BY <1>2, <2>1, <3>1
    <3>2. CASE q # r
      <4>1. q \in Transaction \ {r, p} /\ q \in Transaction \ {r}
        BY <1>3, <3>2
      <4>2. status'[q] = status[q] /\ entries'[q] = entries[q] /\ amount' = amount
        BY <1>2, <4>1
      <4> QED
        BY <4>2 DEF IInv, BookedOnce
    <3> QED
      BY <3>1, <3>2
  <2> QED
    BY <2>4, <2>5 DEF BookedOnce
<1>11. BooksMatchRow'
  <2>1. /\ position'[p]["clearing"] = position[p]["clearing"] - amount[r]
        /\ position'[p]["payable"] = position[p]["payable"] + amount[r]
        /\ position'[p]["fees"] = position[p]["fees"]
    BY <1>2, <1>5 DEF ReturnEntry, Account
  <2>2. status'[p] \in Collected
    BY <1>4 DEF Collected
  <2>3. computeCommission(amount[p]) \in Nat /\ amount[p] \in Nat /\ refunded[p] \in Nat
        /\ amount[r] \in Nat
    BY <1>2, <1>5, EntryTypes
  <2>4. Held(p)' = Held(p) - amount[r] /\ Kept(p)' = Kept(p)
    BY <1>2, <2>2, <2>3 DEF Held, Kept
  <2>5. Held(p) \in Int /\ Kept(p) \in Int
    BY <1>2, <2>3 DEF Held, Kept
  <2>6. \A q \in Payment \ {p} : Held(q)' = Held(q) /\ Kept(q)' = Kept(q)
    BY <1>2, <1>3 DEF Held, Kept
  <2>7. \A q \in Payment :
          /\ position[q]["clearing"] = Held(q)
          /\ position[q]["payable"] = Kept(q) - Held(q)
          /\ position[q]["fees"] = 0 - Kept(q)
    BY DEF IInv, BooksMatchRow
  <2> SUFFICES ASSUME NEW q \in Payment
               PROVE  /\ position'[q]["clearing"] = Held(q)'
                      /\ position'[q]["payable"] = Kept(q)' - Held(q)'
                      /\ position'[q]["fees"] = 0 - Kept(q)'
    BY DEF BooksMatchRow
  <2>8. CASE q = p
    BY <1>2, <2>1, <2>3, <2>4, <2>5, <2>7, <2>8
  <2>9. CASE q # p
    BY <1>2, <2>6, <2>7, <2>9
  <2> QED
    BY <2>8, <2>9
<1>12. LateMeansNotBooked'
  BY <1>2, <1>3 DEF IInv, LateMeansNotBooked, Collected
<1> QED
  BY <1>1, <1>6, <1>7, <1>8, <1>9, <1>10, <1>11, <1>12 DEF IInv

\* The settlement of a payment: its first and only entry until a dispute is lost.
LEMMA SettlePaymentInv ==
  ASSUME IInv, NEW p \in Payment, SettlePayment(p)
  PROVE  IInv'
<1> DEFINE e == PaymentEntry(amount[p])
<1>1. TypeOK'
  BY SettlePaymentType DEF IInv
<1>2. p \in Transaction /\ p \notin Refund /\ amount[p] \in Nat /\ refunded[p] \in Nat
  BY LedgerAssumption DEF IInv, TypeOK
<1>3. /\ status[p] = "PENDING"
      /\ RowCheck(p \in Payment, "SUCCEEDED", amount[p], refunded[p])
      /\ status' = [status EXCEPT ![p] = "SUCCEEDED"]
      /\ entries' = [entries EXCEPT ![p] = Append(@, e)]
      /\ position' = [position EXCEPT ![p] = [a \in Account |-> position[p][a] + e[a]]]
      /\ UNCHANGED <<refunded, amount, currency, parent, overdue, inserting, late>>
  BY DEF SettlePayment, IsSettlement, UpdateOK, Book, attributes
<1>4. /\ status'[p] = "SUCCEEDED" /\ entries'[p] = Append(entries[p], e)
      /\ \A a \in Account : position'[p][a] = position[p][a] + e[a]
      /\ \A t \in Transaction \ {p} : status'[t] = status[t] /\ entries'[t] = entries[t]
      /\ \A q \in Payment \ {p} : position'[q] = position[q]
  BY <1>2, <1>3 DEF IInv, TypeOK
<1>5. PaymentAmount' /\ InsertingIsInvisible'
  <2>1. \A t \in Transaction : Exists(t)' => Exists(t)
    BY <1>3, <1>4 DEF Exists
  <2> QED
    BY <1>3, <2>1 DEF IInv, TypeOK, PaymentAmount, InsertingIsInvisible
<1>6. RefundHasCollectedParent'
  BY <1>2, <1>3, <1>4 DEF IInv, RefundHasCollectedParent, Exists, Collected
<1>7. RowsPassChecks'
  BY <1>3, <1>4 DEF IInv, RowsPassChecks, Exists
<1>8. DisputeLeavesARest'
  BY <1>3, <1>4 DEF IInv, DisputeLeavesARest
<1>9. BookedOnce'
  <2>1. entries'[p] = <<e>>
    BY <1>2, <1>3, <1>4, AppendFacts, EntryTypes DEF IInv, BookedOnce, Collected
  <2> QED
    BY <1>2, <1>3, <1>4, <2>1 DEF IInv, BookedOnce, Collected
<1>10. BooksMatchRow'
  <2>1. computeCommission(amount[p]) \in Nat
    BY <1>2, EntryTypes
  <2>2. /\ position[p]["clearing"] = 0 /\ position[p]["payable"] = 0 /\ position[p]["fees"] = 0
    BY <1>3 DEF IInv, BooksMatchRow, Held, Kept, Collected
  <2>3. refunded[p] = 0
    BY <1>2, <1>3 DEF RowCheck, Unrefunded
  <2>4. Held(p)' = amount[p] /\ Kept(p)' = computeCommission(amount[p])
    BY <1>2, <1>3, <1>4, <2>3 DEF Held, Kept, Collected
  <2>5. /\ position'[p]["clearing"] = amount[p]
        /\ position'[p]["payable"] = computeCommission(amount[p]) - amount[p]
        /\ position'[p]["fees"] = 0 - computeCommission(amount[p])
    BY <1>2, <1>4, <2>1, <2>2 DEF Account, PaymentEntry
  <2>6. \A q \in Payment \ {p} : Held(q)' = Held(q) /\ Kept(q)' = Kept(q)
    BY <1>3, <1>4 DEF Held, Kept
  <2> QED
    BY <1>4, <2>4, <2>5, <2>6 DEF IInv, BooksMatchRow
<1>11. LateMeansNotBooked'
  BY <1>2, <1>3, <1>4 DEF IInv, LateMeansNotBooked
<1> QED
  BY <1>1, <1>5, <1>6, <1>7, <1>8, <1>9, <1>10, <1>11 DEF IInv

\* A lost dispute: what is left is positive and goes back, nothing is left after.
LEMMA ReverseDisputeInv ==
  ASSUME IInv, NEW p \in Payment, ReverseDispute(p)
  PROVE  IInv'
<1> DEFINE rest == amount[p] - refunded[p]
           e == ReturnEntry(rest)
<1>1. TypeOK'
  BY ReverseDisputeType DEF IInv
<1>2. p \in Transaction /\ p \notin Refund /\ amount[p] \in Nat /\ refunded[p] \in Nat
  BY LedgerAssumption DEF IInv, TypeOK
<1>3. /\ status[p] = "DISPUTED" /\ rest > 0
      /\ RowCheck(p \in Payment, "REVERSED", amount[p], amount[p])
      /\ status' = [status EXCEPT ![p] = "REVERSED"]
      /\ refunded' = [refunded EXCEPT ![p] = amount[p]]
      /\ entries' = [entries EXCEPT ![p] = Append(@, e)]
      /\ position' = [position EXCEPT ![p] = [a \in Account |-> position[p][a] + e[a]]]
      /\ UNCHANGED <<amount, currency, parent, overdue, inserting, late>>
  BY DEF ReverseDispute, IsReversal, Book, attributes
<1>4. /\ status'[p] = "REVERSED" /\ refunded'[p] = amount[p]
      /\ entries'[p] = Append(entries[p], e)
      /\ \A a \in Account : position'[p][a] = position[p][a] + e[a]
      /\ \A t \in Transaction \ {p} :
           status'[t] = status[t] /\ entries'[t] = entries[t] /\ refunded'[t] = refunded[t]
      /\ \A q \in Payment \ {p} : position'[q] = position[q]
  BY <1>2, <1>3 DEF IInv, TypeOK
<1>5. PaymentAmount' /\ InsertingIsInvisible'
  <2>1. \A t \in Transaction : Exists(t)' => Exists(t)
    BY <1>3, <1>4 DEF Exists
  <2> QED
    BY <1>3, <2>1 DEF IInv, TypeOK, PaymentAmount, InsertingIsInvisible
<1>6. RefundHasCollectedParent'
  BY <1>2, <1>3, <1>4 DEF IInv, RefundHasCollectedParent, Exists, Collected
<1>7. RowsPassChecks'
  BY <1>3, <1>4 DEF IInv, RowsPassChecks, Exists
<1>8. DisputeLeavesARest'
  BY <1>3, <1>4 DEF IInv, DisputeLeavesARest
<1>9. BookedOnce'
  <2>1. rest \in 1..amount[p]
    BY <1>2, <1>3
  <2>2. entries'[p] = <<PaymentEntry(amount[p]), e>>
    <3>1. PaymentEntry(amount[p]) \in [Account -> Int] /\ e \in [Account -> Int]
      BY <1>2, <2>1, EntryTypes
    <3>2. entries[p] = <<PaymentEntry(amount[p])>>
      BY <1>3 DEF IInv, BookedOnce, Collected
    <3> QED
      BY <1>4, <3>1, <3>2, AppendFacts
  <2>3. \A t \in Transaction \ {p} :
          status'[t] = status[t] /\ entries'[t] = entries[t] /\ amount'[t] = amount[t]
    BY <1>3, <1>4
  <2>4. ASSUME NEW q \in Payment
        PROVE  /\ status'[q] \notin Collected => entries'[q] = <<>>
               /\ status'[q] \in Collected \ {"REVERSED"} => entries'[q] = <<PaymentEntry(amount'[q])>>
               /\ status'[q] = "REVERSED" =>
                    \E left \in 1..amount'[q] :
                      entries'[q] = <<PaymentEntry(amount'[q]), ReturnEntry(left)>>
    <3>1. CASE q = p
      <4>1. status'[q] = "REVERSED" /\ amount'[q] = amount[p]
        BY <1>3, <1>4, <3>1
      <4> QED
        BY <2>1, <2>2, <3>1, <4>1 DEF Collected
    <3>2. CASE q # p
      BY <2>3, <3>2 DEF IInv, BookedOnce
    <3> QED
      BY <3>1, <3>2
  <2>5. ASSUME NEW q \in Refund
        PROVE  entries'[q] = IF status'[q] = "SUCCEEDED" THEN <<ReturnEntry(amount'[q])>> ELSE <<>>
    <3>1. q \in Transaction \ {p}
      BY <1>2
    <3> QED
      BY <2>3, <3>1 DEF IInv, BookedOnce
  <2> QED
    BY <2>4, <2>5 DEF BookedOnce
<1>10. BooksMatchRow'
  <2>1. computeCommission(amount[p]) \in Nat
    BY <1>2, EntryTypes
  <2>2. /\ position[p]["clearing"] = rest
        /\ position[p]["payable"] = computeCommission(amount[p]) - rest
        /\ position[p]["fees"] = 0 - computeCommission(amount[p])
    BY <1>3 DEF IInv, BooksMatchRow, Held, Kept, Collected
  <2>3. Held(p)' = 0 /\ Kept(p)' = computeCommission(amount[p])
    BY <1>2, <1>3, <1>4 DEF Held, Kept, Collected
  <2>4. /\ position'[p]["clearing"] = 0
        /\ position'[p]["payable"] = computeCommission(amount[p])
        /\ position'[p]["fees"] = 0 - computeCommission(amount[p])
    BY <1>2, <1>4, <2>1, <2>2 DEF Account, ReturnEntry
  <2>5. \A q \in Payment \ {p} : Held(q)' = Held(q) /\ Kept(q)' = Kept(q)
    BY <1>3, <1>4 DEF Held, Kept
  <2> QED
    BY <1>4, <2>1, <2>3, <2>4, <2>5 DEF IInv, BooksMatchRow
<1>11. LateMeansNotBooked'
  BY <1>2, <1>3, <1>4 DEF IInv, LateMeansNotBooked
<1> QED
  BY <1>1, <1>5, <1>6, <1>7, <1>8, <1>9, <1>10, <1>11 DEF IInv

\* A change of status that moves no money keeps a payment on the side of the
\* books it was on.
LEMMA ChangeStatusInv ==
  ASSUME IInv, NEW t \in Transaction, NEW to \in Status, ChangeStatus(t, to)
  PROVE  IInv'
<1>1. TypeOK'
  BY ChangeStatusType DEF IInv
<1>2. /\ status[t] \in Status
      /\ UpdateAllowed(status[t], refunded[t], to, refunded[t])
      /\ RowCheck(t \in Payment, to, amount[t], refunded[t])
      /\ ~(status[t] = "EXPIRED" /\ to = "SUCCEEDED")
      /\ ~(status[t] = "PENDING" /\ to = "SUCCEEDED")
      /\ ~(status[t] = "DISPUTED" /\ to = "REVERSED")
      /\ status' = [status EXCEPT ![t] = to]
      /\ UNCHANGED <<refunded, amount, currency, parent, overdue, inserting, entries, position, late>>
  BY DEF ChangeStatus, UpdateOK, IsLateAcknowledgment, IsSettlement, IsReversal,
         attributes, books, IInv, TypeOK
<1>3. /\ status'[t] = to
      /\ \A u \in Transaction \ {t} : status'[u] = status[u]
  BY <1>2 DEF IInv, TypeOK
<1>4. /\ status[t] \in Final => to = status[t]
      /\ status[t] \in Collected <=> to \in Collected
      /\ to = "REVERSED" => status[t] = "REVERSED"
      /\ to = "DISPUTED" => status[t] \in {"SUCCEEDED", "PARTIALLY_REFUNDED", "DISPUTED"}
      /\ to = "REFUNDED" => status[t] # "REVERSED"
  BY <1>2, TransitionFacts DEF Final
<1>5. /\ amount[t] \in Nat /\ refunded[t] \in Nat
      /\ t \in Payment => amount[t] > 0
  BY <1>2, LedgerAssumption DEF IInv, TypeOK, PaymentAmount, Exists, Status
<1>6. PaymentAmount' /\ InsertingIsInvisible'
  <2>1. \A u \in Transaction : Exists(u)' => Exists(u)
    BY <1>2, <1>3 DEF Exists, Status
  <2> QED
    BY <1>2, <2>1 DEF IInv, TypeOK, PaymentAmount, InsertingIsInvisible
<1>7. RefundHasCollectedParent'
  <2>1. \A u \in Transaction : /\ Exists(u)' => Exists(u)
                               /\ status[u] \in Collected => status'[u] \in Collected
    BY <1>2, <1>3, <1>4 DEF Exists, Status
  <2> QED
    BY <1>2, <2>1 DEF IInv, RefundHasCollectedParent
<1>8. RowsPassChecks'
  BY <1>2, <1>3 DEF IInv, RowsPassChecks, Exists
<1>9. DisputeLeavesARest'
  <2>1. RowCheck(t \in Payment, status[t], amount[t], refunded[t])
    BY <1>2 DEF IInv, RowsPassChecks, Exists, Status
  <2>2. t \in Payment /\ to = "DISPUTED" => refunded[t] < amount[t]
    BY <1>4, <1>5, <2>1 DEF IInv, DisputeLeavesARest, RowCheck, Unrefunded
  <2>3. t \in Payment /\ to \in {"REVERSED", "REFUNDED"} => refunded[t] = amount[t]
    BY <1>2, <1>4 DEF IInv, DisputeLeavesARest, RowCheck
  <2> QED
    BY <1>2, <1>3, <2>2, <2>3 DEF IInv, DisputeLeavesARest
<1>10. BookedOnce'
  <2>1. t \in Refund => /\ to # "REVERSED" /\ (status[t] = "SUCCEEDED" <=> to = "SUCCEEDED")
    <3>1. t \in Refund => (t \in Payment) = FALSE
      BY LedgerAssumption
    <3>2. t \in Refund => to \in Unrefunded /\ status[t] \in Unrefunded
      BY <1>2, <3>1 DEF IInv, RowsPassChecks, RowCheck, Exists, Status
    <3> QED
      BY <1>2, <3>2 DEF UpdateAllowed, StatusTransitions, Unrefunded
  <2>2. status[t] = "REVERSED" => to = "REVERSED"
    BY <1>4 DEF Final
  <2> QED
    BY <1>2, <1>3, <1>4, <2>1, <2>2, LedgerAssumption DEF IInv, BookedOnce
<1>11. BooksMatchRow'
  <2>1. \A q \in Payment : Held(q)' = Held(q) /\ Kept(q)' = Kept(q)
    BY <1>2, <1>3, <1>4 DEF Held, Kept
  <2> QED
    BY <1>2, <2>1 DEF IInv, BooksMatchRow
<1>12. LateMeansNotBooked'
  BY <1>2, <1>3, <1>4 DEF IInv, LateMeansNotBooked, Final
<1> QED
  BY <1>1, <1>6, <1>7, <1>8, <1>9, <1>10, <1>11, <1>12 DEF IInv

\* Expired rows were PENDING: nothing of theirs is in the books.
LEMMA ExpireBatchInv ==
  ASSUME IInv, NEW batch \in SUBSET Transaction, ExpireBatch(batch)
  PROVE  IInv'
<1>1. TypeOK'
  BY ExpireBatchType DEF IInv
<1>2. /\ \A t \in batch : /\ status[t] = "PENDING" /\ status'[t] = "EXPIRED"
                          /\ RowCheck(t \in Payment, "EXPIRED", amount[t], refunded[t])
      /\ \A t \in Transaction \ batch : status'[t] = status[t]
      /\ UNCHANGED <<refunded, amount, currency, parent, overdue, inserting, entries, position, late>>
  BY DEF Expirable, ExpireBatch, UpdateOK, attributes, books, IInv, TypeOK
<1>3. /\ \A t \in Transaction : Exists(t)' <=> Exists(t)
      /\ \A t \in Transaction : status[t] \in Collected \/ status'[t] \in Collected => status'[t] = status[t]
  BY <1>2 DEF Exists, Collected
<1>4. PaymentAmount' /\ InsertingIsInvisible'
  BY <1>2, <1>3 DEF IInv, TypeOK, PaymentAmount, InsertingIsInvisible
<1>5. RefundHasCollectedParent'
  BY <1>2, <1>3 DEF IInv, RefundHasCollectedParent
<1>6. RowsPassChecks'
  BY <1>2, <1>3 DEF IInv, RowsPassChecks
<1>7. DisputeLeavesARest'
  BY <1>2 DEF IInv, DisputeLeavesARest
<1>8. BookedOnce'
  BY <1>2, <1>3 DEF IInv, BookedOnce, Collected
<1>9. BooksMatchRow'
  <2>1. \A q \in Payment : Held(q)' = Held(q) /\ Kept(q)' = Kept(q)
    BY <1>2, <1>3 DEF Held, Kept
  <2> QED
    BY <1>2, <2>1 DEF IInv, BooksMatchRow
<1>10. LateMeansNotBooked'
  BY <1>2 DEF IInv, LateMeansNotBooked
<1> QED
  BY <1>1, <1>4, <1>5, <1>6, <1>7, <1>8, <1>9, <1>10 DEF IInv

\* A new row has nothing in the books, and no refund names it yet.
LEMMA CreatePaymentInv ==
  ASSUME IInv, NEW p \in Payment, NEW a \in Amount, NEW c \in Currency, CreatePayment(p, a, c)
  PROVE  IInv'
<1>1. TypeOK'
  BY CreatePaymentType DEF IInv
<1>2. p \in Transaction /\ p \notin Refund /\ a \in Nat /\ a > 0
  BY LedgerAssumption
<1>3. /\ status[p] = "ABSENT"
      /\ status'[p] = "INITIATED" /\ amount'[p] = a /\ refunded'[p] = 0
      /\ \A t \in Transaction \ {p} : /\ status'[t] = status[t] /\ amount'[t] = amount[t]
                                      /\ refunded'[t] = refunded[t] /\ currency'[t] = currency[t]
      /\ UNCHANGED <<parent, overdue, inserting, entries, position, late>>
  BY <1>2 DEF CreatePayment, InsertRow, books, IInv, TypeOK
<1>4. PaymentAmount' /\ InsertingIsInvisible'
  BY <1>2, <1>3 DEF IInv, TypeOK, PaymentAmount, InsertingIsInvisible, Exists
<1>5. RefundHasCollectedParent'
  <2> SUFFICES ASSUME NEW q \in Refund, Exists(q)' \/ q \in inserting
               PROVE  /\ parent[q] \in Payment
                      /\ status'[parent[q]] \in Collected
                      /\ currency'[q] = currency'[parent[q]]
                      /\ 0 < amount'[q] /\ amount'[q] <= amount'[parent[q]]
    BY <1>3 DEF RefundHasCollectedParent
  <2>1. q \in Transaction \ {p}
    BY <1>2
  <2>2. /\ parent[q] \in Payment
        /\ status[parent[q]] \in Collected
        /\ currency[q] = currency[parent[q]]
        /\ 0 < amount[q] /\ amount[q] <= amount[parent[q]]
    BY <1>3, <2>1 DEF IInv, RefundHasCollectedParent, Exists
  <2>3. parent[q] \in Transaction \ {p}
    BY <1>3, <2>2 DEF Collected
  <2> QED
    BY <1>3, <2>1, <2>2, <2>3
<1>6. RowsPassChecks'
  <2>1. RowCheck(p \in Payment, "INITIATED", a, 0)
    BY <1>2 DEF RowCheck, Unrefunded
  <2> QED
    BY <1>3, <2>1 DEF IInv, RowsPassChecks, Exists
<1>7. DisputeLeavesARest'
  BY <1>3 DEF IInv, DisputeLeavesARest
<1>8. BookedOnce'
  BY <1>2, <1>3 DEF IInv, BookedOnce, Collected
<1>9. BooksMatchRow'
  <2>1. \A q \in Payment : Held(q)' = Held(q) /\ Kept(q)' = Kept(q)
    BY <1>3 DEF Held, Kept, Collected
  <2> QED
    BY <1>3, <2>1 DEF IInv, BooksMatchRow
<1>10. LateMeansNotBooked'
  BY <1>3 DEF IInv, LateMeansNotBooked
<1> QED
  BY <1>1, <1>4, <1>5, <1>6, <1>7, <1>8, <1>9, <1>10 DEF IInv

\* A refund enters in two steps, and may leave between them: it is attached to
\* a collected payment from the first one on.
LEMMA InsertRefundInv ==
  ASSUME IInv, NEW r \in Refund,
         \/ \E p \in Payment, a \in Amount : CheckRefund(r, p, a)
         \/ CommitRefund(r)
         \/ AbortRefund(r)
  PROVE  IInv'
<1>1. TypeOK'
  BY InsertRefundType DEF IInv
<1>2. r \in Transaction /\ r \notin Payment /\ (r \in Payment) = FALSE
  BY LedgerAssumption
<1>3. /\ status[r] = "ABSENT" /\ status'[r] \in {"ABSENT", "INITIATED"}
      /\ status'[r] = "INITIATED" => r \notin inserting' /\ refunded'[r] = 0 /\ amount' = amount
      /\ \A t \in Transaction \ {r} :
           /\ status'[t] = status[t] /\ amount'[t] = amount[t]
           /\ refunded'[t] = refunded[t] /\ currency'[t] = currency[t]
      /\ \A q \in Refund \ {r} : parent'[q] = parent[q] /\ (q \in inserting' <=> q \in inserting)
      /\ inserting' \subseteq Refund
      /\ UNCHANGED <<entries, position, late>>
  <2> USE <1>2 DEF IInv, TypeOK, row, attributes, books
  <2>1. CASE \E p \in Payment, a \in Amount : CheckRefund(r, p, a)
    BY <2>1 DEF CheckRefund
  <2>2. CASE CommitRefund(r)
    BY <2>2 DEF CommitRefund, InsertRow, InsertingIsInvisible, Exists
  <2>3. CASE AbortRefund(r)
    BY <2>3 DEF AbortRefund, InsertingIsInvisible, Exists
  <2> QED
    BY <2>1, <2>2, <2>3
<1>4. Exists(r)' \/ r \in inserting' =>
        /\ parent'[r] \in Payment /\ status[parent'[r]] \in Collected
        /\ currency'[r] = currency[parent'[r]]
        /\ 0 < amount'[r] /\ amount'[r] <= amount[parent'[r]]
  <2>1. ASSUME NEW p \in Payment, NEW a \in Amount, CheckRefund(r, p, a)
        PROVE  /\ parent'[r] \in Payment /\ status[parent'[r]] \in Collected
               /\ currency'[r] = currency[parent'[r]]
               /\ 0 < amount'[r] /\ amount'[r] <= amount[parent'[r]]
    <3>1. parent'[r] = p /\ amount'[r] = a /\ currency'[r] = currency[p] /\ Refundable(p, a)
      BY <1>2, <2>1 DEF CheckRefund, IInv, TypeOK
    <3>2. amount[p] \in Nat /\ refunded[p] \in Nat /\ a \in Nat /\ a > 0
      BY LedgerAssumption DEF IInv, TypeOK
    <3>3. status[p] \in Collected /\ a <= amount[p]
      BY <3>1, <3>2 DEF Refundable, Collected
    <3> QED
      BY <3>1, <3>2, <3>3
  <2>2. CASE CommitRefund(r)
    BY <1>2, <2>2 DEF CommitRefund, RefundHasCollectedParent, attributes, IInv
  <2>3. CASE AbortRefund(r)
    BY <2>3 DEF AbortRefund, InsertingIsInvisible, Exists, row, IInv
  <2> QED
    BY <2>1, <2>2, <2>3
<1>5. PaymentAmount' /\ InsertingIsInvisible'
  BY <1>2, <1>3 DEF IInv, TypeOK, PaymentAmount, InsertingIsInvisible, Exists
<1>6. RefundHasCollectedParent'
  BY <1>2, <1>3, <1>4 DEF IInv, RefundHasCollectedParent, Exists
<1>7. RowsPassChecks'
  <2> SUFFICES ASSUME NEW t \in Transaction, Exists(t)'
               PROVE  RowCheck(t \in Payment, status[t], amount[t], refunded[t])'
    BY DEF RowsPassChecks
  <2>1. CASE t = r
    <3>1. status'[r] = "INITIATED" /\ refunded'[r] = 0 /\ amount'[r] \in Nat
      BY <1>1, <1>2, <1>3, <2>1 DEF Exists, TypeOK
    <3> QED
      BY <1>2, <2>1, <3>1 DEF RowCheck, Unrefunded
  <2>2. CASE t # r
    BY <1>3, <2>2 DEF IInv, RowsPassChecks, Exists
  <2> QED
    BY <2>1, <2>2
<1>8. DisputeLeavesARest'
  BY <1>2, <1>3 DEF IInv, DisputeLeavesARest
<1>9. BookedOnce'
  <2>1. \A p \in Payment : status'[p] = status[p] /\ amount'[p] = amount[p]
    BY <1>2, <1>3
  <2>2. entries[r] = <<>> /\ status'[r] # "SUCCEEDED"
    BY <1>3 DEF IInv, BookedOnce
  <2>3. \A q \in Refund \ {r} : status'[q] = status[q] /\ amount'[q] = amount[q]
    BY <1>3
  <2>4. \A q \in Refund :
          entries[q] = IF status'[q] = "SUCCEEDED" THEN <<ReturnEntry(amount'[q])>> ELSE <<>>
    BY <2>2, <2>3 DEF IInv, BookedOnce
  <2> QED
    BY <1>3, <2>1, <2>4 DEF IInv, BookedOnce
<1>10. BooksMatchRow'
  <2>1. \A q \in Payment : Held(q)' = Held(q) /\ Kept(q)' = Kept(q)
    BY <1>2, <1>3 DEF Held, Kept
  <2> QED
    BY <1>3, <2>1 DEF IInv, BooksMatchRow
<1>11. LateMeansNotBooked'
  BY <1>2, <1>3 DEF IInv, LateMeansNotBooked
<1> QED
  BY <1>1, <1>5, <1>6, <1>7, <1>8, <1>9, <1>10, <1>11 DEF IInv

\* Late acknowledgments and deadlines: rows and books are left alone.
LEMMA QuietInv ==
  ASSUME IInv, NEW t \in Transaction, LateAcknowledgment(t) \/ DeadlinePasses(t)
  PROVE  IInv'
<1>1. TypeOK'
  BY OtherType DEF IInv
<1>2. /\ UNCHANGED <<status, refunded, amount, currency, parent, inserting, entries, position>>
      /\ \A u \in Transaction : late'[u] > 0 => late[u] > 0 \/ status[u] = "EXPIRED"
  BY DEF LateAcknowledgment, DeadlinePasses, IsLateAcknowledgment, row, attributes, books, IInv, TypeOK
<1>3. /\ PaymentAmount' /\ InsertingIsInvisible' /\ RefundHasCollectedParent'
      /\ RowsPassChecks' /\ DisputeLeavesARest'
  BY <1>2 DEF IInv, PaymentAmount, InsertingIsInvisible, RefundHasCollectedParent,
              RowsPassChecks, DisputeLeavesARest, Exists
<1>4. BookedOnce' /\ BooksMatchRow'
  BY <1>2 DEF IInv, BookedOnce, BooksMatchRow, Held, Kept
<1>5. LateMeansNotBooked'
  <2>1. \A u \in Transaction : status[u] = "EXPIRED" => entries[u] = <<>>
    BY DEF IInv, BookedOnce, Collected
  <2> QED
    BY <1>2, <2>1 DEF IInv, LateMeansNotBooked
<1> QED
  BY <1>1, <1>3, <1>4, <1>5 DEF IInv

\* The empty database satisfies the inductive invariant.
LEMMA InitInv == Init => IInv
<1> SUFFICES ASSUME Init PROVE IInv
  OBVIOUS
<1>1. TypeOK
  BY InitType
<1>2. \A t \in Transaction : status[t] = "ABSENT" /\ entries[t] = <<>> /\ late[t] = 0
  BY DEF Init
<1>3. inserting = {} /\ \A p \in Payment, a \in Account : position[p][a] = 0
  BY DEF Init
<1>4. \A p \in Payment : Held(p) = 0 /\ Kept(p) = 0
  BY <1>2 DEF Held, Kept, Collected
<1>5. BookedOnce /\ BooksMatchRow
  BY <1>2, <1>3, <1>4 DEF BookedOnce, BooksMatchRow, Collected, Account
<1> QED
  BY <1>1, <1>2, <1>3, <1>5 DEF IInv, PaymentAmount, InsertingIsInvisible,
     RefundHasCollectedParent, RowsPassChecks, DisputeLeavesARest, LateMeansNotBooked, Exists

\* Every committed SQL transaction preserves the inductive invariant.
LEMMA NextInv == IInv /\ [Next]_vars => IInv'
<1> SUFFICES ASSUME IInv, [Next]_vars PROVE IInv'
  OBVIOUS
<1>1. CASE \E p \in Payment, a \in Amount, c \in Currency : CreatePayment(p, a, c)
  BY <1>1, CreatePaymentInv
<1>2. CASE \E r \in Refund, p \in Payment, a \in Amount : CheckRefund(r, p, a)
  BY <1>2, InsertRefundInv
<1>3. CASE \E r \in Refund : CommitRefund(r)
  BY <1>3, InsertRefundInv
<1>4. CASE \E r \in Refund : AbortRefund(r)
  BY <1>4, InsertRefundInv
<1>5. CASE \E t \in Transaction, to \in Status : ChangeStatus(t, to)
  BY <1>5, ChangeStatusInv
<1>6. CASE \E t \in Transaction : LateAcknowledgment(t)
  BY <1>6, QuietInv
<1>7. CASE \E p \in Payment : SettlePayment(p)
  BY <1>7, SettlePaymentInv
<1>8. CASE \E r \in Refund : SettleRefund(r)
  BY <1>8, SettleRefundInv
<1>9. CASE \E p \in Payment : ReverseDispute(p)
  BY <1>9, ReverseDisputeInv
<1>10. CASE \E t \in Transaction : DeadlinePasses(t)
  BY <1>10, QuietInv
<1>11. CASE \E batch \in SUBSET Transaction : ExpireBatch(batch)
  BY <1>11, ExpireBatchInv
<1>12. CASE UNCHANGED vars
  BY <1>12 DEF vars, row, attributes, books, IInv, TypeOK, PaymentAmount, InsertingIsInvisible,
     RefundHasCollectedParent, RowsPassChecks, DisputeLeavesARest, BookedOnce, BooksMatchRow,
     LateMeansNotBooked, Exists, Held, Kept
<1> QED
  BY <1>1, <1>2, <1>3, <1>4, <1>5, <1>6, <1>7, <1>8, <1>9, <1>10, <1>11, <1>12 DEF Next

\* Every reachable state satisfies the inductive invariant.
THEOREM Invariance == Spec => []IInv
  BY InitInv, NextInv, PTL DEF Spec

\* Every variable keeps its type.
THEOREM TypeCorrect == Spec => []TypeOK
<1>1. IInv => TypeOK
  BY DEF IInv
<1> QED
  BY <1>1, Invariance, PTL

\* A payment is booked at most once when collected and at most once when a
\* dispute is lost, a refund exactly once when it succeeds.
THEOREM NoDoubleBooking == Spec => []BookedOnce
<1>1. IInv => BookedOnce
  BY DEF IInv
<1> QED
  BY <1>1, Invariance, PTL

\* Amount, refunded amount and status of a payment determine the balances of
\* the three accounts its money goes through.
THEOREM BooksAgree == Spec => []BooksMatchRow
<1>1. IInv => BooksMatchRow
  BY DEF IInv
<1> QED
  BY <1>1, Invariance, PTL

\* No refund, not even one still being inserted, hangs on a payment whose
\* money was not collected.
THEOREM RefundsAreFunded == Spec => []RefundHasCollectedParent
<1>1. IInv => RefundHasCollectedParent
  BY DEF IInv
<1> QED
  BY <1>1, Invariance, PTL

\* bookDisputeReversal never finds nothing to take back.
THEOREM DisputeIsReversible == Spec => []DisputeLeavesARest
<1>1. IInv => DisputeLeavesARest
  BY DEF IInv
<1> QED
  BY <1>1, Invariance, PTL

\* A late acknowledgment never concerns money that is in the books.
THEOREM LateIsUnbooked == Spec => []LateMeansNotBooked
<1>1. IInv => LateMeansNotBooked
  BY DEF IInv
<1> QED
  BY <1>1, Invariance, PTL

---------------------------------------------------------------------------
(* What a step does to the row of a transaction. *)

\* The ways a row goes through one step.  The refund that settles a second
\* row and the reversal that updates one twice are no exception.
RowStep(t) ==
  \/ status'[t] = status[t] /\ refunded'[t] = refunded[t] /\ version'[t] = version[t]
  \/ status[t] = "ABSENT"
  \/ /\ status'[t] = status[t] \/ <<status[t], status'[t]>> \in StatusTransitions
     /\ version'[t] > version[t]

\* How one row moves in one step: by the transition table or not at all, and
\* with a greater version whenever its status or its refunded amount changes.
LEMMA RowSteps ==
  ASSUME IInv, Next
  PROVE  \A t \in Transaction : RowStep(t)
<1>0. /\ status \in [Transaction -> Status \cup {"ABSENT"}]
      /\ refunded \in [Transaction -> Nat]
      /\ version \in [Transaction -> Int]
      /\ Payment \subseteq Transaction /\ Refund \subseteq Transaction
  BY DEF IInv, TypeOK
<1>1. ASSUME NEW p \in Payment, NEW a, NEW c, CreatePayment(p, a, c)
      PROVE  \A t \in Transaction : RowStep(t)
  BY <1>0, <1>1 DEF CreatePayment, InsertRow, RowStep
<1>2. ASSUME NEW r \in Refund, CommitRefund(r)
      PROVE  \A t \in Transaction : RowStep(t)
  <2>1. status[r] = "ABSENT"
    BY <1>2 DEF CommitRefund, IInv, InsertingIsInvisible, Exists
  <2> QED
    BY <1>0, <1>2, <2>1 DEF CommitRefund, InsertRow, RowStep
<1>3. ASSUME NEW t \in Transaction, NEW to \in Status, ChangeStatus(t, to)
      PROVE  \A u \in Transaction : RowStep(u)
  BY <1>0, <1>3 DEF NextVersion, ChangeStatus, UpdateOK, UpdateAllowed, RowStep
<1>4. ASSUME NEW p \in Payment, SettlePayment(p)
      PROVE  \A t \in Transaction : RowStep(t)
  BY <1>0, <1>4 DEF NextVersion, SettlePayment, UpdateOK, UpdateAllowed, RowStep
<1>5. ASSUME NEW r \in Refund, SettleRefund(r)
      PROVE  \A t \in Transaction : RowStep(t)
  <2>0. PICK p, back, new : p = parent[r] /\ back = refunded[p] + amount[r]
                            /\ new = ParentStatus(p, back)
    OBVIOUS
  <2>1. /\ status[r] = "PENDING" /\ p \in Payment
    BY <1>5, <2>0, SettleRefundEffect DEF IInv, RefundEffect
  <2>2. /\ new = status[p] \/ <<status[p], new>> \in StatusTransitions
        /\ "SUCCEEDED" = status[r] \/ <<status[r], "SUCCEEDED">> \in StatusTransitions
        /\ status' = [status EXCEPT ![r] = "SUCCEEDED", ![p] = new]
        /\ refunded' = [refunded EXCEPT ![p] = back]
        /\ version' = [version EXCEPT ![r] = @ + 1, ![p] = @ + 1]
    BY <1>5, <2>0 DEF SettleRefund, Cumulated, NextVersion, UpdateOK, UpdateAllowed
  <2>3. p # r
    BY <2>1, LedgerAssumption
  <2>4. ASSUME NEW t \in Transaction PROVE RowStep(t)
    <3>1. CASE t = p
      BY <1>0, <2>1, <2>2, <2>3, <3>1 DEF RowStep
    <3>2. CASE t = r
      BY <1>0, <2>1, <2>2, <2>3, <3>2 DEF RowStep
    <3>3. CASE t # p /\ t # r
      BY <1>0, <2>1, <2>2, <2>3, <3>3 DEF RowStep
    <3> QED
      BY <3>1, <3>2, <3>3
  <2> QED
    BY <2>4
<1>6. ASSUME NEW p \in Payment, ReverseDispute(p)
      PROVE  \A t \in Transaction : RowStep(t)
  BY <1>0, <1>6 DEF ReverseDispute, UpdateOK, UpdateAllowed, RowStep
<1>7. ASSUME NEW batch \in SUBSET Transaction, ExpireBatch(batch)
      PROVE  \A t \in Transaction : RowStep(t)
  BY <1>0, <1>7 DEF NextVersion, Expirable, ExpireBatch, UpdateOK, UpdateAllowed, RowStep
<1>8. CASE UNCHANGED row
  BY <1>8 DEF row, RowStep
<1> QED
  BY <1>1, <1>2, <1>3, <1>4, <1>5, <1>6, <1>7, <1>8
     DEF Next, CheckRefund, AbortRefund, LateAcknowledgment, DeadlinePasses

\* A transaction whose status is final keeps it, whatever refund, callback or
\* job comes afterwards.
THEOREM FinalStays == Spec => FinalIsFinal
<1>1. ASSUME IInv, [Next]_vars
      PROVE  [\A t \in Transaction : status[t] \in Final => status'[t] = status[t]]_vars
  <2>1. CASE Next
    <3>1. \A t \in Transaction : status[t] \in Final =>
             /\ status[t] # "ABSENT"
             /\ \A s : <<status[t], s>> \notin StatusTransitions
      BY DEF Final, StatusTransitions
    <3> QED
      BY <1>1, <2>1, <3>1, RowSteps DEF RowStep
  <2> QED
    BY <1>1, <2>1
<1> QED
  BY <1>1, Invariance, PTL DEF Spec, FinalIsFinal

\* A reader who holds the current version holds the current status and the
\* current refunded amount.
THEOREM VersionGrows == Spec => VersionCoversRow
<1>1. ASSUME IInv, [Next]_vars
      PROVE  [\A t \in Transaction :
                Exists(t) /\ <<status[t], refunded[t]>> # <<status'[t], refunded'[t]>>
                => version'[t] > version[t]]_vars
  <2>1. CASE Next
    BY <1>1, <2>1, RowSteps DEF RowStep, Exists
  <2> QED
    BY <1>1, <2>1
<1> QED
  BY <1>1, Invariance, PTL DEF Spec, VersionCoversRow

\* What was acknowledged too late stays so.
LEMMA LateGrows ==
  ASSUME IInv, Next
  PROVE  \A t \in Transaction : late'[t] >= late[t]
<1>0. late \in [Transaction -> 0..MaxLate]
  BY DEF IInv, TypeOK
<1>1. ASSUME NEW t \in Transaction, LateAcknowledgment(t)
      PROVE  \A u \in Transaction : late'[u] >= late[u]
  BY <1>0, <1>1, LedgerAssumption DEF LateAcknowledgment
<1>2. CASE late' = late
  BY <1>0, <1>2, LedgerAssumption
<1> QED
  BY <1>1, <1>2 DEF Next, CreatePayment, CheckRefund, CommitRefund, AbortRefund, ChangeStatus,
     SettlePayment, SettleRefund, ReverseDispute, DeadlinePasses, ExpireBatch

\* A refund that succeeded stays so, with the amount it gave back.
LEMMA SucceededRefundStays ==
  ASSUME IInv, IInv', Next, NEW r \in Refund, status[r] = "SUCCEEDED"
  PROVE  status'[r] = "SUCCEEDED" /\ amount'[r] = amount[r]
<1>0. r \in Transaction /\ (r \in Payment) = FALSE /\ amount \in [Transaction -> Nat]
  BY LedgerAssumption DEF Transaction, IInv, TypeOK
<1>1. status'[r] = status[r] \/ <<status[r], status'[r]>> \in StatusTransitions
  BY <1>0, RowSteps DEF RowStep
<1>2. status'[r] # "ABSENT"
  BY <1>1 DEF StatusTransitions
<1>3. RowCheck(FALSE, status'[r], amount'[r], refunded'[r])
  BY <1>0, <1>2 DEF IInv, RowsPassChecks, Exists
<1>4. status'[r] \in Unrefunded
  BY <1>3 DEF RowCheck
<1>5. status'[r] = "SUCCEEDED"
  BY <1>1, <1>4 DEF Unrefunded, StatusTransitions
<1>6. ASSUME NEW p \in Payment, NEW a \in Amount, NEW c \in Currency, CreatePayment(p, a, c)
      PROVE  amount'[r] = amount[r]
  BY <1>0, <1>6, LedgerAssumption DEF CreatePayment
<1>7. ASSUME NEW u \in Refund, NEW p \in Payment, NEW a \in Amount, CheckRefund(u, p, a)
      PROVE  amount'[r] = amount[r]
  BY <1>0, <1>7 DEF CheckRefund
<1>8. ASSUME NEW u \in Refund, AbortRefund(u)
      PROVE  amount'[r] = amount[r]
  <2>1. u # r
    BY <1>8 DEF AbortRefund, IInv, InsertingIsInvisible, Exists
  <2> QED
    BY <1>0, <1>8, <2>1 DEF AbortRefund
<1>9. UNCHANGED attributes => amount'[r] = amount[r]
  BY DEF attributes
<1>10. amount'[r] = amount[r]
  BY <1>6, <1>7, <1>8, <1>9
     DEF Next, CommitRefund, ChangeStatus, LateAcknowledgment, SettlePayment, SettleRefund,
         ReverseDispute, DeadlinePasses, ExpireBatch
<1> QED
  BY <1>5, <1>10

---------------------------------------------------------------------------
(* Refinement: the accounts implement the abstract flow of money. *)

\* Refinement: no money has come in yet.
LEMMA FlowInit == Init => Flow!Init
<1> SUFFICES ASSUME Init PROVE Flow!Init
  OBVIOUS
<1>1. \A p \in Payment :
        /\ entries[p] = <<>>
        /\ position[p]["clearing"] = 0 /\ position[p]["payable"] = 0 /\ position[p]["fees"] = 0
  BY DEF Init, Account
<1> QED
  BY <1>1 DEF Flow!Init

\* Steps that touch neither the journal nor the balances.
LEMMA FlowStutter ==
  ASSUME UNCHANGED <<entries, position>>
  PROVE  UNCHANGED Flow!flowVars
BY DEF Flow!flowVars

\* Refinement: the settlement of a payment is Collect.
LEMMA FlowCollect ==
  ASSUME IInv, NEW p \in Payment, SettlePayment(p)
  PROVE  Flow!Next
<1>0. PICK a, fee : a = amount[p] /\ fee = computeCommission(a)
  OBVIOUS
<1>1. /\ p \in Transaction /\ status[p] = "PENDING" /\ a \in Amount /\ a \in Nat
      /\ entries' = [entries EXCEPT ![p] = Append(@, PaymentEntry(a))]
      /\ position' = [position EXCEPT ![p] = [x \in Account |-> position[p][x] + PaymentEntry(a)[x]]]
  BY <1>0 DEF SettlePayment, IsSettlement, Book, IInv, TypeOK, PaymentAmount, Exists
<1>2. /\ entries[p] = <<>>
      /\ position[p]["clearing"] = 0 /\ position[p]["payable"] = 0 /\ position[p]["fees"] = 0
  BY <1>1 DEF IInv, BookedOnce, BooksMatchRow, Held, Kept, Collected
<1>3. a > 0 /\ fee \in 0..a - 1
  BY <1>0, <1>1, LedgerAssumption DEF computeCommission
<1>4. /\ entries'[p] # <<>>
      /\ \A q \in Payment \ {p} : entries'[q] = entries[q] /\ position'[q] = position[q]
      /\ position'[p]["clearing"] = a
      /\ position'[p]["payable"] = fee - a
      /\ position'[p]["fees"] = 0 - fee
  <2>1. entries'[p] = <<PaymentEntry(a)>>
    BY <1>1, <1>2, EntryTypes, AppendFacts DEF IInv, TypeOK
  <2>2. \A x \in Account : position'[p][x] = position[p][x] + PaymentEntry(a)[x]
    BY <1>1 DEF IInv, TypeOK
  <2>3. \A q \in Payment \ {p} : entries'[q] = entries[q] /\ position'[q] = position[q]
    BY <1>1 DEF IInv, TypeOK
  <2>4. /\ PaymentEntry(a)["clearing"] = a /\ PaymentEntry(a)["payable"] = fee - a
        /\ PaymentEntry(a)["fees"] = 0 - fee
    BY <1>0 DEF PaymentEntry
  <2>5. "clearing" \in Account /\ "payable" \in Account /\ "fees" \in Account
    BY DEF Account
  <2>6. a \in Int /\ fee \in Int
    BY <1>1, <1>3
  <2>7. position'[p]["clearing"] = a /\ position'[p]["payable"] = fee - a /\ position'[p]["fees"] = 0 - fee
    <3>1. /\ position'[p]["clearing"] = 0 + a
          /\ position'[p]["payable"] = 0 + (fee - a)
          /\ position'[p]["fees"] = 0 + (0 - fee)
      BY <1>2, <2>2, <2>4, <2>5
    <3> QED
      BY <2>6, <3>1
  <2>8. entries'[p] # <<>>
    <3>1. <<PaymentEntry(a)>> # <<>>
      OBVIOUS
    <3> QED
      BY <2>1, <3>1
  <2> QED
    BY <2>3, <2>7, <2>8
<1>5. Flow!Collect(p, a)
  <2>1. {q \in Payment : entries'[q] # <<>>} = {q \in Payment : entries[q] # <<>>} \cup {p}
    BY <1>4
  <2>2. [q \in Payment |-> position'[q]["clearing"]]
          = [[q \in Payment |-> position[q]["clearing"]] EXCEPT ![p] = a]
    BY <1>4
  <2>3. [q \in Payment |-> 0 - position'[q]["fees"]]
          = [[q \in Payment |-> 0 - position[q]["fees"]] EXCEPT ![p] = fee]
    <3>1. 0 - position'[p]["fees"] = fee
      BY <1>3, <1>4
    <3> QED
      BY <1>4, <3>1
  <2>4. [q \in Payment |-> 0 - position'[q]["payable"]]
          = [[q \in Payment |-> 0 - position[q]["payable"]] EXCEPT ![p] = a - fee]
    <3>1. 0 - position'[p]["payable"] = a - fee
      BY <1>1, <1>3, <1>4
    <3> QED
      BY <1>4, <3>1
  <2> QED
    BY <1>2, <1>3, <2>1, <2>2, <2>3, <2>4 DEF Flow!Collect
<1>6. \E q \in Payment : \E b \in Amount : Flow!Collect(q, b)
  BY <1>1, <1>5
<1> QED
  BY <1>6 DEF Flow!Next

\* Both ways to give money back post a ReturnEntry of x on payment p.
LEMMA ReturnEffect ==
  ASSUME TypeOK, NEW p \in Payment, NEW x \in Nat,
         position' = [position EXCEPT ![p] = [a \in Account |-> position[p][a] + ReturnEntry(x)[a]]]
  PROVE  /\ position'[p]["clearing"] = position[p]["clearing"] - x
         /\ position'[p]["payable"] = position[p]["payable"] + x
         /\ position'[p]["fees"] = position[p]["fees"]
         /\ \A q \in Payment \ {p} : position'[q] = position[q]
<1>1. \A a \in Account : position[p][a] \in Int
  BY DEF TypeOK
<1>2. \A a \in Account : position'[p][a] = position[p][a] + ReturnEntry(x)[a]
  BY DEF TypeOK
<1>3. "clearing" \in Account /\ "payable" \in Account /\ "fees" \in Account
  BY DEF Account
<1>4. /\ ReturnEntry(x)["clearing"] = 0 - x /\ ReturnEntry(x)["payable"] = x
      /\ ReturnEntry(x)["fees"] = 0
  BY DEF ReturnEntry
<1>5. /\ position'[p]["clearing"] = position[p]["clearing"] + (0 - x)
      /\ position'[p]["payable"] = position[p]["payable"] + x
      /\ position'[p]["fees"] = position[p]["fees"] + 0
  BY <1>2, <1>3, <1>4
<1>6. /\ position[p]["clearing"] \in Int /\ position[p]["payable"] \in Int
      /\ position[p]["fees"] \in Int
  BY <1>1, <1>3
<1>7. \A q \in Payment \ {p} : position'[q] = position[q]
  BY DEF TypeOK
<1> QED
  BY <1>5, <1>6, <1>7

\* Refinement: booking a ReturnEntry of x on a collected payment is GiveBack of x.
LEMMA FlowGiveBack ==
  ASSUME NEW p \in Payment, NEW x, NEW left, NEW owing,
         position[p]["clearing"] \in Int, x \in 1..position[p]["clearing"],
         \A q \in Payment : entries'[q] # <<>> <=> entries[q] # <<>>,
         left = position[p]["clearing"] - x, owing = (0 - position[p]["payable"]) - x,
         position'[p]["clearing"] = left, 0 - position'[p]["payable"] = owing,
         position'[p]["fees"] = position[p]["fees"],
         \A q \in Payment \ {p} : position'[q] = position[q]
  PROVE  Flow!Next
<1>1. {q \in Payment : entries'[q] # <<>>} = {q \in Payment : entries[q] # <<>>}
  OBVIOUS
<1>2. [q \in Payment |-> position'[q]["clearing"]]
        = [[q \in Payment |-> position[q]["clearing"]] EXCEPT ![p] = left]
  OBVIOUS
<1>3. [q \in Payment |-> 0 - position'[q]["payable"]]
        = [[q \in Payment |-> 0 - position[q]["payable"]] EXCEPT ![p] = owing]
  OBVIOUS
<1>4. [q \in Payment |-> 0 - position'[q]["fees"]] = [q \in Payment |-> 0 - position[q]["fees"]]
  OBVIOUS
<1>5. x <= [q \in Payment |-> position[q]["clearing"]][p]
  OBVIOUS
<1>6. Flow!GiveBack(p, x)
  BY <1>1, <1>2, <1>3, <1>4, <1>5 DEF Flow!GiveBack
<1>7. x \in 1..[q \in Payment |-> position[q]["clearing"]][p]
  OBVIOUS
<1>8. [q \in Payment |-> position'[q]["clearing"]][p] < [q \in Payment |-> position[q]["clearing"]][p]
  OBVIOUS
<1> QED
  BY <1>6, <1>7, <1>8 DEF Flow!Next

\* Together: what is given back comes out of what is held.
LEMMA ReturnStep ==
  ASSUME IInv, NEW p \in Payment, NEW x \in 1..Held(p), status[p] \in Collected,
         \A q \in Payment : entries'[q] # <<>> <=> entries[q] # <<>>,
         position' = [position EXCEPT ![p] = [a \in Account |-> position[p][a] + ReturnEntry(x)[a]]]
  PROVE  Flow!Next
<1>1. /\ position[p]["clearing"] = Held(p) /\ position[p]["payable"] \in Int /\ Held(p) \in Int
  BY DEF IInv, BooksMatchRow, TypeOK, Held, Account
<1>2. x \in Nat
  BY <1>1
<1>3. /\ position'[p]["clearing"] = position[p]["clearing"] - x
      /\ position'[p]["payable"] = position[p]["payable"] + x
      /\ position'[p]["fees"] = position[p]["fees"]
      /\ \A q \in Payment \ {p} : position'[q] = position[q]
  BY <1>2, ReturnEffect DEF IInv
<1>4. PICK left, owing : /\ left = position[p]["clearing"] - x
                         /\ owing = (0 - position[p]["payable"]) - x
  OBVIOUS
<1>5. position'[p]["clearing"] = left /\ 0 - position'[p]["payable"] = owing
  BY <1>1, <1>2, <1>3, <1>4
<1>6. x \in 1..position[p]["clearing"]
  BY <1>1
<1> QED
  BY <1>1, <1>3, <1>4, <1>5, <1>6, FlowGiveBack

\* Refinement: every step of the ledger is a step of the flow of money or a stutter.
LEMMA FlowStep == IInv /\ [Next]_vars => [Flow!Next]_(Flow!flowVars)
<1> SUFFICES ASSUME IInv, [Next]_vars PROVE [Flow!Next]_(Flow!flowVars)
  OBVIOUS
<1>1. CASE UNCHANGED <<entries, position>>
  BY <1>1, FlowStutter
<1>2. ASSUME NEW p \in Payment, SettlePayment(p)
      PROVE  Flow!Next
  BY <1>2, FlowCollect
<1>3. ASSUME NEW r \in Refund, SettleRefund(r)
      PROVE  Flow!Next
  <2>0. PICK p : p = parent[r]
    OBVIOUS
  <2>1. RefundEffect(r, p) /\ p \in Payment /\ status[p] \in Collected
    <3>1. RefundEffect(r, p)
      BY <1>3, <2>0, SettleRefundEffect DEF IInv
    <3> QED
      BY <3>1 DEF RefundEffect
  <2>2. amount[r] \in 1..Held(p)
    <3>1. status[r] = "PENDING"
      BY <2>1 DEF RefundEffect
    <3>2. 0 < amount[r] /\ amount[r] \in Nat /\ amount[p] \in Nat /\ refunded[p] \in Nat
      BY <2>0, <2>1, <3>1 DEF IInv, TypeOK, RefundHasCollectedParent, Exists
    <3> QED
      BY <2>1, <3>2 DEF RefundEffect, Held
  <2>3. position' = [position EXCEPT ![p] = [a \in Account |-> position[p][a] + ReturnEntry(amount[r])[a]]]
    BY <1>3, <2>0 DEF SettleRefund, Cumulated, Book
  <2>4. \A q \in Payment : entries'[q] = entries[q]
    BY <2>1, LedgerAssumption DEF RefundEffect
  <2> QED
    BY <2>1, <2>2, <2>3, <2>4, ReturnStep
<1>4. ASSUME NEW p \in Payment, ReverseDispute(p)
      PROVE  Flow!Next
  <2>1. /\ status[p] = "DISPUTED" /\ amount[p] - refunded[p] > 0
        /\ entries' = [entries EXCEPT ![p] = Append(@, ReturnEntry(amount[p] - refunded[p]))]
        /\ position' = [position EXCEPT ![p] =
                          [a \in Account |-> position[p][a] + ReturnEntry(amount[p] - refunded[p])[a]]]
    BY <1>4 DEF ReverseDispute, IsReversal, Book
  <2>2. amount[p] - refunded[p] \in 1..Held(p)
    BY <2>1 DEF IInv, TypeOK, Held, Collected
  <2>3. \A q \in Payment : entries'[q] # <<>> <=> entries[q] # <<>>
    <3>1. entries[p] = <<PaymentEntry(amount[p])>>
      BY <2>1 DEF IInv, BookedOnce, Collected
    <3>2. /\ PaymentEntry(amount[p]) \in [Account -> Int]
          /\ ReturnEntry(amount[p] - refunded[p]) \in [Account -> Int]
      <4>1. amount[p] \in Nat /\ refunded[p] \in Nat
        BY DEF IInv, TypeOK, Transaction
      <4>2. amount[p] - refunded[p] \in Nat
        BY <2>1, <4>1
      <4> QED
        BY <4>1, <4>2, EntryTypes
    <3>3. entries'[p] = <<PaymentEntry(amount[p]), ReturnEntry(amount[p] - refunded[p])>>
      BY <2>1, <3>1, <3>2, AppendFacts DEF IInv, TypeOK
    <3>4. entries'[p] # <<>> /\ entries[p] # <<>>
      BY <3>1, <3>3
    <3> QED
      BY <2>1, <3>4 DEF IInv, TypeOK
  <2>4. status[p] \in Collected
    BY <2>1 DEF Collected
  <2> QED
    BY <2>1, <2>2, <2>3, <2>4, ReturnStep
<1>5. ASSUME Next, ~UNCHANGED <<entries, position>>
      PROVE  \/ \E p \in Payment : SettlePayment(p) \/ ReverseDispute(p)
             \/ \E r \in Refund : SettleRefund(r)
  BY <1>5 DEF Next, CreatePayment, CheckRefund, CommitRefund, AbortRefund, ChangeStatus,
              LateAcknowledgment, DeadlinePasses, ExpireBatch, books
<1>6. UNCHANGED vars => UNCHANGED <<entries, position>>
  BY DEF vars, books
<1> QED
  BY <1>1, <1>2, <1>3, <1>4, <1>5, <1>6

\* The ledger implements the abstract flow of money: collected once, given back
\* only out of what is held, the commission kept.
THEOREM LedgerImplementsMoneyFlow == Spec => ImplementsMoneyFlow
  BY FlowInit, FlowStep, Invariance, PTL DEF Spec, ImplementsMoneyFlow, Flow!Spec

=============================================================================
