--------------------------- MODULE SessionsProofs ---------------------------
(***************************************************************************)
(* The SQL transactions, run statement by statement at READ COMMITTED,     *)
(* implement Ledger, where each takes effect at once: for any number of    *)
(* them, of rows and of keys.  The argument: a lock is held by one of them *)
(* only; a transition holds the lock of every row it has read, and the job *)
(* those of its batch; so what they have read is still so at COMMIT.       *)
(***************************************************************************)
EXTENDS Sessions, LedgerProofs

Lock == (Key \cup Transaction) \X {"update", "share"}

Work ==
  [kind : {"payment", "refund", "transition", "sweep"}, row : Transaction \cup {NoPayment},
   to : Status \cup {"ABSENT"}, key : Key \cup {NoKey}, todo : Seq(Lock), holds : SUBSET Lock,
   seen : Int, was : Status \cup {"ABSENT"}, back : Int, batch : SUBSET Transaction,
   overtaken : SUBSET Transaction]

Holds(s, t) == <<t, "update">> \in session[s].holds

\* What a SQL transaction works on, and the locks that go with what it knows.
WorkOK(s) ==
  LET w == session[s] IN
  /\ w.kind = "payment" => w.row \in Payment
  /\ w.kind = "transition" =>
       /\ w.row \in Transaction /\ Exists(w.row) /\ w.to \in Status
       /\ w.was # "ABSENT" =>
            /\ Holds(s, w.row)
            /\ w.todo # <<>> => w.row \in Refund
            /\ w.todo = <<>> /\ Settles(s) /\ w.row \in Refund => Holds(s, parent[w.row])
  /\ w.kind = "sweep" =>
       /\ \A x \in w.batch : Holds(s, x)
       /\ w.batch # {} => Cardinality(w.batch) <= BatchSize

\* ReadsAreStable for one SQL transaction.
StableFor(s) ==
  LET t == session[s].row IN
  /\ session[s].kind = "transition" /\ session[s].was # "ABSENT" =>
       /\ session[s].was = status[t] /\ session[s].seen = version[t]
       /\ session[s].todo = <<>> /\ Settles(s) /\ t \in Refund =>
            session[s].back = refunded[parent[t]]
  /\ session[s].kind = "sweep" => \A x \in session[s].batch : Expirable(x)

Compatible(s, o) ==
  \A h \in session[s].holds, g \in session[o].holds : h[1] = g[1] => ~Conflict(h[2], g[2])

\* The inductive invariant.
LocksOK ==
  /\ session \in [Session -> {Idle} \cup Work]
  /\ \A s, o \in Active : s # o => Compatible(s, o)
  /\ \A s \in Active : WorkOK(s) /\ StableFor(s)

\* The steps of SNext that one SQL transaction takes.
SessionStep(s) ==
  \/ Rollback(s)
  \/ \E p \in Payment, k \in Key : BeginPayment(s, p, k)
  \/ \E r \in Refund, k \in Key, p \in Payment, a \in Amount : BeginRefund(s, r, k, p, a)
  \/ TakeKey(s) \/ TakeParent(s) \/ CommitInsert(s)
  \/ \E t \in Transaction, to \in Status : BeginTransition(s, t, to)
  \/ LockRow(s) \/ LockParent(s) \/ CommitTransition(s) \/ CommitLate(s)
  \/ BeginSweep(s) \/ CommitSweep(s)
  \/ \E batch \in SUBSET Transaction : SelectBatch(s, batch)

\* A record without the field is left as it is.
LEMMA IdleStaysIdle == ASSUME NEW S PROVE [Idle EXCEPT !.overtaken = S] = Idle
BY DEF Idle

\* The types everything below relies on.
LEMMA Shapes ==
  ASSUME IInv
  PROVE  /\ status \in [Transaction -> Status \cup {"ABSENT"}] /\ "ABSENT" \notin Status
         /\ refunded \in [Transaction -> Nat] /\ version \in [Transaction -> Nat]
         /\ amount \in [Transaction -> Nat] /\ parent \in [Refund -> Payment \cup {NoPayment}]
         /\ history = [t \in Transaction |-> history[t]]
         /\ overdue \subseteq Transaction /\ inserting \subseteq Refund
         /\ Payment \subseteq Transaction /\ Refund \subseteq Transaction
         /\ Transaction = Payment \cup Refund /\ Payment \cap Refund = {}
         /\ \A r \in Refund : Exists(r) \/ r \in inserting => parent[r] \in Payment /\ Exists(parent[r])
<1>1. /\ status \in [Transaction -> Status \cup {"ABSENT"}] /\ "ABSENT" \notin Status
      /\ refunded \in [Transaction -> Nat] /\ version \in [Transaction -> 0..MaxVersion]
      /\ amount \in [Transaction -> Nat] /\ parent \in [Refund -> Payment \cup {NoPayment}]
      /\ history = [t \in Transaction |-> history[t]]
      /\ overdue \subseteq Transaction /\ inserting \subseteq Refund
  BY DEF IInv, TypeOK, Status
<1>2. version \in [Transaction -> Nat]
  BY <1>1, LedgerAssumption
<1>3. /\ Payment \subseteq Transaction /\ Refund \subseteq Transaction
      /\ Transaction = Payment \cup Refund /\ Payment \cap Refund = {}
  BY LedgerAssumption DEF Transaction
<1>4. ASSUME NEW r \in Refund, Exists(r) \/ r \in inserting
      PROVE  parent[r] \in Payment /\ Exists(parent[r])
  BY <1>4 DEF IInv, RefundHasCollectedParent, Exists, Collected
<1> QED
  BY <1>1, <1>2, <1>3, <1>4

---------------------------------------------------------------------------
(* Every step is a step of the ledger. *)

\* What the UPDATE of one row writes.
LEMMA OneRowWritten ==
  ASSUME IInv, NEW t \in Transaction, NEW new, DOMAIN new = {t}, UpdateRows(new)
  PROVE  /\ UpdateAllowed(status[t], refunded[t], new[t].status, new[t].refunded)
         /\ RowCheck(t \in Payment, new[t].status, amount[t], new[t].refunded)
         /\ version[t] + new[t].times <= MaxVersion
         /\ status' = [status EXCEPT ![t] = new[t].status]
         /\ refunded' = [refunded EXCEPT ![t] = new[t].refunded]
         /\ version' = [version EXCEPT ![t] = @ + new[t].times]
         /\ history' = [history EXCEPT ![t] = Recorded(@, status[t], new[t].status)]
<1>0. /\ status = [u \in Transaction |-> status[u]] /\ refunded = [u \in Transaction |-> refunded[u]]
      /\ version = [u \in Transaction |-> version[u]] /\ history = [u \in Transaction |-> history[u]]
  BY Shapes
<1>1. status' = [status EXCEPT ![t] = new[t].status]
  BY <1>0 DEF UpdateRows
<1>2. refunded' = [refunded EXCEPT ![t] = new[t].refunded]
  BY <1>0 DEF UpdateRows
<1>3. version' = [version EXCEPT ![t] = @ + new[t].times]
  BY <1>0 DEF UpdateRows
<1>4. history' = [history EXCEPT ![t] = Recorded(@, status[t], new[t].status)]
  BY <1>0 DEF UpdateRows
<1> QED
  BY <1>1, <1>2, <1>3, <1>4 DEF UpdateRows

\* What the UPDATEs of two rows write.
LEMMA TwoRowsWritten ==
  ASSUME IInv, NEW r \in Transaction, NEW p \in Transaction, r # p,
         NEW new, DOMAIN new = {r, p}, UpdateRows(new)
  PROVE  /\ \A t \in {r, p} :
              /\ UpdateAllowed(status[t], refunded[t], new[t].status, new[t].refunded)
              /\ RowCheck(t \in Payment, new[t].status, amount[t], new[t].refunded)
              /\ version[t] + new[t].times <= MaxVersion
         /\ status' = [status EXCEPT ![r] = new[r].status, ![p] = new[p].status]
         /\ refunded' = [refunded EXCEPT ![r] = new[r].refunded, ![p] = new[p].refunded]
         /\ version' = [version EXCEPT ![r] = @ + new[r].times, ![p] = @ + new[p].times]
         /\ history' = [history EXCEPT ![r] = Recorded(@, status[r], new[r].status),
                                       ![p] = Recorded(@, status[p], new[p].status)]
<1>0. /\ status = [u \in Transaction |-> status[u]] /\ refunded = [u \in Transaction |-> refunded[u]]
      /\ version = [u \in Transaction |-> version[u]] /\ history = [u \in Transaction |-> history[u]]
  BY Shapes
<1>1. status' = [status EXCEPT ![r] = new[r].status, ![p] = new[p].status]
  BY <1>0 DEF UpdateRows
<1>2. refunded' = [refunded EXCEPT ![r] = new[r].refunded, ![p] = new[p].refunded]
  BY <1>0 DEF UpdateRows
<1>3. version' = [version EXCEPT ![r] = @ + new[r].times, ![p] = @ + new[p].times]
  BY <1>0 DEF UpdateRows
<1>4. history' = [history EXCEPT ![r] = Recorded(@, status[r], new[r].status),
                                 ![p] = Recorded(@, status[p], new[p].status)]
  BY <1>0 DEF UpdateRows
<1> QED
  BY <1>1, <1>2, <1>3, <1>4 DEF UpdateRows

\* The versions compare as the bound of Ledger does.
LEMMA Room ==
  ASSUME IInv, NEW t \in Transaction
  PROVE  /\ version[t] + 1 <= MaxVersion => version[t] < MaxVersion
         /\ version[t] + 2 <= MaxVersion => version[t] < MaxVersion /\ version[t] + 1 < MaxVersion
BY Shapes, LedgerAssumption

\* COMMIT of a transition: what was read is so, hence what is written is right.
LEMMA TransitionRefines ==
  ASSUME IInv, LocksOK, NEW s \in Session, CommitTransition(s)
  PROVE  Next
<1>a. PICK t, w : t = session[s].row /\ w = session[s]
  OBVIOUS
<1>0. /\ s \in Active /\ w \in Work /\ WorkOK(s) /\ StableFor(s)
      /\ w.kind = "transition" /\ w.was # "ABSENT" /\ w.todo = <<>>
  BY <1>a DEF CommitTransition, LocksOK, Active, Idle
<1>1. /\ t \in Transaction /\ w.to \in Status /\ status[t] = w.was /\ Exists(t)
      /\ ~IsLateAcknowledgment(t, w.to)
      /\ Settles(s) <=> IsSettlement(t, w.to)
      /\ Reverses(s) <=> IsReversal(t, w.to)
      /\ refunded[t] \in Nat /\ amount[t] \in Nat
  BY <1>a, <1>0, Shapes
     DEF WorkOK, StableFor, CommitTransition, IsLate, Settles, Reverses, IsLateAcknowledgment,
         IsSettlement, IsReversal
<1>2. UNCHANGED <<attributes, overdue, inserting, late>>
  BY DEF CommitTransition
<1>3. CASE Settles(s) /\ t \in Refund
  <2>0. PICK p, back, new :
          /\ p = parent[t] /\ back = Cumulated(p, t)
          /\ new = [x \in {t, p} |-> IF x = t THEN NewRow(s) ELSE NewParent(s)]
    OBVIOUS
  <2>1. p \in Payment /\ p \in Transaction /\ p # t
    BY <1>1, <1>3, <2>0, Shapes
  <2>2. NewRow(s) = [status |-> "SUCCEEDED", refunded |-> refunded[t], times |-> 1]
    BY <1>a, <1>3 DEF NewRow, Reverses, Settles
  <2>3. NewParent(s) = [status |-> ParentStatus(p, back), refunded |-> back, times |-> 1]
    BY <1>a, <1>0, <1>3, <2>0 DEF NewParent, StableFor, Cumulated
  <2>4. /\ UpdateRows(new) /\ back <= amount[p]
        /\ Postable(t, ReturnEntry(amount[t])) /\ Book(t, p, ReturnEntry(amount[t]))
    BY <1>a, <1>3, <2>0, <2>3 DEF CommitTransition
  <2>5. DOMAIN new = {t, p} /\ new[t] = NewRow(s) /\ new[p] = NewParent(s)
    BY <2>0, <2>1
  <2>6. /\ UpdateAllowed(status[t], refunded[t], "SUCCEEDED", refunded[t])
        /\ RowCheck(t \in Payment, "SUCCEEDED", amount[t], refunded[t])
        /\ version[t] + 1 <= MaxVersion
        /\ UpdateAllowed(status[p], refunded[p], ParentStatus(p, back), back)
        /\ RowCheck(p \in Payment, ParentStatus(p, back), amount[p], back)
        /\ version[p] + 1 <= MaxVersion
        /\ status' = [status EXCEPT ![t] = "SUCCEEDED", ![p] = ParentStatus(p, back)]
        /\ refunded' = [refunded EXCEPT ![t] = refunded[t], ![p] = back]
        /\ version' = [version EXCEPT ![t] = @ + 1, ![p] = @ + 1]
        /\ history' = [history EXCEPT ![t] = Recorded(@, status[t], "SUCCEEDED"),
                                      ![p] = Recorded(@, status[p], ParentStatus(p, back))]
    <3>1. /\ new[t].status = "SUCCEEDED" /\ new[t].refunded = refunded[t] /\ new[t].times = 1
          /\ new[p].status = ParentStatus(p, back) /\ new[p].refunded = back /\ new[p].times = 1
      BY <2>2, <2>3, <2>5
    <3>2. /\ UpdateAllowed(status[t], refunded[t], new[t].status, new[t].refunded)
          /\ RowCheck(t \in Payment, new[t].status, amount[t], new[t].refunded)
          /\ version[t] + new[t].times <= MaxVersion
          /\ UpdateAllowed(status[p], refunded[p], new[p].status, new[p].refunded)
          /\ RowCheck(p \in Payment, new[p].status, amount[p], new[p].refunded)
          /\ version[p] + new[p].times <= MaxVersion
          /\ status' = [status EXCEPT ![t] = new[t].status, ![p] = new[p].status]
          /\ refunded' = [refunded EXCEPT ![t] = new[t].refunded, ![p] = new[p].refunded]
          /\ version' = [version EXCEPT ![t] = @ + new[t].times, ![p] = @ + new[p].times]
          /\ history' = [history EXCEPT ![t] = Recorded(@, status[t], new[t].status),
                                        ![p] = Recorded(@, status[p], new[p].status)]
      <4>1. t # p /\ DOMAIN new = {t, p} /\ UpdateRows(new)
        BY <2>1, <2>4, <2>5
      <4> QED
        BY <1>1, <2>1, <4>1, TwoRowsWritten
    <3> QED
      BY <3>1, <3>2
  <2>7. refunded' = [refunded EXCEPT ![p] = back]
    BY <1>1, <2>1, <2>6, Shapes
  <2>8. UpdateOK(t, "SUCCEEDED", refunded[t]) /\ UpdateOK(p, ParentStatus(p, back), back)
    BY <1>1, <2>1, <2>6, Room DEF UpdateOK
  <2>9. IsSettlement(t, "SUCCEEDED")
    BY <1>1, <1>3 DEF IsSettlement
  <2>10. SettleRefund(t)
    BY <1>2, <2>0, <2>4, <2>6, <2>7, <2>8, <2>9 DEF SettleRefund, NextVersion
  <2> QED
    BY <1>3, <2>10 DEF Next
<1>4. CASE ~(Settles(s) /\ t \in Refund)
  <2>0. PICK new : new = [x \in {t, t} |-> IF x = t THEN NewRow(s) ELSE NewParent(s)]
    OBVIOUS
  <2>1. UpdateRows(new) /\ DOMAIN new = {t} /\ new[t] = NewRow(s)
    BY <1>a, <1>4, <2>0 DEF CommitTransition
  <2>2. CASE Reverses(s)
    <3>1. t \in Payment
      BY <1>1, <2>2, Shapes DEF IsReversal, IInv, RowsPassChecks, RowCheck, Unrefunded
    <3>2. NewRow(s) = [status |-> "REVERSED", refunded |-> amount[t], times |-> 2]
      BY <1>a, <2>2 DEF NewRow
    <3>3. ~Settles(s)
      BY <2>2 DEF Settles, Reverses
    <3>4. /\ amount[t] - refunded[t] > 0
          /\ Postable(t, ReturnEntry(amount[t] - refunded[t]))
          /\ Book(t, t, ReturnEntry(amount[t] - refunded[t]))
      BY <1>a, <2>2, <3>3 DEF CommitTransition
    <3>5. /\ UpdateAllowed(status[t], refunded[t], "REVERSED", amount[t])
          /\ RowCheck(t \in Payment, "REVERSED", amount[t], amount[t])
          /\ version[t] + 2 <= MaxVersion
          /\ status' = [status EXCEPT ![t] = "REVERSED"]
          /\ refunded' = [refunded EXCEPT ![t] = amount[t]]
          /\ version' = [version EXCEPT ![t] = @ + 2]
          /\ history' = [history EXCEPT ![t] = Recorded(@, status[t], "REVERSED")]
      <4>1. new[t].status = "REVERSED" /\ new[t].refunded = amount[t] /\ new[t].times = 2
        BY <2>1, <3>2
      <4>2. /\ UpdateAllowed(status[t], refunded[t], new[t].status, new[t].refunded)
            /\ RowCheck(t \in Payment, new[t].status, amount[t], new[t].refunded)
            /\ version[t] + new[t].times <= MaxVersion
            /\ status' = [status EXCEPT ![t] = new[t].status]
            /\ refunded' = [refunded EXCEPT ![t] = new[t].refunded]
            /\ version' = [version EXCEPT ![t] = @ + new[t].times]
            /\ history' = [history EXCEPT ![t] = Recorded(@, status[t], new[t].status)]
        BY <1>1, <2>1, OneRowWritten
      <4> QED
        BY <4>1, <4>2
    <3>6. /\ UpdateOK(t, "REVERSED", refunded[t])
          /\ UpdateAllowed("REVERSED", refunded[t], "REVERSED", amount[t])
      BY <1>1, <3>1, <3>4, <3>5, Room DEF UpdateOK, UpdateAllowed, RowCheck, Unrefunded
    <3>7. version[t] + 1 < MaxVersion /\ IsReversal(t, "REVERSED")
      BY <1>1, <2>2, <3>5, Room DEF IsReversal
    <3>8. ReverseDispute(t)
      BY <1>2, <3>4, <3>5, <3>6, <3>7 DEF ReverseDispute
    <3> QED
      BY <3>1, <3>8 DEF Next
  <2>3. CASE ~Reverses(s)
    <3>1. NewRow(s) = [status |-> w.to, refunded |-> refunded[t], times |-> 1]
      BY <1>a, <2>3 DEF NewRow
    <3>2. /\ UpdateAllowed(status[t], refunded[t], w.to, refunded[t])
          /\ RowCheck(t \in Payment, w.to, amount[t], refunded[t])
          /\ version[t] + 1 <= MaxVersion
          /\ status' = [status EXCEPT ![t] = w.to]
          /\ refunded' = [refunded EXCEPT ![t] = refunded[t]]
          /\ version' = [version EXCEPT ![t] = @ + 1]
          /\ history' = [history EXCEPT ![t] = Recorded(@, status[t], w.to)]
      <4>1. new[t].status = w.to /\ new[t].refunded = refunded[t] /\ new[t].times = 1
        BY <2>1, <3>1
      <4> QED
        BY <1>1, <2>1, <4>1, OneRowWritten
    <3>3. UNCHANGED refunded /\ UpdateOK(t, w.to, refunded[t])
      BY <1>1, <3>2, Room, Shapes DEF UpdateOK
    <3>4. CASE Settles(s)
      <4>1. t \in Payment /\ w.to = "SUCCEEDED" /\ IsSettlement(t, "SUCCEEDED")
        BY <1>1, <1>4, <3>4, Shapes DEF IsSettlement
      <4>2. Postable(t, PaymentEntry(amount[t])) /\ Book(t, t, PaymentEntry(amount[t]))
        BY <1>a, <1>4, <3>4 DEF CommitTransition
      <4>3. SettlePayment(t)
        BY <1>2, <3>2, <3>3, <4>1, <4>2 DEF SettlePayment, NextVersion
      <4> QED
        BY <4>1, <4>3 DEF Next
    <3>5. CASE ~Settles(s)
      <4>1. UNCHANGED books
        BY <1>a, <2>3, <3>5 DEF CommitTransition
      <4>2. ChangeStatus(t, w.to)
        BY <1>1, <1>2, <2>3, <3>2, <3>3, <3>5, <4>1 DEF ChangeStatus, NextVersion, Exists
      <4> QED
        BY <1>1, <4>2 DEF Next
    <3> QED
      BY <3>4, <3>5
  <2> QED
    BY <2>2, <2>3
<1> QED
  BY <1>3, <1>4

\* COMMIT of the job: its batch is still PENDING and overdue.
LEMMA SweepRefines ==
  ASSUME IInv, LocksOK, NEW s \in Session, CommitSweep(s)
  PROVE  Next
<1>0. PICK batch, new :
        /\ batch = session[s].batch
        /\ new = [t \in batch |-> [status |-> "EXPIRED", refunded |-> refunded[t], times |-> 1]]
  OBVIOUS
<1>1. /\ s \in Active /\ session[s] \in Work /\ WorkOK(s) /\ StableFor(s)
      /\ session[s].kind = "sweep" /\ batch # {}
  BY <1>0 DEF CommitSweep, LocksOK, Active, Idle
<1>2. /\ batch \subseteq Transaction /\ Cardinality(batch) <= BatchSize
      /\ \A t \in batch : Expirable(t)
  BY <1>0, <1>1 DEF Work, WorkOK, StableFor
<1>3. /\ UpdateRows(new) /\ DOMAIN new = batch
      /\ \A t \in batch : new[t].status = "EXPIRED" /\ new[t].refunded = refunded[t] /\ new[t].times = 1
      /\ UNCHANGED <<attributes, overdue, inserting, books, late>>
  BY <1>0 DEF CommitSweep
<1>4. ASSUME NEW t \in batch PROVE UpdateOK(t, "EXPIRED", refunded[t])
  <2>1. /\ UpdateAllowed(status[t], refunded[t], "EXPIRED", refunded[t])
        /\ RowCheck(t \in Payment, "EXPIRED", amount[t], refunded[t])
        /\ version[t] + 1 <= MaxVersion
    BY <1>3, <1>4 DEF UpdateRows
  <2> QED
    BY <1>2, <1>4, <2>1, Room DEF UpdateOK
<1>5. UNCHANGED refunded
  <2>1. refunded' = [t \in Transaction |-> refunded[t]]
    BY <1>3 DEF UpdateRows
  <2> QED
    BY <2>1, Shapes
<1>6. /\ status' = [t \in Transaction |-> IF t \in batch THEN "EXPIRED" ELSE status[t]]
      /\ version' = [t \in Transaction |->
                       IF t \in batch THEN NextVersion(status[t], "EXPIRED", version[t]) ELSE version[t]]
      /\ history' = [t \in Transaction |->
                       IF t \in batch THEN Recorded(history[t], status[t], "EXPIRED") ELSE history[t]]
  BY <1>3 DEF UpdateRows, NextVersion
<1>7. ExpireBatch(batch)
  BY <1>1, <1>2, <1>3, <1>4, <1>5, <1>6 DEF ExpireBatch
<1> QED
  BY <1>2, <1>7 DEF Next

\* Every statement is silent in Ledger, every COMMIT is one of its steps.
LEMMA SessionRefines ==
  ASSUME IInv, LocksOK, NEW s \in Session, SessionStep(s)
  PROVE  [Next]_vars
<1>0. session[s] # Idle => s \in Active /\ session[s] \in Work /\ WorkOK(s) /\ StableFor(s)
  BY DEF LocksOK, Active
<1>1. CASE Rollback(s)
  <2>1. ASSUME AbortRefund(session[s].row) PROVE Next
    <3>1. session[s].row \in Refund
      BY <2>1, Shapes DEF AbortRefund
    <3> QED
      BY <2>1, <3>1 DEF Next
  <2> QED
    BY <1>1, <2>1 DEF Rollback
<1>2. ASSUME NEW r \in Refund, NEW k \in Key, NEW p \in Payment, NEW a \in Amount,
             BeginRefund(s, r, k, p, a)
      PROVE  Next
  BY <1>2 DEF BeginRefund, Next
<1>3. CASE CommitInsert(s)
  <2>1. CASE CommitRefund(session[s].row)
    <3>1. session[s].row \in Refund
      BY <2>1, Shapes DEF CommitRefund
    <3> QED
      BY <2>1, <3>1 DEF Next
  <2>2. CASE /\ session[s].kind = "payment"
             /\ \E a \in Amount, c \in Currency : CreatePayment(session[s].row, a, c)
    <3>1. session[s].row \in Payment
      BY <1>0, <2>2 DEF WorkOK, Idle
    <3> QED
      BY <2>2, <3>1 DEF Next
  <2> QED
    BY <1>3, <2>1, <2>2 DEF CommitInsert
<1>4. CASE CommitLate(s)
  <2>1. PICK t : t = session[s].row
    OBVIOUS
  <2>2. t \in Transaction /\ status[t] = "EXPIRED"
    BY <1>0, <1>4, <2>1 DEF CommitLate, IsLate, WorkOK, StableFor, Idle
  <2>3. LateAcknowledgment(t)
    BY <1>4, <2>1, <2>2 DEF CommitLate, LateAcknowledgment, IsLateAcknowledgment
  <2> QED
    BY <2>2, <2>3 DEF Next
<1>5. CASE UNCHANGED vars
  BY <1>5
<1> QED
  BY <1>1, <1>2, <1>3, <1>4, <1>5, TransitionRefines, SweepRefines
     DEF SessionStep, BeginPayment, TakeKey, TakeParent, BeginTransition, LockRow, LockParent,
         BeginSweep, SelectBatch

---------------------------------------------------------------------------
(* What the others have read stays so. *)

\* A row that is committed stays, with the parent it has.
LEMMA CommittedStays ==
  ASSUME IInv, [Next]_vars, NEW t \in Transaction, Exists(t)
  PROVE  Exists(t)' /\ (t \in Refund => parent'[t] = parent[t])
<1>1. Exists(t)'
  <2>1. CASE Next
    <3>1. RowStep(t)
      BY <2>1, RowSteps
    <3> QED
      BY <3>1 DEF RowStep, Exists, StatusTransitions
  <2>2. CASE UNCHANGED vars
    BY <2>2 DEF vars, row, Exists
  <2> QED
    BY <2>1, <2>2
<1>2. ASSUME t \in Refund PROVE parent'[t] = parent[t]
  <2>1. CASE UNCHANGED parent
    BY <2>1
  <2>2. ASSUME NEW r \in Refund, NEW p \in Payment, NEW a \in Amount, CheckRefund(r, p, a)
        PROVE  parent'[t] = parent[t]
    BY <1>2, <2>2, Shapes DEF CheckRefund, Exists
  <2>3. ASSUME NEW r \in Refund, AbortRefund(r)
        PROVE  parent'[t] = parent[t]
    <3>1. ~Exists(r)
      BY <2>3 DEF AbortRefund, IInv, InsertingIsInvisible
    <3> QED
      BY <1>2, <2>3, <3>1, Shapes DEF AbortRefund
  <2> QED
    BY <2>1, <2>2, <2>3
       DEF Next, CreatePayment, CommitRefund, ChangeStatus, LateAcknowledgment, SettlePayment,
           SettleRefund, ReverseDispute, DeadlinePasses, ExpireBatch, attributes, vars
<1> QED
  BY <1>1, <1>2

SameRow(t) == status'[t] = status[t] /\ version'[t] = version[t] /\ refunded'[t] = refunded[t]

\* A SQL transaction changes the committed rows it has locked, and no other.
LEMMA ChangesWhatItHolds ==
  ASSUME IInv, LocksOK, NEW s \in Session, SessionStep(s),
         NEW t \in Transaction, Exists(t), session[s] = Idle \/ ~Holds(s, t)
  PROVE  SameRow(t)
<1>0. session[s] # Idle => s \in Active /\ session[s] \in Work /\ WorkOK(s) /\ StableFor(s)
  BY DEF LocksOK, Active
<1>1. CASE UNCHANGED row
  BY <1>1 DEF row, SameRow
<1>2. ASSUME NEW new, UpdateRows(new), t \notin DOMAIN new
      PROVE  SameRow(t)
  BY <1>2 DEF UpdateRows, SameRow
<1>3. CASE CommitInsert(s)
  <2>1. ASSUME NEW u, InsertRow(u), u # t
        PROVE  SameRow(t)
    BY <2>1, Shapes DEF InsertRow, SameRow
  <2>2. CASE CommitRefund(session[s].row)
    <3>1. session[s].row # t
      BY <2>2 DEF CommitRefund, IInv, InsertingIsInvisible
    <3> QED
      BY <2>1, <2>2, <3>1 DEF CommitRefund
  <2>3. ASSUME NEW a, NEW c, CreatePayment(session[s].row, a, c)
        PROVE  SameRow(t)
    <3>1. session[s].row # t
      BY <2>3 DEF CreatePayment, Exists
    <3> QED
      BY <2>1, <2>3, <3>1 DEF CreatePayment
  <2> QED
    BY <1>3, <2>2, <2>3 DEF CommitInsert
<1>4. CASE CommitTransition(s)
  <2>0. PICK u, p, new :
          /\ u = session[s].row /\ p = IF Settles(s) /\ u \in Refund THEN parent[u] ELSE u
          /\ new = [x \in {u, p} |-> IF x = u THEN NewRow(s) ELSE NewParent(s)]
    OBVIOUS
  <2>1. UpdateRows(new)
    BY <1>4, <2>0 DEF CommitTransition
  <2>2. session[s] # Idle /\ Holds(s, u) /\ Holds(s, p)
    BY <1>0, <1>4, <2>0 DEF CommitTransition, WorkOK, Idle
  <2> QED
    BY <1>2, <2>0, <2>1, <2>2
<1>5. CASE CommitSweep(s)
  <2>0. PICK new : new = [x \in session[s].batch |->
                   [status |-> "EXPIRED", refunded |-> refunded[x], times |-> 1]]
    OBVIOUS
  <2>1. UpdateRows(new)
    BY <1>5, <2>0 DEF CommitSweep
  <2>2. t \notin session[s].batch
    BY <1>0, <1>5 DEF CommitSweep, WorkOK, Idle
  <2> QED
    BY <1>2, <2>0, <2>1, <2>2
<1> QED
  BY <1>1, <1>3, <1>4, <1>5
     DEF SessionStep, Rollback, AbortRefund, BeginPayment, BeginRefund, CheckRefund, TakeKey,
         TakeParent, BeginTransition, LockRow, LockParent, CommitLate, BeginSweep, SelectBatch, vars

\* What a step of s leaves to another SQL transaction.
SameWork(o) ==
  /\ session'[o] = Idle <=> session[o] = Idle
  /\ session[o] # Idle =>
       /\ session'[o] \in Work
       /\ session'[o].kind = session[o].kind /\ session'[o].row = session[o].row
       /\ session'[o].to = session[o].to /\ session'[o].todo = session[o].todo
       /\ session'[o].holds = session[o].holds /\ session'[o].seen = session[o].seen
       /\ session'[o].was = session[o].was /\ session'[o].back = session[o].back
       /\ session'[o].batch = session[o].batch

\* Such a step adds to what the others are overtaken by, at most.
LEMMA OthersGoOn ==
  ASSUME LocksOK, NEW s \in Session, SessionStep(s), NEW o \in Session, o # s
  PROVE  SameWork(o)
<1>0. session \in [Session -> {Idle} \cup Work]
  BY DEF LocksOK
<1>1. CASE session'[o] = session[o]
  BY <1>0, <1>1 DEF SameWork
<1>2. CASE End(s)
  <2>1. PICK changed \in SUBSET Transaction :
          session'[o] = session[o] \/ session'[o] = [session[o] EXCEPT !.overtaken = @ \cup changed]
    <3>1. {t \in Transaction : history'[t] # history[t]} \in SUBSET Transaction
      OBVIOUS
    <3> QED
      BY <1>2, <3>1 DEF End
  <2>2. CASE session[o] = Idle
    BY <1>0, <1>1, <2>1, <2>2, IdleStaysIdle DEF SameWork
  <2>3. CASE session[o] \in Work /\ session'[o] # session[o]
    <3>1. session'[o] \in Work /\ session'[o].kind # Idle.kind /\ session[o].kind # Idle.kind
      BY <2>1, <2>3 DEF Work, Idle
    <3> QED
      BY <2>1, <2>3, <3>1 DEF SameWork, Work
  <2> QED
    BY <1>0, <1>1, <2>2, <2>3
<1> QED
  BY <1>0, <1>1, <1>2
     DEF SessionStep, Rollback, CommitInsert, CommitTransition, CommitLate, CommitSweep, BeginPayment,
         BeginRefund, TakeKey, TakeParent, BeginTransition, LockRow, LockParent, BeginSweep,
         SelectBatch, Start

\* The committed rows locked by another one do not change.
LEMMA LockedStays ==
  ASSUME IInv, LocksOK, NEW s \in Session, SessionStep(s), NEW o \in Active, o # s,
         NEW t \in Transaction, Exists(t), Holds(o, t)
  PROVE  SameRow(t)
<1>1. session[s] = Idle \/ ~Holds(s, t)
  <2>1. CASE s \in Active
    <3>1. Compatible(s, o)
      BY <2>1 DEF LocksOK
    <3> QED
      BY <3>1 DEF Compatible, Conflict, Holds
  <2> QED
    BY <2>1 DEF Active
<1> QED
  BY <1>1, ChangesWhatItHolds

\* So what another one works on, and what it has read, stays in order.
LEMMA OthersKeepWhatTheyRead ==
  ASSUME IInv, LocksOK, NEW s \in Session, SessionStep(s), NEW o \in Active, o # s
  PROVE  WorkOK(o)' /\ StableFor(o)'
<1>0. /\ o \in Session /\ session[o] # Idle /\ session[o] \in Work
      /\ SameWork(o) /\ WorkOK(o) /\ StableFor(o) /\ [Next]_vars
  BY OthersGoOn, SessionRefines DEF Active, LocksOK
<1>1. PICK t : t = session[o].row
  OBVIOUS
<1>2. /\ session'[o].kind = session[o].kind /\ session'[o].row = t
      /\ session'[o].to = session[o].to /\ session'[o].todo = session[o].todo
      /\ session'[o].seen = session[o].seen
      /\ session'[o].was = session[o].was /\ session'[o].back = session[o].back
      /\ session'[o].batch = session[o].batch
      /\ (Settles(o)' <=> Settles(o))
      /\ \A x : Holds(o, x)' <=> Holds(o, x)
  BY <1>0, <1>1 DEF SameWork, Settles, Holds
<1>3. CASE session[o].kind = "transition"
  <2>1. t \in Transaction /\ Exists(t) /\ session[o].to \in Status
    BY <1>0, <1>1, <1>3 DEF WorkOK
  <2>2. Exists(t)' /\ (t \in Refund => parent'[t] = parent[t])
    BY <1>0, <2>1, CommittedStays
  <2>3. CASE session[o].was = "ABSENT"
    BY <1>2, <1>3, <2>1, <2>2, <2>3 DEF WorkOK, StableFor
  <2>4. CASE session[o].was # "ABSENT"
    <3>1. /\ Holds(o, t)
          /\ session[o].todo # <<>> => t \in Refund
          /\ session[o].todo = <<>> /\ Settles(o) /\ t \in Refund => Holds(o, parent[t])
          /\ session[o].was = status[t] /\ session[o].seen = version[t]
          /\ session[o].todo = <<>> /\ Settles(o) /\ t \in Refund =>
               session[o].back = refunded[parent[t]]
      BY <1>0, <1>1, <1>3, <2>4 DEF WorkOK, StableFor
    <3>2. SameRow(t)
      BY <2>1, <3>1, LockedStays
    <3>3. ASSUME session[o].todo = <<>>, Settles(o), t \in Refund
          PROVE  refunded'[parent[t]] = refunded[parent[t]]
      <4>1. parent[t] \in Transaction /\ Exists(parent[t]) /\ Holds(o, parent[t])
        BY <2>1, <3>1, <3>3, Shapes
      <4> QED
        BY <4>1, LockedStays DEF SameRow
    <3>4. WorkOK(o)'
      BY <1>2, <1>3, <2>1, <2>2, <3>1 DEF WorkOK
    <3>5. StableFor(o)'
      BY <1>2, <1>3, <2>2, <3>1, <3>2, <3>3 DEF StableFor, SameRow
    <3> QED
      BY <3>4, <3>5
  <2> QED
    BY <2>3, <2>4
<1>4. CASE session[o].kind = "sweep"
  <2>1. overdue' = overdue
    BY DEF SessionStep, Rollback, AbortRefund, CommitInsert, CommitRefund, CreatePayment,
         CommitTransition, CommitLate, CommitSweep, BeginPayment, BeginRefund, CheckRefund, TakeKey,
         TakeParent, BeginTransition, LockRow, LockParent, BeginSweep, SelectBatch, vars
  <2>2. ASSUME NEW x \in session[o].batch PROVE Expirable(x)'
    <3>1. x \in Transaction /\ Holds(o, x) /\ Expirable(x) /\ Exists(x)
      BY <1>0, <1>4, <2>2, Shapes DEF WorkOK, StableFor, Expirable, Exists
    <3> QED
      BY <2>1, <3>1, LockedStays DEF SameRow, Expirable
  <2> QED
    BY <1>0, <1>2, <1>4, <2>2 DEF WorkOK, StableFor
<1>5. CASE session[o].kind \in {"payment", "refund"}
  BY <1>0, <1>1, <1>2, <1>5 DEF WorkOK, StableFor
<1> QED
  BY <1>0, <1>3, <1>4, <1>5 DEF Work

---------------------------------------------------------------------------
(* What a SQL transaction knows of its own rows. *)

\* What is true of s after its own step, if it goes on.
OwnOK(s) ==
  /\ session'[s] \in Work
  /\ WorkOK(s)' /\ StableFor(s)'
  /\ \A o \in Active \ {s} : \A h \in session'[s].holds, g \in session[o].holds :
       h[1] = g[1] => ~Conflict(h[2], g[2])

\* A lock that nobody blocks is compatible with all the others.
LEMMA Granted ==
  ASSUME NEW s, NEW lock, Blockers(s, lock) = {}, NEW o \in Active \ {s}, NEW g \in session[o].holds,
         lock[1] = g[1]
  PROVE  ~Conflict(lock[2], g[2])
BY DEF Blockers, Conflict

\* It begins without a lock.
LEMMA BeginOK ==
  ASSUME IInv, LocksOK, NEW s \in Session, NEW what \in Work, Start(s, what), what.holds = {},
         what.kind = "payment" => what.row \in Payment,
         what.kind = "transition" => /\ what.row \in Transaction /\ Exists(what.row)'
                                     /\ what.to \in Status /\ what.was = "ABSENT",
         what.kind = "sweep" => what.batch = {}
  PROVE  OwnOK(s)
<1>1. session'[s] = what
  BY DEF Start, LocksOK
<1> QED
  BY <1>1 DEF OwnOK, WorkOK, StableFor

\* It takes one more lock of an INSERT.
LEMMA TakeOK ==
  ASSUME IInv, LocksOK, NEW s \in Session, session[s] \in Work,
         session[s].kind \in {"payment", "refund"}, session[s].todo # <<>>,
         NEW lock \in Lock, Blockers(s, lock) = {},
         session' = [session EXCEPT ![s].todo = Tail(@), ![s].holds = @ \cup {lock}]
  PROVE  OwnOK(s)
<1>1. s \in Active /\ session \in [Session -> {Idle} \cup Work] /\ WorkOK(s)
  BY DEF LocksOK, Active, Idle
<1>2. session'[s] = [session[s] EXCEPT !.todo = Tail(@), !.holds = @ \cup {lock}]
  BY <1>1
<1>3. session[s].todo \in Seq(Lock) /\ Tail(session[s].todo) \in Seq(Lock)
  BY DEF Work
<1>4. /\ session'[s] \in Work /\ session'[s].kind = session[s].kind /\ session'[s].row = session[s].row
      /\ session'[s].holds = session[s].holds \cup {lock}
  <2>1. PICK w \in Work, rest \in Seq(Lock), held \in SUBSET Lock :
          w = session[s] /\ rest = Tail(w.todo) /\ held = w.holds \cup {lock}
    <3>1. session[s].holds \cup {lock} \in SUBSET Lock
      BY DEF Work
    <3> QED
      BY <1>3, <3>1
  <2> DEFINE v == [w EXCEPT !.todo = rest, !.holds = held]
  <2>2. session'[s] = v
    BY <1>2, <2>1
  <2>3. v \in Work /\ v.kind = w.kind /\ v.row = w.row /\ v.holds = held
    BY ONLY <2>1 DEF Work
  <2> HIDE DEF v
  <2> QED
    BY <2>1, <2>2, <2>3
<1>5. \A o \in Active \ {s} : \A h \in session'[s].holds, g \in session[o].holds :
        h[1] = g[1] => ~Conflict(h[2], g[2])
  BY <1>1, <1>4, Granted DEF LocksOK, Compatible
<1> QED
  BY <1>1, <1>4, <1>5 DEF OwnOK, WorkOK, StableFor

\* It locks the row it was asked to change, and reads it.
LEMMA LockRowOK ==
  ASSUME IInv, LocksOK, NEW s \in Session, LockRow(s)
  PROVE  OwnOK(s)
<1>0. PICK t : t = session[s].row
  OBVIOUS
<1>1. /\ s \in Active /\ session[s] \in Work /\ WorkOK(s) /\ session[s].kind = "transition"
      /\ session \in [Session -> {Idle} \cup Work]
  BY DEF LockRow, LocksOK, Active, Idle
<1>2. t \in Transaction /\ Exists(t) /\ session[s].to \in Status
  BY <1>0, <1>1 DEF WorkOK
<1>3. UNCHANGED <<status, version, refunded, parent>>
  BY DEF LockRow, vars, row, attributes
<1>4. PICK todo, back :
        /\ todo = IF t \in Refund /\ status[t] = "PENDING" /\ session[s].to = "SUCCEEDED"
                  THEN ParentLock(parent[t]) ELSE <<>>
        /\ back = IF t \in Refund THEN refunded[parent[t]] ELSE 0
  OBVIOUS
<1>5. todo \in Seq(Lock) /\ (todo = <<>> \/ todo = << <<parent[t], "update">> >>)
      /\ back \in Int
  <2>1. t \in Refund => parent[t] \in Transaction /\ refunded[parent[t]] \in Int
    BY <1>2, Shapes
  <2>2. t \in Refund => <<parent[t], "update">> \in Lock
    BY <2>1 DEF Lock
  <2>3. t \in Refund => << <<parent[t], "update">> >> \in Seq(Lock)
    BY <2>2
  <2> QED
    BY <1>4, <2>1, <2>3 DEF ParentLock
<1>6. session'[s] = [session[s] EXCEPT !.was = status[t], !.holds = { <<t, "update">> },
                                       !.todo = todo, !.back = back]
  BY <1>0, <1>1, <1>4 DEF LockRow
<1>7. /\ session'[s] \in Work /\ session'[s].kind = "transition" /\ session'[s].row = t
      /\ session'[s].to = session[s].to /\ session'[s].was = status[t]
      /\ session'[s].holds = { <<t, "update">> } /\ session'[s].todo = todo
      /\ session'[s].seen = session[s].seen /\ status[t] \in Status /\ session'[s].back = back
  <2>1. status[t] \in Status /\ { <<t, "update">> } \in SUBSET Lock
    BY <1>2, Shapes DEF Exists, Lock
  <2> QED
    BY <1>0, <1>1, <1>5, <1>6, <2>1 DEF Work
<1>8. session[s].seen = version[t] /\ Blockers(s, <<t, "update">>) = {}
  BY <1>0 DEF LockRow
<1>9. todo = <<>> => ~(Settles(s)' /\ t \in Refund)
  <2>1. << <<parent[t], "update">> >> # <<>>
    OBVIOUS
  <2> QED
    BY <1>4, <1>7, <2>1 DEF Settles, ParentLock
<1>10. todo # <<>> => t \in Refund
  BY <1>4
<1>11. WorkOK(s)'
  BY <1>2, <1>3, <1>7, <1>9, <1>10 DEF WorkOK, Holds, Exists
<1>12. StableFor(s)'
  BY <1>3, <1>7, <1>8, <1>9 DEF StableFor
<1>13. \A o \in Active \ {s} : \A h \in session'[s].holds, g \in session[o].holds :
        h[1] = g[1] => ~Conflict(h[2], g[2])
  BY <1>7, <1>8, Granted
<1> QED
  BY <1>7, <1>11, <1>12, <1>13 DEF OwnOK

\* A refund locks its parent as well, and reads its refunded amount again.
LEMMA LockParentOK ==
  ASSUME IInv, LocksOK, NEW s \in Session, LockParent(s)
  PROVE  OwnOK(s)
<1>0. PICK t, p : t = session[s].row /\ p = parent[t]
  OBVIOUS
<1>1. /\ s \in Active /\ session[s] \in Work /\ WorkOK(s) /\ StableFor(s)
      /\ session[s].kind = "transition"
      /\ session[s].was # "ABSENT" /\ session \in [Session -> {Idle} \cup Work]
  BY DEF LockParent, LocksOK, Active, Idle
<1>2. /\ t \in Refund /\ t \in Transaction /\ Exists(t) /\ session[s].to \in Status
      /\ Holds(s, t) /\ p \in Transaction /\ refunded[p] \in Int
  <2>1. t \in Refund /\ t \in Transaction /\ Exists(t) /\ session[s].to \in Status /\ Holds(s, t)
    BY <1>0, <1>1 DEF WorkOK, LockParent
  <2> QED
    BY <1>0, <2>1, Shapes
<1>3. UNCHANGED <<status, version, refunded, parent>>
  BY DEF LockParent, vars, row, attributes
<1>4. session'[s] = [session[s] EXCEPT !.todo = <<>>, !.back = refunded[p],
                                       !.holds = @ \cup { <<p, "update">> }]
  BY <1>0, <1>1 DEF LockParent
<1>5. /\ session'[s] \in Work /\ session'[s].kind = "transition" /\ session'[s].row = t
      /\ session'[s].to = session[s].to /\ session'[s].was = session[s].was
      /\ session'[s].holds = session[s].holds \cup { <<p, "update">> } /\ session'[s].todo = <<>>
      /\ session'[s].seen = session[s].seen /\ session'[s].back = refunded[p]
  <2>0. <<p, "update">> \in Lock /\ <<>> \in Seq(Lock)
    BY <1>2 DEF Lock
  <2>1. session[s].holds \cup { <<p, "update">> } \in SUBSET Lock /\ <<>> \in Seq(Lock)
    BY <1>1, <2>0 DEF Work
  <2> QED
    BY <1>0, <1>1, <1>2, <1>4, <2>1 DEF Work
<1>6. Blockers(s, <<p, "update">>) = {}
  BY <1>0 DEF LockParent
<1>7. WorkOK(s)'
  BY <1>0, <1>2, <1>3, <1>5 DEF WorkOK, Holds, Exists
<1>8. session[s].was = status[t] /\ session[s].seen = version[t]
  BY <1>0, <1>1 DEF StableFor
<1>9. StableFor(s)'
  BY <1>0, <1>3, <1>5, <1>8 DEF StableFor
<1>10. \A o \in Active \ {s} : \A h \in session'[s].holds, g \in session[o].holds :
        h[1] = g[1] => ~Conflict(h[2], g[2])
  BY <1>1, <1>5, <1>6, Granted DEF LocksOK, Compatible
<1> QED
  BY <1>5, <1>7, <1>9, <1>10 DEF OwnOK

\* The job takes the rows nobody has locked.
LEMMA SelectBatchOK ==
  ASSUME IInv, LocksOK, NEW s \in Session, NEW batch \in SUBSET Transaction, SelectBatch(s, batch)
  PROVE  OwnOK(s)
<1>1. /\ s \in Active /\ session[s] \in Work /\ session[s].kind = "sweep"
      /\ session \in [Session -> {Idle} \cup Work]
  BY DEF SelectBatch, LocksOK, Active, Idle
<1>2. /\ \A t \in batch : Expirable(t) /\ Blockers(s, <<t, "update">>) = {}
      /\ Cardinality(batch) <= BatchSize
      /\ UNCHANGED <<status, overdue>>
  <2>1. PICK found : found = {t \in Transaction : Expirable(t) /\ Unlocked(s, t)}
    OBVIOUS
  <2>2. /\ batch \subseteq found
        /\ IF Cardinality(found) <= BatchSize THEN batch = found ELSE Cardinality(batch) = BatchSize
        /\ UNCHANGED vars
    BY <2>1 DEF SelectBatch
  <2>3. Cardinality(batch) <= BatchSize
    BY <2>2, LedgerAssumption
  <2> QED
    BY <2>1, <2>2, <2>3 DEF Unlocked, vars, row
<1>3. session'[s] = [session[s] EXCEPT !.batch = batch, !.holds = {<<t, "update">> : t \in batch}]
  BY <1>1 DEF SelectBatch
<1>4. /\ session'[s] \in Work /\ session'[s].kind = "sweep" /\ session'[s].batch = batch
      /\ session'[s].holds = {<<t, "update">> : t \in batch}
  <2>1. {<<t, "update">> : t \in batch} \in SUBSET Lock
    BY DEF Lock
  <2> QED
    BY <1>1, <1>3, <2>1 DEF Work
<1>5. WorkOK(s)' /\ StableFor(s)'
  BY <1>2, <1>4 DEF WorkOK, StableFor, Holds, Expirable
<1>6. \A o \in Active \ {s} : \A h \in session'[s].holds, g \in session[o].holds :
        h[1] = g[1] => ~Conflict(h[2], g[2])
  BY <1>2, <1>4, Granted
<1> QED
  BY <1>4, <1>5, <1>6 DEF OwnOK

\* After its own step a SQL transaction is over, or in order.
LEMMA OwnGoesOn ==
  ASSUME IInv, LocksOK, NEW s \in Session, SessionStep(s), session'[s] # Idle
  PROVE  OwnOK(s)
<1>0. session[s] # Idle => s \in Active /\ session[s] \in Work
  BY DEF LocksOK, Active
<1>1. ASSUME NEW p \in Payment, NEW k \in Key, BeginPayment(s, p, k)
      PROVE  OwnOK(s)
  <2>0. PICK what : what = [Begun("payment", p) EXCEPT !.key = k, !.todo = << <<k, "update">> >>]
    OBVIOUS
  <2>1. << <<k, "update">> >> \in Seq(Lock) /\ p \in Transaction
    BY Shapes DEF Lock
  <2>2. what =
         [kind |-> "payment", row |-> p, to |-> "ABSENT", key |-> k,
          todo |-> << <<k, "update">> >>, holds |-> {},
          seen |-> 0, was |-> "ABSENT", back |-> 0, batch |-> {}, overtaken |-> {}]
    BY <2>0 DEF Begun
  <2>3. what \in Work /\ what.holds = {} /\ what.kind = "payment" /\ what.row = p
    BY <2>1, <2>2 DEF Work
  <2>4. Start(s, what)
    BY <1>1, <2>0 DEF BeginPayment
  <2> QED
    BY <2>3, <2>4, BeginOK
<1>2. ASSUME NEW r \in Refund, NEW k \in Key, NEW p \in Payment, NEW a \in Amount,
             BeginRefund(s, r, k, p, a)
      PROVE  OwnOK(s)
  <2>0. PICK todo, what :
          /\ todo = << <<k, "update">> >> \o ForeignKeyLock(p)
          /\ what = [Begun("refund", r) EXCEPT !.key = k, !.todo = todo]
    OBVIOUS
  <2>1. todo \in Seq(Lock) /\ r \in Transaction
    <3>1. <<k, "update">> \in Lock /\ <<p, "share">> \in Lock /\ r \in Transaction
      BY Shapes DEF Lock
    <3>2. << <<k, "update">> >> \in Seq(Lock) /\ << <<p, "share">> >> \in Seq(Lock)
      BY <3>1
    <3> QED
      BY <2>0, <3>1, <3>2 DEF ForeignKeyLock
  <2>2. what =
         [kind |-> "refund", row |-> r, to |-> "ABSENT", key |-> k, todo |-> todo, holds |-> {},
          seen |-> 0, was |-> "ABSENT", back |-> 0, batch |-> {}, overtaken |-> {}]
    BY <2>0 DEF Begun
  <2>3. what \in Work /\ what.holds = {} /\ what.kind = "refund"
    BY <2>1, <2>2 DEF Work
  <2>4. Start(s, what)
    BY <1>2, <2>0 DEF BeginRefund
  <2> QED
    BY <2>3, <2>4, BeginOK
<1>3. CASE TakeKey(s) \/ TakeParent(s)
  <2>0. PICK lock : lock = Head(session[s].todo)
    OBVIOUS
  <2>1. /\ session[s] \in Work /\ session[s].kind \in {"payment", "refund"} /\ session[s].todo # <<>>
        /\ Blockers(s, lock) = {}
        /\ session' = [session EXCEPT ![s].todo = Tail(@), ![s].holds = @ \cup {lock}]
    <3>1. CASE TakeKey(s)
      <4>1. lock = <<session[s].key, "update">>
        BY <2>0, <3>1 DEF TakeKey
      <4>2. session[s].kind \in {"payment", "refund"} /\ Idle.kind = "idle"
        BY <3>1 DEF TakeKey, Idle
      <4>3. session[s] \in Work
        BY <1>0, <4>2
      <4>4. /\ session[s].todo # <<>> /\ Blockers(s, lock) = {}
            /\ session' = [session EXCEPT ![s].todo = Tail(@), ![s].holds = @ \cup {lock}]
        BY <3>1, <4>1 DEF TakeKey
      <4> QED
        BY <4>2, <4>3, <4>4
    <3>2. CASE TakeParent(s)
      BY <1>0, <2>0, <3>2 DEF TakeParent, Idle
    <3> QED
      BY <1>3, <3>1, <3>2
  <2>2. lock \in Lock
    <3>1. session[s].todo \in Seq(Lock)
      BY <2>1 DEF Work
    <3> QED
      BY <2>0, <2>1, <3>1
  <2> QED
    BY <2>1, <2>2, TakeOK
<1>4. ASSUME NEW t \in Transaction, NEW to \in Status, BeginTransition(s, t, to)
      PROVE  OwnOK(s)
  <2>0. PICK what : what = [Begun("transition", t) EXCEPT
                 !.to = to, !.seen = version[t], !.todo = << <<t, "update">> >>]
    OBVIOUS
  <2>1. << <<t, "update">> >> \in Seq(Lock) /\ version[t] \in Int
    BY Shapes DEF Lock
  <2>2. what =
         [kind |-> "transition", row |-> t, to |-> to, key |-> NoKey,
          todo |-> << <<t, "update">> >>, holds |-> {},
          seen |-> version[t], was |-> "ABSENT", back |-> 0, batch |-> {}, overtaken |-> {}]
    BY <2>0 DEF Begun
  <2>3. /\ what \in Work /\ what.holds = {} /\ what.kind = "transition" /\ what.row = t
        /\ what.to = to /\ what.was = "ABSENT"
    BY <2>1, <2>2 DEF Work
  <2>4. Start(s, what) /\ Exists(t)'
    BY <1>4, <2>0, SessionsAssumption, Shapes DEF BeginTransition, Exists, vars, row
  <2> QED
    BY <2>3, <2>4, BeginOK
<1>5. CASE BeginSweep(s)
  <2>0. PICK what : what = Begun("sweep", NoPayment)
    OBVIOUS
  <2>1. what \in Work /\ what.holds = {} /\ what.kind = "sweep" /\ what.batch = {}
    BY <2>0 DEF Begun, Work
  <2>2. Start(s, what)
    BY <1>5, <2>0 DEF BeginSweep
  <2> QED
    BY <2>1, <2>2, BeginOK
<1>6. CASE End(s)
  BY <1>6 DEF End
<1> QED
  BY <1>1, <1>2, <1>3, <1>4, <1>5, <1>6, LockRowOK, LockParentOK, SelectBatchOK
     DEF SessionStep, Rollback, CommitInsert, CommitTransition, CommitLate, CommitSweep

\* A step of one SQL transaction keeps the locks in order.
LEMMA LocksStep ==
  ASSUME IInv, LocksOK, NEW s \in Session, SessionStep(s)
  PROVE  LocksOK'
<1>0. session = [o \in Session |-> session[o]] /\ session' = [o \in Session |-> session'[o]]
  BY DEF LocksOK, SessionStep, Rollback, CommitInsert, CommitTransition, CommitLate, CommitSweep, End,
         BeginPayment, BeginRefund, TakeKey, TakeParent, BeginTransition, LockRow, LockParent,
         BeginSweep, SelectBatch, Start
<1>1. \A o \in Session \ {s} : SameWork(o)
  BY OthersGoOn
<1>2. session'[s] # Idle => OwnOK(s)
  BY OwnGoesOn
<1>3. \A o \in Session \ {s} : o \in Active' <=> o \in Active
  BY <1>1 DEF Active, SameWork
<1>4. session' \in [Session -> {Idle} \cup Work]
  <2>1. ASSUME NEW o \in Session PROVE session'[o] \in {Idle} \cup Work
    BY <1>1, <1>2 DEF SameWork, OwnOK
  <2> QED
    BY <1>0, <2>1
<1>5. ASSUME NEW o \in Active' PROVE WorkOK(o)' /\ StableFor(o)'
  <2>1. CASE o = s
    BY <1>2, <1>5, <2>1 DEF Active, OwnOK
  <2>2. CASE o # s
    BY <1>3, <1>5, <2>2, OthersKeepWhatTheyRead DEF Active
  <2> QED
    BY <2>1, <2>2
<1>6. ASSUME NEW o \in Active', NEW p \in Active', o # p PROVE Compatible(o, p)'
  <2>0. o \in Session /\ p \in Session /\ session'[o] # Idle /\ session'[p] # Idle
    BY <1>6 DEF Active
  <2>1. CASE o = s
    <3>1. p \in Active \ {s} /\ session'[p].holds = session[p].holds
      BY <1>1, <1>3, <1>6, <2>0, <2>1 DEF SameWork, Active
    <3> QED
      BY <1>2, <2>0, <2>1, <3>1 DEF OwnOK, Compatible
  <2>2. CASE p = s
    <3>1. o \in Active \ {s} /\ session'[o].holds = session[o].holds
      BY <1>1, <1>3, <1>6, <2>0, <2>2 DEF SameWork, Active
    <3> QED
      BY <1>2, <2>0, <2>2, <3>1 DEF OwnOK, Compatible, Conflict
  <2>3. CASE o # s /\ p # s
    <3>1. /\ o \in Active /\ p \in Active
          /\ session'[o].holds = session[o].holds /\ session'[p].holds = session[p].holds
      BY <1>1, <1>3, <1>6, <2>0, <2>3 DEF SameWork, Active
    <3> QED
      BY <1>6, <3>1 DEF LocksOK, Compatible
  <2> QED
    BY <2>1, <2>2, <2>3
<1> QED
  BY <1>4, <1>5, <1>6 DEF LocksOK

---------------------------------------------------------------------------
(* The invariant, and what follows. *)

\* SNext is a step of one SQL transaction, or of the clock.
LEMMA StepsOfSessions ==
  SNext <=> (\E s \in Session : SessionStep(s)) \/ (\E t \in Transaction : Tick(t))
BY DEF SNext, SessionStep

\* The clock makes rows overdue, and changes none of them.
LEMMA TickKeeps ==
  ASSUME LocksOK, \/ \E t \in Transaction : Tick(t)
                  \/ UNCHANGED svars
  PROVE  LocksOK'
<1>1. /\ session' = session /\ UNCHANGED <<status, version, refunded, parent>>
      /\ overdue \subseteq overdue'
  BY DEF Tick, DeadlinePasses, svars, vars, row, attributes
<1>2. Active' = Active
  BY <1>1 DEF Active
<1>3. ASSUME NEW s \in Active PROVE WorkOK(s)' /\ StableFor(s)'
  <2>1. WorkOK(s) /\ StableFor(s)
    BY DEF LocksOK
  <2> QED
    BY <1>1, <2>1 DEF WorkOK, StableFor, Holds, Exists, Settles, Expirable
<1> QED
  BY <1>1, <1>2, <1>3 DEF LocksOK, Compatible

\* What a SQL transaction has read under its locks is still so, and no lock
\* is held by two of them that exclude each other.
THEOREM SessionsInvariance == SSpec => [](IInv /\ LocksOK)
<1>1. SInit => IInv /\ LocksOK
  <2>1. SInit => IInv
    BY InitInv DEF SInit
  <2>2. SInit => LocksOK
    BY DEF SInit, LocksOK, Active
  <2> QED
    BY <2>1, <2>2
<1>2. IInv /\ LocksOK /\ [SNext]_svars => (IInv /\ LocksOK)'
  <2> SUFFICES ASSUME IInv, LocksOK, [SNext]_svars PROVE (IInv /\ LocksOK)'
    OBVIOUS
  <2>1. ASSUME NEW s \in Session, SessionStep(s) PROVE (IInv /\ LocksOK)'
    BY <2>1, SessionRefines, NextInv, LocksStep
  <2>2. CASE \E t \in Transaction : Tick(t)
    <3>1. Next
      BY <2>2 DEF Tick, Next
    <3> QED
      BY <2>2, <3>1, NextInv, TickKeeps
  <2>3. CASE UNCHANGED svars
    BY <2>3, NextInv, TickKeeps DEF svars
  <2> QED
    BY <2>1, <2>2, <2>3, StepsOfSessions
<1> QED
  BY <1>1, <1>2, PTL DEF SSpec

\* Nothing a transition or the job has read under a lock is changed by others
\* before its COMMIT: neither the status it decides on nor the refunded amount
\* of the parent it adds to.
THEOREM SessionsReadStably == SSpec => []ReadsAreStable
<1>1. LocksOK => ReadsAreStable
  BY DEF LocksOK, StableFor, ReadsAreStable
<1> QED
  BY <1>1, SessionsInvariance, PTL

\* The locks the code takes make each SQL transaction atomic: all that is
\* proved of Ledger holds of the statements run side by side.
THEOREM SessionsImplementLedger == SSpec => ImplementsLedger
<1>1. SInit => Init
  BY DEF SInit
<1>2. IInv /\ LocksOK /\ [SNext]_svars => [Next]_vars
  <2> SUFFICES ASSUME IInv, LocksOK, [SNext]_svars PROVE [Next]_vars
    OBVIOUS
  <2> QED
    BY SessionRefines, StepsOfSessions DEF Tick, Next, svars
<1> QED
  BY <1>1, <1>2, SessionsInvariance, PTL DEF SSpec, Spec, ImplementsLedger

---------------------------------------------------------------------------
(* Nobody waits in a circle. *)

\* The order in which everybody takes locks: keys, refunds, payments.
Rank(what) == IF what \in Key THEN 1 ELSE IF what \in Refund THEN 2 ELSE 3

\* The locks to come rank above those held, and come in order of rank.
InOrder(s) ==
  LET w == session[s] IN
  /\ w.kind = "sweep" => w.todo = <<>>
  /\ \A i, j \in DOMAIN w.todo : i < j => Rank(w.todo[i][1]) < Rank(w.todo[j][1])
  /\ \A h \in w.holds : \A i \in DOMAIN w.todo : Rank(h[1]) < Rank(w.todo[i][1])

\* Each thing that can be locked has the rank of its kind.
LEMMA Ranks ==
  /\ \A k \in Key : Rank(k) = 1
  /\ \A r \in Refund : Rank(r) = 2
  /\ \A p \in Payment : Rank(p) = 3
  /\ \A x : Rank(x) \in 1..3
BY LedgerAssumption, SessionsAssumption DEF Rank, Transaction

\* Two lists of one element make a list of two.
LEMMA Concatenated ==
  ASSUME NEW S, NEW x \in S, NEW y \in S
  PROVE  /\ DOMAIN (<<x>> \o <<y>>) = 1..2
         /\ (<<x>> \o <<y>>)[1] = x /\ (<<x>> \o <<y>>)[2] = y
<1> DEFINE a == <<x>> b == <<y>>
<1>1. a \in Seq(S) /\ b \in Seq(S)
  OBVIOUS
<1>2. Len(a) = 1 /\ Len(b) = 1 /\ a[1] = x /\ b[1] = y
  OBVIOUS
<1> HIDE DEF a, b
<1>3. /\ a \o b \in Seq(S) /\ Len(a \o b) = Len(a) + Len(b)
      /\ \A i \in 1..Len(a) + Len(b) : (a \o b)[i] = IF i <= Len(a) THEN a[i] ELSE b[i - Len(a)]
  BY <1>1, ConcatProperties, Zenon
<1>4. Len(a \o b) = 2 /\ (a \o b)[1] = x
  BY <1>3, <1>2
<1>5. (a \o b)[2] = y
  BY <1>3, <1>2
<1>6. DOMAIN (a \o b) = 1..2
  BY <1>3, <1>4
<1>7. DOMAIN (a \o b) = 1..2 /\ (a \o b)[1] = x /\ (a \o b)[2] = y
  BY <1>6, <1>4, <1>5
<1> QED
  BY <1>7, Zenon DEF a, b

\* A SQL transaction takes its locks in order whatever it does.
LEMMA OwnInOrder ==
  ASSUME IInv, LocksOK, NEW s \in Session, SessionStep(s), session'[s] # Idle,
         session[s] # Idle => InOrder(s)
  PROVE  InOrder(s)'
<1>0. /\ session \in [Session -> {Idle} \cup Work]
      /\ session[s] # Idle => s \in Active /\ session[s] \in Work /\ WorkOK(s) /\ InOrder(s)
  BY DEF LocksOK, Active
<1>1. CASE \E p \in Payment, k \in Key : BeginPayment(s, p, k)
  <2>1. PICK k \in Key : session'[s].todo = << <<k, "update">> >> /\ session'[s].holds = {}
                         /\ session'[s].kind = "payment"
    BY <1>0, <1>1 DEF BeginPayment, Start, Begun
  <2> QED
    BY <2>1 DEF InOrder
<1>2. CASE \E r \in Refund, k \in Key, p \in Payment, a \in Amount : BeginRefund(s, r, k, p, a)
  <2>1. PICK k \in Key, p \in Payment :
          /\ session'[s].todo = << <<k, "update">> >> \o << <<p, "share">> >>
          /\ session'[s].holds = {} /\ session'[s].kind = "refund"
    BY <1>0, <1>2 DEF BeginRefund, Start, Begun, ForeignKeyLock
  <2>2. /\ DOMAIN session'[s].todo = 1..2
        /\ session'[s].todo[1] = <<k, "update">> /\ session'[s].todo[2] = <<p, "share">>
    <3>0. PICK S : S = {<<k, "update">>, <<p, "share">>}
      OBVIOUS
    <3>1. PICK x \in S, y \in S : x = <<k, "update">> /\ y = <<p, "share">>
      BY <3>0
    <3>2. session'[s].todo = <<x>> \o <<y>>
      BY <2>1, <3>1
    <3> QED
      BY <3>1, <3>2, Concatenated
  <2>3. ASSUME NEW i \in DOMAIN session'[s].todo, NEW j \in DOMAIN session'[s].todo, i < j
        PROVE  Rank(session'[s].todo[i][1]) < Rank(session'[s].todo[j][1])
    <3>1. i = 1 /\ j = 2
      BY <2>2, <2>3
    <3> QED
      BY <2>1, <2>2, <3>1, Ranks
  <2> QED
    BY <2>1, <2>3 DEF InOrder
<1>3. CASE TakeKey(s) \/ TakeParent(s)
  <2>0. PICK w, lock : w = session[s] /\ lock = Head(w.todo)
    OBVIOUS
  <2>1. /\ w \in Work /\ w.kind \in {"payment", "refund"} /\ w.todo # <<>> /\ InOrder(s)
        /\ session' = [session EXCEPT ![s].todo = Tail(@), ![s].holds = @ \cup {lock}]
    <3>1. CASE TakeKey(s)
      <4>1. lock = <<session[s].key, "update">>
        BY <2>0, <3>1 DEF TakeKey
      <4> QED
        BY <1>0, <2>0, <3>1, <4>1 DEF TakeKey, Idle
    <3>2. CASE TakeParent(s)
      BY <1>0, <2>0, <3>2 DEF TakeParent, Idle
    <3> QED
      BY <1>3, <3>1, <3>2
  <2>2. session'[s].todo = Tail(w.todo) /\ session'[s].holds = w.holds \cup {lock}
        /\ session'[s].kind = w.kind
    BY <1>0, <2>0, <2>1 DEF Work
  <2>3. /\ w.todo \in Seq(Lock) /\ lock = w.todo[1] /\ 1 \in DOMAIN w.todo
        /\ \A i \in DOMAIN Tail(w.todo) : i + 1 \in DOMAIN w.todo /\ Tail(w.todo)[i] = w.todo[i + 1]
                                         /\ i \in Nat /\ 1 < i + 1
    <3>1. w.todo \in Seq(Lock)
      BY <2>1 DEF Work
    <3> QED
      BY <2>0, <2>1, <3>1
  <2>4. /\ \A i, j \in DOMAIN w.todo : i < j => Rank(w.todo[i][1]) < Rank(w.todo[j][1])
        /\ \A h \in w.holds : \A i \in DOMAIN w.todo : Rank(h[1]) < Rank(w.todo[i][1])
    BY <2>0, <2>1 DEF InOrder
  <2>5. ASSUME NEW i \in DOMAIN Tail(w.todo), NEW j \in DOMAIN Tail(w.todo), i < j
        PROVE  Rank(Tail(w.todo)[i][1]) < Rank(Tail(w.todo)[j][1])
    <3>1. i + 1 \in DOMAIN w.todo /\ j + 1 \in DOMAIN w.todo /\ i + 1 < j + 1
      BY <2>3, <2>5
    <3> QED
      BY <2>3, <2>4, <3>1
  <2>6. ASSUME NEW h \in w.holds \cup {lock}, NEW i \in DOMAIN Tail(w.todo)
        PROVE  Rank(h[1]) < Rank(Tail(w.todo)[i][1])
    <3>1. i + 1 \in DOMAIN w.todo /\ 1 < i + 1 /\ Tail(w.todo)[i] = w.todo[i + 1]
      BY <2>3
    <3> QED
      BY <2>3, <2>4, <3>1
  <2> QED
    BY <2>1, <2>2, <2>5, <2>6 DEF InOrder
<1>4. CASE \E t \in Transaction, to \in Status : BeginTransition(s, t, to)
  <2>1. PICK t \in Transaction : session'[s].todo = << <<t, "update">> >> /\ session'[s].holds = {}
                                 /\ session'[s].kind = "transition"
    BY <1>0, <1>4 DEF BeginTransition, Start, Begun
  <2> QED
    BY <2>1 DEF InOrder
<1>5. CASE LockRow(s)
  <2>0. PICK t : t = session[s].row
    OBVIOUS
  <2>1. /\ session[s] \in Work /\ session[s].kind = "transition" /\ t \in Transaction /\ Exists(t)
    BY <1>0, <1>5, <2>0 DEF LockRow, WorkOK, Idle
  <2>2. /\ session'[s].kind = "transition" /\ session'[s].holds = { <<t, "update">> }
        /\ session'[s].todo = <<>> \/ (t \in Refund /\ session'[s].todo = << <<parent[t], "update">> >>)
    BY <1>0, <1>5, <2>0, <2>1 DEF LockRow, ParentLock, Work
  <2>3. t \in Refund => Rank(t) < Rank(parent[t])
    BY <2>1, Ranks, Shapes
  <2> QED
    BY <2>2, <2>3 DEF InOrder
<1>6. CASE LockParent(s)
  <2>1. session'[s].todo = <<>>
    BY <1>0, <1>6 DEF LockParent, Work, Idle
  <2> QED
    BY <2>1 DEF InOrder
<1>7. CASE BeginSweep(s)
  <2>1. session'[s].todo = <<>>
    BY <1>0, <1>7 DEF BeginSweep, Start, Begun
  <2> QED
    BY <2>1 DEF InOrder
<1>8. CASE \E batch \in SUBSET Transaction : SelectBatch(s, batch)
  <2>1. session'[s].todo = session[s].todo /\ session[s].todo = <<>>
    BY <1>0, <1>8 DEF SelectBatch, InOrder, Work, Idle
  <2> QED
    BY <2>1 DEF InOrder
<1>9. CASE End(s)
  BY <1>9 DEF End
<1> QED
  BY <1>1, <1>2, <1>3, <1>4, <1>5, <1>6, <1>7, <1>8, <1>9
     DEF SessionStep, Rollback, CommitInsert, CommitTransition, CommitLate, CommitSweep

\* One who waits in a set where everybody waits is blocked by one of higher rank.
LEMMA BlockerRanksHigher ==
  ASSUME LocksOK, \A s \in Active : InOrder(s), NEW waiting \in SUBSET Active,
         \A s \in waiting : WaitsFor(s) \cap waiting # {}, NEW s \in waiting
  PROVE  \E o \in waiting : Rank(Head(session[s].todo)[1]) < Rank(Head(session[o].todo)[1])
<1>1. session[s].todo # <<>>
  BY DEF WaitsFor
<1>2. PICK o \in waiting : o \in Blockers(s, Head(session[s].todo))
  BY <1>1 DEF WaitsFor
<1>3. PICK held \in session[o].holds : held[1] = Head(session[s].todo)[1]
  BY <1>2 DEF Blockers
<1>4. /\ session[o].todo # <<>> /\ session[o].todo \in Seq(Lock) /\ InOrder(o)
  BY <1>2 DEF WaitsFor, LocksOK, Active, Work
<1>5. 1 \in DOMAIN session[o].todo /\ Head(session[o].todo) = session[o].todo[1]
  BY <1>4
<1> QED
  BY <1>3, <1>4, <1>5 DEF InOrder

\* The locks are taken in one order, so that no set of SQL transactions ever
\* waits for itself: refunds before their payments, keys before rows, and the
\* job, which skips what is locked, waits for nobody.
THEOREM NoDeadlock == SSpec => []NoCircularWait
<1> DEFINE Ordered == \A s \in Active : InOrder(s)
<1>1. SInit => Ordered
  BY DEF SInit, Active
<1>2. IInv /\ LocksOK /\ Ordered /\ [SNext]_svars => Ordered'
  <2> SUFFICES ASSUME IInv, LocksOK, Ordered, [SNext]_svars, NEW o \in Active'
               PROVE  InOrder(o)'
    OBVIOUS
  <2>0. o \in Session /\ session'[o] # Idle
    BY DEF Active
  <2>1. CASE session' = session
    BY <2>1 DEF Active, InOrder
  <2>2. ASSUME NEW s \in Session, SessionStep(s) PROVE InOrder(o)'
    <3>1. CASE o = s
      BY <2>0, <2>2, <3>1, OwnInOrder DEF Active
    <3>2. CASE o # s
      <4>1. SameWork(o) /\ o \in Active
        BY <2>0, <2>2, <3>2, OthersGoOn DEF SameWork, Active
      <4> QED
        BY <4>1 DEF SameWork, InOrder, Active
    <3> QED
      BY <3>1, <3>2
  <2> QED
    BY <2>1, <2>2, StepsOfSessions DEF Tick, svars
<1>3. LocksOK /\ Ordered => NoCircularWait
  <2> SUFFICES ASSUME LocksOK, Ordered, NEW waiting \in (SUBSET Active) \ {{}}
               PROVE  \E s \in waiting : WaitsFor(s) \cap waiting = {}
    BY DEF NoCircularWait
  <2> SUFFICES ASSUME \A s \in waiting : WaitsFor(s) \cap waiting # {}
               PROVE  FALSE
    OBVIOUS
  <2>0. waiting \in SUBSET Active /\ waiting # {}
    OBVIOUS
  <2> DEFINE R(s) == Rank(Head(session[s].todo)[1])
  <2>1. \A s \in waiting : \E o \in waiting : R(s) < R(o)
    BY <2>0, BlockerRanksHigher
  <2>2. \A s \in waiting : R(s) \in 1..3
    BY Ranks
  <2> HIDE DEF R
  <2>3. PICK s \in waiting : R(s) >= 2
    BY <2>0, <2>1, <2>2
  <2>4. PICK o \in waiting : R(o) >= 3
    BY <2>1, <2>2, <2>3
  <2> QED
    BY <2>1, <2>2, <2>4
<1> QED
  BY <1>1, <1>2, <1>3, SessionsInvariance, PTL DEF SSpec

=============================================================================
