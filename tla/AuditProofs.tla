---------------------------- MODULE AuditProofs ----------------------------
(***************************************************************************)
(* What the audit of a transaction rests on, for every set of payments and *)
(* refunds, every amount, batch size and bound.                            *)
(*                                                                         *)
(* Its history is an unbroken path of the state machine: whatever a        *)
(* committed SQL transaction does, the history of a row changes with its   *)
(* status, by one line that starts where the previous one ended.           *)
(*                                                                         *)
(* The sums agree with the row: the audit's postings add up to what the    *)
(* row says, and the succeeded refunds to its refunded amount.  A sum is   *)
(* the number of its francs, so that one more posting, or one more refund, *)
(* is a disjoint union of finite sets; every step adds one or none.        *)
(***************************************************************************)
EXTENDS LedgerProofs, FiniteSetTheorems

\* What HistoryIsAPath says of one row.
PathTo(lines, s) ==
  /\ s # "ABSENT" <=> lines # <<>>
  /\ \A i \in DOMAIN lines :
       /\ i = 1 => lines[i] = <<"NULL", "INITIATED">>
       /\ i > 1 => lines[i] \in StatusTransitions /\ lines[i][1] = lines[i - 1][2]
       /\ i = Len(lines) => lines[i][2] = s

Line == (Status \cup {"NULL"}) \X Status

\* A change of status that the table allows, recorded, prolongs the path.
LEMMA PathGoesOn ==
  ASSUME NEW lines \in Seq(Line), NEW s, NEW to, PathTo(lines, s),
         <<s, to>> \in StatusTransitions
  PROVE  PathTo(Append(lines, <<s, to>>), to)
<1> DEFINE longer == Append(lines, <<s, to>>)
<1>1. s # "ABSENT" /\ to # "ABSENT"
  BY DEF StatusTransitions
<1>2. lines # <<>> /\ Len(lines) \in Nat /\ Len(lines) > 0
  BY <1>1 DEF PathTo
<1>3. /\ Len(longer) = Len(lines) + 1 /\ DOMAIN longer = 1..(Len(lines) + 1)
      /\ DOMAIN lines = 1..Len(lines)
      /\ longer[Len(lines) + 1] = <<s, to>>
      /\ \A i \in 1..Len(lines) : longer[i] = lines[i]
      /\ longer # <<>>
  OBVIOUS
<1>4. ASSUME NEW i \in DOMAIN longer
      PROVE  /\ i = 1 => longer[i] = <<"NULL", "INITIATED">>
             /\ i > 1 => longer[i] \in StatusTransitions /\ longer[i][1] = longer[i - 1][2]
             /\ i = Len(longer) => longer[i][2] = to
  <2>1. CASE i \in 1..Len(lines)
    <3>1. longer[i] = lines[i] /\ i # Len(longer)
      BY <1>2, <1>3, <2>1
    <3>2. i > 1 => longer[i - 1] = lines[i - 1]
      BY <1>2, <1>3, <2>1
    <3> QED
      BY <1>3, <2>1, <3>1, <3>2 DEF PathTo
  <2>2. CASE i = Len(lines) + 1
    <3>0. i > 1 /\ i - 1 = Len(lines) /\ Len(lines) \in 1..Len(lines)
      BY <1>2, <2>2
    <3>1. longer[i] = <<s, to>> /\ longer[i - 1] = lines[Len(lines)]
      BY <1>3, <2>2, <3>0
    <3>2. lines[Len(lines)][2] = s
      BY <1>2, <1>3 DEF PathTo
    <3> QED
      BY <3>0, <3>1, <3>2
  <2> QED
    BY <1>2, <1>3, <1>4, <2>1, <2>2
<1> QED
  BY <1>1, <1>3, <1>4 DEF PathTo

\* The line written by the INSERT of a row begins one.
LEMMA PathBegins == PathTo(<< <<"NULL", "INITIATED">> >>, "INITIATED")
BY DEF PathTo

\* The ways the history of a transaction goes through one step.
HistoryStep(t) ==
  \/ status'[t] = status[t] /\ history'[t] = history[t]
  \/ status'[t] = "INITIATED" /\ history'[t] = << <<"NULL", "INITIATED">> >>
  \/ /\ <<status[t], status'[t]>> \in StatusTransitions
     /\ history'[t] = Append(history[t], <<status[t], status'[t]>>)

\* No step touches the history and leaves the status, or the other way round.
LEMMA HistorySteps ==
  ASSUME IInv, Next
  PROVE  \A t \in Transaction : HistoryStep(t)
<1>0. /\ status \in [Transaction -> Status \cup {"ABSENT"}]
      /\ history \in [Transaction -> Seq(Line)]
      /\ Payment \subseteq Transaction /\ Refund \subseteq Transaction
  BY DEF IInv, TypeOK, Line, Transaction
<1>1. ASSUME NEW u \in Transaction, InsertRow(u)
      PROVE  \A t \in Transaction : HistoryStep(t)
  BY <1>0, <1>1 DEF InsertRow, HistoryStep
<1>2. ASSUME NEW u \in Transaction, NEW to,
             status' = [status EXCEPT ![u] = to],
             history' = [history EXCEPT ![u] = Recorded(@, status[u], to)],
             to = status[u] \/ <<status[u], to>> \in StatusTransitions
      PROVE  \A t \in Transaction : HistoryStep(t)
  BY <1>0, <1>2 DEF Recorded, HistoryStep
<1>3. ASSUME NEW r \in Refund, SettleRefund(r)
      PROVE  \A t \in Transaction : HistoryStep(t)
  <2>0. PICK p, back, new : p = parent[r] /\ back = refunded[p] + amount[r]
                            /\ new = ParentStatus(p, back)
    OBVIOUS
  <2>1. p \in Payment /\ p # r
    BY <1>3, <2>0, SettleRefundEffect, LedgerAssumption DEF IInv, RefundEffect
  <2>2. /\ new = status[p] \/ <<status[p], new>> \in StatusTransitions
        /\ status[r] = "PENDING"
        /\ status' = [status EXCEPT ![r] = "SUCCEEDED", ![p] = new]
        /\ history' = [history EXCEPT ![r] = Recorded(@, status[r], "SUCCEEDED"),
                                      ![p] = Recorded(@, status[p], new)]
    BY <1>3, <2>0 DEF SettleRefund, IsSettlement, Cumulated, UpdateOK, UpdateAllowed
  <2>3. ASSUME NEW t \in Transaction PROVE HistoryStep(t)
    <3>1. CASE t = p
      BY <1>0, <2>1, <2>2, <3>1 DEF Recorded, HistoryStep
    <3>2. CASE t = r
      <4>1. <<"PENDING", "SUCCEEDED">> \in StatusTransitions
        BY DEF StatusTransitions
      <4> QED
        BY <1>0, <2>1, <2>2, <3>2, <4>1 DEF Recorded, HistoryStep
    <3>3. CASE t # p /\ t # r
      BY <1>0, <2>1, <2>2, <3>3 DEF HistoryStep
    <3> QED
      BY <3>1, <3>2, <3>3
  <2> QED
    BY <2>3
<1>4. ASSUME NEW p \in Payment, ReverseDispute(p)
      PROVE  \A t \in Transaction : HistoryStep(t)
  <2>1. p \in Transaction
    BY <1>0
  <2>2. <<status[p], "REVERSED">> \in StatusTransitions
    BY <1>4 DEF ReverseDispute, IsReversal, StatusTransitions
  <2> QED
    BY <1>2, <1>4, <2>1, <2>2 DEF ReverseDispute
<1>5. ASSUME NEW batch \in SUBSET Transaction, ExpireBatch(batch)
      PROVE  \A t \in Transaction : HistoryStep(t)
  <2>1. \A t \in batch : status[t] = "PENDING"
    BY <1>5 DEF ExpireBatch, Expirable
  <2>2. <<"PENDING", "EXPIRED">> \in StatusTransitions
    BY DEF StatusTransitions
  <2> QED
    BY <1>0, <1>5, <2>1, <2>2 DEF ExpireBatch, Recorded, HistoryStep
<1>6. ASSUME NEW t \in Transaction, NEW to \in Status, ChangeStatus(t, to)
      PROVE  \A u \in Transaction : HistoryStep(u)
  BY <1>2, <1>6 DEF ChangeStatus, UpdateOK, UpdateAllowed
<1>7. ASSUME NEW p \in Payment, SettlePayment(p)
      PROVE  \A t \in Transaction : HistoryStep(t)
  <2>1. p \in Transaction
    BY <1>0
  <2> QED
    BY <1>2, <1>7, <2>1 DEF SettlePayment, UpdateOK, UpdateAllowed
<1>8. CASE UNCHANGED row
  BY <1>8 DEF row, HistoryStep
<1> QED
  BY <1>0, <1>1, <1>3, <1>4, <1>5, <1>6, <1>7, <1>8
     DEF Next, CreatePayment, CommitRefund, CheckRefund, AbortRefund, LateAcknowledgment,
         DeadlinePasses

\* The history of a transaction can be read as what happened to it: it starts
\* with the creation, every line is a transition of the table that starts
\* where the previous line ended, and the last one leads to the present
\* status, whoever changed it: a caller, a refund or the expiration job.
THEOREM HistoryIsUnbroken == Spec => []HistoryIsAPath
<1>1. Init => HistoryIsAPath
  BY DEF Init, HistoryIsAPath, Exists
<1>2. ASSUME IInv, HistoryIsAPath, [Next]_vars
      PROVE  HistoryIsAPath'
  <2>1. CASE Next
    <3>1. ASSUME NEW t \in Transaction PROVE PathTo(history'[t], status'[t])
      <4>1. PathTo(history[t], status[t]) /\ HistoryStep(t)
        BY <1>2, <2>1, <3>1, HistorySteps DEF HistoryIsAPath, PathTo, Exists
      <4>2. history[t] \in Seq(Line)
        BY <1>2, <3>1 DEF IInv, TypeOK, Line
      <4> QED
        BY <4>1, <4>2, PathBegins, PathGoesOn DEF HistoryStep
    <3> QED
      BY <3>1 DEF HistoryIsAPath, PathTo, Exists
  <2>2. CASE UNCHANGED vars
    BY <1>2, <2>2 DEF vars, row, HistoryIsAPath, Exists
  <2> QED
    BY <1>2, <2>1, <2>2
<1> QED
  BY <1>1, <1>2, Invariance, PTL DEF Spec

---------------------------------------------------------------------------
(* A dispute remembers, in its history and in its refunded amount, where   *)
(* the payment came from.                                                  *)

LastLine(p) == history[p][Len(history[p])]

DisputeRemembers ==
  \A p \in Payment :
    status[p] = "DISPUTED" =>
      LastLine(p)[1] = IF refunded[p] = 0 THEN "SUCCEEDED" ELSE "PARTIALLY_REFUNDED"

\* What a refund settled meanwhile changes, it changes out of the dispute.
LEMMA RefundedOutOfDispute ==
  ASSUME IInv, Next
  PROVE  \A p \in Payment : status'[p] = "DISPUTED" => refunded'[p] = refunded[p]
<1>0. /\ status \in [Transaction -> Status \cup {"ABSENT"}]
      /\ refunded \in [Transaction -> Nat]
      /\ Payment \subseteq Transaction /\ Refund \subseteq Transaction
  BY DEF IInv, TypeOK, Transaction
<1>1. ASSUME NEW u \in Transaction, InsertRow(u)
      PROVE  \A p \in Payment : status'[p] = "DISPUTED" => refunded'[p] = refunded[p]
  BY <1>0, <1>1 DEF InsertRow
<1>2. ASSUME NEW r \in Refund, SettleRefund(r)
      PROVE  \A p \in Payment : status'[p] = "DISPUTED" => refunded'[p] = refunded[p]
  <2>0. PICK q, back, new : q = parent[r] /\ back = refunded[q] + amount[r]
                            /\ new = ParentStatus(q, back)
    OBVIOUS
  <2>1. /\ q \in Payment /\ q # r /\ new # "DISPUTED"
    BY <1>2, <2>0, SettleRefundEffect, LedgerAssumption DEF IInv, RefundEffect, ParentStatus
  <2>2. /\ status' = [status EXCEPT ![r] = "SUCCEEDED", ![q] = new]
        /\ refunded' = [refunded EXCEPT ![q] = back]
    BY <1>2, <2>0 DEF SettleRefund, Cumulated
  <2> QED
    BY <1>0, <2>1, <2>2
<1>3. ASSUME NEW u \in Payment, ReverseDispute(u)
      PROVE  \A p \in Payment : status'[p] = "DISPUTED" => refunded'[p] = refunded[p]
  BY <1>0, <1>3 DEF ReverseDispute
<1>4. CASE UNCHANGED refunded
  BY <1>4
<1> QED
  BY <1>0, <1>1, <1>2, <1>3, <1>4
     DEF Next, CreatePayment, CommitRefund, CheckRefund, AbortRefund, ChangeStatus,
         LateAcknowledgment, SettlePayment, DeadlinePasses, ExpireBatch, row

\* Whatever opened the dispute, its last line tells the same as its refunded amount.
LEMMA DisputesRemember == Spec => []DisputeRemembers
<1>1. Init => DisputeRemembers
  BY DEF Init, DisputeRemembers, Transaction
<1>2. ASSUME IInv, DisputeRemembers, [Next]_vars
      PROVE  DisputeRemembers'
  <2>1. CASE Next
    <3>1. ASSUME NEW p \in Payment, status'[p] = "DISPUTED"
          PROVE  LastLine(p)'[1]
                   = IF refunded'[p] = 0 THEN "SUCCEEDED" ELSE "PARTIALLY_REFUNDED"
      <4>0. /\ p \in Transaction /\ refunded'[p] = refunded[p] /\ HistoryStep(p)
            /\ history[p] \in Seq(Line) /\ refunded[p] \in Nat
        BY <1>2, <2>1, <3>1, RefundedOutOfDispute, HistorySteps
           DEF IInv, TypeOK, Line, Transaction
      <4>1. CASE status'[p] = status[p] /\ history'[p] = history[p]
        BY <1>2, <3>1, <4>0, <4>1 DEF DisputeRemembers, LastLine
      <4>2. CASE /\ <<status[p], status'[p]>> \in StatusTransitions
                 /\ history'[p] = Append(history[p], <<status[p], status'[p]>>)
        <5>1. LastLine(p)' = <<status[p], "DISPUTED">>
          BY <3>1, <4>0, <4>2 DEF LastLine
        <5>2. status[p] \in {"SUCCEEDED", "PARTIALLY_REFUNDED"}
          BY <3>1, <4>2 DEF StatusTransitions
        <5>3. RowCheck(TRUE, status[p], amount[p], refunded[p])
          BY <1>2, <4>0, <5>2, <3>1 DEF IInv, RowsPassChecks, Exists
        <5>4. status[p] = IF refunded[p] = 0 THEN "SUCCEEDED" ELSE "PARTIALLY_REFUNDED"
          BY <4>0, <5>2, <5>3 DEF RowCheck, Unrefunded
        <5> QED
          BY <4>0, <5>1, <5>4
      <4> QED
        BY <3>1, <4>0, <4>1, <4>2 DEF HistoryStep
    <3> QED
      BY <3>1 DEF DisputeRemembers
  <2>2. CASE UNCHANGED vars
    BY <1>2, <2>2 DEF vars, row, DisputeRemembers, LastLine
  <2> QED
    BY <1>2, <2>1, <2>2
<1> QED
  BY <1>1, <1>2, Invariance, PTL DEF Spec

\* A dispute won by the merchant can only be closed with the status the
\* payment had before it, although the caller names the status and transition()
\* does not look at the history: any other one fails a CHECK constraint.
THEOREM DisputeWonRestores == Spec => WonDisputeRestoresStatus
<1>1. ASSUME IInv, DisputeRemembers, IInv', [Next]_vars
      PROVE  [\A p \in Payment :
                /\ status[p] = "DISPUTED" /\ status'[p] \in {"SUCCEEDED", "PARTIALLY_REFUNDED"}
                /\ refunded'[p] = refunded[p]
                => status'[p] = history[p][Len(history[p])][1]]_vars
  <2>1. ASSUME NEW p \in Payment, status[p] = "DISPUTED",
               status'[p] \in {"SUCCEEDED", "PARTIALLY_REFUNDED"}, refunded'[p] = refunded[p]
        PROVE  status'[p] = history[p][Len(history[p])][1]
    <3>1. RowCheck(TRUE, status'[p], amount'[p], refunded'[p])
      BY <1>1, <2>1 DEF IInv, RowsPassChecks, Exists, Transaction
    <3>2. status'[p] = IF refunded[p] = 0 THEN "SUCCEEDED" ELSE "PARTIALLY_REFUNDED"
      BY <2>1, <3>1 DEF RowCheck, Unrefunded
    <3> QED
      BY <1>1, <2>1, <3>2 DEF DisputeRemembers, LastLine
  <2> QED
    BY <2>1
<1> QED
  BY <1>1, Invariance, DisputesRemember, PTL DEF Spec, WonDisputeRestoresStatus

---------------------------------------------------------------------------
(* Totals, and what one more value adds to them. *)

\* The francs of one value: as many as the value, none below 0.
LEMMA FrancsOfOne ==
  ASSUME NEW x, NEW n \in Int
  PROVE  /\ IsFiniteSet({x} \X (1..n))
         /\ Cardinality({x} \X (1..n)) = IF n > 0 THEN n ELSE 0
<1>1. IsFiniteSet(1..n) /\ Cardinality(1..n) = IF n > 0 THEN n ELSE 0
  BY FS_Interval
<1>2. IsFiniteSet({x}) /\ Cardinality({x}) = 1
  BY FS_Singleton, Zenon
<1>3. /\ IsFiniteSet({x} \X (1..n))
      /\ Cardinality({x} \X (1..n)) = Cardinality({x}) * Cardinality(1..n)
  BY <1>1, <1>2, FS_Product
<1> QED
  BY <1>1, <1>2, <1>3

\* The function g is f with one more value, v at x.
OneMore(f, g, x, v) ==
  /\ x \notin DOMAIN f /\ DOMAIN g = DOMAIN f \cup {x}
  /\ \A y \in DOMAIN f : g[y] = f[y]
  /\ g[x] = v

\* What one more value adds to a total.
LEMMA TotalOfOneMore ==
  ASSUME NEW f, NEW g, NEW x, NEW v \in Int, OneMore(f, g, x, v), IsFiniteSet(Francs(f))
  PROVE  /\ IsFiniteSet(Francs(g))
         /\ Total(f) \in Nat
         /\ Total(g) = Total(f) + (IF v > 0 THEN v ELSE 0)
<1> USE DEF OneMore
<1> DEFINE new == {x} \X (1..v)
<1>1. Francs(g) = Francs(f) \cup new
  <2> DEFINE F(y) == {y} \X (1..f[y])
             G(y) == {y} \X (1..g[y])
  <2>1. \A y \in DOMAIN f : G(y) = F(y)
    OBVIOUS
  <2>2. Francs(f) = UNION {F(y) : y \in DOMAIN f} /\ Francs(g) = UNION {G(y) : y \in DOMAIN g}
    BY DEF Francs
  <2>3. G(x) = new
    OBVIOUS
  <2> HIDE DEF F, G, new
  <2>4. \A z : z \in UNION {G(y) : y \in DOMAIN g} <=> \E y \in DOMAIN g : z \in G(y)
    OBVIOUS
  <2>5. \A z : z \in UNION {F(y) : y \in DOMAIN f} <=> \E y \in DOMAIN f : z \in F(y)
    OBVIOUS
  <2>6. \A z : z \in Francs(g) <=> z \in Francs(f) \cup new
    <3>1. \A y : y \in DOMAIN g <=> y \in DOMAIN f \/ y = x
      OBVIOUS
    <3> QED
      BY <2>1, <2>2, <2>3, <2>4, <2>5, <3>1
  <2> QED
    BY <2>6
<1>2. Francs(f) \cap new = {}
  BY DEF Francs
<1>3. IsFiniteSet(new) /\ Cardinality(new) = IF v > 0 THEN v ELSE 0
  BY FrancsOfOne
<1> HIDE DEF new
<1>4. /\ IsFiniteSet(Francs(f) \cup new)
      /\ Cardinality(Francs(f) \cup new)
           = Cardinality(Francs(f)) + Cardinality(new) - Cardinality(Francs(f) \cap new)
  BY <1>3, FS_Union
<1>5. Cardinality(Francs(f)) \in Nat /\ Cardinality(new) \in Nat
  BY <1>3, FS_CardinalityType
<1>6. Cardinality(Francs(f) \cap new) = 0
  BY <1>2, FS_EmptySet
<1> QED
  BY <1>1, <1>3, <1>4, <1>5, <1>6 DEF Total

\* No value, no franc.
LEMMA TotalOfNone ==
  ASSUME NEW f, DOMAIN f = {}
  PROVE  IsFiniteSet(Francs(f)) /\ Total(f) = 0
<1>1. Francs(f) = {}
  BY DEF Francs
<1> QED
  BY <1>1, FS_EmptySet DEF Total

\* Debits less credits of a list of postings, and a list they can be counted of.
Balance(f) == Total(f) - Total(Opposite(f))
Countable(f) == IsFiniteSet(Francs(f)) /\ IsFiniteSet(Francs(Opposite(f)))

\* One more posting moves a balance by its amount, debit or credit.
LEMMA BalanceOfOneMore ==
  ASSUME NEW f, NEW g, NEW x, NEW v \in Int, OneMore(f, g, x, v), Countable(f)
  PROVE  Countable(g) /\ Balance(g) = Balance(f) + v
<1>1. /\ IsFiniteSet(Francs(g)) /\ Total(f) \in Nat
      /\ Total(g) = Total(f) + (IF v > 0 THEN v ELSE 0)
  BY TotalOfOneMore DEF Countable
<1>2. OneMore(Opposite(f), Opposite(g), x, 0 - v) /\ IsFiniteSet(Francs(Opposite(f)))
  BY DEF Opposite, Countable, OneMore
<1>3. /\ IsFiniteSet(Francs(Opposite(g))) /\ Total(Opposite(f)) \in Nat
      /\ Total(Opposite(g)) = Total(Opposite(f)) + (IF 0 - v > 0 THEN 0 - v ELSE 0)
  BY <1>2, TotalOfOneMore
<1> QED
  BY <1>1, <1>3 DEF Balance, Countable

\* The postings of some transactions in any journal: Postings is its value in
\* the present one.
Lines(journal, ts, a) ==
  [line \in UNION {{t} \X DOMAIN journal[t] : t \in ts} |-> journal[line[1]][line[2]][a]]

\* A line of those postings: one of the transactions has that entry.
LEMMA LinesDomain ==
  ASSUME NEW journal, NEW ts, NEW a
  PROVE  \A line : line \in DOMAIN Lines(journal, ts, a)
                     <=> \E t \in ts : \E i \in DOMAIN journal[t] : line = <<t, i>>
<1>1. DOMAIN Lines(journal, ts, a) = UNION {{t} \X DOMAIN journal[t] : t \in ts}
  BY DEF Lines
<1>2. \A line : line \in UNION {{t} \X DOMAIN journal[t] : t \in ts}
                  <=> \E t \in ts : \E i \in DOMAIN journal[t] : line = <<t, i>>
  OBVIOUS
<1> QED
  BY <1>1, <1>2

\* What such a line says.
LEMMA LinesValue ==
  ASSUME NEW journal, NEW ts, NEW a, NEW t \in ts, NEW i \in DOMAIN journal[t]
  PROVE  Lines(journal, ts, a)[<<t, i>>] = journal[t][i][a]
<1>1. <<t, i>> \in UNION {{u} \X DOMAIN journal[u] : u \in ts}
  OBVIOUS
<1> QED
  BY <1>1 DEF Lines

\* Two sets of transactions with the same entries have the same postings: a
\* transaction without an entry may come or go.
LEMMA LinesKept ==
  ASSUME NEW j, NEW k, NEW ts, NEW us, NEW a,
         \A t \in ts \cup us : k[t] = j[t],
         \A t \in ts \cup us : (t \in ts /\ t \in us) \/ DOMAIN j[t] = {}
  PROVE  Lines(k, us, a) = Lines(j, ts, a)
<1>1. \A t : \A i : t \in ts /\ i \in DOMAIN j[t] <=> t \in us /\ i \in DOMAIN k[t]
  OBVIOUS
<1>2. \A line : line \in DOMAIN Lines(j, ts, a) <=> line \in DOMAIN Lines(k, us, a)
  <2>1. \A line : (\E t \in ts : \E i \in DOMAIN j[t] : line = <<t, i>>)
                    <=> (\E t \in us : \E i \in DOMAIN k[t] : line = <<t, i>>)
    BY <1>1, Zenon
  <2>2. \A line : line \in DOMAIN Lines(j, ts, a)
                    <=> \E t \in ts : \E i \in DOMAIN j[t] : line = <<t, i>>
    BY LinesDomain
  <2>3. \A line : line \in DOMAIN Lines(k, us, a)
                    <=> \E t \in us : \E i \in DOMAIN k[t] : line = <<t, i>>
    BY LinesDomain
  <2> QED
    BY <2>1, <2>2, <2>3, Zenon
<1>3. ASSUME NEW line \in DOMAIN Lines(j, ts, a)
      PROVE  Lines(k, us, a)[line] = Lines(j, ts, a)[line]
  <2>1. PICK t \in ts : \E i \in DOMAIN j[t] : line = <<t, i>>
    BY <1>3, LinesDomain
  <2>2. PICK i \in DOMAIN j[t] : line = <<t, i>>
    BY <2>1
  <2>3. t \in us /\ i \in DOMAIN k[t] /\ k[t] = j[t]
    BY <1>1, <2>1, <2>2
  <2>4. Lines(j, ts, a)[<<t, i>>] = j[t][i][a] /\ Lines(k, us, a)[<<t, i>>] = k[t][i][a]
    BY <2>1, <2>2, <2>3, LinesValue
  <2> QED
    BY <2>2, <2>3, <2>4
<1>4. DOMAIN Lines(j, ts, a) = DOMAIN Lines(k, us, a)
  BY <1>2
<1>5. /\ Lines(j, ts, a) = [line \in DOMAIN Lines(j, ts, a) |-> Lines(j, ts, a)[line]]
      /\ Lines(k, us, a) = [line \in DOMAIN Lines(k, us, a) |-> Lines(k, us, a)[line]]
  BY DEF Lines
<1> HIDE DEF Lines
<1> QED
  BY <1>3, <1>4, <1>5

\* Two journals with the same entries, but for those of t.
SameBut(j, k, ts, t) == \A u \in ts \ {t} : k[u] = j[u]

\* An entry that is booked is one more line.
LEMMA LinesOfOneMore ==
  ASSUME NEW j, NEW k, NEW ts, NEW t \in ts, NEW n, NEW e, NEW a,
         OneMore(j[t], k[t], n, e), SameBut(j, k, ts, t)
  PROVE  OneMore(Lines(j, ts, a), Lines(k, ts, a), <<t, n>>, e[a])
<1> USE DEF OneMore, SameBut
<1> DEFINE x == <<t, n>>
<1>0. /\ \A line : line \in DOMAIN Lines(j, ts, a)
                     <=> \E u \in ts : \E i \in DOMAIN j[u] : line = <<u, i>>
      /\ \A line : line \in DOMAIN Lines(k, ts, a)
                     <=> \E u \in ts : \E i \in DOMAIN k[u] : line = <<u, i>>
  BY LinesDomain
<1>3. x \notin DOMAIN Lines(j, ts, a)
  <2> SUFFICES ASSUME x \in DOMAIN Lines(j, ts, a) PROVE FALSE
    OBVIOUS
  <2>1. PICK u \in ts : \E i \in DOMAIN j[u] : x = <<u, i>>
    BY <1>0
  <2> QED
    BY <2>1
<1>4. ASSUME NEW line
      PROVE  line \in DOMAIN Lines(k, ts, a) <=> line \in DOMAIN Lines(j, ts, a) \cup {x}
  <2>1. (\E u \in ts : \E i \in DOMAIN k[u] : line = <<u, i>>)
          <=> (\E u \in ts : \E i \in DOMAIN j[u] : line = <<u, i>>) \/ line = x
    <3>1. \A u \in ts : \A i : i \in DOMAIN k[u] <=> i \in DOMAIN j[u] \/ (u = t /\ i = n)
      OBVIOUS
    <3> QED
      BY <3>1
  <2> QED
    BY <2>1, <1>0
<1>5. ASSUME NEW y \in DOMAIN Lines(j, ts, a)
      PROVE  Lines(k, ts, a)[y] = Lines(j, ts, a)[y]
  <2>1. PICK u \in ts : \E i \in DOMAIN j[u] : y = <<u, i>>
    BY <1>5, <1>0
  <2>2. PICK i \in DOMAIN j[u] : y = <<u, i>>
    BY <2>1
  <2>3. i \in DOMAIN k[u] /\ k[u][i] = j[u][i]
    BY <2>1, <2>2
  <2>4. Lines(j, ts, a)[<<u, i>>] = j[u][i][a] /\ Lines(k, ts, a)[<<u, i>>] = k[u][i][a]
    BY <2>1, <2>2, <2>3, LinesValue
  <2> QED
    BY <2>2, <2>3, <2>4
<1>6. Lines(k, ts, a)[x] = e[a]
  <2>1. t \in ts /\ n \in DOMAIN k[t]
    OBVIOUS
  <2>2. Lines(k, ts, a)[<<t, n>>] = k[t][n][a]
    BY <2>1, LinesValue
  <2> QED
    BY <2>2
<1> QED
  BY <1>3, <1>4, <1>5, <1>6

---------------------------------------------------------------------------
(* The audit of a payment and its row. *)

\* The ways the postings the audit of a payment lists go through one step: they
\* stay what they are, or one entry is added and moves the position.
Unmoved(p) ==
  /\ position'[p] = position[p]
  /\ \A t \in Concerned(p) \cup Concerned(p)' : entries'[t] = entries[t]
  /\ \A t \in Concerned(p) \cup Concerned(p)' :
       (t \in Concerned(p) /\ t \in Concerned(p)') \/ DOMAIN entries[t] = {}

MovedBy(p, t, e) ==
  /\ Concerned(p)' = Concerned(p) /\ t \in Concerned(p)
  /\ entries'[t] = Append(entries[t], e)
  /\ \A u \in Concerned(p) \ {t} : entries'[u] = entries[u]
  /\ position'[p] = [a \in Account |-> position[p][a] + e[a]]

\* An entry booked on a payment or on one of its refunds is seen by the audit of
\* that payment and by no other.
LEMMA BookingIsSeen ==
  ASSUME IInv, NEW q \in Payment, NEW t \in Transaction, t = q \/ (t \in Refund /\ parent[t] = q),
         NEW e \in [Account -> Int], Book(t, q, e), parent' = parent,
         NEW p \in Payment
  PROVE  Unmoved(p) \/ MovedBy(p, t, e)
<1>0. /\ entries \in [Transaction -> Seq([Account -> Int])] /\ Concerned(p)' = Concerned(p)
      /\ position \in [Payment -> [Account -> Int]]
      /\ Concerned(p) \subseteq Transaction
  BY DEF IInv, TypeOK, Concerned, Transaction
<1>1. entries' = [entries EXCEPT ![t] = Append(entries[t], e)]
      /\ position' = [position EXCEPT ![q] = [a \in Account |-> position[q][a] + e[a]]]
  BY DEF Book
<1>2. CASE p = q
  <2>1. t \in Concerned(p)
    BY <1>2 DEF Concerned
  <2> QED
    BY <1>0, <1>1, <1>2, <2>1 DEF MovedBy
<1>3. CASE p # q
  <2>1. t \notin Concerned(p)
    BY <1>3, LedgerAssumption DEF Concerned
  <2>2. position'[p] = position[p] /\ \A u \in Concerned(p) : entries'[u] = entries[u]
    BY <1>0, <1>1, <1>3, <2>1
  <2> QED
    BY <1>0, <2>2 DEF Unmoved
<1> QED
  BY <1>2, <1>3

\* Every committed SQL transaction adds one entry to what the audit of a payment
\* lists, or none; the refund it may add or remove has no entry.
LEMMA AuditSteps ==
  ASSUME IInv, Next, NEW p \in Payment
  PROVE  Unmoved(p) \/ \E t \in Transaction, e \in [Account -> Int] : MovedBy(p, t, e)
<1>0. /\ Payment \subseteq Transaction /\ Refund \subseteq Transaction
      /\ amount \in [Transaction -> Nat] /\ refunded \in [Transaction -> Nat]
      /\ parent \in [Refund -> Payment \cup {NoPayment}]
  BY DEF IInv, TypeOK, Transaction
<1>1. CASE UNCHANGED <<parent, books>>
  BY <1>1 DEF books, Unmoved, Concerned
<1>2. ASSUME NEW r \in Refund, parent' = [parent EXCEPT ![r] = parent'[r]], UNCHANGED books,
             status[r] # "SUCCEEDED"
      PROVE  Unmoved(p)
  <2>1. entries[r] = <<>>
    BY <1>2 DEF IInv, BookedOnce
  <2>2. \A t \in Refund \ {r} : parent'[t] = parent[t]
    BY <1>0, <1>2
  <2>3. \A t \in Concerned(p) \cup Concerned(p)' :
          (t \in Concerned(p) /\ t \in Concerned(p)') \/ t = r
    BY <2>2 DEF Concerned
  <2> QED
    BY <1>2, <2>1, <2>3 DEF Unmoved, books
<1>3. ASSUME NEW q \in Payment, SettlePayment(q)
      PROVE  Unmoved(p) \/ \E t \in Transaction, e \in [Account -> Int] : MovedBy(p, t, e)
  <2>1. PaymentEntry(amount[q]) \in [Account -> Int] /\ q \in Transaction
    BY <1>0, EntryTypes
  <2> QED
    BY <1>3, <2>1, BookingIsSeen DEF SettlePayment, attributes
<1>4. ASSUME NEW r \in Refund, SettleRefund(r)
      PROVE  Unmoved(p) \/ \E t \in Transaction, e \in [Account -> Int] : MovedBy(p, t, e)
  <2>1. ReturnEntry(amount[r]) \in [Account -> Int] /\ r \in Transaction /\ parent[r] \in Payment
    BY <1>0, <1>4, EntryTypes, SettleRefundEffect DEF IInv, RefundEffect
  <2> QED
    BY <1>4, <2>1, BookingIsSeen DEF SettleRefund, attributes
<1>5. ASSUME NEW q \in Payment, ReverseDispute(q)
      PROVE  Unmoved(p) \/ \E t \in Transaction, e \in [Account -> Int] : MovedBy(p, t, e)
  <2>1. amount[q] - refunded[q] \in Nat
    BY <1>0, <1>5 DEF ReverseDispute
  <2>2. ReturnEntry(amount[q] - refunded[q]) \in [Account -> Int] /\ q \in Transaction
    BY <1>0, <2>1, EntryTypes
  <2> QED
    BY <1>5, <2>2, BookingIsSeen DEF ReverseDispute, attributes
<1>6. ASSUME NEW r \in Refund, CommitRefund(r)
      PROVE  UNCHANGED <<parent, books>>
  BY <1>6 DEF CommitRefund, attributes
<1>7. ASSUME NEW r \in Refund, AbortRefund(r)
      PROVE  Unmoved(p)
  <2>1. status[r] # "SUCCEEDED"
    BY <1>7 DEF AbortRefund, IInv, InsertingIsInvisible, Exists
  <2>2. parent' = [parent EXCEPT ![r] = parent'[r]] /\ UNCHANGED books
    BY <1>0, <1>7 DEF AbortRefund
  <2> QED
    BY <1>2, <2>1, <2>2
<1>8. ASSUME NEW r \in Refund, NEW q \in Payment, NEW a \in Amount, CheckRefund(r, q, a)
      PROVE  Unmoved(p)
  <2>1. status[r] # "SUCCEEDED"
    BY <1>8 DEF CheckRefund
  <2>2. parent' = [parent EXCEPT ![r] = parent'[r]] /\ UNCHANGED books
    BY <1>0, <1>8 DEF CheckRefund
  <2> QED
    BY <1>2, <2>1, <2>2
<1> QED
  BY <1>1, <1>3, <1>4, <1>5, <1>6, <1>7, <1>8
     DEF Next, CreatePayment, ChangeStatus, LateAcknowledgment, DeadlinePasses, ExpireBatch,
         attributes

\* The inductive invariant: the sums are finite, and give the position.
AuditIsExact ==
  \A p \in Payment, a \in Account :
    LET lines == Lines(entries, Concerned(p), a) IN
    Countable(lines) /\ Balance(lines) = position[p][a]

LEMMA AuditIsExactNext ==
  ASSUME IInv, AuditIsExact, [Next]_vars
  PROVE  AuditIsExact'
<1>1. CASE Next
  <2>1. SUFFICES ASSUME NEW p \in Payment, NEW a \in Account
                 PROVE  /\ Countable(Lines(entries', Concerned(p)', a))
                        /\ Balance(Lines(entries', Concerned(p)', a)) = position'[p][a]
    BY DEF AuditIsExact
  <2> PICK old, new, was, is : /\ old = Lines(entries, Concerned(p), a)
                               /\ new = Lines(entries', Concerned(p)', a)
                               /\ was = position[p][a] /\ is = position'[p][a]
    BY Zenon
  <2>2. Countable(old) /\ Balance(old) = was
    BY DEF AuditIsExact
  <2>3. CASE Unmoved(p)
    <3>1. new = old
      BY <2>3, LinesKept DEF Unmoved
    <3> QED
      BY <2>2, <2>3, <3>1 DEF Unmoved
  <2>4. ASSUME NEW t \in Transaction, NEW e \in [Account -> Int], MovedBy(p, t, e)
        PROVE  Countable(new) /\ Balance(new) = is
    <3>1. PICK n : OneMore(entries[t], entries'[t], n, e)
      <4>1. entries[t] \in Seq([Account -> Int]) /\ entries'[t] = Append(entries[t], e)
        BY <2>4 DEF IInv, TypeOK, MovedBy
      <4>2. OneMore(entries[t], entries'[t], Len(entries[t]) + 1, e)
        BY <4>1 DEF OneMore
      <4> QED
        BY <4>2
    <3>2. OneMore(old, new, <<t, n>>, e[a])
      <4>1. Concerned(p)' = Concerned(p) /\ t \in Concerned(p)
        BY <2>4 DEF MovedBy
      <4>2. SameBut(entries, entries', Concerned(p), t)
        BY <2>4 DEF MovedBy, SameBut
      <4>3. OneMore(Lines(entries, Concerned(p), a), Lines(entries', Concerned(p), a),
                    <<t, n>>, e[a])
        BY <3>1, <4>1, <4>2, LinesOfOneMore
      <4> QED
        BY <4>1, <4>3
    <3>3. e[a] \in Int /\ is = was + e[a] /\ was \in Int
      BY <2>4 DEF MovedBy, IInv, TypeOK
    <3>4. Countable(new) /\ Balance(new) = Balance(old) + e[a]
      BY <2>2, <3>2, <3>3, BalanceOfOneMore
    <3> QED
      BY <2>2, <3>3, <3>4
  <2> QED
    BY <1>1, <2>3, <2>4, AuditSteps
<1>2. CASE UNCHANGED vars
  BY <1>2 DEF vars, books, attributes, AuditIsExact, Concerned
<1> QED
  BY <1>1, <1>2

\* Before anything is booked the sums are those of nothing.
LEMMA AuditIsExactInit == Init => AuditIsExact
<1> SUFFICES ASSUME Init, NEW p \in Payment, NEW a \in Account
             PROVE  /\ Countable(Lines(entries, Concerned(p), a))
                    /\ Balance(Lines(entries, Concerned(p), a)) = position[p][a]
  BY DEF AuditIsExact
<1> DEFINE lines == Lines(entries, Concerned(p), a)
<1>1. \A t \in Concerned(p) : DOMAIN entries[t] = {}
  BY DEF Init, Concerned, Transaction
<1>2. DOMAIN lines = {}
  BY <1>1, LinesDomain
<1> HIDE DEF lines
<1>3. DOMAIN Opposite(lines) = {}
  BY <1>2 DEF Opposite
<1>4. Countable(lines) /\ Balance(lines) = 0
  BY <1>2, <1>3, TotalOfNone DEF Countable, Balance
<1> QED
  BY <1>4 DEF Init, lines

\* The audit of a payment, added up line by line, says what the row says.
THEOREM AuditAgrees == Spec => []AuditAgreesWithRow
<1>1. IInv /\ AuditIsExact => AuditAgreesWithRow
  <2> SUFFICES ASSUME IInv, AuditIsExact, NEW p \in Payment
               PROVE  /\ AuditedBalance(p, "clearing") = Held(p)
                      /\ AuditedBalance(p, "payable") = Kept(p) - Held(p)
                      /\ AuditedBalance(p, "fees") = 0 - Kept(p)
    BY DEF AuditAgreesWithRow
  <2>1. \A a \in Account : AuditedBalance(p, a) = position[p][a]
    BY DEF AuditIsExact, AuditedBalance, Balance, Postings, Lines
  <2> QED
    BY <2>1 DEF IInv, BooksMatchRow, Account
<1> QED
  BY <1>1, AuditIsExactInit, AuditIsExactNext, Invariance, PTL DEF Spec

---------------------------------------------------------------------------
(* The refunded amount of a payment and the refunds that make it up. *)

\* The amounts the succeeded refunds gave back, and what a lost dispute took.
Parts(p) == [r \in GivenBack(p) |-> amount[r]]
Taken(p) == IF status[p] = "REVERSED" THEN entries[p][2].payable ELSE 0

\* The ways both go through one step, with the refunded amount: nothing changes, a
\* refund is added, or the rest is taken.
SumKept(p) ==
  /\ Parts(p)' = Parts(p) /\ refunded'[p] = refunded[p] /\ Taken(p)' = Taken(p)
SumGrows(p, r) ==
  /\ OneMore(Parts(p), Parts(p)', r, amount[r])
  /\ refunded'[p] = refunded[p] + amount[r] /\ Taken(p)' = 0 /\ Taken(p) = 0
SumCloses(p) ==
  /\ Parts(p)' = Parts(p)
  /\ Taken(p) = 0 /\ refunded'[p] = refunded[p] + Taken(p)'

\* Refunds that keep their status, once it is SUCCEEDED, keep the parts.
LEMMA PartsKept ==
  ASSUME NEW p,
         \A r \in Refund : status'[r] = "SUCCEEDED" <=> status[r] = "SUCCEEDED",
         \A r \in Refund : status[r] = "SUCCEEDED" => amount'[r] = amount[r] /\ parent'[r] = parent[r]
  PROVE  Parts(p)' = Parts(p)
<1>1. GivenBack(p)' = GivenBack(p) /\ \A r \in GivenBack(p) : amount'[r] = amount[r]
  BY DEF GivenBack
<1> QED
  BY <1>1 DEF Parts

\* What the settlement of a refund does to the sums.
LEMMA SettleRefundSum ==
  ASSUME IInv, NEW r \in Refund, SettleRefund(r), NEW p \in Payment
  PROVE  SumKept(p) \/ SumGrows(p, r)
<1>0. PICK q : q = parent[r]
  OBVIOUS
<1>9. RefundEffect(r, q)
  BY <1>0, SettleRefundEffect DEF IInv
<1>1. RefundEffect(r, q) /\ q \notin Refund /\ q # r
  BY <1>9, LedgerAssumption DEF RefundEffect
<1>2. /\ \A u \in Refund : amount'[u] = amount[u] /\ parent'[u] = parent[u]
      /\ \A u \in Refund \ {r} : status'[u] = status[u]
      /\ status'[r] = "SUCCEEDED" /\ status[r] = "PENDING"
  BY <1>1 DEF RefundEffect, Transaction
<1>3. CASE p = q
  <2>1. GivenBack(p)' = GivenBack(p) \cup {r} /\ r \notin GivenBack(p)
    BY <1>0, <1>2, <1>3 DEF GivenBack
  <2>2. OneMore(Parts(p), Parts(p)', r, amount[r])
    BY <1>2, <2>1 DEF OneMore, Parts, GivenBack
  <2>3. status[p] # "REVERSED" /\ status'[p] # "REVERSED"
    BY <1>1, <1>3 DEF RefundEffect, UpdateAllowed, ParentStatus, StatusTransitions
  <2> QED
    BY <1>1, <1>3, <2>2, <2>3 DEF RefundEffect, SumGrows, Taken
<1>4. CASE p # q
  <2>1. GivenBack(p)' = GivenBack(p)
    BY <1>0, <1>2, <1>4 DEF GivenBack
  <2>2. Parts(p)' = Parts(p)
    BY <1>2, <2>1 DEF Parts, GivenBack
  <2>3. status'[p] = status[p] /\ refunded'[p] = refunded[p] /\ entries'[p] = entries[p]
    BY <1>1, <1>4, LedgerAssumption DEF RefundEffect, Transaction
  <2> QED
    BY <2>2, <2>3 DEF SumKept, Taken
<1> QED
  BY <1>3, <1>4

\* A lost dispute takes the rest of the payment, and no part changes.
LEMMA ReversalSum ==
  ASSUME IInv, NEW q \in Payment, ReverseDispute(q), NEW p \in Payment
  PROVE  SumKept(p) \/ SumCloses(p)
<1>0. PICK rest : rest = amount[q] - refunded[q]
  OBVIOUS
<1>1. /\ status[q] = "DISPUTED" /\ q \in Transaction /\ p \in Transaction /\ q \notin Refund
      /\ status' = [status EXCEPT ![q] = "REVERSED"]
      /\ refunded' = [refunded EXCEPT ![q] = amount[q]]
      /\ entries' = [entries EXCEPT ![q] = Append(@, ReturnEntry(rest))]
      /\ amount' = amount /\ parent' = parent
  BY <1>0, LedgerAssumption DEF ReverseDispute, IsReversal, Book, attributes, Transaction
<1>2. /\ status \in [Transaction -> Status \cup {"ABSENT"}] /\ refunded \in [Transaction -> Nat]
      /\ amount \in [Transaction -> Nat] /\ entries \in [Transaction -> Seq([Account -> Int])]
  BY DEF IInv, TypeOK
<1>3. Parts(p)' = Parts(p)
  BY <1>1, <1>2, PartsKept DEF Transaction
<1>4. CASE p = q
  <2>1. entries[p] = <<PaymentEntry(amount[p])>>
    BY <1>1, <1>4 DEF IInv, BookedOnce, Collected
  <2>2. entries'[p] = Append(<<PaymentEntry(amount[p])>>, ReturnEntry(rest))
    BY <1>1, <1>2, <1>4, <2>1
  <2>3. entries'[p][2] = ReturnEntry(rest)
    BY <2>2
  <2>4. entries'[p][2].payable = rest
    BY <2>3 DEF ReturnEntry
  <2>5. status[p] # "REVERSED" /\ status'[p] = "REVERSED" /\ refunded'[p] = amount[p]
    BY <1>1, <1>2, <1>4
  <2>6. Taken(p) = 0 /\ Taken(p)' = rest
    BY <2>4, <2>5 DEF Taken
  <2>7. refunded'[p] = refunded[p] + rest
    BY <1>0, <1>1, <1>2, <1>4, <2>5
  <2> QED
    BY <1>3, <2>6, <2>7 DEF SumCloses
<1>5. CASE p # q
  BY <1>1, <1>2, <1>3, <1>5 DEF SumKept, Taken
<1> QED
  BY <1>4, <1>5

\* A step that keeps the status of the succeeded refunds and of the reversed
\* payments, and their entries, keeps the sums.
LEMMA QuietSum ==
  ASSUME NEW p, entries' = entries \/ status[p] # "REVERSED",
         \A r \in Refund : status'[r] = "SUCCEEDED" <=> status[r] = "SUCCEEDED",
         \A r \in Refund : status[r] = "SUCCEEDED" => amount'[r] = amount[r] /\ parent'[r] = parent[r],
         status'[p] = "REVERSED" <=> status[p] = "REVERSED", refunded'[p] = refunded[p]
  PROVE  SumKept(p)
<1>1. Parts(p)' = Parts(p)
  BY PartsKept
<1>2. Taken(p)' = Taken(p)
  BY DEF Taken
<1> QED
  BY <1>1, <1>2 DEF SumKept

\* A transition that moves no money, or the job, neither settles a refund nor
\* reverses a payment: the requests that would are treated apart.
LEMMA ChangeStatusSum ==
  ASSUME IInv, NEW t \in Transaction, NEW to \in Status, ChangeStatus(t, to), NEW p \in Payment
  PROVE  SumKept(p)
<1>1. /\ status \in [Transaction -> Status \cup {"ABSENT"}] /\ status[t] # "ABSENT"
      /\ status' = [status EXCEPT ![t] = to] /\ Transaction = Payment \cup Refund
      /\ UNCHANGED <<refunded, amount, parent, entries>>
      /\ UpdateAllowed(status[t], refunded[t], to, refunded[t])
      /\ RowCheck(t \in Payment, to, amount[t], refunded[t])
      /\ ~IsSettlement(t, to) /\ ~IsReversal(t, to)
  BY DEF ChangeStatus, UpdateOK, attributes, books, IInv, TypeOK, Transaction
<1>2. RowCheck(t \in Payment, status[t], amount[t], refunded[t])
  BY <1>1 DEF IInv, RowsPassChecks, Exists
<1>3. CASE t \in Payment
  <2>1. to = "REVERSED" <=> status[t] = "REVERSED"
    BY <1>1 DEF UpdateAllowed, StatusTransitions, IsReversal
  <2> QED
    BY <1>1, <1>3, <2>1, QuietSum, LedgerAssumption
<1>4. CASE t \in Refund
  <2>1. (t \in Payment) = FALSE
    BY <1>4, LedgerAssumption
  <2>2. to = "SUCCEEDED" <=> status[t] = "SUCCEEDED"
    BY <1>1, <1>2, <2>1 DEF UpdateAllowed, StatusTransitions, IsSettlement, RowCheck, Unrefunded
  <2> QED
    BY <1>1, <1>4, <2>1, <2>2, QuietSum
<1> QED
  BY <1>1, <1>3, <1>4

\* Every transaction that neither settles a refund nor reverses a payment leaves
\* the sums alone; a payment is created with nothing to add up.
LEMMA OtherSum ==
  ASSUME IInv, Next, NEW p \in Payment,
         ~\E r \in Refund : SettleRefund(r), ~\E q \in Payment : ReverseDispute(q)
  PROVE  SumKept(p) \/ (~Exists(p) /\ Parts(p)' = Parts(p) /\ Taken(p)' = 0 /\ refunded'[p] = 0)
<1>0. /\ status \in [Transaction -> Status \cup {"ABSENT"}] /\ Transaction = Payment \cup Refund
      /\ refunded \in [Transaction -> Nat] /\ amount \in [Transaction -> Nat]
      /\ parent \in [Refund -> Payment \cup {NoPayment}] /\ p \in Transaction
  BY DEF IInv, TypeOK, Transaction
<1>1. ASSUME NEW q \in Payment, NEW a \in Amount, NEW c \in Currency, CreatePayment(q, a, c)
      PROVE  SumKept(p) \/ (~Exists(p) /\ Parts(p)' = Parts(p) /\ Taken(p)' = 0 /\ refunded'[p] = 0)
  <2>1. /\ status' = [status EXCEPT ![q] = "INITIATED"] /\ status[q] = "ABSENT"
        /\ refunded' = [refunded EXCEPT ![q] = 0] /\ amount' = [amount EXCEPT ![q] = a]
        /\ parent' = parent /\ entries' = entries /\ q \notin Refund /\ q \in Transaction
    BY <1>0, <1>1, LedgerAssumption DEF CreatePayment, InsertRow, books
  <2>2. /\ \A r \in Refund : status'[r] = "SUCCEEDED" <=> status[r] = "SUCCEEDED"
        /\ \A r \in Refund : status[r] = "SUCCEEDED" => amount'[r] = amount[r] /\ parent'[r] = parent[r]
    BY <1>0, <2>1
  <2>3. CASE p = q
    <3>1. Parts(p)' = Parts(p)
      BY <2>2, PartsKept
    <3> QED
      BY <1>0, <2>1, <2>3, <3>1 DEF Exists, Taken
  <2>4. CASE p # q
    BY <1>0, <2>1, <2>2, <2>4, QuietSum
  <2> QED
    BY <2>3, <2>4
<1>2. ASSUME NEW r \in Refund, CommitRefund(r) PROVE SumKept(p)
  <2>1. /\ status' = [status EXCEPT ![r] = "INITIATED"] /\ status[r] = "ABSENT"
        /\ refunded' = [refunded EXCEPT ![r] = 0] /\ p # r
        /\ parent' = parent /\ entries' = entries /\ amount' = amount
    BY <1>2, LedgerAssumption
       DEF CommitRefund, InsertRow, books, attributes, IInv, InsertingIsInvisible, Exists
  <2> QED
    BY <1>0, <2>1, QuietSum
<1>3. ASSUME NEW r \in Refund, AbortRefund(r) PROVE SumKept(p)
  <2>1. /\ status' = status /\ status[r] = "ABSENT" /\ refunded' = refunded /\ entries' = entries
        /\ \A u \in Refund \ {r} : amount'[u] = amount[u] /\ parent'[u] = parent[u]
    BY <1>0, <1>3 DEF AbortRefund, row, books, IInv, InsertingIsInvisible, Exists
  <2> QED
    BY <2>1, QuietSum
<1>4. ASSUME NEW r \in Refund, NEW q \in Payment, NEW a \in Amount, CheckRefund(r, q, a)
      PROVE  SumKept(p)
  <2>1. /\ status' = status /\ status[r] = "ABSENT" /\ refunded' = refunded /\ entries' = entries
        /\ \A u \in Refund \ {r} : amount'[u] = amount[u] /\ parent'[u] = parent[u]
    BY <1>0, <1>4 DEF CheckRefund, row, books
  <2> QED
    BY <2>1, QuietSum
<1>5. ASSUME NEW q \in Payment, SettlePayment(q) PROVE SumKept(p)
  <2>1. /\ status' = [status EXCEPT ![q] = "SUCCEEDED"] /\ status[q] = "PENDING"
        /\ refunded' = refunded /\ amount' = amount /\ parent' = parent /\ q \notin Refund
        /\ entries' = [entries EXCEPT ![q] = Append(@, PaymentEntry(amount[q]))]
    BY <1>5, LedgerAssumption DEF SettlePayment, IsSettlement, Book, attributes
  <2>2. /\ status'[p] = "REVERSED" <=> status[p] = "REVERSED"
        /\ status[p] = "REVERSED" => entries'[p] = entries[p]
    BY <1>0, <2>1 DEF IInv, TypeOK
  <2>3. Parts(p)' = Parts(p)
    BY <1>0, <2>1, PartsKept
  <2> QED
    BY <2>1, <2>2, <2>3 DEF SumKept, Taken
<1>6. ASSUME NEW batch \in SUBSET Transaction, ExpireBatch(batch) PROVE SumKept(p)
  <2>1. /\ \A t \in Transaction : status'[t] = IF t \in batch THEN "EXPIRED" ELSE status[t]
        /\ \A t \in batch : status[t] = "PENDING"
        /\ UNCHANGED <<refunded, amount, parent, entries>>
    BY <1>6 DEF ExpireBatch, Expirable, attributes, books
  <2> QED
    BY <1>0, <2>1, QuietSum
<1>7. CASE UNCHANGED <<status, refunded, amount, parent, entries>>
  BY <1>7, QuietSum
<1> QED
  BY <1>1, <1>2, <1>3, <1>4, <1>5, <1>6, <1>7, ChangeStatusSum
     DEF Next, LateAcknowledgment, DeadlinePasses, attributes, books, row

\* The inductive invariant: the parts can be counted, and nothing was given back
\* but them and what a lost dispute took.
RefundsAddUp ==
  \A p \in Payment :
    IsFiniteSet(Francs(Parts(p))) /\ refunded[p] = Total(Parts(p)) + Taken(p)

LEMMA RefundsAddUpNext ==
  ASSUME IInv, RefundsAddUp, [Next]_vars
  PROVE  RefundsAddUp'
<1>1. ASSUME Next, NEW p \in Payment
      PROVE  IsFiniteSet(Francs(Parts(p)')) /\ refunded'[p] = Total(Parts(p)') + Taken(p)'
  <2>1. /\ IsFiniteSet(Francs(Parts(p))) /\ refunded[p] = Total(Parts(p)) + Taken(p)
        /\ Total(Parts(p)) \in Nat
    BY FS_CardinalityType DEF RefundsAddUp, Total
  <2>2. CASE SumKept(p)
    BY <2>1, <2>2 DEF SumKept
  <2>3. CASE SumCloses(p)
    <3>1. Taken(p) = 0 /\ refunded[p] = Total(Parts(p))
      BY <2>1, <2>3 DEF SumCloses
    <3> QED
      BY <2>1, <2>3, <3>1 DEF SumCloses
  <2>4. ASSUME NEW r \in Refund, SumGrows(p, r)
        PROVE  IsFiniteSet(Francs(Parts(p)')) /\ refunded'[p] = Total(Parts(p)') + Taken(p)'
    <3>1. amount[r] \in Nat /\ amount[r] \in Int
      BY DEF IInv, TypeOK, Transaction
    <3>2. /\ IsFiniteSet(Francs(Parts(p)'))
          /\ Total(Parts(p)') = Total(Parts(p)) + (IF amount[r] > 0 THEN amount[r] ELSE 0)
      BY <2>1, <2>4, <3>1, TotalOfOneMore DEF SumGrows
    <3> QED
      BY <2>1, <2>4, <3>1, <3>2 DEF SumGrows
  <2>5. CASE ~Exists(p) /\ Parts(p)' = Parts(p) /\ Taken(p)' = 0 /\ refunded'[p] = 0
    <3>1. GivenBack(p) = {}
      BY <2>5 DEF GivenBack, IInv, RefundHasCollectedParent, Exists, Collected
    <3>2. Total(Parts(p)) = 0
      BY <3>1, TotalOfNone DEF Parts
    <3> QED
      BY <2>1, <2>5, <3>2
  <2> QED
    BY <1>1, <2>2, <2>3, <2>4, <2>5, OtherSum, ReversalSum, SettleRefundSum
<1>2. CASE UNCHANGED vars
  BY <1>2 DEF vars, row, books, attributes, RefundsAddUp, Parts, GivenBack, Taken
<1> QED
  BY <1>1, <1>2 DEF RefundsAddUp

LEMMA PartsAddUp == Spec => []RefundsAddUp
<1>1. Init => RefundsAddUp
  <2> SUFFICES ASSUME Init, NEW p \in Payment
               PROVE  IsFiniteSet(Francs(Parts(p))) /\ refunded[p] = Total(Parts(p)) + Taken(p)
    BY DEF RefundsAddUp
  <2>1. DOMAIN Parts(p) = {}
    BY DEF Init, Parts, GivenBack, Transaction
  <2>2. refunded[p] = 0 /\ Taken(p) = 0
    BY DEF Init, Taken, Transaction
  <2> QED
    BY <2>1, <2>2, TotalOfNone
<1> QED
  BY <1>1, RefundsAddUpNext, Invariance, PTL DEF Spec

\* A row's refunded amount is no balance kept on the side that may drift from the
\* refunds: it is their sum, with the rest a lost dispute took, in any order.
THEOREM RefundsAdd == Spec => []RefundedIsTheSum
<1>1. RefundsAddUp => RefundedIsTheSum
  BY DEF RefundsAddUp, RefundedIsTheSum, Parts, Taken
<1> QED
  BY <1>1, PartsAddUp, PTL

=============================================================================
