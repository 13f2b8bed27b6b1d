---------------------------- MODULE ReadsProofs ----------------------------
(***************************************************************************)
(* What the audit and the reconciliation rate can be trusted for although  *)
(* their statements share no snapshot: for any rows, any exceptions and    *)
(* any commits between two statements.  The argument: histories, journal   *)
(* entries, late acknowledgments and the settled rows only grow, so what a *)
(* statement has seen is still covered by what a later one will see.       *)
(***************************************************************************)
EXTENDS Reads, AuditProofs

\* A status that a history has been through.
Reached(lines, s) == \E i \in DOMAIN lines : lines[i][2] = s

MoneyLine == {<<"PENDING", "SUCCEEDED">>, <<"DISPUTED", "REVERSED">>}

\* The number of journal entries of a transaction, by its status.
EntriesAt(t, s) ==
  IF t \in Payment THEN IF s = "REVERSED" THEN 2 ELSE IF s \in Collected THEN 1 ELSE 0
  ELSE IF s = "SUCCEEDED" THEN 1 ELSE 0

\* Every line of a history that moved money has its entry in the journal.
MoneyBooked == \A t \in Transaction : Cardinality(MoneyLines(history[t])) <= Len(entries[t])

---------------------------------------------------------------------------
(* Histories and journals grow. *)

\* The history of a row that exists is kept, and at most one line longer.
LEMMA LinesStay ==
  ASSUME IInv, HistoryIsAPath, Next, NEW t \in Transaction, Exists(t)
  PROVE  /\ Exists(t)'
         /\ status'[t] = status[t] \/ <<status[t], status'[t]>> \in StatusTransitions
         /\ \/ history'[t] = history[t]
            \/ /\ <<status[t], status'[t]>> \in StatusTransitions
               /\ history'[t] = Append(history[t], <<status[t], status'[t]>>)
<1>1. status'[t] = status[t] \/ <<status[t], status'[t]>> \in StatusTransitions
  BY RowSteps DEF RowStep, Exists
<1>2. Exists(t)'
  BY <1>1 DEF Exists, StatusTransitions
<1>3. HistoryStep(t)
  BY HistorySteps
<1>4. CASE status'[t] = "INITIATED" /\ history'[t] = << <<"NULL", "INITIATED">> >>
  <2>1. status[t] = "INITIATED"
    BY <1>1, <1>4 DEF StatusTransitions
  <2>2. history[t] \in Seq(Line) /\ Len(history[t]) \in Nat /\ history[t] # <<>>
        /\ Len(history[t]) \in DOMAIN history[t]
    BY DEF IInv, TypeOK, Line, HistoryIsAPath
  <2>3. history[t][Len(history[t])][2] = "INITIATED"
    BY <2>1, <2>2 DEF HistoryIsAPath
  <2>4. Len(history[t]) = 1
    <3>1. Len(history[t]) > 1 => history[t][Len(history[t])] \in StatusTransitions
      BY <2>2 DEF HistoryIsAPath
    <3>2. \A line \in StatusTransitions : line[2] # "INITIATED"
      BY DEF StatusTransitions
    <3>3. ~(Len(history[t]) > 1)
      <4>1. PICK last : last = history[t][Len(history[t])]
        OBVIOUS
      <4>2. last[2] = "INITIATED" /\ (Len(history[t]) > 1 => last \in StatusTransitions)
        BY <2>3, <3>1, <4>1
      <4> QED
        BY <3>2, <4>2
    <3>4. Len(history[t]) # 0
      BY <2>2
    <3>5. PICK n : n = Len(history[t])
      OBVIOUS
    <3>6. n \in Nat /\ ~(n > 1) /\ n # 0
      BY <2>2, <3>3, <3>4, <3>5
    <3>7. n = 1
      BY <3>6
    <3> QED
      BY <3>5, <3>7
  <2>5. history[t][1] = <<"NULL", "INITIATED">>
    BY <2>2, <2>4 DEF HistoryIsAPath
  <2>6. history[t] = << <<"NULL", "INITIATED">> >>
    <3>1. PICK first : first = <<"NULL", "INITIATED">>
      OBVIOUS
    <3>2. history[t] = <<first>>
      BY <2>2, <2>4, <2>5, <3>1
    <3> QED
      BY <3>1, <3>2
  <2> QED
    BY <1>1, <1>2, <1>4, <2>6
<1> QED
  BY <1>1, <1>2, <1>3, <1>4 DEF HistoryStep

\* A status reached is reached for good.
LEMMA ReachedStays ==
  ASSUME NEW lines \in Seq(Line), NEW line, NEW s, Reached(lines, s)
  PROVE  Reached(Append(lines, line), s)
<1>1. PICK i \in DOMAIN lines : lines[i][2] = s
  BY DEF Reached
<1>2. i \in DOMAIN Append(lines, line) /\ Append(lines, line)[i] = lines[i]
  OBVIOUS
<1> QED
  BY <1>1, <1>2 DEF Reached

\* A line more is a line of money more, or none.
LEMMA MoneyOfAppend ==
  ASSUME NEW lines \in Seq(Line), NEW line
  PROVE  /\ IsFiniteSet(MoneyLines(lines)) /\ Cardinality(MoneyLines(lines)) \in Nat
         /\ Cardinality(MoneyLines(Append(lines, line))) =
              Cardinality(MoneyLines(lines)) + (IF line \in MoneyLine THEN 1 ELSE 0)
<1>1. /\ Len(lines) \in Nat /\ DOMAIN lines = 1..Len(lines)
      /\ DOMAIN Append(lines, line) = 1..(Len(lines) + 1)
      /\ Append(lines, line)[Len(lines) + 1] = line
      /\ \A i \in 1..Len(lines) : Append(lines, line)[i] = lines[i]
  OBVIOUS
<1>2. IsFiniteSet(1..Len(lines)) /\ MoneyLines(lines) \in SUBSET (1..Len(lines))
  BY <1>1, FS_Interval DEF MoneyLines
<1>3. IsFiniteSet(MoneyLines(lines)) /\ Cardinality(MoneyLines(lines)) \in Nat
  BY <1>2, FS_Subset, FS_CardinalityType
<1>4. CASE line \in MoneyLine
  <2>1. MoneyLines(Append(lines, line)) = MoneyLines(lines) \cup {Len(lines) + 1}
    BY <1>1, <1>4 DEF MoneyLines, MoneyLine
  <2>2. Len(lines) + 1 \notin MoneyLines(lines)
    BY <1>1, <1>2
  <2> QED
    BY <1>3, <1>4, <2>1, <2>2, FS_AddElement
<1>5. CASE line \notin MoneyLine
  <2>1. MoneyLines(Append(lines, line)) = MoneyLines(lines)
    BY <1>1, <1>5 DEF MoneyLines, MoneyLine
  <2> QED
    BY <1>3, <1>5, <2>1
<1> QED
  BY <1>3, <1>4, <1>5

\* BookedOnce, as a number of entries.
LEMMA EntriesCounted ==
  ASSUME NEW t, NEW s, NEW e,
         t \in Payment =>
           /\ s \notin Collected => e = <<>>
           /\ s \in Collected \ {"REVERSED"} => \E x : e = <<x>>
           /\ s = "REVERSED" => \E x, y : e = <<x, y>>,
         t \notin Payment => IF s = "SUCCEEDED" THEN \E x : e = <<x>> ELSE e = <<>>
  PROVE  Len(e) = EntriesAt(t, s)
<1>1. Len(<<>>) = 0 /\ (\A x : Len(<<x>>) = 1) /\ (\A x, y : Len(<<x, y>>) = 2)
  OBVIOUS
<1>2. CASE e = <<>>
  <2>1. EntriesAt(t, s) = 0
    <3>1. (\A x : <<>> # <<x>>) /\ (\A x, y : <<>> # <<x, y>>)
      BY <1>1, Zenon
    <3> QED
      BY <1>2, <3>1 DEF EntriesAt, Collected
  <2> QED
    BY <1>1, <1>2, <2>1
<1>3. CASE \E x : e = <<x>>
  <2>1. PICK x : e = <<x>>
    BY <1>3
  <2>2. EntriesAt(t, s) = 1
    <3>1. <<x>> # <<>> /\ \A y, z : <<x>> # <<y, z>>
      OBVIOUS
    <3> QED
      BY <2>1, <3>1 DEF EntriesAt
  <2> QED
    BY <1>1, <2>1, <2>2, Zenon
<1>4. CASE \E x, y : e = <<x, y>>
  <2>1. PICK x, y : e = <<x, y>>
    BY <1>4
  <2>2. EntriesAt(t, s) = 2
    <3>1. <<x, y>> # <<>> /\ \A z : <<x, y>> # <<z>>
      OBVIOUS
    <3> QED
      BY <2>1, <3>1 DEF EntriesAt
  <2> QED
    BY <1>1, <2>1, <2>2, Zenon
<1> QED
  BY <1>2, <1>3, <1>4 DEF Collected

\* A transition adds an entry when it moves money, and never takes one away.
LEMMA EntriesGrow ==
  ASSUME NEW t \in Transaction, NEW s, NEW n, <<s, n>> \in StatusTransitions,
         t \in Payment \/ n \in Unrefunded
  PROVE  EntriesAt(t, n) >= EntriesAt(t, s) + (IF <<s, n>> \in MoneyLine THEN 1 ELSE 0)
BY DEF EntriesAt, StatusTransitions, MoneyLine, Collected, Unrefunded

\* Nothing is taken from the journal, and a line of money comes with an entry.
LEMMA JournalGrows ==
  ASSUME IInv, IInv', HistoryIsAPath, Next, NEW t \in Transaction
  PROVE  /\ Len(entries'[t]) >= Len(entries[t])
         /\ Cardinality(MoneyLines(history[t])) <= Len(entries[t])
              => Cardinality(MoneyLines(history'[t])) <= Len(entries'[t])
<1>0. /\ BookedOnce /\ BookedOnce' /\ history[t] \in Seq(Line)
      /\ Len(entries[t]) = EntriesAt(t, status[t]) /\ Len(entries'[t]) = EntriesAt(t, status'[t])
  <2>1. BookedOnce /\ BookedOnce' /\ history[t] \in Seq(Line)
    BY DEF IInv, TypeOK, Line
  <2>2. t \in Refund => t \notin Payment
    BY LedgerAssumption
  <2>3. Len(entries[t]) = EntriesAt(t, status[t])
    <3>1. t \in Payment =>
            /\ status[t] \notin Collected => entries[t] = <<>>
            /\ status[t] \in Collected \ {"REVERSED"} => \E x : entries[t] = <<x>>
            /\ status[t] = "REVERSED" => \E x, y : entries[t] = <<x, y>>
      BY <2>1 DEF BookedOnce
    <3>2. t \in Refund => IF status[t] = "SUCCEEDED" THEN \E x : entries[t] = <<x>> ELSE entries[t] = <<>>
      BY <2>1 DEF BookedOnce
    <3> QED
      BY <2>2, <3>1, <3>2, EntriesCounted DEF Transaction
  <2>4. Len(entries'[t]) = EntriesAt(t, status'[t])
    <3>1. t \in Payment =>
            /\ status'[t] \notin Collected => entries'[t] = <<>>
            /\ status'[t] \in Collected \ {"REVERSED"} => \E x : entries'[t] = <<x>>
            /\ status'[t] = "REVERSED" => \E x, y : entries'[t] = <<x, y>>
      BY <2>1 DEF BookedOnce
    <3>2. t \in Refund =>
            IF status'[t] = "SUCCEEDED" THEN \E x : entries'[t] = <<x>> ELSE entries'[t] = <<>>
      BY <2>1 DEF BookedOnce
    <3> QED
      BY <2>2, <3>1, <3>2, EntriesCounted DEF Transaction
  <2> QED
    BY <2>1, <2>3, <2>4
<1>1. \A s : EntriesAt(t, s) \in 0..2
  BY DEF EntriesAt
<1>2. CASE Exists(t)
  <2>1. t \in Payment \/ status'[t] \in Unrefunded
    <3>1. RowCheck(t \in Payment, status'[t], amount'[t], refunded'[t])
      BY <1>2, LinesStay DEF IInv, RowsPassChecks, Exists
    <3> QED
      BY <3>1 DEF RowCheck
  <2>2. CASE history'[t] = history[t]
    <3>1. EntriesAt(t, status'[t]) >= EntriesAt(t, status[t])
      <4>1. CASE status'[t] = status[t]
        BY <1>1, <4>1
      <4>2. CASE <<status[t], status'[t]>> \in StatusTransitions
        BY <1>1, <2>1, <4>2, EntriesGrow
      <4> QED
        BY <1>2, <4>1, <4>2, LinesStay
    <3>2. Cardinality(MoneyLines(history[t])) \in Nat
      BY <1>0, MoneyOfAppend
    <3> QED
      BY <1>0, <1>1, <2>2, <3>1, <3>2
  <2>3. CASE /\ <<status[t], status'[t]>> \in StatusTransitions
             /\ history'[t] = Append(history[t], <<status[t], status'[t]>>)
    <3>1. EntriesAt(t, status'[t]) >=
            EntriesAt(t, status[t]) + (IF <<status[t], status'[t]>> \in MoneyLine THEN 1 ELSE 0)
      BY <2>1, <2>3, EntriesGrow
    <3>2. /\ Cardinality(MoneyLines(history[t])) \in Nat
          /\ Cardinality(MoneyLines(history'[t])) = Cardinality(MoneyLines(history[t]))
               + (IF <<status[t], status'[t]>> \in MoneyLine THEN 1 ELSE 0)
      BY <1>0, <2>3, MoneyOfAppend
    <3> QED
      BY <1>0, <1>1, <3>1, <3>2
  <2> QED
    BY <1>2, <2>2, <2>3, LinesStay
<1>3. CASE ~Exists(t)
  <2>1. EntriesAt(t, status[t]) = 0
    BY <1>3 DEF Exists, EntriesAt, Collected
  <2>2. HistoryStep(t) /\ history[t] = <<>>
    BY <1>3, HistorySteps DEF HistoryIsAPath
  <2>3. history'[t] = <<>> \/ history'[t] = << <<"NULL", "INITIATED">> >>
    BY <1>3, <2>2 DEF HistoryStep, Exists, StatusTransitions
  <2>4. MoneyLines(<<>>) = {} /\ MoneyLines(<< <<"NULL", "INITIATED">> >>) = {}
    BY DEF MoneyLines
  <2>5. Cardinality(MoneyLines(history'[t])) = 0
    BY <2>3, <2>4, FS_EmptySet
  <2> QED
    BY <1>0, <1>1, <2>1, <2>5
<1> QED
  BY <1>2, <1>3

\* MoneyBooked survives every step.
LEMMA MoneyStaysBooked == IInv /\ IInv' /\ HistoryIsAPath /\ MoneyBooked /\ [Next]_vars => MoneyBooked'
<1> SUFFICES ASSUME IInv, IInv', HistoryIsAPath, MoneyBooked, [Next]_vars, NEW t \in Transaction
             PROVE  Cardinality(MoneyLines(history'[t])) <= Len(entries'[t])
  BY DEF MoneyBooked, MoneyLines
<1>1. CASE Next
  BY <1>1, JournalGrows DEF MoneyBooked
<1>2. CASE UNCHANGED vars
  BY <1>2 DEF vars, row, books, MoneyBooked
<1> QED
  BY <1>1, <1>2

\* What was settled stays settled.
LEMMA SettledStays ==
  ASSUME IInv, HistoryIsAPath, Next, NEW t \in Transaction, Exists(t)
  PROVE  status[t] \notin InProgress => status'[t] \notin InProgress
BY LinesStay DEF InProgress, StatusTransitions

\* Rows appear one at a time.
LEMMA OneRowAtATime ==
  ASSUME IInv, Next
  PROVE  \E a, b : \A t \in Transaction :
           Exists(t)' \/ t \in inserting' => Exists(t) \/ t \in inserting \/ t \in {a, b}
<1>0. status \in [Transaction -> Status \cup {"ABSENT"}]
  BY DEF IInv, TypeOK
<1>1. ASSUME NEW a, NEW b, NEW x, NEW y,
             status' = [status EXCEPT ![a] = x] \/ status' = [status EXCEPT ![a] = x, ![b] = y],
             inserting' \subseteq inserting \cup {a}
      PROVE  \A t \in Transaction :
               Exists(t)' \/ t \in inserting' => Exists(t) \/ t \in inserting \/ t \in {a, b}
  BY <1>0, <1>1 DEF Exists
<1>2. CASE status' = status /\ inserting' = inserting
  BY <1>2 DEF Exists
<1>3. ASSUME NEW r \in Refund, NEW p \in Payment, NEW a \in Amount, CheckRefund(r, p, a)
      PROVE  \A t \in Transaction : Exists(t)' \/ t \in inserting' => Exists(t) \/ t \in inserting \/ t = r
  BY <1>3 DEF CheckRefund, row, Exists
<1>4. ASSUME NEW r \in Refund, AbortRefund(r)
      PROVE  \A t \in Transaction : Exists(t)' \/ t \in inserting' => Exists(t) \/ t \in inserting
  BY <1>4 DEF AbortRefund, row, Exists
<1>5. ASSUME NEW batch \in SUBSET Transaction, ExpireBatch(batch)
      PROVE  \A t \in Transaction : Exists(t)' \/ t \in inserting' => Exists(t) \/ t \in inserting
  BY <1>0, <1>5 DEF ExpireBatch, Expirable, Exists
<1>6. ASSUME NEW t \in Transaction, LateAcknowledgment(t) \/ DeadlinePasses(t)
      PROVE  status' = status /\ inserting' = inserting
  BY <1>6 DEF LateAcknowledgment, DeadlinePasses, row
<1>7. ASSUME NEW p \in Payment, NEW a, NEW c, CreatePayment(p, a, c)
      PROVE  \A t \in Transaction : Exists(t)' \/ t \in inserting' => Exists(t) \/ t \in inserting \/ t = p
  BY <1>0, <1>7 DEF CreatePayment, InsertRow, Exists
<1>8. ASSUME NEW r \in Refund, CommitRefund(r)
      PROVE  \A t \in Transaction : Exists(t)' \/ t \in inserting' => Exists(t) \/ t \in inserting \/ t = r
  BY <1>0, <1>8 DEF CommitRefund, InsertRow, Exists
<1>9. ASSUME NEW t \in Transaction, NEW to \in Status, ChangeStatus(t, to)
      PROVE  \E a, b : \A u \in Transaction :
               Exists(u)' \/ u \in inserting' => Exists(u) \/ u \in inserting \/ u \in {a, b}
  BY <1>1, <1>9 DEF ChangeStatus
<1>10. ASSUME NEW p \in Payment, SettlePayment(p) \/ ReverseDispute(p)
       PROVE  \E a, b : \A u \in Transaction :
                Exists(u)' \/ u \in inserting' => Exists(u) \/ u \in inserting \/ u \in {a, b}
  BY <1>1, <1>10 DEF SettlePayment, ReverseDispute
<1>11. ASSUME NEW r \in Refund, SettleRefund(r)
       PROVE  \E a, b : \A u \in Transaction :
                Exists(u)' \/ u \in inserting' => Exists(u) \/ u \in inserting \/ u \in {a, b}
  BY <1>1, <1>11 DEF SettleRefund
<1>12. CASE \E r \in Refund, p \in Payment, a \in Amount : CheckRefund(r, p, a)
  BY <1>3, <1>12
<1>13. CASE \E p \in Payment, a \in Amount, c \in Currency : CreatePayment(p, a, c)
  BY <1>7, <1>13
<1>14. CASE \E r \in Refund : CommitRefund(r) \/ AbortRefund(r)
  BY <1>4, <1>8, <1>14
<1>15. CASE \E t \in Transaction : LateAcknowledgment(t) \/ DeadlinePasses(t)
  BY <1>2, <1>6, <1>15
<1> QED
  BY <1>5, <1>9, <1>10, <1>11, <1>12, <1>13, <1>14, <1>15 DEF Next

---------------------------------------------------------------------------
(* The inductive invariant of Reads. *)

\* The window of the rate is over finitely many rows.
WindowOK ==
  /\ IsFiniteSet({t \in Transaction : Exists(t)} \cup inserting)
  /\ window # NoWindow => IsFiniteSet(window) /\ window \subseteq Transaction

\* What an audit has read so far is covered by what it is about to read.
AuditOK ==
  /\ DOMAIN audit = {"step", "of", "full", "row", "refunds", "history", "entries"}
  /\ audit.step \in 0..5
  /\ audit.step >= 1 => audit.of \in Transaction /\ Exists(audit.of)
  /\ audit.step >= 2 => Reached(history[audit.of], audit.row.status)
  /\ audit.step >= 3 =>
       \A r \in DOMAIN audit.refunds :
         r \in Transaction /\ Exists(r) /\ Reached(history[r], audit.refunds[r])
  /\ audit.step >= 4 =>
       \A t \in Shown :
         /\ Reached(audit.history[t], StatusShown(t))
         /\ Cardinality(MoneyLines(audit.history[t])) \in Nat
         /\ Cardinality(MoneyLines(audit.history[t])) <= Len(entries[t])
  /\ audit.step >= 5 /\ audit.full =>
       \A t \in Shown : Cardinality(MoneyLines(audit.history[t])) <= Len(audit.entries[t])

\* The number counted first is covered by the settled rows there are now.
RateOK ==
  /\ DOMAIN rate = {"step", "window", "first", "settled", "open", "exact"}
  /\ rate.step \in 0..3 /\ DOMAIN rate.exact = 1..2
  /\ rate.step >= 1 => IsFiniteSet(rate.window) /\ rate.window \subseteq Transaction
  /\ rate.step = 2 /\ rate.first = "settled" =>
       rate.settled \in Nat /\ rate.settled <= Cardinality(Settled(rate.window))
  /\ rate.step = 2 /\ rate.first = "open" =>
       /\ rate.open \in Nat /\ rate.open <= Cardinality(Settled(rate.window))
       /\ rate.exact[1] \in Int /\ rate.exact[1] + rate.open <= Cardinality(Settled(rate.window))
  /\ RateErrsOneWay

World == IInv /\ HistoryIsAPath /\ MoneyBooked

RInv == WindowOK /\ AuditOK /\ RateOK /\ RTypeOK

---------------------------------------------------------------------------
(* The commits of others. *)

\* A status reached stays reached, whatever commits.
LEMMA ReachedNow ==
  ASSUME World, Next, NEW t \in Transaction, Exists(t), NEW s, Reached(history[t], s)
  PROVE  Reached(history'[t], s)
<1>1. history[t] \in Seq(Line)
  BY DEF World, IInv, TypeOK, Line
<1> QED
  BY <1>1, LinesStay, ReachedStays DEF World

\* The present status of a row is in its history.
LEMMA PresentIsReached ==
  ASSUME World, NEW t \in Transaction, Exists(t)
  PROVE  Reached(history[t], status[t])
<1>1. history[t] \in Seq(Line) /\ history[t] # <<>>
  BY DEF World, IInv, TypeOK, Line, HistoryIsAPath
<1>2. Len(history[t]) \in DOMAIN history[t]
  BY <1>1
<1> QED
  BY <1>2 DEF World, HistoryIsAPath, Reached

\* An audit under way is not disturbed.
LEMMA AuditGoesOn ==
  ASSUME World, IInv', AuditOK, Next, audit' = audit
  PROVE  AuditOK'
<1>1. /\ Shown' = Shown /\ \A t : StatusShown(t)' = StatusShown(t)
  BY DEF Shown, StatusShown
<1>2. audit.step >= 1 => audit.of \in Transaction /\ Exists(audit.of)'
  BY LinesStay DEF AuditOK, World
<1>3. audit.step >= 2 => Reached(history'[audit.of], audit.row.status)
  BY ReachedNow DEF AuditOK
<1>4. audit.step >= 3 =>
       \A r \in DOMAIN audit.refunds :
         r \in Transaction /\ Exists(r)' /\ Reached(history'[r], audit.refunds[r])
  BY LinesStay, ReachedNow DEF AuditOK, World
<1>5. ASSUME audit.step >= 4, NEW t \in Shown
      PROVE  /\ Cardinality(MoneyLines(audit.history[t])) \in Nat
             /\ Cardinality(MoneyLines(audit.history[t])) <= Len(entries'[t])
  <2>1. t \in Transaction
    BY <1>5 DEF AuditOK, Shown
  <2>2. Len(entries[t]) \in Nat /\ Len(entries'[t]) \in Nat
    BY <2>1 DEF World, IInv, TypeOK
  <2>3. Len(entries'[t]) >= Len(entries[t])
    BY <2>1, JournalGrows DEF World
  <2> QED
    BY <1>5, <2>2, <2>3 DEF AuditOK
<1>6. (audit.step >= 1 => audit.of \in Transaction /\ Exists(audit.of))'
  BY <1>2 DEF Exists
<1>7. (audit.step >= 2 => Reached(history[audit.of], audit.row.status))'
  BY <1>3 DEF Reached
<1>8. (audit.step >= 3 =>
         \A r \in DOMAIN audit.refunds :
           r \in Transaction /\ Exists(r) /\ Reached(history[r], audit.refunds[r]))'
  BY <1>4 DEF Exists, Reached
<1>9. (audit.step >= 4 =>
         \A t \in Shown :
           /\ Reached(audit.history[t], StatusShown(t))
           /\ Cardinality(MoneyLines(audit.history[t])) \in Nat
           /\ Cardinality(MoneyLines(audit.history[t])) <= Len(entries[t]))'
  <2> SUFFICES ASSUME audit.step >= 4, NEW t \in Shown
               PROVE  /\ Reached(audit.history[t], StatusShown(t))
                      /\ Cardinality(MoneyLines(audit.history[t])) \in Nat
                      /\ Cardinality(MoneyLines(audit.history[t])) <= Len(entries'[t])
    BY <1>1 DEF Reached, MoneyLines
  <2> QED
    BY <1>5 DEF AuditOK
<1>10. (audit.step >= 5 /\ audit.full =>
          \A t \in Shown : Cardinality(MoneyLines(audit.history[t])) <= Len(audit.entries[t]))'
  BY <1>1 DEF AuditOK, MoneyLines
<1> QED
  BY <1>6, <1>7, <1>8, <1>9, <1>10 DEF AuditOK

\* A set of rows among which some are settled: there are no fewer of them after.
LEMMA SettledGrow ==
  ASSUME World, Next, NEW w, IsFiniteSet(w), w \subseteq Transaction
  PROVE  /\ Cardinality(Settled(w)) \in Nat /\ Cardinality(Settled(w))' \in Nat
         /\ Cardinality(Settled(w)) <= Cardinality(Settled(w))'
<1> DEFINE S == {t \in w : Exists(t) /\ status[t] \notin InProgress}
           T == {t \in w : Exists(t)' /\ status'[t] \notin InProgress}
<1>1. S \in SUBSET T /\ T \in SUBSET w
  BY LinesStay, SettledStays DEF World
<1>2. IsFiniteSet(T) /\ IsFiniteSet(S) /\ Cardinality(T) \in Nat /\ Cardinality(S) \in Nat
      /\ Cardinality(S) <= Cardinality(T)
  BY <1>1, FS_Subset, FS_CardinalityType
<1>3. Settled(w) = S /\ Settled(w)' = T
  BY DEF Settled, Exists
<1>4. Cardinality(Settled(w))' = Cardinality(T)
  BY DEF Settled, Exists
<1> QED
  BY <1>2, <1>3, <1>4

\* A rate under way is not disturbed.
LEMMA RateGoesOn ==
  ASSUME World, RateOK, Next, rate' = rate
  PROVE  RateOK'
<1>1. ASSUME rate.step >= 1
      PROVE  /\ Cardinality(Settled(rate.window)) \in Nat /\ Cardinality(Settled(rate.window))' \in Nat
             /\ Cardinality(Settled(rate.window)) <= Cardinality(Settled(rate.window))'
  <2>1. PICK w : w = rate.window
    OBVIOUS
  <2>2. IsFiniteSet(w) /\ w \subseteq Transaction
    BY <1>1, <2>1 DEF RateOK
  <2>3. /\ Cardinality(Settled(w)) \in Nat /\ Cardinality(Settled(w))' \in Nat
        /\ Cardinality(Settled(w)) <= Cardinality(Settled(w))'
    BY <2>2, SettledGrow
  <2>4. Cardinality(Settled(rate.window))' = Cardinality(Settled(w))'
    BY <2>1 DEF Settled
  <2> QED
    BY <2>1, <2>3, <2>4
<1>2. RateErrsOneWay'
  BY DEF RateOK, RateErrsOneWay, Reconciled
<1>3. (rate.step = 2 /\ rate.first = "settled" =>
         rate.settled \in Nat /\ rate.settled <= Cardinality(Settled(rate.window)))'
  BY <1>1 DEF RateOK
<1>4. (rate.step = 2 /\ rate.first = "open" =>
         /\ rate.open \in Nat /\ rate.open <= Cardinality(Settled(rate.window))
         /\ rate.exact[1] \in Int /\ rate.exact[1] + rate.open <= Cardinality(Settled(rate.window)))'
  BY <1>1 DEF RateOK
<1>5. (rate.step >= 1 => IsFiniteSet(rate.window) /\ rate.window \subseteq Transaction)'
  BY DEF RateOK
<1> QED
  BY <1>2, <1>3, <1>4, <1>5 DEF RateOK

\* The rows of the window stay finitely many.
LEMMA WindowGoesOn ==
  ASSUME World, WindowOK, Next, window' = window
  PROVE  WindowOK'
<1> DEFINE Known == {t \in Transaction : Exists(t)} \cup inserting
           Later == {t \in Transaction : Exists(t)'} \cup inserting'
<1>1. PICK a, b : \A t \in Transaction :
           Exists(t)' \/ t \in inserting' => Exists(t) \/ t \in inserting \/ t \in {a, b}
  BY OneRowAtATime DEF World
<1>2. IsFiniteSet(Known)
  BY DEF WindowOK
<1>3. IsFiniteSet((Known \cup {a}) \cup {b})
  <2>1. IsFiniteSet(Known \cup {a})
    BY <1>2, FS_AddElement
  <2> HIDE DEF Known
  <2> QED
    BY <2>1, FS_AddElement
<1>4. inserting' \subseteq Transaction
  <2>1. inserting' \subseteq Refund
    BY NextInv DEF World, IInv, TypeOK
  <2> QED
    BY <2>1 DEF Transaction
<1>5. Later \in SUBSET ((Known \cup {a}) \cup {b})
  BY <1>1, <1>4
<1>6. IsFiniteSet(Later)
  BY <1>3, <1>5, FS_Subset
<1>7. Later = ({t \in Transaction : Exists(t)} \cup inserting)'
  BY DEF Exists
<1> QED
  BY <1>6, <1>7 DEF WindowOK

\* Exceptions are left alone by the ledger, late acknowledgments aside.
LEMMA TypeGoesOn ==
  ASSUME World, RTypeOK, Next, UNCHANGED <<exceptions, audit, rate>>
  PROVE  RTypeOK'
<1>1. late \in [Transaction -> 0..MaxLate] /\ late' \in [Transaction -> 0..MaxLate]
  BY NextInv DEF World, IInv, TypeOK
<1>2. \A t \in Transaction : late'[t] >= late[t]
  BY LateGrows DEF World
<1>3. \A t \in Transaction : resolved[t] <= late'[t] + reported[t]
  <2> SUFFICES ASSUME NEW t \in Transaction PROVE resolved[t] <= late'[t] + reported[t]
    OBVIOUS
  <2>1. /\ late[t] \in Int /\ late'[t] \in Int /\ reported[t] \in Int /\ resolved[t] \in Int
        /\ late'[t] >= late[t] /\ resolved[t] <= late[t] + reported[t]
    BY <1>1, <1>2, LedgerAssumption, ReadsAssumption DEF RTypeOK
  <2> QED
    BY <2>1
<1> QED
  BY <1>3 DEF RTypeOK, exceptions

---------------------------------------------------------------------------
(* The statements of the readers. *)

\* Rows and journal as they are, and the same audit or rate: the same is true.
LEMMA NothingNew ==
  /\ AuditOK /\ UNCHANGED <<vars, audit>> => AuditOK'
  /\ RateOK /\ UNCHANGED <<vars, rate>> => RateOK'
  /\ WindowOK /\ UNCHANGED <<vars, window>> => WindowOK'
<1>1. AuditOK /\ UNCHANGED <<vars, audit>> => AuditOK'
  <2> SUFFICES ASSUME AuditOK, UNCHANGED <<vars, audit>> PROVE AuditOK'
    OBVIOUS
  <2>1. UNCHANGED <<status, history, entries, audit>>
    BY DEF vars, row, books
  <2>2. Shown' = Shown /\ \A t : StatusShown(t)' = StatusShown(t) /\ (Exists(t)' <=> Exists(t))
    BY <2>1 DEF Shown, StatusShown, Exists
  <2> QED
    BY <2>1, <2>2 DEF AuditOK
<1>2. RateOK /\ UNCHANGED <<vars, rate>> => RateOK'
  BY DEF RateOK, vars, row, Settled, Exists, RateErrsOneWay, Reconciled
<1>3. WindowOK /\ UNCHANGED <<vars, window>> => WindowOK'
  BY DEF WindowOK, vars, row, Exists
<1> QED
  BY <1>1, <1>2, <1>3

AuditField == {"step", "of", "full", "row", "refunds", "history", "entries"}

\* The statements of an audit are four, in this order.
LEMMA AuditOrder ==
  /\ DOMAIN AuditReads = 1..4 /\ Len(AuditReads) = 4
  /\ \A i \in 1..4 :
       /\ AuditReads[i] = "row" <=> i = 1
       /\ AuditReads[i] = "refunds" <=> i = 2
       /\ AuditReads[i] = "history" <=> i = 3
       /\ AuditReads[i] = "entries" <=> i = 4
<1>1. /\ DOMAIN AuditReads = 1..4 /\ Len(AuditReads) = 4
      /\ AuditReads[1] = "row" /\ AuditReads[2] = "refunds"
      /\ AuditReads[3] = "history" /\ AuditReads[4] = "entries"
  BY DEF AuditReads
<1> QED
  BY <1>1

\* One statement fills one field.
LEMMA OneStatement ==
  ASSUME DOMAIN audit = AuditField, NEW what \in AuditField \ {"step"}, NEW value, Got(what, value)
  PROVE  /\ audit.step \in 1..4 /\ AuditReads[audit.step] = what
         /\ DOMAIN audit' = AuditField
         /\ audit'.step = audit.step + 1 /\ audit'[what] = value
         /\ \A f \in AuditField \ {"step", what} : audit'[f] = audit[f]
<1>1. audit.step \in 1..4 /\ AuditReads[audit.step] = what
  BY AuditOrder DEF Got, Due
<1>2. audit' = [audit EXCEPT ![what] = value, !.step = @ + 1]
  BY DEF Got
<1> QED
  BY <1>1, <1>2 DEF AuditField

\* What an audit reads covers what it has read before.
LEMMA AuditReadsOn ==
  ASSUME World, AuditOK, ReadRow \/ ReadRefunds \/ ReadHistory \/ ReadEntries
  PROVE  AuditOK'
<1>0. /\ DOMAIN audit = {"step", "of", "full", "row", "refunds", "history", "entries"}
      /\ DOMAIN audit = AuditField /\ audit.step \in 0..5 /\ UNCHANGED vars
  BY DEF AuditOK, AuditField, ReadRow, ReadRefunds, ReadHistory, ReadEntries, Got
<1>1. /\ UNCHANGED <<status, history, entries>>
      /\ \A t : Exists(t)' <=> Exists(t)
  BY <1>0 DEF vars, row, books, Exists
<1>2. CASE ReadRow
  <2>1. PICK value : value = [status |-> status[audit.of], refunded |-> refunded[audit.of]]
    OBVIOUS
  <2>2. Got("row", value) /\ "row" \in AuditField \ {"step"} /\ value.status = status[audit.of]
    BY <1>2, <2>1 DEF ReadRow, AuditField
  <2>3. /\ audit.step = 1 /\ audit'.step = 2 /\ audit'.of = audit.of
        /\ audit'.row.status = status[audit.of] /\ DOMAIN audit' = DOMAIN audit
    BY <1>0, <2>2, OneStatement, AuditOrder DEF AuditField
  <2>4. Reached(history[audit.of], status[audit.of])
    BY <2>3, PresentIsReached DEF AuditOK
  <2> QED
    BY <1>0, <1>1, <2>3, <2>4 DEF AuditOK
<1>3. CASE ReadRefunds
  <2>1. PICK known : known = [r \in {r \in Refund : Exists(r) /\ parent[r] = audit.of} |-> status[r]]
    OBVIOUS
  <2>2. Got("refunds", known) /\ "refunds" \in AuditField \ {"step"}
    BY <1>3, <2>1 DEF ReadRefunds, AuditField
  <2>3. /\ audit.step = 2 /\ audit'.step = 3 /\ audit'.of = audit.of /\ audit'.row = audit.row
        /\ audit'.refunds = known /\ DOMAIN audit' = DOMAIN audit
    BY <1>0, <2>2, OneStatement, AuditOrder DEF AuditField
  <2>4. DOMAIN known = {r \in Refund : Exists(r) /\ parent[r] = audit.of}
        /\ \A r \in DOMAIN known : known[r] = status[r]
    BY <2>1
  <2>5. \A r \in DOMAIN known : r \in Transaction /\ Exists(r) /\ Reached(history[r], known[r])
    BY <2>4, PresentIsReached DEF Transaction
  <2> QED
    BY <1>0, <1>1, <2>3, <2>5 DEF AuditOK
<1>4. CASE ReadHistory
  <2>1. Got("history", history) /\ "history" \in AuditField \ {"step"}
    BY <1>4 DEF ReadHistory, AuditField
  <2>2. audit.step = 3
    BY <1>0, <2>1, OneStatement, AuditOrder
  <2>3. /\ audit'.step = 4 /\ audit'.of = audit.of /\ audit'.row = audit.row
        /\ audit'.refunds = audit.refunds /\ audit'.history = history
        /\ DOMAIN audit' = DOMAIN audit
    BY <1>0, <2>1, <2>2, OneStatement DEF AuditField
  <2>4. Shown' = Shown /\ \A t : StatusShown(t)' = StatusShown(t)
    BY <2>3 DEF Shown, StatusShown
  <2>5. ASSUME NEW t \in Shown
        PROVE  /\ Reached(history[t], StatusShown(t))
               /\ Cardinality(MoneyLines(history[t])) \in Nat
               /\ Cardinality(MoneyLines(history[t])) <= Len(entries[t])
    <3>1. t \in Transaction
      BY <2>2, <2>5 DEF Shown, AuditOK
    <3>2. history[t] \in Seq(Line)
      BY <3>1 DEF World, IInv, TypeOK, Line
    <3>3. Reached(history[t], StatusShown(t))
      BY <2>2, <2>5 DEF Shown, StatusShown, AuditOK
    <3> QED
      BY <3>1, <3>2, <3>3, MoneyOfAppend DEF World, MoneyBooked
  <2>6. (\A t \in Shown :
           /\ Reached(audit.history[t], StatusShown(t))
           /\ Cardinality(MoneyLines(audit.history[t])) \in Nat
           /\ Cardinality(MoneyLines(audit.history[t])) <= Len(entries[t]))'
    BY <1>1, <2>3, <2>4, <2>5
  <2> QED
    BY <1>0, <1>1, <2>2, <2>3, <2>6 DEF AuditOK
<1>5. CASE ReadEntries
  <2>1. PICK value : value = IF audit.full THEN entries ELSE [t \in Transaction |-> <<>>]
    OBVIOUS
  <2>2. Got("entries", value) /\ "entries" \in AuditField \ {"step"} /\ (audit.full => value = entries)
    BY <1>5, <2>1 DEF ReadEntries, AuditField
  <2>3. /\ audit.step = 4 /\ audit'.step = 5 /\ audit'.of = audit.of /\ audit'.row = audit.row
        /\ audit'.refunds = audit.refunds /\ audit'.history = audit.history
        /\ audit'.full = audit.full /\ (audit.full => audit'.entries = entries)
        /\ DOMAIN audit' = DOMAIN audit
    BY <1>0, <2>2, OneStatement, AuditOrder DEF AuditField
  <2>4. Shown' = Shown /\ \A t : StatusShown(t)' = StatusShown(t)
    BY <2>3 DEF Shown, StatusShown
  <2>5. (\A t \in Shown :
           /\ Reached(audit.history[t], StatusShown(t))
           /\ Cardinality(MoneyLines(audit.history[t])) \in Nat
           /\ Cardinality(MoneyLines(audit.history[t])) <= Len(entries[t]))'
    BY <1>1, <2>3, <2>4 DEF AuditOK
  <2>6. (audit.full =>
           \A t \in Shown : Cardinality(MoneyLines(audit.history[t])) <= Len(audit.entries[t]))'
    BY <1>1, <2>3, <2>4 DEF AuditOK
  <2> QED
    BY <1>0, <1>1, <2>3, <2>5, <2>6 DEF AuditOK
<1> QED
  BY <1>2, <1>3, <1>4, <1>5

LEMMA FirstOfFive == 1 \in 0..5 /\ ~(1 >= 2) /\ ~(1 >= 3) /\ ~(1 >= 4) /\ ~(1 >= 5)
OBVIOUS

\* A new audit has read nothing yet.
LEMMA AuditBegins ==
  ASSUME UNCHANGED vars,
         \/ audit' = NoAudit
         \/ \E t \in Transaction, full \in BOOLEAN :
              Exists(t) /\ audit' = [NoAudit EXCEPT !.step = 1, !.of = t, !.full = full]
  PROVE  AuditOK'
<1>0. DOMAIN NoAudit = AuditField /\ NoAudit.step = 0
  BY DEF NoAudit, AuditField
<1>1. \A t : status'[t] = status[t]
  BY DEF vars, row
<1>2. CASE audit' = NoAudit
  BY <1>0, <1>2 DEF AuditOK, AuditField
<1>3. ASSUME NEW t \in Transaction, NEW full \in BOOLEAN, Exists(t),
             audit' = [NoAudit EXCEPT !.step = 1, !.of = t, !.full = full]
      PROVE  AuditOK'
  <2>1. audit'.step = 1 /\ audit'.of = t /\ DOMAIN audit' = AuditField
    BY <1>0, <1>3 DEF AuditField
  <2>2. status'[audit'.of] # "ABSENT"
    BY <1>1, <1>3, <2>1 DEF Exists
  <2>3. (audit.step >= 1 => audit.of \in Transaction /\ Exists(audit.of))'
    BY <2>1, <2>2 DEF Exists
  <2>4. PICK n : n = audit'.step
    OBVIOUS
  <2>5. n = 1
    BY <2>1, <2>4
  <2>6. n \in 0..5 /\ ~(n >= 2) /\ ~(n >= 3) /\ ~(n >= 4) /\ ~(n >= 5)
    BY <2>5, FirstOfFive, Zenon
  <2> QED
    BY <2>1, <2>3, <2>4, <2>6 DEF AuditOK, AuditField
<1> QED
  BY <1>2, <1>3

\* A rate begins: its window is fixed, nothing is counted.
LEMMA RateBegins ==
  ASSUME WindowOK, UNCHANGED vars,
         \/ rate' = NoRate
         \/ window # NoWindow /\ rate' = [NoRate EXCEPT !.step = 1, !.window = window]
  PROVE  RateOK'
<1>0. /\ DOMAIN NoRate = {"step", "window", "first", "settled", "open", "exact"}
      /\ NoRate.step = 0 /\ DOMAIN NoRate.exact = 1..2
  BY DEF NoRate
<1>1. /\ DOMAIN rate' = {"step", "window", "first", "settled", "open", "exact"}
      /\ rate'.step \in {0, 1} /\ DOMAIN rate'.exact = 1..2
      /\ rate'.step = 1 => IsFiniteSet(rate'.window) /\ rate'.window \subseteq Transaction
  <2>1. CASE rate' = NoRate
    BY <1>0, <2>1
  <2>2. CASE window # NoWindow /\ rate' = [NoRate EXCEPT !.step = 1, !.window = window]
    <3>1. rate'.step = 1 /\ rate'.window = window /\ rate'.exact = NoRate.exact
          /\ DOMAIN rate' = DOMAIN NoRate
      BY <1>0, <2>2
    <3> QED
      BY <1>0, <2>2, <3>1 DEF WindowOK
  <2> QED
    BY <2>1, <2>2
<1>2. RateErrsOneWay'
  BY <1>1 DEF RateErrsOneWay
<1> QED
  BY <1>1, <1>2 DEF RateOK

\* The two counts, in either order.
LEMMA RateCounts ==
  ASSUME RateOK, CountSettled \/ CountOpen
  PROVE  RateOK'
<1> DEFINE n == Cardinality(Settled(rate.window))
           m == Cardinality(WithOpenException(rate.window))
<1>0. /\ DOMAIN rate = {"step", "window", "first", "settled", "open", "exact"}
      /\ rate.step \in {1, 2} /\ DOMAIN rate.exact = 1..2 /\ UNCHANGED vars
      /\ IsFiniteSet(rate.window) /\ rate.window \subseteq Transaction
  <2>1. rate.step \in {1, 2} /\ UNCHANGED vars
    BY DEF CountSettled, CountOpen, Counted
  <2> QED
    BY <2>1 DEF RateOK
<1>1. n \in Nat /\ m \in Nat /\ m <= n /\ Exact(rate.window) = n - m
  <2>1. PICK w, S, T : w = rate.window /\ S = Settled(w) /\ T = WithOpenException(w)
    OBVIOUS
  <2>2. S \in SUBSET w /\ T \in SUBSET S
    BY <2>1 DEF Settled, WithOpenException
  <2>3. IsFiniteSet(S) /\ Cardinality(S) \in Nat /\ Cardinality(T) \in Nat /\ Cardinality(T) <= Cardinality(S)
    BY <1>0, <2>1, <2>2, FS_Subset, FS_CardinalityType
  <2> QED
    BY <2>1, <2>3 DEF Exact
<1>2. rate'.window = rate.window => Cardinality(Settled(rate.window))' = n
  BY <1>0 DEF Settled, Exists, vars, row
<1> HIDE DEF n, m
<1> DEFINE exact == [rate.exact EXCEPT ![rate.step] = n - m]
<1>3. DOMAIN exact = 1..2 /\ exact[rate.step] = n - m
      /\ \A i \in 1..2 \ {rate.step} : exact[i] = rate.exact[i]
  BY <1>0
<1> HIDE DEF exact
<1>4. CASE CountSettled
  <2>1. /\ rate.first # "settled"
        /\ rate' = [rate EXCEPT !.settled = n, !.exact = exact, !.step = rate.step + 1,
                                !.first = IF rate.step = 1 THEN "settled" ELSE rate.first]
    BY <1>0, <1>1, <1>4 DEF CountSettled, Counted, n, exact
  <2>2. /\ DOMAIN rate' = {"step", "window", "first", "settled", "open", "exact"}
        /\ rate'.settled = n /\ rate'.exact = exact /\ rate'.step = rate.step + 1
        /\ rate'.open = rate.open /\ rate'.window = rate.window
        /\ rate'.first = IF rate.step = 1 THEN "settled" ELSE rate.first
    BY <1>0, <2>1
  <2>3. rate.step = 2 /\ rate.first = "open" =>
          /\ rate.open \in Nat /\ rate.open <= n
          /\ rate.exact[1] \in Int /\ rate.exact[1] + rate.open <= n
    BY DEF RateOK, n
  <2>4. RateErrsOneWay'
    BY <1>0, <1>1, <1>3, <2>1, <2>2, <2>3 DEF RateErrsOneWay, Reconciled
  <2> QED
    BY <1>0, <1>1, <1>2, <1>3, <2>2, <2>4 DEF RateOK
<1>5. CASE CountOpen
  <2>1. /\ rate.first # "open"
        /\ rate' = [rate EXCEPT !.open = m, !.exact = exact, !.step = rate.step + 1,
                                !.first = IF rate.step = 1 THEN "open" ELSE rate.first]
    BY <1>0, <1>1, <1>5 DEF CountOpen, Counted, m, exact
  <2>2. /\ DOMAIN rate' = {"step", "window", "first", "settled", "open", "exact"}
        /\ rate'.open = m /\ rate'.exact = exact /\ rate'.step = rate.step + 1
        /\ rate'.settled = rate.settled /\ rate'.window = rate.window
        /\ rate'.first = IF rate.step = 1 THEN "open" ELSE rate.first
    BY <1>0, <2>1
  <2>3. rate.step = 2 /\ rate.first = "settled" => rate.settled \in Nat /\ rate.settled <= n
    BY DEF RateOK, n
  <2>4. RateErrsOneWay'
    BY <1>0, <1>1, <1>3, <2>1, <2>2, <2>3 DEF RateErrsOneWay, Reconciled
  <2> QED
    BY <1>0, <1>1, <1>2, <1>3, <2>2, <2>4 DEF RateOK
<1> QED
  BY <1>4, <1>5

\* Exceptions and loads written by others.
LEMMA OthersWrite ==
  ASSUME World, RInv, (\E t \in Transaction : Report(t) \/ Resolve(t)) \/ RecordLoad
  PROVE  RInv'
<1>0. UNCHANGED <<vars, audit, rate>>
  BY DEF Report, Resolve, RecordLoad
<1>1. AuditOK' /\ RateOK'
  BY <1>0, NothingNew DEF RInv
<1>2. late' = late /\ late \in [Transaction -> 0..MaxLate]
  BY <1>0 DEF vars, row, World, IInv, TypeOK
<1>3. /\ audit'.step \in 0..Len(AuditReads) + 1 /\ rate'.step \in 0..3
      /\ reported \in [Transaction -> 0..MaxReports] /\ resolved \in [Transaction -> Nat]
      /\ \A t \in Transaction : resolved[t] <= late[t] + reported[t]
      /\ window # NoWindow => window \subseteq Transaction
  BY <1>0 DEF RInv, RTypeOK
<1>4. CASE \E t \in Transaction : Report(t)
  <2>1. PICK t \in Transaction : Report(t)
    BY <1>4
  <2>2. window' = window /\ WindowOK'
    BY <1>0, <2>1, NothingNew DEF RInv, Report
  <2>3. reported[t] < MaxReports /\ reported' = [reported EXCEPT ![t] = @ + 1] /\ resolved' = resolved
    BY <2>1 DEF Report
  <2>4. reported' \in [Transaction -> 0..MaxReports]
    BY <1>3, <2>3, ReadsAssumption
  <2>5. \A u \in Transaction : resolved'[u] <= late'[u] + reported'[u]
    BY <1>2, <1>3, <2>3
  <2> QED
    BY <1>1, <1>3, <2>2, <2>3, <2>4, <2>5 DEF RInv, RTypeOK
<1>5. CASE \E t \in Transaction : Resolve(t)
  <2>1. PICK t \in Transaction : Resolve(t)
    BY <1>5
  <2>2. window' = window /\ WindowOK'
    BY <1>0, <2>1, NothingNew DEF RInv, Resolve
  <2>3. resolved[t] < late[t] + reported[t] /\ resolved' = [resolved EXCEPT ![t] = @ + 1]
        /\ reported' = reported
    BY <2>1 DEF Resolve, HasOpen
  <2>4. resolved' \in [Transaction -> Nat]
    BY <1>3, <2>3
  <2>5. \A u \in Transaction : resolved'[u] <= late'[u] + reported'[u]
    BY <1>2, <1>3, <2>3
  <2> QED
    BY <1>1, <1>3, <2>2, <2>3, <2>4, <2>5 DEF RInv, RTypeOK
<1>6. CASE RecordLoad
  <2>1. UNCHANGED <<reported, resolved>> /\ window' = {t \in Transaction : Exists(t)} \cup inserting
    BY <1>6 DEF RecordLoad
  <2>2. inserting \subseteq Transaction
    BY DEF World, IInv, TypeOK, Transaction
  <2>3. UNCHANGED <<status, inserting>>
    BY <1>0 DEF vars, row
  <2>4. window' \subseteq Transaction /\ IsFiniteSet(window')
    BY <2>1, <2>2 DEF RInv, WindowOK
  <2>5. WindowOK'
    BY <2>1, <2>3, <2>4 DEF RInv, WindowOK, Exists
  <2> QED
    BY <1>1, <1>2, <1>3, <2>1, <2>4, <2>5 DEF RInv, RTypeOK
<1> QED
  BY <1>4, <1>5, <1>6

\* The readers write nothing but their own answers.
LEMMA ReadersRead ==
  ASSUME World, RInv,
         \/ \E t \in Transaction, full \in BOOLEAN : Ask(t, full)
         \/ ReadRow \/ ReadRefunds \/ ReadHistory \/ ReadEntries
         \/ ReadWindow \/ CountSettled \/ CountOpen
  PROVE  RInv'
<1>0. UNCHANGED <<vars, exceptions>>
  BY DEF Ask, ReadRow, ReadRefunds, ReadHistory, ReadEntries, Got, ReadWindow,
         CountSettled, CountOpen, Counted
<1>1. AuditOK'
  <2>1. CASE \E t \in Transaction, full \in BOOLEAN : Ask(t, full)
    BY <1>0, <2>1, AuditBegins DEF Ask
  <2>2. CASE ReadRow \/ ReadRefunds \/ ReadHistory \/ ReadEntries
    BY <2>2, AuditReadsOn DEF RInv
  <2>3. CASE ReadWindow
    BY <1>0, <2>3, AuditBegins DEF ReadWindow
  <2>4. CASE CountSettled \/ CountOpen
    BY <1>0, <2>4, NothingNew DEF RInv, CountSettled, CountOpen, Counted
  <2> QED
    BY <2>1, <2>2, <2>3, <2>4
<1>2. RateOK'
  <2>1. CASE \E t \in Transaction, full \in BOOLEAN : Ask(t, full)
    BY <1>0, <2>1, RateBegins DEF Ask, RInv
  <2>2. CASE ReadRow \/ ReadRefunds \/ ReadHistory \/ ReadEntries
    BY <1>0, <2>2, NothingNew DEF RInv, ReadRow, ReadRefunds, ReadHistory, ReadEntries, Got
  <2>3. CASE ReadWindow
    BY <1>0, <2>3, RateBegins DEF ReadWindow, RInv
  <2>4. CASE CountSettled \/ CountOpen
    BY <2>4, RateCounts DEF RInv
  <2> QED
    BY <2>1, <2>2, <2>3, <2>4
<1>3. WindowOK'
  BY <1>0, NothingNew DEF RInv, exceptions
<1>4. audit'.step \in 0..Len(AuditReads) + 1 /\ rate'.step \in 0..3
  BY <1>1, <1>2, AuditOrder DEF AuditOK, RateOK
<1>5. UNCHANGED <<late, reported, resolved, window>>
  BY <1>0 DEF vars, row, exceptions
<1>6. RTypeOK'
  BY <1>4, <1>5 DEF RInv, RTypeOK
<1> QED
  BY <1>1, <1>2, <1>3, <1>6 DEF RInv

LEMMA ReadsStep == World /\ IInv' /\ RInv /\ [RNext]_rvars => RInv'
<1> SUFFICES ASSUME World, IInv', RInv, [RNext]_rvars PROVE RInv'
  OBVIOUS
<1>1. CASE Next /\ UNCHANGED <<exceptions, audit, rate>>
  <2>1. audit' = audit /\ rate' = rate /\ window' = window
    BY <1>1 DEF exceptions
  <2> QED
    BY <1>1, <2>1, AuditGoesOn, RateGoesOn, WindowGoesOn, TypeGoesOn DEF RInv
<1>2. CASE (\E t \in Transaction : Report(t) \/ Resolve(t)) \/ RecordLoad
  BY <1>2, OthersWrite
<1>3. CASE \/ \E t \in Transaction, full \in BOOLEAN : Ask(t, full)
           \/ ReadRow \/ ReadRefunds \/ ReadHistory \/ ReadEntries
           \/ ReadWindow \/ CountSettled \/ CountOpen
  BY <1>3, ReadersRead
<1>4. CASE UNCHANGED rvars
  <2>1. UNCHANGED <<vars, exceptions, audit, rate>> /\ UNCHANGED <<reported, resolved, window>>
    BY <1>4 DEF rvars, exceptions
  <2>2. AuditOK' /\ RateOK' /\ WindowOK'
    BY <2>1, NothingNew DEF RInv
  <2>3. late' = late
    BY <2>1 DEF vars, row
  <2>4. RTypeOK'
    BY <2>1, <2>3 DEF RInv, RTypeOK
  <2> QED
    BY <2>2, <2>4 DEF RInv
<1> QED
  BY <1>1, <1>2, <1>3, <1>4 DEF RNext

LEMMA ReadsBegin == RInit => RInv /\ MoneyBooked
<1> SUFFICES ASSUME RInit PROVE RInv /\ MoneyBooked
  OBVIOUS
<1>1. /\ audit = NoAudit /\ rate = NoRate /\ window = NoWindow
      /\ \A t \in Transaction : status[t] = "ABSENT" /\ history[t] = <<>> /\ entries[t] = <<>>
      /\ inserting = {} /\ late = [t \in Transaction |-> 0]
  BY DEF RInit, Init
<1>2. WindowOK
  <2>1. {t \in Transaction : Exists(t)} \cup inserting = {}
    BY <1>1 DEF Exists
  <2> QED
    BY <1>1, <2>1, FS_EmptySet DEF WindowOK
<1>3. DOMAIN NoAudit = AuditField /\ NoAudit.step = 0
  BY DEF NoAudit, AuditField
<1>4. AuditOK
  BY <1>1, <1>3 DEF AuditOK, AuditField
<1>5. /\ DOMAIN NoRate = {"step", "window", "first", "settled", "open", "exact"}
      /\ NoRate.step = 0 /\ DOMAIN NoRate.exact = 1..2
  BY DEF NoRate
<1>6. RateOK
  BY <1>1, <1>5 DEF RateOK, RateErrsOneWay
<1>7. RTypeOK
  BY <1>1, <1>3, <1>5, AuditOrder, ReadsAssumption DEF RTypeOK, RInit
<1>8. MoneyBooked
  <2>1. MoneyLines(<<>>) = {} /\ Len(<<>>) = 0
    BY DEF MoneyLines
  <2>2. Cardinality(MoneyLines(<<>>)) = 0
    BY <2>1, FS_EmptySet
  <2> QED
    BY <1>1, <2>1, <2>2 DEF MoneyBooked
<1> QED
  BY <1>2, <1>4, <1>6, <1>7, <1>8 DEF RInv

---------------------------------------------------------------------------
\* Reading changes nothing: with the readers among them, the transactions do
\* what Ledger says, so all that is proved of Spec holds here too.
THEOREM ReadsImplementLedger == RSpec => Spec
<1>1. RInit => Init
  BY DEF RInit
<1>2. [RNext]_rvars => [Next]_vars
  BY DEF RNext, rvars, Report, Resolve, RecordLoad, Ask, ReadRow, ReadRefunds, ReadHistory,
         ReadEntries, Got, ReadWindow, CountSettled, CountOpen, Counted
<1> QED
  BY <1>1, <1>2, PTL DEF RSpec, Spec

\* Of every state: rows, histories and journal agree, and what a reader has
\* read so far is covered by what it is about to read.
THEOREM ReadsInvariance == RSpec => [](World /\ RInv)
<1>1. RSpec => []IInv /\ []HistoryIsAPath /\ [][Next]_vars
  BY ReadsImplementLedger, Invariance, HistoryIsUnbroken, PTL DEF Spec
<1>2. IInv /\ HistoryIsAPath /\ MoneyBooked => World
  BY DEF World
<1> QED
  BY <1>1, <1>2, ReadsBegin, MoneyStaysBooked, ReadsStep, PTL DEF RSpec

\* Counters and answers of the two reads keep their shape.
THEOREM ReadsTypeCorrect == RSpec => []RTypeOK
<1>1. RInv => RTypeOK
  BY DEF RInv
<1> QED
  BY <1>1, ReadsInvariance, PTL

\* The timeline of an answered audit reaches the status it shows of the
\* transaction and of each refund, although the four statements of
\* TransactionAuditService see four different states.
THEOREM TimelinesCover == RSpec => []TimelineCoversRows
<1>1. RInv => TimelineCoversRows
  BY AuditOrder DEF RInv, AuditOK, TimelineCoversRows, Answered, Reached
<1> QED
  BY <1>1, ReadsInvariance, PTL

\* Every settlement and reversal of the timeline comes with its journal entry.
THEOREM MoneyHasEntries == RSpec => []MoneyIsBacked
<1>1. RInv => MoneyIsBacked
  BY AuditOrder DEF RInv, AuditOK, MoneyIsBacked, Answered
<1> QED
  BY <1>1, ReadsInvariance, PTL

\* The reconciliation rate of StatsService errs one way only, whichever of its
\* two concurrent counts runs first and whatever commits between them.
THEOREM RateIsOneSided == RSpec => []RateErrsOneWay
<1>1. RInv => RateErrsOneWay
  BY DEF RInv, RateOK
<1> QED
  BY <1>1, ReadsInvariance, PTL

---------------------------------------------------------------------------
(* The refunded amount an audit shows and the refunds it shows. *)

\* The refunds an audit shows as succeeded, with their amounts.
BackShown == {r \in DOMAIN audit.refunds : audit.refunds[r] = "SUCCEEDED"}
PartsShown == [r \in BackShown |-> amount[r]]

\* An audit of a payment whose row it has read, and not as REVERSED.
RowShown == audit.step >= 2 /\ audit.of \in Payment /\ audit.row.status # "REVERSED"

\* The refunded amount read is covered by the refunds there are now, then by the
\* refunds read: those that succeeded stay so, with their amounts.
BackOK ==
  /\ DOMAIN audit = AuditField /\ audit.step \in 0..5
  /\ RowShown =>
       /\ audit.row.refunded \in Nat
       /\ audit.step = 2 => audit.row.refunded <= Total(Parts(audit.of))
       /\ audit.step >= 3 => audit.row.refunded <= Total(PartsShown)
  /\ audit.step >= 3 =>
       \A r \in BackShown : r \in Refund /\ status[r] = "SUCCEEDED"

\* What the succeeded refunds of a payment add up to never falls.
LEMMA PartsGrow ==
  ASSUME IInv, RefundsAddUp, Next, NEW p \in Payment
  PROVE  /\ Total(Parts(p)) \in Nat /\ Total(Parts(p)') \in Nat
         /\ Total(Parts(p)') >= Total(Parts(p))
<1>1. IsFiniteSet(Francs(Parts(p))) /\ Total(Parts(p)) \in Nat
  BY FS_CardinalityType DEF RefundsAddUp, Total
<1>2. ASSUME NEW r \in Refund, SumGrows(p, r)
      PROVE  Total(Parts(p)') \in Nat /\ Total(Parts(p)') >= Total(Parts(p))
  <2>1. amount[r] \in Nat /\ amount[r] \in Int
    BY DEF IInv, TypeOK, Transaction
  <2>2. Total(Parts(p)') = Total(Parts(p)) + (IF amount[r] > 0 THEN amount[r] ELSE 0)
    BY <1>1, <1>2, <2>1, TotalOfOneMore DEF SumGrows
  <2> QED
    BY <1>1, <2>1, <2>2
<1>3. CASE Parts(p)' = Parts(p)
  BY <1>1, <1>3
<1> QED
  BY <1>1, <1>2, <1>3, OtherSum, ReversalSum, SettleRefundSum DEF SumKept, SumCloses

\* The transactions of others do not take back what an audit has shown.
LEMMA BackGoesOn ==
  ASSUME IInv, IInv', RefundsAddUp, BackOK, Next, audit' = audit
  PROVE  BackOK'
<1>1. BackShown' = BackShown /\ RowShown' = RowShown
  BY DEF BackShown, RowShown
<1>2. ASSUME audit.step >= 3, NEW r \in BackShown
      PROVE  r \in Refund /\ status'[r] = "SUCCEEDED" /\ amount'[r] = amount[r]
  BY <1>2, SucceededRefundStays DEF BackOK
<1>3. audit.step >= 3 => PartsShown' = PartsShown
  BY <1>1, <1>2 DEF PartsShown
<1>4. ASSUME RowShown, audit.step = 2
      PROVE  audit.row.refunded <= Total(Parts(audit.of)')
  <2>1. audit.row.refunded \in Nat /\ audit.row.refunded <= Total(Parts(audit.of))
    BY <1>4 DEF BackOK
  <2> QED
    BY <1>4, <2>1, PartsGrow DEF RowShown
<1>5. (audit.step >= 3 => \A r \in BackShown : r \in Refund /\ status[r] = "SUCCEEDED")'
  BY <1>1, <1>2
<1>7. (RowShown =>
         /\ audit.row.refunded \in Nat
         /\ audit.step = 2 => audit.row.refunded <= Total(Parts(audit.of))
         /\ audit.step >= 3 => audit.row.refunded <= Total(PartsShown))'
  BY <1>1, <1>3, <1>4 DEF BackOK
<1> QED
  BY <1>5, <1>7 DEF BackOK

\* Each statement of an audit reads what covers the one before it.
LEMMA BackReadsOn ==
  ASSUME IInv, RefundsAddUp, BackOK, ReadRow \/ ReadRefunds \/ ReadHistory \/ ReadEntries
  PROVE  BackOK'
<1>0. /\ DOMAIN audit = AuditField /\ audit.step \in 0..5 /\ UNCHANGED <<status, amount, parent>>
  BY DEF BackOK, ReadRow, ReadRefunds, ReadHistory, ReadEntries, Got, vars, row, attributes
<1>1. CASE ReadRow
  <2>1. PICK value : value = [status |-> status[audit.of], refunded |-> refunded[audit.of]]
    OBVIOUS
  <2>2. Got("row", value) /\ "row" \in AuditField \ {"step"}
        /\ value.status = status[audit.of] /\ value.refunded = refunded[audit.of]
    BY <1>1, <2>1 DEF ReadRow, AuditField
  <2>3. /\ audit.step = 1 /\ audit'.step = 2 /\ audit'.of = audit.of
        /\ audit'.row = value /\ DOMAIN audit' = AuditField
    BY <1>0, <2>2, OneStatement, AuditOrder DEF AuditField
  <2>4. ASSUME audit.of \in Payment, status[audit.of] # "REVERSED"
        PROVE  refunded[audit.of] \in Nat /\ refunded[audit.of] <= Total(Parts(audit.of))
    <3>1. PICK p \in Payment : p = audit.of
      BY <2>4
    <3>2. refunded[p] = Total(Parts(p)) + Taken(p) /\ Taken(p) = 0 /\ refunded[p] \in Nat
      BY <2>4, <3>1 DEF RefundsAddUp, Taken, IInv, TypeOK, Transaction
    <3>3. Total(Parts(p)) \in Nat
      BY FS_CardinalityType DEF RefundsAddUp, Total
    <3> QED
      BY <3>1, <3>2, <3>3
  <2>6. Parts(audit.of)' = Parts(audit.of)
    BY <1>0, <2>3 DEF Parts, GivenBack
  <2>7. (RowShown =>
           /\ audit.row.refunded \in Nat
           /\ audit.step = 2 => audit.row.refunded <= Total(Parts(audit.of)))'
    BY <2>2, <2>3, <2>4, <2>6 DEF RowShown
  <2> QED
    BY <2>3, <2>7 DEF BackOK
<1>2. CASE ReadRefunds
  <2>1. PICK known : known = [r \in {r \in Refund : Exists(r) /\ parent[r] = audit.of} |-> status[r]]
    OBVIOUS
  <2>2. Got("refunds", known) /\ "refunds" \in AuditField \ {"step"}
    BY <1>2, <2>1 DEF ReadRefunds, AuditField
  <2>3. /\ audit.step = 2 /\ audit'.step = 3 /\ audit'.of = audit.of /\ audit'.row = audit.row
        /\ audit'.refunds = known /\ DOMAIN audit' = AuditField
    BY <1>0, <2>2, OneStatement, AuditOrder DEF AuditField
  <2>4. {r \in DOMAIN known : known[r] = "SUCCEEDED"} = GivenBack(audit.of)
    BY <2>1 DEF GivenBack, Exists
  <2>5. BackShown' = GivenBack(audit.of)
    BY <2>3, <2>4 DEF BackShown
  <2>6. PartsShown' = Parts(audit.of)
    BY <1>0, <2>5 DEF PartsShown, Parts
  <2>7. \A r \in BackShown' : r \in Refund /\ status'[r] = "SUCCEEDED"
    BY <1>0, <2>5 DEF GivenBack
  <2>8. (RowShown =>
           /\ audit.row.refunded \in Nat
           /\ audit.step >= 3 => audit.row.refunded <= Total(PartsShown))'
    BY <2>3, <2>6 DEF RowShown, BackOK
  <2> QED
    BY <2>3, <2>7, <2>8 DEF BackOK
<1>3. ASSUME NEW what \in {"history", "entries"}, NEW value, Got(what, value)
      PROVE  BackOK'
  <2>1. what \in AuditField \ {"step"}
    BY <1>3 DEF AuditField
  <2>2. /\ audit.step \in {3, 4} /\ audit'.step = audit.step + 1 /\ audit'.of = audit.of
        /\ audit'.row = audit.row /\ audit'.refunds = audit.refunds /\ DOMAIN audit' = AuditField
    BY <1>0, <1>3, <2>1, OneStatement, AuditOrder DEF AuditField
  <2>3. BackShown' = BackShown
    BY <2>2 DEF BackShown
  <2>4. PartsShown' = PartsShown
    BY <1>0, <2>3 DEF PartsShown
  <2>5. audit.step >= 2 /\ audit.step >= 3 /\ audit'.step \in 4..5
    BY <2>2
  <2>6. (RowShown =>
           /\ audit.row.refunded \in Nat
           /\ audit.step >= 3 => audit.row.refunded <= Total(PartsShown))'
    BY <2>2, <2>4, <2>5 DEF RowShown, BackOK
  <2> QED
    BY <1>0, <2>2, <2>3, <2>5, <2>6 DEF BackOK
<1> QED
  BY <1>1, <1>2, <1>3 DEF ReadHistory, ReadEntries

LEMMA BeforeTwo == \A n \in {0, 1} : n \in 0..5 /\ ~(n >= 2) /\ ~(n >= 3)
OBVIOUS

\* A new audit has nothing to explain yet.
LEMMA BackBegins ==
  ASSUME \/ audit' = NoAudit
         \/ \E t \in Transaction, full \in BOOLEAN :
              audit' = [NoAudit EXCEPT !.step = 1, !.of = t, !.full = full]
  PROVE  BackOK'
<1>0. DOMAIN NoAudit = AuditField /\ NoAudit.step = 0
  BY DEF NoAudit, AuditField
<1>1. DOMAIN audit' = AuditField /\ audit'.step \in {0, 1}
  <2>1. CASE audit' = NoAudit
    BY <1>0, <2>1
  <2>2. ASSUME NEW t \in Transaction, NEW full \in BOOLEAN,
               audit' = [NoAudit EXCEPT !.step = 1, !.of = t, !.full = full]
        PROVE  DOMAIN audit' = AuditField /\ audit'.step = 1
    BY <1>0, <2>2 DEF AuditField
  <2> QED
    BY <2>1, <2>2
<1>2. PICK n : n = audit'.step
  OBVIOUS
<1>3. n \in 0..5 /\ ~(n >= 2) /\ ~(n >= 3)
  BY <1>1, <1>2, BeforeTwo, Zenon
<1> QED
  BY <1>1, <1>2, <1>3 DEF BackOK, RowShown

\* What the other steps of Reads leave alone.
LEMMA BackUntouched ==
  ASSUME BackOK, UNCHANGED <<vars, audit>>
  PROVE  BackOK'
<1>1. UNCHANGED <<status, amount, parent, audit>>
  BY DEF vars, row, attributes
<1>2. BackShown' = BackShown /\ RowShown' = RowShown
  BY <1>1 DEF BackShown, RowShown
<1>3. PartsShown' = PartsShown /\ Parts(audit.of)' = Parts(audit.of)
  BY <1>1, <1>2 DEF PartsShown, Parts, GivenBack
<1> QED
  BY <1>1, <1>2, <1>3 DEF BackOK

LEMMA BackStep == IInv /\ IInv' /\ RefundsAddUp /\ BackOK /\ [RNext]_rvars => BackOK'
<1> SUFFICES ASSUME IInv, IInv', RefundsAddUp, BackOK, [RNext]_rvars PROVE BackOK'
  OBVIOUS
<1>1. CASE Next /\ UNCHANGED <<exceptions, audit, rate>>
  BY <1>1, BackGoesOn
<1>2. CASE ReadRow \/ ReadRefunds \/ ReadHistory \/ ReadEntries
  BY <1>2, BackReadsOn
<1>3. CASE (\E t \in Transaction, full \in BOOLEAN : Ask(t, full)) \/ ReadWindow
  BY <1>3, BackBegins DEF Ask, ReadWindow
<1>4. CASE UNCHANGED <<vars, audit>>
  BY <1>4, BackUntouched
<1> QED
  BY <1>1, <1>2, <1>3, <1>4
     DEF RNext, rvars, Report, Resolve, RecordLoad, CountSettled, CountOpen, Counted

\* An audit that shows a refunded amount shows refunds that explain it: the row is
\* read first, and a refund that succeeds between the statements only adds to them.
THEOREM RefundsShownBack == RSpec => []RefundedShownIsBacked
<1>1. RInit => BackOK
  BY DEF RInit, BackOK, NoAudit, AuditField, RowShown
<1>2. BackOK => RefundedShownIsBacked
  <2> SUFFICES ASSUME BackOK, Answered, audit.of \in Payment, audit.row.status # "REVERSED"
               PROVE  audit.row.refunded <= Total(PartsShown)
    BY DEF RefundedShownIsBacked, PartsShown, BackShown
  <2>1. audit.step >= 2 /\ audit.step >= 3
    BY AuditOrder DEF BackOK, Answered
  <2> QED
    BY <2>1 DEF BackOK, RowShown
<1>3. RSpec => []IInv /\ []RefundsAddUp
  BY ReadsImplementLedger, Invariance, PartsAddUp, PTL
<1> QED
  BY <1>1, <1>2, <1>3, BackStep, PTL DEF RSpec

=============================================================================
