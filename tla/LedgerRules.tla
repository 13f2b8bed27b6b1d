---------------------------- MODULE LedgerRules ----------------------------
(***************************************************************************)
(* The rules PostgreSQL enforces on the rows of "transactions" and on the  *)
(* postings of a journal entry, and the shape of the three entries the     *)
(* services write.  Everything here is pure: no variable, no recursion.    *)
(*                                                                         *)
(* The postings of an entry are abstracted to one signed amount per        *)
(* account role, debit positive and credit negative; 0 stands for "no line *)
(* on that account".  A payment and its refunds touch three accounts only: *)
(* the clearing account of the provider, the payable account of the        *)
(* merchant and the platform's fees account.                               *)
(***************************************************************************)
EXTENDS Integers, Sequences

---------------------------------------------------------------------------
(* The state machine, stored as data. *)

Status == {"INITIATED", "PENDING", "SUCCEEDED", "FAILED", "EXPIRED",
           "PARTIALLY_REFUNDED", "REFUNDED", "DISPUTED", "REVERSED"}

\* Bug: a dispute may be opened on a payment refunded in full.
RefundedMayBeDisputed ==
  {<<"INITIATED", "PENDING">>, <<"PENDING", "SUCCEEDED">>, <<"SUCCEEDED", "REFUNDED">>,
   <<"REFUNDED", "DISPUTED">>, <<"DISPUTED", "REVERSED">>}

\* Bug: a payment that failed may be tried again.
FailedMayRetry ==
  {<<"INITIATED", "PENDING">>, <<"INITIATED", "FAILED">>, <<"FAILED", "PENDING">>}

\* Table transaction_status_transitions: FAILED, EXPIRED, REFUNDED and
\* REVERSED have no way out.
StatusTransitions ==
  {<<"INITIATED", "PENDING">>, <<"INITIATED", "FAILED">>,
   <<"PENDING", "SUCCEEDED">>, <<"PENDING", "FAILED">>, <<"PENDING", "EXPIRED">>,
   <<"SUCCEEDED", "PARTIALLY_REFUNDED">>, <<"SUCCEEDED", "REFUNDED">>,
   <<"SUCCEEDED", "DISPUTED">>,
   <<"PARTIALLY_REFUNDED", "REFUNDED">>, <<"PARTIALLY_REFUNDED", "DISPUTED">>,
   <<"DISPUTED", "SUCCEEDED">>, <<"DISPUTED", "PARTIALLY_REFUNDED">>,
   <<"DISPUTED", "REVERSED">>}

Unrefunded == {"INITIATED", "PENDING", "SUCCEEDED", "FAILED", "EXPIRED"}

---------------------------------------------------------------------------
(* CHECK constraints and the BEFORE UPDATE trigger of "transactions".      *)

\* Bug: transactions_status_refund_consistency_chk does not know SUCCEEDED.
RowCheckWithoutConsistency(isPayment, s, total, back) ==
  /\ 0 <= back /\ back <= total
  /\ isPayment \/ (back = 0 /\ s \in Unrefunded)

\* transactions_refunded_range_chk, transactions_refund_statuses_chk and
\* transactions_status_refund_consistency_chk on one row.
RowCheck(isPayment, s, total, back) ==
  /\ 0 <= back /\ back <= total
  /\ isPayment \/ (back = 0 /\ s \in Unrefunded)
  /\ s \in Unrefunded => back = 0
  /\ s = "PARTIALLY_REFUNDED" => (0 < back /\ back < total)
  /\ s = "REFUNDED" => back = total

\* fn_transactions_before_update: the refunded amount never decreases
\* (LX010); the table is consulted only when the status really changes
\* (LX005).
UpdateAllowed(s, back, newS, newBack) ==
  /\ newBack >= back
  /\ newS = s \/ <<s, newS>> \in StatusTransitions

\* The trigger also numbers the update, whether the status changes or not.
\* Bug: only a change of status counts.
NextVersionOfStatus(s, newS, v) == IF s = newS THEN v ELSE v + 1
NextVersion(s, newS, v) == v + 1

\* Bug: an update that keeps the status leaves a line too.
RecordedAlways(lines, s, newS) == Append(lines, <<s, newS>>)

\* fn_transactions_record_status: one line per change of status.
Recorded(lines, s, newS) == IF s = newS THEN lines ELSE Append(lines, <<s, newS>>)

---------------------------------------------------------------------------
(* Journal entries. *)

Account == {"clearing", "payable", "fees"}

\* 1.5 %, rounded down to the franc.
computeCommission(total) == (total * 15) \div 1000

\* bookPaymentSuccess: debit clearing, credit the merchant, credit the fees;
\* the fees line is left out when the commission rounds to 0.
PaymentEntry(total) ==
  [clearing |-> total,
   payable  |-> computeCommission(total) - total,
   fees     |-> 0 - computeCommission(total)]

\* Bug: the commission on the part that goes back is given back too.
ReturnEntryWithCommission(back) ==
  [clearing |-> 0 - back, payable |-> back - computeCommission(back), fees |-> computeCommission(back)]

\* bookRefundSuccess and bookDisputeReversal: debit the merchant, credit
\* clearing; the commission stays with the platform.
ReturnEntry(back) == [clearing |-> 0 - back, payable |-> back, fees |-> 0]

\* fn_assert_entry_valid, deferred to COMMIT: two lines at least, debit equal
\* to credit.
EntryValid(e) ==
  /\ \E x, y \in Account : x # y /\ e[x] # 0 /\ e[y] # 0
  /\ e["clearing"] + e["payable"] + e["fees"] = 0

=============================================================================
