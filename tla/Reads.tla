------------------------------- MODULE Reads -------------------------------
(***************************************************************************)
(* The two reads made of several statements, the audit of a transaction    *)
(* and the reconciliation rate, while the transactions of Ledger commit    *)
(* between their statements.  Each statement sees one committed state; no  *)
(* snapshot is shared.  Reads write nothing, so one at a time is enough.   *)
(* GET of a transaction, its history, and the counts by status are single  *)
(* statements: what they answer is a state of Ledger.                      *)
(***************************************************************************)
EXTENDS Ledger

CONSTANTS
  NoWindow,   \* demo_dataset_loads holds no load
  MaxReports  \* bound: discrepancies reported, of all kinds but MISSING_LOCALLY

ASSUME ReadsAssumption == MaxReports \in Nat

VARIABLES
  reported,  \* exceptions reported on a transaction, late acknowledgments aside
  resolved,  \* exceptions of a transaction that are resolved
  window,    \* rows created between MIN(started_at) and MAX(loaded_at)
  audit,     \* the audit being built, then its answer
  rate       \* the rate being computed, then its answer

exceptions == <<reported, resolved, window>>
rvars == <<vars, exceptions, audit, rate>>

\* Bug: the statements are sent together to save round trips, and run in
\* another order.
AuditHistoryFirst == <<"history", "row", "refunds", "entries">>
AuditRefundsFirst == <<"refunds", "row", "history", "entries">>
AuditEntriesFirst == <<"row", "refunds", "entries", "history">>

\* The statements of an audit, in the order they are awaited.
AuditReads == <<"row", "refunds", "history", "entries">>

NoRow == [status |-> "ABSENT", refunded |-> 0]
NoAudit == [step |-> 0, of |-> NoPayment, full |-> FALSE,
            row |-> NoRow, refunds |-> <<>>, history |-> <<>>, entries |-> <<>>]
NoRate == [step |-> 0, window |-> {}, first |-> "none",
           settled |-> 0, open |-> 0, exact |-> <<0, 0>>]

RInit ==
  /\ Init
  /\ reported = [t \in Transaction |-> 0] /\ resolved = [t \in Transaction |-> 0]
  /\ window = NoWindow
  /\ audit = NoAudit /\ rate = NoRate

---------------------------------------------------------------------------
(* Exceptions and loads, written by others. *)

\* ReconciliationService.reportDiscrepancy.
Report(t) ==
  /\ Exists(t) /\ (\A u \in Transaction : reported[u] < MaxReports)
  /\ reported' = [reported EXCEPT ![t] = @ + 1]
  /\ UNCHANGED <<vars, resolved, window, audit, rate>>

\* Some exception of t is open.  Bug: resolved ones may be resolved again.
AnyException(t) == late[t] + reported[t] > 0
HasOpen(t) == resolved[t] < late[t] + reported[t]

\* ReconciliationService.resolve, its trigger included.
Resolve(t) ==
  /\ HasOpen(t)
  /\ resolved' = [resolved EXCEPT ![t] = @ + 1]
  /\ UNCHANGED <<vars, reported, window, audit, rate>>

\* A load is recorded: created_at is the start of the SQL transaction, so the
\* window takes in the refunds that are being inserted.
RecordLoad ==
  /\ window' = {t \in Transaction : Exists(t)} \cup inserting
  /\ UNCHANGED <<vars, reported, resolved, audit, rate>>

\* No read is under way.
Free == audit.step \notin DOMAIN AuditReads /\ rate.step \in {0, 3}

---------------------------------------------------------------------------
(* GET /v1/transactions/:reference/audit. *)

\* A request is served; full: the role of the key is not MERCHANT.
Ask(t, full) ==
  /\ Free /\ Exists(t)
  /\ audit' = [NoAudit EXCEPT !.step = 1, !.of = t, !.full = full]
  /\ rate' = NoRate
  /\ UNCHANGED <<vars, exceptions>>

Due(what) == audit.step \in DOMAIN AuditReads /\ AuditReads[audit.step] = what

Got(what, value) ==
  /\ Due(what)
  /\ audit' = [audit EXCEPT ![what] = value, !.step = @ + 1]
  /\ UNCHANGED <<vars, exceptions, rate>>

\* findByReferenceOrThrow, in the controller.
ReadRow == Got("row", [status |-> status[audit.of], refunded |-> refunded[audit.of]])

\* The refunds, with their statuses; the parent of a refund is frozen.
ReadRefunds ==
  Got("refunds", [r \in {r \in Refund : Exists(r) /\ parent[r] = audit.of} |-> status[r]])

\* The history of what was read so far (of everything, here: the answer is
\* looked at for the transactions it shows only).
ReadHistory == Got("history", history)

\* Entries, their postings and their totals: none of them ever changes.
ReadEntries == Got("entries", IF audit.full THEN entries ELSE [t \in Transaction |-> <<>>])

---------------------------------------------------------------------------
(* GET /v1/stats, for a role that is not MERCHANT. *)

\* Bug: a dispute is taken for a transaction in progress.
DisputedToo == {"INITIATED", "PENDING", "DISPUTED"}
InProgress == {"INITIATED", "PENDING"}

\* inWindowAndSettled, and those of them with an open exception.
Settled(w) == {t \in w : Exists(t) /\ status[t] \notin InProgress}
WithOpenException(w) == {t \in Settled(w) : HasOpen(t)}

\* What the difference would be if both counts were made at this instant.
Exact(w) == Cardinality(Settled(w)) - Cardinality(WithOpenException(w))

\* The first three reads: of them, the next two use the window.
ReadWindow ==
  /\ Free /\ window # NoWindow
  /\ rate' = [NoRate EXCEPT !.step = 1, !.window = window]
  /\ audit' = NoAudit
  /\ UNCHANGED <<vars, exceptions>>

\* The two COUNTs of Promise.all, on two connections: either may run first.
Counted(what, n) ==
  /\ rate.step \in {1, 2} /\ rate.first # what
  /\ rate' = [rate EXCEPT ![what] = n, !.exact[rate.step] = Exact(rate.window), !.step = @ + 1,
                          !.first = IF rate.step = 1 THEN what ELSE @]
  /\ UNCHANGED <<vars, exceptions, audit>>

CountSettled == Counted("settled", Cardinality(Settled(rate.window)))
CountOpen == Counted("open", Cardinality(WithOpenException(rate.window)))

Reconciled == rate.settled - rate.open

---------------------------------------------------------------------------
RNext ==
  \/ Next /\ UNCHANGED <<exceptions, audit, rate>>
  \/ \E t \in Transaction : Report(t)
  \/ \E t \in Transaction : Resolve(t)
  \/ RecordLoad
  \/ \E t \in Transaction, full \in BOOLEAN : Ask(t, full)
  \/ ReadRow \/ ReadRefunds \/ ReadHistory \/ ReadEntries
  \/ ReadWindow \/ CountSettled \/ CountOpen

RSpec == RInit /\ [][RNext]_rvars

---------------------------------------------------------------------------
\* Counters and answers keep their shape; no more is resolved than was found.
RTypeOK ==
  /\ reported \in [Transaction -> 0..MaxReports]
  /\ resolved \in [Transaction -> Nat]
  /\ \A t \in Transaction : resolved[t] <= late[t] + reported[t]
  /\ window # NoWindow => window \subseteq Transaction
  /\ audit.step \in 0..Len(AuditReads) + 1 /\ rate.step \in 0..3

\* The transactions an answered audit shows, with the status it shows.
Answered == audit.step > Len(AuditReads)
Shown == {audit.of} \cup DOMAIN audit.refunds
StatusShown(t) == IF t = audit.of THEN audit.row.status ELSE audit.refunds[t]

\* The timeline of an audit reaches the status shown of each transaction, its
\* own and its refunds': it may know more, never less.
TimelineCoversRows ==
  Answered => \A t \in Shown : \E i \in DOMAIN audit.history[t] : audit.history[t][i][2] = StatusShown(t)

\* Lines of a history that were committed with a journal entry.
MoneyLines(lines) ==
  {i \in DOMAIN lines : lines[i] \in {<<"PENDING", "SUCCEEDED">>, <<"DISPUTED", "REVERSED">>}}

\* Every settlement and every reversal of the timeline comes with its journal
\* entry: an audit never shows money that moved without a booking.
MoneyIsBacked ==
  Answered /\ audit.full =>
    \A t \in Shown : Cardinality(MoneyLines(audit.history[t])) <= Len(audit.entries[t])

\* The refunded amount of an audited payment is explained by the refunds shown
\* as succeeded, a reversal aside: the row is read before them.
RefundedShownIsBacked ==
  Answered /\ audit.of \in Payment /\ audit.row.status # "REVERSED" =>
    audit.row.refunded <=
      Total([r \in {r \in DOMAIN audit.refunds : audit.refunds[r] = "SUCCEEDED"} |-> amount[r]])

\* The rate errs one way only.  Settled counted first: no more reconciled than
\* there are at the second count.  Open exceptions counted first: no fewer than
\* there were then, and none below zero.
RateErrsOneWay ==
  rate.step = 3 =>
    /\ rate.first = "settled" => Reconciled <= rate.exact[2]
    /\ rate.first = "open" => Reconciled >= rate.exact[1] /\ Reconciled >= 0

=============================================================================
