-------------------------------- MODULE Demo --------------------------------
(***************************************************************************)
(* The demonstration data: the script that loads them through the services *)
(* (seed-demo.ts), the nightly reset, and what goes on meanwhile on the    *)
(* same database: visitors of the public demo and the operator's callbacks *)
(* on their refunds, the expiration job of the API, an analyst and an      *)
(* administrator.                                                          *)
(*                                                                         *)
(* The script keeps nothing between two runs: it may stop anywhere, killed *)
(* or by any error of a service, and is started again from its first line. *)
(* It is a sequence of instructions, the constant Plan:                    *)
(*   key      give the demo label a new API key                            *)
(*   pay      create the payment row, drive it towards its outcome         *)
(*   settle   wait until the payments meant to expire have                 *)
(*   refund   create the refund row of a payment and settle it             *)
(*   dispute  open a dispute on a payment and lose it                      *)
(*   late     confirm an expired payment, which leaves an exception        *)
(*   report   report a discrepancy of some kind on a payment, or on none   *)
(*   resolve  resolve the one reported so                                  *)
(*   load     record the load in demo_dataset_loads                        *)
(***************************************************************************)
EXTENDS Ledger

CONSTANTS
  Plan,       \* the instructions of the script
  MaxRuns,    \* bound: times the script is started
  MaxResets   \* bound: resets of the database

\* The payments the script means to see expire, and the rows it creates.
ToExpire == {Plan[i].row : i \in {i \in DOMAIN Plan : Plan[i].do = "pay" /\ Plan[i].outcome = "EXPIRED"}}
Seeded == {Plan[i].row : i \in {i \in DOMAIN Plan : Plan[i].do \in {"pay", "refund"}}}

ASSUME DemoAssumption ==
  /\ MaxRuns \in Nat /\ MaxResets \in Nat
  /\ \A i \in DOMAIN Plan :
       /\ Plan[i].do = "pay" => Plan[i].row \in Payment /\ Plan[i].amount \in Amount
       /\ Plan[i].do = "refund" =>
            Plan[i].row \in Refund /\ Plan[i].of \in Payment /\ Plan[i].amount \in Amount
       /\ Plan[i].do = "dispute" => Plan[i].row \in Payment
       \* DiscrepancyKind: that kind is for transition() alone.
       /\ Plan[i].do = "report" => Plan[i].kind # "LATE_ACKNOWLEDGMENT"
  \* main: the load is recorded after the rest.
  /\ DOMAIN Plan \subseteq Nat \ {0}
  /\ \A l \in DOMAIN Plan :
       Plan[l].do = "load" =>
         /\ \A what \in {"settle", "late"} : \E i \in DOMAIN Plan : i < l /\ Plan[i].do = what
         /\ \A i \in DOMAIN Plan : Plan[i].do = "refund" => i < l

VARIABLES
  script,     \* the run in progress: its instruction, what it has read
  keys,       \* API keys of the demo label, one per run that created it
  reported,   \* reconciliation_exceptions the script reported, in order
  resolving,  \* the exception the analyst has read as open, 0 for none
  loads,      \* rows of demo_dataset_loads
  resets      \* resets so far

desk == <<keys, reported, resolving, loads, resets>>
dvars == <<vars, script, desk>>

Nobody == "nobody"

\* A process that does not run.  row: the expired payment seeded.find returns.
Stopped(runs) ==
  [runs |-> runs, pc |-> 0, at |-> "begin", read |-> "ABSENT", seen |-> 0, todo |-> {},
   row |-> NoPayment]

NoKeys == [k \in 1..MaxRuns |-> "ABSENT"]

DInit ==
  /\ Init
  /\ script = Stopped(0)
  /\ keys = NoKeys
  /\ reported = <<>>
  /\ resolving = 0
  /\ loads = 0
  /\ resets = 0

---------------------------------------------------------------------------
(* Running the script. *)

Instruction == Plan[script.pc]
At(what, where) == script.pc \in DOMAIN Plan /\ Instruction.do = what /\ script.at = where

Goto(where) == script' = [script EXCEPT !.at = where]
Forward == [script EXCEPT !.pc = @ + 1, !.at = "begin", !.read = "ABSENT", !.seen = 0]
Advance == script' = Forward

Start ==
  /\ script.pc = 0 /\ script.runs < MaxRuns
  /\ script' = [Stopped(script.runs + 1) EXCEPT !.pc = 1]
  /\ UNCHANGED <<vars, desk>>

\* Killed, or an error: a refused call (404, 409, 412, 422, a CHECK, LX006)
\* or one of the script's own.  A call that is refused has no other way out.
Stop ==
  /\ script.pc > 0
  /\ script' = Stopped(script.runs)
  /\ UNCHANGED <<vars, desk>>

---------------------------------------------------------------------------
(* reissueApiKey. *)

ListKeys ==
  /\ At("key", "begin")
  /\ script' = [script EXCEPT !.at = "listed", !.todo = {k \in DOMAIN keys : keys[k] = "ACTIVE"}]
  /\ UNCHANGED <<vars, desk>>

\* fn_api_keys_before_update: a key is revoked once (LX006).
Revoke(k) ==
  /\ keys[k] = "ACTIVE"
  /\ keys' = [keys EXCEPT ![k] = "REVOKED"]
  /\ UNCHANGED <<vars, reported, resolving, loads, resets>>

RevokeListed(k) ==
  /\ At("key", "listed") /\ k \in script.todo
  /\ Revoke(k)
  /\ script' = [script EXCEPT !.todo = @ \ {k}]

\* The loop is over.  Bug: the new key comes first.
Anyway == TRUE
AllRevoked == script.todo = {}

CreateKey ==
  /\ At("key", "listed") /\ AllRevoked
  /\ keys' = [keys EXCEPT ![script.runs] = "ACTIVE"]
  /\ Advance
  /\ UNCHANGED <<vars, reported, resolving, loads, resets>>

---------------------------------------------------------------------------
(* seedOnePayment. *)

\* When the COMMIT goes through and its answer is lost, the service looks the
\* key up, finds this row and calls it a replay.
CreateSeeded ==
  LET p == Instruction.row IN
  /\ At("pay", "begin")
  /\ CreatePayment(p, Instruction.amount, LedgerCurrency)
  /\ \/ script' = [script EXCEPT !.at = "created", !.seen = 1]
     \/ UNCHANGED script
  /\ UNCHANGED desk

\* The idempotency key is known: the row is taken as it is.  Its status is the
\* one seeded.find will see, except for those meant to expire, read later.
ReplaySeeded ==
  LET p == Instruction.row IN
  /\ At("pay", "begin") /\ Exists(p)
  /\ script' = [Forward EXCEPT
       !.row = IF status[p] = "EXPIRED" /\ p \notin ToExpire /\ @ = NoPayment THEN p ELSE @]
  /\ UNCHANGED <<vars, desk>>

\* "Push USSD envoye", with the version the creation returned.
PushSeeded ==
  LET p == Instruction.row IN
  /\ At("pay", "created") /\ version[p] = script.seen
  /\ ChangeStatus(p, "PENDING")
  /\ IF Instruction.outcome \in {"PENDING", "EXPIRED"}
     THEN Advance
     ELSE script' = [script EXCEPT !.at = "pushed", !.seen = @ + 1]
  /\ UNCHANGED desk

ConfirmSeeded ==
  LET p == Instruction.row IN
  /\ At("pay", "pushed") /\ version[p] = script.seen
  /\ IF Instruction.outcome = "SUCCEEDED" THEN SettlePayment(p) ELSE ChangeStatus(p, "FAILED")
  /\ Advance
  /\ UNCHANGED desk

---------------------------------------------------------------------------
(* settleExpiredBatch. *)

\* expireOverduePending, of what is overdue and locked by nobody else.
Sweep ==
  /\ At("settle", "begin")
  /\ UNCHANGED vars \/ \E batch \in SUBSET Transaction : ExpireBatch(batch)
  /\ Goto("swept")
  /\ UNCHANGED desk

\* What is read after the sweep.  Bug: the sweep is trusted.
SweepIsEnough == TRUE
BatchIsExpired == \A p \in ToExpire : status[p] = "EXPIRED"

FinishBatch ==
  /\ At("settle", "swept") /\ BatchIsExpired
  /\ \E p \in ToExpire : script' = [Forward EXCEPT !.row = IF @ = NoPayment THEN p ELSE @]
  /\ UNCHANGED <<vars, desk>>

\* Some are still PENDING; any other status is an error (Stop).
PollBatch ==
  /\ At("settle", "swept") /\ ~BatchIsExpired
  /\ \A p \in ToExpire : status[p] \in {"EXPIRED", "PENDING"}
  /\ Goto("begin")
  /\ UNCHANGED <<vars, desk>>

---------------------------------------------------------------------------
(* seedRefund, then driveToSucceeded; seedLostDispute.                     *)

InsertSeededRefund ==
  /\ At("refund", "begin")
  /\ CheckRefund(Instruction.row, Instruction.of, Instruction.amount)
  /\ Goto("inserting")
  /\ UNCHANGED desk

\* createRefund returns: the row it inserted, or the one its key had.
SeededRefundIsThere ==
  /\ At("refund", "begin") \/ At("refund", "inserting")
  /\ Exists(Instruction.row)
  /\ Goto("there")
  /\ UNCHANGED <<vars, desk>>

\* The two statuses from which a row is driven on.  Bug: a refund is taken to
\* be acknowledged already, as it is for the callbacks of the simulator.
OnlyPending == IF Instruction.do = "refund" THEN <<"PENDING", "PENDING">> ELSE <<"SUCCEEDED", "DISPUTED">>
Ladder == IF Instruction.do = "refund" THEN <<"INITIATED", "PENDING">> ELSE <<"SUCCEEDED", "DISPUTED">>

ReadDriven ==
  LET t == Instruction.row IN
  /\ At("refund", "there") \/ At("dispute", "begin")
  /\ script' = [script EXCEPT !.at = "driven", !.read = status[t], !.seen = version[t]]
  /\ UNCHANGED <<vars, desk>>

Driven == At("refund", "driven") \/ At("dispute", "driven")

DriveToMiddle ==
  LET t == Instruction.row IN
  /\ Driven /\ script.read = Ladder[1] /\ version[t] = script.seen
  /\ ChangeStatus(t, Ladder[2])
  /\ script' = [script EXCEPT !.read = Ladder[2], !.seen = @ + 1]
  /\ UNCHANGED desk

DriveToEnd ==
  LET t == Instruction.row IN
  /\ Driven /\ script.read = Ladder[2] /\ version[t] = script.seen
  /\ IF t \in Refund THEN SettleRefund(t) ELSE ReverseDispute(t)
  /\ Advance
  /\ UNCHANGED desk

\* The row is elsewhere: nothing is done, nothing is said.
LeaveAsIs ==
  /\ Driven /\ script.read \notin {Ladder[1], Ladder[2]}
  /\ Advance
  /\ UNCHANGED <<vars, desk>>

---------------------------------------------------------------------------
(* seedReconciliationExceptions. *)

Reports(kind, t) == {i \in DOMAIN reported : reported[i].kind = kind /\ reported[i].row = t}

\* findFirst, of what is about to be reported.  Bug: it is not asked.
NeverReported(kind, t) == FALSE
AlreadyReported(kind, t) ==
  IF kind = "LATE_ACKNOWLEDGMENT" THEN late[t] > 0 ELSE Reports(kind, t) # {}

Look ==
  LET kind == IF Instruction.do = "late" THEN "LATE_ACKNOWLEDGMENT" ELSE Instruction.kind
      t == IF Instruction.do = "late" THEN script.row ELSE Instruction.row IN
  /\ (At("late", "begin") /\ t # NoPayment) \/ At("report", "begin")
  /\ IF AlreadyReported(kind, t) THEN Advance ELSE Goto("missing")
  /\ UNCHANGED <<vars, desk>>

AskLate ==
  /\ At("late", "missing")
  /\ LateAcknowledgment(script.row)
  /\ Advance
  /\ UNCHANGED desk

\* ReconciliationService.reportDiscrepancy.
Report ==
  /\ At("report", "missing")
  /\ reported' = Append(reported, [kind |-> Instruction.kind, row |-> Instruction.row, by |-> Nobody])
  /\ Advance
  /\ UNCHANGED <<vars, keys, resolving, loads, resets>>

\* fn_reconciliation_exceptions_before_update (LX006).  Bug: no such trigger.
ResolvableAgain(i) == TRUE
Resolvable(i) == reported[i].by = Nobody

\* ReconciliationService.resolve, second half: the UPDATE.
Resolve(i, who) ==
  /\ Resolvable(i)
  /\ reported' = [reported EXCEPT ![i].by = who]

\* The script looks, then resolve() looks (409: Stop), then updates.
LookOpen ==
  /\ At("resolve", "begin") \/ At("resolve", "open")
  /\ \E i \in Reports(Instruction.kind, Instruction.row) :
       IF reported[i].by # Nobody
       THEN script.at = "begin" /\ Advance
       ELSE Goto(IF script.at = "begin" THEN "open" ELSE "checked")
  /\ UNCHANGED <<vars, desk>>

ResolveSeeded ==
  /\ At("resolve", "checked")
  /\ \E i \in Reports(Instruction.kind, Instruction.row) : Resolve(i, "script")
  /\ Advance
  /\ UNCHANGED <<vars, keys, resolving, loads, resets>>

\* verifyAndSummarize.
Load ==
  /\ At("load", "begin")
  /\ loads' = loads + 1
  /\ script' = Stopped(script.runs)
  /\ UNCHANGED <<vars, keys, reported, resolving, resets>>

---------------------------------------------------------------------------
(* The others. *)

\* INSERTs in progress end, whether or not somebody still waits for them.
Database == \E r \in Refund : CommitRefund(r) \/ AbortRefund(r)

Visitor == \E r \in Refund \ Seeded, p \in Payment, a \in Amount : CheckRefund(r, p, a)

Operator ==
  \E r \in Refund \ Seeded :
    \/ status[r] = "INITIATED" /\ ChangeStatus(r, "PENDING")
    \/ SettleRefund(r)

Clock == \E t \in Transaction : DeadlinePasses(t)
Cron == \E batch \in SUBSET Transaction : ExpireBatch(batch)

Outside ==
  /\ Database \/ Visitor \/ Operator \/ Clock \/ Cron
  /\ UNCHANGED <<script, desk>>

\* PATCH /v1/reconciliation-exceptions/:id/resolve.
AnalystReads(i) ==
  /\ resolving = 0 /\ reported[i].by = Nobody
  /\ resolving' = i
  /\ UNCHANGED <<vars, script, keys, reported, loads, resets>>

AnalystResolves ==
  /\ resolving # 0
  /\ Resolve(resolving, "analyst") \/ (~Resolvable(resolving) /\ UNCHANGED reported)
  /\ resolving' = 0
  /\ UNCHANGED <<vars, script, keys, loads, resets>>

\* POST /v1/api-keys/:id/revoke.
AdminRevokes(k) == Revoke(k) /\ UNCHANGED script

Emptied ==
  /\ status' = [t \in Transaction |-> "ABSENT"]
  /\ amount' = [t \in Transaction |-> 0]
  /\ currency' = [t \in Transaction |-> LedgerCurrency]
  /\ parent' = [r \in Refund |-> NoPayment]
  /\ refunded' = [t \in Transaction |-> 0]
  /\ version' = [t \in Transaction |-> 0]
  /\ overdue' = {}
  /\ inserting' = {}
  /\ history' = [t \in Transaction |-> <<>>]
  /\ entries' = [t \in Transaction |-> <<>>]
  /\ position' = [p \in Payment |-> [a \in Account |-> 0]]
  /\ late' = [t \in Transaction |-> 0]

\* reset-demo-data.sql: TRUNCATE waits for the INSERTs in progress, and empties
\* every table it names.
Reset ==
  /\ script.pc = 0 /\ inserting = {} /\ resets < MaxResets
  /\ Emptied
  /\ keys' = NoKeys
  /\ reported' = <<>>
  /\ resolving' = 0
  /\ resets' = resets + 1
  /\ UNCHANGED <<script, loads>>

---------------------------------------------------------------------------
DNext ==
  \/ Start \/ Stop
  \/ ListKeys \/ CreateKey
  \/ \E k \in 1..MaxRuns : RevokeListed(k) \/ AdminRevokes(k)
  \/ CreateSeeded \/ ReplaySeeded \/ PushSeeded \/ ConfirmSeeded
  \/ Sweep \/ FinishBatch \/ PollBatch
  \/ InsertSeededRefund \/ SeededRefundIsThere
  \/ ReadDriven \/ DriveToMiddle \/ DriveToEnd \/ LeaveAsIs
  \/ Look \/ AskLate \/ Report \/ LookOpen \/ ResolveSeeded
  \/ Load
  \/ Outside
  \/ \E i \in DOMAIN reported : AnalystReads(i)
  \/ AnalystResolves
  \/ Reset

DSpec == DInit /\ [][DNext]_dvars

---------------------------------------------------------------------------
(* What makes the script safe to run again. *)

\* A run that follows one that stopped anywhere reports nothing twice: one
\* discrepancy of a kind per target, one late acknowledgment per payment.
ReportedOnce ==
  /\ \A i, j \in DOMAIN reported :
       reported[i].kind = reported[j].kind /\ reported[i].row = reported[j].row => i = j
  /\ \A t \in Seeded : late[t] <= 1

\* The analyst and the script both look before they resolve; whoever comes
\* second never overwrites the resolution of the first.
ResolutionIsKept ==
  [][\A i \in DOMAIN reported :
       reported[i].by # Nobody /\ i \in DOMAIN reported' => reported'[i] = reported[i]]_dvars

\* reissueApiKey: at any moment one active key at most for the label, also
\* when the run stops between the revocations and the creation.
OneActiveKey ==
  \A k, l \in 1..MaxRuns : keys[k] = "ACTIVE" /\ keys[l] = "ACTIVE" => k = l

\* A load is recorded only when every payment meant to expire has, whoever
\* swept it, and one of the expired payments has its late acknowledgment
\* (settleExpiredBatch: never a batch silently incomplete).
LoadMeansExpired ==
  [][loads' > loads =>
       /\ \A p \in ToExpire : status[p] = "EXPIRED"
       /\ \E p \in Seeded : late[p] > 0]_dvars

\* A load is recorded only when each refund of the plan has been settled, or
\* had expired before a run could take it up again.
LoadMeansRefunded ==
  [][loads' > loads =>
       \A r \in Seeded \cap Refund : status[r] \in {"SUCCEEDED", "EXPIRED"}]_dvars

=============================================================================
