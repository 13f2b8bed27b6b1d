-------------------------- MODULE CallbacksProofs --------------------------
(***************************************************************************)
(* Requests, callbacks and callers change the ledger by ledger steps only, *)
(* so that all that is proved of the ledger holds of them; and a reader    *)
(* whose version is current has seen the row as it is.                     *)
(*                                                                         *)
(* And one idempotency key, one row, one answer: for any number of         *)
(* requests sent at the same time, repeated, rolled back or interrupted.   *)
(* The argument: the row a request has written, or is writing, carries its *)
(* key and its body from the INSERT on, and nothing changes them           *)
(* afterwards; a second row with the same key cannot be committed.         *)
(***************************************************************************)
EXTENDS Callbacks, LedgerProofs

\* What the steps of a request rely on.
RequestOK ==
  /\ request \in [Client -> {Idle} \cup Body]
  /\ \A c \in Client : request[c] # Idle /\ Row[c] \in Refund => request[c].parent \in Payment

\* The steps of CNext, by process.
HttpStep(c) ==
  \/ \E k \in Key, p \in Payment \cup {NoPayment}, a \in Amount : Post(c, k, p, a)
  \/ \E step \in {"created", "failed"} : InsertPayment(c, step) \/ CommitInsert(c, step)
  \/ InsertRefund(c) \/ RollBack(c, "failed") \/ FailInsert(c) \/ LookUp(c)
  \/ ScheduleAcknowledge(c) \/ ScheduleSettle(c) \/ CrashRequest(c)

WorkerStep(w) ==
  \/ \E job \in jobs : TakeJob(w, job)
  \/ ReadRow(w) \/ Callback(w) \/ GiveUp(w) \/ FailJob(w) \/ StallJob(w)

CallerStep(x) ==
  \/ \E t \in Transaction : Get(x, t)
  \/ \E to \in Status : Patch(x, to) \/ PatchIsStale(x, to)

TimeStep ==
  \/ \E t \in Transaction : Time(t)
  \/ \E batch \in SUBSET Transaction : Expire(batch)

\* Next, regrouped by who takes the step.
LEMMA StepsByProcess ==
  CNext <=> \/ \E c \in Client : HttpStep(c)
            \/ \E w \in Worker : WorkerStep(w)
            \/ \E x \in Caller : CallerStep(x)
            \/ TimeStep
BY DEF CNext, HttpStep, WorkerStep, CallerStep, TimeStep

---------------------------------------------------------------------------
(* Every step is a step of the ledger, or leaves it alone. *)

\* Whoever calls transition() takes a step of Ledger.
LEMMA TransitionIsNext ==
  ASSUME NEW t \in Transaction, NEW to \in Status, Transition(t, to)
  PROVE  Next
BY DEF Transition, Next

\* A POST does to the database what CreatePayment and the INSERT of a refund do.
LEMMA HttpIsLedgerStep ==
  ASSUME IInv, RequestOK, NEW c \in Client, HttpStep(c)
  PROVE  [Next]_vars
<1>1. CASE UNCHANGED vars
  BY <1>1
<1>2. ASSUME NEW step, InsertPayment(c, step)
      PROVE  Next
  <2>1. request[c] \in Body
    BY <1>2 DEF InsertPayment, RequestOK, Idle
  <2>2. request[c].amount \in Amount /\ Row[c] \in Payment /\ LedgerCurrency \in Currency
    BY <1>2, <2>1, LedgerAssumption DEF InsertPayment, Body
  <2>3. CreatePayment(Row[c], request[c].amount, LedgerCurrency)
    BY <1>2 DEF InsertPayment
  <2> QED
    BY <2>2, <2>3 DEF Next
<1>3. CASE InsertRefund(c)
  <2>1. request[c] \in Body /\ request[c] # Idle
    BY <1>3 DEF InsertRefund, RequestOK, Idle
  <2>2. request[c].amount \in Amount /\ Row[c] \in Refund /\ request[c].parent \in Payment
    BY <1>3, <2>1 DEF InsertRefund, Body, RequestOK
  <2>3. CheckRefund(Row[c], request[c].parent, request[c].amount)
    BY <1>3 DEF InsertRefund
  <2> QED
    BY <2>2, <2>3 DEF Next
<1>4. CASE CommitRefund(Row[c]) \/ AbortRefund(Row[c])
  <2>1. Row[c] \in Refund
    BY <1>4 DEF CommitRefund, AbortRefund, IInv, TypeOK
  <2> QED
    BY <1>4, <2>1 DEF Next
<1> QED
  BY <1>1, <1>2, <1>3, <1>4
     DEF HttpStep, Post, CommitInsert, RollBack, FailInsert, LookUp, ScheduleAcknowledge,
         ScheduleSettle, CrashRequest

\* A callback is a transition, everything else of a worker leaves the database alone.
LEMMA WorkerIsLedgerStep ==
  ASSUME ReadersSawThePast, NEW w \in Worker, WorkerStep(w)
  PROVE  [Next]_vars
<1>1. CASE Callback(w)
  <2>1. worker[w].job \in Job
    BY <1>1 DEF Callback, ReadersSawThePast, WorkerSawThePast
  <2>2. worker[w].job[2] \in Transaction /\ Targets(worker[w].job) \subseteq Status
    BY <2>1 DEF Job, Targets, Status
  <2> QED
    BY <1>1, <2>2, TransitionIsNext DEF Callback
<1>2. CASE UNCHANGED vars
  BY <1>2
<1> QED
  BY <1>1, <1>2 DEF WorkerStep, TakeJob, ReadRow, GiveUp, FailJob, StallJob

\* So for a caller: GET reads, PATCH is a transition or is refused.
LEMMA CallerIsLedgerStep ==
  ASSUME ReadersSawThePast, NEW x \in Caller, CallerStep(x)
  PROVE  [Next]_vars
<1>1. ASSUME NEW to \in Status, Patch(x, to)
      PROVE  Next
  <2>1. caller[x].row \in Transaction /\ Transition(caller[x].row, to)
    BY <1>1 DEF Patch, ReadersSawThePast, CallerSawThePast
  <2> QED
    BY <2>1, TransitionIsNext
<1>2. CASE UNCHANGED vars
  BY <1>2
<1> QED
  BY <1>1, <1>2 DEF CallerStep, Get, PatchIsStale

\* The clock and the cron are those of Ledger.
LEMMA TimeIsLedgerStep == TimeStep => Next
BY DEF TimeStep, Time, Expire, Next

\* Together: every step is a step of Ledger or leaves its variables unchanged.
LEMMA IsLedgerStep ==
  ASSUME IInv, RequestOK, ReadersSawThePast, [CNext]_cvars
  PROVE  [Next]_vars
<1>1. CASE UNCHANGED cvars
  BY <1>1 DEF cvars
<1> QED
  BY <1>1, StepsByProcess, HttpIsLedgerStep, WorkerIsLedgerStep, CallerIsLedgerStep, TimeIsLedgerStep

---------------------------------------------------------------------------
(* The requests keep their bodies. *)

\* A step of a request keeps its body well formed and the parent of a refund a payment.
LEMMA RequestStep ==
  ASSUME RequestOK, NEW c \in Client, HttpStep(c)
  PROVE  RequestOK'
<1>1. request \in [Client -> {Idle} \cup Body]
  BY DEF RequestOK
<1>2. \A d \in Client : request[d] = Idle => request[d].step = "idle"
  BY DEF Idle
<1>3. ASSUME NEW step \in {"waiting", "failed", "created", "scheduling", "lost"},
             request[c].step # "idle", Advance(c, step)
      PROVE  RequestOK'
  <2>1. request[c] \in Body /\ request[c] # Idle
    BY <1>1, <1>2, <1>3
  <2>2. request'[c] = [request[c] EXCEPT !.step = step]
    BY <1>1, <1>3 DEF Advance
  <2>3. request'[c] \in Body /\ request'[c].parent = request[c].parent
    BY <2>1, <2>2 DEF Body
  <2>4. request' = [request EXCEPT ![c] = request'[c]]
    BY <1>1, <1>3 DEF Advance
  <2> QED
    BY <1>1, <2>1, <2>3, <2>4 DEF RequestOK
<1>4. ASSUME NEW answer \in {"created", "replayed", "mismatch", "error"},
             request[c].step # "idle", Answer(c, answer)
      PROVE  RequestOK'
  <2>1. request[c] \in Body /\ request[c] # Idle
    BY <1>1, <1>2, <1>4
  <2>2. request'[c] = [request[c] EXCEPT !.step = "answered", !.answer = answer]
    BY <1>1, <1>4 DEF Answer
  <2>3. request'[c] \in Body /\ request'[c].parent = request[c].parent
    BY <2>1, <2>2 DEF Body
  <2>4. request' = [request EXCEPT ![c] = request'[c]]
    BY <1>1, <1>4 DEF Answer
  <2> QED
    BY <1>1, <2>1, <2>3, <2>4 DEF RequestOK
<1>5. ASSUME NEW k \in Key, NEW p \in Payment \cup {NoPayment}, NEW a \in Amount, Post(c, k, p, a)
      PROVE  RequestOK'
  <2>1. PICK known \in BOOLEAN : request' = [request EXCEPT ![c] =
          [step |-> "posted", answer |-> "none", key |-> k, parent |-> p, amount |-> a,
           known |-> known]]
    BY <1>5 DEF Post
  <2>2. Row[c] \in Refund => p \in Payment
    BY <1>5 DEF Post
  <2>3. [step |-> "posted", answer |-> "none", key |-> k, parent |-> p, amount |-> a,
         known |-> known] \in Body
    BY DEF Body
  <2> QED
    BY <1>1, <2>1, <2>2, <2>3 DEF RequestOK
<1>6. ASSUME NEW step \in {"created", "failed"}, InsertPayment(c, step) \/ CommitInsert(c, step)
      PROVE  RequestOK'
  BY <1>3, <1>6 DEF InsertPayment, CommitInsert
<1>7. CASE InsertRefund(c)
  BY <1>3, <1>7 DEF InsertRefund
<1>8. ASSUME NEW step \in {"failed", "lost"}, RollBack(c, step)
      PROVE  RequestOK'
  BY <1>3, <1>8 DEF RollBack
<1>9. CASE FailInsert(c)
  <2>1. Advance(c, "failed") /\ request[c].step # "idle"
    BY <1>9 DEF FailInsert, Caught, Advance
  <2> QED
    BY <1>3, <2>1
<1>10. CASE LookUp(c)
  BY <1>4, <1>10 DEF LookUp
<1>11. CASE ScheduleAcknowledge(c)
  BY <1>3, <1>11 DEF ScheduleAcknowledge
<1>12. CASE ScheduleSettle(c)
  BY <1>4, <1>12 DEF ScheduleSettle
<1>13. CASE CrashRequest(c)
  <2>1. CASE RollBack(c, "lost")
    BY <1>8, <2>1
  <2>2. CASE request[c].step \in {"posted", "failed", "created", "scheduling"} /\ Advance(c, "lost")
    BY <1>3, <2>2
  <2> QED
    BY <1>13, <2>1, <2>2 DEF CrashRequest
<1> QED
  BY <1>5, <1>6, <1>7, <1>8, <1>9, <1>10, <1>11, <1>12, <1>13 DEF HttpStep

---------------------------------------------------------------------------
(* What a reader holds stays a past of its row. *)

\* A snapshot stays a past of its row, whatever the ledger does next: a version
\* that has not moved means a row that has not moved.
LEMMA PastStays ==
  ASSUME IInv, [Next]_vars, NEW t \in Transaction, NEW seen, Past(t, seen)
  PROVE  Past(t, seen)'
<1>1. CASE UNCHANGED vars
  BY <1>1 DEF vars, row, Past, Exists, Snapshot
<1>2. CASE Next
  <2>1. RowStep(t) /\ status[t] # "ABSENT" /\ status[t] \in Status
    BY <1>2, RowSteps DEF Past, Exists, IInv, TypeOK
  <2>2. version[t] \in Int /\ version'[t] \in Int
    <3>1. IInv'
      BY NextInv
    <3> QED
      BY <3>1 DEF IInv, TypeOK
  <2>3. \A s : <<status[t], s>> \in StatusTransitions => s # "ABSENT"
    BY DEF StatusTransitions
  <2>4. Exists(t)'
    BY <2>1, <2>3 DEF RowStep, Exists
  <2>5. seen.version \in Nat /\ seen.version <= version'[t]
    BY <2>1, <2>2 DEF Past, RowStep
  <2>6. seen.version = version'[t] =>
          /\ seen = Snapshot(t)
          /\ status'[t] = status[t] /\ refunded'[t] = refunded[t] /\ version'[t] = version[t]
    BY <2>1, <2>2 DEF Past, RowStep
  <2> QED
    BY <2>4, <2>5, <2>6 DEF Past, Snapshot
<1> QED
  BY <1>1, <1>2

\* A snapshot that has just been taken is the present of its row.
LEMMA PastNow ==
  ASSUME TypeOK, NEW t \in Transaction, Exists(t)
  PROVE  Past(t, Snapshot(t))
BY DEF Past, Snapshot, TypeOK

\* What a worker has read stays a past of its row when somebody else acts.
LEMMA WorkerKeeps ==
  ASSUME IInv, [Next]_vars, NEW w \in Worker, WorkerSawThePast(w), worker'[w] = worker[w]
  PROVE  WorkerSawThePast(w)'
<1>1. CASE worker[w].step = "read"
  <2>1. worker[w].job[2] \in Transaction
    BY <1>1 DEF WorkerSawThePast, Job
  <2>2. Past(worker[w].job[2], worker[w].seen)
    BY <1>1 DEF WorkerSawThePast
  <2>3. PICK t \in Transaction : t = worker[w].job[2]
    BY <2>1
  <2>4. PICK seen : seen = worker[w].seen
    OBVIOUS
  <2>5. Past(t, seen)'
    BY <2>2, <2>3, <2>4, PastStays
  <2>6. worker'[w].job[2] = t /\ worker'[w].seen = seen
    BY <2>3, <2>4
  <2> QED
    BY <1>1, <2>5, <2>6 DEF WorkerSawThePast, Past, Exists, Snapshot, ExpectedFrom
<1>2. CASE worker[w].step # "read"
  BY <1>2 DEF WorkerSawThePast
<1> QED
  BY <1>1, <1>2

\* So for a caller.
LEMMA CallerKeeps ==
  ASSUME IInv, [Next]_vars, NEW x \in Caller, CallerSawThePast(x), caller'[x] = caller[x]
  PROVE  CallerSawThePast(x)'
<1>1. CASE caller[x].step = "read"
  <2>1. PICK t \in Transaction : t = caller[x].row
    BY <1>1 DEF CallerSawThePast
  <2>2. PICK seen : seen = caller[x].seen
    OBVIOUS
  <2>3. Past(t, seen)'
    BY <1>1, <2>1, <2>2, PastStays DEF CallerSawThePast
  <2> QED
    BY <2>1, <2>2, <2>3 DEF CallerSawThePast, Past, Exists, Snapshot
<1>2. CASE caller[x].step # "read"
  BY <1>2 DEF CallerSawThePast
<1> QED
  BY <1>1, <1>2

\* A step that leaves the readers alone.
LEMMA ReadersKeep ==
  ASSUME IInv, ReadersSawThePast, [Next]_vars, jobs' \subseteq Job, UNCHANGED readers
  PROVE  ReadersSawThePast'
BY WorkerKeeps, CallerKeeps DEF ReadersSawThePast, readers

\* A step of a worker that puts it in the state s.
LEMMA WorkerMoves ==
  ASSUME IInv, ReadersSawThePast, [Next]_vars, NEW w \in Worker, NEW s,
         jobs' \subseteq Job, worker' = [worker EXCEPT ![w] = s], caller' = caller,
         WorkerSawThePast(w)'
  PROVE  ReadersSawThePast'
<1>1. worker' = [v \in Worker |-> worker'[v]]
  BY DEF ReadersSawThePast
<1>2. \A v \in Worker : WorkerSawThePast(v)'
  BY WorkerKeeps DEF ReadersSawThePast
<1>3. \A x \in Caller : CallerSawThePast(x)'
  BY CallerKeeps DEF ReadersSawThePast
<1> QED
  BY <1>1, <1>2, <1>3 DEF ReadersSawThePast

\* A step of a caller that puts it in the state s.
LEMMA CallerMoves ==
  ASSUME IInv, ReadersSawThePast, [Next]_vars, NEW x \in Caller, NEW s,
         jobs' \subseteq Job, caller' = [caller EXCEPT ![x] = s], worker' = worker,
         CallerSawThePast(x)'
  PROVE  ReadersSawThePast'
<1>1. caller' = [y \in Caller |-> caller'[y]]
  BY DEF ReadersSawThePast
<1>2. \A y \in Caller : CallerSawThePast(y)'
  BY CallerKeeps DEF ReadersSawThePast
<1>3. \A w \in Worker : WorkerSawThePast(w)'
  BY WorkerKeeps DEF ReadersSawThePast
<1> QED
  BY <1>1, <1>2, <1>3 DEF ReadersSawThePast

\* Steps of the workers: only ReadRow takes a snapshot, of the row as it is.
LEMMA WorkerReaders ==
  ASSUME IInv, ReadersSawThePast, [Next]_vars, NEW w \in Worker, WorkerStep(w)
  PROVE  ReadersSawThePast'
<1>0. /\ jobs \subseteq Job /\ worker = [v \in Worker |-> worker[v]]
      /\ WorkerSawThePast(w)
  BY DEF ReadersSawThePast
<1>1. ASSUME NEW job \in jobs, TakeJob(w, job)
      PROVE  ReadersSawThePast'
  <2>1. worker' = [worker EXCEPT ![w] = [step |-> "taken", job |-> job]]
    BY <1>1 DEF TakeJob
  <2>2. WorkerSawThePast(w)'
    BY <1>0, <1>1, <2>1 DEF WorkerSawThePast
  <2> QED
    BY <1>0, <1>1, <2>1, <2>2, WorkerMoves DEF TakeJob
<1>2. ASSUME worker' = [worker EXCEPT ![w] = Idle], jobs' \subseteq Job, caller' = caller
      PROVE  ReadersSawThePast'
  <2>1. WorkerSawThePast(w)'
    BY <1>0, <1>2 DEF WorkerSawThePast, Idle
  <2> QED
    BY <1>2, <2>1, WorkerMoves
<1>3. CASE ReadRow(w)
  <2>1. worker[w].job \in Job /\ worker[w].job[2] \in Transaction
    BY <1>0, <1>3 DEF ReadRow, WorkerSawThePast, Job
  <2>2. PICK job \in Job, t \in Transaction : job = worker[w].job /\ t = job[2]
    BY <2>1
  <2>3. CASE status[t] = ExpectedFrom(job)
    <3>1. worker' = [worker EXCEPT ![w] = [step |-> "read", job |-> job, seen |-> Snapshot(t)]]
      BY <1>3, <2>2, <2>3 DEF ReadRow
    <3>2. Exists(t) /\ Snapshot(t).status = ExpectedFrom(job)
      BY <2>3 DEF ExpectedFrom, Exists, Snapshot
    <3>3. Past(t, Snapshot(t)) /\ UNCHANGED vars
      BY <1>3, <3>2, PastNow DEF IInv, ReadRow
    <3>4. Past(t, Snapshot(t))' /\ Snapshot(t)' = Snapshot(t)
      BY <3>3 DEF Past, Exists, Snapshot, vars, row
    <3>5. worker'[w] = [step |-> "read", job |-> job, seen |-> Snapshot(t)]
      BY <1>0, <3>1
    <3>6. PICK seen : seen = Snapshot(t)
      OBVIOUS
    <3>7. /\ worker'[w].job = job /\ worker'[w].seen = seen
          /\ seen.status = ExpectedFrom(job) /\ Past(t, seen)'
      BY <3>2, <3>4, <3>5, <3>6 DEF Past, Exists, Snapshot
    <3>8. WorkerSawThePast(w)'
      BY <2>2, <3>7 DEF WorkerSawThePast, Past, Exists, Snapshot, ExpectedFrom
    <3> QED
      BY <1>0, <1>3, <3>1, <3>8, WorkerMoves DEF ReadRow
  <2>4. CASE status[t] # ExpectedFrom(job)
    BY <1>0, <1>2, <1>3, <2>2, <2>4 DEF ReadRow
  <2> QED
    BY <2>3, <2>4
<1>4. CASE StallJob(w)
  <2>1. worker[w].job \in Job
    BY <1>0, <1>4 DEF StallJob, WorkerSawThePast
  <2> QED
    BY <1>0, <1>2, <1>4, <2>1 DEF StallJob
<1> QED
  BY <1>0, <1>1, <1>2, <1>3, <1>4 DEF WorkerStep, Callback, GiveUp, FailJob

\* Steps of the callers: only Get takes a snapshot.
LEMMA CallerReaders ==
  ASSUME IInv, ReadersSawThePast, [Next]_vars, NEW x \in Caller, CallerStep(x)
  PROVE  ReadersSawThePast'
<1>0. jobs \subseteq Job /\ caller = [y \in Caller |-> caller[y]]
  BY DEF ReadersSawThePast
<1>1. ASSUME NEW t \in Transaction, Get(x, t)
      PROVE  ReadersSawThePast'
  <2>1. caller' = [caller EXCEPT ![x] = [step |-> "read", row |-> t, seen |-> Snapshot(t)]]
    BY <1>1 DEF Get
  <2>2. Past(t, Snapshot(t)) /\ UNCHANGED vars
    BY <1>1, PastNow DEF Get, IInv
  <2>3. Past(t, Snapshot(t))' /\ Snapshot(t)' = Snapshot(t)
    BY <2>2 DEF Past, Exists, Snapshot, vars, row
  <2>4. caller'[x] = [step |-> "read", row |-> t, seen |-> Snapshot(t)]
    BY <1>0, <2>1
  <2>5. CallerSawThePast(x)'
    BY <2>3, <2>4 DEF CallerSawThePast, Past, Exists, Snapshot
  <2> QED
    BY <1>0, <1>1, <2>1, <2>5, CallerMoves DEF Get
<1>2. ASSUME NEW to, Patch(x, to) \/ PatchIsStale(x, to)
      PROVE  ReadersSawThePast'
  <2>1. PICK answer : caller' = [caller EXCEPT ![x] =
          [step |-> "answered", row |-> @.row, seen |-> @.seen, to |-> to, answer |-> answer]]
    BY <1>2 DEF Patch, PatchIsStale, Reply
  <2>2. CallerSawThePast(x)'
    BY <1>0, <2>1 DEF CallerSawThePast
  <2> QED
    BY <1>0, <1>2, <2>1, <2>2, CallerMoves DEF Patch, PatchIsStale
<1> QED
  BY <1>1, <1>2 DEF CallerStep

\* Requests add well-formed jobs and leave the readers alone.
LEMMA HttpReaders ==
  ASSUME IInv, ReadersSawThePast, [Next]_vars, NEW c \in Client, HttpStep(c)
  PROVE  ReadersSawThePast'
<1>1. UNCHANGED readers
  BY DEF HttpStep, Post, InsertPayment, CommitInsert, InsertRefund, RollBack, FailInsert, LookUp,
         ScheduleAcknowledge, ScheduleSettle, CrashRequest
<1>2. Row[c] \in Transaction
  BY CallbacksAssumption
<1>3. jobs' \subseteq Job
  BY <1>2 DEF HttpStep, Post, InsertPayment, CommitInsert, InsertRefund, RollBack, FailInsert, LookUp,
         ScheduleAcknowledge, ScheduleSettle, CrashRequest, ReadersSawThePast, Job
<1> QED
  BY <1>1, <1>3, ReadersKeep

\* Every step keeps what the readers hold a past of their rows.
LEMMA ReadersStep ==
  ASSUME IInv, RequestOK, ReadersSawThePast, [CNext]_cvars
  PROVE  ReadersSawThePast'
<1>1. [Next]_vars
  BY IsLedgerStep
<1>2. CASE UNCHANGED cvars \/ TimeStep
  <2>1. UNCHANGED <<jobs, readers>>
    BY <1>2 DEF cvars, TimeStep, Time, Expire
  <2> QED
    BY <1>1, <2>1, ReadersKeep DEF ReadersSawThePast
<1> QED
  BY <1>1, <1>2, StepsByProcess, HttpReaders, WorkerReaders, CallerReaders

---------------------------------------------------------------------------
(* The invariant, and what follows. *)

\* The ledger's invariant holds under concurrent requests, callbacks and
\* callers, and no reader ever holds a snapshot its row has not been in: if
\* its version is current the snapshot is the row (If-Match is enough).
THEOREM CallbacksInvariance ==
  CSpec => [](IInv /\ RequestOK /\ ReadersSawThePast)
<1>1. CInit => IInv /\ RequestOK /\ ReadersSawThePast
  <2>1. CInit => IInv
    BY InitInv DEF CInit
  <2>2. CInit => RequestOK
    BY DEF CInit, RequestOK
  <2>3. CInit => ReadersSawThePast
    BY DEF CInit, ReadersSawThePast, WorkerSawThePast, CallerSawThePast, Idle
  <2> QED
    BY <2>1, <2>2, <2>3
<1>2. IInv /\ RequestOK /\ ReadersSawThePast /\ [CNext]_cvars
        => (IInv /\ RequestOK /\ ReadersSawThePast)'
  <2> SUFFICES ASSUME IInv, RequestOK, ReadersSawThePast, [CNext]_cvars
               PROVE  (IInv /\ RequestOK /\ ReadersSawThePast)'
    OBVIOUS
  <2>1. IInv'
    BY IsLedgerStep, NextInv
  <2>2. RequestOK'
    <3>1. CASE \E c \in Client : HttpStep(c)
      BY <3>1, RequestStep
    <3>2. CASE request' = request
      BY <3>2 DEF RequestOK
    <3> QED
      BY <3>1, <3>2, StepsByProcess
         DEF cvars, http, WorkerStep, CallerStep, TimeStep, TakeJob, ReadRow, Callback, GiveUp,
             FailJob, StallJob, Get, Patch, PatchIsStale, Time, Expire
  <2> QED
    BY <2>1, <2>2, ReadersStep
<1> QED
  BY <1>1, <1>2, PTL DEF CSpec

\* Requests, callbacks and callers implement the ledger: every safety property
\* proved of Ledger holds whatever they do.
THEOREM CallbacksImplementLedger == CSpec => Spec
<1>1. CInit => Init
  BY DEF CInit
<1>2. IInv /\ RequestOK /\ ReadersSawThePast /\ [CNext]_cvars => [Next]_vars
  BY IsLedgerStep
<1> QED
  BY <1>1, <1>2, CallbacksInvariance, PTL DEF CSpec, Spec

\* In particular the books agree with the rows, and the money moves as the
\* abstract flow allows, whatever is replayed, lost or raced.
THEOREM CallbacksBooksAgree == CSpec => []BooksMatchRow
BY CallbacksImplementLedger, BooksAgree, PTL

\* transition() compares If-Match with the version it has locked: a worker or a
\* caller changes a row only if it has seen it as it is.
THEOREM CallbacksDecide == CSpec => DecidesOnWhatItSaw
<1>1. ReadersSawThePast /\ CNext => WorkersDecide
  <2> SUFFICES ASSUME ReadersSawThePast, CNext, NEW w \in Worker,
                      worker[w].step = "read", worker'[w] # worker[w],
                      version'[worker[w].job[2]] # version[worker[w].job[2]]
               PROVE  /\ worker[w].seen = Snapshot(worker[w].job[2])
                      /\ status[worker[w].job[2]] = ExpectedFrom(worker[w].job)
    BY DEF WorkersDecide
  <2>1. worker = [v \in Worker |-> worker[v]] /\ WorkerSawThePast(w)
    BY DEF ReadersSawThePast
  <2>2. PICK v \in Worker : WorkerStep(v)
    BY StepsByProcess
       DEF HttpStep, Post, InsertPayment, CommitInsert, InsertRefund, RollBack, FailInsert, LookUp,
           ScheduleAcknowledge, ScheduleSettle, CrashRequest, readers, CallerStep, Get, Patch,
           PatchIsStale, TimeStep, Time, Expire
  <2>3. v = w
    BY <2>1, <2>2 DEF WorkerStep, TakeJob, ReadRow, Callback, GiveUp, FailJob, StallJob
  <2>4. Callback(w)
    BY <2>2, <2>3 DEF WorkerStep, TakeJob, ReadRow, GiveUp, FailJob, StallJob, vars, row
  <2>5. worker[w].seen = Snapshot(worker[w].job[2])
    BY <2>1, <2>4 DEF Callback, IsCurrent, WorkerSawThePast, Past
  <2> QED
    BY <2>1, <2>5 DEF WorkerSawThePast, Snapshot
<1>2. ReadersSawThePast /\ CNext => CallersDecide
  <2> SUFFICES ASSUME ReadersSawThePast, CNext, NEW x \in Caller,
                      caller[x].step = "read", caller'[x].step = "answered",
                      version'[caller[x].row] # version[caller[x].row]
               PROVE  caller[x].seen = Snapshot(caller[x].row)
    BY DEF CallersDecide
  <2>1. caller = [y \in Caller |-> caller[y]] /\ CallerSawThePast(x)
    BY DEF ReadersSawThePast
  <2>2. PICK y \in Caller : CallerStep(y)
    BY StepsByProcess
       DEF HttpStep, Post, InsertPayment, CommitInsert, InsertRefund, RollBack, FailInsert, LookUp,
           ScheduleAcknowledge, ScheduleSettle, CrashRequest, readers, WorkerStep, TakeJob, ReadRow,
           Callback, GiveUp, FailJob, StallJob, TimeStep, Time, Expire
  <2>3. y = x
    BY <2>1, <2>2 DEF CallerStep, Get, Patch, PatchIsStale, Reply
  <2>4. PICK to \in Status : Patch(x, to)
    BY <2>2, <2>3 DEF CallerStep, Get, PatchIsStale, vars, row
  <2> QED
    BY <2>1, <2>4 DEF Patch, IsCurrent, CallerSawThePast, Past
<1>3. ReadersSawThePast /\ [CNext]_cvars => [WorkersDecide /\ CallersDecide]_cvars
  BY <1>1, <1>2
<1>4. CSpec => [][WorkersDecide /\ CallersDecide]_cvars
  BY <1>3, CallbacksInvariance, PTL DEF CSpec
<1> QED
  BY <1>4 DEF DecidesOnWhatItSaw

---------------------------------------------------------------------------
(* One key, one row, one answer. *)

\* The row that request c inserts carries the key and the body of c.
RowIsOf(c) ==
  /\ key[Row[c]] = request[c].key
  /\ Fingerprint(Row[c]) = BodyOf(request[c])

\* The requests that know their row to be committed.
HasCommitted(c) ==
  request[c].step \in {"created", "scheduling"} \/ Answered(c, {"created"})

KeysOK ==
  /\ key \in [Transaction -> Key \cup {NoKey}]
  /\ \A t, u \in Transaction : Exists(t) /\ Exists(u) /\ key[t] = key[u] => t = u
  /\ \A c \in Client :
       /\ request[c] # Idle /\ Row[c] \notin Refund => request[c].parent = NoPayment
       /\ request[c].step = "waiting" => Row[c] \in inserting /\ RowIsOf(c)
       /\ HasCommitted(c) => Exists(Row[c]) /\ RowIsOf(c)
       /\ Answered(c, {"replayed"}) =>
            \E t \in Holders(request[c].key) : Fingerprint(t) = BodyOf(request[c])

---------------------------------------------------------------------------
(* Steps of the ledger that write no new row. *)

\* No row appears, disappears or changes its body.
NoNewRow ==
  /\ UNCHANGED <<attributes, inserting>>
  /\ \A t \in Transaction : Exists(t)' <=> Exists(t)

\* Whatever transition() does, it does to a row that exists.
LEMMA TransitionWritesNoRow ==
  ASSUME IInv, NEW t \in Transaction, NEW to \in Status, Transition(t, to)
  PROVE  NoNewRow
<1>0. /\ status \in [Transaction -> Status \cup {"ABSENT"}] /\ "ABSENT" \notin Status
      /\ Payment \subseteq Transaction /\ Refund \subseteq Transaction
  BY DEF IInv, TypeOK, Transaction, Status
<1>1. CASE ChangeStatus(t, to)
  BY <1>0, <1>1 DEF ChangeStatus, NoNewRow, Exists
<1>2. CASE LateAcknowledgment(t)
  BY <1>2 DEF LateAcknowledgment, NoNewRow, Exists, row
<1>3. CASE t \in Payment /\ SettlePayment(t)
  BY <1>0, <1>3 DEF SettlePayment, IsSettlement, NoNewRow, Exists
<1>4. CASE t \in Refund /\ SettleRefund(t)
  <2>0. PICK p, new : p = parent[t] /\ new = ParentStatus(p, refunded[p] + amount[t])
    OBVIOUS
  <2>1. p \in Payment /\ status[t] = "PENDING"
    BY <1>4, <2>0, SettleRefundEffect DEF IInv, RefundEffect
  <2>2. /\ status' = [status EXCEPT ![t] = "SUCCEEDED", ![p] = new] /\ new # "ABSENT"
        /\ UNCHANGED <<attributes, inserting>>
    BY <1>4, <2>0 DEF SettleRefund, Cumulated, ParentStatus
  <2>3. status[p] # "ABSENT"
    BY <1>4, <2>0, <2>1 DEF IInv, RefundHasCollectedParent, Exists, Collected
  <2> QED
    BY <1>0, <2>1, <2>2, <2>3 DEF NoNewRow, Exists
<1>5. CASE t \in Payment /\ ReverseDispute(t)
  BY <1>0, <1>5 DEF ReverseDispute, IsReversal, NoNewRow, Exists
<1> QED
  BY <1>1, <1>2, <1>3, <1>4, <1>5 DEF Transition

\* The clock and the expiration job write no new row either.
LEMMA TimeWritesNoRow ==
  ASSUME IInv, TimeStep
  PROVE  NoNewRow
<1>0. status \in [Transaction -> Status \cup {"ABSENT"}]
  BY DEF IInv, TypeOK
<1> QED
  BY <1>0 DEF TimeStep, Time, Expire, DeadlinePasses, ExpireBatch, Expirable, NoNewRow, Exists, row

\* A worker or a caller only ever reaches the database through transition().
LEMMA ReadersWriteNoRow ==
  ASSUME IInv, ReadersSawThePast,
         (\E w \in Worker : WorkerStep(w)) \/ (\E x \in Caller : CallerStep(x))
  PROVE  NoNewRow
<1>1. ASSUME NEW w \in Worker, Callback(w)
      PROVE  NoNewRow
  <2>1. worker[w].job \in Job
    BY <1>1 DEF Callback, ReadersSawThePast, WorkerSawThePast
  <2>2. worker[w].job[2] \in Transaction /\ Targets(worker[w].job) \subseteq Status
    BY <2>1 DEF Job, Targets, Status
  <2> QED
    BY <1>1, <2>2, TransitionWritesNoRow DEF Callback
<1>2. ASSUME NEW x \in Caller, NEW to \in Status, Patch(x, to)
      PROVE  NoNewRow
  <2>1. caller[x].row \in Transaction /\ Transition(caller[x].row, to)
    BY <1>2 DEF Patch, ReadersSawThePast, CallerSawThePast
  <2> QED
    BY <2>1, TransitionWritesNoRow
<1>3. CASE UNCHANGED vars
  BY <1>3 DEF vars, row, NoNewRow, Exists
<1> QED
  BY <1>1, <1>2, <1>3
     DEF WorkerStep, CallerStep, TakeJob, ReadRow, GiveUp, FailJob, StallJob, Get, PatchIsStale

\* Such steps leave the keys as they are.
LEMMA NoNewRowKeeps ==
  ASSUME KeysOK, NoNewRow, UNCHANGED http
  PROVE  KeysOK'
<1>1. ASSUME NEW t \in Transaction
      PROVE  (Exists(t)' <=> Exists(t)) /\ Fingerprint(t)' = Fingerprint(t) /\ key'[t] = key[t]
  BY <1>1 DEF NoNewRow, Fingerprint, attributes, http
<1>2. request' = request /\ key' = key /\ inserting' = inserting
  BY DEF http, NoNewRow
<1>3. ASSUME NEW c \in Client
      PROVE  /\ Row[c] \in Transaction
             /\ HasCommitted(c)' <=> HasCommitted(c)
             /\ \A s : Answered(c, s)' <=> Answered(c, s)
             /\ RowIsOf(c)' <=> RowIsOf(c)
             /\ Holders(request[c].key)' = Holders(request[c].key)
  BY <1>1, <1>2, <1>3, CallbacksAssumption
     DEF HasCommitted, Answered, RowIsOf, Holders, BodyOf
<1>4. ASSUME NEW c \in Client, Answered(c, {"replayed"})
      PROVE  \E t \in Holders(request[c].key)' : Fingerprint(t)' = BodyOf(request[c])
  <2>1. PICK t \in Holders(request[c].key) : Fingerprint(t) = BodyOf(request[c])
    BY <1>4 DEF KeysOK
  <2> QED
    BY <1>1, <1>3, <2>1 DEF Holders
<1> QED
  BY <1>1, <1>2, <1>3, <1>4 DEF KeysOK, BodyOf, Holders, Answered

---------------------------------------------------------------------------
(* Steps of a request. *)

\* What a step of request c leaves alone: the other requests, the other rows,
\* and the key and the body of a row that is committed.
OnlyTouches(c) ==
  /\ \A d \in Client \ {c} : request'[d] = request[d]
  /\ \A t \in Transaction \ {Row[c]} :
       /\ Exists(t)' <=> Exists(t)
       /\ key'[t] = key[t] /\ Fingerprint(t)' = Fingerprint(t)
       /\ t \in inserting' <=> t \in inserting
  /\ Exists(Row[c]) =>
       Exists(Row[c])' /\ key'[Row[c]] = key[Row[c]] /\ Fingerprint(Row[c])' = Fingerprint(Row[c])
  /\ key' \in [Transaction -> Key \cup {NoKey}]

\* Every step of a request keeps to its own row and its own record.
LEMMA HttpOnlyTouches ==
  ASSUME IInv, RequestOK, KeysOK, NEW c \in Client, HttpStep(c)
  PROVE  OnlyTouches(c)
<1>0. /\ status \in [Transaction -> Status \cup {"ABSENT"}]
      /\ amount \in [Transaction -> Nat] /\ parent \in [Refund -> Payment \cup {NoPayment}]
      /\ request \in [Client -> {Idle} \cup Body]
      /\ key \in [Transaction -> Key \cup {NoKey}] /\ inserting \subseteq Refund
      /\ Row[c] \in Transaction /\ \A r \in inserting : ~Exists(r)
      /\ Refund \subseteq Transaction /\ Payment \subseteq Transaction
      /\ Payment \cap Refund = {}
  BY CallbacksAssumption, LedgerAssumption
     DEF IInv, TypeOK, RequestOK, KeysOK, InsertingIsInvisible, Transaction
<1>1. \A d \in Client \ {c} : request'[d] = request[d]
  BY <1>0 DEF HttpStep, Post, InsertPayment, CommitInsert, InsertRefund, RollBack, FailInsert, LookUp,
         ScheduleAcknowledge, ScheduleSettle, CrashRequest, Advance, Answer
<1>2. request[c] # Idle => request[c].key \in Key
  BY <1>0 DEF Body
<1>3. CASE UNCHANGED <<vars, key>>
  BY <1>0, <1>1, <1>3 DEF vars, row, attributes, OnlyTouches, Exists, Fingerprint
<1>4. ASSUME NEW step, InsertPayment(c, step)
      PROVE  OnlyTouches(c)
  <2>1. request[c].key \in Key
    BY <1>2, <1>4 DEF InsertPayment, Idle
  <2> QED
    BY <1>0, <1>1, <1>4, <2>1
       DEF InsertPayment, CreatePayment, InsertRow, Keyed, OnlyTouches, Exists, Fingerprint
<1>5. CASE InsertRefund(c)
  <2>1. request[c].key \in Key
    BY <1>2, <1>5 DEF InsertRefund, Idle
  <2> QED
    BY <1>0, <1>1, <1>5, <2>1
       DEF InsertRefund, CheckRefund, row, Keyed, OnlyTouches, Exists, Fingerprint
<1>6. ASSUME NEW step, CommitInsert(c, step)
      PROVE  OnlyTouches(c)
  BY <1>0, <1>1, <1>6
     DEF CommitInsert, CommitRefund, InsertRow, attributes, OnlyTouches, Exists, Fingerprint
<1>7. ASSUME NEW step, RollBack(c, step)
      PROVE  OnlyTouches(c)
  BY <1>0, <1>1, <1>7
     DEF RollBack, AbortRefund, row, Keyed, OnlyTouches, Exists, Fingerprint
<1> QED
  BY <1>3, <1>4, <1>5, <1>6, <1>7
     DEF HttpStep, Post, FailInsert, LookUp, ScheduleAcknowledge, ScheduleSettle, CrashRequest

\* What the other requests know stays true.
LEMMA OthersKeep ==
  ASSUME KeysOK, NEW c \in Client, OnlyTouches(c), NEW d \in Client, d # c
  PROVE  /\ request'[d] # Idle /\ Row[d] \notin Refund => request'[d].parent = NoPayment
         /\ request'[d].step = "waiting" => Row[d] \in inserting' /\ RowIsOf(d)'
         /\ HasCommitted(d)' => Exists(Row[d])' /\ RowIsOf(d)'
         /\ Answered(d, {"replayed"})' =>
              \E t \in Holders(request[d].key)' : Fingerprint(t)' = BodyOf(request'[d])
<1>1. request'[d] = request[d] /\ Row[d] # Row[c] /\ Row[d] \in Transaction
  BY CallbacksAssumption DEF OnlyTouches
<1>2. /\ Exists(Row[d])' <=> Exists(Row[d])
      /\ Row[d] \in inserting' <=> Row[d] \in inserting
      /\ RowIsOf(d)' <=> RowIsOf(d)
  BY <1>1 DEF OnlyTouches, RowIsOf, BodyOf
<1>3. (HasCommitted(d)' <=> HasCommitted(d)) /\ (Answered(d, {"replayed"})' <=> Answered(d, {"replayed"}))
  BY <1>1 DEF HasCommitted, Answered
<1>4. ASSUME NEW t \in Holders(request[d].key)
      PROVE  t \in Holders(request[d].key)' /\ Fingerprint(t)' = Fingerprint(t)
  <2>1. t \in Transaction /\ Exists(t) /\ key[t] = request[d].key
    BY <1>4 DEF Holders
  <2> QED
    BY <1>1, <2>1 DEF OnlyTouches, Holders
<1>5. BodyOf(request'[d]) = BodyOf(request[d])
  BY <1>1
<1> QED
  BY <1>1, <1>2, <1>3, <1>4, <1>5 DEF KeysOK

\* What request c knows of its own row.
LEMMA OwnKeeps ==
  ASSUME IInv, RequestOK, KeysOK, NEW c \in Client, HttpStep(c)
  PROVE  /\ request'[c] # Idle /\ Row[c] \notin Refund => request'[c].parent = NoPayment
         /\ request'[c].step = "waiting" => Row[c] \in inserting' /\ RowIsOf(c)'
         /\ HasCommitted(c)' => Exists(Row[c])' /\ RowIsOf(c)'
         /\ Answered(c, {"replayed"})' =>
              \E t \in Holders(request[c].key)' : Fingerprint(t)' = BodyOf(request'[c])
<1> DEFINE q == request[c]
           own == /\ request'[c] # Idle /\ Row[c] \notin Refund => request'[c].parent = NoPayment
                  /\ request'[c].step = "waiting" => Row[c] \in inserting' /\ RowIsOf(c)'
                  /\ HasCommitted(c)' => Exists(Row[c])' /\ RowIsOf(c)'
                  /\ Answered(c, {"replayed"})' =>
                       \E t \in Holders(request[c].key)' : Fingerprint(t)' = BodyOf(request'[c])
<1>0. /\ status \in [Transaction -> Status \cup {"ABSENT"}]
      /\ amount \in [Transaction -> Nat] /\ parent \in [Refund -> Payment \cup {NoPayment}]
      /\ request \in [Client -> {Idle} \cup Body] /\ Idle.step = "idle"
      /\ key \in [Transaction -> Key \cup {NoKey}] /\ inserting \subseteq Refund
      /\ Row[c] \in Transaction /\ Payment \cap Refund = {} /\ Transaction = Payment \cup Refund
  BY CallbacksAssumption, LedgerAssumption DEF IInv, TypeOK, RequestOK, KeysOK, Transaction, Idle
\* Where a request goes, with what it was asked.
<1>1. ASSUME NEW step, q.step # "idle", Advance(c, step)
      PROVE  /\ request'[c].step = step /\ request'[c].key = q.key
             /\ request'[c].parent = q.parent /\ request'[c].amount = q.amount
             /\ q # Idle
  BY <1>0, <1>1 DEF Advance, Body
<1>2. ASSUME NEW answer, q.step # "idle", Answer(c, answer)
      PROVE  /\ request'[c].step = "answered" /\ request'[c].answer = answer
             /\ request'[c].key = q.key
             /\ request'[c].parent = q.parent /\ request'[c].amount = q.amount
             /\ q # Idle
  BY <1>0, <1>2 DEF Answer, Body
<1>3. q # Idle /\ Row[c] \notin Refund => q.parent = NoPayment
  BY DEF KeysOK
<1>4. ASSUME NEW k \in Key, NEW p \in Payment \cup {NoPayment}, NEW a \in Amount, Post(c, k, p, a)
      PROVE  own
  BY <1>0, <1>4 DEF Post, HasCommitted, Answered
<1>5. ASSUME NEW step \in {"created", "failed"}, InsertPayment(c, step)
      PROVE  own
  <2>1. q.step = "posted" /\ Advance(c, step) /\ Row[c] \notin Refund /\ q.parent = NoPayment
    BY <1>0, <1>3, <1>5 DEF InsertPayment, Idle
  <2>2. /\ key'[Row[c]] = q.key /\ amount'[Row[c]] = q.amount
        /\ status'[Row[c]] = "INITIATED"
    BY <1>0, <1>5 DEF InsertPayment, CreatePayment, InsertRow, Keyed
  <2> QED
    BY <1>1, <2>1, <2>2 DEF HasCommitted, Answered, RowIsOf, Fingerprint, BodyOf, Exists
<1>6. CASE InsertRefund(c)
  <2>1. q.step = "posted" /\ Advance(c, "waiting") /\ Row[c] \in Refund
    BY <1>6 DEF InsertRefund
  <2>2. /\ key'[Row[c]] = q.key /\ amount'[Row[c]] = q.amount /\ parent'[Row[c]] = q.parent
        /\ Row[c] \in inserting'
    BY <1>0, <1>6, <2>1 DEF InsertRefund, CheckRefund, Keyed
  <2> QED
    BY <1>1, <2>1, <2>2 DEF HasCommitted, Answered, RowIsOf, Fingerprint, BodyOf
<1>7. ASSUME NEW step \in {"created", "failed"}, CommitInsert(c, step)
      PROVE  own
  <2>1. q.step = "waiting" /\ Advance(c, step) /\ RowIsOf(c)
    BY <1>7 DEF CommitInsert, KeysOK
  <2>2. status'[Row[c]] = "INITIATED" /\ UNCHANGED <<key, attributes>>
    BY <1>0, <1>7 DEF CommitInsert, CommitRefund, InsertRow
  <2> QED
    BY <1>1, <1>3, <2>1, <2>2
       DEF HasCommitted, Answered, RowIsOf, Fingerprint, BodyOf, Exists, attributes
<1>8. ASSUME NEW step \in {"failed", "lost"}, q.step # "idle", Advance(c, step)
      PROVE  own
  BY <1>1, <1>3, <1>8 DEF HasCommitted, Answered
<1>9. CASE FailInsert(c)
  <2>1. q.step = "posted" /\ Advance(c, "failed")
    BY <1>9 DEF FailInsert, Caught, Advance
  <2> QED
    BY <1>8, <2>1
<1>10. CASE LookUp(c)
  <2>1. q.step = "failed" /\ UNCHANGED <<vars, key>>
    BY <1>10 DEF LookUp
  <2>2. CASE Answer(c, "error") \/ Answer(c, "mismatch")
    BY <1>2, <1>3, <2>1, <2>2 DEF HasCommitted, Answered
  <2>3. ASSUME NEW t \in Holders(q.key), SameRequest(t, q), Answer(c, "replayed")
        PROVE  own
    <3>1. t \in Holders(q.key)' /\ Fingerprint(t)' = Fingerprint(t)
      BY <1>2, <2>1, <2>3 DEF Holders, Exists, Fingerprint, vars, row, attributes
    <3> QED
      BY <1>2, <1>3, <2>1, <2>3, <3>1 DEF HasCommitted, Answered, SameRequest, BodyOf, Holders
  <2> QED
    BY <1>10, <2>2, <2>3 DEF LookUp
<1>11. CASE ScheduleAcknowledge(c) \/ ScheduleSettle(c)
  <2>1. HasCommitted(c) /\ q.step # "idle" /\ UNCHANGED <<vars, key>>
    BY <1>11 DEF ScheduleAcknowledge, ScheduleSettle, HasCommitted
  <2>2. /\ request'[c].key = q.key /\ request'[c].parent = q.parent
        /\ request'[c].amount = q.amount /\ q # Idle
        /\ request'[c].step # "waiting" /\ ~Answered(c, {"replayed"})'
    BY <1>1, <1>2, <1>11, <2>1 DEF ScheduleAcknowledge, ScheduleSettle, Answered
  <2>3. Exists(Row[c])' /\ RowIsOf(c)'
    BY <2>1, <2>2 DEF KeysOK, Exists, RowIsOf, Fingerprint, BodyOf, vars, row, attributes
  <2> QED
    BY <1>3, <2>2, <2>3
<1> QED
  BY <1>4, <1>5, <1>6, <1>7, <1>8, <1>9, <1>10, <1>11 DEF HttpStep, RollBack, CrashRequest

\* One key, one row: the unique index looks at every committed row.
LEMMA OneRowPerKey ==
  ASSUME IInv, RequestOK, KeysOK, NEW c \in Client, HttpStep(c)
  PROVE  \A t, u \in Transaction : Exists(t)' /\ Exists(u)' /\ key'[t] = key'[u] => t = u
<1>0. OnlyTouches(c) /\ Row[c] \in Transaction
  BY HttpOnlyTouches, CallbacksAssumption
<1>1. CASE Exists(Row[c])' /\ ~Exists(Row[c])
  <2>1. /\ key'[Row[c]] = request[c].key
        /\ Holders(request[c].key) = {}
    <3>1. CASE \E step : InsertPayment(c, step)
      BY <1>0, <3>1 DEF InsertPayment, Keyed, KeysOK
    <3>2. CASE \E step : CommitInsert(c, step)
      BY <3>2 DEF CommitInsert, KeysOK, RowIsOf
    <3>3. CASE status' = status
      BY <1>1, <3>3 DEF Exists
    <3> QED
      BY <3>1, <3>2, <3>3
         DEF HttpStep, Post, InsertRefund, CheckRefund, RollBack, AbortRefund, FailInsert, LookUp,
             ScheduleAcknowledge, ScheduleSettle, CrashRequest, vars, row
  <2>2. ASSUME NEW t \in Transaction \ {Row[c]}, Exists(t)'
        PROVE  key'[t] # request[c].key
    BY <1>0, <2>1, <2>2 DEF OnlyTouches, Holders
  <2> QED
    BY <1>0, <2>1, <2>2 DEF OnlyTouches, KeysOK
<1>2. CASE Exists(Row[c])' => Exists(Row[c])
  BY <1>0, <1>2 DEF OnlyTouches, KeysOK
<1> QED
  BY <1>1, <1>2

---------------------------------------------------------------------------
(* The invariant, and what follows. *)

\* The keys stay in order whatever step is taken.
LEMMA KeysStep ==
  ASSUME IInv, RequestOK, ReadersSawThePast, KeysOK, [CNext]_cvars
  PROVE  KeysOK'
<1>1. ASSUME NEW c \in Client, HttpStep(c)
      PROVE  KeysOK'
  <2>1. OnlyTouches(c)
    BY <1>1, HttpOnlyTouches
  <2> QED
    BY <1>1, <2>1, OwnKeeps, OthersKeep, OneRowPerKey DEF KeysOK, OnlyTouches
<1>2. CASE NoNewRow /\ UNCHANGED http
  BY <1>2, NoNewRowKeeps
<1>3. CASE UNCHANGED cvars
  BY <1>3, <1>2 DEF cvars, vars, row, NoNewRow, Exists
<1>4. CASE (\E w \in Worker : WorkerStep(w)) \/ (\E x \in Caller : CallerStep(x))
  <2>1. UNCHANGED http
    BY <1>4 DEF WorkerStep, CallerStep, TakeJob, ReadRow, Callback, GiveUp, FailJob, StallJob, Get,
         Patch, PatchIsStale
  <2> QED
    BY <1>2, <1>4, <2>1, ReadersWriteNoRow
<1>5. CASE TimeStep
  BY <1>2, <1>5, TimeWritesNoRow DEF TimeStep, Time, Expire
<1> QED
  BY <1>1, <1>3, <1>4, <1>5, StepsByProcess

\* Hence every committed row has a key of its own, and the body it was asked with.
LEMMA KeysHold == CSpec => []KeysOK
<1>1. CInit => KeysOK
  BY DEF CInit, Init, KeysOK, Exists, HasCommitted, Answered, Idle
<1> QED
  BY <1>1, KeysStep, CallbacksInvariance, PTL DEF CSpec

\* A merchant that sends a request again, or twice at the same time, gets one
\* row and consistent answers, whatever was rolled back, lost or interrupted
\* in between: createTransactionIdempotently relies on the unique index alone.
THEOREM RequestsAreIdempotent == CSpec => []AnswersAreIdempotent
<1>1. KeysOK => AnswersAreIdempotent
  <2> SUFFICES ASSUME KeysOK PROVE AnswersAreIdempotent
    OBVIOUS
  <2>1. ASSUME NEW c \in Client, Answered(c, {"created"})
        PROVE  /\ Row[c] \in Holders(request[c].key) /\ Row[c] \in Transaction
               /\ Exists(Row[c]) /\ key[Row[c]] = request[c].key
               /\ Fingerprint(Row[c]) = BodyOf(request[c])
    BY <2>1, CallbacksAssumption DEF KeysOK, HasCommitted, RowIsOf, Holders
  <2>2. ASSUME NEW c \in Client, Answered(c, {"created", "replayed"})
        PROVE  \E t \in Holders(request[c].key) : Fingerprint(t) = BodyOf(request[c])
    <3>1. Answered(c, {"created"}) \/ Answered(c, {"replayed"})
      BY <2>2 DEF Answered
    <3> QED
      BY <2>1, <3>1 DEF KeysOK
  <2>3. ASSUME NEW c \in Client, NEW d \in Client, Answered(c, {"created"}),
               Answered(d, {"created"}), request[c].key = request[d].key
        PROVE  c = d
    <3>1. Row[c] = Row[d]
      BY <2>1, <2>3 DEF KeysOK
    <3> QED
      BY <3>1, CallbacksAssumption
  <2> QED
    BY <2>2, <2>3 DEF KeysOK, AnswersAreIdempotent
<1> QED
  BY <1>1, KeysHold, PTL

---------------------------------------------------------------------------
(* A retry finds what was committed. *)

\* The row of the key with the body of the request.
Witnessed(c) == \E t \in Holders(request[c].key) : Fingerprint(t) = BodyOf(request[c])

KnownOK ==
  \A c \in Client :
    request[c] # Idle /\ request[c].known =>
      /\ Witnessed(c)
      /\ request[c].step \notin {"created", "scheduling"}
      /\ request[c].step = "answered" => request[c].answer = "replayed"

\* Steps that leave every committed row its key and its body.
LEMMA WitnessStays ==
  ASSUME NEW c \in Client, Witnessed(c),
         \A t \in Transaction : Exists(t) =>
            Exists(t)' /\ key'[t] = key[t] /\ Fingerprint(t)' = Fingerprint(t),
         request'[c].key = request[c].key, BodyOf(request'[c]) = BodyOf(request[c])
  PROVE  Witnessed(c)'
<1>1. PICK t \in Holders(request[c].key) : Fingerprint(t) = BodyOf(request[c])
  BY DEF Witnessed
<1>2. t \in Transaction /\ Exists(t) /\ key[t] = request[c].key
  BY <1>1 DEF Holders
<1>3. t \in Holders(request[c].key)' /\ Fingerprint(t)' = BodyOf(request'[c])
  BY <1>1, <1>2 DEF Holders
<1> QED
  BY <1>3 DEF Witnessed

\* What a known request does next: it never writes, and it is never refused.
LEMMA KnownGoesOn ==
  ASSUME RequestOK, KeysOK, KnownOK, NEW c \in Client, HttpStep(c),
         request[c] # Idle, request[c].known
  PROVE  /\ request'[c].key = request[c].key /\ BodyOf(request'[c]) = BodyOf(request[c])
         /\ request'[c].step \notin {"created", "scheduling"}
         /\ request'[c].step = "answered" => request'[c].answer = "replayed"
<1> DEFINE q == request[c]
<1>0. /\ q \in Body /\ q # Idle
      /\ q.step \notin {"created", "scheduling"}
      /\ Holders(q.key) # {}
      /\ \A t \in Holders(q.key) : Fingerprint(t) = BodyOf(q)
  BY DEF RequestOK, KeysOK, KnownOK, Witnessed, Holders
<1>1. request \in [Client -> {Idle} \cup Body]
  BY DEF RequestOK
<1>2. ASSUME NEW step \in {"waiting", "failed", "lost"}, Advance(c, step)
      PROVE  /\ request'[c].key = q.key /\ BodyOf(request'[c]) = BodyOf(q)
             /\ request'[c].step = step
  BY <1>0, <1>1, <1>2 DEF Advance, Body, BodyOf
<1>3. CASE FailInsert(c)
  BY <1>2, <1>3 DEF FailInsert, Caught, Advance
<1>4. CASE LookUp(c)
  <2>1. Answer(c, "replayed")
    BY <1>0, <1>4 DEF LookUp, SameRequest
  <2> QED
    BY <1>0, <1>1, <2>1 DEF Answer, Body, BodyOf
<1>5. CASE InsertRefund(c) \/ (\E step \in {"failed", "lost"} : Advance(c, step))
  BY <1>2, <1>5 DEF InsertRefund
<1> QED
  BY <1>0, <1>3, <1>4, <1>5
     DEF HttpStep, Post, InsertPayment, CommitInsert, RollBack, ScheduleAcknowledge, ScheduleSettle,
         CrashRequest

\* Whatever step is taken, a known request stays on its way to its row.
LEMMA KnownStep ==
  ASSUME IInv, RequestOK, ReadersSawThePast, KeysOK, KnownOK, [CNext]_cvars
  PROVE  KnownOK'
<1>1. ASSUME NEW c \in Client, HttpStep(c)
      PROVE  KnownOK'
  <2>0. /\ OnlyTouches(c)
        /\ \A t \in Transaction : Exists(t) =>
              Exists(t)' /\ key'[t] = key[t] /\ Fingerprint(t)' = Fingerprint(t)
    BY <1>1, HttpOnlyTouches DEF OnlyTouches
  <2>1. ASSUME NEW d \in Client, d # c, request'[d] # Idle, request'[d].known
        PROVE  /\ Witnessed(d)'
               /\ request'[d].step \notin {"created", "scheduling"}
               /\ request'[d].step = "answered" => request'[d].answer = "replayed"
    <3>1. request'[d] = request[d]
      BY <2>0, <2>1 DEF OnlyTouches
    <3> QED
      BY <2>0, <2>1, <3>1, WitnessStays DEF KnownOK
  <2>2. ASSUME request[c] # Idle, request[c].known
        PROVE  /\ Witnessed(c)'
               /\ request'[c].step \notin {"created", "scheduling"}
               /\ request'[c].step = "answered" => request'[c].answer = "replayed"
    <3>1. Witnessed(c)
      BY <2>2 DEF KnownOK
    <3> QED
      BY <1>1, <2>0, <2>2, <3>1, KnownGoesOn, WitnessStays
  <2>3. ASSUME request'[c] # Idle, request'[c].known, request[c] = Idle
        PROVE  Witnessed(c)' /\ request'[c].step = "posted"
    <3>1. request \in [Client -> {Idle} \cup Body] /\ Idle.step = "idle"
      BY DEF RequestOK, Idle
    <3>2. PICK k \in Key, p \in Payment \cup {NoPayment}, a \in Amount : Post(c, k, p, a)
      BY <1>1, <2>3, <3>1
         DEF HttpStep, InsertPayment, CommitInsert, InsertRefund, RollBack, FailInsert, LookUp,
             ScheduleAcknowledge, ScheduleSettle, CrashRequest
    <3>3. /\ request'[c].step = "posted" /\ request'[c].key = k
          /\ BodyOf(request'[c]) = <<p, a>>
          /\ request'[c].known = \E t \in Holders(k) : Fingerprint(t) = <<p, a>>
      BY <3>1, <3>2 DEF Post, BodyOf
    <3>4. PICK t \in Holders(k) : Fingerprint(t) = <<p, a>>
      BY <2>3, <3>3
    <3>5. t \in Holders(request[c].key)' /\ Fingerprint(t)' = BodyOf(request'[c])
      BY <2>0, <3>3, <3>4 DEF Holders
    <3> QED
      BY <3>3, <3>5 DEF Witnessed
  <2>4. request[c] # Idle => request'[c].known = request[c].known
    <3>1. request \in [Client -> {Idle} \cup Body] /\ Idle.step = "idle"
      BY DEF RequestOK, Idle
    <3>2. CASE \E step : Advance(c, step)
      BY <3>1, <3>2 DEF Advance, Body
    <3>3. CASE \E answer : Answer(c, answer)
      BY <3>1, <3>3 DEF Answer, Body
    <3> QED
      BY <1>1, <3>2, <3>3
         DEF HttpStep, Post, InsertPayment, CommitInsert, InsertRefund, RollBack, FailInsert, Caught,
             LookUp, ScheduleAcknowledge, ScheduleSettle, CrashRequest, Advance
  <2> QED
    BY <2>1, <2>2, <2>3, <2>4 DEF KnownOK
<1>2. CASE NoNewRow /\ UNCHANGED http
  <2>1. \A t \in Transaction : Exists(t) =>
            Exists(t)' /\ key'[t] = key[t] /\ Fingerprint(t)' = Fingerprint(t)
    BY <1>2 DEF NoNewRow, Fingerprint, attributes, http
  <2>2. request' = request
    BY <1>2 DEF http
  <2> QED
    BY <2>1, <2>2, WitnessStays DEF KnownOK
<1>3. CASE UNCHANGED cvars
  BY <1>3, <1>2 DEF cvars, vars, row, NoNewRow, Exists
<1>4. CASE (\E w \in Worker : WorkerStep(w)) \/ (\E x \in Caller : CallerStep(x))
  <2>1. UNCHANGED http
    BY <1>4 DEF WorkerStep, CallerStep, TakeJob, ReadRow, Callback, GiveUp, FailJob, StallJob, Get,
         Patch, PatchIsStale
  <2> QED
    BY <1>2, <1>4, <2>1, ReadersWriteNoRow
<1>5. CASE TimeStep
  BY <1>2, <1>5, TimeWritesNoRow DEF TimeStep, Time, Expire
<1> QED
  BY <1>1, <1>3, <1>4, <1>5, StepsByProcess

\* A retry of something already committed is answered with it even though the
\* refund it asks for may have become impossible since: the row of the key is
\* looked for whatever the error of the INSERT was.
THEOREM RetriesAreReplayed == CSpec => []KnownKeyIsReplayed
<1>1. CInit => KnownOK
  BY DEF CInit, KnownOK
<1>2. CSpec => []KnownOK
  BY <1>1, KnownStep, CallbacksInvariance, KeysHold, PTL DEF CSpec
<1>3. KnownOK => KnownKeyIsReplayed
  BY DEF KnownOK, KnownKeyIsReplayed, Answered, Idle
<1> QED
  BY <1>2, <1>3, PTL

---------------------------------------------------------------------------
(* The shape of the state. *)

WorkerState == {Idle} \cup [step : {"taken"}, job : Job] \cup [step : {"read"}, job : Job, seen : Seen]
CallerState == {Idle} \cup [step : {"read"}, row : Transaction, seen : Seen]
                      \cup [step : {"answered"}, row : Transaction, seen : Seen,
                           to : Status, answer : {"done", "stale"}]

ShapesOK ==
  /\ \A t \in Transaction : Exists(t) => key[t] \in Key
  /\ worker \in [Worker -> WorkerState] /\ caller \in [Caller -> CallerState]

\* What is read of a row that exists.
LEMMA SnapshotType ==
  ASSUME IInv, NEW t \in Transaction, Exists(t)
  PROVE  Snapshot(t) \in Seen
BY DEF IInv, TypeOK, Exists, Snapshot, Seen

LEMMA WorkerShapes ==
  ASSUME IInv, ReadersSawThePast, ShapesOK, NEW w \in Worker, WorkerStep(w)
  PROVE  worker' \in [Worker -> WorkerState]
<1>0. worker \in [Worker -> WorkerState] /\ jobs \subseteq Job /\ Idle.step = "idle"
      /\ \A job \in Job : job[2] \in Transaction
  BY DEF ShapesOK, ReadersSawThePast, Idle, Job
<1>1. ASSUME NEW s \in WorkerState, worker' = [worker EXCEPT ![w] = s]
      PROVE  worker' \in [Worker -> WorkerState]
  BY <1>0, <1>1
<1>2. Idle \in WorkerState
  BY DEF WorkerState
<1>3. ASSUME NEW job \in jobs, TakeJob(w, job)
      PROVE  worker' \in [Worker -> WorkerState]
  <2>1. [step |-> "taken", job |-> job] \in WorkerState
    BY <1>0, <1>3 DEF WorkerState
  <2> QED
    BY <1>1, <1>3, <2>1 DEF TakeJob
<1>4. CASE ReadRow(w)
  <2>1. PICK job : job = worker[w].job
    OBVIOUS
  <2>2. job \in Job /\ job[2] \in Transaction
    BY <1>0, <1>4, <2>1 DEF ReadRow, ReadersSawThePast, WorkerSawThePast
  <2>3. CASE status[job[2]] = ExpectedFrom(job)
    <3>1. Exists(job[2])
      BY <2>3 DEF Exists, ExpectedFrom
    <3>2. Snapshot(job[2]) \in Seen
      BY <2>2, <3>1, SnapshotType
    <3>3. [step |-> "read", job |-> job, seen |-> Snapshot(job[2])] \in WorkerState
      BY <2>2, <3>2 DEF WorkerState
    <3>4. worker' = [worker EXCEPT ![w] = [step |-> "read", job |-> job, seen |-> Snapshot(job[2])]]
      BY <1>4, <2>1, <2>3 DEF ReadRow
    <3> QED
      BY <1>1, <3>3, <3>4
  <2>4. CASE status[job[2]] # ExpectedFrom(job)
    <3>1. worker' = [worker EXCEPT ![w] = Idle]
      BY <1>4, <2>1, <2>4 DEF ReadRow
    <3> QED
      BY <1>1, <1>2, <3>1
  <2> QED
    BY <2>3, <2>4
<1>5. CASE Callback(w) \/ GiveUp(w) \/ FailJob(w) \/ StallJob(w)
  <2>1. worker' = [worker EXCEPT ![w] = Idle]
    BY <1>5 DEF Callback, GiveUp, FailJob, StallJob
  <2> QED
    BY <1>1, <1>2, <2>1
<1> QED
  BY <1>3, <1>4, <1>5 DEF WorkerStep

LEMMA CallerShapes ==
  ASSUME IInv, ShapesOK, NEW x \in Caller, CallerStep(x)
  PROVE  caller' \in [Caller -> CallerState]
<1>0. caller \in [Caller -> CallerState] /\ Idle.step = "idle"
  BY DEF ShapesOK, Idle
<1>1. ASSUME NEW s \in CallerState, caller' = [caller EXCEPT ![x] = s]
      PROVE  caller' \in [Caller -> CallerState]
  BY <1>0, <1>1
<1>2. ASSUME NEW t \in Transaction, Get(x, t)
      PROVE  caller' \in [Caller -> CallerState]
  <2>1. Snapshot(t) \in Seen
    BY <1>2, SnapshotType DEF Get
  <2>2. [step |-> "read", row |-> t, seen |-> Snapshot(t)] \in CallerState
    BY <2>1 DEF CallerState
  <2> QED
    BY <1>1, <1>2, <2>2 DEF Get
<1>3. ASSUME NEW to \in Status, NEW answer \in {"done", "stale"}, caller[x].step = "read",
             Reply(x, to, answer)
      PROVE  caller' \in [Caller -> CallerState]
  <2>1. caller[x] \in [step : {"read"}, row : Transaction, seen : Seen]
    BY <1>0, <1>3 DEF CallerState
  <2>2. PICK row_, seen_ : row_ = caller[x].row /\ seen_ = caller[x].seen
    OBVIOUS
  <2>3. row_ \in Transaction /\ seen_ \in Seen
    BY <2>1, <2>2
  <2>4. [step |-> "answered", row |-> row_, seen |-> seen_, to |-> to, answer |-> answer] \in CallerState
    BY <2>3 DEF CallerState
  <2>5. caller' = [caller EXCEPT ![x] =
                     [step |-> "answered", row |-> row_, seen |-> seen_, to |-> to, answer |-> answer]]
    BY <1>0, <1>3, <2>2 DEF Reply
  <2> QED
    BY <1>1, <2>4, <2>5
<1> QED
  BY <1>2, <1>3 DEF CallerStep, Patch, PatchIsStale

LEMMA ShapesStep ==
  IInv /\ RequestOK /\ ReadersSawThePast /\ KeysOK /\ ShapesOK /\ [CNext]_cvars => ShapesOK'
<1> SUFFICES ASSUME IInv, RequestOK, ReadersSawThePast, KeysOK, ShapesOK, [CNext]_cvars
             PROVE  ShapesOK'
  OBVIOUS
<1>1. ASSUME NEW c \in Client, HttpStep(c) PROVE ShapesOK'
  <2>0. OnlyTouches(c) /\ Row[c] \in Transaction
    BY <1>1, HttpOnlyTouches, CallbacksAssumption
  <2>1. UNCHANGED readers
    BY <1>1 DEF HttpStep, Post, InsertPayment, CommitInsert, InsertRefund, RollBack, FailInsert,
         LookUp, ScheduleAcknowledge, ScheduleSettle, CrashRequest
  <2>2. request[c] # Idle => request[c].key \in Key
    BY DEF RequestOK, Body
  <2>3. Exists(Row[c])' /\ ~Exists(Row[c]) => key'[Row[c]] \in Key
    <3>1. CASE \E step : InsertPayment(c, step)
      BY <2>0, <2>2, <3>1 DEF InsertPayment, Keyed, KeysOK, Idle
    <3>2. CASE \E step : CommitInsert(c, step)
      BY <2>2, <3>2 DEF CommitInsert, KeysOK, RowIsOf, Idle
    <3>3. CASE status' = status
      BY <3>3 DEF Exists
    <3> QED
      BY <1>1, <3>1, <3>2, <3>3
         DEF HttpStep, Post, InsertRefund, CheckRefund, RollBack, AbortRefund, FailInsert, LookUp,
             ScheduleAcknowledge, ScheduleSettle, CrashRequest, vars, row
  <2>4. \A t \in Transaction : Exists(t)' => key'[t] \in Key
    BY <2>0, <2>3 DEF OnlyTouches, ShapesOK
  <2> QED
    BY <2>1, <2>4 DEF ShapesOK, readers
<1>2. ASSUME NoNewRow, UNCHANGED http
      PROVE  \A t \in Transaction : Exists(t)' => key'[t] \in Key
  BY <1>2 DEF NoNewRow, http, ShapesOK
<1>3. CASE UNCHANGED cvars
  BY <1>3 DEF cvars, vars, row, readers, http, ShapesOK, Exists
<1>4. ASSUME NEW w \in Worker, WorkerStep(w) PROVE ShapesOK'
  <2>1. UNCHANGED <<http, caller>>
    BY <1>4 DEF WorkerStep, TakeJob, ReadRow, Callback, GiveUp, FailJob, StallJob
  <2> QED
    BY <1>2, <1>4, <2>1, WorkerShapes, ReadersWriteNoRow DEF ShapesOK
<1>5. ASSUME NEW x \in Caller, CallerStep(x) PROVE ShapesOK'
  <2>1. UNCHANGED <<http, worker>>
    BY <1>5 DEF CallerStep, Get, Patch, PatchIsStale
  <2> QED
    BY <1>2, <1>5, <2>1, CallerShapes, ReadersWriteNoRow DEF ShapesOK
<1>6. CASE TimeStep
  BY <1>2, <1>6, TimeWritesNoRow DEF TimeStep, Time, Expire, ShapesOK, readers
<1> QED
  BY <1>1, <1>3, <1>4, <1>5, <1>6, StepsByProcess

\* Requests, keys, jobs, workers and callers keep their shape; a committed row
\* has a key.
THEOREM CallbacksTypeCorrect == CSpec => []CTypeOK
<1>1. CInit => ShapesOK
  BY DEF CInit, Init, ShapesOK, Exists, WorkerState, CallerState
<1>2. RequestOK /\ ReadersSawThePast /\ KeysOK /\ ShapesOK => CTypeOK
  BY DEF RequestOK, ReadersSawThePast, KeysOK, ShapesOK, CTypeOK, WorkerState, CallerState
<1> QED
  BY <1>1, <1>2, ShapesStep, CallbacksInvariance, KeysHold, PTL DEF CSpec

=============================================================================
