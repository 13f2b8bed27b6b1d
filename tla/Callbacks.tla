----------------------------- MODULE Callbacks -----------------------------
(***************************************************************************)
(* How a transaction is created, acknowledged and settled by processes     *)
(* that never share a lock for long: HTTP requests protected by an         *)
(* idempotency key, the callbacks of the simulated operator kept in Redis, *)
(* and callers who read a version and send it back in If-Match.  What they *)
(* do to the database is a step of Ledger; this module adds what happens   *)
(* before, between and after those steps, and what a crash leaves behind.  *)
(***************************************************************************)
EXTENDS Ledger

CONSTANTS
  Client,           \* POST requests
  Row,              \* the id each request would give to the row it inserts
  Key, NoKey,       \* idempotency keys
  Worker,           \* BullMQ workers, one per API instance
  Caller,           \* people and operators who PATCH a status
  MaxPatchVersion   \* bound: callers stop there, so that the jobs may go on

ASSUME CallbacksAssumption ==
  /\ Row \in [Client -> Transaction]
  /\ \A c, d \in Client : Row[c] = Row[d] => c = d
  /\ NoKey \notin Key
  /\ MaxPatchVersion \in Nat

VARIABLES
  request,  \* where each POST is, with its body and its answer
  key,      \* transactions.idempotency_key
  jobs,     \* the queue operator-callbacks, kept by Redis
  worker,   \* the job each worker runs and the row it has read
  caller    \* the row each caller has read, the answer to its PATCH

http == <<request, key>>
readers == <<worker, caller>>
cvars == <<vars, http, jobs, readers>>

Idle == [step |-> "idle"]

CInit ==
  /\ Init
  /\ request = [c \in Client |-> Idle]
  /\ key = [t \in Transaction |-> NoKey]
  /\ jobs = {}
  /\ worker = [w \in Worker |-> Idle]
  /\ caller = [x \in Caller |-> Idle]

---------------------------------------------------------------------------
(* POST, createTransactionIdempotently.                                    *)

\* The committed row that holds the key, if any.
Holders(k) == {t \in Transaction : Exists(t) /\ key[t] = k}

\* request_fingerprint: the body, with the parent for a refund.
Fingerprint(t) == <<IF t \in Refund THEN parent[t] ELSE NoPayment, amount[t]>>
BodyOf(q) == <<q.parent, q.amount>>

Advance(c, step) == request' = [request EXCEPT ![c].step = step]
Answer(c, answer) == request' = [request EXCEPT ![c].step = "answered", ![c].answer = answer]

\* The request arrives; createRefund finds its parent first (404 otherwise).
\* "known" remembers whether this was a retry of something already committed.
Post(c, k, p, a) ==
  /\ request[c] = Idle
  /\ IF Row[c] \in Refund THEN p \in Payment /\ Exists(p) ELSE p = NoPayment
  /\ request' = [request EXCEPT ![c] =
       [step |-> "posted", answer |-> "none", key |-> k, parent |-> p, amount |-> a,
        known |-> \E t \in Holders(k) : Fingerprint(t) = <<p, a>>]]
  /\ UNCHANGED <<vars, key, jobs, readers>>

\* Bug: the key does not reach the row.
Unkeyed(t, k) == UNCHANGED key
Keyed(t, k) == key' = [key EXCEPT ![t] = k]

\* INSERT and COMMIT of a payment, by the unique index on the key.  "failed":
\* the COMMIT is done but the answer of the database is lost.
InsertPayment(c, step) ==
  LET q == request[c] IN
  /\ q.step = "posted" /\ Row[c] \in Payment
  /\ Holders(q.key) = {}
  /\ CreatePayment(Row[c], q.amount, LedgerCurrency)
  /\ Keyed(Row[c], q.key)
  /\ Advance(c, step)
  /\ UNCHANGED <<jobs, readers>>

\* The trigger of a refund runs before the index looks at the key.
InsertRefund(c) ==
  LET q == request[c] IN
  /\ q.step = "posted" /\ Row[c] \in Refund
  /\ CheckRefund(Row[c], q.parent, q.amount)
  /\ Keyed(Row[c], q.key)
  /\ Advance(c, "waiting")
  /\ UNCHANGED <<jobs, readers>>

CommitInsert(c, step) ==
  /\ request[c].step = "waiting"
  /\ Holders(request[c].key) = {}
  /\ CommitRefund(Row[c])
  /\ Advance(c, step)
  /\ UNCHANGED <<key, jobs, readers>>

\* The database rolls back: the key is taken, a timeout, a lost connection.
RollBack(c, step) ==
  /\ request[c].step = "waiting"
  /\ AbortRefund(Row[c])
  /\ Keyed(Row[c], NoKey)
  /\ Advance(c, step)
  /\ UNCHANGED <<jobs, readers>>

\* Whatever the error of the INSERT (key taken, LX010, connection), it is
\* caught.  Bug: a refund refused by LX010 is reported at once.
CaughtUnlessRefused(q) ==
  IF q.parent \in Payment /\ ~Refundable(q.parent, q.amount)
  THEN [q EXCEPT !.step = "answered", !.answer = "error"]
  ELSE [q EXCEPT !.step = "failed"]
Caught(q) == [q EXCEPT !.step = "failed"]

FailInsert(c) ==
  /\ request[c].step = "posted"
  /\ request' = [request EXCEPT ![c] = Caught(@)]
  /\ UNCHANGED <<vars, key, jobs, readers>>

\* Same key, same body.  Bug: the body is not compared.
SameKey(t, q) == TRUE
SameRequest(t, q) == Fingerprint(t) = BodyOf(q)

\* The row of the key is looked for: the error is thrown again, or the body is
\* refused (422), or the row is the answer (200, Idempotent-Replayed).
LookUp(c) ==
  LET q == request[c] IN
  /\ q.step = "failed"
  /\ \/ Holders(q.key) = {} /\ Answer(c, "error")
     \/ \E t \in Holders(q.key) :
          Answer(c, IF SameRequest(t, q) THEN "replayed" ELSE "mismatch")
  /\ UNCHANGED <<vars, key, jobs, readers>>

\* scheduleCallbacks: two jobs added one after the other, then the 201.
ScheduleAcknowledge(c) ==
  /\ request[c].step = "created"
  /\ jobs' = jobs \cup {<<"acknowledge", Row[c]>>}
  /\ Advance(c, "scheduling")
  /\ UNCHANGED <<vars, key, readers>>

ScheduleSettle(c) ==
  /\ request[c].step = "scheduling"
  /\ jobs' = jobs \cup {<<"settle", Row[c]>>}
  /\ Answer(c, "created")
  /\ UNCHANGED <<vars, key, readers>>

\* The API stops, or Redis refuses a job: what is committed stays.
CrashRequest(c) ==
  \/ RollBack(c, "lost")
  \/ /\ request[c].step \in {"posted", "failed", "created", "scheduling"}
     /\ Advance(c, "lost")
     /\ UNCHANGED <<vars, key, jobs, readers>>

---------------------------------------------------------------------------
(* TransactionsService.transition, whoever calls it. *)

\* What a SELECT shows of a row.
Snapshot(t) == [version |-> version[t], status |-> status[t], refunded |-> refunded[t]]

\* If-Match, compared under the lock.  Bug: not compared.
AnyVersion(t, seen) == TRUE
IsCurrent(t, seen) == seen.version = version[t]

\* The whole of transition() past the version check.
Transition(t, to) ==
  \/ ChangeStatus(t, to)
  \/ to = "SUCCEEDED" /\ LateAcknowledgment(t)
  \/ to = "SUCCEEDED" /\ t \in Payment /\ SettlePayment(t)
  \/ to = "SUCCEEDED" /\ t \in Refund /\ SettleRefund(t)
  \/ to = "REVERSED" /\ t \in Payment /\ ReverseDispute(t)

---------------------------------------------------------------------------
(* The simulated operator. *)

ExpectedFrom(job) == IF job[1] = "acknowledge" THEN "INITIATED" ELSE "PENDING"
Targets(job) == IF job[1] = "acknowledge" THEN {"PENDING"} ELSE {"SUCCEEDED", "FAILED"}

\* A delayed job becomes due.  The order of two jobs is not kept: there may be
\* several workers, and a stalled job comes back later.
TakeJob(w, job) ==
  /\ worker[w] = Idle /\ job \in jobs
  /\ jobs' = jobs \ {job}
  /\ worker' = [worker EXCEPT ![w] = [step |-> "taken", job |-> job]]
  /\ UNCHANGED <<vars, http, caller>>

\* transitionIfStillAt reads the row and stops there if it has moved on.
ReadRow(w) ==
  LET job == worker[w].job IN
  /\ worker[w].step = "taken"
  /\ worker' = [worker EXCEPT ![w] =
       IF status[job[2]] = ExpectedFrom(job)
       THEN [step |-> "read", job |-> job, seen |-> Snapshot(job[2])]
       ELSE Idle]
  /\ UNCHANGED <<vars, http, jobs, caller>>

Callback(w) ==
  LET job == worker[w].job IN
  /\ worker[w].step = "read"
  /\ IsCurrent(job[2], worker[w].seen)
  /\ \E to \in Targets(job) : Transition(job[2], to)
  /\ worker' = [worker EXCEPT ![w] = Idle]
  /\ UNCHANGED <<http, jobs, caller>>

\* PreconditionFailedException: the race is lost and the job is done.
GiveUp(w) ==
  /\ worker[w].step = "read"
  /\ ~IsCurrent(worker[w].job[2], worker[w].seen)
  /\ worker' = [worker EXCEPT ![w] = Idle]
  /\ UNCHANGED <<vars, http, jobs, caller>>

\* Any other error is logged (or fails the job, which is not retried).
FailJob(w) ==
  /\ worker[w].step \in {"taken", "read"}
  /\ worker' = [worker EXCEPT ![w] = Idle]
  /\ UNCHANGED <<vars, http, jobs, caller>>

\* The worker dies: BullMQ finds the job stalled and gives it to another.
StallJob(w) ==
  /\ worker[w].step \in {"taken", "read"}
  /\ jobs' = jobs \cup {worker[w].job}
  /\ worker' = [worker EXCEPT ![w] = Idle]
  /\ UNCHANGED <<vars, http, caller>>

---------------------------------------------------------------------------
(* GET, then PATCH /v1/transactions/:reference/status. *)

Get(x, t) ==
  /\ Exists(t)
  /\ caller' = [caller EXCEPT ![x] = [step |-> "read", row |-> t, seen |-> Snapshot(t)]]
  /\ UNCHANGED <<vars, http, jobs, worker>>

Reply(x, to, answer) ==
  caller' = [caller EXCEPT ![x] =
               [step |-> "answered", row |-> @.row, seen |-> @.seen, to |-> to, answer |-> answer]]

Patch(x, to) ==
  /\ caller[x].step = "read"
  /\ IsCurrent(caller[x].row, caller[x].seen)
  /\ version[caller[x].row] < MaxPatchVersion
  /\ Transition(caller[x].row, to)
  /\ Reply(x, to, "done")
  /\ UNCHANGED <<http, jobs, worker>>

\* 412.
PatchIsStale(x, to) ==
  /\ caller[x].step = "read"
  /\ ~IsCurrent(caller[x].row, caller[x].seen)
  /\ Reply(x, to, "stale")
  /\ UNCHANGED <<vars, http, jobs, worker>>

---------------------------------------------------------------------------
\* The clock and the cron.
Time(t) == DeadlinePasses(t) /\ UNCHANGED <<http, jobs, readers>>
Expire(batch) == ExpireBatch(batch) /\ UNCHANGED <<http, jobs, readers>>

CNext ==
  \/ \E c \in Client :
       \/ \E k \in Key, p \in Payment \cup {NoPayment}, a \in Amount : Post(c, k, p, a)
       \/ \E step \in {"created", "failed"} : InsertPayment(c, step) \/ CommitInsert(c, step)
       \/ InsertRefund(c) \/ RollBack(c, "failed") \/ FailInsert(c) \/ LookUp(c)
       \/ ScheduleAcknowledge(c) \/ ScheduleSettle(c) \/ CrashRequest(c)
  \/ \E w \in Worker :
       \/ \E job \in jobs : TakeJob(w, job)
       \/ ReadRow(w) \/ Callback(w) \/ GiveUp(w) \/ FailJob(w) \/ StallJob(w)
  \/ \E x \in Caller :
       \/ \E t \in Transaction : Get(x, t)
       \/ \E to \in Status : Patch(x, to) \/ PatchIsStale(x, to)
  \/ \E t \in Transaction : Time(t)
  \/ \E batch \in SUBSET Transaction : Expire(batch)

CSpec == CInit /\ [][CNext]_cvars

\* Time passes, and the cron runs every minute: no lock outlives the ten
\* seconds of withActor, so that a row that stays overdue is caught some day.
\* Nothing is assumed of clients, workers and callers.
Fairness ==
  \A t \in Transaction :
    /\ WF_cvars(Time(t))
    /\ WF_cvars(\E batch \in SUBSET Transaction : t \in batch /\ Expire(batch))

FairSpec == CSpec /\ Fairness

---------------------------------------------------------------------------
(* What holds of requests, callbacks and callers. *)

Body == [step : {"posted", "waiting", "failed", "created", "scheduling", "answered", "lost"},
         answer : {"none", "created", "replayed", "mismatch", "error"},
         key : Key, parent : Payment \cup {NoPayment}, amount : Amount, known : BOOLEAN]
Job == {"acknowledge", "settle"} \X Transaction
Seen == [version : 0..MaxVersion, status : Status, refunded : Nat]

\* The shape of the state; a row that is committed has the key it was asked
\* with.
CTypeOK ==
  /\ request \in [Client -> {Idle} \cup Body]
  /\ key \in [Transaction -> Key \cup {NoKey}]
  /\ \A t \in Transaction : Exists(t) => key[t] \in Key
  /\ jobs \subseteq Job
  /\ worker \in [Worker -> {Idle} \cup [step : {"taken"}, job : Job]
                             \cup [step : {"read"}, job : Job, seen : Seen]]
  /\ caller \in [Caller -> {Idle} \cup [step : {"read"}, row : Transaction, seen : Seen]
                             \cup [step : {"answered"}, row : Transaction, seen : Seen,
                                   to : Status, answer : {"done", "stale"}]]

Answered(c, answers) == request[c].step = "answered" /\ request[c].answer \in answers

\* Whatever fails, whatever is sent twice at the same time: a positive answer
\* is about a committed row with the body that was sent, all positive answers
\* for one key are about the same row, and one of them at most is a 201.
AnswersAreIdempotent ==
  /\ \A c \in Client : Answered(c, {"created", "replayed"}) =>
       \E t \in Holders(request[c].key) : Fingerprint(t) = BodyOf(request[c])
  /\ \A t, u \in Transaction : Exists(t) /\ Exists(u) /\ key[t] = key[u] => t = u
  /\ \A c, d \in Client :
       Answered(c, {"created"}) /\ Answered(d, {"created"}) /\ request[c].key = request[d].key => c = d

\* A retry of something already committed is answered with it, also when the
\* refund it asks for has become impossible since (LX010 fires first).
KnownKeyIsReplayed ==
  \A c \in Client : request[c].step = "answered" /\ request[c].known => Answered(c, {"replayed"})

WorkersDecide ==
  \A w \in Worker :
    worker[w].step = "read" /\ worker'[w] # worker[w] =>
      LET t == worker[w].job[2] IN
      version'[t] # version[t] =>
        worker[w].seen = Snapshot(t) /\ status[t] = ExpectedFrom(worker[w].job)

CallersDecide ==
  \A x \in Caller :
    caller[x].step = "read" /\ caller'[x].step = "answered" =>
      LET t == caller[x].row IN
      version'[t] # version[t] => caller[x].seen = Snapshot(t)

\* A status is changed by someone who has seen the row as it is: no decision
\* on a status or a refunded amount that somebody else has changed since, and
\* the simulator never moves a row from a status it did not expect.
DecidesOnWhatItSaw == [][WorkersDecide /\ CallersDecide]_cvars

\* Why: what a reader holds is a past of its row, and its present if the
\* version has not moved since.
Past(t, seen) ==
  /\ Exists(t) /\ seen.version \in Nat /\ seen.version <= version[t]
  /\ seen.version = version[t] => seen = Snapshot(t)

WorkerSawThePast(w) ==
  /\ worker[w].step \in {"taken", "read"} => worker[w].job \in Job
  /\ worker[w].step = "read" =>
       /\ Past(worker[w].job[2], worker[w].seen)
       /\ worker[w].seen.status = ExpectedFrom(worker[w].job)

CallerSawThePast(x) ==
  caller[x].step = "read" => caller[x].row \in Transaction /\ Past(caller[x].row, caller[x].seen)

ReadersSawThePast ==
  /\ jobs \subseteq Job
  /\ worker = [w \in Worker |-> worker[w]] /\ caller = [x \in Caller |-> caller[x]]
  /\ \A w \in Worker : WorkerSawThePast(w)
  /\ \A x \in Caller : CallerSawThePast(x)

\* No transaction stays PENDING for ever: not when its callback was lost or
\* refused, not when a refund no longer fits in its parent.
PendingEnds == \A t \in Transaction : status[t] = "PENDING" ~> status[t] # "PENDING"

---------------------------------------------------------------------------
(* What comments and documents say and the code does not do. *)

\* ADR 0007: a PATCH that asks SUCCEEDED of an expired transaction leaves an
\* exception.  The version is compared first.
LateSuccessIsRecorded ==
  [][\A x \in Caller :
       /\ caller[x].step = "read" /\ caller'[x].step = "answered"
       /\ caller'[x].to = "SUCCEEDED" /\ status[caller[x].row] = "EXPIRED"
       => late'[caller[x].row] > late[caller[x].row]]_cvars

=============================================================================
