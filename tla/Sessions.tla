------------------------------ MODULE Sessions ------------------------------
(***************************************************************************)
(* The SQL transactions of the API, statement by statement, as PostgreSQL  *)
(* runs them at READ COMMITTED: a statement reads what is committed when   *)
(* it starts, a lock is kept until the end, and what is written appears at *)
(* COMMIT.  Ledger says that each of them takes effect at once; here that  *)
(* is a property of the locks the code takes, and of the order it takes    *)
(* them in.                                                                *)
(*                                                                         *)
(* Locks: FOR UPDATE on a row ("update"), FOR KEY SHARE on the parent that *)
(* a foreign key names ("share"), and the entry of the unique index on     *)
(* idempotency_key, held by the INSERT in progress ("update").             *)
(***************************************************************************)
EXTENDS Ledger

CONSTANTS
  Session,    \* SQL transactions that may run at the same time
  Key, NoKey, \* idempotency keys
  Requested   \* bound: the changes of status callers ask for

ASSUME SessionsAssumption ==
  /\ NoKey \notin Key
  /\ Key \cap Transaction = {}
  /\ Requested \subseteq Status \X Status

VARIABLES
  session,  \* what each SQL transaction does, holds, waits for and has read
  order,    \* the SQL transactions in progress, the oldest first
  used      \* the idempotency keys of the committed rows

svars == <<vars, session, order, used>>

Idle == [kind |-> "idle"]

\* A SQL transaction that has only declared its actor.
\*   seen: If-Match; was: the status its SELECT ... FOR UPDATE returned;
\*   back: the refunded amount of the parent its SELECT ... FOR UPDATE
\*   returned; overtaken: rows to whose history a younger transaction has
\*   added a line meanwhile.
Begun(kind, t) ==
  [kind |-> kind, row |-> t, to |-> "ABSENT", key |-> NoKey, todo |-> <<>>, holds |-> {},
   seen |-> 0, was |-> "ABSENT", back |-> 0, batch |-> {}, overtaken |-> {}]

SInit ==
  /\ Init
  /\ session = [s \in Session |-> Idle]
  /\ order = <<>>
  /\ used = {}

---------------------------------------------------------------------------
(* Locks. *)

Active == {s \in Session : session[s] # Idle}

Conflict(m, n) == m = "update" \/ n = "update"

\* The transactions that keep s from the lock <<what, mode>>.
Blockers(s, lock) ==
  {o \in Active \ {s} : \E held \in session[o].holds :
                           held[1] = lock[1] /\ Conflict(held[2], lock[2])}

\* The transactions s is waiting for.
WaitsFor(s) == IF session[s].todo = <<>> THEN {} ELSE Blockers(s, Head(session[s].todo))

\* bookRefundSuccess locks the parent.  Bug: it only reads it.
ReadOnly(p) == <<>>
ParentLock(p) == << <<p, "update">> >>

\* The INSERT of a refund checks its foreign key at the end of the statement.
\* Bug: the parent is read again afterwards, FOR UPDATE this time.
ShareThenUpdate(p) == << <<p, "share">>, <<p, "update">> >>
ForeignKeyLock(p) == << <<p, "share">> >>

Start(s, what) ==
  /\ session[s] = Idle
  /\ session' = [session EXCEPT ![s] = what]
  /\ order' = Append(order, s)

Older(s) == {order[i] : i \in {i \in DOMAIN order : \E j \in DOMAIN order : i < j /\ order[j] = s}}

\* COMMIT or ROLLBACK: the locks go.  A line of history carries the date its
\* transaction began (CURRENT_TIMESTAMP): older ones are overtaken.
End(s) ==
  /\ session' = [o \in Session |->
       IF o = s THEN Idle
       ELSE IF o \in Older(s)
       THEN [session[o] EXCEPT !.overtaken = @ \cup {t \in Transaction : history'[t] # history[t]}]
       ELSE session[o]]
  /\ order' = SelectSeq(order, LAMBDA o : o # s)

\* Any error, the ten seconds of withActor, a lost connection.
Rollback(s) ==
  /\ session[s] # Idle
  /\ IF session[s].kind = "refund" THEN AbortRefund(session[s].row) ELSE UNCHANGED vars
  /\ End(s)
  /\ UNCHANGED used

---------------------------------------------------------------------------
(* INSERT INTO transactions. *)

BeginPayment(s, p, k) ==
  /\ status[p] = "ABSENT" /\ \A o \in Active : session[o].row # p
  /\ Start(s, [Begun("payment", p) EXCEPT !.key = k, !.todo = << <<k, "update">> >>])
  /\ UNCHANGED <<vars, used>>

\* The BEFORE trigger reads the parent without a lock, then comes the index,
\* then the foreign key.
BeginRefund(s, r, k, p, a) ==
  /\ CheckRefund(r, p, a)
  /\ Start(s, [Begun("refund", r) EXCEPT
                 !.key = k, !.todo = << <<k, "update">> >> \o ForeignKeyLock(p)])
  /\ UNCHANGED used

\* The entry of the index is free: the key is taken, or was by a committed row
\* (unique violation: the only way out is Rollback).
TakeKey(s) ==
  LET lock == <<session[s].key, "update">> IN
  /\ session[s].kind \in {"payment", "refund"}
  /\ session[s].todo # <<>> /\ Head(session[s].todo) = lock
  /\ Blockers(s, lock) = {}
  /\ session[s].key \notin used
  /\ session' = [session EXCEPT ![s].todo = Tail(@), ![s].holds = @ \cup {lock}]
  /\ UNCHANGED <<vars, order, used>>

\* The foreign key of a refund.
TakeParent(s) ==
  LET lock == Head(session[s].todo) IN
  /\ session[s].kind = "refund"
  /\ session[s].todo # <<>> /\ lock[1] \in Payment
  /\ Blockers(s, lock) = {}
  /\ session' = [session EXCEPT ![s].todo = Tail(@), ![s].holds = @ \cup {lock}]
  /\ UNCHANGED <<vars, order, used>>

CommitInsert(s) ==
  /\ session[s].kind \in {"payment", "refund"} /\ session[s].todo = <<>>
  /\ \/ session[s].kind = "refund" /\ CommitRefund(session[s].row)
     \/ /\ session[s].kind = "payment"
        /\ \E a \in Amount, c \in Currency : CreatePayment(session[s].row, a, c)
  /\ used' = used \cup {session[s].key}
  /\ End(s)

---------------------------------------------------------------------------
(* TransactionsService.transition. *)

\* The caller knows the version of the row when the SQL transaction begins.
BeginTransition(s, t, to) ==
  /\ <<status[t], to>> \in Requested
  /\ Start(s, [Begun("transition", t) EXCEPT
                 !.to = to, !.seen = version[t], !.todo = << <<t, "update">> >>])
  /\ UNCHANGED <<vars, used>>

Settles(s) == session[s].was = "PENDING" /\ session[s].to = "SUCCEEDED"
Reverses(s) == session[s].was = "DISPUTED" /\ session[s].to = "REVERSED"
IsLate(s) == session[s].was = "EXPIRED" /\ session[s].to = "SUCCEEDED"

\* SELECT ... FOR UPDATE of the row, then If-Match (412: Rollback).
LockRow(s) ==
  LET t == session[s].row
      read == [session[s] EXCEPT !.was = status[t], !.holds = { <<t, "update">> }] IN
  /\ session[s].kind = "transition" /\ session[s].was = "ABSENT"
  /\ Blockers(s, <<t, "update">>) = {}
  /\ session[s].seen = version[t]
  /\ session' = [session EXCEPT ![s] =
       [read EXCEPT !.todo = IF t \in Refund /\ read.was = "PENDING" /\ read.to = "SUCCEEDED"
                             THEN ParentLock(parent[t]) ELSE <<>>,
                    !.back = IF t \in Refund THEN refunded[parent[t]] ELSE 0]]
  /\ UNCHANGED <<vars, order, used>>

\* SELECT ... FOR UPDATE of the parent, and its refunded amount.
LockParent(s) ==
  LET p == parent[session[s].row] IN
  /\ session[s].kind = "transition" /\ session[s].was # "ABSENT"
  /\ session[s].todo # <<>>
  /\ Blockers(s, <<p, "update">>) = {}
  /\ session' = [session EXCEPT ![s].todo = <<>>, ![s].back = refunded[p],
                                ![s].holds = @ \cup { <<p, "update">> }]
  /\ UNCHANGED <<vars, order, used>>

\* The UPDATEs of the rows in the domain of new, each through the trigger and
\* the CHECKs, which compare it with the row as it is committed.
UpdateRows(new) ==
  /\ \A t \in DOMAIN new :
       /\ UpdateAllowed(status[t], refunded[t], new[t].status, new[t].refunded)
       /\ RowCheck(t \in Payment, new[t].status, amount[t], new[t].refunded)
       /\ version[t] + new[t].times <= MaxVersion
  /\ status' = [t \in Transaction |-> IF t \in DOMAIN new THEN new[t].status ELSE status[t]]
  /\ refunded' = [t \in Transaction |-> IF t \in DOMAIN new THEN new[t].refunded ELSE refunded[t]]
  /\ version' = [t \in Transaction |->
                   IF t \in DOMAIN new THEN version[t] + new[t].times ELSE version[t]]
  /\ history' = [t \in Transaction |->
       IF t \in DOMAIN new THEN Recorded(history[t], status[t], new[t].status) ELSE history[t]]

\* What the code writes, from what it has read.
NewRow(s) ==
  LET t == session[s].row IN
  IF Reverses(s) THEN [status |-> "REVERSED", refunded |-> amount[t], times |-> 2]
  ELSE [status |-> session[s].to, refunded |-> refunded[t], times |-> 1]

NewParent(s) ==
  LET t == session[s].row
      back == session[s].back + amount[t] IN
  [status |-> ParentStatus(parent[t], back), refunded |-> back, times |-> 1]

CommitTransition(s) ==
  LET t == session[s].row
      IsRefund == Settles(s) /\ t \in Refund
      p == IF IsRefund THEN parent[t] ELSE t IN
  /\ session[s].kind = "transition" /\ session[s].was # "ABSENT" /\ session[s].todo = <<>>
  /\ ~IsLate(s)
  /\ IsRefund => NewParent(s).refunded <= amount[p]
  /\ Reverses(s) => amount[t] - refunded[t] > 0
  /\ UpdateRows([x \in {t, p} |-> IF x = t THEN NewRow(s) ELSE NewParent(s)])
  /\ IF Settles(s) \/ Reverses(s)
     THEN LET e == IF IsRefund THEN ReturnEntry(amount[t])
                   ELSE IF Settles(s) THEN PaymentEntry(amount[t])
                   ELSE ReturnEntry(amount[t] - refunded[t]) IN
          Postable(t, e) /\ Book(t, p, e)
     ELSE UNCHANGED books
  /\ End(s)
  /\ UNCHANGED <<attributes, overdue, inserting, late, used>>

CommitLate(s) ==
  LET t == session[s].row IN
  /\ session[s].kind = "transition" /\ IsLate(s) /\ session[s].todo = <<>>
  /\ late[t] < MaxLate
  /\ late' = [late EXCEPT ![t] = @ + 1]
  /\ UNCHANGED <<row, attributes, overdue, inserting, books>>
  /\ End(s)
  /\ UNCHANGED used

---------------------------------------------------------------------------
(* The expiration job. *)

BeginSweep(s) ==
  /\ \A o \in Active : session[o].kind # "sweep"
  /\ Start(s, Begun("sweep", NoPayment))
  /\ UNCHANGED <<vars, used>>

\* What FOR UPDATE SKIP LOCKED leaves.  Bug: a plain SELECT.
WithoutLock(s, t) == TRUE
Unlocked(s, t) == Blockers(s, <<t, "update">>) = {}

\* ORDER BY expires_at LIMIT: everything, or as much as a batch may hold.
SelectBatch(s, batch) ==
  LET found == {t \in Transaction : Expirable(t) /\ Unlocked(s, t)} IN
  /\ session[s].kind = "sweep" /\ session[s].batch = {}
  /\ batch \subseteq found /\ batch # {}
  /\ IF Cardinality(found) <= BatchSize THEN batch = found ELSE Cardinality(batch) = BatchSize
  /\ session' = [session EXCEPT ![s].batch = batch, ![s].holds = {<<t, "update">> : t \in batch}]
  /\ UNCHANGED <<vars, order, used>>

CommitSweep(s) ==
  /\ session[s].kind = "sweep" /\ session[s].batch # {}
  /\ UpdateRows([t \in session[s].batch |->
                   [status |-> "EXPIRED", refunded |-> refunded[t], times |-> 1]])
  /\ End(s)
  /\ UNCHANGED <<attributes, overdue, inserting, books, late, used>>

Tick(t) == DeadlinePasses(t) /\ UNCHANGED <<session, order, used>>

---------------------------------------------------------------------------
SNext ==
  \/ \E s \in Session :
       \/ Rollback(s)
       \/ \E p \in Payment, k \in Key : BeginPayment(s, p, k)
       \/ \E r \in Refund, k \in Key, p \in Payment, a \in Amount : BeginRefund(s, r, k, p, a)
       \/ TakeKey(s) \/ TakeParent(s) \/ CommitInsert(s)
       \/ \E t \in Transaction, to \in Status : BeginTransition(s, t, to)
       \/ LockRow(s) \/ LockParent(s) \/ CommitTransition(s) \/ CommitLate(s)
       \/ BeginSweep(s) \/ CommitSweep(s)
       \/ \E batch \in SUBSET Transaction : SelectBatch(s, batch)
  \/ \E t \in Transaction : Tick(t)

SSpec == SInit /\ [][SNext]_svars

---------------------------------------------------------------------------
(* What the locks are for. *)

\* From the SELECT ... FOR UPDATE to the COMMIT nobody changes what was read:
\* not the status a transition decides on, not the refunded amount a refund
\* adds to, not the rows the job is about to expire.
ReadsAreStable ==
  \A s \in Active :
    LET t == session[s].row IN
    /\ session[s].kind = "transition" /\ session[s].was # "ABSENT" =>
         /\ session[s].was = status[t] /\ session[s].seen = version[t]
         /\ session[s].todo = <<>> /\ Settles(s) /\ t \in Refund =>
              session[s].back = refunded[parent[t]]
    /\ session[s].kind = "sweep" => \A x \in session[s].batch : Expirable(x)

\* No deadlock: in every set of transactions that wait, one waits for somebody
\* else or for nobody.  Keys come before rows, refunds before their parents,
\* and the job waits for no one.
NoCircularWait ==
  \A waiting \in (SUBSET Active) \ {{}} : \E s \in waiting : WaitsFor(s) \cap waiting = {}

\* Every SQL transaction takes effect at its COMMIT, as Ledger says, although
\* it has decided earlier, from several reads.
ImplementsLedger == Spec

\* The history endpoint: "du plus ancien au plus recent".  Lines are sorted by
\* created_at, which is when the SQL transaction began: one that waited for a
\* lock writes its line after, and dates it before, those it waited for.
HistoryIsDated ==
  [][\A s \in Session : session[s] # Idle /\ session'[s] = Idle =>
       \A t \in session[s].overtaken : history'[t] = history[t]]_svars

=============================================================================
