------------------------------- MODULE Access -------------------------------
(***************************************************************************)
(* Who may do what, on whose rows: API keys and roles, merchants and their *)
(* accounts, the routes that name a transaction or an exception.           *)
(*                                                                         *)
(* A request is authenticated once, then runs the statements of its        *)
(* handler one by one, while keys are revoked and rows are written by      *)
(* others.  What the guards refuse (401, 403) changes nothing: it is the   *)
(* absence of a step.  Statuses and amounts are left to module Ledger: a   *)
(* refund its trigger refuses (LX010) is a choice here.                    *)
(***************************************************************************)
EXTENDS Integers, Sequences

CONSTANTS
  Merchant,        \* ids of merchants
  Demo,            \* the merchant the migrations create
  NoMerchant,      \* api_keys.merchant_id of the other roles
  Role,            \* the roles keys are issued for
  IdempotencyKey,  \* values of the Idempotency-Key header
  NoKey,           \* a request without one
  Caller,          \* requests that may be in flight together
  MaxKeys,         \* bound: keys ever issued
  MaxRows,         \* bound: transactions
  MaxExceptions    \* bound: reconciliation exceptions

ASSUME AccessAssumption ==
  /\ Demo \in Merchant /\ NoMerchant \notin Merchant
  /\ NoKey \notin IdempotencyKey
  /\ {"ADMIN", "MERCHANT"} \subseteq Role
  /\ Role \subseteq {"ADMIN", "ANALYST", "OPERATOR", "MERCHANT"}
  /\ MaxKeys \in Nat /\ MaxRows \in Nat /\ MaxExceptions \in Nat

VARIABLES
  keys,        \* api_keys, in the order of their creation
  merchants,   \* rows of merchants
  accounts,    \* merchants that have their payable account
  rows,        \* transactions: owner, parent (0: a payment), idempotency key
  exceptions,  \* reconciliation_exceptions: the key that resolved it, or 0
  script,      \* bootstrap-admin-key: "idle" or "alone" (saw no ADMIN key)
  call,        \* the request of each caller, while it is served
  answer       \* what the last step answered, if it answered a request

tables == <<keys, merchants, accounts, rows, exceptions>>
avars == <<tables, script, call, answer>>

Idle == [at |-> "idle", route |-> "list", by |-> 0, on |-> 0, with |-> NoKey]
Silence == [code |-> "none", to |-> 0, route |-> "list", on |-> 0, shown |-> {}]

---------------------------------------------------------------------------
(* Guards and checks. *)

Route == {"createKey", "revoke", "createMerchant", "createPayment", "createRefund",
          "getOne", "audit", "list", "resolve"}

\* @Roles of the controllers; without the decorator, any key.
Allowed(route) ==
  CASE route \in {"createKey", "revoke", "createMerchant"} -> {"ADMIN"}
    [] route \in {"createPayment", "createRefund"} -> {"MERCHANT"}
    [] route = "resolve" -> {"ANALYST", "ADMIN"}
    [] OTHER -> Role

IsValid(k) == k \in DOMAIN keys /\ keys[k].active

\* A merchant for MERCHANT keys and for them alone.  Bug: nobody checks.
AnyMerchant(role, m) == TRUE
WellFormed(role, m) == (role = "MERCHANT") <=> (m # NoMerchant)

\* assertOwnership.  Bug: the role is not looked at.
VisibleToAll(k, t) == TRUE
Visible(k, t) == keys[k].role = "MERCHANT" => rows[t].owner = keys[k].merchant

\* The check of createRefund on the parent.  Bug: left to the triggers.
AnyParent(k, t) == TRUE
OwnParent(k, t) == rows[t].owner = keys[k].merchant

\* The trigger on reconciliation_exceptions (LX006).  Bug: dropped, since the
\* service looks before it updates.
AlwaysResolvable(x) == TRUE
Unresolved(x) == exceptions[x].by = 0

RefundsOf(t) == {r \in DOMAIN rows : rows[r].parent = t}
OwnedBy(m) == {t \in DOMAIN rows : rows[t].owner = m}

---------------------------------------------------------------------------
AInit ==
  /\ keys = <<>> /\ rows = <<>> /\ exceptions = <<>>
  /\ merchants = {Demo} /\ accounts = {Demo}
  /\ script = "idle"
  /\ call = [c \in Caller |-> Idle] /\ answer = Silence

\* bootstrap-admin-key: first it looks for an active ADMIN key ...
LookForAdmin ==
  /\ script = "idle"
  /\ \A k \in DOMAIN keys : keys[k].role = "ADMIN" => ~keys[k].active
  /\ script' = "alone"
  /\ answer' = Silence /\ UNCHANGED <<tables, call>>

NewKey(role, m) ==
  /\ Len(keys) < MaxKeys
  /\ keys' = Append(keys, [role |-> role, merchant |-> m, active |-> TRUE])

\* ... then it creates one.
CreateAdmin ==
  /\ script = "alone" /\ script' = "idle"
  /\ NewKey("ADMIN", NoMerchant)
  /\ answer' = Silence
  /\ UNCHANGED <<merchants, accounts, rows, exceptions, call>>

\* A late acknowledgment, or reportDiscrepancy.
Report ==
  /\ Len(exceptions) < MaxExceptions
  /\ exceptions' = Append(exceptions, [by |-> 0])
  /\ answer' = Silence
  /\ UNCHANGED <<keys, merchants, accounts, rows, script, call>>

\* ApiKeyGuard then RolesGuard.  What they read is not read again.
Authenticate(c, k, route) ==
  /\ call[c].at = "idle"
  /\ IsValid(k) /\ keys[k].role \in Allowed(route)
  /\ call' = [call EXCEPT ![c] = [Idle EXCEPT !.at = "authenticated", !.route = route, !.by = k]]
  /\ answer' = Silence /\ UNCHANGED <<tables, script>>

Serves(c, route, at) == call[c].route = route /\ call[c].at = at

Answer(c, on, code, seen) ==
  /\ answer' = [code |-> code, to |-> call[c].by, route |-> call[c].route, on |-> on, shown |-> seen]
  /\ call' = [call EXCEPT ![c] = Idle]

\* The row was found (and may be seen): the next statement will use it.
Proceed(c, on, i) ==
  /\ call' = [call EXCEPT ![c] = [@ EXCEPT !.at = "found", !.on = on, !.with = i]]
  /\ answer' = Silence

---------------------------------------------------------------------------
(* Handlers for ADMIN and ANALYST keys. *)

\* ApiKeysService.create.  A merchant that does not exist breaks the foreign
\* key, which the problem filter does not know.
CreateKey(c, role, m) ==
  /\ Serves(c, "createKey", "authenticated")
  /\ \/ /\ ~WellFormed(role, m)
        /\ Answer(c, 0, "400", {}) /\ UNCHANGED keys
     \/ /\ WellFormed(role, m) /\ m \in Merchant \ merchants
        /\ Answer(c, 0, "500", {}) /\ UNCHANGED keys
     \/ /\ WellFormed(role, m) /\ m \in merchants \cup {NoMerchant}
        /\ NewKey(role, m)
        /\ Answer(c, 0, "201", {})
  /\ UNCHANGED <<merchants, accounts, rows, exceptions, script>>

\* ApiKeysService.revoke: the key is looked up ...
FindKey(c, k) ==
  /\ Serves(c, "revoke", "authenticated")
  /\ IF k \in DOMAIN keys THEN Proceed(c, k, NoKey) ELSE Answer(c, 0, "404", {})
  /\ UNCHANGED <<tables, script>>

\* ... then updated.  A second revocation is refused (LX006, 500), unless it
\* falls in the same millisecond as the first and so changes nothing.
RevokeKey(c) ==
  LET k == call[c].on IN
  /\ Serves(c, "revoke", "found")
  /\ keys' = [keys EXCEPT ![k] = [@ EXCEPT !.active = FALSE]]
  /\ \/ Answer(c, 0, "204", {})
     \/ ~keys[k].active /\ Answer(c, 0, "500", {})
  /\ UNCHANGED <<merchants, accounts, rows, exceptions, script>>

\* Bug: the account is created by a transaction of its own, later.
CreateMerchantAlone(c, m) ==
  /\ Serves(c, "createMerchant", "authenticated")
  /\ IF m \in merchants
     THEN Answer(c, 0, "500", {}) /\ UNCHANGED merchants
     ELSE Answer(c, 0, "201", {}) /\ merchants' = merchants \cup {m}
  /\ UNCHANGED <<keys, accounts, rows, exceptions, script>>

\* MerchantsService.create: the merchant and its account, or, when the code is
\* taken, an error the filter does not know.
CreateMerchant(c, m) ==
  /\ Serves(c, "createMerchant", "authenticated")
  /\ IF m \in merchants
     THEN Answer(c, 0, "500", {}) /\ UNCHANGED <<merchants, accounts>>
     ELSE /\ Answer(c, 0, "201", {})
          /\ merchants' = merchants \cup {m} /\ accounts' = accounts \cup {m}
  /\ UNCHANGED <<keys, rows, exceptions, script>>

\* ReconciliationService.resolve: looked up and refused if it is resolved ...
FindException(c, x) ==
  /\ Serves(c, "resolve", "authenticated")
  /\ \/ x \notin DOMAIN exceptions /\ Answer(c, x, "404", {})
     \/ x \in DOMAIN exceptions /\ exceptions[x].by # 0 /\ Answer(c, x, "409", {})
     \/ x \in DOMAIN exceptions /\ exceptions[x].by = 0 /\ Proceed(c, x, NoKey)
  /\ UNCHANGED <<tables, script>>

\* ... then updated: the trigger refuses whoever comes second.
ResolveException(c) ==
  LET x == call[c].on IN
  /\ Serves(c, "resolve", "found")
  /\ IF Unresolved(x)
     THEN /\ exceptions' = [exceptions EXCEPT ![x] = [by |-> call[c].by]]
          /\ Answer(c, x, "200", {})
     ELSE UNCHANGED exceptions /\ Answer(c, x, "500", {})
  /\ UNCHANGED <<keys, merchants, accounts, rows, script>>

---------------------------------------------------------------------------
(* Handlers that create or read transactions. *)

\* createTransactionIdempotently: the key is unique over the whole table, and
\* the fingerprint of a body names the parent of a refund, never the merchant.
\* All payments here have the same body.
Insert(c, m, parent, i) ==
  LET known == {t \in DOMAIN rows : rows[t].key = i} IN
  \/ /\ known = {} /\ Len(rows) < MaxRows
     /\ rows' = Append(rows, [owner |-> m, parent |-> parent, key |-> i])
     /\ Answer(c, parent, "201", {Len(rows) + 1})
  \/ \E t \in known : rows[t].parent # parent /\ Answer(c, parent, "422", {}) /\ UNCHANGED rows
  \/ \E t \in known : rows[t].parent = parent /\ Answer(c, parent, "replayed", {t}) /\ UNCHANGED rows

\* PaymentsService.create: for the merchant of the key.  The SQL transaction
\* may time out.
CreatePayment(c, i) ==
  /\ Serves(c, "createPayment", "authenticated")
  /\ \/ Insert(c, keys[call[c].by].merchant, 0, i)
     \/ Answer(c, 0, "500", {}) /\ UNCHANGED rows
  /\ UNCHANGED <<keys, merchants, accounts, exceptions, script>>

\* PaymentsService.createRefund: the parent is found, and its owner checked ...
FindParent(c, t, i) ==
  /\ Serves(c, "createRefund", "authenticated")
  /\ IF t \in DOMAIN rows /\ OwnParent(call[c].by, t)
     THEN Proceed(c, t, i) ELSE Answer(c, t, "404", {})
  /\ UNCHANGED <<tables, script>>

\* ... then the refund is inserted, for the merchant of the parent, unless the
\* trigger refuses (LX010, always when the parent is a refund itself).
CreateRefund(c) ==
  LET t == call[c].on
      i == call[c].with IN
  /\ Serves(c, "createRefund", "found")
  /\ \/ /\ rows[t].parent = 0 \/ \E r \in DOMAIN rows : rows[r].key = i
        /\ Insert(c, rows[t].owner, t, i)
     \/ /\ \A r \in DOMAIN rows : rows[r].key # i
        /\ Answer(c, t, "409", {}) /\ UNCHANGED rows
  /\ UNCHANGED <<keys, merchants, accounts, exceptions, script>>

\* GET /v1/transactions/:reference.
GetOne(c, t) ==
  /\ Serves(c, "getOne", "authenticated")
  /\ IF t \in DOMAIN rows /\ Visible(call[c].by, t)
     THEN Answer(c, t, "200", {t}) ELSE Answer(c, t, "404", {})
  /\ UNCHANGED <<tables, script>>

\* GET /v1/transactions: WHERE merchant_id = that of a MERCHANT key.
List(c) ==
  LET k == call[c].by IN
  /\ Serves(c, "list", "authenticated")
  /\ Answer(c, 0, "200", IF keys[k].role = "MERCHANT" THEN OwnedBy(keys[k].merchant) ELSE DOMAIN rows)
  /\ UNCHANGED <<tables, script>>

\* GET /v1/transactions/:reference/audit: the row, once its owner is checked ...
FindAudited(c, t) ==
  /\ Serves(c, "audit", "authenticated")
  /\ IF t \in DOMAIN rows /\ Visible(call[c].by, t)
     THEN Proceed(c, t, NoKey) ELSE Answer(c, t, "404", {})
  /\ UNCHANGED <<tables, script>>

\* ... then its refunds, or the payment it refunds, nothing being checked again.
Audit(c) ==
  LET t == call[c].on IN
  /\ Serves(c, "audit", "found")
  /\ Answer(c, t, "200", {t} \cup RefundsOf(t) \cup (IF rows[t].parent = 0 THEN {} ELSE {rows[t].parent}))
  /\ UNCHANGED <<tables, script>>

---------------------------------------------------------------------------
\* The next statement of a request that has begun.
Handle(c) ==
  \/ \E role \in Role, m \in Merchant \cup {NoMerchant} : CreateKey(c, role, m)
  \/ \E k \in 1..MaxKeys : FindKey(c, k)
  \/ RevokeKey(c)
  \/ \E m \in Merchant : CreateMerchant(c, m)
  \/ \E x \in 1..MaxExceptions : FindException(c, x)
  \/ ResolveException(c)
  \/ \E i \in IdempotencyKey : CreatePayment(c, i)
  \/ \E t \in 1..MaxRows, i \in IdempotencyKey : FindParent(c, t, i)
  \/ CreateRefund(c)
  \/ \E t \in 1..MaxRows : GetOne(c, t) \/ FindAudited(c, t)
  \/ List(c)
  \/ Audit(c)

ANext ==
  \/ LookForAdmin
  \/ CreateAdmin
  \/ Report
  \/ \E c \in Caller, k \in 1..MaxKeys, route \in Route : Authenticate(c, k, route)
  \/ \E c \in Caller : Handle(c)

ASpec == AInit /\ [][ANext]_avars

---------------------------------------------------------------------------
IsMerchant(k) == k \in DOMAIN keys /\ keys[k].role = "MERCHANT"

OwnRows(k) == OwnedBy(keys[k].merchant)

Call == [at : {"idle", "authenticated", "found"}, route : Route, by : Nat, on : Nat,
         with : IdempotencyKey \cup {NoKey}]

Code == {"none", "200", "201", "204", "replayed", "400", "404", "409", "422", "500"}

\* The tables with their foreign keys and the CHECK on the role of a key; what
\* a request holds and what an answer shows are rows that exist.
ATypeOK ==
  /\ keys \in Seq([role : Role, merchant : Merchant \cup {NoMerchant}, active : BOOLEAN])
  /\ \A k \in DOMAIN keys : /\ keys[k].role = "MERCHANT" <=> keys[k].merchant # NoMerchant
                            /\ keys[k].merchant \in merchants \cup {NoMerchant}
  /\ merchants \subseteq Merchant /\ accounts \subseteq Merchant
  /\ rows \in Seq([owner : Merchant, parent : Nat, key : IdempotencyKey])
  /\ \A t \in DOMAIN rows : rows[t].parent \in 0..t - 1
  /\ exceptions \in Seq([by : Nat])
  /\ script \in {"idle", "alone"}
  /\ call \in [Caller -> Call]
  /\ \A c \in Caller : call[c].at # "idle" => call[c].by \in DOMAIN keys
  /\ answer \in [code : Code, to : Nat, route : Route, on : Nat, shown : SUBSET Nat]
  /\ answer.shown \subseteq DOMAIN rows

\* What a MERCHANT key reads or creates belongs to its merchant, through every
\* route: the refunds an audit adds after the check, the lists, the refund
\* created or replayed.  (Replayed payments: see AnswersAreOwn.)
OwnRowsOnly ==
  IsMerchant(answer.to) /\ ~(answer.route = "createPayment" /\ answer.code = "replayed")
  => answer.shown \subseteq OwnRows(answer.to)

\* A reference of another merchant is answered exactly as one that does not
\* exist, whatever the route and whatever the state of the row: no 409 of the
\* trigger, no 422 of the key, nothing shown.
ForeignLooksAbsent ==
  /\ IsMerchant(answer.to) /\ answer.route \in {"getOne", "audit", "createRefund"}
  /\ answer.on \notin OwnRows(answer.to)
  => answer.code = "404" /\ answer.shown = {}

\* Whoever can collect has an account to book it on: no key and no payment of
\* a merchant comes before its account.
PaymentHasAccount ==
  /\ \A k \in DOMAIN keys : keys[k].role = "MERCHANT" => keys[k].merchant \in accounts
  /\ \A t \in DOMAIN rows : rows[t].owner \in accounts

\* The inductive invariant: what a handler found is still there and still its
\* own when it goes on, since owners are frozen, a refund has the owner of its
\* payment and a merchant comes with its account.
RefundFollowsPayment ==
  \A t \in DOMAIN rows : rows[t].parent # 0 => rows[rows[t].parent].owner = rows[t].owner

FoundIsVisible(c) ==
  /\ call[c].at # "idle" /\ call[c].route \in {"createPayment", "createRefund"} => IsMerchant(call[c].by)
  /\ Serves(c, "createRefund", "found") =>
       call[c].on \in DOMAIN rows /\ OwnParent(call[c].by, call[c].on) /\ call[c].with # NoKey
  /\ Serves(c, "audit", "found") => call[c].on \in DOMAIN rows /\ Visible(call[c].by, call[c].on)
  /\ Serves(c, "revoke", "found") => call[c].on \in DOMAIN keys
  /\ Serves(c, "resolve", "found") => call[c].on \in DOMAIN exceptions

AInv ==
  /\ ATypeOK /\ RefundFollowsPayment /\ merchants \subseteq accounts
  /\ \A c \in Caller : FoundIsVisible(c)
  /\ OwnRowsOnly /\ ForeignLooksAbsent /\ PaymentHasAccount

\* One resolution per exception, for good: of two analysts who both saw it
\* open, the second neither replaces the first nor is told it succeeded.
ResolvedOnce ==
  [][\A x \in DOMAIN exceptions :
       exceptions[x].by # 0 =>
         /\ exceptions'[x] = exceptions[x]
         /\ answer'.route = "resolve" /\ answer'.on = x => answer'.code # "200"]_avars

\* transactions.controller.ts: a merchant sees its own transactions only.  Two
\* merchants that number their orders alike send the same key and body: the
\* second is answered the payment of the first, and its own is not created.
AnswersAreOwn == IsMerchant(answer.to) => answer.shown \subseteq OwnRows(answer.to)

=============================================================================
