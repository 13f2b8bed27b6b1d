----------------------------- MODULE MoneyFlow -----------------------------
(***************************************************************************)
(* What the ledger promises about the money of a payment, whatever the     *)
(* statuses, versions, refunds and jobs that lead to it: the operator      *)
(* collects it once, part of it is earned by the platform for good, the    *)
(* rest is owed to the merchant, and what goes back to the customer comes  *)
(* out of what is still held and is charged to the merchant.               *)
(***************************************************************************)
EXTENDS Integers

CONSTANTS Payment, Amount

VARIABLES
  collected,  \* the payments whose money has come in
  held,       \* what the operator holds, per payment
  owed,       \* what the merchant is owed, per payment (may become negative)
  earned      \* what the platform keeps, per payment

flowVars == <<collected, held, owed, earned>>

Init ==
  /\ collected = {}
  /\ held = [p \in Payment |-> 0]
  /\ owed = [p \in Payment |-> 0]
  /\ earned = [p \in Payment |-> 0]

Collect(p, a) ==
  /\ p \notin collected
  /\ collected' = collected \cup {p}
  /\ held' = [held EXCEPT ![p] = a]
  /\ \E fee \in 0..a - 1 :
       /\ earned' = [earned EXCEPT ![p] = fee]
       /\ owed' = [owed EXCEPT ![p] = a - fee]

GiveBack(p, x) ==
  /\ x <= held[p]
  /\ held' = [held EXCEPT ![p] = @ - x]
  /\ owed' = [owed EXCEPT ![p] = @ - x]
  /\ UNCHANGED <<collected, earned>>

Next ==
  \E p \in Payment :
    \/ \E a \in Amount : Collect(p, a)
    \/ held'[p] < held[p] /\ \E x \in 1..held[p] : GiveBack(p, x)

Spec == Init /\ [][Next]_flowVars

=============================================================================
