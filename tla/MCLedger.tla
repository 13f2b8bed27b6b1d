------------------------------ MODULE MCLedger ------------------------------
(***************************************************************************)
(* TLC instances of Ledger, and the totals of Ledger checked against the   *)
(* sums of the community modules.                                          *)
(***************************************************************************)
EXTENDS Ledger, TLC

LOCAL INSTANCE FiniteSetsExt

\* 66 leaves no commission; 198 leaves two francs, rounded down from 2.97.
MCAmount == {66, 132, 198}

\* Payments and refunds of two sizes each: a payment refunded whole at once, in
\* two unequal parts, or in two parts that leave a rest.
MCSizes ==
  /\ \A p \in Payment : amount[p] # 132
  /\ \A r \in Refund : amount[r] # 198

MCSymmetry == Permutations(Refund)

\* A total is the sum it stands for: of the values above 0.
ASSUME TotalsAreSums ==
  \A f \in [1..3 -> -2..3] :
    Total(f) = MapThenSumSet(LAMBDA x : f[x], {x \in 1..3 : f[x] > 0})

=============================================================================
