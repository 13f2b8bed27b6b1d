------------------------------- MODULE MCDemo -------------------------------
(***************************************************************************)
(* TLC instances of Demo: one payment for each part a scenario plays.      *)
(***************************************************************************)
EXTENDS Demo, TLC

CONSTANTS p1, p2, p3, r1

Pay(p, outcome) == [do |-> "pay", row |-> p, outcome |-> outcome, amount |-> 67]
About(do, kind, t) == [do |-> do, kind |-> kind, row |-> t]

\* The order of main and of OUTCOME_COUNTS.
MCPlan ==
  << [do |-> "key"],
     Pay(p1, "SUCCEEDED"), Pay(p2, "SUCCEEDED"), Pay(p3, "EXPIRED"),
     [do |-> "settle"],
     [do |-> "refund", row |-> r1, of |-> p1, amount |-> 67],
     [do |-> "dispute", row |-> p2],
     [do |-> "late"],
     About("report", "MISSING_IN_STATEMENT", p1),
     About("resolve", "MISSING_IN_STATEMENT", p1),
     About("report", "MISSING_LOCALLY", NoPayment),
     [do |-> "load"] >>

MCOneAmount == {67}

=============================================================================
