---------------------------- MODULE MCCallbacks ----------------------------
(***************************************************************************)
(* TLC instances of Callbacks: which row each request would insert.        *)
(***************************************************************************)
EXTENDS Callbacks, TLC

CONSTANTS c1, c2, c3, p1, r1, r2

\* One payment and two POST of refunds.
MCTwoRefunds == (c1 :> p1) @@ (c2 :> r1) @@ (c3 :> r2)

\* One payment and one refund.
MCPaymentAndRefund == (c1 :> p1) @@ (c2 :> r1)

\* One payment.
MCOnePayment == c1 :> p1

MCOneAmount == {67}

=============================================================================
