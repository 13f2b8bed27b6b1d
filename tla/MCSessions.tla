----------------------------- MODULE MCSessions -----------------------------
(***************************************************************************)
(* TLC instances of Sessions.                                              *)
(***************************************************************************)
EXTENDS Sessions, TLC

\* Settled twice it is refunded in full.
MCOneAmount == {67}

\* Every way in and out of the three bookings, a confirmation that comes again
\* and one that comes late.  What is left out is refused or moves no money.
MCRequested ==
  {<<"INITIATED", "PENDING">>, <<"PENDING", "SUCCEEDED">>, <<"EXPIRED", "SUCCEEDED">>,
   <<"SUCCEEDED", "DISPUTED">>, <<"PARTIALLY_REFUNDED", "DISPUTED">>,
   <<"DISPUTED", "REVERSED">>, <<"DISPUTED", "SUCCEEDED">>, <<"DISPUTED", "PARTIALLY_REFUNDED">>,
   <<"SUCCEEDED", "SUCCEEDED">>, <<"PENDING", "FAILED">>}

MCSymmetry == Permutations(Refund) \cup Permutations(Session) \cup Permutations(Key)

=============================================================================
