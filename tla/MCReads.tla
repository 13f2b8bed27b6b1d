------------------------------ MODULE MCReads ------------------------------
(***************************************************************************)
(* TLC instance of Reads: one payment, refunded whole.                     *)
(***************************************************************************)
EXTENDS Reads

\* One amount: a refund gives everything back.
MCAmount == {66}

\* An audit looks at no exception and no window, so audits are explored where
\* there are none.
MCOneReadPerWorld ==
  audit.step > 0 => /\ window = NoWindow
                    /\ \A t \in Transaction : reported[t] = 0 /\ resolved[t] = 0

=============================================================================
