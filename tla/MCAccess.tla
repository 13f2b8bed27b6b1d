------------------------------ MODULE MCAccess ------------------------------
(***************************************************************************)
(* TLC instance of Access: the merchant of the migrations and a new one.   *)
(***************************************************************************)
EXTENDS Access, TLC

\* The two roles that suffice here: an ADMIN key may all that an ANALYST or an
\* OPERATOR key may on the routes of the model.
MCRole == {"ADMIN", "MERCHANT"}

MCSymmetry == Permutations(Caller) \cup Permutations(IdempotencyKey)

=============================================================================
