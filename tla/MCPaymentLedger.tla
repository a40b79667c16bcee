---------------------------- MODULE MCPaymentLedger ----------------------------
(***************************************************************************)
(* Instances of PaymentLedger for TLC.                                     *)
(***************************************************************************)
EXTENDS PaymentLedger, TLC

CONSTANTS r1, r2, p1, p2, k1, k2

\* Requests are interchangeable; plans differ by their due date.
LedgerSymmetry == Permutations(Requests)
=============================================================================
