---------------------------- MODULE MCInvoiceIssuing ----------------------------
(***************************************************************************)
(* Instances of InvoiceIssuing for TLC.                                    *)
(***************************************************************************)
EXTENDS InvoiceIssuing, TLC

CONSTANTS r1, r2

MCRequests == {r1, r2}
\* Requests are interchangeable.
MCSymmetry == Permutations(MCRequests)
MCActs == Act
=============================================================================
