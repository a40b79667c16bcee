----------------------- MODULE MCCustomerEnrichment -----------------------
(***************************************************************************)
(* Instances of CustomerEnrichment for TLC.                                *)
(***************************************************************************)
EXTENDS CustomerEnrichment, TLC

CONSTANTS w1, w2, c1, c2

\* Two workers are interchangeable in safety runs.
WorkerSymmetry == Permutations(Workers)
=============================================================================
