------------------------ MODULE MCCustomerActivity ------------------------
(***************************************************************************)
(* Instances of CustomerActivity for TLC.                                  *)
(***************************************************************************)
EXTENDS CustomerActivity, TLC

CONSTANTS w1, w2, a1, a2

\* Two workers are interchangeable in safety runs, and so are two activities.
WorkerSymmetry == Permutations(Workers)
FullSymmetry == Permutations(Workers) \cup Permutations(Activities)
=============================================================================
