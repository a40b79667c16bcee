----------------------- MODULE MCActivityPostCommit -----------------------
(***************************************************************************)
(* Instances of ActivityPostCommit for TLC.                                *)
(***************************************************************************)
EXTENDS ActivityPostCommit, TLC

CONSTANTS w1, w2

\* Workers are interchangeable in safety runs.
WorkerSymmetry == Permutations(Workers)
=============================================================================
