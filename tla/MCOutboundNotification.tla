---------------------- MODULE MCOutboundNotification ----------------------
(***************************************************************************)
(* Instances of OutboundNotification for TLC.                              *)
(***************************************************************************)
EXTENDS OutboundNotification, TLC

CONSTANTS w1, w2, n1, e1, b1, x1, u1, u2

\* Two workers are interchangeable in safety runs.
WorkerSymmetry == Permutations(Workers)
=============================================================================
