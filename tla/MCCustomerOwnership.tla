-------------------------- MODULE MCCustomerOwnership --------------------------
(***************************************************************************)
(* Instances of CustomerOwnership for TLC.                                 *)
(***************************************************************************)
EXTENDS CustomerOwnership, TLC

CONSTANTS r1, r2, u1, u2, c1, c2, n1, n2

OwnershipSymmetry == Permutations(Requests) \cup Permutations(Users)
=============================================================================
