------------------------- MODULE MCContractApproval -------------------------
(***************************************************************************)
(* Instances of ContractApproval for TLC.                                  *)
(***************************************************************************)
EXTENDS ContractApproval, TLC

CONSTANTS r1, r2

\* Requests are interchangeable.
RequestSymmetry == Permutations(Requests)
=============================================================================
