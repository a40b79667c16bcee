-------------------------- MODULE MCTaskConfirmation --------------------------
(***************************************************************************)
(* Instances of TaskConfirmation for TLC.                                  *)
(***************************************************************************)
EXTENDS TaskConfirmation, TLC

CONSTANTS w1, w2, r1, r2, a1, a2

Symmetry == Permutations(Workers) \cup Permutations(Requests)

Busy == {w \in Workers : run[w].pc # "off"}
Asking == {r \in Requests : request[r].act # "off"}
Fresh == {c \in Cases : case[c].status = "NONE"}

\* Who takes part: two requests about what two activities ask, or two runs that
\* deliver what one activity asks, and a request.
MCInit ==
    /\ Init
    /\ \/ /\ Busy = {} /\ Asking = Requests /\ Fresh = Cases
          /\ activity[a1] = 1 /\ activity[a2] = MaxRevision
       \/ /\ Busy = Workers /\ Cardinality(Asking) = 1 /\ Fresh = {MaxCases}
          /\ activity[a1] = 1 /\ activity[a2] = 0

MCSpec == MCInit /\ [][Next]_vars
=============================================================================
