---------------------------- MODULE MCAssistantTurn ----------------------------
(* The assistant's turns with two workers: drafting an activity while the  *)
(* user asks for retries, and settling the proposals that follow from it.  *)
EXTENDS AssistantTurn, TLC

Drafting == {"text", "confirm", "reject", "revise", "retry", "reset"}
Settling == {"text", "confirm", "reject", "revise", "cancel", "adjudicate"}

BothSorts == {"stage", "follow_up"}
Stage == {"stage"}

Symmetry == Permutations(Workers)

\* Without retries nobody looks at a settled turn again: how it ended and what
\* it was about need not be told apart.
Unsettled ==
    <<task, [t \in Turns |-> IF Open(t) THEN turn[t] ELSE turn[t].status # "NONE"],
      claim, crm, worker, faults>>
=============================================================================
