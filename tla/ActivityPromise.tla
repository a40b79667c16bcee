--------------------------- MODULE ActivityPromise ---------------------------
(***************************************************************************)
(* What the activity pipeline promises about one customer activity,        *)
(* without jobs, leases or revisions: an activity is drafted or final when *)
(* it is saved; a draft becomes final at most once, and in the same step   *)
(* its follow-up work is registered; a draft may be given up, which keeps  *)
(* the activity; deletion closes everything, and nothing happens after it. *)
(***************************************************************************)
CONSTANTS Activities

VARIABLES
    stage,      \* what the activity is
    followUp    \* the work registered for its final content

vars == <<stage, followUp>>

TypeOK ==
    /\ stage \in [Activities -> {"none", "draft", "final", "given up", "gone"}]
    /\ followUp \in [Activities -> {"none", "due", "closed"}]

Init ==
    /\ stage = [a \in Activities |-> "none"]
    /\ followUp = [a \in Activities |-> "none"]

Move(a, from, to, work) ==
    /\ stage[a] = from
    /\ stage' = [stage EXCEPT ![a] = to]
    /\ followUp' = [followUp EXCEPT ![a] = work]

Draft(a) == Move(a, "none", "draft", "none")

\* Saved in its final form, with or without follow-up work.
SaveFinal(a) == \E work \in {"none", "due"} : Move(a, "none", "final", work)

Finalize(a) == Move(a, "draft", "final", "due")

GiveUp(a) == Move(a, "draft", "given up", "none")

Delete(a) ==
    /\ stage[a] \notin {"none", "gone"}
    /\ stage' = [stage EXCEPT ![a] = "gone"]
    /\ followUp' = [followUp EXCEPT ![a] = IF @ = "due" THEN "closed" ELSE @]

FollowUpEnds(a) ==
    /\ followUp[a] = "due"
    /\ followUp' = [followUp EXCEPT ![a] = "closed"]
    /\ UNCHANGED stage

Next == \E a \in Activities :
    Draft(a) \/ SaveFinal(a) \/ Finalize(a) \/ GiveUp(a) \/ Delete(a) \/ FollowUpEnds(a)

Spec == Init /\ [][Next]_vars
=============================================================================
