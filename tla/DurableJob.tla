----------------------------- MODULE DurableJob -----------------------------
(***************************************************************************)
(* What every durable job table of the server promises, without leases,    *)
(* clocks or statuses: an accepted job stays open until it is closed, at   *)
(* most MaxAttempts executions are started for it, only the execution that *)
(* currently holds the job may close it or give it back, and a closed job  *)
(* is only touched again by an explicit reopening.                         *)
(***************************************************************************)
EXTENDS Naturals

CONSTANTS Jobs, Workers, NoWorker, NoJob, MaxAttempts

VARIABLES
    job,       \* [phase, holder, tries] of each job
    ticket     \* the job each worker believes it is executing

vars == <<job, ticket>>

Fresh(phase) == [phase |-> phase, holder |-> NoWorker, tries |-> 0]

TypeOK ==
    /\ job \in [Jobs -> [phase  : {"none", "open", "held", "closed"},
                         holder : Workers \cup {NoWorker},
                         tries  : 0 .. MaxAttempts]]
    /\ ticket \in [Workers -> Jobs \cup {NoJob}]

Init ==
    /\ job = [j \in Jobs |-> Fresh("none")]
    /\ ticket = [w \in Workers |-> NoJob]

Accept(j) ==
    /\ job[j].phase = "none"
    /\ job' = [job EXCEPT ![j] = Fresh("open")]
    /\ UNCHANGED ticket

\* Take an open job, or take over one whose holder is presumed dead.
Take(w, j) ==
    /\ ticket[w] = NoJob
    /\ job[j].phase \in {"open", "held"}
    /\ job[j].tries < MaxAttempts
    /\ job' = [job EXCEPT ![j] = [phase |-> "held", holder |-> w, tries |-> @.tries + 1]]
    /\ ticket' = [ticket EXCEPT ![w] = j]

\* The holder leaves the job in the given phase: "closed", or "open" to retry.
Return(w, phase) ==
    /\ ticket[w] # NoJob
    /\ job[ticket[w]].phase = "held"
    /\ job[ticket[w]].holder = w
    /\ phase = "open" => job[ticket[w]].tries < MaxAttempts
    /\ job' = [job EXCEPT ![ticket[w]] = [phase |-> phase, holder |-> NoWorker, tries |-> @.tries]]
    /\ ticket' = [ticket EXCEPT ![w] = NoJob]

\* A worker stops without touching the job: it crashed, or it lost the job.
Abandon(w) ==
    /\ ticket[w] # NoJob
    /\ ticket' = [ticket EXCEPT ![w] = NoJob]
    /\ UNCHANGED job

\* All tries are spent and nobody will finish the last one.
GiveUp(j) ==
    /\ job[j].phase \in {"open", "held"}
    /\ job[j].tries = MaxAttempts
    /\ job' = [job EXCEPT ![j] = [phase |-> "closed", holder |-> NoWorker, tries |-> @.tries]]
    /\ UNCHANGED ticket

Reopen(j) ==
    /\ job[j].phase # "none"
    /\ job' = [job EXCEPT ![j] = Fresh("open")]
    /\ UNCHANGED ticket

Next ==
    \/ \E j \in Jobs : Accept(j) \/ GiveUp(j) \/ Reopen(j)
    \/ \E w \in Workers, j \in Jobs : Take(w, j)
    \/ \E w \in Workers : Abandon(w) \/ \E p \in {"open", "closed"} : Return(w, p)

Spec == Init /\ [][Next]_vars
=============================================================================
