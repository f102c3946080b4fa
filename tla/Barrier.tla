------------------------------- MODULE Barrier -------------------------------
(***************************************************************************)
(* What the pipeline promises of one analysis that its user leaves alone:  *)
(* agents are dispatched once, each of them reports, and the job concludes *)
(* only when all of them have.  A report is final; a job that failed may   *)
(* still get its report from a late redelivery.                            *)
(***************************************************************************)
CONSTANT Agents

VARIABLES dispatched, reported, outcome

vars == <<dispatched, reported, outcome>>

TypeOK ==
    /\ dispatched \subseteq Agents
    /\ reported \subseteq Agents
    /\ outcome \in {"none", "failed", "report"}

Init == dispatched = {} /\ reported = {} /\ outcome = "none"

Dispatch ==
    /\ dispatched = {} /\ outcome = "none"
    /\ dispatched' \in (SUBSET Agents) \ {{}}
    /\ UNCHANGED <<reported, outcome>>

Report(a) ==
    /\ a \in dispatched
    /\ reported' = reported \cup {a}
    /\ UNCHANGED <<dispatched, outcome>>

\* The repository could not be analysed at all.
Abort ==
    /\ dispatched = {}
    /\ outcome' = "failed"
    /\ UNCHANGED <<dispatched, reported>>

Conclude ==
    /\ dispatched # {} /\ dispatched \subseteq reported
    /\ outcome # "report"
    /\ outcome' \in {"failed", "report"}
    /\ UNCHANGED <<dispatched, reported>>

Next == Dispatch \/ Abort \/ Conclude \/ \E a \in Agents : Report(a)

Spec == Init /\ [][Next]_vars
=============================================================================
