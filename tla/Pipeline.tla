------------------------------ MODULE Pipeline ------------------------------
(***************************************************************************)
(* The analysis pipeline of one job: the four processes over the state     *)
(* they share, and what is expected of them together.                      *)
(***************************************************************************)
EXTENDS Gateway, Orchestrator, AgentWorker, Synthesizer

vars == <<sharedVars, gatewayVars, orchVars, workerVars, synVars>>

Init == InitShared /\ InitGateway /\ InitOrch /\ InitWorker /\ InitSyn

TypeOK == TypeOKShared /\ TypeOKGateway /\ TypeOKOrch /\ TypeOKWorker /\ TypeOKSyn

Next ==
    \/ GatewayNext /\ UNCHANGED <<orchVars, workerVars, synVars>>
    \/ OrchNext /\ UNCHANGED <<gatewayVars, workerVars, synVars>>
    \/ WorkerNext /\ UNCHANGED <<gatewayVars, orchVars, synVars>>
    \/ SynNext /\ UNCHANGED <<gatewayVars, orchVars, workerVars>>
    \/ Age /\ UNCHANGED <<gatewayVars, orchVars, workerVars, synVars>>

Spec == Init /\ [][Next]_vars

(***************************************************************************)
(* Fairness: a handler that was started goes on unless its process fails,  *)
(* the brokers deliver what they hold, the sweep's interval timer and the  *)
(* lock's TTL run.  Nothing obliges the user to act or a fault to happen.  *)
(***************************************************************************)
Fairness ==
    /\ \A q \in Reqs : WF_vars(GatewayStep(q) /\ UNCHANGED <<orchVars, workerVars, synVars>>)
    /\ \A r \in Reqs : WF_vars(OrchStep(r) /\ UNCHANGED <<gatewayVars, workerVars, synVars>>)
    /\ \A r \in Reqs, a \in Agents :
          WF_vars(WorkerStep(r, a) /\ UNCHANGED <<gatewayVars, orchVars, synVars>>)
    /\ \A s \in Callers : WF_vars(SynStep(s) /\ UNCHANGED <<gatewayVars, orchVars, workerVars>>)
    /\ WF_vars(LockExpires /\ UNCHANGED <<gatewayVars, orchVars, workerVars>>)
    /\ WF_vars(Age /\ UNCHANGED <<gatewayVars, orchVars, workerVars, synVars>>)

FairSpec == Spec /\ Fairness

Terminal == {"done", "failed", "cancelled"}
Dispatched == {a \in Agents : \E r \in Reqs : agentMsg[r][a].at # "unsent"}
Composing == {s \in Callers : syn[s].pc \in {"compose", "create"}}

(***************************************************************************)
(* Invariants that hold whatever the user does and whichever faults happen *)
(***************************************************************************)
\* An agent type counted in agents_done has its result in Postgres: the set
\* the completion check trusts never runs ahead of the rows the synthesis
\* reads, in the normal path, the infra-failure path and the DLQ path alike
\* (agent.consumer Steps 4 and 5, recordInfraFailure).
CountedHasRow == done \subseteq AgentsWithRow

\* A job that is shown as done has a report to show (synthesize() Step 5:
\* report.create, then job.update).
DoneHasReport == jobStatus = "done" => HasReport

\* A report was written from at least one agent that succeeded (the
\* all-agents-failed guard of synthesize()).
ReportGrounded == HasReport => SuccessIn(report)

\* A force-stop or a cancel deletes the claim lock under the call that holds
\* it, and so does nothing else while the call is faster than the lock's TTL:
\* of the calls that pay for a synthesis at a time, whatever re-triggers them,
\* all but one are due to an increment of the epoch each (forceStopAndRetry,
\* cancelJob; SET NX in synthesize()).
SynthesesBounded == Cardinality(Composing) <= 1 + epoch

\* The job-wide token budget is overspent by at most the agents that were
\* already running when it ran out, one per execution slot: the check in
\* AgentConsumer.handle comes after the slot, and a force-stop that deletes
\* the counter under a running agent does not add to it.
BudgetOvershoot == tokens <= Budget - 1 + Slots

(***************************************************************************)
(* Properties of a job its user leaves alone (UserOps = {})                *)
(***************************************************************************)
\* A report covers every agent that was dispatched: the completion check of
\* the workers, the sweep and a lost or repeated wakeup never start the
\* synthesis before the last agent has its row.
CompleteReport == HasReport => \A a \in Dispatched : report[a].st # "none"

\* At most one synthesize() call pays for a synthesis at a time, and none
\* after the report exists (the claim lock together with the report check).
OneSynthesis ==
    /\ Cardinality(Composing) <= 1
    /\ \A s \in Composing : ~HasReport

\* An agent message leaves its queue for good only after its agent is counted,
\* unless a synthesis has cleared the counters since: a crash between any two
\* steps of the handler leaves a message behind that will count the agent.
AckedIsCounted ==
    \A r \in Reqs, a \in Agents :
        agentMsg[r][a].at = "settled" /\ ~Stale(r) /\ expected # {} => a \in done

\* The pipeline implements the barrier.
Concluded == IF HasReport THEN "report" ELSE IF jobStatus = "failed" THEN "failed" ELSE "none"
BarrierSpec == INSTANCE Barrier WITH
    dispatched <- Dispatched, reported <- AgentsWithRow, outcome <- Concluded
ImplementsBarrier == BarrierSpec!Spec

\* A running job comes to an end: a worker that dies, an agent that cannot be
\* run and a wakeup nobody hears do not leave it running forever.
Settles == jobStatus = "running" ~> jobStatus \in Terminal

(***************************************************************************)
(* Properties of a job its user interferes with                            *)
(***************************************************************************)
\* A dispatched agent message is eventually accounted for: its agent has a
\* row of that run, or the run was superseded.
NoStrandedAgent ==
    \A r \in Reqs, a \in Agents :
        agentMsg[r][a].at = "ready" ~>
            (latest[a].st # "none" /\ agentMsg[r][a].at = "settled") \/ Stale(r)

\* After a cancel everything that was in flight comes to rest: no message is
\* left in a queue and no agent handler is left running.
Quiet ==
    /\ \A r \in Reqs : analysis[r].at \in {"unsent", "settled"} /\ orch[r].pc = "idle"
    /\ \A r \in Reqs, a \in Agents : agentMsg[r][a].at \in {"unsent", "settled"} /\ ~Busy(r, a)
CancelQuiesces == jobStatus = "cancelled" ~> Quiet

(***************************************************************************)
(* What comments and documents of the repository say and the code does not *)
(* do; each is checked by a run that finds it violated.                    *)
(***************************************************************************)
\* orchestrator.consumer.ts on retryAgentTypes: agents_expected still holds
\* the full set, so a retry of the failed agents concludes like a first run.
RetryConcludes ==
    \A r \in Reqs : analysis[r].retry # {} /\ jobStatus = "running" ~> jobStatus \in Terminal

\* jobs.service.ts on cancelJob: it moves the job to the terminal cancelled
\* state and leaves it there.  Checked of a job its user does nothing else to.
CancelIsFinal == [][jobStatus = "cancelled" => UNCHANGED jobStatus]_vars

\* ARCHITECTURE.md on a worker that dies mid-run: the dead-lettered message is
\* recorded as a failed result, so the job cannot hang waiting for it.
DeadLetterRecorded ==
    \A r \in Reqs, a \in Agents :
        agentMsg[r][a].at = "dead" ~> latest[a].st # "none" \/ Stale(r)
=============================================================================
