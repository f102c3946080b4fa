---------------------------- MODULE Orchestrator ----------------------------
(***************************************************************************)
(* The orchestrator: OrchestratorConsumer.onAnalysisRequested for each     *)
(* run, split at its awaits, and AnalysisDlqConsumer.  The message is      *)
(* acknowledged before the download and the indexing, so a crash from then *)
(* on loses the run.  The contents of the checkout, the facts and the      *)
(* manifest decide nothing but which agents are selected.                  *)
(***************************************************************************)
EXTENDS JobState

VARIABLE orch   \* the handler of each run's message

orchVars == <<orch>>

OrchPCs == {"idle", "fence", "mark", "ack", "index", "path", "select", "dispatch", "fail"}
OrchHandler == [pc : OrchPCs, sel : SUBSET Agents]
IdleOrch == [pc |-> "idle", sel |-> {}]

InitOrch == orch = [r \in Reqs |-> IdleOrch]
TypeOKOrch == orch \in [Reqs -> OrchHandler]

SetOrch(r, h) == orch' = [orch EXCEPT ![r] = h]
OrchGoto(r, pc) == SetOrch(r, [orch[r] EXCEPT !.pc = pc])
OrchLeave(r) == SetOrch(r, IdleOrch)
MoveAnalysis(r, m) == analysis' = [analysis EXCEPT ![r] = m]
SettleAnalysis(r) == MoveAnalysis(r, [analysis[r] EXCEPT !.at = "settled", !.tries = 0])

Receive(r) ==
    /\ analysis[r].at = "ready" /\ orch[r].pc = "idle"
    /\ MoveAnalysis(r, [analysis[r] EXCEPT !.at = "held"])
    /\ OrchGoto(r, "fence")
    /\ UNCHANGED <<jobVars, countVars, keyVars, agentMsg, wakeups, mishaps>>

\* The only epoch check of the orchestrator: a superseded message is dropped.
FenceAnalysis(r) ==
    /\ orch[r].pc = "fence"
    /\ \/ /\ Stale(r)
          /\ SettleAnalysis(r)
          /\ OrchLeave(r)
       \/ /\ ~Stale(r)
          /\ OrchGoto(r, "mark")
          /\ UNCHANGED analysis
    /\ UNCHANGED <<jobVars, countVars, keyVars, agentMsg, wakeups, mishaps>>

MarkRunning(r) ==
    /\ orch[r].pc = "mark"
    /\ jobStatus' = "running"
    /\ OrchGoto(r, "ack")
    /\ UNCHANGED <<latest, report, aged, countVars, keyVars, queueVars, wakeups, mishaps>>

AckAnalysis(r) ==
    /\ orch[r].pc = "ack"
    /\ SettleAnalysis(r)
    /\ OrchGoto(r, "index")
    /\ UNCHANGED <<jobVars, countVars, keyVars, agentMsg, wakeups, mishaps>>

\* Download and index.  A repository that cannot be fetched, or that has no
\* source the graph understands, fails the job.
Index(r) ==
    /\ orch[r].pc = "index"
    /\ \E ok \in BOOLEAN : OrchGoto(r, IF ok THEN "path" ELSE "fail")
    /\ UNCHANGED sharedVars

SetGraphPath(r) ==
    /\ orch[r].pc = "path"
    /\ graphPath' = r
    /\ OrchGoto(r, "select")
    /\ UNCHANGED <<jobVars, countVars, epoch, tokens, lock, queueVars, wakeups, mishaps>>

\* selectAgents: what the manifest of this checkout may ask for.
SelectAgents == {Always, Agents}

\* Mutant: agents_expected gets the fixed agent list, not the selection.
ExpectOnlyAlways(r) ==
    /\ orch[r].pc = "select"
    /\ \E sel \in SelectAgents : SetOrch(r, [pc |-> "dispatch", sel |-> sel])
    /\ expected' = expected \cup Always
    /\ UNCHANGED <<jobVars, done, keyVars, queueVars, wakeups, mishaps>>

\* A retry of failed agents dispatches those and leaves agents_expected as it
\* finds it; every other run selects its agents and adds them with SADD.
SelectAndExpect(r) ==
    /\ orch[r].pc = "select"
    /\ \/ /\ analysis[r].retry # {}
          /\ SetOrch(r, [pc |-> "dispatch", sel |-> analysis[r].retry])
          /\ UNCHANGED expected
       \/ /\ analysis[r].retry = {}
          /\ \E sel \in SelectAgents :
                /\ SetOrch(r, [pc |-> "dispatch", sel |-> sel])
                /\ expected' = expected \cup sel
    /\ UNCHANGED <<jobVars, done, keyVars, queueVars, wakeups, mishaps>>

Published(r, sel) ==
    [agentMsg EXCEPT ![r] = [a \in Agents |-> IF a \in sel THEN [at |-> "ready", tries |-> 0]
                                              ELSE agentMsg[r][a]]]

\* dispatch() emits one message per agent and awaits none of them.
Dispatch(r) ==
    /\ orch[r].pc = "dispatch"
    /\ \/ /\ agentMsg' = Published(r, orch[r].sel)
          /\ UNCHANGED mishaps
       \/ \E lost \in orch[r].sel :
             /\ Mishap("lostDispatch")
             /\ agentMsg' = Published(r, orch[r].sel \ {lost})
    /\ OrchLeave(r)
    /\ UNCHANGED <<jobVars, countVars, keyVars, analysis, wakeups>>

\* markFailed, from the catch block or for an unsupported repository.
MarkFailed(r) ==
    /\ orch[r].pc = "fail"
    /\ jobStatus' = "failed"
    /\ OrchLeave(r)
    /\ UNCHANGED <<latest, report, aged, countVars, keyVars, queueVars, wakeups, mishaps>>

\* An await throws.  The fence is outside the try block and markFailed is the
\* last thing the catch block does, so there the handler just ends.  Before the
\* ack the message stays unacknowledged in both cases.
OrchError(r) ==
    /\ orch[r].pc # "idle"
    /\ Mishap("orchError")
    /\ IF orch[r].pc \in {"fence", "fail"} THEN OrchLeave(r) ELSE OrchGoto(r, "fail")
    /\ UNCHANGED <<jobVars, countVars, keyVars, queueVars, wakeups>>

\* The process dies: the broker takes back what was not acknowledged.
OrchCrash ==
    /\ Mishap("orchCrash")
    /\ orch' = [r \in Reqs |-> IdleOrch]
    /\ analysis' = [r \in Reqs |-> IF analysis[r].at = "held" THEN Redelivered(analysis[r])
                                   ELSE analysis[r]]
    /\ UNCHANGED <<jobVars, countVars, keyVars, agentMsg, wakeups>>

\* AnalysisDlqConsumer.handle: no epoch check.
AnalysisDlq(r) ==
    /\ analysis[r].at = "dead"
    /\ jobStatus' = "failed"
    /\ SettleAnalysis(r)
    /\ UNCHANGED <<latest, report, aged, countVars, keyVars, agentMsg, wakeups, mishaps, orch>>

OrchStep(r) ==
    \/ Receive(r) \/ FenceAnalysis(r) \/ MarkRunning(r) \/ AckAnalysis(r) \/ Index(r)
    \/ SetGraphPath(r) \/ SelectAndExpect(r) \/ Dispatch(r) \/ MarkFailed(r) \/ AnalysisDlq(r)

OrchNext == OrchCrash \/ \E r \in Reqs : OrchStep(r) \/ OrchError(r)
=============================================================================
