----------------------------- MODULE Synthesizer -----------------------------
(***************************************************************************)
(* The synthesizer: synthesize(), split at its awaits, as the pub/sub      *)
(* subscriber and the 30 s sweep of stalled jobs call it.  The claim lock  *)
(* is taken with SET NX EX 300 and never released: it expires, or a        *)
(* force-stop deletes it.                                                  *)
(***************************************************************************)
EXTENDS JobState

VARIABLE syn    \* the synthesize() calls and sweeps in progress

synVars == <<syn>>

Callers == Wakers \cup Sweepers
SynPCs == {"idle", "sweepDone", "sweepExpected", "sweepRows", "claim", "hasReport", "cancelled",
           "load", "noneStatus", "noneCleanup", "compose", "create", "finish", "cleanup",
           "failStatus", "failCleanup"}
Call == [pc : SynPCs, cnt : Nat, input : [Agents -> Rows]]
IdleCall == [pc |-> "idle", cnt |-> 0, input |-> NoReport]

\* Where a call is that believes it holds the claim lock.
Claimed == {"hasReport", "cancelled", "load", "noneStatus", "noneCleanup", "compose", "create",
            "finish", "cleanup", "failStatus", "failCleanup"}
\* Where it is inside of the try block: an error there fails the job.
InTry == {"load", "noneStatus", "noneCleanup", "compose", "create", "finish", "cleanup"}

InitSyn == syn = [s \in Callers |-> IdleCall]
TypeOKSyn == syn \in [Callers -> Call]

SetCall(s, c) == syn' = [syn EXCEPT ![s] = c]
SynGoto(s, pc) == SetCall(s, [syn[s] EXCEPT !.pc = pc])
SynLeave(s) == SetCall(s, IdleCall)

(***************************************************************************)
(* The sweep of a running job.                                             *)
(***************************************************************************)
\* Mutant: the sweep looks for pending jobs.
SweepPending(s) ==
    /\ s \in Sweepers /\ syn[s].pc = "idle"
    /\ jobStatus = "pending"
    /\ SynGoto(s, "sweepDone")
    /\ UNCHANGED sharedVars

SweepStart(s) ==
    /\ s \in Sweepers /\ syn[s].pc = "idle"
    /\ jobStatus = "running"
    /\ SynGoto(s, "sweepDone")
    /\ UNCHANGED sharedVars

SweepReadDone(s) ==
    /\ syn[s].pc = "sweepDone"
    /\ SetCall(s, [syn[s] EXCEPT !.pc = "sweepExpected", !.cnt = Cardinality(done)])
    /\ UNCHANGED sharedVars

\* The fallback to Postgres: rows to synthesize and an old enough job.
StalledByRows == AgentsWithRow # {} /\ aged

\* Mutant: the fallback to the rows is taken with the counters present, too.
SweepTrustsRows(s) ==
    /\ syn[s].pc = "sweepExpected"
    /\ SetCall(s, [IdleCall EXCEPT !.pc = IF StalledByRows THEN "claim" ELSE "idle"])
    /\ UNCHANGED sharedVars

\* With the counters in Redis, both of them decide; without, the rows do.  The
\* rows are counted a round trip later, in which no agent gets from its
\* dispatch to its row unless the event loop was blocked (slowSweep).
SweepReadExpected(s) ==
    LET n == Cardinality(expected)
        stalled == IF n = 0 THEN StalledByRows ELSE syn[s].cnt >= n
    IN
    /\ syn[s].pc = "sweepExpected"
    /\ SetCall(s, [IdleCall EXCEPT
                     !.pc = IF n = 0 /\ "slowSweep" \in Mishaps THEN "sweepRows"
                            ELSE IF stalled THEN "claim" ELSE "idle"])
    /\ UNCHANGED sharedVars

SweepCountRows(s) ==
    /\ syn[s].pc = "sweepRows"
    /\ SynGoto(s, IF StalledByRows THEN "claim" ELSE "idle")
    /\ UNCHANGED sharedVars

(***************************************************************************)
(* synthesize()                                                            *)
(***************************************************************************)
\* Mutant: the lock is set whether it exists or not.
ClaimWithoutNX(s) ==
    /\ lock' = TRUE
    /\ SynGoto(s, "hasReport")
    /\ UNCHANGED <<jobVars, countVars, epoch, tokens, graphPath, queueVars, mishaps>>

\* SET synthesizing NX EX 300
Claim(s) ==
    /\ lock' = TRUE
    /\ SynGoto(s, IF lock THEN "idle" ELSE "hasReport")
    /\ UNCHANGED <<jobVars, countVars, epoch, tokens, graphPath, queueVars, mishaps>>

\* The subscriber receives a wakeup; the claim is the first thing it does.
Wake(s) ==
    /\ s \in Wakers /\ syn[s].pc = "idle"
    /\ wakeups > 0
    /\ wakeups' = wakeups - 1
    /\ Claim(s)

SweepClaim(s) ==
    /\ syn[s].pc = "claim"
    /\ Claim(s)
    /\ UNCHANGED wakeups

\* A report that exists means there is nothing to do.
CheckReport(s) ==
    /\ syn[s].pc = "hasReport"
    /\ SynGoto(s, IF HasReport THEN "idle" ELSE "cancelled")
    /\ UNCHANGED sharedVars

CheckCancelled(s) ==
    /\ syn[s].pc = "cancelled"
    /\ SynGoto(s, IF jobStatus = "cancelled" THEN "idle" ELSE "load")
    /\ UNCHANGED sharedVars

SuccessIn(rows) == \E a \in Agents : rows[a].st = "success"

\* Mutant: no guard against a job all of whose agents failed.
LoadAnyRows(s) ==
    /\ syn[s].pc = "load"
    /\ SetCall(s, [IdleCall EXCEPT !.pc = "compose", !.input = latest])
    /\ UNCHANGED sharedVars

\* Load the latest row of each agent type; without one success the job fails.
LoadRows(s) ==
    /\ syn[s].pc = "load"
    /\ SetCall(s, IF SuccessIn(latest)
                  THEN [IdleCall EXCEPT !.pc = "compose", !.input = latest]
                  ELSE [IdleCall EXCEPT !.pc = "noneStatus"])
    /\ UNCHANGED sharedVars

\* Mutant: the job is updated before the report is created.
FinishFirst(s) ==
    /\ syn[s].pc = "compose"
    /\ SynGoto(s, "finish")
    /\ UNCHANGED sharedVars

\* The synthesis call, the diagrams and the rendering succeed or throw.
Compose(s) ==
    /\ syn[s].pc = "compose"
    /\ \/ SynGoto(s, "create")
       \/ SetCall(s, [IdleCall EXCEPT !.pc = "failStatus"])
    /\ UNCHANGED sharedVars

\* report.create: jobId is unique, so a second insert throws.
CreateReport(s) ==
    /\ syn[s].pc = "create"
    /\ report' = IF HasReport THEN report ELSE syn[s].input
    /\ SetCall(s, [IdleCall EXCEPT !.pc = IF HasReport THEN "failStatus" ELSE "finish"])
    /\ UNCHANGED <<jobStatus, latest, aged, countVars, keyVars, queueVars, wakeups, mishaps>>

\* Mutant: a status that is not one of the enum.
FinishAsComplete(s) ==
    /\ syn[s].pc = "finish"
    /\ jobStatus' = "complete"
    /\ SynGoto(s, "cleanup")
    /\ UNCHANGED <<latest, report, aged, countVars, keyVars, queueVars, wakeups, mishaps>>

Finish(s) ==
    /\ syn[s].pc = "finish"
    /\ jobStatus' = "done"
    /\ SynGoto(s, "cleanup")
    /\ UNCHANGED <<latest, report, aged, countVars, keyVars, queueVars, wakeups, mishaps>>

\* failJob, of the guard against a job without a success and of the catch block.
FailJob(s) ==
    /\ syn[s].pc \in {"noneStatus", "failStatus"}
    /\ jobStatus' = "failed"
    /\ SynGoto(s, IF syn[s].pc = "noneStatus" THEN "noneCleanup" ELSE "failCleanup")
    /\ UNCHANGED <<latest, report, aged, countVars, keyVars, queueVars, wakeups, mishaps>>

\* DEL agents_done agents_expected, of synthesize() and of failJob.
Cleanup(s) ==
    /\ syn[s].pc \in {"cleanup", "noneCleanup", "failCleanup"}
    /\ done' = {} /\ expected' = {}
    /\ SynLeave(s)
    /\ UNCHANGED <<jobVars, keyVars, queueVars, wakeups, mishaps>>

(***************************************************************************)
(* Time and faults                                                         *)
(***************************************************************************)
\* The lock's TTL runs out.  Only a synthesis slower than 300 s is still at it.
LockExpires ==
    /\ lock
    /\ (\E s \in Callers : syn[s].pc \in Claimed) => "slowSynth" \in Mishaps
    /\ lock' = FALSE
    /\ UNCHANGED <<jobVars, countVars, epoch, tokens, graphPath, queueVars, wakeups, mishaps, syn>>

\* An await throws: inside the try block of synthesize() the job is failed,
\* anywhere else, failJob of the catch block included, the call just ends.
SynError(s) ==
    /\ syn[s].pc # "idle"
    /\ Mishap("synthError")
    /\ SetCall(s, IF syn[s].pc \in InTry
                  THEN [IdleCall EXCEPT !.pc = "failStatus"] ELSE IdleCall)
    /\ UNCHANGED <<jobVars, countVars, keyVars, queueVars, wakeups>>

\* The process dies, and pub/sub forgets what it had not received.
SynCrash ==
    /\ Mishap("synthCrash")
    /\ syn' = [s \in Callers |-> IdleCall]
    /\ wakeups' = 0
    /\ UNCHANGED <<jobVars, countVars, keyVars, queueVars>>

SynStep(s) ==
    \/ SweepStart(s) \/ SweepReadDone(s) \/ SweepReadExpected(s) \/ SweepCountRows(s)
    \/ Wake(s) \/ SweepClaim(s) \/ CheckReport(s) \/ CheckCancelled(s) \/ LoadRows(s)
    \/ Compose(s) \/ CreateReport(s) \/ Finish(s) \/ FailJob(s) \/ Cleanup(s)

SynNext == LockExpires \/ SynCrash \/ \E s \in Callers : SynStep(s) \/ SynError(s)
=============================================================================
