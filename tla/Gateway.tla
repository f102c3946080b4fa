------------------------------ MODULE Gateway ------------------------------
(***************************************************************************)
(* The api-gateway's JobsService: createAnalysisJob, retryJob,             *)
(* forceStopAndRetry and cancelJob, each split at its awaits.  A request   *)
(* that is refused (404, 400) changes nothing and is not a step.           *)
(***************************************************************************)
EXTENDS JobState

VARIABLE req    \* the requests in flight

gatewayVars == <<req>>

Ops == {"none", "create", "retry", "stop", "cancel"}
ReqPCs == {"idle", "results", "uncount", "fence", "wipe", "reset", "epoch", "emit", "over"}
Request == [op : Ops, pc : ReqPCs, epoch : Nat, retry : SUBSET Agents]

IdleRequest == [op |-> "none", pc |-> "idle", epoch |-> 0, retry |-> {}]
OverRequest == [IdleRequest EXCEPT !.pc = "over"]

\* createAnalysisJob has inserted the row and is about to publish epoch 0.
InitGateway ==
    req = [q \in Reqs |-> IF q = FirstReq
                          THEN [IdleRequest EXCEPT !.op = "create", !.pc = "emit"]
                          ELSE IdleRequest]

TypeOKGateway == req \in [Reqs -> Request]

(***************************************************************************)
(* retryJob                                                                *)
(***************************************************************************)
\* The status guard: only a job that is not in progress.
RetryRead(q) ==
    /\ req[q].pc = "idle" /\ "retry" \in UserOps
    /\ jobStatus \notin {"pending", "running"}
    /\ req' = [req EXCEPT ![q].op = "retry",
                          ![q].pc = IF jobStatus = "done" THEN "results" ELSE "reset"]
    /\ UNCHANGED sharedVars

\* A job that is done: find the agents that failed, refuse if there are none.
RetryResults(q) ==
    LET failed == {a \in Agents : latest[a].st = "failed"} IN
    /\ req[q].pc = "results"
    /\ req' = [req EXCEPT ![q] = IF failed = {} THEN OverRequest
                                 ELSE [@ EXCEPT !.pc = "uncount", !.retry = failed]]
    /\ UNCHANGED sharedVars

\* SREM agents_done.
RetryUncount(q) ==
    /\ req[q].pc = "uncount"
    /\ done' = done \ req[q].retry
    /\ req' = [req EXCEPT ![q].pc = "reset"]
    /\ UNCHANGED <<jobVars, expected, keyVars, queueVars, wakeups, mishaps>>

\* The epoch is read, not incremented, while the message is put together.
RetryEpoch(q) ==
    /\ req[q].pc = "epoch"
    /\ req' = [req EXCEPT ![q].pc = "emit", ![q].epoch = epoch]
    /\ UNCHANGED sharedVars

(***************************************************************************)
(* forceStopAndRetry and cancelJob                                         *)
(***************************************************************************)
\* Only cancelJob looks at the status it has read.
CancelRead(q) ==
    /\ req[q].pc = "idle" /\ "cancel" \in UserOps
    /\ jobStatus \in {"pending", "running"}
    /\ req' = [req EXCEPT ![q].op = "cancel", ![q].pc = "fence"]
    /\ UNCHANGED sharedVars

StopRead(q) ==
    /\ req[q].pc = "idle" /\ "stop" \in UserOps
    /\ req' = [req EXCEPT ![q].op = "stop", ![q].pc = "fence"]
    /\ UNCHANGED sharedVars

\* INCR epoch.
BumpEpoch(q) ==
    /\ req[q].pc = "fence"
    /\ epoch' = epoch + 1
    /\ req' = [req EXCEPT ![q].pc = "wipe", ![q].epoch = epoch + 1]
    /\ UNCHANGED <<jobVars, countVars, tokens, graphPath, lock, queueVars, wakeups, mishaps>>

\* One DEL of every per-run key, the synthesis lock included.
Wipe(q) ==
    /\ req[q].pc = "wipe"
    /\ done' = {} /\ expected' = {}
    /\ graphPath' = NoRun /\ tokens' = 0 /\ lock' = FALSE
    /\ req' = [req EXCEPT ![q].pc = "reset"]
    /\ UNCHANGED <<jobVars, epoch, queueVars, wakeups, mishaps>>

(***************************************************************************)
(* The common tail: write the new status, publish the message.             *)
(***************************************************************************)
ResetStatus(q) ==
    LET op == req[q].op IN
    /\ req[q].pc = "reset"
    /\ jobStatus' = IF op = "cancel" THEN "cancelled" ELSE "pending"
    /\ req' = [req EXCEPT ![q] =
                 IF op = "cancel" THEN OverRequest
                 ELSE [@ EXCEPT !.pc = IF op = "retry" THEN "epoch" ELSE "emit"]]
    /\ UNCHANGED <<latest, report, aged, countVars, keyVars, queueVars, wakeups, mishaps>>

Emit(q) ==
    /\ req[q].pc = "emit"
    /\ analysis' = [analysis EXCEPT ![q] = [at |-> "ready", tries |-> 0,
                                            epoch |-> req[q].epoch, retry |-> req[q].retry]]
    /\ req' = [req EXCEPT ![q] = OverRequest]
    /\ UNCHANGED <<jobVars, countVars, keyVars, agentMsg, wakeups, mishaps>>

\* The process dies, or an await throws, halfway through a request.
GatewayCrash(q) ==
    /\ req[q].pc \notin {"idle", "over"}
    /\ Mishap("gatewayCrash")
    /\ req' = [req EXCEPT ![q] = OverRequest]
    /\ UNCHANGED <<jobVars, countVars, keyVars, queueVars, wakeups>>

\* What a request does once it was accepted.
GatewayStep(q) ==
    \/ RetryResults(q) \/ RetryUncount(q) \/ RetryEpoch(q)
    \/ BumpEpoch(q) \/ Wipe(q) \/ ResetStatus(q) \/ Emit(q)

GatewayNext ==
    \E q \in Reqs : \/ RetryRead(q) \/ CancelRead(q) \/ StopRead(q)
                    \/ GatewayStep(q) \/ GatewayCrash(q)
=============================================================================
