---------------------------- MODULE BarrierProofs ----------------------------
(***************************************************************************)
(* Theorems about a job its user leaves alone: its report is complete, an  *)
(* acknowledged agent is counted, and the pipeline implements the barrier. *)
(***************************************************************************)
EXTENDS PipelineProofs

USE DEF Agents, Callers

(***************************************************************************)
(* A job its user leaves alone has one run: nobody increments the epoch,   *)
(* and the other requests never publish anything.                          *)
(***************************************************************************)
LeftAlone == UserOps = {}

OtherRunsIdle ==
    \A r \in Reqs \ {FirstReq} :
        /\ req[r].pc = "idle" /\ analysis[r].at = "unsent" /\ orch[r].pc = "idle"
        /\ \A a \in Agents : agentMsg[r][a].at = "unsent" /\ task[r][a].pc = "idle"

OneRunInv ==
    /\ epoch = 0
    /\ \A r \in Reqs : analysis[r].epoch = 0 /\ analysis[r].retry = {}
    /\ req[FirstReq].pc \in {"emit", "over"}
    /\ req[FirstReq].epoch = 0 /\ req[FirstReq].retry = {}
    /\ req[FirstReq].pc = "emit" => analysis[FirstReq].at = "unsent"
    /\ OtherRunsIdle

(***************************************************************************)
(* Its agents are dispatched once: the message is acknowledged before, and *)
(* the handler ends with it.  Until then nobody waits for an agent.        *)
(***************************************************************************)
HandlerInv ==
    LET pc == orch[FirstReq].pc
        at == analysis[FirstReq].at
    IN
    /\ pc \in {"fence", "mark", "ack"} => at = "held"
    /\ pc \in {"index", "path", "select", "dispatch"} => at = "settled"
    /\ pc = "fail" => at \in {"held", "settled"}
    /\ pc # "idle" \/ at # "settled" => Dispatched = {}
    /\ pc \in {"index", "path", "select"} \/ at # "settled" => expected = {}
    /\ pc = "dispatch" => expected = orch[FirstReq].sel /\ expected # {}

\* The calls of the synthesizer that are past the decision to synthesize.
Decided == {s \in Callers : syn[s].pc \notin {"idle", "sweepDone", "sweepExpected", "sweepRows"}}

RowsInv ==
    /\ AgentsWithRow \subseteq Dispatched
    /\ expected # {} => Dispatched \subseteq expected
    /\ \A a \in Agents : task[FirstReq][a].pc # "idle" => a \in Dispatched
    /\ \A a \in Agents : task[FirstReq][a].pc = "compare" =>
          task[FirstReq][a].cnt <= Cardinality(AgentsWithRow)
    /\ \A s \in Callers : syn[s].pc = "sweepExpected" =>
          syn[s].cnt <= Cardinality(AgentsWithRow)
    /\ wakeups > 0 \/ Decided # {} => Dispatched # {}

RunInv == OneRunInv /\ HandlerInv /\ RowsInv

(***************************************************************************)
(* Every agent that was dispatched has its row: what a handler that is     *)
(* about to wake the synthesizer, a wakeup and a call that decided to      *)
(* synthesize each imply, and what is left of the counters once cleared.   *)
(***************************************************************************)
AllIn == Dispatched # {} /\ Dispatched \subseteq AgentsWithRow

AllInInv ==
    /\ Dispatched # {} /\ expected = {} => AllIn
    /\ \A a \in Agents : task[FirstReq][a].pc = "notify" => AllIn
    /\ wakeups > 0 \/ Decided # {} \/ HasReport => AllIn
    /\ \A s \in Callers : syn[s].pc # "sweepRows"
    /\ \A s \in Composing : \A a \in Dispatched : syn[s].input[a].st # "none"
    /\ CompleteReport

(***************************************************************************)
(* A job whose first run failed is not run again.                          *)
(***************************************************************************)
NotRerun == {"orchError", "orchCrash"} \cap Mishaps # {"orchError", "orchCrash"}

FailedInv ==
    LET pc == orch[FirstReq].pc
        at == analysis[FirstReq].at
    IN
    /\ pc = "fail" /\ at # "settled" => "orchError" \in Mishaps
    /\ jobStatus = "failed" =>
          pc = "idle" /\ (at = "settled" \/ (at = "held" /\ "orchCrash" \notin Mishaps))

(***************************************************************************)
(* An agent is counted, or its message is still somewhere.                 *)
(***************************************************************************)
\* No error of a handler's own, or too few faults for a message to reach the
\* dead-letter queue uncounted and fail there once more.
FewFaults == "workerError" \notin Mishaps \/ (MaxMishaps <= 2 /\ DeliveryLimit >= 1)

CountedOrCleared(a) == expected = {} \/ a \in done

\* What holds of a message m, its handler t and the faults so far.
MessageInv(m, t, counted, faults) ==
    /\ m.at = "settled" => counted
    /\ t.pc \in {"tally", "compare", "notify"} => counted
    /\ t.pc = "settle" => counted \/ (t.mode = "infra" /\ faults >= 2)
    /\ m.at = "dead" => counted \/ "workerError" \notin Mishaps \/ faults >= 2
    /\ m.tries <= faults
    /\ t.mode = "infra" => faults >= 1 /\ "workerError" \in Mishaps
    /\ t.pc = "idle" => t.mode = "normal"
    /\ t.mode = "dlq" => m.at = "dead"

AckInv ==
    \A a \in Agents :
        MessageInv(agentMsg[FirstReq][a], task[FirstReq][a], CountedOrCleared(a), mishaps)

(***************************************************************************)
(* One run: what each process does to it.                                  *)
(***************************************************************************)
LEMMA OneRunInit == Init => OneRunInv
  <1> SUFFICES ASSUME Init PROVE OneRunInv
    OBVIOUS
  <1> USE RequestAssumption DEF Init
  <1>1. /\ epoch = 0
        /\ \A r \in Reqs : /\ analysis[r].at = "unsent" /\ analysis[r].epoch = 0 /\ analysis[r].retry = {}
                           /\ \A a \in Agents : agentMsg[r][a].at = "unsent"
    BY DEF InitShared
  <1>2. /\ req[FirstReq] = [IdleRequest EXCEPT !.op = "create", !.pc = "emit"]
        /\ \A r \in Reqs \ {FirstReq} : req[r] = IdleRequest
    BY DEF InitGateway
  <1>3. \A r \in Reqs : orch[r].pc = "idle" /\ \A a \in Agents : task[r][a].pc = "idle"
    BY DEF InitOrch, InitWorker, IdleOrch, IdleTask
  <1>4. QED
    BY <1>1, <1>2, <1>3 DEF IdleRequest, OneRunInv, OtherRunsIdle

LEMMA NobodyStale == ASSUME OneRunInv, NEW r \in Reqs PROVE ~Stale(r)
  BY DEF OneRunInv, Stale

LEMMA DispatchedByFirst ==
  ASSUME OneRunInv
  PROVE  Dispatched = {a \in Agents : agentMsg[FirstReq][a].at # "unsent"}
  BY RequestAssumption DEF OneRunInv, OtherRunsIdle, Dispatched

\* The first message is published, or its request dies before.
LEMMA GatewayLeftAlone ==
  ASSUME LeftAlone, TypeOK, OneRunInv, GatewayNext, UNCHANGED <<orchVars, workerVars, synVars>>
  PROVE  /\ OneRunInv'
         /\ UNCHANGED <<jobVars, countVars, agentMsg, wakeups>>
         /\ analysis'[FirstReq].at \in {analysis[FirstReq].at, "ready"}
         /\ analysis'[FirstReq].at # analysis[FirstReq].at => analysis[FirstReq].at = "unsent"
  <1> USE RequestAssumption
          DEF OneRunInv, OtherRunsIdle, sharedVars, keyVars, queueVars, orchVars, workerVars
  <1>1. PICK q \in Reqs : \/ RetryRead(q) \/ CancelRead(q) \/ StopRead(q)
                          \/ GatewayStep(q) \/ GatewayCrash(q)
    BY DEF GatewayNext
  <1>2. req[q] \in Request /\ analysis[FirstReq] \in AnalysisMessage /\ req \in [Reqs -> Request]
        /\ analysis \in [Reqs -> AnalysisMessage]
    BY DEF TypeOK, TypeOKGateway, TypeOKShared
  <1>3. ~RetryRead(q) /\ ~CancelRead(q) /\ ~StopRead(q)
    BY DEF LeftAlone, RetryRead, CancelRead, StopRead
  <1>4. OverRequest.pc = "over" /\ OverRequest.epoch = 0 /\ OverRequest.retry = {}
    BY DEF OverRequest, IdleRequest
  <1>5. CASE Emit(q)
    <2>1. q = FirstReq /\ analysis[q].at = "unsent"
      BY <1>5 DEF Emit
    <2>2. /\ analysis' = [analysis EXCEPT ![q] = [at |-> "ready", tries |-> 0, epoch |-> 0, retry |-> {}]]
          /\ req' = [req EXCEPT ![q] = OverRequest]
          /\ UNCHANGED <<jobVars, countVars, epoch, agentMsg, wakeups>>
      BY <1>5, <2>1 DEF Emit
    <2>3. QED
      BY <1>2, <1>4, <2>1, <2>2
  <1>6. CASE GatewayCrash(q)
    <2>1. /\ q = FirstReq
          /\ req' = [req EXCEPT ![q] = OverRequest]
          /\ UNCHANGED <<jobVars, countVars, epoch, agentMsg, wakeups, analysis>>
      BY <1>6 DEF GatewayCrash
    <2>2. QED
      BY <1>2, <1>4, <2>1
  <1>7. ~RetryResults(q) /\ ~RetryUncount(q) /\ ~RetryEpoch(q) /\ ~BumpEpoch(q) /\ ~Wipe(q)
        /\ ~ResetStatus(q)
    BY DEF RetryResults, RetryUncount, RetryEpoch, BumpEpoch, Wipe, ResetStatus
  <1>8. QED
    BY <1>1, <1>3, <1>5, <1>6, <1>7 DEF GatewayStep

LEMMA RedeliveredAnalysis ==
  ASSUME NEW m \in AnalysisMessage
  PROVE  /\ Redelivered(m).epoch = m.epoch /\ Redelivered(m).retry = m.retry
         /\ Redelivered(m).at \in {"ready", "dead"}
  BY DEF Redelivered, AnalysisMessage

\* Every step of the orchestrator is one of the first run's handler; it changes
\* what the agents are counted with only until it has dispatched them.
LEMMA OrchLeftAlone ==
  ASSUME TypeOK, OneRunInv, HandlerInv, OrchNext, UNCHANGED <<gatewayVars, workerVars, synVars>>
  PROVE  /\ OneRunInv' /\ HandlerInv'
         /\ UNCHANGED <<latest, report, done, wakeups>>
         /\ mishaps' \in {mishaps, mishaps + 1}
         /\ \/ UNCHANGED <<expected, agentMsg>>
            \/ orch[FirstReq].pc = "select" /\ UNCHANGED agentMsg
            \/ /\ orch[FirstReq].pc = "dispatch" /\ UNCHANGED expected
               /\ Dispatched' \subseteq expected
               /\ \A a \in Agents : \/ agentMsg'[FirstReq][a] = agentMsg[FirstReq][a]
                                    \/ agentMsg'[FirstReq][a] = [at |-> "ready", tries |-> 0]
  <1> USE RequestAssumption
          DEF sharedVars, jobVars, countVars, keyVars, queueVars, gatewayVars, workerVars
  <1> DEFINE F == FirstReq
  <1>1. /\ analysis \in [Reqs -> AnalysisMessage] /\ orch \in [Reqs -> OrchHandler]
        /\ agentMsg \in [Reqs -> [Agents -> Message]]
        /\ analysis[F] \in AnalysisMessage /\ orch[F] \in OrchHandler
    BY DEF TypeOK, TypeOKShared, TypeOKOrch
  <1>2. IdleOrch.pc = "idle"
    BY DEF IdleOrch
  <1>3. /\ epoch = 0 /\ OtherRunsIdle
        /\ \A r \in Reqs : analysis[r].epoch = 0 /\ analysis[r].retry = {}
        /\ req[F].pc \in {"emit", "over"}
        /\ req[F].epoch = 0 /\ req[F].retry = {}
        /\ req[F].pc = "emit" => analysis[F].at = "unsent"
    BY DEF OneRunInv
  \* What is left to show of a step that leaves the agents' messages alone.
  <1>4. ASSUME NEW h, NEW m, UNCHANGED <<epoch, req, task, agentMsg>>,
               orch' = [orch EXCEPT ![F] = h], analysis' = [analysis EXCEPT ![F] = m],
               m.epoch = 0, m.retry = {}, m.at = "unsent" \/ analysis[F].at # "unsent"
        PROVE  OneRunInv' /\ Dispatched' = Dispatched /\ orch'[F] = h /\ analysis'[F] = m
    <2>1. /\ orch'[F] = h /\ analysis'[F] = m
          /\ \A r \in Reqs \ {F} : orch'[r] = orch[r] /\ analysis'[r] = analysis[r]
      BY <1>1, <1>4
    <2>2. OtherRunsIdle'
      BY <1>3, <1>4, <2>1 DEF OtherRunsIdle
    <2>3. OneRunInv'
      BY <1>3, <1>4, <2>1, <2>2 DEF OneRunInv
    <2>4. QED
      BY <1>4, <2>1, <2>3 DEF Dispatched
  <1>5. \A r \in Reqs : (OrchStep(r) \/ OrchError(r)) => r = F
    BY <1>3 DEF OtherRunsIdle, OrchStep, OrchError, Receive, FenceAnalysis, MarkRunning, AckAnalysis, Index,
           SetGraphPath, SelectAndExpect, Dispatch, MarkFailed, AnalysisDlq
  <1>6. CASE OrchCrash
    <2>1. /\ UNCHANGED <<jobVars, countVars, keyVars, agentMsg, wakeups, req, task>>
          /\ mishaps' = mishaps + 1
          /\ \A r \in Reqs : orch'[r] = IdleOrch
          /\ \A r \in Reqs : analysis'[r] = IF analysis[r].at = "held" THEN Redelivered(analysis[r])
                                            ELSE analysis[r]
      BY <1>6 DEF OrchCrash, Mishap
    <2>2. \A r \in Reqs : /\ analysis'[r].epoch = analysis[r].epoch
                          /\ analysis'[r].retry = analysis[r].retry
                          /\ analysis[r].at # "held" => analysis'[r].at = analysis[r].at
                          /\ analysis[r].at = "held" => analysis'[r].at \in {"ready", "dead"}
      BY <1>1, <2>1, RedeliveredAnalysis
    <2>3. OtherRunsIdle'
      BY <1>2, <1>3, <2>1, <2>2 DEF OtherRunsIdle
    <2>4. OneRunInv'
      BY <1>3, <2>1, <2>2, <2>3 DEF OneRunInv
    <2>5. Dispatched' = Dispatched
      BY <2>1 DEF Dispatched
    <2>6. HandlerInv'
      BY <1>2, <2>1, <2>2, <2>5 DEF HandlerInv
    <2>7. QED
      BY <2>1, <2>4, <2>6
  <1>7. CASE OrchStep(F) \/ OrchError(F)
    <2>1. \A pc : [orch[F] EXCEPT !.pc = pc].pc = pc /\ [orch[F] EXCEPT !.pc = pc].sel = orch[F].sel
      BY <1>1 DEF OrchHandler
    <2>2. /\ [analysis[F] EXCEPT !.at = "settled", !.tries = 0].at = "settled"
          /\ [analysis[F] EXCEPT !.at = "settled", !.tries = 0].epoch = 0
          /\ [analysis[F] EXCEPT !.at = "settled", !.tries = 0].retry = {}
          /\ [analysis[F] EXCEPT !.at = "held"].at = "held"
          /\ [analysis[F] EXCEPT !.at = "held"].epoch = 0
          /\ [analysis[F] EXCEPT !.at = "held"].retry = {}
      BY <1>1, <1>3 DEF AnalysisMessage
    <2>3. UNCHANGED analysis => analysis' = [analysis EXCEPT ![F] = analysis[F]]
      BY <1>1
    <2>4. UNCHANGED orch => orch' = [orch EXCEPT ![F] = orch[F]]
      BY <1>1
    <2> USE DEF SetOrch, OrchGoto, OrchLeave, MoveAnalysis, SettleAnalysis
    <2>5. ASSUME NEW pc, OrchGoto(F, pc), UNCHANGED <<epoch, req, task, agentMsg, analysis>>
           PROVE  /\ OneRunInv' /\ Dispatched' = Dispatched /\ analysis'[F] = analysis[F]
                  /\ orch'[F].pc = pc /\ orch'[F].sel = orch[F].sel
      <3>1. orch' = [orch EXCEPT ![F] = [orch[F] EXCEPT !.pc = pc]]
        BY <2>5
      <3>2. OneRunInv' /\ Dispatched' = Dispatched /\ orch'[F] = [orch[F] EXCEPT !.pc = pc]
        BY <1>3, <1>4, <2>3, <2>5, <3>1
      <3>3. QED
        BY <2>1, <2>5, <3>2
    <2>6. ASSUME OrchLeave(F), UNCHANGED <<epoch, req, task, agentMsg, analysis>>
           PROVE  /\ OneRunInv' /\ Dispatched' = Dispatched /\ analysis'[F] = analysis[F]
                  /\ orch'[F].pc = "idle"
      BY <1>2, <1>3, <1>4, <2>3, <2>6
    <2>7. ASSUME NEW pc, OrchGoto(F, pc), SettleAnalysis(F), analysis[F].at # "unsent",
                  UNCHANGED <<epoch, req, task, agentMsg>>
           PROVE  /\ OneRunInv' /\ Dispatched' = Dispatched /\ analysis'[F].at = "settled"
                  /\ orch'[F].pc = pc /\ orch'[F].sel = orch[F].sel
      <3>1. /\ orch' = [orch EXCEPT ![F] = [orch[F] EXCEPT !.pc = pc]]
            /\ analysis' = [analysis EXCEPT ![F] = [analysis[F] EXCEPT !.at = "settled", !.tries = 0]]
        BY <2>7
      <3>2. /\ OneRunInv' /\ Dispatched' = Dispatched /\ orch'[F] = [orch[F] EXCEPT !.pc = pc]
            /\ analysis'[F] = [analysis[F] EXCEPT !.at = "settled", !.tries = 0]
        BY <1>4, <2>2, <2>7, <3>1
      <3>3. QED
        BY <2>1, <2>2, <3>2
    <2>8. CASE Receive(F)
      <3>1. /\ orch' = [orch EXCEPT ![F] = [orch[F] EXCEPT !.pc = "fence"]]
            /\ analysis' = [analysis EXCEPT ![F] = [analysis[F] EXCEPT !.at = "held"]]
            /\ analysis[F].at = "ready" /\ orch[F].pc = "idle"
            /\ UNCHANGED <<jobVars, countVars, keyVars, agentMsg, wakeups, mishaps>>
        BY <2>8 DEF Receive
      <3>2. /\ OneRunInv' /\ Dispatched' = Dispatched /\ orch'[F] = [orch[F] EXCEPT !.pc = "fence"]
            /\ analysis'[F] = [analysis[F] EXCEPT !.at = "held"]
        BY <1>4, <2>2, <3>1
      <3>3. orch'[F].pc = "fence" /\ analysis'[F].at = "held"
        BY <2>1, <2>2, <3>2
      <3>4. QED
        BY <3>1, <3>2, <3>3 DEF HandlerInv
    <2>9. CASE FenceAnalysis(F)
      <3>1. ~Stale(F)
        BY NobodyStale
      <3>2. /\ orch[F].pc = "fence" /\ OrchGoto(F, "mark")
            /\ UNCHANGED <<jobVars, countVars, keyVars, queueVars, wakeups, mishaps>>
        BY <2>9, <3>1 DEF FenceAnalysis
      <3>3. QED
        BY <2>5, <3>2 DEF HandlerInv
    <2>10. CASE MarkRunning(F)
      <3>1. /\ orch[F].pc = "mark" /\ OrchGoto(F, "ack")
            /\ UNCHANGED <<latest, report, countVars, keyVars, queueVars, wakeups, mishaps>>
        BY <2>10 DEF MarkRunning
      <3>2. QED
        BY <2>5, <3>1 DEF HandlerInv
    <2>11. CASE AckAnalysis(F)
      <3>1. /\ orch[F].pc = "ack" /\ OrchGoto(F, "index") /\ SettleAnalysis(F)
            /\ UNCHANGED <<jobVars, countVars, keyVars, agentMsg, wakeups, mishaps>>
        BY <2>11 DEF AckAnalysis
      <3>2. analysis[F].at = "held"
        BY <3>1 DEF HandlerInv
      <3>3. QED
        BY <2>7, <3>1, <3>2 DEF HandlerInv
    <2>12. CASE Index(F)
      <3>1. PICK pc \in {"path", "fail"} : OrchGoto(F, pc)
        BY <2>12 DEF Index
      <3>2. orch[F].pc = "index" /\ UNCHANGED sharedVars
        BY <2>12 DEF Index
      <3>3. QED
        BY <2>5, <3>1, <3>2 DEF HandlerInv
    <2>13. CASE SetGraphPath(F)
      <3>1. /\ orch[F].pc = "path" /\ OrchGoto(F, "select")
            /\ UNCHANGED <<jobVars, countVars, epoch, queueVars, wakeups, mishaps>>
        BY <2>13 DEF SetGraphPath
      <3>2. QED
        BY <2>5, <3>1 DEF HandlerInv
    <2>14. CASE SelectAndExpect(F)
      <3>1. PICK sel \in SelectAgents : /\ orch' = [orch EXCEPT ![F] = [pc |-> "dispatch", sel |-> sel]]
                                        /\ expected' = expected \cup sel
        BY <1>3, <2>14 DEF SelectAndExpect
      <3>2. sel # {}
        BY AgentsAssumption DEF SelectAgents
      <3>3. /\ orch[F].pc = "select" /\ UNCHANGED <<jobVars, done, keyVars, queueVars, wakeups, mishaps>>
        BY <2>14 DEF SelectAndExpect
      <3>4. /\ OneRunInv' /\ Dispatched' = Dispatched /\ orch'[F] = [pc |-> "dispatch", sel |-> sel]
            /\ analysis'[F] = analysis[F]
        BY <1>3, <1>4, <2>3, <3>1, <3>3
      <3>5. expected' = sel
        BY <3>1, <3>3 DEF HandlerInv
      <3>6. QED
        BY <3>2, <3>3, <3>4, <3>5 DEF HandlerInv
    <2>15. CASE Dispatch(F)
      <3>1. PICK sel \in SUBSET orch[F].sel : agentMsg' = Published(F, sel)
        BY <2>15 DEF Dispatch
      <3>2. /\ orch[F].pc = "dispatch" /\ orch' = [orch EXCEPT ![F] = IdleOrch]
            /\ UNCHANGED <<jobVars, countVars, keyVars, analysis, wakeups>>
            /\ mishaps' \in {mishaps, mishaps + 1}
        BY <2>15 DEF Dispatch, Mishap
      <3>3. /\ orch[F].sel = expected /\ Dispatched = {} /\ analysis[F].at = "settled"
        BY <3>2 DEF HandlerInv
      <3>4. /\ \A r \in Reqs \ {F} : agentMsg'[r] = agentMsg[r]
            /\ \A a \in Agents : agentMsg'[F][a] = IF a \in sel THEN [at |-> "ready", tries |-> 0]
                                                   ELSE agentMsg[F][a]
        BY <1>1, <3>1 DEF Published
      <3>5. orch'[F] = IdleOrch /\ \A r \in Reqs \ {F} : orch'[r] = orch[r]
        BY <1>1, <3>2
      <3>6. OtherRunsIdle'
        BY <1>3, <3>2, <3>4, <3>5 DEF OtherRunsIdle
      <3>7. OneRunInv'
        BY <1>3, <3>2, <3>6 DEF OneRunInv
      <3>8. Dispatched' \subseteq expected
        <4>1. SUFFICES ASSUME NEW a \in Dispatched' PROVE a \in expected
          OBVIOUS
        <4>2. a \in Agents /\ agentMsg'[F][a].at # "unsent"
          BY <3>6, <4>1 DEF Dispatched, OtherRunsIdle
        <4>3. agentMsg[F][a].at = "unsent"
          BY <3>3, <4>2 DEF Dispatched
        <4>4. QED
          BY <3>3, <3>4, <4>2, <4>3
      <3>9. HandlerInv'
        BY <1>2, <3>2, <3>3, <3>5 DEF HandlerInv
      <3>10. QED
        BY <3>2, <3>4, <3>7, <3>8, <3>9
    <2>16. CASE MarkFailed(F)
      <3>1. /\ orch[F].pc = "fail" /\ OrchLeave(F)
            /\ UNCHANGED <<latest, report, countVars, keyVars, queueVars, wakeups, mishaps>>
        BY <2>16 DEF MarkFailed
      <3>2. QED
        BY <2>6, <3>1 DEF HandlerInv
    <2>17. CASE AnalysisDlq(F)
      <3>1. /\ analysis[F].at = "dead"
            /\ analysis' = [analysis EXCEPT ![F] = [analysis[F] EXCEPT !.at = "settled", !.tries = 0]]
            /\ UNCHANGED <<latest, report, countVars, keyVars, agentMsg, wakeups, mishaps, orch>>
        BY <2>17 DEF AnalysisDlq
      <3>2. /\ OneRunInv' /\ Dispatched' = Dispatched /\ orch'[F] = orch[F]
            /\ analysis'[F] = [analysis[F] EXCEPT !.at = "settled", !.tries = 0]
        BY <1>4, <2>2, <2>4, <3>1
      <3>3. analysis'[F].at = "settled" /\ orch[F].pc = "idle"
        BY <1>1, <2>2, <3>1, <3>2 DEF HandlerInv, OrchHandler, OrchPCs
      <3>4. QED
        BY <3>1, <3>2, <3>3 DEF HandlerInv
    <2>18. CASE OrchError(F)
      <3>1. /\ orch[F].pc # "idle" /\ (OrchLeave(F) \/ OrchGoto(F, "fail"))
            /\ mishaps' = mishaps + 1
            /\ UNCHANGED <<jobVars, countVars, keyVars, queueVars, wakeups>>
        BY <2>18 DEF OrchError, Mishap
      <3>2. QED
        BY <1>1, <2>5, <2>6, <3>1 DEF HandlerInv, OrchHandler, OrchPCs
    <2>19. QED
      BY <1>7, <2>8, <2>9, <2>10, <2>11, <2>12, <2>13, <2>14, <2>15, <2>16, <2>17, <2>18
         DEF OrchStep
  <1>8. QED
    BY <1>5, <1>6, <1>7 DEF OrchNext

(***************************************************************************)
(* What one step of the handler of agent a does to its task, its message   *)
(* and what they are counted with.                                         *)
(***************************************************************************)
TaskMoves(a) ==
    LET old == task[FirstReq][a]
        new == task'[FirstReq][a]
        msg == agentMsg[FirstReq][a]
        msgNow == agentMsg'[FirstReq][a]
        failing == "workerError" \in Mishaps /\ mishaps < MaxMishaps /\ mishaps' = mishaps + 1
    IN
    /\ new.pc = "idle" => new.mode = "normal"
    /\ new.pc = "tally" => a \in done'
    /\ new.pc = "compare" => old.pc = "tally" /\ new.cnt = Cardinality(done)
    /\ new.pc = "notify" => old.pc = "compare" /\ old.cnt >= Cardinality(expected)
    /\ new.pc = "settle" => /\ new.mode = old.mode
                            /\ old.pc \in {"compare", "notify"} \/ (old.mode # "normal" /\ failing)
    /\ new.mode = "infra" => old.mode = "infra" \/ failing
    /\ new.mode = "dlq" => \/ old.pc = "idle" /\ old.mode = "dlq"
                           \/ msgNow = msg /\ (old.mode = "dlq" \/ msg.at = "dead")
    /\ msgNow = msg \/ msgNow.at \in {"held", "settled", "dead"}
    /\ msgNow.at = "settled" => msg.at = "settled" \/ (old.pc = "settle" /\ old.mode # "infra")
    /\ msgNow.at = "dead" => msg.at = "dead" \/ (old.pc = "settle" /\ old.mode = "infra")
    /\ msgNow.tries \in {msg.tries, 0}

\* What it does to the rest of the run.
TaskFrame(a) ==
    LET old == task[FirstReq][a] IN
    /\ old.pc # "idle" \/ agentMsg[FirstReq][a].at \in {"ready", "dead"}
    /\ \A r \in Reqs, b \in Agents : r # FirstReq \/ b # a =>
          task'[r][b] = task[r][b] /\ agentMsg'[r][b] = agentMsg[r][b]
    /\ UNCHANGED <<jobStatus, report, expected, epoch, analysis>>
    /\ done \subseteq done'
    /\ \/ UNCHANGED latest
       \/ old.pc = "persist" /\ latest' = [latest EXCEPT ![a] = Row(old.ok, FirstReq)]
    /\ wakeups' > 0 => wakeups > 0 \/ old.pc = "notify"
    /\ mishaps' \in {mishaps, mishaps + 1}

LEMMA TaskStep ==
  ASSUME TypeOK, OneRunInv, NEW r \in Reqs, NEW a \in Agents, WorkerStep(r, a) \/ WorkerError(r, a)
  PROVE  TaskMoves(a) /\ TaskFrame(a)
  <1> USE RequestAssumption DEF sharedVars, jobVars, countVars, keyVars, queueVars
  <1>1. r = FirstReq
    <2>1. task[r][a].pc # "idle" \/ agentMsg[r][a].at \in {"ready", "dead"}
      <3>1. CASE WorkerError(r, a) \/ TakeSlot(r, a) \/ DlqReceive(r, a)
        BY <3>1 DEF WorkerError, TakeSlot, DlqReceive
      <3>2. CASE FenceAgent(r, a) \/ CheckBudget(r, a) \/ CheckAlive(r, a) \/ FenceDlq(r, a)
        BY <3>2 DEF FenceAgent, CheckBudget, CheckAlive, FenceDlq
      <3>3. CASE ModelAnswers(r, a) \/ Bill(r, a) \/ PersistResult(r, a) \/ CountDone(r, a)
        BY <3>3 DEF ModelAnswers, Bill, PersistResult, CountDone
      <3>4. CASE TallyDone(r, a) \/ CompareExpected(r, a) \/ NotifyReady(r, a) \/ Settle(r, a)
        BY <3>4 DEF TallyDone, CompareExpected, NotifyReady, Settle
      <3>5. QED
        BY <3>1, <3>2, <3>3, <3>4 DEF WorkerStep
    <2>2. QED
      BY <2>1 DEF OneRunInv, OtherRunsIdle
  <1>2. /\ task \in [Reqs -> [Agents -> Task]] /\ agentMsg \in [Reqs -> [Agents -> Message]]
        /\ task[r][a] \in Task /\ agentMsg[r][a] \in Message
        /\ wakeups \in Nat /\ mishaps \in Nat
    BY DEF TypeOK, TypeOKShared, TypeOKWorker
  <1>3. ~Stale(r)
    BY NobodyStale
  <1> DEFINE old == task[r][a]
             msg == agentMsg[r][a]
             failing == "workerError" \in Mishaps /\ mishaps < MaxMishaps /\ mishaps' = mishaps + 1
             elsewhere == \A q \in Reqs, b \in Agents : q # r \/ b # a =>
                             task'[q][b] = task[q][b] /\ agentMsg'[q][b] = agentMsg[q][b]
             calm == /\ UNCHANGED <<jobStatus, report, expected, epoch, analysis, done, latest, wakeups>>
                     /\ old.pc # "idle" \/ msg.at \in {"ready", "dead"}
  <1>4. ASSUME NEW t, SetTask(r, a, t), UNCHANGED agentMsg
        PROVE  task'[r][a] = t /\ agentMsg'[r][a] = msg /\ elsewhere
    BY <1>2, <1>4 DEF SetTask
  <1>5. ASSUME NEW t, NEW m, SetTask(r, a, t), MoveMsg(r, a, m)
        PROVE  task'[r][a] = t /\ agentMsg'[r][a] = m /\ elsewhere
    BY <1>2, <1>5 DEF SetTask, MoveMsg
  <1>6. IdleTask.pc = "idle" /\ IdleTask.mode = "normal"
    BY DEF IdleTask
  <1>7. \A pc : [old EXCEPT !.pc = pc].pc = pc /\ [old EXCEPT !.pc = pc].mode = old.mode
    BY <1>2 DEF Task
  <1>8. ASSUME NEW pc, SetTask(r, a, [old EXCEPT !.pc = pc]), UNCHANGED agentMsg
        PROVE  /\ task'[r][a].pc = pc /\ task'[r][a].mode = old.mode
               /\ agentMsg'[r][a] = msg /\ elsewhere
    <2>1. task'[r][a] = [old EXCEPT !.pc = pc] /\ agentMsg'[r][a] = msg /\ elsewhere
      BY <1>4, <1>8
    <2>2. QED
      BY <1>7, <2>1
  \* A step to one of the places before the bookkeeping.
  <1>9. ASSUME NEW t, SetTask(r, a, t), UNCHANGED agentMsg, calm, t.mode = old.mode,
               mishaps' = mishaps \/ failing,
               t.pc \in {"fence", "budget", "turn", "call", "bill", "persist", "count"}
        PROVE  TaskMoves(a) /\ TaskFrame(a)
    BY <1>1, <1>2, <1>4, <1>9 DEF TaskMoves, TaskFrame
  <1>10. ASSUME NEW pc \in {"budget", "turn", "call", "persist"}, CheckFence(r, a, pc), old.pc # "idle"
        PROVE  TaskMoves(a) /\ TaskFrame(a)
    <2>1. /\ SetTask(r, a, [old EXCEPT !.pc = pc]) /\ UNCHANGED agentMsg
          /\ UNCHANGED <<jobVars, countVars, keyVars, analysis, wakeups, mishaps>>
      BY <1>3, <1>10 DEF CheckFence, TaskGoto
    <2>2. QED
      BY <1>7, <1>9, <1>10, <2>1
  <1>11. CASE TakeSlot(r, a)
    <2>1. /\ SetTask(r, a, [old EXCEPT !.pc = "fence"]) /\ MoveMsg(r, a, [msg EXCEPT !.at = "held"])
          /\ msg.at = "ready" /\ old.pc = "idle"
          /\ UNCHANGED <<jobVars, countVars, keyVars, analysis, wakeups, mishaps>>
      BY <1>11 DEF TakeSlot, TaskGoto, Busy
    <2>2. [msg EXCEPT !.at = "held"].at = "held" /\ [msg EXCEPT !.at = "held"].tries = msg.tries
      BY <1>2 DEF Message
    <2>3. /\ task'[r][a] = [old EXCEPT !.pc = "fence"] /\ elsewhere
          /\ agentMsg'[r][a] = [msg EXCEPT !.at = "held"]
      BY <1>5, <2>1
    <2>4. QED
      BY <1>1, <1>7, <2>1, <2>2, <2>3 DEF TaskMoves, TaskFrame
  <1>12. CASE FenceAgent(r, a) \/ CheckAlive(r, a) \/ FenceDlq(r, a)
    BY <1>10, <1>12 DEF FenceAgent, CheckAlive, FenceDlq
  <1>13. CASE CheckBudget(r, a)
    <2>1. PICK pc \in {"persist", "turn"} : SetTask(r, a, [old EXCEPT !.pc = pc])
      BY <1>13 DEF CheckBudget, TaskGoto
    <2>2. old.pc = "budget" /\ UNCHANGED sharedVars
      BY <1>13 DEF CheckBudget
    <2>3. QED
      BY <1>7, <1>9, <2>1, <2>2
  <1>14. CASE ModelAnswers(r, a)
    <2>1. PICK ok \in BOOLEAN, pc \in {"bill", "persist"} :
             SetTask(r, a, [old EXCEPT !.ok = ok, !.pc = pc])
      BY <1>14 DEF ModelAnswers
    <2>2. /\ [old EXCEPT !.ok = ok, !.pc = pc].pc = pc
          /\ [old EXCEPT !.ok = ok, !.pc = pc].mode = old.mode
      BY <1>2 DEF Task
    <2>3. old.pc = "call" /\ UNCHANGED sharedVars
      BY <1>14 DEF ModelAnswers
    <2>4. QED
      BY <1>9, <2>1, <2>2, <2>3
  <1>15. CASE Bill(r, a)
    <2>1. /\ SetTask(r, a, [old EXCEPT !.pc = "persist"]) /\ old.pc = "bill"
          /\ UNCHANGED <<jobVars, countVars, epoch, graphPath, lock, queueVars, wakeups, mishaps>>
      BY <1>15 DEF Bill, TaskGoto
    <2>2. QED
      BY <1>7, <1>9, <2>1
  <1>16. CASE PersistResult(r, a)
    <2>1. /\ SetTask(r, a, [old EXCEPT !.pc = "count", !.ok = FALSE]) /\ old.pc = "persist"
          /\ latest' = [latest EXCEPT ![a] = Row(old.ok, r)]
          /\ UNCHANGED <<jobStatus, report, aged, countVars, keyVars, queueVars, wakeups, mishaps>>
      BY <1>16 DEF PersistResult
    <2>2. /\ [old EXCEPT !.pc = "count", !.ok = FALSE].pc = "count"
          /\ [old EXCEPT !.pc = "count", !.ok = FALSE].mode = old.mode
      BY <1>2 DEF Task
    <2>3. /\ task'[r][a].pc = "count" /\ task'[r][a].mode = old.mode
          /\ agentMsg'[r][a] = msg /\ elsewhere
      BY <1>4, <2>1, <2>2
    <2>4. QED
      BY <1>1, <1>2, <2>1, <2>3 DEF TaskMoves, TaskFrame
  <1>17. CASE CountDone(r, a)
    <2>1. /\ SetTask(r, a, [old EXCEPT !.pc = "tally"]) /\ old.pc = "count"
          /\ done' = done \cup {a}
          /\ UNCHANGED <<jobVars, expected, keyVars, queueVars, wakeups, mishaps>>
      BY <1>17 DEF CountDone, TaskGoto
    <2>2. /\ task'[r][a].pc = "tally" /\ task'[r][a].mode = old.mode
          /\ agentMsg'[r][a] = msg /\ elsewhere
      BY <1>8, <2>1
    <2>3. QED
      BY <1>1, <1>2, <2>1, <2>2 DEF TaskMoves, TaskFrame
  <1>18. CASE TallyDone(r, a)
    <2>1. /\ SetTask(r, a, [old EXCEPT !.pc = "compare", !.cnt = Cardinality(done)])
          /\ old.pc = "tally" /\ UNCHANGED sharedVars
      BY <1>18 DEF TallyDone
    <2>2. /\ [old EXCEPT !.pc = "compare", !.cnt = Cardinality(done)].pc = "compare"
          /\ [old EXCEPT !.pc = "compare", !.cnt = Cardinality(done)].mode = old.mode
          /\ [old EXCEPT !.pc = "compare", !.cnt = Cardinality(done)].cnt = Cardinality(done)
      BY <1>2 DEF Task
    <2>3. /\ task'[r][a].pc = "compare" /\ task'[r][a].mode = old.mode
          /\ task'[r][a].cnt = Cardinality(done) /\ agentMsg'[r][a] = msg /\ elsewhere
      BY <1>4, <2>1, <2>2
    <2>4. QED
      BY <1>1, <1>2, <2>1, <2>3 DEF TaskMoves, TaskFrame
  <1>19. CASE CompareExpected(r, a)
    <2>1. PICK pc \in {"notify", "settle"} :
             /\ SetTask(r, a, [old EXCEPT !.cnt = 0, !.pc = pc])
             /\ pc = "notify" => old.cnt >= Cardinality(expected)
      BY <1>19 DEF CompareExpected
    <2>2. old.pc = "compare" /\ UNCHANGED sharedVars
      BY <1>19 DEF CompareExpected
    <2>3. /\ [old EXCEPT !.cnt = 0, !.pc = pc].pc = pc
          /\ [old EXCEPT !.cnt = 0, !.pc = pc].mode = old.mode
      BY <1>2 DEF Task
    <2>4. /\ task'[r][a].pc = pc /\ task'[r][a].mode = old.mode
          /\ agentMsg'[r][a] = msg /\ elsewhere
      BY <1>4, <2>1, <2>2, <2>3
    <2>5. QED
      BY <1>1, <1>2, <2>1, <2>2, <2>4 DEF TaskMoves, TaskFrame
  <1>20. CASE NotifyReady(r, a)
    <2>1. /\ SetTask(r, a, [old EXCEPT !.pc = "settle"]) /\ old.pc = "notify"
          /\ mishaps' \in {mishaps, mishaps + 1}
          /\ UNCHANGED <<jobVars, countVars, keyVars, queueVars>>
      BY <1>20 DEF NotifyReady, TaskGoto, PublishReady, Mishap
    <2>2. /\ task'[r][a].pc = "settle" /\ task'[r][a].mode = old.mode
          /\ agentMsg'[r][a] = msg /\ elsewhere
      BY <1>8, <2>1
    <2>3. QED
      BY <1>1, <1>2, <2>1, <2>2 DEF TaskMoves, TaskFrame
  <1>21. CASE Settle(r, a)
    <2>1. PICK place \in {"dead", "settled"} :
             /\ SetTask(r, a, IdleTask) /\ MoveMsg(r, a, [at |-> place, tries |-> 0])
             /\ (place = "dead") <=> (old.mode = "infra")
      BY <1>21 DEF Settle, SettleMsg, TaskLeave
    <2>2. /\ old.pc = "settle"
          /\ UNCHANGED <<jobVars, countVars, keyVars, analysis, wakeups, mishaps>>
      BY <1>21 DEF Settle
    <2>3. task'[r][a] = IdleTask /\ agentMsg'[r][a] = [at |-> place, tries |-> 0] /\ elsewhere
      BY <1>5, <2>1
    <2>4. QED
      BY <1>1, <1>6, <2>1, <2>2, <2>3 DEF TaskMoves, TaskFrame
  <1>22. CASE DlqReceive(r, a)
    <2>1. /\ SetTask(r, a, [old EXCEPT !.pc = "dlqFence", !.mode = "dlq"])
          /\ msg.at = "dead" /\ UNCHANGED sharedVars
      BY <1>22 DEF DlqReceive
    <2>2. /\ [old EXCEPT !.pc = "dlqFence", !.mode = "dlq"].pc = "dlqFence"
          /\ [old EXCEPT !.pc = "dlqFence", !.mode = "dlq"].mode = "dlq"
      BY <1>2 DEF Task
    <2>3. /\ task'[r][a].pc = "dlqFence" /\ task'[r][a].mode = "dlq"
          /\ agentMsg'[r][a] = msg /\ elsewhere
      BY <1>4, <2>1, <2>2
    <2>4. QED
      BY <1>1, <1>2, <2>1, <2>3 DEF TaskMoves, TaskFrame
  <1>23. CASE WorkerError(r, a)
    <2>1. /\ old.pc # "idle" /\ failing
          /\ UNCHANGED <<jobVars, countVars, keyVars, queueVars, wakeups>>
      BY <1>23 DEF WorkerError, Mishap
    <2>2. CASE SetTask(r, a, [IdleTask EXCEPT !.pc = "persist", !.mode = "infra"])
      <3>1. /\ [IdleTask EXCEPT !.pc = "persist", !.mode = "infra"].pc = "persist"
            /\ [IdleTask EXCEPT !.pc = "persist", !.mode = "infra"].mode = "infra"
        BY DEF IdleTask
      <3>2. /\ task'[r][a].pc = "persist" /\ task'[r][a].mode = "infra"
            /\ agentMsg'[r][a] = msg /\ elsewhere
        BY <1>4, <2>1, <2>2, <3>1
      <3>3. QED
        BY <1>1, <1>2, <2>1, <3>2 DEF TaskMoves, TaskFrame
    <2>3. CASE SetTask(r, a, [old EXCEPT !.pc = "persist"])
      BY <1>7, <1>9, <2>1, <2>3
    <2>4. CASE old.mode # "normal" /\ SetTask(r, a, [old EXCEPT !.pc = "settle", !.cnt = 0])
      <3>1. /\ [old EXCEPT !.pc = "settle", !.cnt = 0].pc = "settle"
            /\ [old EXCEPT !.pc = "settle", !.cnt = 0].mode = old.mode
        BY <1>2 DEF Task
      <3>2. /\ task'[r][a].pc = "settle" /\ task'[r][a].mode = old.mode
            /\ agentMsg'[r][a] = msg /\ elsewhere
        BY <1>4, <2>1, <2>4, <3>1
      <3>3. QED
        BY <1>1, <1>2, <2>1, <2>4, <3>2 DEF TaskMoves, TaskFrame
    <2>5. CASE TaskLeave(r, a)
      <3>1. task'[r][a] = IdleTask /\ agentMsg'[r][a] = msg /\ elsewhere
        BY <1>4, <2>1, <2>5 DEF TaskLeave
      <3>2. QED
        BY <1>1, <1>2, <2>1, <3>1 DEF IdleTask, TaskMoves, TaskFrame
    <2>6. QED
      BY <1>23, <2>2, <2>3, <2>4, <2>5 DEF WorkerError, TaskGoto
  <1>24. QED
    BY <1>11, <1>12, <1>13, <1>14, <1>15, <1>16, <1>17, <1>18, <1>19, <1>20, <1>21, <1>22, <1>23
       DEF WorkerStep

\* What the death of the worker does to it.
WorkerGone ==
    /\ \A r \in Reqs, a \in Agents :
          /\ task'[r][a] = IdleTask
          /\ \/ agentMsg'[r][a] = agentMsg[r][a]
             \/ /\ agentMsg[r][a].at \in {"ready", "held"}
                /\ agentMsg'[r][a] = Redelivered(agentMsg[r][a])
    /\ UNCHANGED <<jobStatus, latest, report, done, expected, epoch, analysis, wakeups>>
    /\ mishaps < MaxMishaps /\ mishaps' = mishaps + 1

LEMMA WorkerMoves ==
  ASSUME TypeOK, OneRunInv, WorkerNext
  PROVE  WorkerGone \/ \E a \in Agents : TaskMoves(a) /\ TaskFrame(a)
  <1>1. CASE WorkerCrash
    BY <1>1 DEF WorkerCrash, Mishap, WorkerGone, jobVars, countVars, keyVars
  <1>2. QED
    BY <1>1, TaskStep DEF WorkerNext

LEMMA RedeliveredMessage ==
  ASSUME NEW m \in Message
  PROVE  /\ Redelivered(m).at \in {"ready", "dead"}
         /\ Redelivered(m).at = "dead" => m.tries >= DeliveryLimit
         /\ Redelivered(m).tries \in Nat /\ Redelivered(m).tries <= m.tries + 1
  BY BoundAssumption DEF Redelivered, Message

\* Rows are only added, one at a time and for agents that were dispatched.
LEMMA WorkerFrameAlone ==
  ASSUME TypeOK, OneRunInv, RowsInv, WorkerNext, UNCHANGED <<gatewayVars, orchVars, synVars>>
  PROVE  /\ OneRunInv' /\ Dispatched' = Dispatched
         /\ UNCHANGED <<jobStatus, report, expected, analysis>>
         /\ \/ AgentsWithRow' = AgentsWithRow
            \/ \E a \in Dispatched : AgentsWithRow' = AgentsWithRow \cup {a}
         /\ \A a \in Agents : latest[a].st # "none" => latest'[a].st # "none"
  <1> USE RequestAssumption DEF gatewayVars, orchVars
  <1>1. /\ agentMsg \in [Reqs -> [Agents -> Message]] /\ latest \in [Agents -> Rows]
    BY DEF TypeOK, TypeOKShared
  <1>2. CASE WorkerGone
    <2>1. \A r \in Reqs, a \in Agents :
             /\ task'[r][a].pc = "idle"
             /\ (agentMsg'[r][a].at = "unsent") <=> (agentMsg[r][a].at = "unsent")
      BY <1>1, <1>2, RedeliveredMessage DEF WorkerGone, IdleTask
    <2>2. UNCHANGED <<jobStatus, latest, report, expected, epoch, analysis, orch, req>>
      BY <1>2 DEF WorkerGone
    <2>3. OneRunInv'
      BY <2>1, <2>2 DEF OneRunInv, OtherRunsIdle
    <2>4. QED
      BY <2>1, <2>2, <2>3 DEF Dispatched, AgentsWithRow
  <1>3. ASSUME NEW a \in Agents, TaskMoves(a), TaskFrame(a)
        PROVE  /\ OneRunInv' /\ Dispatched' = Dispatched
               /\ UNCHANGED <<jobStatus, report, expected, analysis>>
               /\ \/ AgentsWithRow' = AgentsWithRow
                  \/ \E b \in Dispatched : AgentsWithRow' = AgentsWithRow \cup {b}
               /\ \A b \in Agents : latest[b].st # "none" => latest'[b].st # "none"
    <2>1. agentMsg[FirstReq][a].at # "unsent"
      <3>1. task[FirstReq][a].pc # "idle" => a \in Dispatched
        BY DEF RowsInv
      <3>2. QED
        BY <1>3, <3>1, DispatchedByFirst DEF TaskFrame
    <2>2. a \in Dispatched
      BY <2>1 DEF Dispatched
    <2>3. \A r \in Reqs, b \in Agents :
             /\ r # FirstReq => task'[r][b] = task[r][b]
             /\ (agentMsg'[r][b].at = "unsent") <=> (agentMsg[r][b].at = "unsent")
      BY <1>3, <2>1 DEF TaskFrame, TaskMoves
    <2>4. OneRunInv'
      BY <1>3, <2>3 DEF OneRunInv, OtherRunsIdle, TaskFrame
    <2>5. Dispatched' = Dispatched
      BY <2>3 DEF Dispatched
    <2>6. CASE UNCHANGED latest
      BY <1>3, <2>4, <2>5, <2>6 DEF TaskFrame, AgentsWithRow
    <2>7. CASE latest' = [latest EXCEPT ![a] = Row(task[FirstReq][a].ok, FirstReq)]
      <3>1. /\ latest'[a].st # "none"
            /\ \A b \in Agents \ {a} : latest'[b] = latest[b]
        BY <1>1, <2>7 DEF Row
      <3>2. AgentsWithRow' = AgentsWithRow \cup {a}
        BY <3>1 DEF AgentsWithRow
      <3>3. QED
        BY <1>3, <2>2, <2>4, <2>5, <3>1, <3>2 DEF TaskFrame
    <2>8. QED
      BY <1>3, <2>6, <2>7 DEF TaskFrame
  <1>4. QED
    BY <1>2, <1>3, WorkerMoves

\* A set of rows only grows.
LEMMA RowsCounted ==
  ASSUME TypeOK, TypeOK', AgentsWithRow \subseteq AgentsWithRow'
  PROVE  /\ Cardinality(AgentsWithRow) \in Nat /\ Cardinality(AgentsWithRow') \in Nat
         /\ Cardinality(AgentsWithRow) <= Cardinality(AgentsWithRow')
  <1>1. AgentsWithRow \in SUBSET Agents /\ AgentsWithRow' \in SUBSET Agents
    BY DEF AgentsWithRow
  <1>2. IsFiniteSet(AgentsWithRow')
    BY <1>1, AgentsFinite, FS_Subset
  <1>3. QED
    BY <1>1, <1>2, CountIsNat, FS_Subset

LEMMA CountedRows ==
  ASSUME TypeOK, CountInv
  PROVE  Cardinality(done) \in Nat /\ Cardinality(done) <= Cardinality(AgentsWithRow)
  <1>1. done \subseteq AgentsWithRow /\ AgentsWithRow \in SUBSET Agents /\ done \in SUBSET Agents
    BY DEF CountInv, CountedHasRow, AgentsWithRow, TypeOK, TypeOKShared
  <1>2. IsFiniteSet(AgentsWithRow)
    BY <1>1, AgentsFinite, FS_Subset
  <1>3. QED
    BY <1>1, <1>2, CountIsNat, FS_Subset

LEMMA WorkerKeepsRun ==
  ASSUME TypeOK, TypeOK', CountInv, RunInv, WorkerNext,
         UNCHANGED <<gatewayVars, orchVars, synVars>>
  PROVE  RunInv'
  <1> USE DEF RunInv
  <1>1. /\ OneRunInv' /\ Dispatched' = Dispatched
        /\ UNCHANGED <<expected, analysis, orch, syn>>
        /\ \/ AgentsWithRow' = AgentsWithRow
           \/ \E a \in Dispatched : AgentsWithRow' = AgentsWithRow \cup {a}
    BY WorkerFrameAlone DEF orchVars, synVars
  <1>2. HandlerInv'
    BY <1>1 DEF HandlerInv
  <1>3. /\ AgentsWithRow \subseteq AgentsWithRow' /\ AgentsWithRow' \subseteq Dispatched
        /\ expected' # {} => Dispatched' \subseteq expected'
    BY <1>1 DEF RowsInv
  <1>4. /\ Cardinality(AgentsWithRow) \in Nat /\ Cardinality(AgentsWithRow') \in Nat
        /\ Cardinality(AgentsWithRow) <= Cardinality(AgentsWithRow')
    BY <1>3, RowsCounted
  <1>5. /\ task \in [Reqs -> [Agents -> Task]] /\ syn \in [Callers -> Call]
        /\ \A a \in Agents : task[FirstReq][a].cnt \in Nat
        /\ \A s \in Callers : syn[s].cnt \in Nat
        /\ wakeups \in Nat
    BY RequestAssumption DEF TypeOK, TypeOKShared, TypeOKWorker, TypeOKSyn, Task, Call
  <1>6. \A s \in Callers : syn'[s].pc = "sweepExpected" => syn'[s].cnt <= Cardinality(AgentsWithRow')
    <2>1. SUFFICES ASSUME NEW s \in Callers, syn[s].pc = "sweepExpected"
                   PROVE  syn[s].cnt <= Cardinality(AgentsWithRow')
      BY <1>1
    <2>2. syn[s].cnt <= Cardinality(AgentsWithRow)
      BY <2>1 DEF RowsInv
    <2>3. QED
      BY <1>4, <1>5, <2>2
  <1>7. Decided' = Decided
    BY <1>1 DEF Decided
  <1>8. CASE WorkerGone
    <2>1. \A a \in Agents : task'[FirstReq][a].pc = "idle"
      BY <1>8, RequestAssumption DEF WorkerGone, IdleTask
    <2>2. UNCHANGED wakeups
      BY <1>8 DEF WorkerGone
    <2>3. QED
      BY <1>1, <1>2, <1>3, <1>6, <1>7, <2>1, <2>2 DEF RowsInv
  <1>9. ASSUME NEW a \in Agents, TaskMoves(a), TaskFrame(a) PROVE RunInv'
    <2>1. a \in Dispatched
      BY <1>9, DispatchedByFirst DEF TaskFrame, RowsInv
    <2>2. \A b \in Agents \ {a} : task'[FirstReq][b] = task[FirstReq][b]
      BY <1>9, RequestAssumption DEF TaskFrame
    <2>3. task'[FirstReq][a].pc = "compare" => task'[FirstReq][a].cnt = Cardinality(done)
      BY <1>9 DEF TaskMoves
    <2>4. \A b \in Agents : task'[FirstReq][b].pc # "idle" => b \in Dispatched'
      BY <1>1, <2>1, <2>2 DEF RowsInv
    <2>5. ASSUME NEW b \in Agents, task'[FirstReq][b].pc = "compare"
          PROVE  task'[FirstReq][b].cnt <= Cardinality(AgentsWithRow')
      <3>1. CASE b = a
        BY <1>4, <2>3, <2>5, <3>1, CountedRows
      <3>2. CASE b # a
        <4>1. task'[FirstReq][b] = task[FirstReq][b]
          BY <2>2, <3>2
        <4>2. task[FirstReq][b].cnt <= Cardinality(AgentsWithRow)
          BY <2>5, <4>1 DEF RowsInv
        <4>3. QED
          BY <1>4, <1>5, <4>1, <4>2
      <3>3. QED
        BY <3>1, <3>2
    <2>6. QED
      BY <1>1, <1>2, <1>3, <1>6, <1>7, <2>1, <2>4, <2>5 DEF RowsInv
  <1>10. QED
    BY <1>8, <1>9, WorkerMoves

\* The wakeup a handler publishes, the decision it takes: all agents are in.
LEMMA EnoughCounted ==
  ASSUME TypeOK, RunInv, expected # {}, NEW n \in Nat,
         n <= Cardinality(AgentsWithRow), n >= Cardinality(expected)
  PROVE  AllIn
  <1>1. /\ AgentsWithRow \subseteq Dispatched /\ Dispatched \subseteq expected /\ expected \in SUBSET Agents
    BY DEF RunInv, RowsInv, TypeOK, TypeOKShared
  <1>2. IsFiniteSet(expected) /\ IsFiniteSet(AgentsWithRow)
    BY <1>1, AgentsFinite, FS_Subset
  <1>3. Cardinality(expected) \in Nat /\ Cardinality(AgentsWithRow) \in Nat
    BY <1>2, FS_CardinalityType
  <1>4. AgentsWithRow = expected
    BY <1>1, <1>2, <1>3, FS_Subset
  <1>5. QED
    BY <1>1, <1>4 DEF AllIn

LEMMA WorkerKeepsAllIn ==
  ASSUME TypeOK, TypeOK', RunInv, AllInInv, WorkerNext, UNCHANGED <<gatewayVars, orchVars, synVars>>
  PROVE  AllInInv'
  <1>1. /\ Dispatched' = Dispatched /\ UNCHANGED <<report, expected, syn>>
        /\ AgentsWithRow \subseteq AgentsWithRow'
    BY WorkerFrameAlone DEF RunInv, synVars
  <1>2. AllIn => AllIn'
    BY <1>1 DEF AllIn
  <1>3. Decided' = Decided /\ Composing' = Composing /\ HasReport' = HasReport
        /\ CompleteReport' = CompleteReport
    BY <1>1 DEF Decided, Composing, HasReport, CompleteReport
  <1>4. CASE WorkerGone
    <2>1. \A a \in Agents : task'[FirstReq][a].pc = "idle"
      BY <1>4, RequestAssumption DEF WorkerGone, IdleTask
    <2>2. UNCHANGED wakeups
      BY <1>4 DEF WorkerGone
    <2>3. QED
      BY <1>1, <1>2, <1>3, <2>1, <2>2 DEF AllInInv
  <1>5. ASSUME NEW a \in Agents, TaskMoves(a), TaskFrame(a) PROVE AllInInv'
    <2>1. \A b \in Agents \ {a} : task'[FirstReq][b] = task[FirstReq][b]
      BY <1>5, RequestAssumption DEF TaskFrame
    <2>2. task'[FirstReq][a].pc = "notify" => AllIn
      <3>1. SUFFICES ASSUME task'[FirstReq][a].pc = "notify" PROVE AllIn
        OBVIOUS
      <3>2. task[FirstReq][a].pc = "compare" /\ task[FirstReq][a].cnt >= Cardinality(expected)
        BY <1>5, <3>1 DEF TaskMoves
      <3>3. task[FirstReq][a].cnt \in Nat /\ a \in Dispatched
            /\ task[FirstReq][a].cnt <= Cardinality(AgentsWithRow)
        BY <3>2, RequestAssumption DEF RunInv, RowsInv, TypeOK, TypeOKWorker, Task
      <3>4. CASE expected = {}
        BY <3>3, <3>4 DEF AllInInv
      <3>5. CASE expected # {}
        BY <3>2, <3>3, <3>5, EnoughCounted
      <3>6. QED
        BY <3>4, <3>5
    <2>3. wakeups' > 0 => AllIn
      BY <1>5 DEF TaskFrame, AllInInv
    <2>4. QED
      BY <1>1, <1>2, <1>3, <2>1, <2>2, <2>3 DEF AllInInv
  <1>6. QED
    BY <1>4, <1>5, WorkerMoves DEF RunInv

(***************************************************************************)
(* What one step of a call of the synthesizer does.                        *)
(***************************************************************************)
CallMoves(s) ==
    LET old == syn[s]
        new == syn'[s]
        undecided == {"idle", "sweepDone", "sweepExpected", "sweepRows"}
    IN
    /\ new.pc = "sweepExpected" => new.cnt = Cardinality(done)
    /\ new.pc = "sweepRows" => "slowSweep" \in Mishaps
    /\ new.pc \notin undecided =>
          \/ old.pc \notin undecided
          \/ wakeups > 0
          \/ old.pc = "sweepRows" /\ AgentsWithRow # {}
          \/ old.pc = "sweepExpected" /\ expected = {} /\ AgentsWithRow # {}
          \/ old.pc = "sweepExpected" /\ expected # {} /\ old.cnt >= Cardinality(expected)
    /\ new.pc = "compose" => old.pc = "load" /\ new.input = latest
    /\ new.pc = "create" => old.pc = "compose" /\ new.input = old.input

\* What it does to the rest of the run.
CallFrame(s) ==
    LET old == syn[s] IN
    /\ \A t \in Callers \ {s} : syn'[t] = syn[t]
    /\ UNCHANGED <<latest, epoch, analysis, agentMsg>>
    /\ \/ UNCHANGED <<done, expected>>
       \/ old.pc \in {"cleanup", "noneCleanup", "failCleanup"} /\ done' = {} /\ expected' = {}
    /\ \/ UNCHANGED report
       \/ old.pc = "create" /\ ~HasReport /\ report' = old.input /\ UNCHANGED jobStatus
    /\ \/ UNCHANGED jobStatus
       \/ old.pc = "finish" /\ jobStatus' = "done"
       \/ old.pc \in {"noneStatus", "failStatus"} /\ jobStatus' = "failed"
    /\ wakeups' \in Nat /\ wakeups' <= wakeups
    /\ mishaps' \in {mishaps, mishaps + 1}

LEMMA CallStep ==
  ASSUME TypeOK, NEW s \in Callers, SynStep(s) \/ SynError(s)
  PROVE  CallMoves(s) /\ CallFrame(s)
  <1> USE DEF sharedVars, jobVars, countVars, keyVars, queueVars
  <1>1. syn \in [Callers -> Call] /\ syn[s] \in Call /\ wakeups \in Nat /\ expected \in SUBSET Agents
    BY DEF TypeOK, TypeOKShared, TypeOKSyn
  <1>2. Cardinality(expected) = 0 <=> expected = {}
    BY <1>1, AgentsFinite, FS_Subset, FS_EmptySet
  <1> DEFINE old == syn[s]
             elsewhere == \A t \in Callers \ {s} : syn'[t] = syn[t]
  <1>3. ASSUME NEW c, SetCall(s, c) PROVE syn'[s] = c /\ elsewhere
    BY <1>1, <1>3 DEF SetCall
  <1>4. \A pc : [old EXCEPT !.pc = pc].pc = pc /\ [old EXCEPT !.pc = pc].input = old.input
                /\ [IdleCall EXCEPT !.pc = pc].pc = pc
    BY <1>1 DEF Call, IdleCall
  <1>5. ASSUME NEW pc, SynGoto(s, pc)
        PROVE  syn'[s].pc = pc /\ syn'[s].input = old.input /\ elsewhere
    <2>1. syn'[s] = [old EXCEPT !.pc = pc] /\ elsewhere
      BY <1>3, <1>5 DEF SynGoto
    <2>2. QED
      BY <1>4, <2>1
  <1>6. ASSUME NEW pc, SetCall(s, [IdleCall EXCEPT !.pc = pc])
        PROVE  syn'[s].pc = pc /\ elsewhere
    BY <1>3, <1>4, <1>6
  <1>7. CASE SweepStart(s)
    <2>1. syn'[s].pc = "sweepDone" /\ elsewhere
      BY <1>5, <1>7 DEF SweepStart
    <2>2. QED
      BY <1>1, <1>7, <2>1 DEF SweepStart, CallMoves, CallFrame
  <1>8. CASE SweepReadDone(s)
    <2>1. syn'[s] = [old EXCEPT !.pc = "sweepExpected", !.cnt = Cardinality(done)] /\ elsewhere
      BY <1>3, <1>8 DEF SweepReadDone
    <2>2. syn'[s].pc = "sweepExpected" /\ syn'[s].cnt = Cardinality(done)
      BY <1>1, <2>1 DEF Call
    <2>3. QED
      BY <1>1, <1>8, <2>1, <2>2 DEF SweepReadDone, CallMoves, CallFrame
  <1>9. CASE SweepReadExpected(s)
    <2>1. PICK pc \in {"sweepRows", "claim", "idle"} :
             /\ SetCall(s, [IdleCall EXCEPT !.pc = pc])
             /\ pc = "sweepRows" => "slowSweep" \in Mishaps
             /\ pc = "claim" => IF Cardinality(expected) = 0 THEN StalledByRows
                                ELSE old.cnt >= Cardinality(expected)
      BY <1>9 DEF SweepReadExpected
    <2>2. syn'[s].pc = pc /\ elsewhere
      BY <1>6, <2>1
    <2>3. QED
      BY <1>1, <1>2, <1>9, <2>1, <2>2 DEF SweepReadExpected, StalledByRows, CallMoves, CallFrame
  <1>10. CASE SweepCountRows(s)
    <2>1. syn'[s].pc = (IF StalledByRows THEN "claim" ELSE "idle") /\ elsewhere
      BY <1>5, <1>10 DEF SweepCountRows
    <2>2. QED
      BY <1>1, <1>10, <2>1 DEF SweepCountRows, StalledByRows, CallMoves, CallFrame
  <1>11. CASE Wake(s) \/ SweepClaim(s)
    <2>1. syn'[s].pc = (IF lock THEN "idle" ELSE "hasReport") /\ elsewhere
      BY <1>5, <1>11 DEF Wake, SweepClaim, Claim
    <2>2. UNCHANGED <<jobVars, countVars, epoch, queueVars, mishaps>>
      BY <1>11 DEF Wake, SweepClaim, Claim
    <2>3. wakeups > 0 \/ old.pc = "claim"
      BY <1>11 DEF Wake, SweepClaim
    <2>4. wakeups' \in Nat /\ wakeups' <= wakeups
      BY <1>1, <1>11 DEF Wake, SweepClaim
    <2>5. QED
      BY <2>1, <2>2, <2>3, <2>4 DEF CallMoves, CallFrame
  <1>12. CASE CheckReport(s)
    <2>1. syn'[s].pc = (IF HasReport THEN "idle" ELSE "cancelled") /\ elsewhere
      BY <1>5, <1>12 DEF CheckReport
    <2>2. QED
      BY <1>1, <1>12, <2>1 DEF CheckReport, CallMoves, CallFrame
  <1>13. CASE CheckCancelled(s)
    <2>1. syn'[s].pc = (IF jobStatus = "cancelled" THEN "idle" ELSE "load") /\ elsewhere
      BY <1>5, <1>13 DEF CheckCancelled
    <2>2. QED
      BY <1>1, <1>13, <2>1 DEF CheckCancelled, CallMoves, CallFrame
  <1>14. CASE LoadRows(s)
    <2>1. CASE SetCall(s, [IdleCall EXCEPT !.pc = "compose", !.input = latest])
      <3>1. syn'[s] = [IdleCall EXCEPT !.pc = "compose", !.input = latest] /\ elsewhere
        BY <1>3, <2>1
      <3>2. syn'[s].pc = "compose" /\ syn'[s].input = latest
        BY <3>1 DEF IdleCall
      <3>3. QED
        BY <1>1, <1>14, <3>1, <3>2 DEF LoadRows, CallMoves, CallFrame
    <2>2. CASE SetCall(s, [IdleCall EXCEPT !.pc = "noneStatus"])
      <3>1. syn'[s].pc = "noneStatus" /\ elsewhere
        BY <1>6, <2>2
      <3>2. QED
        BY <1>1, <1>14, <3>1 DEF LoadRows, CallMoves, CallFrame
    <2>3. QED
      BY <1>14, <2>1, <2>2 DEF LoadRows
  <1>15. CASE Compose(s)
    <2>1. CASE SynGoto(s, "create")
      <3>1. syn'[s].pc = "create" /\ syn'[s].input = old.input /\ elsewhere
        BY <1>5, <2>1
      <3>2. QED
        BY <1>1, <1>15, <3>1 DEF Compose, CallMoves, CallFrame
    <2>2. CASE SetCall(s, [IdleCall EXCEPT !.pc = "failStatus"])
      <3>1. syn'[s].pc = "failStatus" /\ elsewhere
        BY <1>6, <2>2
      <3>2. QED
        BY <1>1, <1>15, <3>1 DEF Compose, CallMoves, CallFrame
    <2>3. QED
      BY <1>15, <2>1, <2>2 DEF Compose
  <1>16. CASE CreateReport(s)
    <2>1. syn'[s].pc = (IF HasReport THEN "failStatus" ELSE "finish") /\ elsewhere
      BY <1>6, <1>16 DEF CreateReport
    <2>2. QED
      BY <1>1, <1>16, <2>1 DEF CreateReport, CallMoves, CallFrame
  <1>17. CASE Finish(s)
    <2>1. syn'[s].pc = "cleanup" /\ elsewhere
      BY <1>5, <1>17 DEF Finish
    <2>2. QED
      BY <1>1, <1>17, <2>1 DEF Finish, CallMoves, CallFrame
  <1>18. CASE FailJob(s)
    <2>1. syn'[s].pc = (IF old.pc = "noneStatus" THEN "noneCleanup" ELSE "failCleanup") /\ elsewhere
      BY <1>5, <1>18 DEF FailJob
    <2>2. QED
      BY <1>1, <1>18, <2>1 DEF FailJob, CallMoves, CallFrame
  <1>19. CASE Cleanup(s)
    <2>1. syn'[s].pc = "idle" /\ elsewhere
      BY <1>3, <1>19 DEF Cleanup, SynLeave, IdleCall
    <2>2. QED
      BY <1>1, <1>19, <2>1 DEF Cleanup, CallMoves, CallFrame
  <1>20. CASE SynError(s)
    <2>1. CASE /\ old.pc \in InTry
               /\ SetCall(s, [IdleCall EXCEPT !.pc = "failStatus"])
      <3>1. syn'[s].pc = "failStatus" /\ elsewhere
        BY <1>6, <2>1
      <3>2. QED
        BY <1>1, <1>20, <2>1, <3>1 DEF SynError, InTry, Mishap, CallMoves, CallFrame
    <2>2. CASE SetCall(s, IdleCall)
      <3>1. syn'[s].pc = "idle" /\ elsewhere
        BY <1>3, <2>2 DEF IdleCall
      <3>2. QED
        BY <1>1, <1>20, <3>1 DEF SynError, Mishap, CallMoves, CallFrame
    <2>3. QED
      BY <1>20, <2>1, <2>2 DEF SynError
  <1>21. QED
    BY <1>7, <1>8, <1>9, <1>10, <1>11, <1>12, <1>13, <1>14, <1>15, <1>16, <1>17, <1>18,
       <1>19, <1>20 DEF SynStep

\* What the synthesizer does when no call makes a step: its calls and the
\* wakeups are lost with it, or the lock expires.
CallsGone ==
    /\ \/ \A s \in Callers : syn'[s] = IdleCall
       \/ UNCHANGED syn
    /\ wakeups' \in {0, wakeups}
    /\ UNCHANGED <<latest, epoch, analysis, agentMsg, done, expected, report, jobStatus>>
    /\ mishaps' \in {mishaps, mishaps + 1}

LEMMA SynMoves ==
  ASSUME TypeOK, SynNext
  PROVE  CallsGone \/ \E s \in Callers : CallMoves(s) /\ CallFrame(s)
  <1>1. CASE LockExpires \/ SynCrash
    BY <1>1 DEF LockExpires, SynCrash, Mishap, CallsGone, jobVars, countVars, keyVars, queueVars
  <1>2. QED
    BY <1>1, CallStep DEF SynNext

LEMMA SynFrameAlone ==
  ASSUME TypeOK, OneRunInv, SynNext, UNCHANGED <<gatewayVars, orchVars, workerVars>>
  PROVE  /\ OneRunInv' /\ Dispatched' = Dispatched /\ AgentsWithRow' = AgentsWithRow
         /\ UNCHANGED <<latest, analysis, agentMsg>>
         /\ \/ UNCHANGED <<done, expected>>
            \/ Decided # {} /\ done' = {} /\ expected' = {}
         /\ mishaps' \in {mishaps, mishaps + 1}
  <1>1. /\ UNCHANGED <<latest, epoch, analysis, agentMsg>> /\ mishaps' \in {mishaps, mishaps + 1}
        /\ \/ UNCHANGED <<done, expected>>
           \/ Decided # {} /\ done' = {} /\ expected' = {}
    BY SynMoves DEF CallsGone, CallFrame, Decided
  <1>2. OneRunInv'
    BY <1>1 DEF OneRunInv, OtherRunsIdle, gatewayVars, orchVars, workerVars
  <1>3. QED
    BY <1>1, <1>2 DEF Dispatched, AgentsWithRow

LEMMA SynKeepsRun ==
  ASSUME TypeOK, CountInv, RunInv, SynNext, UNCHANGED <<gatewayVars, orchVars, workerVars>>
  PROVE  RunInv'
  <1> USE DEF RunInv
  <1>1. /\ OneRunInv' /\ Dispatched' = Dispatched /\ AgentsWithRow' = AgentsWithRow
        /\ UNCHANGED <<latest, analysis, agentMsg, orch, task>>
        /\ UNCHANGED expected \/ (Decided # {} /\ expected' = {})
    BY SynFrameAlone DEF orchVars, workerVars
  <1>2. Decided # {} => Dispatched # {}
    BY DEF RowsInv
  <1>3. HandlerInv'
    BY <1>1, <1>2 DEF HandlerInv
  <1>4. wakeups \in Nat
    BY DEF TypeOK, TypeOKShared
  <1>5. CASE CallsGone
    <2>1. Decided' \subseteq Decided
      BY <1>5 DEF CallsGone, Decided, IdleCall
    <2>2. \A s \in Callers : syn'[s].pc = "sweepExpected" => syn'[s] = syn[s]
      BY <1>5 DEF CallsGone, IdleCall
    <2>3. wakeups' > 0 => wakeups > 0
      BY <1>4, <1>5 DEF CallsGone
    <2>4. QED
      BY <1>1, <1>3, <2>1, <2>2, <2>3 DEF RowsInv
  <1>6. ASSUME NEW s \in Callers, CallMoves(s), CallFrame(s) PROVE RunInv'
    <2>1. \A t \in Callers \ {s} : syn'[t] = syn[t]
      BY <1>6 DEF CallFrame
    <2>2. wakeups' > 0 => wakeups > 0
      BY <1>4, <1>6 DEF CallFrame
    <2>3. syn'[s].pc = "sweepExpected" => syn'[s].cnt <= Cardinality(AgentsWithRow)
      BY <1>6, CountedRows DEF CallMoves
    <2>4. s \in Decided' => Dispatched # {}
      <3>1. SUFFICES ASSUME s \in Decided' PROVE Decided # {} \/ wakeups > 0 \/ AgentsWithRow # {}
        BY DEF RowsInv
      <3>2. CASE syn[s].pc = "sweepExpected" /\ expected # {} /\ syn[s].cnt >= Cardinality(expected)
        <4>1. syn[s].cnt \in Nat /\ syn[s].cnt <= Cardinality(AgentsWithRow)
          BY <3>2 DEF RowsInv, TypeOK, TypeOKSyn, Call
        <4>2. IsFiniteSet(expected) /\ Cardinality(expected) \in Nat /\ Cardinality(expected) # 0
          BY <3>2, AgentsFinite, FS_Subset, FS_CardinalityType, FS_EmptySet DEF TypeOK, TypeOKShared
        <4>3. Cardinality(AgentsWithRow) \in Nat /\ AgentsWithRow \in SUBSET Agents
          BY CountIsNat DEF AgentsWithRow
        <4>4. AgentsWithRow # {}
          BY <3>2, <4>1, <4>2, <4>3, FS_EmptySet
        <4>5. QED
          BY <4>4
      <3>3. QED
        BY <1>6, <3>1, <3>2 DEF CallMoves, Decided
    <2>5. Decided' \subseteq Decided \cup {s}
      BY <2>1 DEF Decided
    <2>6. wakeups' > 0 \/ Decided' # {} => Dispatched # {}
      BY <2>2, <2>4, <2>5 DEF RowsInv
    <2>7. QED
      BY <1>1, <1>3, <2>1, <2>3, <2>6 DEF RowsInv
  <1>7. QED
    BY <1>5, <1>6, SynMoves

LEMMA SynKeepsAllIn ==
  ASSUME TypeOK, TypeOK', RunInv, AllInInv, "slowSweep" \notin Mishaps, SynNext,
         UNCHANGED <<gatewayVars, orchVars, workerVars>>
  PROVE  AllInInv'
  <1>1. /\ Dispatched' = Dispatched /\ AgentsWithRow' = AgentsWithRow
        /\ UNCHANGED <<latest, task>>
        /\ UNCHANGED expected \/ (Decided # {} /\ expected' = {})
    BY SynFrameAlone DEF RunInv, workerVars
  <1>2. AllIn' = AllIn
    BY <1>1 DEF AllIn
  <1>3. (expected' = {} /\ Dispatched' # {}) => AllIn
    BY <1>1 DEF AllInInv
  <1>4. wakeups \in Nat /\ syn \in [Callers -> Call]
    BY DEF TypeOK, TypeOKShared, TypeOKSyn
  <1>5. CASE CallsGone
    <2>1. Decided' \subseteq Decided /\ Composing' \subseteq Composing
      BY <1>5 DEF CallsGone, Decided, Composing, IdleCall
    <2>2. \A s \in Callers : syn'[s] = syn[s] \/ syn'[s].pc = "idle"
      BY <1>5 DEF CallsGone, IdleCall
    <2>3. wakeups' > 0 => wakeups > 0
      BY <1>4, <1>5 DEF CallsGone
    <2>4. HasReport' = HasReport /\ CompleteReport' = CompleteReport
      BY <1>1, <1>5 DEF CallsGone, HasReport, CompleteReport
    <2>5. \A s \in Composing' : syn'[s] = syn[s]
      BY <2>2 DEF Composing
    <2>6. QED
      BY <1>1, <1>2, <1>3, <2>1, <2>2, <2>3, <2>4, <2>5 DEF AllInInv
  <1>6. ASSUME NEW s \in Callers, CallMoves(s), CallFrame(s) PROVE AllInInv'
    <2>1. \A t \in Callers \ {s} : syn'[t] = syn[t]
      BY <1>6 DEF CallFrame
    <2>2. wakeups' > 0 => wakeups > 0
      BY <1>4, <1>6 DEF CallFrame
    <2>3. s \in Decided' => AllIn
      <3>1. SUFFICES ASSUME s \in Decided' PROVE AllIn
        OBVIOUS
      <3>2. CASE Decided # {} \/ wakeups > 0
        BY <3>2 DEF AllInInv
      <3>3. CASE syn[s].pc = "sweepExpected" /\ expected = {} /\ AgentsWithRow # {}
        BY <3>3 DEF AllInInv, RunInv, RowsInv
      <3>4. CASE syn[s].pc = "sweepExpected" /\ expected # {} /\ syn[s].cnt >= Cardinality(expected)
        <4>1. syn[s].cnt \in Nat /\ syn[s].cnt <= Cardinality(AgentsWithRow)
          BY <3>4, <1>4 DEF RunInv, RowsInv, Call
        <4>2. QED
          BY <3>4, <4>1, EnoughCounted
      <3>5. syn[s].pc # "sweepRows"
        BY DEF AllInInv
      <3>6. QED
        BY <1>6, <3>1, <3>2, <3>3, <3>4, <3>5 DEF CallMoves, Decided
    <2>4. Decided' \subseteq Decided \cup {s}
      BY <2>1 DEF Decided
    <2>5. syn'[s].pc # "sweepRows"
      BY <1>6 DEF CallMoves
    <2>6. \A t \in Composing' : \A a \in Dispatched' : syn'[t].input[a].st # "none"
      <3>1. SUFFICES ASSUME NEW t \in Composing', NEW a \in Dispatched
                     PROVE  syn'[t].input[a].st # "none"
        BY <1>1
      <3>2. CASE t # s
        BY <2>1, <3>2 DEF AllInInv, Composing
      <3>3. CASE t = s /\ syn'[s].pc = "compose"
        <4>1. syn[s].pc = "load" /\ syn'[s].input = latest
          BY <1>6, <3>3 DEF CallMoves
        <4>2. AllIn
          BY <4>1 DEF AllInInv, Decided
        <4>3. QED
          BY <3>3, <4>1, <4>2 DEF AllIn, AgentsWithRow
      <3>4. CASE t = s /\ syn'[s].pc = "create"
        <4>1. syn[s].pc = "compose" /\ syn'[s].input = syn[s].input
          BY <1>6, <3>4 DEF CallMoves
        <4>2. QED
          BY <3>4, <4>1 DEF AllInInv, Composing
      <3>5. QED
        BY <3>2, <3>3, <3>4 DEF Composing
    <2>7. (HasReport' => AllIn) /\ CompleteReport'
      <3>1. CASE UNCHANGED report
        BY <1>1, <3>1 DEF AllInInv, HasReport, CompleteReport
      <3>2. CASE syn[s].pc = "create" /\ report' = syn[s].input
        <4>1. s \in Decided /\ s \in Composing
          BY <3>2 DEF Decided, Composing
        <4>2. QED
          BY <1>1, <3>2, <4>1 DEF AllInInv, CompleteReport
      <3>3. QED
        BY <1>6, <3>1, <3>2 DEF CallFrame
    <2>8. QED
      BY <1>1, <1>2, <1>3, <2>1, <2>2, <2>3, <2>4, <2>5, <2>6, <2>7 DEF AllInInv
  <1>7. QED
    BY <1>5, <1>6, SynMoves

(***************************************************************************)
(* The run of a job its user leaves alone, and its report.                 *)
(***************************************************************************)
LEMMA RunInit == Init => RunInv
  <1> SUFFICES ASSUME Init PROVE RunInv
    OBVIOUS
  <1>1. OneRunInv
    BY OneRunInit
  <1>2. /\ Dispatched = {} /\ AgentsWithRow = {} /\ expected = {} /\ wakeups = 0
        /\ analysis[FirstReq].at = "unsent"
    BY RequestAssumption DEF Init, InitShared, Dispatched, AgentsWithRow, NoRow
  <1>3. /\ orch[FirstReq].pc = "idle"
        /\ \A a \in Agents : task[FirstReq][a].pc = "idle"
        /\ \A s \in Callers : syn[s].pc = "idle"
    BY RequestAssumption DEF Init, InitOrch, InitWorker, InitSyn, IdleOrch, IdleTask, IdleCall
  <1>4. Decided = {}
    BY <1>3 DEF Decided
  <1>5. QED
    BY <1>1, <1>2, <1>3, <1>4 DEF RunInv, HandlerInv, RowsInv

LEMMA AllInInit == Init => AllInInv
  <1> SUFFICES ASSUME Init PROVE AllInInv
    OBVIOUS
  <1>1. Dispatched = {} /\ wakeups = 0 /\ ~HasReport
    BY DEF Init, InitShared, Dispatched, HasReport
  <1>2. /\ \A a \in Agents : task[FirstReq][a].pc = "idle"
        /\ \A s \in Callers : syn[s].pc = "idle"
    BY RequestAssumption DEF Init, InitWorker, InitSyn, IdleTask, IdleCall
  <1>3. Decided = {} /\ Composing = {}
    BY <1>2 DEF Decided, Composing
  <1>4. QED
    BY <1>1, <1>2, <1>3 DEF AllInInv, CompleteReport

\* Before the dispatch nothing waits for the agents.
LEMMA NothingYet ==
  ASSUME RunInv, Dispatched = {}
  PROVE  /\ \A a \in Agents : task[FirstReq][a].pc = "idle" /\ agentMsg[FirstReq][a].at = "unsent"
         /\ AgentsWithRow = {} /\ ~(wakeups > 0) /\ Decided = {}
  BY DispatchedByFirst DEF RunInv, RowsInv

LEMMA GatewayKeepsRun ==
  ASSUME LeftAlone, TypeOK, RunInv, GatewayNext, UNCHANGED <<orchVars, workerVars, synVars>>
  PROVE  RunInv'
  <1> USE DEF RunInv
  <1>1. /\ OneRunInv'
        /\ UNCHANGED <<jobVars, countVars, agentMsg, wakeups, orch, task, syn>>
        /\ analysis'[FirstReq].at \in {analysis[FirstReq].at, "ready"}
        /\ analysis'[FirstReq].at # analysis[FirstReq].at => analysis[FirstReq].at = "unsent"
    BY GatewayLeftAlone DEF orchVars, workerVars, synVars
  <1>2. Dispatched' = Dispatched /\ AgentsWithRow' = AgentsWithRow /\ Decided' = Decided
    BY <1>1 DEF Dispatched, AgentsWithRow, Decided, jobVars
  <1>3. HandlerInv'
    <2>1. orch[FirstReq].pc \in OrchPCs
      BY RequestAssumption DEF TypeOK, TypeOKOrch, OrchHandler
    <2>2. QED
      BY <1>1, <1>2, <2>1 DEF HandlerInv, countVars, OrchPCs
  <1>4. RowsInv'
    BY <1>1, <1>2 DEF RowsInv, countVars
  <1>5. QED
    BY <1>1, <1>3, <1>4

LEMMA OrchKeepsRun ==
  ASSUME TypeOK, RunInv, OrchNext, UNCHANGED <<gatewayVars, workerVars, synVars>>
  PROVE  RunInv'
  <1> USE DEF RunInv
  <1>1. /\ OneRunInv' /\ HandlerInv'
        /\ UNCHANGED <<latest, wakeups, task, syn>>
        /\ \/ UNCHANGED <<expected, agentMsg>>
           \/ orch[FirstReq].pc = "select" /\ UNCHANGED agentMsg
           \/ /\ orch[FirstReq].pc = "dispatch" /\ UNCHANGED expected
              /\ Dispatched' \subseteq expected
    BY OrchLeftAlone DEF workerVars, synVars
  <1>2. AgentsWithRow' = AgentsWithRow /\ Decided' = Decided
    BY <1>1 DEF AgentsWithRow, Decided
  <1>3. CASE UNCHANGED <<expected, agentMsg>>
    <2>1. Dispatched' = Dispatched
      BY <1>3 DEF Dispatched
    <2>2. QED
      BY <1>1, <1>2, <1>3, <2>1 DEF RowsInv
  <1>4. CASE Dispatched = {} /\ (expected' # {} => Dispatched' \subseteq expected')
    BY <1>1, <1>2, <1>4, NothingYet DEF RowsInv
  <1>5. CASE orch[FirstReq].pc = "select" /\ UNCHANGED agentMsg
    <2>1. Dispatched = {} /\ Dispatched' = Dispatched
      BY <1>5 DEF HandlerInv, Dispatched
    <2>2. QED
      BY <1>4, <2>1
  <1>6. CASE orch[FirstReq].pc = "dispatch" /\ UNCHANGED expected /\ Dispatched' \subseteq expected
    BY <1>4, <1>6 DEF HandlerInv
  <1>7. QED
    BY <1>1, <1>3, <1>5, <1>6

LEMMA RunStep ==
  ASSUME LeftAlone
  PROVE  TypeOK /\ TypeOK' /\ CountInv /\ RunInv /\ [Next]_vars => RunInv'
  <1> SUFFICES ASSUME TypeOK, TypeOK', CountInv, RunInv, [Next]_vars PROVE RunInv'
    OBVIOUS
  <1>1. CASE UNCHANGED <<latest, report, sharedVars, gatewayVars, orchVars, workerVars, synVars>>
             \/ (Age /\ UNCHANGED <<gatewayVars, orchVars, workerVars, synVars>>)
    <2>1. UNCHANGED <<latest, epoch, expected, analysis, agentMsg, wakeups, req, orch, task, syn>>
      BY <1>1 DEF Age, sharedVars, countVars, keyVars, queueVars, gatewayVars, orchVars, workerVars, synVars
    <2>2. Dispatched' = Dispatched /\ AgentsWithRow' = AgentsWithRow /\ Decided' = Decided
      BY <2>1 DEF Dispatched, AgentsWithRow, Decided
    <2>3. QED
      BY <2>1, <2>2 DEF RunInv, OneRunInv, OtherRunsIdle, HandlerInv, RowsInv
  <1>2. CASE UNCHANGED vars
    BY <1>1, <1>2 DEF vars, sharedVars, jobVars
  <1>3. QED
    BY <1>1, <1>2, GatewayKeepsRun, OrchKeepsRun, WorkerKeepsRun, SynKeepsRun DEF Next

LEMMA AllInStep ==
  ASSUME LeftAlone, "slowSweep" \notin Mishaps
  PROVE  TypeOK /\ TypeOK' /\ RunInv /\ AllInInv /\ [Next]_vars => AllInInv'
  <1> SUFFICES ASSUME TypeOK, TypeOK', RunInv, AllInInv, [Next]_vars PROVE AllInInv'
    OBVIOUS
  <1>1. ASSUME UNCHANGED <<latest, report, expected, agentMsg, wakeups, task, syn>>
        PROVE  AllInInv'
    <2>1. /\ Dispatched' = Dispatched /\ AgentsWithRow' = AgentsWithRow /\ Decided' = Decided
          /\ Composing' = Composing /\ HasReport' = HasReport /\ CompleteReport' = CompleteReport
      BY <1>1 DEF Dispatched, AgentsWithRow, Decided, Composing, HasReport, CompleteReport
    <2>2. QED
      BY <1>1, <2>1 DEF AllInInv, AllIn
  <1>2. CASE GatewayNext /\ UNCHANGED <<orchVars, workerVars, synVars>>
    BY <1>1, <1>2, GatewayLeftAlone DEF RunInv, jobVars, countVars, workerVars, synVars
  <1>3. CASE OrchNext /\ UNCHANGED <<gatewayVars, workerVars, synVars>>
    <2>1. /\ UNCHANGED <<latest, report, wakeups, task, syn>>
          /\ \/ UNCHANGED <<expected, agentMsg>>
             \/ orch[FirstReq].pc = "select" /\ UNCHANGED agentMsg
             \/ orch[FirstReq].pc = "dispatch" /\ UNCHANGED expected
      BY <1>3, OrchLeftAlone DEF RunInv, workerVars, synVars
    <2>2. CASE orch[FirstReq].pc \in {"select", "dispatch"}
      <3>1. /\ Dispatched = {}
            /\ (orch[FirstReq].pc = "select" /\ Dispatched' = {}) \/ expected' # {}
        BY <2>1, <2>2 DEF RunInv, HandlerInv, Dispatched
      <3>2. /\ Decided = {} /\ Composing = {} /\ ~(wakeups > 0) /\ ~HasReport
            /\ \A a \in Agents : task[FirstReq][a].pc # "notify"
        BY <3>1 DEF AllInInv, AllIn, Composing, Decided
      <3>3. Decided' = {} /\ Composing' = {} /\ ~HasReport'
        BY <2>1, <3>2 DEF Decided, Composing, HasReport
      <3>4. QED
        BY <2>1, <3>1, <3>2, <3>3 DEF AllInInv, CompleteReport
    <2>3. QED
      BY <1>1, <2>1, <2>2
  <1>4. CASE WorkerNext /\ UNCHANGED <<gatewayVars, orchVars, synVars>>
    BY <1>4, WorkerKeepsAllIn
  <1>5. CASE SynNext /\ UNCHANGED <<gatewayVars, orchVars, workerVars>>
    BY <1>5, SynKeepsAllIn
  <1>6. CASE Age /\ UNCHANGED <<gatewayVars, orchVars, workerVars, synVars>>
    BY <1>1, <1>6 DEF Age, countVars, queueVars, workerVars, synVars
  <1>7. CASE UNCHANGED vars
    BY <1>1, <1>7 DEF vars, sharedVars, jobVars, countVars, queueVars, workerVars, synVars
  <1>8. QED
    BY <1>2, <1>3, <1>4, <1>5, <1>6, <1>7 DEF Next

LEMMA CountInvariant == Spec => []CountInv
  <1>1. TypeOK /\ CountInv /\ [Next]_vars => CountInv'
    BY CountStep
  <1>2. QED
    BY CountInit, TypeCorrect, <1>1, PTL DEF Spec

LEMMA RunInvariant == ASSUME LeftAlone PROVE Spec => []RunInv
  <1>1. TypeOK /\ TypeOK' /\ CountInv /\ RunInv /\ [Next]_vars => RunInv'
    BY RunStep
  <1>2. QED
    BY RunInit, TypeCorrect, CountInvariant, <1>1, PTL DEF Spec

LEMMA AllInInvariant ==
  ASSUME LeftAlone, "slowSweep" \notin Mishaps PROVE Spec => []AllInInv
  <1>1. TypeOK /\ TypeOK' /\ RunInv /\ AllInInv /\ [Next]_vars => AllInInv'
    BY AllInStep
  <1>2. QED
    BY AllInInit, TypeCorrect, RunInvariant, <1>1, PTL DEF Spec

\* The report of a job its user leaves alone covers every agent that was
\* dispatched, for any number of agents, wakeups, sweeps and syntheses, and
\* whatever is lost, redelivered, crashes or fails, as long as the event loop of
\* a sweep is not blocked between its two reads (slowSweep).
THEOREM ReportIsComplete ==
  ASSUME LeftAlone, "slowSweep" \notin Mishaps PROVE Spec => []CompleteReport
  <1>1. AllInInv => CompleteReport
    BY DEF AllInInv
  <1>2. QED
    BY AllInInvariant, <1>1, PTL

(***************************************************************************)
(* The barrier.                                                            *)
(***************************************************************************)
\* How the orchestrator changes the status of the job.
LEMMA OrchStatus ==
  ASSUME OneRunInv, OrchNext
  PROVE  \/ UNCHANGED jobStatus
         \/ orch[FirstReq].pc = "mark" /\ jobStatus' = "running"
         \/ (orch[FirstReq].pc = "fail" \/ analysis[FirstReq].at = "dead") /\ jobStatus' = "failed"
  <1> USE DEF sharedVars, jobVars
  <1>1. CASE OrchCrash \/ \E r \in Reqs : OrchError(r)
    BY <1>1 DEF OrchCrash, OrchError
  <1>2. ASSUME NEW r \in Reqs, OrchStep(r)
        PROVE  \/ UNCHANGED jobStatus
               \/ orch[r].pc = "mark" /\ jobStatus' = "running"
               \/ (orch[r].pc = "fail" \/ analysis[r].at = "dead") /\ jobStatus' = "failed"
    BY <1>2 DEF OrchStep, Receive, FenceAnalysis, MarkRunning, AckAnalysis, Index, SetGraphPath,
           SelectAndExpect, Dispatch, MarkFailed, AnalysisDlq
  <1>3. \A r \in Reqs \ {FirstReq} : orch[r].pc = "idle" /\ analysis[r].at = "unsent"
    BY DEF OneRunInv, OtherRunsIdle
  <1>4. QED
    BY <1>1, <1>2, <1>3 DEF OrchNext

LEMMA FailedInit == Init => FailedInv
  BY RequestAssumption DEF Init, InitShared, InitOrch, FailedInv, IdleOrch

LEMMA OrchKeepsFailed ==
  ASSUME NotRerun, TypeOK, RunInv, FailedInv, OrchNext
  PROVE  FailedInv'
  <1> USE RequestAssumption DEF sharedVars, jobVars, queueVars
  <1> DEFINE F == FirstReq
  <1>1. /\ analysis \in [Reqs -> AnalysisMessage] /\ orch \in [Reqs -> OrchHandler]
        /\ analysis[F] \in AnalysisMessage /\ orch[F] \in OrchHandler
    BY DEF TypeOK, TypeOKShared, TypeOKOrch
  <1>2. \A pc : [orch[F] EXCEPT !.pc = pc].pc = pc
    BY <1>1 DEF OrchHandler
  <1>3. ASSUME NEW pc, OrchGoto(F, pc) PROVE orch'[F].pc = pc
    <2>1. orch'[F] = [orch[F] EXCEPT !.pc = pc]
      BY <1>1, <1>3 DEF OrchGoto, SetOrch
    <2>2. QED
      BY <1>2, <2>1
  <1>4. ASSUME OrchLeave(F) PROVE orch'[F].pc = "idle"
    BY <1>1, <1>4 DEF OrchLeave, SetOrch, IdleOrch
  <1>5. CASE OrchCrash
    <2>1. /\ orch'[F].pc = "idle" /\ UNCHANGED jobStatus /\ "orchCrash" \in Mishaps
          /\ analysis'[F] = IF analysis[F].at = "held" THEN Redelivered(analysis[F]) ELSE analysis[F]
      BY <1>5 DEF OrchCrash, Mishap, IdleOrch
    <2>2. QED
      BY <2>1 DEF FailedInv
  <1>6. ASSUME NEW r \in Reqs, OrchError(r) PROVE FailedInv'
    <2>1. r = F
      BY <1>6 DEF RunInv, OneRunInv, OtherRunsIdle, OrchError
    <2>2. orch'[F].pc \in {"idle", "fail"} /\ orch[F].pc # "idle"
      BY <1>3, <1>4, <1>6, <2>1 DEF OrchError
    <2>3. UNCHANGED <<jobStatus, analysis>> /\ "orchError" \in Mishaps
      BY <1>6 DEF OrchError, Mishap
    <2>4. QED
      BY <2>2, <2>3 DEF FailedInv
  <1>7. ASSUME NEW r \in Reqs, OrchStep(r) PROVE FailedInv'
    <2>1. r = F
      BY <1>7 DEF RunInv, OneRunInv, OtherRunsIdle, OrchStep, Receive, FenceAnalysis, MarkRunning,
             AckAnalysis, Index, SetGraphPath, SelectAndExpect, Dispatch, MarkFailed, AnalysisDlq
    <2> USE <2>1 DEF RunInv, HandlerInv
    <2>2. CASE Receive(F)
      <3>1. orch'[F].pc = "fence" /\ UNCHANGED jobStatus /\ analysis[F].at = "ready"
        BY <1>3, <2>2 DEF Receive
      <3>2. QED
        BY <3>1 DEF FailedInv
    <2>3. CASE FenceAnalysis(F)
      <3>1. ~Stale(F)
        BY NobodyStale
      <3>2. orch[F].pc = "fence" /\ orch'[F].pc = "mark" /\ UNCHANGED jobStatus
        BY <1>3, <2>3, <3>1 DEF FenceAnalysis
      <3>3. QED
        BY <3>2 DEF FailedInv
    <2>4. CASE MarkRunning(F)
      <3>1. orch'[F].pc = "ack" /\ jobStatus' = "running"
        BY <1>3, <2>4 DEF MarkRunning
      <3>2. QED
        BY <3>1 DEF FailedInv
    <2>5. CASE AckAnalysis(F)
      <3>1. orch[F].pc = "ack" /\ orch'[F].pc = "index" /\ UNCHANGED jobStatus
        BY <1>3, <2>5 DEF AckAnalysis
      <3>2. QED
        BY <3>1 DEF FailedInv
    <2>6. CASE Index(F)
      <3>1. /\ orch[F].pc = "index" /\ orch'[F].pc \in {"path", "fail"}
            /\ UNCHANGED <<jobStatus, analysis>>
        BY <1>3, <2>6 DEF Index
      <3>2. QED
        BY <3>1 DEF FailedInv
    <2>7. CASE SetGraphPath(F)
      <3>1. orch[F].pc = "path" /\ orch'[F].pc = "select" /\ UNCHANGED jobStatus
        BY <1>3, <2>7 DEF SetGraphPath
      <3>2. QED
        BY <3>1 DEF FailedInv
    <2>8. CASE SelectAndExpect(F)
      <3>1. \A sel : SetOrch(F, [pc |-> "dispatch", sel |-> sel]) => orch'[F].pc = "dispatch"
        BY <1>1 DEF SetOrch
      <3>2. orch[F].pc = "select" /\ orch'[F].pc = "dispatch" /\ UNCHANGED jobStatus
        BY <2>8, <3>1 DEF SelectAndExpect
      <3>3. QED
        BY <3>2 DEF FailedInv
    <2>9. CASE Dispatch(F)
      <3>1. orch[F].pc = "dispatch" /\ orch'[F].pc = "idle" /\ UNCHANGED jobStatus
        BY <1>4, <2>9 DEF Dispatch
      <3>2. QED
        BY <3>1 DEF FailedInv
    <2>10. CASE MarkFailed(F)
      <3>1. orch[F].pc = "fail" /\ orch'[F].pc = "idle" /\ UNCHANGED analysis
        BY <1>4, <2>10 DEF MarkFailed
      <3>2. QED
        BY <3>1 DEF FailedInv, NotRerun
    <2>11. CASE AnalysisDlq(F)
      <3>1. analysis[F].at = "dead" /\ UNCHANGED orch
            /\ analysis'[F] = [analysis[F] EXCEPT !.at = "settled", !.tries = 0]
        BY <1>1, <2>11 DEF AnalysisDlq, SettleAnalysis, MoveAnalysis
      <3>2. analysis'[F].at = "settled" /\ orch[F].pc = "idle"
        BY <1>1, <3>1 DEF AnalysisMessage, OrchHandler, OrchPCs
      <3>3. QED
        BY <3>1, <3>2 DEF FailedInv
    <2>12. QED
      BY <1>7, <2>2, <2>3, <2>4, <2>5, <2>6, <2>7, <2>8, <2>9, <2>10, <2>11 DEF OrchStep
  <1>8. QED
    BY <1>5, <1>6, <1>7 DEF OrchNext

LEMMA FailedStep ==
  ASSUME LeftAlone, NotRerun
  PROVE  TypeOK /\ RunInv /\ FailedInv /\ [Next]_vars => FailedInv'
  <1> SUFFICES ASSUME TypeOK, RunInv, FailedInv, [Next]_vars PROVE FailedInv'
    OBVIOUS
  <1>1. ASSUME UNCHANGED <<analysis, orch>>, jobStatus' = "failed" => jobStatus = "failed"
        PROVE  FailedInv'
    BY <1>1 DEF FailedInv
  <1>2. CASE GatewayNext /\ UNCHANGED <<orchVars, workerVars, synVars>>
    <2>1. /\ UNCHANGED <<jobStatus, orch>>
          /\ analysis'[FirstReq].at # analysis[FirstReq].at =>
                analysis[FirstReq].at = "unsent" /\ analysis'[FirstReq].at = "ready"
      BY <1>2, GatewayLeftAlone DEF RunInv, jobVars, orchVars
    <2>2. analysis[FirstReq].at = "unsent" => orch[FirstReq].pc = "idle"
      BY RequestAssumption DEF RunInv, HandlerInv, TypeOK, TypeOKOrch, OrchHandler, OrchPCs
    <2>3. QED
      BY <2>1, <2>2 DEF FailedInv
  <1>3. CASE OrchNext /\ UNCHANGED <<gatewayVars, workerVars, synVars>>
    BY <1>3, OrchKeepsFailed
  <1>4. CASE WorkerNext /\ UNCHANGED <<gatewayVars, orchVars, synVars>>
    BY <1>1, <1>4, WorkerFrameAlone DEF RunInv, orchVars
  <1>5. CASE SynNext /\ UNCHANGED <<gatewayVars, orchVars, workerVars>>
    <2>1. UNCHANGED <<analysis, orch>>
      BY <1>5, SynFrameAlone DEF RunInv, orchVars
    <2>2. jobStatus' \in {jobStatus, "done"} \/ Decided # {}
      BY <1>5, SynMoves DEF CallsGone, CallFrame, Decided
    <2>3. Decided # {} => orch[FirstReq].pc = "idle" /\ analysis[FirstReq].at = "settled"
      BY DEF RunInv, RowsInv, HandlerInv
    <2>4. QED
      BY <2>1, <2>2, <2>3 DEF FailedInv
  <1>6. CASE Age /\ UNCHANGED <<gatewayVars, orchVars, workerVars, synVars>>
    BY <1>1, <1>6 DEF Age, queueVars, orchVars
  <1>7. CASE UNCHANGED vars
    BY <1>1, <1>7 DEF vars, sharedVars, jobVars, queueVars, orchVars
  <1>8. QED
    BY <1>2, <1>3, <1>4, <1>5, <1>6, <1>7 DEF Next

LEMMA FailedInvariant == ASSUME LeftAlone, NotRerun PROVE Spec => []FailedInv
  <1>1. TypeOK /\ RunInv /\ FailedInv /\ [Next]_vars => FailedInv'
    BY FailedStep
  <1>2. QED
    BY FailedInit, TypeCorrect, RunInvariant, <1>1, PTL DEF Spec

LEMMA BarrierInit == Init => BarrierSpec!Init
  <1> SUFFICES ASSUME Init PROVE BarrierSpec!Init
    OBVIOUS
  <1>1. Dispatched = {} /\ AgentsWithRow = {} /\ ~HasReport /\ jobStatus = "pending"
    BY DEF Init, InitShared, Dispatched, AgentsWithRow, NoRow, HasReport
  <1>2. QED
    BY <1>1 DEF BarrierSpec!Init, Concluded

\* Every step of the pipeline is a step of the barrier or changes nothing of it.
LEMMA BarrierStep ==
  ASSUME LeftAlone
  PROVE  TypeOK /\ RunInv /\ AllInInv /\ FailedInv /\ ReportInv /\ [Next]_vars
            => [BarrierSpec!Next]_(BarrierSpec!vars)
  <1> SUFFICES ASSUME TypeOK, RunInv, AllInInv, FailedInv, ReportInv, [Next]_vars
               PROVE  BarrierSpec!Next \/ UNCHANGED <<Dispatched, AgentsWithRow, Concluded>>
    BY DEF BarrierSpec!vars
  <1> USE DEF RunInv
  <1>1. ASSUME UNCHANGED <<latest, report, jobStatus, agentMsg>>
        PROVE  UNCHANGED <<Dispatched, AgentsWithRow, Concluded>>
    BY <1>1 DEF Dispatched, AgentsWithRow, Concluded, HasReport
  <1>2. CASE GatewayNext /\ UNCHANGED <<orchVars, workerVars, synVars>>
    BY <1>1, <1>2, GatewayLeftAlone DEF jobVars
  <1>3. CASE OrchNext /\ UNCHANGED <<gatewayVars, workerVars, synVars>>
    <2>1. /\ UNCHANGED <<latest, report>>
          /\ UNCHANGED agentMsg \/ (orch[FirstReq].pc = "dispatch" /\ Dispatched' \subseteq expected)
      BY <1>3, OrchLeftAlone
    <2>2. AgentsWithRow' = AgentsWithRow /\ HasReport' = HasReport
      BY <2>1 DEF AgentsWithRow, HasReport
    <2>3. HasReport => Dispatched # {}
      BY DEF AllInInv, AllIn
    <2>4. CASE UNCHANGED <<jobStatus, agentMsg>>
      BY <1>1, <2>1, <2>4
    <2>5. CASE UNCHANGED jobStatus /\ orch[FirstReq].pc = "dispatch"
      <3>1. Dispatched = {} /\ ~HasReport /\ jobStatus # "failed"
        BY <2>3, <2>5 DEF HandlerInv, FailedInv
      <3>2. Concluded = "none" /\ Concluded' = "none"
        BY <2>2, <2>5, <3>1 DEF Concluded
      <3>3. Dispatched' \in SUBSET Agents
        BY DEF Dispatched
      <3>4. CASE Dispatched' = {}
        BY <2>2, <3>1, <3>2, <3>4
      <3>5. CASE Dispatched' # {}
        <4>1. BarrierSpec!Dispatch
          BY <2>2, <3>1, <3>2, <3>3, <3>5 DEF BarrierSpec!Dispatch
        <4>2. QED
          BY <4>1 DEF BarrierSpec!Next
      <3>6. QED
        BY <3>4, <3>5
    <2>6. CASE UNCHANGED agentMsg /\ orch[FirstReq].pc = "mark" /\ jobStatus' = "running"
      <3>1. Dispatched = {} /\ ~HasReport /\ jobStatus # "failed" /\ Dispatched' = Dispatched
        BY <2>3, <2>6 DEF HandlerInv, FailedInv, Dispatched
      <3>2. QED
        BY <2>2, <2>6, <3>1 DEF Concluded
    <2>7. CASE /\ UNCHANGED agentMsg /\ jobStatus' = "failed"
               /\ orch[FirstReq].pc = "fail" \/ analysis[FirstReq].at = "dead"
      <3>1. Dispatched = {} /\ ~HasReport /\ Dispatched' = Dispatched
        BY <2>3, <2>7 DEF HandlerInv, Dispatched
      <3>2. QED
        BY <2>2, <2>7, <3>1 DEF Concluded, BarrierSpec!Next, BarrierSpec!Abort
    <2>8. orch[FirstReq].pc = "dispatch" => analysis[FirstReq].at = "settled"
      BY DEF HandlerInv
    <2>9. QED
      BY <1>3, <2>1, <2>4, <2>5, <2>6, <2>7, <2>8, OrchStatus
  <1>4. CASE WorkerNext /\ UNCHANGED <<gatewayVars, orchVars, synVars>>
    <2>1. /\ Dispatched' = Dispatched /\ UNCHANGED <<jobStatus, report>>
          /\ \/ AgentsWithRow' = AgentsWithRow
             \/ \E a \in Dispatched : AgentsWithRow' = AgentsWithRow \cup {a}
      BY <1>4, WorkerFrameAlone
    <2>2. Concluded' = Concluded
      BY <2>1 DEF Concluded, HasReport
    <2>3. Dispatched \subseteq Agents
      BY DEF Dispatched
    <2>4. QED
      BY <2>1, <2>2, <2>3 DEF BarrierSpec!Next, BarrierSpec!Report
  <1>5. CASE SynNext /\ UNCHANGED <<gatewayVars, orchVars, workerVars>>
    <2>1. Dispatched' = Dispatched /\ AgentsWithRow' = AgentsWithRow
      BY <1>5, SynFrameAlone
    <2>2. CASE UNCHANGED <<report, jobStatus>>
      BY <2>1, <2>2 DEF Concluded, HasReport
    <2>3. ASSUME NEW s \in Callers, CallFrame(s)
          PROVE  BarrierSpec!Next \/ UNCHANGED <<Dispatched, AgentsWithRow, Concluded>>
      <3>1. CASE UNCHANGED report /\ syn[s].pc = "finish" /\ jobStatus' = "done"
        <4>1. HasReport /\ HasReport'
          BY <3>1 DEF ReportInv, HasReport
        <4>2. QED
          BY <2>1, <4>1 DEF Concluded
      <3>2. CASE UNCHANGED report /\ syn[s].pc \in {"noneStatus", "failStatus"} /\ jobStatus' = "failed"
        <4>1. AllIn /\ HasReport' = HasReport
          BY <3>2 DEF AllInInv, Decided, HasReport
        <4>2. QED
          BY <2>1, <3>2, <4>1 DEF AllIn, Concluded, BarrierSpec!Next, BarrierSpec!Conclude
      <3>3. CASE syn[s].pc = "create" /\ ~HasReport /\ report' = syn[s].input
        <4>1. AllIn
          BY <3>3 DEF AllInInv, Decided
        <4>2. HasReport'
          BY <3>3, SuccessIsReport DEF ReportInv, HasReport
        <4>3. QED
          BY <2>1, <3>3, <4>1, <4>2 DEF AllIn, Concluded, BarrierSpec!Next, BarrierSpec!Conclude
      <3>4. QED
        BY <2>2, <2>3, <3>1, <3>2, <3>3 DEF CallFrame
    <2>4. QED
      BY <1>5, <2>2, <2>3, SynMoves DEF CallsGone
  <1>6. CASE Age /\ UNCHANGED <<gatewayVars, orchVars, workerVars, synVars>>
    BY <1>1, <1>6 DEF Age, queueVars
  <1>7. CASE UNCHANGED vars
    BY <1>1, <1>7 DEF vars, sharedVars, jobVars, queueVars
  <1>8. QED
    BY <1>2, <1>3, <1>4, <1>5, <1>6, <1>7 DEF Next

\* The pipeline of a job its user leaves alone implements the barrier: agents are
\* dispatched once, only those report, the job concludes only when all of them
\* have, and a report is final.  Every fault may happen but a sweep blocked
\* between its reads (slowSweep) and, in one run, both an error of the
\* orchestrator and its crash, which would run a failed job again.
THEOREM PipelineIsBarrier ==
  ASSUME LeftAlone, NotRerun, "slowSweep" \notin Mishaps PROVE Spec => ImplementsBarrier
  <1>1. TypeOK /\ RunInv /\ AllInInv /\ FailedInv /\ ReportInv /\ [Next]_vars
           => [BarrierSpec!Next]_(BarrierSpec!vars)
    BY BarrierStep
  <1>2. QED
    BY BarrierInit, TypeCorrect, RunInvariant, AllInInvariant, FailedInvariant, ReportInvariant,
       <1>1, PTL DEF Spec, ImplementsBarrier, BarrierSpec!Spec

(***************************************************************************)
(* The acknowledged messages.                                              *)
(***************************************************************************)
LEMMA AckInit == Init => AckInv
  BY RequestAssumption DEF Init, InitShared, InitWorker, AckInv, MessageInv, IdleTask

\* A crash dead-letters a message only on its second delivery at the earliest.
LEMMA CrashKeepsAck ==
  ASSUME FewFaults, TypeOK, RunInv, AckInv, WorkerGone
  PROVE  AckInv'
  <1> USE RequestAssumption
  <1>1. SUFFICES ASSUME NEW a \in Agents
                 PROVE  LET m == agentMsg'[FirstReq][a]
                            t == task'[FirstReq][a]
                        IN  /\ t = IdleTask
                            /\ m.at = "settled" => CountedOrCleared(a)
                            /\ m.at = "dead" => CountedOrCleared(a) \/ "workerError" \notin Mishaps \/ mishaps' >= 2
                            /\ m.tries <= mishaps'
    BY DEF WorkerGone, AckInv, MessageInv, CountedOrCleared, IdleTask
  <1> DEFINE m == agentMsg[FirstReq][a]
  <1>2. m \in Message /\ mishaps \in Nat /\ m.tries \in Nat
    BY DEF TypeOK, TypeOKShared, Message
  <1>3. /\ m.tries <= mishaps
        /\ m.at = "settled" => CountedOrCleared(a)
        /\ m.at = "dead" => CountedOrCleared(a) \/ "workerError" \notin Mishaps \/ mishaps >= 2
    BY DEF AckInv, MessageInv
  <1>4. task'[FirstReq][a] = IdleTask /\ mishaps' = mishaps + 1
    BY DEF WorkerGone
  <1>5. CASE agentMsg'[FirstReq][a] = m
    BY <1>2, <1>3, <1>4, <1>5
  <1>6. CASE agentMsg'[FirstReq][a] = Redelivered(m)
    <2>1. /\ Redelivered(m).at \in {"ready", "dead"}
          /\ Redelivered(m).at = "dead" => m.tries >= DeliveryLimit
          /\ Redelivered(m).tries \in Nat /\ Redelivered(m).tries <= m.tries + 1
      BY <1>2, RedeliveredMessage
    <2>2. DeliveryLimit \in Nat
      BY BoundAssumption
    <2>3. QED
      BY <1>2, <1>3, <1>4, <1>6, <2>1, <2>2 DEF FewFaults
  <1>7. QED
    BY <1>4, <1>5, <1>6 DEF WorkerGone

LEMMA TaskKeepsAck ==
  ASSUME FewFaults, TypeOK, TypeOK', RunInv, AckInv, NEW a \in Agents, TaskMoves(a), TaskFrame(a)
  PROVE  AckInv'
  <1> USE RequestAssumption
  <1>1. /\ mishaps \in Nat /\ mishaps' \in {mishaps, mishaps + 1} /\ MaxMishaps \in Nat
        /\ \A b \in Agents : agentMsg[FirstReq][b].tries \in Nat
        /\ agentMsg'[FirstReq][a].tries \in Nat
        /\ task[FirstReq][a].mode \in Modes
    BY BoundAssumption DEF TypeOK, TypeOKShared, TypeOKWorker, Message, Task, TaskFrame
  <1>2. \A b \in Agents : CountedOrCleared(b) => CountedOrCleared(b)'
    BY DEF TaskFrame, CountedOrCleared
  <1>3. ASSUME NEW b \in Agents, b # a
        PROVE  task'[FirstReq][b] = task[FirstReq][b] /\ agentMsg'[FirstReq][b] = agentMsg[FirstReq][b]
    BY <1>3 DEF TaskFrame
  <1> DEFINE old == task[FirstReq][a]
             new == task'[FirstReq][a]
             msg == agentMsg[FirstReq][a]
             msgNow == agentMsg'[FirstReq][a]
             failing == "workerError" \in Mishaps /\ mishaps < MaxMishaps /\ mishaps' = mishaps + 1
  <1>4. /\ msg.at = "settled" => CountedOrCleared(a)
        /\ old.pc \in {"tally", "compare", "notify"} => CountedOrCleared(a)
        /\ old.pc = "settle" => CountedOrCleared(a) \/ (old.mode = "infra" /\ mishaps >= 2)
        /\ msg.at = "dead" => CountedOrCleared(a) \/ "workerError" \notin Mishaps \/ mishaps >= 2
        /\ msg.tries <= mishaps
        /\ old.mode = "infra" => mishaps >= 1 /\ "workerError" \in Mishaps
        /\ old.pc = "idle" => old.mode = "normal"
        /\ old.mode = "dlq" => msg.at = "dead"
    BY DEF AckInv, MessageInv
  <1>5. msgNow.at = "settled" => CountedOrCleared(a)'
    BY <1>2, <1>4 DEF TaskMoves
  <1>6. new.pc \in {"tally", "compare", "notify"} => CountedOrCleared(a)'
    <2>1. new.pc = "tally" => CountedOrCleared(a)'
      BY DEF TaskMoves, CountedOrCleared
    <2>2. QED
      BY <1>2, <1>4, <2>1 DEF TaskMoves
  <1>7. new.pc = "settle" => CountedOrCleared(a)' \/ (new.mode = "infra" /\ mishaps' >= 2)
    <2>1. SUFFICES ASSUME new.pc = "settle"
                   PROVE  CountedOrCleared(a)' \/ (new.mode = "infra" /\ mishaps' >= 2)
      OBVIOUS
    <2>2. /\ new.mode = old.mode
          /\ old.pc \in {"compare", "notify"} \/ (old.mode # "normal" /\ failing)
      BY <2>1 DEF TaskMoves
    <2>3. CASE old.pc \in {"compare", "notify"}
      BY <1>2, <1>4, <2>3
    <2>4. CASE old.mode = "infra" /\ failing
      BY <1>1, <1>4, <2>2, <2>4
    <2>5. CASE old.mode = "dlq" /\ failing
      \* The third fault of a run, which FewFaults excludes.
      <3>1. CountedOrCleared(a) \/ mishaps >= 2
        BY <1>4, <2>5
      <3>2. ~(mishaps >= 2)
        BY <1>1, <2>5 DEF FewFaults
      <3>3. QED
        BY <1>2, <3>1, <3>2
    <2>6. QED
      BY <1>1, <2>2, <2>3, <2>4, <2>5 DEF Modes
  <1>8. msgNow.at = "dead" => CountedOrCleared(a)' \/ "workerError" \notin Mishaps \/ mishaps' >= 2
    <2>1. SUFFICES ASSUME msgNow.at = "dead"
                   PROVE  CountedOrCleared(a)' \/ "workerError" \notin Mishaps \/ mishaps' >= 2
      OBVIOUS
    <2>2. msg.at = "dead" \/ (old.pc = "settle" /\ old.mode = "infra")
      BY <2>1 DEF TaskMoves
    <2>3. CountedOrCleared(a) \/ "workerError" \notin Mishaps \/ mishaps >= 2
      BY <1>4, <2>2
    <2>4. QED
      BY <1>1, <1>2, <2>3
  <1>9. msgNow.tries <= mishaps'
    BY <1>1, <1>4 DEF TaskMoves
  <1>10. new.mode = "infra" => mishaps' >= 1 /\ "workerError" \in Mishaps
    BY <1>1, <1>4 DEF TaskMoves
  <1>11. /\ new.pc = "idle" => new.mode = "normal"
         /\ new.mode = "dlq" => msgNow.at = "dead"
    BY <1>4 DEF TaskMoves
  <1>12. ASSUME NEW b \in Agents, b # a
         PROVE  MessageInv(agentMsg'[FirstReq][b], task'[FirstReq][b], CountedOrCleared(b)', mishaps')
    <2>1. mishaps' >= mishaps
      BY <1>1
    <2>2. MessageInv(agentMsg[FirstReq][b], task[FirstReq][b], CountedOrCleared(b), mishaps)
      BY DEF AckInv
    <2>3. MessageInv(agentMsg[FirstReq][b], task[FirstReq][b], CountedOrCleared(b)', mishaps')
      BY <1>1, <1>2, <2>1, <2>2 DEF MessageInv
    <2>4. QED
      BY <1>3, <1>12, <2>3
  <1>13. MessageInv(msgNow, new, CountedOrCleared(a)', mishaps')
    BY <1>5, <1>6, <1>7, <1>8, <1>9, <1>10, <1>11 DEF MessageInv
  <1>14. QED
    BY <1>12, <1>13 DEF AckInv

LEMMA AckStep ==
  ASSUME LeftAlone, FewFaults
  PROVE  TypeOK /\ TypeOK' /\ RunInv /\ AckInv /\ [Next]_vars => AckInv'
  <1> SUFFICES ASSUME TypeOK, TypeOK', RunInv, AckInv, [Next]_vars PROVE AckInv'
    OBVIOUS
  <1> USE RequestAssumption DEF RunInv
  <1>1. /\ mishaps \in Nat
        /\ \A a \in Agents : agentMsg[FirstReq][a].tries \in Nat
    BY DEF TypeOK, TypeOKShared, Message
  \* A step of another process that does not count an agent out.
  <1>2. ASSUME UNCHANGED <<agentMsg, task>>, mishaps' \in {mishaps, mishaps + 1},
               \A a \in Agents : CountedOrCleared(a) => CountedOrCleared(a)'
        PROVE  AckInv'
    <2>1. mishaps' >= mishaps
      BY <1>1, <1>2
    <2>2. ASSUME NEW a \in Agents
          PROVE  MessageInv(agentMsg[FirstReq][a], task[FirstReq][a], CountedOrCleared(a)', mishaps')
      <3>1. MessageInv(agentMsg[FirstReq][a], task[FirstReq][a], CountedOrCleared(a), mishaps)
        BY DEF AckInv
      <3>2. QED
        BY <1>1, <1>2, <2>1, <3>1 DEF MessageInv
    <2>3. QED
      BY <1>2, <2>2 DEF AckInv
  <1>3. UNCHANGED <<done, expected>> => \A a \in Agents : CountedOrCleared(a) => CountedOrCleared(a)'
    BY DEF CountedOrCleared
  <1>4. CASE GatewayNext /\ UNCHANGED <<orchVars, workerVars, synVars>>
    <2>1. UNCHANGED <<done, expected, agentMsg, task>>
      BY <1>4, GatewayLeftAlone DEF countVars, workerVars
    <2>2. mishaps' \in {mishaps, mishaps + 1}
      BY <1>4 DEF GatewayNext, GatewayStep, RetryRead, CancelRead, StopRead, RetryResults, RetryUncount,
                  RetryEpoch, BumpEpoch, Wipe, ResetStatus, Emit, GatewayCrash, Mishap, sharedVars
    <2>3. QED
      BY <1>2, <1>3, <2>1, <2>2
  <1>5. CASE OrchNext /\ UNCHANGED <<gatewayVars, workerVars, synVars>>
    <2>1. /\ UNCHANGED <<done, task>> /\ mishaps' \in {mishaps, mishaps + 1}
          /\ \/ UNCHANGED <<expected, agentMsg>>
             \/ orch[FirstReq].pc = "select" /\ UNCHANGED agentMsg
             \/ /\ orch[FirstReq].pc = "dispatch" /\ UNCHANGED expected
                /\ \A a \in Agents : \/ agentMsg'[FirstReq][a] = agentMsg[FirstReq][a]
                                     \/ agentMsg'[FirstReq][a] = [at |-> "ready", tries |-> 0]
      BY <1>5, OrchLeftAlone DEF workerVars
    <2>2. CASE orch[FirstReq].pc \in {"select", "dispatch"}
      <3>1. \A a \in Agents : task[FirstReq][a].pc = "idle" /\ agentMsg[FirstReq][a].at = "unsent"
        BY <2>2, NothingYet DEF HandlerInv
      <3>2. \A a \in Agents : /\ agentMsg'[FirstReq][a].at \in {"unsent", "ready"}
                              /\ agentMsg'[FirstReq][a].tries \in {agentMsg[FirstReq][a].tries, 0}
        BY <2>1, <2>2, <3>1
      <3>3. \A a \in Agents : task'[FirstReq][a].pc = "idle" /\ task'[FirstReq][a].mode = "normal"
        BY <2>1, <3>1 DEF AckInv, MessageInv
      <3>4. \A a \in Agents : agentMsg'[FirstReq][a].tries <= mishaps'
        <4>1. \A a \in Agents : agentMsg[FirstReq][a].tries <= mishaps
          BY DEF AckInv, MessageInv
        <4>2. QED
          BY <1>1, <2>1, <3>2, <4>1
      <3>5. QED
        BY <3>2, <3>3, <3>4 DEF AckInv, MessageInv
    <2>3. QED
      BY <1>2, <1>3, <2>1, <2>2
  <1>6. CASE WorkerNext /\ UNCHANGED <<gatewayVars, orchVars, synVars>>
    BY <1>6, CrashKeepsAck, TaskKeepsAck, WorkerMoves
  <1>7. CASE SynNext /\ UNCHANGED <<gatewayVars, orchVars, workerVars>>
    <2>1. /\ UNCHANGED <<agentMsg, task>> /\ mishaps' \in {mishaps, mishaps + 1}
          /\ UNCHANGED <<done, expected>> \/ expected' = {}
      BY <1>7, SynFrameAlone DEF workerVars
    <2>2. \A a \in Agents : CountedOrCleared(a) => CountedOrCleared(a)'
      BY <2>1 DEF CountedOrCleared
    <2>3. QED
      BY <1>2, <2>1, <2>2
  <1>8. CASE Age /\ UNCHANGED <<gatewayVars, orchVars, workerVars, synVars>>
    BY <1>2, <1>3, <1>8 DEF Age, countVars, queueVars, workerVars
  <1>9. CASE UNCHANGED vars
    BY <1>2, <1>3, <1>9 DEF vars, sharedVars, countVars, queueVars, workerVars
  <1>10. QED
    BY <1>4, <1>5, <1>6, <1>7, <1>8, <1>9 DEF Next

\* An agent whose message left its queue for good is counted, unless a synthesis
\* has cleared the counters since, for a job its user leaves alone: with any
\* number of crashes of the worker, and with errors of its own as well as long as
\* two faults at most happen in all.  A third one can lose an agent: the run
\* dlq_lost shows it.
THEOREM AcknowledgedIsCounted ==
  ASSUME LeftAlone, FewFaults PROVE Spec => []AckedIsCounted
  <1>1. TypeOK /\ TypeOK' /\ RunInv /\ AckInv /\ [Next]_vars => AckInv'
    BY AckStep
  <1>2. RunInv /\ AckInv => AckedIsCounted
    BY DEF RunInv, OneRunInv, OtherRunsIdle, AckInv, MessageInv, CountedOrCleared, AckedIsCounted
  <1>3. QED
    BY AckInit, TypeCorrect, RunInvariant, <1>1, <1>2, PTL DEF Spec
=============================================================================
