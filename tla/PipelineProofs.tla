--------------------------- MODULE PipelineProofs ---------------------------
(***************************************************************************)
(* Theorems about the pipeline for every number of agents, requests,       *)
(* calls, slots and faults.                                                *)
(***************************************************************************)
EXTENDS Pipeline, FiniteSetTheorems, TLAPS

USE DEF Agents, Callers

(***************************************************************************)
(* The sets the steps put values together from.                            *)
(***************************************************************************)
LEMMA AgentsFinite == IsFiniteSet(Agents)
  BY AgentsAssumption, FS_Union

\* The cardinality of a set of agents is a natural number.
LEMMA CountIsNat == ASSUME NEW S \in SUBSET Agents PROVE Cardinality(S) \in Nat
  BY AgentsFinite, FS_Subset, FS_CardinalityType

LEMMA ValuesTyped ==
  /\ NoRow \in Rows
  /\ NoReport \in [Agents -> Rows]
  /\ \A ok \in BOOLEAN, r \in Reqs : Row(ok, r) \in Rows
  /\ IdleRequest \in Request /\ OverRequest \in Request
  /\ IdleOrch \in OrchHandler
  /\ IdleTask \in Task
  /\ IdleCall \in Call
  <1>1. NoRow \in Rows
    BY RequestAssumption DEF NoRow, Rows
  <1>2. NoReport \in [Agents -> Rows]
    BY <1>1 DEF NoReport
  <1>3. \A ok \in BOOLEAN, r \in Reqs : Row(ok, r) \in Rows
    BY DEF Row, Rows
  <1>4. IdleRequest \in Request /\ OverRequest \in Request
    BY DEF IdleRequest, OverRequest, Request, Ops, ReqPCs
  <1>5. IdleOrch \in OrchHandler
    BY DEF IdleOrch, OrchHandler, OrchPCs
  <1>6. IdleTask \in Task
    BY DEF IdleTask, Task, TaskPCs, Modes
  <1>7. IdleCall \in Call
    BY <1>2 DEF IdleCall, Call, SynPCs
  <1>8. QED
    BY <1>1, <1>2, <1>3, <1>4, <1>5, <1>6, <1>7

LEMMA RedeliveredTyped ==
  /\ \A m \in Message : Redelivered(m) \in Message
  /\ \A m \in AnalysisMessage : Redelivered(m) \in AnalysisMessage
  <1>1. ASSUME NEW m \in Message PROVE Redelivered(m) \in Message
    <2>1. m.tries + 1 \in Nat /\ [m EXCEPT !.at = "dead"] \in Message
      BY DEF Message, Places
    <2>2. [m EXCEPT !.at = "ready", !.tries = @ + 1] \in Message
      BY <2>1 DEF Message, Places
    <2>3. QED
      BY <2>1, <2>2 DEF Redelivered
  <1>2. ASSUME NEW m \in AnalysisMessage PROVE Redelivered(m) \in AnalysisMessage
    <2>1. m.tries + 1 \in Nat /\ [m EXCEPT !.at = "dead"] \in AnalysisMessage
      BY DEF AnalysisMessage, Places
    <2>2. [m EXCEPT !.at = "ready", !.tries = @ + 1] \in AnalysisMessage
      BY <2>1 DEF AnalysisMessage, Places
    <2>3. QED
      BY <2>1, <2>2 DEF Redelivered
  <1>3. QED
    BY <1>1, <1>2

(***************************************************************************)
(* Type correctness, component by component.                               *)
(***************************************************************************)
LEMMA InitTyped == Init => TypeOK
  <1> SUFFICES ASSUME Init PROVE TypeOK
    OBVIOUS
  <1> USE ValuesTyped
  <1>1. TypeOKShared
    BY DEF Init, InitShared, TypeOKShared, Statuses, AnalysisMessage, Message, Places
  <1>2. TypeOKGateway
    BY DEF Init, InitGateway, TypeOKGateway, IdleRequest, Request, Ops, ReqPCs
  <1>3. TypeOKOrch
    BY DEF Init, InitOrch, TypeOKOrch
  <1>4. TypeOKWorker
    BY DEF Init, InitWorker, TypeOKWorker
  <1>5. TypeOKSyn
    BY DEF Init, InitSyn, TypeOKSyn
  <1>6. QED
    BY <1>1, <1>2, <1>3, <1>4, <1>5 DEF TypeOK

LEMMA GatewayTyped ==
  ASSUME TypeOKShared, TypeOKGateway, GatewayNext
  PROVE  TypeOKShared' /\ TypeOKGateway'
  <1> USE ValuesTyped DEF TypeOKGateway, sharedVars, jobVars, countVars, keyVars, queueVars
  <1>1. PICK q \in Reqs : \/ RetryRead(q) \/ CancelRead(q) \/ StopRead(q)
                          \/ GatewayStep(q) \/ GatewayCrash(q)
    BY DEF GatewayNext
  <1>2. req[q] \in Request
    OBVIOUS
  <1>3. CASE RetryRead(q)
    BY <1>2, <1>3 DEF RetryRead, TypeOKShared, Request, Ops, ReqPCs
  <1>4. CASE CancelRead(q)
    BY <1>2, <1>4 DEF CancelRead, TypeOKShared, Request, Ops, ReqPCs
  <1>5. CASE StopRead(q)
    BY <1>2, <1>5 DEF StopRead, TypeOKShared, Request, Ops, ReqPCs
  <1>6. CASE RetryResults(q)
    BY <1>2, <1>6 DEF RetryResults, TypeOKShared, Request, Ops, ReqPCs
  <1>7. CASE RetryUncount(q)
    BY <1>2, <1>7 DEF RetryUncount, TypeOKShared, Request, Ops, ReqPCs
  <1>8. CASE RetryEpoch(q)
    BY <1>2, <1>8 DEF RetryEpoch, TypeOKShared, Request, Ops, ReqPCs
  <1>9. CASE BumpEpoch(q)
    <2>1. epoch + 1 \in Nat
      BY DEF TypeOKShared
    <2>2. TypeOKGateway'
      BY <1>2, <1>9, <2>1 DEF BumpEpoch, Request, Ops, ReqPCs
    <2>3. TypeOKShared'
      BY <1>9, <2>1 DEF BumpEpoch, TypeOKShared
    <2>4. QED
      BY <2>2, <2>3
  <1>10. CASE Wipe(q)
    BY <1>2, <1>10 DEF Wipe, TypeOKShared, Request, Ops, ReqPCs
  <1>11. CASE ResetStatus(q)
    BY <1>2, <1>11 DEF ResetStatus, TypeOKShared, Statuses, Request, Ops, ReqPCs
  <1>12. CASE Emit(q)
    BY <1>2, <1>12 DEF Emit, TypeOKShared, AnalysisMessage, Places, Request
  <1>13. CASE GatewayCrash(q)
    BY <1>13 DEF GatewayCrash, Mishap, TypeOKShared
  <1>14. QED
    BY <1>1, <1>3, <1>4, <1>5, <1>6, <1>7, <1>8, <1>9, <1>10, <1>11, <1>12, <1>13
       DEF GatewayStep

LEMMA OrchTyped ==
  ASSUME TypeOKShared, TypeOKOrch, OrchNext
  PROVE  TypeOKShared' /\ TypeOKOrch'
  <1> USE DEF TypeOKOrch, sharedVars, jobVars, countVars, keyVars, queueVars
  <1>1. CASE OrchCrash
    BY <1>1, RedeliveredTyped, ValuesTyped DEF OrchCrash, Mishap, TypeOKShared
  <1>2. ASSUME NEW r \in Reqs, OrchStep(r) \/ OrchError(r)
        PROVE  TypeOKShared' /\ TypeOKOrch'
    <2>1. orch[r] \in OrchHandler /\ analysis[r] \in AnalysisMessage
      BY DEF TypeOKShared
    <2>2. \A h \in OrchHandler : SetOrch(r, h) => TypeOKOrch'
      BY DEF SetOrch
    <2>3. \A pc \in OrchPCs : OrchGoto(r, pc) => TypeOKOrch'
      BY <2>1, <2>2 DEF OrchGoto, OrchHandler
    <2>4. OrchLeave(r) => TypeOKOrch'
      BY <2>2, ValuesTyped DEF OrchLeave
    <2>5. \A m \in AnalysisMessage :
             MoveAnalysis(r, m) => analysis' \in [Reqs -> AnalysisMessage]
      BY DEF MoveAnalysis, TypeOKShared
    <2>6. SettleAnalysis(r) => analysis' \in [Reqs -> AnalysisMessage]
      BY <2>1, <2>5 DEF SettleAnalysis, AnalysisMessage, Places
    <2>7. CASE Receive(r)
      <3>1. [analysis[r] EXCEPT !.at = "held"] \in AnalysisMessage
        BY <2>1 DEF AnalysisMessage, Places
      <3>2. QED
        BY <2>3, <2>5, <2>7, <3>1 DEF Receive, OrchPCs, TypeOKShared
    <2>8. CASE FenceAnalysis(r)
      BY <2>3, <2>4, <2>6, <2>8 DEF FenceAnalysis, OrchPCs, TypeOKShared
    <2>9. CASE MarkRunning(r)
      BY <2>3, <2>9 DEF MarkRunning, OrchPCs, TypeOKShared, Statuses
    <2>10. CASE AckAnalysis(r)
      BY <2>3, <2>6, <2>10 DEF AckAnalysis, OrchPCs, TypeOKShared
    <2>11. CASE Index(r)
      BY <2>3, <2>11 DEF Index, OrchPCs, TypeOKShared
    <2>12. CASE SetGraphPath(r)
      BY <2>3, <2>12 DEF SetGraphPath, OrchPCs, TypeOKShared
    <2>13. CASE SelectAndExpect(r)
      <3>1. analysis[r].retry \subseteq Agents /\ \A sel \in SelectAgents : sel \subseteq Agents
        BY <2>1 DEF AnalysisMessage, SelectAgents
      <3>2. TypeOKShared'
        BY <2>13, <3>1 DEF SelectAndExpect, TypeOKShared
      <3>3. \A sel \in SUBSET Agents : [pc |-> "dispatch", sel |-> sel] \in OrchHandler
        BY DEF OrchHandler, OrchPCs
      <3>4. TypeOKOrch'
        BY <2>2, <2>13, <3>1, <3>3 DEF SelectAndExpect
      <3>5. QED
        BY <3>2, <3>4
    <2>14. CASE Dispatch(r)
      <3>1. \A sel \in SUBSET Agents : Published(r, sel) \in [Reqs -> [Agents -> Message]]
        BY DEF Published, TypeOKShared, Message, Places
      <3>2. orch[r].sel \in SUBSET Agents
        BY <2>1 DEF OrchHandler
      <3>3. agentMsg' \in [Reqs -> [Agents -> Message]] /\ mishaps' \in Nat
        <4>1. CASE agentMsg' = Published(r, orch[r].sel) /\ UNCHANGED mishaps
          BY <3>1, <3>2, <4>1 DEF TypeOKShared
        <4>2. ASSUME NEW lost \in orch[r].sel, Mishap("lostDispatch"),
                     agentMsg' = Published(r, orch[r].sel \ {lost})
              PROVE  agentMsg' \in [Reqs -> [Agents -> Message]] /\ mishaps' \in Nat
          <5>1. orch[r].sel \ {lost} \in SUBSET Agents
            BY <3>2
          <5>2. QED
            BY <3>1, <4>2, <5>1 DEF Mishap, TypeOKShared
        <4>3. QED
          BY <2>14, <4>1, <4>2 DEF Dispatch
      <3>4. QED
        BY <2>4, <2>14, <3>3 DEF Dispatch, TypeOKShared
    <2>15. CASE MarkFailed(r)
      BY <2>4, <2>15 DEF MarkFailed, TypeOKShared, Statuses
    <2>16. CASE AnalysisDlq(r)
      BY <2>6, <2>16 DEF AnalysisDlq, TypeOKShared, Statuses
    <2>17. CASE OrchError(r)
      BY <2>3, <2>4, <2>17 DEF OrchError, OrchPCs, Mishap, TypeOKShared
    <2>18. QED
      BY <1>2, <2>7, <2>8, <2>9, <2>10, <2>11, <2>12, <2>13, <2>14, <2>15, <2>16, <2>17
         DEF OrchStep
  <1>3. QED
    BY <1>1, <1>2 DEF OrchNext

LEMMA WorkerTyped ==
  ASSUME TypeOKShared, TypeOKWorker, WorkerNext
  PROVE  TypeOKShared' /\ TypeOKWorker'
  <1> USE DEF TypeOKWorker, sharedVars, jobVars, countVars, keyVars, queueVars
  <1>1. CASE WorkerCrash
    BY <1>1, RedeliveredTyped, ValuesTyped DEF WorkerCrash, Mishap, TypeOKShared
  <1>2. ASSUME NEW r \in Reqs, NEW a \in Agents, WorkerStep(r, a) \/ WorkerError(r, a)
        PROVE  TypeOKShared' /\ TypeOKWorker'
    <2>1. task[r][a] \in Task /\ agentMsg[r][a] \in Message
      BY DEF TypeOKShared
    <2>2. ASSUME NEW t \in Task, SetTask(r, a, t) PROVE TypeOKWorker'
      <3>1. [task[r] EXCEPT ![a] = t] \in [Agents -> Task]
        OBVIOUS
      <3>2. task' = [task EXCEPT ![r] = [task[r] EXCEPT ![a] = t]]
        BY <2>2 DEF SetTask
      <3>3. QED
        BY <3>1, <3>2
    <2>3. \A pc \in TaskPCs : TaskGoto(r, a, pc) => TypeOKWorker'
      BY <2>1, <2>2 DEF TaskGoto, Task
    <2>4. TaskLeave(r, a) => TypeOKWorker'
      BY <2>2, ValuesTyped DEF TaskLeave
    <2>5. \A m \in Message : MoveMsg(r, a, m) => agentMsg' \in [Reqs -> [Agents -> Message]]
      BY DEF MoveMsg, TypeOKShared
    <2>6. \A p \in Places : SettleMsg(r, a, p) => agentMsg' \in [Reqs -> [Agents -> Message]]
      BY <2>5 DEF SettleMsg, Message
    <2>7. ASSUME NEW next \in TaskPCs, CheckFence(r, a, next)
          PROVE  TypeOKShared' /\ TypeOKWorker'
      BY <2>3, <2>4, <2>6, <2>7 DEF CheckFence, TypeOKShared, Places
    <2>8. CASE TakeSlot(r, a)
      <3>1. [agentMsg[r][a] EXCEPT !.at = "held"] \in Message
        BY <2>1 DEF Message, Places
      <3>2. QED
        BY <2>3, <2>5, <2>8, <3>1 DEF TakeSlot, TaskPCs, TypeOKShared
    <2>9. CASE FenceAgent(r, a) \/ CheckAlive(r, a) \/ FenceDlq(r, a)
      BY <2>7, <2>9 DEF FenceAgent, CheckAlive, FenceDlq, TaskPCs
    <2>10. CASE CheckBudget(r, a)
      BY <2>3, <2>10 DEF CheckBudget, TaskPCs, TypeOKShared
    <2>11. CASE ModelAnswers(r, a)
      <3>1. \A ok \in BOOLEAN :
               [task[r][a] EXCEPT !.ok = ok, !.pc = IF ok THEN "bill" ELSE "persist"] \in Task
        BY <2>1 DEF Task, TaskPCs
      <3>2. QED
        BY <2>2, <2>11, <3>1 DEF ModelAnswers, TypeOKShared
    <2>12. CASE Bill(r, a)
      <3>1. tokens + 1 \in Nat
        BY DEF TypeOKShared
      <3>2. TypeOKWorker'
        BY <2>3, <2>12 DEF Bill, TaskPCs
      <3>3. QED
        BY <2>12, <3>1, <3>2 DEF Bill, TypeOKShared
    <2>13. CASE PersistResult(r, a)
      <3>1. Row(task[r][a].ok, r) \in Rows
        BY <2>1, ValuesTyped DEF Task
      <3>2. [task[r][a] EXCEPT !.pc = "count", !.ok = FALSE] \in Task
        BY <2>1 DEF Task, TaskPCs
      <3>3. QED
        BY <2>2, <2>13, <3>1, <3>2 DEF PersistResult, TypeOKShared
    <2>14. CASE CountDone(r, a)
      BY <2>3, <2>14 DEF CountDone, TaskPCs, TypeOKShared
    <2>15. CASE TallyDone(r, a)
      <3>1. Cardinality(done) \in Nat
        BY CountIsNat DEF TypeOKShared
      <3>2. [task[r][a] EXCEPT !.pc = "compare", !.cnt = Cardinality(done)] \in Task
        BY <2>1, <3>1 DEF Task, TaskPCs
      <3>3. QED
        BY <2>2, <2>15, <3>2 DEF TallyDone, TypeOKShared
    <2>16. CASE CompareExpected(r, a)
      <3>1. \A pc \in TaskPCs : [task[r][a] EXCEPT !.cnt = 0, !.pc = pc] \in Task
        BY <2>1 DEF Task
      <3>2. QED
        BY <2>2, <2>16, <3>1 DEF CompareExpected, TaskPCs, TypeOKShared
    <2>17. CASE NotifyReady(r, a)
      <3>1. wakeups' \in Nat /\ mishaps' \in Nat
        BY <2>17 DEF NotifyReady, PublishReady, Mishap, TypeOKShared
      <3>2. TypeOKWorker'
        BY <2>3, <2>17 DEF NotifyReady, TaskPCs
      <3>3. QED
        BY <2>17, <3>1, <3>2 DEF NotifyReady, TypeOKShared
    <2>18. CASE Settle(r, a)
      BY <2>4, <2>6, <2>18 DEF Settle, Places, TypeOKShared
    <2>19. CASE DlqReceive(r, a)
      <3>1. [task[r][a] EXCEPT !.pc = "dlqFence", !.mode = "dlq"] \in Task
        BY <2>1 DEF Task, TaskPCs, Modes
      <3>2. QED
        BY <2>2, <2>19, <3>1 DEF DlqReceive, TypeOKShared
    <2>20. CASE WorkerError(r, a)
      <3>1. [IdleTask EXCEPT !.pc = "persist", !.mode = "infra"] \in Task
        BY DEF IdleTask, Task, TaskPCs, Modes
      <3>2. [task[r][a] EXCEPT !.pc = "settle", !.cnt = 0] \in Task
        BY <2>1 DEF Task, TaskPCs
      <3>3. TypeOKWorker'
        BY <2>2, <2>3, <2>4, <2>20, <3>1, <3>2 DEF WorkerError, TaskPCs
      <3>4. mishaps' \in Nat
        BY <2>20 DEF WorkerError, Mishap, TypeOKShared
      <3>5. QED
        BY <2>20, <3>3, <3>4 DEF WorkerError, TypeOKShared
    <2>21. QED
      BY <1>2, <2>8, <2>9, <2>10, <2>11, <2>12, <2>13, <2>14, <2>15, <2>16, <2>17, <2>18,
         <2>19, <2>20 DEF WorkerStep
  <1>3. QED
    BY <1>1, <1>2 DEF WorkerNext

LEMMA SynTyped ==
  ASSUME TypeOKShared, TypeOKSyn, SynNext
  PROVE  TypeOKShared' /\ TypeOKSyn'
  <1> USE DEF TypeOKSyn, sharedVars, jobVars, countVars, keyVars, queueVars
  <1>1. CASE LockExpires
    BY <1>1 DEF LockExpires, TypeOKShared
  <1>2. CASE SynCrash
    BY <1>2, ValuesTyped DEF SynCrash, Mishap, TypeOKShared
  <1>3. ASSUME NEW s \in Callers, SynStep(s) \/ SynError(s)
        PROVE  TypeOKShared' /\ TypeOKSyn'
    <2>1. syn[s] \in Call
      OBVIOUS
    <2>2. \A c \in Call : SetCall(s, c) => TypeOKSyn'
      BY DEF SetCall
    <2>3. \A pc \in SynPCs : SynGoto(s, pc) => TypeOKSyn'
      BY <2>1, <2>2 DEF SynGoto, Call
    <2>4. SynLeave(s) => TypeOKSyn'
      BY <2>2, ValuesTyped DEF SynLeave
    <2>5. \A pc \in SynPCs : [IdleCall EXCEPT !.pc = pc] \in Call
      BY ValuesTyped DEF Call
    <2>6. CASE SweepStart(s)
      BY <2>3, <2>6 DEF SweepStart, SynPCs, TypeOKShared
    <2>7. CASE SweepReadDone(s)
      <3>1. Cardinality(done) \in Nat
        BY CountIsNat DEF TypeOKShared
      <3>2. [syn[s] EXCEPT !.pc = "sweepExpected", !.cnt = Cardinality(done)] \in Call
        BY <2>1, <3>1 DEF Call, SynPCs
      <3>3. QED
        BY <2>2, <2>7, <3>2 DEF SweepReadDone, TypeOKShared
    <2>8. CASE SweepReadExpected(s)
      BY <2>2, <2>5, <2>8 DEF SweepReadExpected, SynPCs, TypeOKShared
    <2>9. CASE SweepCountRows(s)
      BY <2>3, <2>9 DEF SweepCountRows, SynPCs, TypeOKShared
    <2>10. CASE Wake(s)
      BY <2>3, <2>10 DEF Wake, Claim, SynPCs, TypeOKShared
    <2>11. CASE SweepClaim(s)
      BY <2>3, <2>11 DEF SweepClaim, Claim, SynPCs, TypeOKShared
    <2>12. CASE CheckReport(s)
      BY <2>3, <2>12 DEF CheckReport, SynPCs, TypeOKShared
    <2>13. CASE CheckCancelled(s)
      BY <2>3, <2>13 DEF CheckCancelled, SynPCs, TypeOKShared
    <2>14. CASE LoadRows(s)
      <3>1. [IdleCall EXCEPT !.pc = "compose", !.input = latest] \in Call
        BY ValuesTyped DEF Call, SynPCs, TypeOKShared
      <3>2. QED
        BY <2>2, <2>5, <2>14, <3>1 DEF LoadRows, SynPCs, TypeOKShared
    <2>15. CASE Compose(s)
      BY <2>2, <2>3, <2>5, <2>15 DEF Compose, SynPCs, TypeOKShared
    <2>16. CASE CreateReport(s)
      <3>1. syn[s].input \in [Agents -> Rows]
        BY <2>1 DEF Call
      <3>2. QED
        BY <2>2, <2>5, <2>16, <3>1 DEF CreateReport, SynPCs, TypeOKShared
    <2>17. CASE Finish(s)
      BY <2>3, <2>17 DEF Finish, SynPCs, Statuses, TypeOKShared
    <2>18. CASE FailJob(s)
      BY <2>3, <2>18 DEF FailJob, SynPCs, Statuses, TypeOKShared
    <2>19. CASE Cleanup(s)
      BY <2>4, <2>19 DEF Cleanup, TypeOKShared
    <2>20. CASE SynError(s)
      BY <2>2, <2>5, <2>20, ValuesTyped DEF SynError, SynPCs, InTry, Mishap, TypeOKShared
    <2>21. QED
      BY <1>3, <2>6, <2>7, <2>8, <2>9, <2>10, <2>11, <2>12, <2>13, <2>14, <2>15, <2>16,
         <2>17, <2>18, <2>19, <2>20 DEF SynStep
  <1>4. QED
    BY <1>1, <1>2, <1>3 DEF SynNext

\* Every step of the pipeline, a stutter included, keeps every variable in its type.
LEMMA StepTyped == TypeOK /\ [Next]_vars => TypeOK'
  <1> SUFFICES ASSUME TypeOK, [Next]_vars PROVE TypeOK'
    OBVIOUS
  <1> USE DEF TypeOK
  <1>1. CASE GatewayNext /\ UNCHANGED <<orchVars, workerVars, synVars>>
    <2>1. TypeOKShared' /\ TypeOKGateway'
      BY <1>1, GatewayTyped
    <2>2. TypeOKOrch' /\ TypeOKWorker' /\ TypeOKSyn'
      BY <1>1 DEF orchVars, workerVars, synVars, TypeOKOrch, TypeOKWorker, TypeOKSyn
    <2>3. QED
      BY <2>1, <2>2
  <1>2. CASE OrchNext /\ UNCHANGED <<gatewayVars, workerVars, synVars>>
    <2>1. TypeOKShared' /\ TypeOKOrch'
      BY <1>2, OrchTyped
    <2>2. TypeOKGateway' /\ TypeOKWorker' /\ TypeOKSyn'
      BY <1>2 DEF gatewayVars, workerVars, synVars, TypeOKGateway, TypeOKWorker, TypeOKSyn
    <2>3. QED
      BY <2>1, <2>2
  <1>3. CASE WorkerNext /\ UNCHANGED <<gatewayVars, orchVars, synVars>>
    <2>1. TypeOKShared' /\ TypeOKWorker'
      BY <1>3, WorkerTyped
    <2>2. TypeOKGateway' /\ TypeOKOrch' /\ TypeOKSyn'
      BY <1>3 DEF gatewayVars, orchVars, synVars, TypeOKGateway, TypeOKOrch, TypeOKSyn
    <2>3. QED
      BY <2>1, <2>2
  <1>4. CASE SynNext /\ UNCHANGED <<gatewayVars, orchVars, workerVars>>
    <2>1. TypeOKShared' /\ TypeOKSyn'
      BY <1>4, SynTyped
    <2>2. TypeOKGateway' /\ TypeOKOrch' /\ TypeOKWorker'
      BY <1>4 DEF gatewayVars, orchVars, workerVars, TypeOKGateway, TypeOKOrch, TypeOKWorker
    <2>3. QED
      BY <2>1, <2>2
  <1>5. CASE Age /\ UNCHANGED <<gatewayVars, orchVars, workerVars, synVars>>
    BY <1>5 DEF Age, TypeOKShared, countVars, keyVars, queueVars, gatewayVars, orchVars,
                workerVars, synVars, TypeOKGateway, TypeOKOrch, TypeOKWorker, TypeOKSyn
  <1>6. CASE UNCHANGED vars
    BY <1>6 DEF vars, sharedVars, jobVars, countVars, keyVars, queueVars, gatewayVars,
                orchVars, workerVars, synVars, TypeOKShared, TypeOKGateway, TypeOKOrch,
                TypeOKWorker, TypeOKSyn
  <1>7. QED
    BY <1>1, <1>2, <1>3, <1>4, <1>5, <1>6 DEF Next

\* The variables of the pipeline, its queues and its rows stay in their types for
\* every number of agents, requests, calls, slots and faults.
THEOREM TypeCorrect == Spec => []TypeOK
  BY InitTyped, StepTyped, PTL DEF Spec

(***************************************************************************)
(* What each process leaves alone.                                         *)
(***************************************************************************)
LEMMA GatewayFrame ==
  ASSUME GatewayNext
  PROVE  /\ UNCHANGED <<latest, report>>
         /\ jobStatus' \in {jobStatus, "pending", "cancelled"}
         /\ done' \subseteq done
         /\ lock' = lock \/ \E q \in Reqs : req[q].pc = "wipe"
  BY DEF GatewayNext, GatewayStep, RetryRead, CancelRead, StopRead, RetryResults, RetryUncount,
         RetryEpoch, BumpEpoch, Wipe, ResetStatus, Emit, GatewayCrash,
         sharedVars, jobVars, countVars, keyVars

LEMMA OrchFrame ==
  ASSUME OrchNext
  PROVE  /\ UNCHANGED <<latest, report, done, lock, epoch>>
         /\ jobStatus' \in {jobStatus, "running", "failed"}
  BY DEF OrchNext, OrchStep, OrchError, OrchCrash, Receive, FenceAnalysis, MarkRunning,
         AckAnalysis, Index, SetGraphPath, SelectAndExpect, Dispatch, MarkFailed, AnalysisDlq,
         sharedVars, jobVars, countVars, keyVars

LEMMA WorkerFrame ==
  ASSUME WorkerNext
  PROVE  UNCHANGED <<jobStatus, report, expected, lock, epoch>>
  <1> USE DEF sharedVars, jobVars, countVars, keyVars
  <1>1. CASE WorkerCrash
    BY <1>1 DEF WorkerCrash
  <1>2. ASSUME NEW r \in Reqs, NEW a \in Agents, WorkerError(r, a)
        PROVE  UNCHANGED <<jobStatus, report, expected, lock, epoch>>
    BY <1>2 DEF WorkerError
  <1>3. ASSUME NEW r \in Reqs, NEW a \in Agents, WorkerStep(r, a)
        PROVE  UNCHANGED <<jobStatus, report, expected, lock, epoch>>
    <2>1. CASE FenceAgent(r, a) \/ CheckAlive(r, a) \/ FenceDlq(r, a)
      BY <2>1 DEF FenceAgent, CheckAlive, FenceDlq, CheckFence
    <2>2. CASE TakeSlot(r, a) \/ CheckBudget(r, a) \/ ModelAnswers(r, a) \/ Bill(r, a)
      BY <2>2 DEF TakeSlot, CheckBudget, ModelAnswers, Bill
    <2>3. CASE PersistResult(r, a) \/ CountDone(r, a) \/ TallyDone(r, a) \/ CompareExpected(r, a)
      BY <2>3 DEF PersistResult, CountDone, TallyDone, CompareExpected
    <2>4. CASE NotifyReady(r, a) \/ Settle(r, a) \/ DlqReceive(r, a)
      BY <2>4 DEF NotifyReady, Settle, DlqReceive
    <2>5. QED
      BY <1>3, <2>1, <2>2, <2>3, <2>4 DEF WorkerStep
  <1>4. QED
    BY <1>1, <1>2, <1>3 DEF WorkerNext

LEMMA SynFrame ==
  ASSUME SynNext
  PROVE  UNCHANGED latest /\ done' \subseteq done
  BY DEF SynNext, SynStep, SynError, SynCrash, LockExpires, SweepStart, SweepReadDone,
         SweepReadExpected, SweepCountRows, Wake, SweepClaim, Claim, CheckReport,
         CheckCancelled, LoadRows, Compose, CreateReport, Finish, FailJob, Cleanup,
         sharedVars, jobVars, countVars, keyVars

(***************************************************************************)
(* An agent is counted only after its row is written: the handler between  *)
(* the two steps remembers it.                                             *)
(***************************************************************************)
CountInv ==
    /\ CountedHasRow
    /\ \A r \in Reqs, a \in Agents : task[r][a].pc = "count" => latest[a].st # "none"

LEMMA CountInit == Init => CountInv
  BY DEF Init, InitShared, InitWorker, CountInv, CountedHasRow, IdleTask

LEMMA WorkerKeepsCountInv ==
  ASSUME TypeOK, CountInv, WorkerNext
  PROVE  CountInv'
  <1> USE DEF TypeOK, TypeOKShared, TypeOKWorker, CountInv, CountedHasRow, AgentsWithRow,
              sharedVars, jobVars, countVars, keyVars, queueVars
  <1>1. CASE WorkerCrash
    BY <1>1 DEF WorkerCrash, IdleTask
  <1>2. ASSUME NEW r \in Reqs, NEW a \in Agents, WorkerStep(r, a) \/ WorkerError(r, a)
        PROVE  CountInv'
    <2>1. task[r][a] \in Task
      OBVIOUS
    <2>2. ASSUME NEW t, SetTask(r, a, t), t.pc # "count", UNCHANGED <<latest, done>>
          PROVE  CountInv'
      <3>1. \A r2 \in Reqs, a2 \in Agents :
               task'[r2][a2] = IF r2 = r /\ a2 = a THEN t ELSE task[r2][a2]
        BY <2>2 DEF SetTask
      <3>2. QED
        BY ZenonT(40), <2>2, <3>1
    <2>3. ASSUME NEW pc, TaskGoto(r, a, pc), pc # "count", UNCHANGED <<latest, done>>
          PROVE  CountInv'
      BY <2>1, <2>2, <2>3 DEF TaskGoto, Task
    <2>4. ASSUME TaskLeave(r, a), UNCHANGED <<latest, done>>
          PROVE  CountInv'
      BY <2>2, <2>4 DEF TaskLeave, IdleTask
    <2>5. CASE PersistResult(r, a)
      <3>1. latest' = [latest EXCEPT ![a] = Row(task[r][a].ok, r)] /\ UNCHANGED done
        BY <2>5 DEF PersistResult
      <3>2. latest'[a].st # "none" /\ \A b \in Agents : latest[b].st # "none" => latest'[b].st # "none"
        BY <3>1 DEF Row
      <3>3. \A r2 \in Reqs, a2 \in Agents :
               task'[r2][a2] = IF r2 = r /\ a2 = a
                               THEN [task[r][a] EXCEPT !.pc = "count", !.ok = FALSE]
                               ELSE task[r2][a2]
        BY <2>5 DEF PersistResult, SetTask
      <3>4. QED
        BY <3>1, <3>2, <3>3
    <2>6. CASE CountDone(r, a)
      <3>1. latest[a].st # "none" /\ done' = done \cup {a} /\ UNCHANGED latest
        BY <2>6 DEF CountDone
      <3>2. \A r2 \in Reqs, a2 \in Agents :
               task'[r2][a2] = IF r2 = r /\ a2 = a THEN [task[r][a] EXCEPT !.pc = "tally"]
                               ELSE task[r2][a2]
        BY <2>6 DEF CountDone, TaskGoto, SetTask
      <3>3. QED
        BY SMTT(30), <2>1, <3>1, <3>2 DEF Task
    <2>7. CASE TakeSlot(r, a)
      BY <2>3, <2>7 DEF TakeSlot
    <2>8. ASSUME NEW next, next # "count", CheckFence(r, a, next)
          PROVE  CountInv'
      BY <2>3, <2>4, <2>8 DEF CheckFence
    <2>9. CASE FenceAgent(r, a) \/ CheckAlive(r, a) \/ FenceDlq(r, a)
      BY <2>8, <2>9 DEF FenceAgent, CheckAlive, FenceDlq
    <2>10. CASE CheckBudget(r, a)
      BY <2>3, <2>10 DEF CheckBudget
    <2>11. CASE ModelAnswers(r, a)
      <3>1. \A ok \in BOOLEAN :
               [task[r][a] EXCEPT !.ok = ok, !.pc = IF ok THEN "bill" ELSE "persist"].pc # "count"
        BY <2>1 DEF Task
      <3>2. QED
        BY <2>2, <2>11, <3>1 DEF ModelAnswers
    <2>12. CASE Bill(r, a)
      BY <2>3, <2>12 DEF Bill
    <2>13. CASE TallyDone(r, a)
      <3>1. [task[r][a] EXCEPT !.pc = "compare", !.cnt = Cardinality(done)].pc # "count"
        BY <2>1 DEF Task
      <3>2. QED
        BY <2>2, <2>13, <3>1 DEF TallyDone
    <2>14. CASE CompareExpected(r, a)
      <3>1. \A pc \in {"notify", "settle"} : [task[r][a] EXCEPT !.cnt = 0, !.pc = pc].pc # "count"
        BY <2>1 DEF Task
      <3>2. QED
        BY <2>2, <2>14, <3>1 DEF CompareExpected
    <2>15. CASE NotifyReady(r, a)
      BY <2>3, <2>15 DEF NotifyReady
    <2>16. CASE Settle(r, a)
      BY <2>4, <2>16 DEF Settle
    <2>17. CASE DlqReceive(r, a)
      <3>1. [task[r][a] EXCEPT !.pc = "dlqFence", !.mode = "dlq"].pc # "count"
        BY <2>1 DEF Task
      <3>2. QED
        BY <2>2, <2>17, <3>1 DEF DlqReceive
    <2>18. CASE WorkerError(r, a)
      <3>1. /\ [IdleTask EXCEPT !.pc = "persist", !.mode = "infra"].pc # "count"
            /\ [task[r][a] EXCEPT !.pc = "settle", !.cnt = 0].pc # "count"
            /\ IdleTask.pc # "count"
        BY <2>1 DEF IdleTask, Task
      <3>2. UNCHANGED <<latest, done>>
        BY <2>18 DEF WorkerError
      <3>3. QED
        BY <2>2, <2>3, <2>18, <3>1, <3>2 DEF WorkerError, TaskLeave
    <2>19. QED
      BY <1>2, <2>5, <2>6, <2>7, <2>9, <2>10, <2>11, <2>12, <2>13, <2>14, <2>15, <2>16,
         <2>17, <2>18 DEF WorkerStep
  <1>3. QED
    BY <1>1, <1>2 DEF WorkerNext

LEMMA CountStep == TypeOK /\ CountInv /\ [Next]_vars => CountInv'
  <1> SUFFICES ASSUME TypeOK, CountInv, [Next]_vars PROVE CountInv'
    OBVIOUS
  <1>1. ASSUME UNCHANGED <<latest, task>>, done' \subseteq done
        PROVE  CountInv'
    BY <1>1 DEF CountInv, CountedHasRow, AgentsWithRow
  <1>2. CASE GatewayNext /\ UNCHANGED <<orchVars, workerVars, synVars>>
    BY <1>1, <1>2, GatewayFrame DEF workerVars
  <1>3. CASE OrchNext /\ UNCHANGED <<gatewayVars, workerVars, synVars>>
    BY <1>1, <1>3, OrchFrame DEF workerVars
  <1>4. CASE WorkerNext /\ UNCHANGED <<gatewayVars, orchVars, synVars>>
    BY <1>4, WorkerKeepsCountInv
  <1>5. CASE SynNext /\ UNCHANGED <<gatewayVars, orchVars, workerVars>>
    BY <1>1, <1>5, SynFrame DEF workerVars
  <1>6. CASE Age /\ UNCHANGED <<gatewayVars, orchVars, workerVars, synVars>>
    BY <1>1, <1>6 DEF Age, workerVars, countVars
  <1>7. CASE UNCHANGED vars
    BY <1>1, <1>7 DEF vars, sharedVars, jobVars, countVars, workerVars
  <1>8. QED
    BY <1>2, <1>3, <1>4, <1>5, <1>6, <1>7 DEF Next

\* The set the completion check trusts never runs ahead of the rows in Postgres,
\* in the normal, the infra-failure and the dead-letter path, whatever the user
\* does, however often a message is redelivered and wherever a process dies.
THEOREM CountedAlwaysHasRow == Spec => []CountedHasRow
  <1>1. TypeOK /\ CountInv /\ [Next]_vars => CountInv'
    BY CountStep
  <1>2. CountInv => CountedHasRow
    BY DEF CountInv
  <1>3. QED
    BY CountInit, TypeCorrect, <1>1, <1>2, PTL DEF Spec

(***************************************************************************)
(* The report: a call that is past report.create has one to show, and a    *)
(* call that composes one has loaded a success.                            *)
(***************************************************************************)
ReportInv ==
    /\ DoneHasReport
    /\ ReportGrounded
    /\ \A s \in Callers : syn[s].pc \in {"compose", "create"} => SuccessIn(syn[s].input)
    /\ \A s \in Callers : syn[s].pc = "finish" => HasReport

LEMMA ReportInit == Init => ReportInv
  BY DEF Init, InitShared, InitSyn, ReportInv, DoneHasReport, ReportGrounded, HasReport, IdleCall

\* Rows with a success are not the empty report.
LEMMA SuccessIsReport == \A rows : SuccessIn(rows) => rows # NoReport
  BY DEF SuccessIn, NoReport, NoRow

LEMMA SynKeepsReportInv ==
  ASSUME TypeOK, ReportInv, SynNext
  PROVE  ReportInv'
  <1> USE DEF TypeOK, TypeOKShared, TypeOKSyn, ReportInv, DoneHasReport, ReportGrounded, HasReport,
              sharedVars, jobVars, countVars, keyVars, queueVars
  <1>1. CASE LockExpires
    BY <1>1 DEF LockExpires, SuccessIn
  <1>2. CASE SynCrash
    BY <1>2 DEF SynCrash, IdleCall, SuccessIn
  <1>3. ASSUME NEW s \in Callers, SynStep(s) \/ SynError(s)
        PROVE  ReportInv'
    <2> DEFINE quiet(c) == c.pc \notin {"compose", "create", "finish"}
    <2>1. syn[s] \in Call
      OBVIOUS
    <2>2. ASSUME NEW c, SetCall(s, c)
          PROVE  \A t \in Callers : syn'[t] = IF t = s THEN c ELSE syn[t]
      BY <2>2 DEF SetCall
    <2>3. ASSUME NEW c, SetCall(s, c), quiet(c), UNCHANGED report,
                 jobStatus' \in {jobStatus, "failed"}
          PROVE  ReportInv'
      BY <2>2, <2>3 DEF SuccessIn
    <2>4. ASSUME NEW pc, pc \notin {"compose", "create", "finish"}, SynGoto(s, pc),
                 UNCHANGED report, jobStatus' \in {jobStatus, "failed"}
          PROVE  ReportInv'
      BY <2>1, <2>3, <2>4 DEF SynGoto, Call
    <2>5. \A pc : [IdleCall EXCEPT !.pc = pc].pc = pc
      BY DEF IdleCall
    <2>6. CASE SweepStart(s)
      BY <2>4, <2>6 DEF SweepStart
    <2>7. CASE SweepReadDone(s)
      <3>1. quiet([syn[s] EXCEPT !.pc = "sweepExpected", !.cnt = Cardinality(done)])
        BY <2>1 DEF Call
      <3>2. QED
        BY <2>3, <2>7, <3>1 DEF SweepReadDone
    <2>8. CASE SweepReadExpected(s)
      BY <2>3, <2>5, <2>8 DEF SweepReadExpected
    <2>9. CASE SweepCountRows(s)
      BY <2>4, <2>9 DEF SweepCountRows
    <2>10. CASE Wake(s) \/ SweepClaim(s)
      BY <2>4, <2>10 DEF Wake, SweepClaim, Claim
    <2>11. CASE CheckReport(s)
      BY <2>4, <2>11 DEF CheckReport
    <2>12. CASE CheckCancelled(s)
      BY <2>4, <2>12 DEF CheckCancelled
    <2>13. CASE LoadRows(s)
      <3>1. CASE SuccessIn(latest)
        <4>1. \A t \in Callers :
                 syn'[t] = IF t = s THEN [IdleCall EXCEPT !.pc = "compose", !.input = latest]
                           ELSE syn[t]
          BY <2>2, <2>13, <3>1 DEF LoadRows
        <4>2. syn'[s].pc = "compose" /\ syn'[s].input = latest
          BY <4>1 DEF IdleCall
        <4>3. QED
          BY <2>13, <3>1, <4>1, <4>2 DEF LoadRows, SuccessIn
      <3>2. CASE ~SuccessIn(latest)
        BY <2>3, <2>5, <2>13, <3>2 DEF LoadRows
      <3>3. QED
        BY <3>1, <3>2
    <2>14. CASE Compose(s)
      <3>1. CASE SynGoto(s, "create")
        <4>1. \A t \in Callers :
                 syn'[t] = IF t = s THEN [syn[s] EXCEPT !.pc = "create"] ELSE syn[t]
          BY <2>2, <3>1 DEF SynGoto
        <4>2. syn'[s].pc = "create" /\ syn'[s].input = syn[s].input
          BY <2>1, <4>1 DEF Call
        <4>3. QED
          BY <2>14, <4>1, <4>2 DEF Compose, SuccessIn
      <3>2. CASE SetCall(s, [IdleCall EXCEPT !.pc = "failStatus"])
        BY <2>3, <2>5, <2>14, <3>2 DEF Compose
      <3>3. QED
        BY <2>14, <3>1, <3>2 DEF Compose
    <2>15. CASE CreateReport(s)
      <3>1. CASE HasReport
        BY <2>3, <2>5, <2>15, <3>1 DEF CreateReport
      <3>2. CASE ~HasReport
        <4>1. report' = syn[s].input /\ SuccessIn(syn[s].input) /\ UNCHANGED jobStatus
          BY <2>15, <3>2 DEF CreateReport
        <4>2. report' # NoReport /\ SuccessIn(report')
          BY <4>1, SuccessIsReport
        <4>3. \A t \in Callers :
                 syn'[t] = IF t = s THEN [IdleCall EXCEPT !.pc = "finish"] ELSE syn[t]
          BY <2>2, <2>15, <3>2 DEF CreateReport
        <4>4. syn'[s].pc = "finish"
          BY <2>5, <4>3
        <4>5. QED
          BY <4>1, <4>2, <4>3, <4>4 DEF SuccessIn
      <3>3. QED
        BY <3>1, <3>2
    <2>16. CASE Finish(s)
      <3>1. HasReport /\ UNCHANGED report
        BY <2>16 DEF Finish
      <3>2. \A t \in Callers :
               syn'[t] = IF t = s THEN [syn[s] EXCEPT !.pc = "cleanup"] ELSE syn[t]
        BY <2>2, <2>16 DEF Finish, SynGoto
      <3>3. syn'[s].pc = "cleanup"
        BY <2>1, <3>2 DEF Call
      <3>4. QED
        BY <3>1, <3>2, <3>3 DEF SuccessIn
    <2>17. CASE FailJob(s)
      BY <2>4, <2>17 DEF FailJob
    <2>18. CASE Cleanup(s)
      BY <2>3, <2>18 DEF Cleanup, SynLeave, IdleCall
    <2>19. CASE SynError(s)
      <3>1. quiet([IdleCall EXCEPT !.pc = "failStatus"]) /\ quiet(IdleCall)
        BY DEF IdleCall
      <3>2. UNCHANGED <<report, jobStatus>>
        BY <2>19 DEF SynError
      <3>3. QED
        BY <2>3, <2>19, <3>1, <3>2 DEF SynError
    <2>20. QED
      BY <1>3, <2>6, <2>7, <2>8, <2>9, <2>10, <2>11, <2>12, <2>13, <2>14, <2>15, <2>16,
         <2>17, <2>18, <2>19 DEF SynStep
  <1>4. QED
    BY <1>1, <1>2, <1>3 DEF SynNext

LEMMA ReportStep == TypeOK /\ ReportInv /\ [Next]_vars => ReportInv'
  <1> SUFFICES ASSUME TypeOK, ReportInv, [Next]_vars PROVE ReportInv'
    OBVIOUS
  <1>1. ASSUME UNCHANGED <<report, syn>>, jobStatus' = "done" => jobStatus = "done"
        PROVE  ReportInv'
    BY <1>1 DEF ReportInv, DoneHasReport, ReportGrounded, HasReport, SuccessIn
  <1>2. CASE GatewayNext /\ UNCHANGED <<orchVars, workerVars, synVars>>
    BY <1>1, <1>2, GatewayFrame DEF synVars
  <1>3. CASE OrchNext /\ UNCHANGED <<gatewayVars, workerVars, synVars>>
    BY <1>1, <1>3, OrchFrame DEF synVars
  <1>4. CASE WorkerNext /\ UNCHANGED <<gatewayVars, orchVars, synVars>>
    BY <1>1, <1>4, WorkerFrame DEF synVars
  <1>5. CASE SynNext /\ UNCHANGED <<gatewayVars, orchVars, workerVars>>
    BY <1>5, SynKeepsReportInv
  <1>6. CASE Age /\ UNCHANGED <<gatewayVars, orchVars, workerVars, synVars>>
    BY <1>1, <1>6 DEF Age, synVars
  <1>7. CASE UNCHANGED vars
    BY <1>1, <1>7 DEF vars, sharedVars, jobVars, synVars
  <1>8. QED
    BY <1>2, <1>3, <1>4, <1>5, <1>6, <1>7 DEF Next

LEMMA ReportInvariant == Spec => []ReportInv
  <1>1. TypeOK /\ ReportInv /\ [Next]_vars => ReportInv'
    BY ReportStep
  <1>2. QED
    BY ReportInit, TypeCorrect, <1>1, PTL DEF Spec

\* A job that is shown as done has a report, for any interleaving of syntheses,
\* retries, force-stops, cancels, crashes and errors.
THEOREM DoneAlwaysHasReport == Spec => []DoneHasReport
  <1>1. ReportInv => DoneHasReport
    BY DEF ReportInv
  <1>2. QED
    BY ReportInvariant, <1>1, PTL

\* No report is written from a job all of whose agents failed.
THEOREM ReportAlwaysGrounded == Spec => []ReportGrounded
  <1>1. ReportInv => ReportGrounded
    BY DEF ReportInv
  <1>2. QED
    BY ReportInvariant, <1>1, PTL

(***************************************************************************)
(* The claim lock.  As long as nobody force-stops or cancels the job, which *)
(* deletes the lock, and no synthesis is slower than its TTL, the lock is   *)
(* held while a call is past its claim, and by that call alone.            *)
(***************************************************************************)
Undisturbed == UserOps \cap {"stop", "cancel"} = {} /\ "slowSynth" \notin Mishaps

Holder(s) == syn[s].pc \in Claimed
BeforeReport(s) == syn[s].pc \in {"cancelled", "load", "compose", "create"}

ClaimInv ==
    /\ \A q \in Reqs : req[q].pc \notin {"fence", "wipe"}
    /\ \A s, t \in Callers : Holder(s) /\ Holder(t) => s = t
    /\ \A s \in Callers : Holder(s) => lock
    /\ \A s \in Callers : BeforeReport(s) => ~HasReport

LEMMA ClaimInit == Init => ClaimInv
  BY DEF Init, InitShared, InitGateway, InitSyn, ClaimInv, Holder, BeforeReport, Claimed,
         HasReport, IdleCall, IdleRequest

LEMMA GatewayKeepsClaims ==
  ASSUME TypeOK, Undisturbed, ClaimInv, GatewayNext
  PROVE  \A q \in Reqs : req'[q].pc \notin {"fence", "wipe"}
  <1> USE DEF TypeOK, TypeOKGateway, Request, OverRequest, IdleRequest, sharedVars
  <1>1. PICK q \in Reqs : \/ RetryRead(q) \/ CancelRead(q) \/ StopRead(q)
                          \/ GatewayStep(q) \/ GatewayCrash(q)
    BY DEF GatewayNext
  <1>2. req[q] \in Request /\ req[q].pc \notin {"fence", "wipe"}
    BY DEF ClaimInv
  <1>3. ~CancelRead(q) /\ ~StopRead(q) /\ ~BumpEpoch(q) /\ ~Wipe(q)
    BY <1>2 DEF Undisturbed, CancelRead, StopRead, BumpEpoch, Wipe
  <1>4. req'[q].pc \notin {"fence", "wipe"} /\ \A p \in Reqs : p # q => req'[p] = req[p]
    <2>1. CASE RetryRead(q)
      BY <1>2, <2>1 DEF RetryRead
    <2>2. CASE RetryResults(q)
      BY <1>2, <2>2 DEF RetryResults
    <2>3. CASE RetryUncount(q) \/ RetryEpoch(q)
      BY <1>2, <2>3 DEF RetryUncount, RetryEpoch
    <2>4. CASE ResetStatus(q) \/ Emit(q) \/ GatewayCrash(q)
      BY <1>2, <2>4 DEF ResetStatus, Emit, GatewayCrash
    <2>5. QED
      BY <1>1, <1>3, <2>1, <2>2, <2>3, <2>4 DEF GatewayStep
  <1>5. QED
    BY <1>2, <1>4 DEF ClaimInv

LEMMA SynKeepsClaims ==
  ASSUME TypeOK, Undisturbed, ClaimInv, SynNext, UNCHANGED req
  PROVE  ClaimInv'
  <1> USE DEF TypeOK, TypeOKShared, TypeOKSyn, ClaimInv, Holder, BeforeReport, Claimed, HasReport,
              sharedVars, jobVars, countVars, keyVars, queueVars
  <1>1. CASE LockExpires
    BY <1>1 DEF LockExpires, Undisturbed
  <1>2. CASE SynCrash
    BY <1>2 DEF SynCrash, IdleCall
  <1>3. ASSUME NEW s \in Callers, SynStep(s) \/ SynError(s)
        PROVE  ClaimInv'
    <2>1. syn[s] \in Call
      OBVIOUS
    <2>2. \A pc : [syn[s] EXCEPT !.pc = pc].pc = pc
      BY <2>1 DEF Call
    <2>3. IdleCall.pc = "idle" /\ \A pc : [IdleCall EXCEPT !.pc = pc].pc = pc
      BY DEF IdleCall
    <2>4. ASSUME NEW c, SetCall(s, c)
          PROVE  syn'[s] = c /\ \A t \in Callers : t # s => syn'[t] = syn[t]
      BY <2>4 DEF SetCall
    <2>5. ASSUME NEW c, SetCall(s, c), c.pc \in Claimed => Holder(s),
                 c.pc \in {"cancelled", "load", "compose", "create"} => BeforeReport(s),
                 UNCHANGED <<report, lock>>
          PROVE  ClaimInv'
      BY <2>4, <2>5
    <2>6. ASSUME NEW pc, SynGoto(s, pc), pc \in Claimed => Holder(s),
                 pc \in {"cancelled", "load", "compose", "create"} => BeforeReport(s),
                 UNCHANGED <<report, lock>>
          PROVE  ClaimInv'
      BY ZenonT(40), <2>1, <2>2, <2>5, <2>6 DEF SynGoto
    <2>7. CASE SweepStart(s)
      BY <2>6, <2>7 DEF SweepStart
    <2>8. CASE SweepReadDone(s)
      <3>1. [syn[s] EXCEPT !.pc = "sweepExpected", !.cnt = Cardinality(done)].pc = "sweepExpected"
        BY <2>1 DEF Call
      <3>2. QED
        BY <2>5, <2>8, <3>1 DEF SweepReadDone
    <2>9. CASE SweepReadExpected(s)
      <3>1. PICK pc \in {"sweepRows", "claim", "idle"} : SetCall(s, [IdleCall EXCEPT !.pc = pc])
        BY <2>9 DEF SweepReadExpected
      <3>2. [IdleCall EXCEPT !.pc = pc].pc = pc
        BY <2>3
      <3>3. UNCHANGED <<report, lock>>
        BY <2>9 DEF SweepReadExpected
      <3>4. QED
        BY <2>5, <3>1, <3>2, <3>3
    <2>10. CASE SweepCountRows(s)
      BY <2>6, <2>10 DEF SweepCountRows
    <2>11. CASE Wake(s) \/ SweepClaim(s)
      <3>1. SynGoto(s, IF lock THEN "idle" ELSE "hasReport") /\ lock' = TRUE /\ UNCHANGED report
        BY <2>11 DEF Wake, SweepClaim, Claim
      <3>2. CASE lock
        BY <2>6, <3>1, <3>2
      <3>3. CASE ~lock
        <4>1. \A t \in Callers : ~Holder(t)
          BY <3>3
        <4>2. syn'[s].pc = "hasReport" /\ \A t \in Callers : t # s => syn'[t] = syn[t]
          <5>1. SetCall(s, [syn[s] EXCEPT !.pc = "hasReport"])
            BY <3>1, <3>3 DEF SynGoto
          <5>2. [syn[s] EXCEPT !.pc = "hasReport"].pc = "hasReport"
            BY <2>1 DEF Call
          <5>3. QED
            BY <2>4, <5>1, <5>2
        <4>3. QED
          BY <3>1, <4>1, <4>2
      <3>4. QED
        BY <3>2, <3>3
    <2>12. CASE CheckReport(s)
      <3>1. CASE HasReport
        BY <2>6, <2>12, <3>1 DEF CheckReport
      <3>2. CASE ~HasReport
        <4>1. syn'[s].pc = "cancelled" /\ \A t \in Callers : t # s => syn'[t] = syn[t]
          BY <2>1, <2>2, <2>4, <2>12, <3>2 DEF CheckReport, SynGoto
        <4>2. UNCHANGED <<report, lock>> /\ Holder(s)
          BY <2>12 DEF CheckReport
        <4>3. QED
          BY <3>2, <4>1, <4>2
      <3>3. QED
        BY <3>1, <3>2
    <2>13. CASE CheckCancelled(s)
      BY <2>6, <2>13 DEF CheckCancelled
    <2>14. CASE LoadRows(s)
      <3>1. [IdleCall EXCEPT !.pc = "compose", !.input = latest].pc = "compose"
        BY DEF IdleCall
      <3>2. QED
        BY <2>2, <2>3, <2>5, <2>14, <3>1 DEF LoadRows
    <2>15. CASE Compose(s)
      BY <2>2, <2>3, <2>5, <2>6, <2>15 DEF Compose
    <2>16. CASE CreateReport(s)
      <3>1. ~HasReport /\ Holder(s)
        BY <2>16 DEF CreateReport
      <3>2. syn'[s].pc = "finish" /\ \A t \in Callers : t # s => syn'[t] = syn[t]
        <4>1. SetCall(s, [IdleCall EXCEPT !.pc = "finish"])
          BY <2>16, <3>1 DEF CreateReport
        <4>2. [IdleCall EXCEPT !.pc = "finish"].pc = "finish"
          BY <2>3
        <4>3. QED
          BY <2>4, <4>1, <4>2
      <3>3. UNCHANGED lock
        BY <2>16 DEF CreateReport
      <3>4. QED
        BY <3>1, <3>2, <3>3
    <2>17. CASE Finish(s)
      BY <2>6, <2>17 DEF Finish
    <2>18. CASE FailJob(s)
      BY <2>6, <2>18 DEF FailJob
    <2>19. CASE Cleanup(s)
      BY <2>3, <2>5, <2>19 DEF Cleanup, SynLeave
    <2>20. CASE SynError(s)
      BY ZenonT(40), <2>2, <2>3, <2>5, <2>20 DEF SynError, InTry
    <2>21. QED
      BY <1>3, <2>7, <2>8, <2>9, <2>10, <2>11, <2>12, <2>13, <2>14, <2>15, <2>16, <2>17,
         <2>18, <2>19, <2>20 DEF SynStep
  <1>4. QED
    BY <1>1, <1>2, <1>3 DEF SynNext

LEMMA ClaimStep ==
  ASSUME Undisturbed
  PROVE  TypeOK /\ ClaimInv /\ [Next]_vars => ClaimInv'
  <1> SUFFICES ASSUME TypeOK, ClaimInv, [Next]_vars PROVE ClaimInv'
    OBVIOUS
  <1>1. ASSUME UNCHANGED <<report, lock, syn>>, \A q \in Reqs : req'[q].pc \notin {"fence", "wipe"}
        PROVE  ClaimInv'
    BY <1>1 DEF ClaimInv, Holder, BeforeReport, HasReport
  <1>2. CASE GatewayNext /\ UNCHANGED <<orchVars, workerVars, synVars>>
    BY <1>1, <1>2, GatewayFrame, GatewayKeepsClaims DEF synVars, ClaimInv
  <1>3. CASE OrchNext /\ UNCHANGED <<gatewayVars, workerVars, synVars>>
    BY <1>1, <1>3, OrchFrame DEF gatewayVars, synVars, ClaimInv
  <1>4. CASE WorkerNext /\ UNCHANGED <<gatewayVars, orchVars, synVars>>
    BY <1>1, <1>4, WorkerFrame DEF gatewayVars, synVars, ClaimInv
  <1>5. CASE SynNext /\ UNCHANGED <<gatewayVars, orchVars, workerVars>>
    BY <1>5, SynKeepsClaims DEF gatewayVars
  <1>6. CASE Age /\ UNCHANGED <<gatewayVars, orchVars, workerVars, synVars>>
    BY <1>1, <1>6 DEF Age, gatewayVars, synVars, keyVars, ClaimInv
  <1>7. CASE UNCHANGED vars
    BY <1>1, <1>7 DEF vars, sharedVars, jobVars, keyVars, gatewayVars, synVars, ClaimInv
  <1>8. QED
    BY <1>2, <1>3, <1>4, <1>5, <1>6, <1>7 DEF Next

LEMMA ClaimIsExclusive == ClaimInv => OneSynthesis
  <1> SUFFICES ASSUME ClaimInv PROVE OneSynthesis
    OBVIOUS
  <1> USE DEF ClaimInv, Holder, BeforeReport, Claimed
  <1>1. \A s \in Composing : s \in Callers /\ Holder(s) /\ ~HasReport
    BY DEF Composing
  <1>2. Cardinality(Composing) <= 1
    <2>1. CASE Composing = {}
      BY <2>1, FS_EmptySet
    <2>2. ASSUME NEW s \in Composing PROVE Cardinality(Composing) <= 1
      <3>1. Composing = {s}
        BY <1>1
      <3>2. Cardinality({s}) = 1
        BY FS_Singleton
      <3>3. QED
        BY <3>1, <3>2
    <2>3. QED
      BY <2>1, <2>2
  <1>3. QED
    BY <1>1, <1>2 DEF OneSynthesis

\* At most one call at a time pays for a synthesis, and none once the report
\* exists, for any number of wakeups and sweeps and whichever of them crash, as
\* long as nobody deletes the claim lock and no synthesis outlives its TTL.
THEOREM SynthesisIsExclusive == ASSUME Undisturbed PROVE Spec => []OneSynthesis
  <1>1. TypeOK /\ ClaimInv /\ [Next]_vars => ClaimInv'
    BY ClaimStep
  <1>2. QED
    BY ClaimInit, TypeCorrect, ClaimIsExclusive, <1>1, PTL DEF Spec

(***************************************************************************)
(* The claim lock when the user does interfere: each increment of the      *)
(* epoch deletes the lock at most once, and a deleted lock lets one more   *)
(* call in.  A request between the two has its deletion still to come.     *)
(***************************************************************************)
Holders == {s \in Callers : Holder(s)}
Wipers == {q \in Reqs : req[q].pc = "wipe"}

HoldersInv ==
    /\ IsFiniteSet(Holders) /\ IsFiniteSet(Wipers)
    /\ Cardinality(Wipers) <= epoch
    /\ Cardinality(Holders) + Cardinality(Wipers) <= epoch + (IF lock THEN 1 ELSE 0)

LEMMA HoldersInit == Init => HoldersInv
  <1> SUFFICES ASSUME Init PROVE HoldersInv
    OBVIOUS
  <1>1. Holders = {} /\ Wipers = {}
    BY DEF Init, InitSyn, InitGateway, IdleCall, IdleRequest, Holders, Holder, Claimed, Wipers
  <1>2. epoch = 0 /\ lock = FALSE
    BY DEF Init, InitShared
  <1>3. QED
    BY <1>1, <1>2, FS_EmptySet DEF HoldersInv

\* A request is about to delete the lock once it has incremented the epoch.
LEMMA GatewayWipes ==
  ASSUME TypeOK, GatewayNext
  PROVE  \E q \in Reqs :
            \/ /\ Wipers' = Wipers \cup {q} /\ q \notin Wipers
               /\ epoch' = epoch + 1 /\ lock' = lock
            \/ /\ Wipers' = Wipers \ {q} /\ q \in Wipers
               /\ epoch' = epoch /\ lock' = FALSE
            \/ /\ Wipers' \in {Wipers, Wipers \ {q}}
               /\ epoch' = epoch /\ lock' = lock
  <1> USE DEF TypeOK, TypeOKGateway, Request, OverRequest, IdleRequest,
              sharedVars, jobVars, countVars, keyVars, queueVars
  <1>1. PICK q \in Reqs : \/ RetryRead(q) \/ CancelRead(q) \/ StopRead(q)
                          \/ GatewayStep(q) \/ GatewayCrash(q)
    BY DEF GatewayNext
  <1>2. req[q] \in Request
    OBVIOUS
  <1>3. ASSUME NEW pc, req'[q].pc = pc, \A p \in Reqs : p # q => req'[p] = req[p]
        PROVE  Wipers' = IF pc = "wipe" THEN Wipers \cup {q} ELSE Wipers \ {q}
    BY <1>3 DEF Wipers
  <1>4. CASE BumpEpoch(q)
    <2>1. req'[q].pc = "wipe" /\ \A p \in Reqs : p # q => req'[p] = req[p]
      BY <1>2, <1>4 DEF BumpEpoch
    <2>2. q \notin Wipers
      BY <1>4 DEF BumpEpoch, Wipers
    <2>3. QED
      BY <1>3, <1>4, <2>1, <2>2 DEF BumpEpoch
  <1>5. CASE Wipe(q)
    <2>1. req'[q].pc = "reset" /\ \A p \in Reqs : p # q => req'[p] = req[p]
      BY <1>2, <1>5 DEF Wipe
    <2>2. q \in Wipers
      BY <1>5 DEF Wipe, Wipers
    <2>3. QED
      BY <1>3, <1>5, <2>1, <2>2 DEF Wipe
  <1>6. CASE ~BumpEpoch(q) /\ ~Wipe(q)
    <2>1. /\ req'[q].pc # "wipe" /\ \A p \in Reqs : p # q => req'[p] = req[p]
          /\ epoch' = epoch /\ lock' = lock
      <3>1. CASE RetryRead(q) \/ CancelRead(q) \/ StopRead(q)
        BY <1>2, <3>1 DEF RetryRead, CancelRead, StopRead
      <3>2. CASE RetryResults(q)
        BY <1>2, <3>2 DEF RetryResults
      <3>3. CASE RetryUncount(q) \/ RetryEpoch(q)
        BY <1>2, <3>3 DEF RetryUncount, RetryEpoch
      <3>4. CASE ResetStatus(q) \/ Emit(q) \/ GatewayCrash(q)
        BY <1>2, <3>4 DEF ResetStatus, Emit, GatewayCrash
      <3>5. QED
        BY <1>1, <1>6, <3>1, <3>2, <3>3, <3>4 DEF GatewayStep
    <2>2. Wipers' = Wipers \ {q}
      BY <1>3, <2>1
    <2>3. QED
      BY <2>1, <2>2
  <1>7. QED
    BY <1>4, <1>5, <1>6

\* A call holds the lock because it did before or because it has just taken it.
LEMMA SynHolds ==
  ASSUME TypeOK, "slowSynth" \notin Mishaps, SynNext
  PROVE  /\ epoch' = epoch
         /\ \/ lock' = lock /\ Holders' \subseteq Holders
            \/ ~lock /\ lock' /\ \E s \in Callers : Holders' \subseteq Holders \cup {s}
            \/ ~lock' /\ Holders = {} /\ Holders' = Holders
  <1> USE DEF TypeOK, TypeOKShared, TypeOKSyn, Holders, Holder,
              sharedVars, jobVars, countVars, keyVars, queueVars
  <1>1. CASE LockExpires
    BY <1>1 DEF LockExpires
  <1>2. CASE SynCrash
    BY <1>2 DEF SynCrash, IdleCall, Claimed
  <1>3. ASSUME NEW s \in Callers, SynStep(s) \/ SynError(s)
        PROVE  /\ epoch' = epoch
               /\ \/ lock' = lock /\ Holders' \subseteq Holders
                  \/ ~lock /\ lock' /\ Holders' \subseteq Holders \cup {s}
    <2>1. syn[s] \in Call
      OBVIOUS
    <2>2. \A pc : [syn[s] EXCEPT !.pc = pc].pc = pc
      BY <2>1 DEF Call
    <2>3. IdleCall.pc = "idle" /\ \A pc : [IdleCall EXCEPT !.pc = pc].pc = pc
      BY DEF IdleCall
    <2>4. ASSUME NEW c, SetCall(s, c)
          PROVE  syn'[s] = c /\ \A t \in Callers : t # s => syn'[t] = syn[t]
      BY <2>4 DEF SetCall
    <2>5. ASSUME NEW c, SetCall(s, c), c.pc \in Claimed => syn[s].pc \in Claimed
          PROVE  Holders' \subseteq Holders
      BY <2>4, <2>5
    <2>6. ASSUME NEW pc, SynGoto(s, pc), pc \in Claimed => syn[s].pc \in Claimed
          PROVE  Holders' \subseteq Holders
      <3> DEFINE c == [syn[s] EXCEPT !.pc = pc]
      <3>1. SetCall(s, c) /\ c.pc = pc
        BY <2>2, <2>6 DEF SynGoto
      <3> HIDE DEF c
      <3>2. QED
        BY <2>5, <2>6, <3>1
    <2>7. CASE SweepStart(s)
      BY <2>6, <2>7 DEF SweepStart, Claimed
    <2>8. CASE SweepReadDone(s)
      <3>1. [syn[s] EXCEPT !.pc = "sweepExpected", !.cnt = Cardinality(done)].pc = "sweepExpected"
        BY <2>1 DEF Call
      <3>2. QED
        BY <2>5, <2>8, <3>1 DEF SweepReadDone, Claimed
    <2>9. CASE SweepReadExpected(s)
      <3>1. PICK pc \in {"sweepRows", "claim", "idle"} : SetCall(s, [IdleCall EXCEPT !.pc = pc])
        BY <2>9 DEF SweepReadExpected
      <3>2. UNCHANGED <<epoch, lock>>
        BY <2>9 DEF SweepReadExpected
      <3>3. QED
        BY <2>3, <2>5, <3>1, <3>2 DEF Claimed
    <2>10. CASE SweepCountRows(s)
      BY <2>6, <2>10 DEF SweepCountRows, Claimed
    <2>11. CASE Wake(s) \/ SweepClaim(s)
      <3>1. /\ SynGoto(s, IF lock THEN "idle" ELSE "hasReport") /\ lock' = TRUE /\ UNCHANGED epoch
        BY <2>11 DEF Wake, SweepClaim, Claim
      <3>2. CASE lock
        BY <2>6, <3>1, <3>2 DEF Claimed
      <3>3. CASE ~lock
        BY <2>4, <3>1, <3>3 DEF SynGoto
      <3>4. QED
        BY <3>2, <3>3
    <2>12. CASE CheckReport(s)
      BY <2>6, <2>12 DEF CheckReport, Claimed
    <2>13. CASE CheckCancelled(s)
      BY <2>6, <2>13 DEF CheckCancelled, Claimed
    <2>14. CASE LoadRows(s)
      <3>1. [IdleCall EXCEPT !.pc = "compose", !.input = latest].pc = "compose"
        BY DEF IdleCall
      <3>2. QED
        BY <2>3, <2>5, <2>14, <3>1 DEF LoadRows, Claimed
    <2>15. CASE Compose(s)
      BY <2>3, <2>5, <2>6, <2>15 DEF Compose, Claimed
    <2>16. CASE CreateReport(s)
      BY <2>3, <2>5, <2>16 DEF CreateReport, Claimed
    <2>17. CASE Finish(s) \/ FailJob(s)
      BY <2>6, <2>17 DEF Finish, FailJob, Claimed
    <2>18. CASE Cleanup(s)
      BY <2>3, <2>5, <2>18 DEF Cleanup, SynLeave, Claimed
    <2>19. CASE SynError(s)
      BY ZenonT(40), <2>3, <2>5, <2>19 DEF SynError, InTry, Claimed
    <2>20. QED
      BY <1>3, <2>7, <2>8, <2>9, <2>10, <2>11, <2>12, <2>13, <2>14, <2>15, <2>16, <2>17,
         <2>18, <2>19 DEF SynStep
  <1>4. QED
    BY <1>1, <1>2, <1>3 DEF SynNext

LEMMA HoldersStep ==
  ASSUME "slowSynth" \notin Mishaps
  PROVE  TypeOK /\ HoldersInv /\ [Next]_vars => HoldersInv'
  <1> SUFFICES ASSUME TypeOK, HoldersInv, [Next]_vars PROVE HoldersInv'
    OBVIOUS
  <1>1. /\ epoch \in Nat /\ lock \in BOOLEAN
        /\ IsFiniteSet(Holders) /\ Cardinality(Holders) \in Nat
        /\ IsFiniteSet(Wipers) /\ Cardinality(Wipers) \in Nat
        /\ Cardinality(Wipers) <= epoch
        /\ Cardinality(Holders) + Cardinality(Wipers) <= epoch + (IF lock THEN 1 ELSE 0)
    BY FS_CardinalityType DEF TypeOK, TypeOKShared, HoldersInv
  <1>2. ASSUME UNCHANGED <<syn, req, epoch, lock>> PROVE HoldersInv'
    BY <1>1, <1>2 DEF HoldersInv, Holders, Holder, Wipers
  <1>3. CASE GatewayNext /\ UNCHANGED <<orchVars, workerVars, synVars>>
    <2>1. PICK q \in Reqs :
             \/ /\ Wipers' = Wipers \cup {q} /\ q \notin Wipers
                /\ epoch' = epoch + 1 /\ lock' = lock
             \/ /\ Wipers' = Wipers \ {q} /\ q \in Wipers
                /\ epoch' = epoch /\ lock' = FALSE
             \/ /\ Wipers' \in {Wipers, Wipers \ {q}}
                /\ epoch' = epoch /\ lock' = lock
      BY <1>3, GatewayWipes
    <2>2. Holders' = Holders
      BY <1>3 DEF synVars, Holders, Holder
    <2>3. /\ IsFiniteSet(Wipers \cup {q}) /\ IsFiniteSet(Wipers \ {q})
          /\ Cardinality(Wipers \cup {q}) =
                IF q \in Wipers THEN Cardinality(Wipers) ELSE Cardinality(Wipers) + 1
          /\ Cardinality(Wipers \ {q}) =
                IF q \in Wipers THEN Cardinality(Wipers) - 1 ELSE Cardinality(Wipers)
      BY <1>1, FS_AddElement, FS_RemoveElement
    <2> DEFINE held == Cardinality(Holders)
               wiping == Cardinality(Wipers)
               now == Cardinality(Wipers')
    <2>4. HoldersInv' <=> /\ IsFiniteSet(Wipers') /\ now <= epoch'
                          /\ held + now <= epoch' + (IF lock' THEN 1 ELSE 0)
      BY <1>1, <2>2 DEF HoldersInv
    <2>5. CASE Wipers' = Wipers \cup {q} /\ q \notin Wipers /\ epoch' = epoch + 1 /\ lock' = lock
      <3>1. now = wiping + 1 /\ IsFiniteSet(Wipers')
        BY <2>3, <2>5
      <3>2. now <= epoch' /\ held + now <= epoch' + (IF lock' THEN 1 ELSE 0)
        BY <1>1, <2>5, <3>1
      <3>3. QED
        BY <2>4, <3>1, <3>2
    <2>6. CASE Wipers' = Wipers \ {q} /\ q \in Wipers /\ epoch' = epoch /\ lock' = FALSE
      <3>1. now = wiping - 1 /\ IsFiniteSet(Wipers')
        BY <2>3, <2>6
      <3>2. now <= epoch' /\ held + now <= epoch' + (IF lock' THEN 1 ELSE 0)
        BY <1>1, <2>6, <3>1
      <3>3. QED
        BY <2>4, <3>1, <3>2
    <2>7. CASE Wipers' \in {Wipers, Wipers \ {q}} /\ epoch' = epoch /\ lock' = lock
      <3>1. now \in {wiping, wiping - 1} /\ IsFiniteSet(Wipers')
        BY <1>1, <2>3, <2>7
      <3>2. now <= epoch' /\ held + now <= epoch' + (IF lock' THEN 1 ELSE 0)
        BY <1>1, <2>7, <3>1
      <3>3. QED
        BY <2>4, <3>1, <3>2
    <2>8. QED
      BY <2>1, <2>5, <2>6, <2>7
  <1>4. CASE OrchNext /\ UNCHANGED <<gatewayVars, workerVars, synVars>>
    BY <1>2, <1>4, OrchFrame DEF gatewayVars, synVars
  <1>5. CASE WorkerNext /\ UNCHANGED <<gatewayVars, orchVars, synVars>>
    BY <1>2, <1>5, WorkerFrame DEF gatewayVars, synVars
  <1>6. CASE SynNext /\ UNCHANGED <<gatewayVars, orchVars, workerVars>>
    <2>1. Wipers' = Wipers /\ epoch' = epoch
      BY <1>6, SynHolds DEF gatewayVars, Wipers
    <2>2. CASE lock' = lock /\ Holders' \subseteq Holders
      <3>1. IsFiniteSet(Holders') /\ Cardinality(Holders') <= Cardinality(Holders)
            /\ Cardinality(Holders') \in Nat
        BY <1>1, <2>2, FS_Subset, FS_CardinalityType
      <3>2. QED
        BY <1>1, <2>1, <2>2, <3>1 DEF HoldersInv
    <2>3. ASSUME ~lock, lock', NEW s \in Callers, Holders' \subseteq Holders \cup {s}
          PROVE  HoldersInv'
      <3>1. IsFiniteSet(Holders \cup {s}) /\ Cardinality(Holders \cup {s}) <= Cardinality(Holders) + 1
        <4>1. /\ IsFiniteSet(Holders \cup {s})
              /\ Cardinality(Holders \cup {s}) =
                    IF s \in Holders THEN Cardinality(Holders) ELSE Cardinality(Holders) + 1
          BY <1>1, FS_AddElement
        <4>2. Cardinality(Holders) <= Cardinality(Holders) + 1
          BY <1>1
        <4>3. QED
          BY <1>1, <4>1, <4>2
      <3>2. IsFiniteSet(Holders') /\ Cardinality(Holders') <= Cardinality(Holders \cup {s})
            /\ Cardinality(Holders') \in Nat /\ Cardinality(Holders \cup {s}) \in Nat
        BY <2>3, <3>1, FS_Subset, FS_CardinalityType
      <3>3. QED
        BY <1>1, <2>1, <2>3, <3>1, <3>2 DEF HoldersInv
    <2>4. CASE ~lock' /\ Holders = {} /\ Holders' = Holders
      <3>1. Cardinality(Holders') = 0 /\ IsFiniteSet(Holders')
        BY <1>1, <2>4, FS_EmptySet
      <3>2. Cardinality(Holders') + Cardinality(Wipers') <= epoch' + 0
        BY <1>1, <2>1, <3>1
      <3>3. QED
        BY <1>1, <2>1, <2>4, <3>1, <3>2 DEF HoldersInv
    <2>5. QED
      BY <1>6, <2>2, <2>3, <2>4, SynHolds
  <1>7. CASE Age /\ UNCHANGED <<gatewayVars, orchVars, workerVars, synVars>>
    BY <1>2, <1>7 DEF Age, gatewayVars, synVars, keyVars
  <1>8. CASE UNCHANGED vars
    BY <1>2, <1>8 DEF vars, sharedVars, keyVars, gatewayVars, synVars
  <1>9. QED
    BY <1>3, <1>4, <1>5, <1>6, <1>7, <1>8 DEF Next

\* Whatever the user and the faults do, at most one call more than there were
\* force-stops and cancels pays for a synthesis at a time, as long as no
\* synthesis outlives the TTL of its lock.
THEOREM SynthesesAreBounded ==
  ASSUME "slowSynth" \notin Mishaps
  PROVE  Spec => []SynthesesBounded
  <1>1. TypeOK /\ HoldersInv /\ [Next]_vars => HoldersInv'
    BY HoldersStep
  <1>2. TypeOK /\ HoldersInv => SynthesesBounded
    <2> SUFFICES ASSUME TypeOK, HoldersInv PROVE SynthesesBounded
      OBVIOUS
    <2>1. Composing \subseteq Holders
      BY DEF Composing, Holders, Holder, Claimed
    <2>2. IsFiniteSet(Holders) /\ Cardinality(Composing) <= Cardinality(Holders)
          /\ Cardinality(Composing) \in Nat
      BY <2>1, FS_Subset, FS_CardinalityType DEF HoldersInv
    <2>3. Cardinality(Holders) \in Nat /\ Cardinality(Wipers) \in Nat /\ epoch \in Nat
      BY FS_CardinalityType DEF HoldersInv, TypeOK, TypeOKShared
    <2>4. QED
      BY <2>2, <2>3 DEF HoldersInv, SynthesesBounded
  <1>3. QED
    BY HoldersInit, TypeCorrect, <1>1, <1>2, PTL DEF Spec

(***************************************************************************)
(* The token budget of a job.  The counter alone says nothing about the    *)
(* agents that passed the check and have not billed yet: the invariant     *)
(* counts them with it.                                                    *)
(***************************************************************************)
\* Only the normal path goes through these.
Normal == {"idle", "fence", "budget", "turn", "call", "bill"}
\* Between the budget check and the bill.
Spending == {"turn", "call", "bill"}
Spenders == {x \in Reqs \X Agents : task[x[1]][x[2]].pc \in Spending}

BudgetInv ==
    /\ IsFiniteSet(SlotHolders) /\ Cardinality(SlotHolders) <= Slots
    /\ \A r \in Reqs, a \in Agents :
          task[r][a].pc \in Normal => task[r][a].mode = "normal"
    /\ tokens + Cardinality(Spenders) <= Budget - 1 + Slots

LEMMA Numbers == Slots \in Nat /\ Slots >= 1 /\ Budget \in Nat /\ Budget >= 1
  BY BoundAssumption

\* Whoever spends holds a slot, so that there are at most Slots of them.
LEMMA SpendersHold ==
  ASSUME TypeOK, BudgetInv
  PROVE  /\ Spenders \subseteq SlotHolders /\ IsFiniteSet(Spenders)
         /\ Cardinality(Spenders) \in Nat /\ Cardinality(SlotHolders) \in Nat
         /\ Cardinality(Spenders) <= Cardinality(SlotHolders) /\ tokens \in Nat
  <1>1. Spenders \subseteq SlotHolders
    BY DEF Spenders, SlotHolders, BudgetInv, Spending, Normal, HoldsSlot, Busy
  <1>2. IsFiniteSet(SlotHolders)
    BY DEF BudgetInv
  <1> QED
    BY <1>1, <1>2, FS_Subset, FS_CardinalityType DEF TypeOK, TypeOKShared

LEMMA BudgetInit == Init => BudgetInv
  <1> SUFFICES ASSUME Init PROVE BudgetInv
    OBVIOUS
  <1>1. SlotHolders = {} /\ Spenders = {}
    BY DEF Init, InitWorker, IdleTask, SlotHolders, HoldsSlot, Busy, Spenders, Spending
  <1>2. tokens = 0 /\ \A r \in Reqs, a \in Agents : task[r][a].mode = "normal"
    BY DEF Init, InitShared, InitWorker, IdleTask
  <1> QED
    BY <1>1, <1>2, FS_EmptySet, Numbers DEF BudgetInv

\* A step of one handler: nobody takes a slot when all are taken, nobody starts
\* to spend when the budget is used up, and who bills has stopped spending.
LEMMA OneHandler ==
  ASSUME TypeOK, BudgetInv, NEW r \in Reqs, NEW a \in Agents, NEW t, SetTask(r, a, t),
         t.pc \in Normal => t.mode = "normal",
         t.pc # "idle" /\ t.mode # "dlq" => HoldsSlot(r, a) \/ Cardinality(SlotHolders) < Slots,
         tokens' \in Nat,
         \/ t.pc \in Spending /\ tokens' = tokens /\ (task[r][a].pc \in Spending \/ tokens < Budget)
         \/ t.pc \notin Spending /\ tokens' = tokens
         \/ t.pc \notin Spending /\ tokens' = tokens + 1 /\ task[r][a].pc \in Spending
  PROVE  BudgetInv'
  <1> DEFINE x == <<r, a>>
  <1>0. /\ Spenders \subseteq SlotHolders /\ IsFiniteSet(Spenders) /\ IsFiniteSet(SlotHolders)
        /\ Cardinality(Spenders) \in Nat /\ Cardinality(SlotHolders) \in Nat
        /\ Cardinality(Spenders) <= Cardinality(SlotHolders) /\ tokens \in Nat
        /\ Cardinality(SlotHolders) <= Slots /\ tokens + Cardinality(Spenders) <= Budget - 1 + Slots
    BY SpendersHold DEF BudgetInv
  <1>1. \A r2 \in Reqs, a2 \in Agents : task'[r2][a2] = IF r2 = r /\ a2 = a THEN t ELSE task[r2][a2]
    BY DEF SetTask, TypeOK, TypeOKWorker
  <1>2. SlotHolders' = IF t.pc # "idle" /\ t.mode # "dlq" THEN SlotHolders \cup {x} ELSE SlotHolders \ {x}
    BY <1>1 DEF SlotHolders, HoldsSlot, Busy
  <1>3. Spenders' = IF t.pc \in Spending THEN Spenders \cup {x} ELSE Spenders \ {x}
    BY <1>1 DEF Spenders
  <1>4. IsFiniteSet(SlotHolders') /\ Cardinality(SlotHolders') <= Slots
    <2>1. CASE t.pc # "idle" /\ t.mode # "dlq"
      <3>1. x \in SlotHolders \/ Cardinality(SlotHolders) < Slots
        BY <2>1 DEF SlotHolders
      <3>2. /\ IsFiniteSet(SlotHolders \cup {x})
            /\ Cardinality(SlotHolders \cup {x}) = IF x \in SlotHolders THEN Cardinality(SlotHolders)
                                                   ELSE Cardinality(SlotHolders) + 1
        BY <1>0, FS_AddElement
      <3> QED
        BY <1>0, <1>2, <2>1, <3>1, <3>2, Numbers
    <2>2. CASE ~(t.pc # "idle" /\ t.mode # "dlq")
      <3>1. IsFiniteSet(SlotHolders \ {x}) /\ Cardinality(SlotHolders \ {x}) <= Cardinality(SlotHolders)
        BY <1>0, FS_Subset
      <3>2. Cardinality(SlotHolders \ {x}) \in Nat
        BY <3>1, FS_CardinalityType
      <3> QED
        BY <1>0, <1>2, <2>2, <3>1, <3>2, Numbers
    <2> QED
      BY <2>1, <2>2
  <1>5. \A r2 \in Reqs, a2 \in Agents :
           task'[r2][a2].pc \in Normal => task'[r2][a2].mode = "normal"
    BY <1>1 DEF BudgetInv
  <1>6. tokens' + Cardinality(Spenders') <= Budget - 1 + Slots
    <2>1. CASE t.pc \in Spending /\ task[r][a].pc \in Spending
      <3>1. Spenders' = Spenders
        BY <1>3, <2>1 DEF Spenders
      <3> QED
        BY <1>0, <2>1, <3>1
    <2>2. CASE t.pc \in Spending /\ task[r][a].pc \notin Spending
      <3>1. Spenders' \subseteq SlotHolders'
        BY <1>1, <1>5 DEF Spenders, SlotHolders, Spending, Normal, HoldsSlot, Busy
      <3>2. Cardinality(Spenders') <= Cardinality(SlotHolders') /\ Cardinality(Spenders') \in Nat
            /\ Cardinality(SlotHolders') \in Nat
        BY <1>4, <3>1, FS_Subset, FS_CardinalityType
      <3> QED
        BY <1>0, <1>4, <2>2, <3>2, Numbers
    <2>3. CASE t.pc \notin Spending
      <3>1. Spenders' = Spenders \ {x} /\ (x \in Spenders <=> task[r][a].pc \in Spending)
        BY <1>3, <2>3 DEF Spenders
      <3>2. Cardinality(Spenders') = IF x \in Spenders THEN Cardinality(Spenders) - 1 ELSE Cardinality(Spenders)
        BY <1>0, <3>1, FS_RemoveElement
      <3> QED
        BY <1>0, <2>3, <3>1, <3>2, Numbers
    <2> QED
      BY <2>1, <2>2, <2>3
  <1> QED
    BY <1>4, <1>5, <1>6 DEF BudgetInv

LEMMA WorkerKeepsBudget ==
  ASSUME TypeOK, BudgetInv, WorkerNext
  PROVE  BudgetInv'
  <1> USE DEF sharedVars, keyVars
  <1>1. CASE WorkerCrash
    <2>1. \A r \in Reqs, a \in Agents : task'[r][a].pc = "idle" /\ task'[r][a].mode = "normal"
      BY <1>1 DEF WorkerCrash, IdleTask
    <2>2. SlotHolders' = {} /\ Spenders' = {} /\ tokens' = tokens
      BY <1>1, <2>1 DEF WorkerCrash, SlotHolders, HoldsSlot, Busy, Spenders, Spending
    <2> QED
      BY <2>1, <2>2, SpendersHold, FS_EmptySet, Numbers DEF BudgetInv, Spending
  <1>2. ASSUME NEW r \in Reqs, NEW a \in Agents, WorkerStep(r, a) \/ WorkerError(r, a)
        PROVE  BudgetInv'
    <2>0. task[r][a] \in Task /\ tokens \in Nat
      BY DEF TypeOK, TypeOKShared, TypeOKWorker
    <2>1. task[r][a].pc \in Normal => task[r][a].mode = "normal"
      BY DEF BudgetInv
    \* Most steps leave the counter alone.
    <2>2. ASSUME NEW t, SetTask(r, a, t), tokens' = tokens, t.pc \in Normal => t.mode = "normal",
                 t.pc # "idle" /\ t.mode # "dlq" => HoldsSlot(r, a) \/ Cardinality(SlotHolders) < Slots,
                 t.pc \in Spending => task[r][a].pc \in Spending \/ tokens < Budget
          PROVE  BudgetInv'
      BY <2>0, <2>2, OneHandler
    <2>3. ASSUME NEW pc, TaskGoto(r, a, pc), tokens' = tokens, Busy(r, a), pc # "idle",
                 pc \in Normal => task[r][a].pc \in Normal,
                 pc \in Spending => task[r][a].pc \in Spending \/ tokens < Budget
          PROVE  BudgetInv'
      <3>1. [task[r][a] EXCEPT !.pc = pc].pc = pc /\ [task[r][a] EXCEPT !.pc = pc].mode = task[r][a].mode
        BY <2>0 DEF Task
      <3> QED
        BY <2>1, <2>2, <2>3, <3>1 DEF TaskGoto, HoldsSlot
    <2>4. ASSUME TaskLeave(r, a), tokens' = tokens
          PROVE  BudgetInv'
      BY <2>2, <2>4 DEF TaskLeave, IdleTask, Spending
    <2>5. CASE TakeSlot(r, a)
      <3>1. task[r][a].pc = "idle" /\ task[r][a].mode = "normal" /\ Cardinality(SlotHolders) < Slots
            /\ TaskGoto(r, a, "fence") /\ tokens' = tokens
        BY <2>1, <2>5 DEF TakeSlot, Busy, Normal
      <3>2. [task[r][a] EXCEPT !.pc = "fence"].pc = "fence" /\ [task[r][a] EXCEPT !.pc = "fence"].mode = "normal"
        BY <2>0, <3>1 DEF Task
      <3> QED
        BY <2>2, <3>1, <3>2 DEF TaskGoto, Spending
    <2>6. ASSUME NEW next, CheckFence(r, a, next), Busy(r, a), next # "idle",
                 next \in Normal => task[r][a].pc \in Normal,
                 next \in Spending => task[r][a].pc \in Spending
          PROVE  BudgetInv'
      BY <2>3, <2>4, <2>6 DEF CheckFence
    <2>7. CASE FenceAgent(r, a) \/ CheckAlive(r, a) \/ FenceDlq(r, a)
      BY <2>6, <2>7 DEF FenceAgent, CheckAlive, FenceDlq, Busy, Normal, Spending
    <2>8. CASE CheckBudget(r, a)
      <3>1. tokens' = tokens /\ task[r][a].pc = "budget" /\ tokens \in Nat /\ Budget \in Nat
        BY <2>0, <2>8, Numbers DEF CheckBudget
      <3>2. TaskGoto(r, a, "persist") \/ (TaskGoto(r, a, "turn") /\ tokens < Budget)
        BY <2>8, <3>1 DEF CheckBudget
      <3> QED
        BY <2>3, <3>1, <3>2 DEF Busy, Normal, Spending
    <2>9. CASE ModelAnswers(r, a)
      <3>1. PICK ok \in BOOLEAN :
               SetTask(r, a, [task[r][a] EXCEPT !.ok = ok, !.pc = IF ok THEN "bill" ELSE "persist"])
        BY <2>9 DEF ModelAnswers
      <3> DEFINE t == [task[r][a] EXCEPT !.ok = ok, !.pc = IF ok THEN "bill" ELSE "persist"]
      <3>2. t.pc \in {"bill", "persist"} /\ t.mode = task[r][a].mode
        BY <2>0 DEF Task
      <3>3. task[r][a].pc = "call" /\ tokens' = tokens
        BY <2>9 DEF ModelAnswers
      <3> HIDE DEF t
      <3>4. HoldsSlot(r, a) /\ t.mode = "normal" /\ task[r][a].pc \in Spending
        BY <2>1, <3>2, <3>3 DEF Normal, Spending, HoldsSlot, Busy
      <3>5. SetTask(r, a, t)
        BY <3>1 DEF t
      <3> QED
        BY <2>2, <3>3, <3>4, <3>5
    <2>10. CASE Bill(r, a)
      <3> DEFINE t == [task[r][a] EXCEPT !.pc = "persist"]
      <3>1. SetTask(r, a, t) /\ task[r][a].pc = "bill" /\ tokens' = tokens + 1
        BY <2>10 DEF Bill, TaskGoto
      <3>2. t.pc = "persist" /\ t.mode = task[r][a].mode
        BY <2>0 DEF Task
      <3> HIDE DEF t
      <3>3. HoldsSlot(r, a) /\ t.pc \notin Normal /\ t.pc \notin Spending /\ task[r][a].pc \in Spending
        BY <2>1, <3>1, <3>2 DEF Normal, Spending, HoldsSlot, Busy
      <3>4. tokens' \in Nat
        BY <2>0, <3>1
      <3> QED
        BY <3>1, <3>3, <3>4, OneHandler
    \* A handler past its bill keeps its slot and its mode, or leaves.
    <2>11. ASSUME NEW t, SetTask(r, a, t), tokens' = tokens, Busy(r, a), t.mode = task[r][a].mode \/ t.mode = "dlq",
                  t.pc \notin Normal, t.pc \notin Spending
           PROVE  BudgetInv'
      BY <2>2, <2>11 DEF HoldsSlot
    <2>12. CASE PersistResult(r, a) \/ TallyDone(r, a) \/ CompareExpected(r, a)
      <3>1. tokens' = tokens /\ Busy(r, a)
        BY <2>12 DEF PersistResult, TallyDone, CompareExpected, Busy
      <3>2. CASE PersistResult(r, a)
        <4>1. /\ [task[r][a] EXCEPT !.pc = "count", !.ok = FALSE].pc = "count"
              /\ [task[r][a] EXCEPT !.pc = "count", !.ok = FALSE].mode = task[r][a].mode
          BY <2>0 DEF Task
        <4> QED
          BY <2>11, <3>1, <3>2, <4>1 DEF PersistResult, Normal, Spending
      <3>3. CASE TallyDone(r, a)
        <4>1. /\ [task[r][a] EXCEPT !.pc = "compare", !.cnt = Cardinality(done)].pc = "compare"
              /\ [task[r][a] EXCEPT !.pc = "compare", !.cnt = Cardinality(done)].mode = task[r][a].mode
          BY <2>0 DEF Task
        <4> QED
          BY <2>11, <3>1, <3>3, <4>1 DEF TallyDone, Normal, Spending
      <3>4. CASE CompareExpected(r, a)
        <4>1. PICK pc \in {"notify", "settle"} : SetTask(r, a, [task[r][a] EXCEPT !.cnt = 0, !.pc = pc])
          BY <3>4 DEF CompareExpected
        <4>2. /\ [task[r][a] EXCEPT !.cnt = 0, !.pc = pc].pc = pc
              /\ [task[r][a] EXCEPT !.cnt = 0, !.pc = pc].mode = task[r][a].mode
          BY <2>0 DEF Task
        <4> QED
          BY <2>11, <3>1, <4>1, <4>2 DEF Normal, Spending
      <3> QED
        BY <2>12, <3>2, <3>3, <3>4
    <2>13. CASE CountDone(r, a) \/ NotifyReady(r, a)
      <3>1. tokens' = tokens /\ Busy(r, a) /\ (TaskGoto(r, a, "tally") \/ TaskGoto(r, a, "settle"))
        BY <2>13 DEF CountDone, NotifyReady, Busy
      <3> QED
        BY <2>3, <3>1 DEF Normal, Spending
    <2>14. CASE Settle(r, a)
      BY <2>4, <2>14 DEF Settle
    <2>15. CASE DlqReceive(r, a)
      <3> DEFINE t == [task[r][a] EXCEPT !.pc = "dlqFence", !.mode = "dlq"]
      <3>1. SetTask(r, a, t) /\ tokens' = tokens
        BY <2>15 DEF DlqReceive
      <3>2. t.pc = "dlqFence" /\ t.mode = "dlq"
        BY <2>0 DEF Task
      <3> HIDE DEF t
      <3> QED
        BY <2>2, <3>1, <3>2 DEF Normal, Spending
    <2>16. CASE WorkerError(r, a)
      <3>0. tokens' = tokens /\ Busy(r, a)
        BY <2>16 DEF WorkerError, Busy
      <3>1. CASE task[r][a].mode = "normal" /\ SetTask(r, a, [IdleTask EXCEPT !.pc = "persist", !.mode = "infra"])
        <4>1. /\ [IdleTask EXCEPT !.pc = "persist", !.mode = "infra"].pc = "persist"
              /\ [IdleTask EXCEPT !.pc = "persist", !.mode = "infra"].mode = "infra"
          BY DEF IdleTask
        <4> QED
          BY <2>2, <3>0, <3>1, <4>1 DEF Normal, Spending, HoldsSlot
      <3>2. CASE TaskGoto(r, a, "persist")
        BY <2>3, <3>0, <3>2 DEF Normal, Spending
      <3>3. CASE SetTask(r, a, [task[r][a] EXCEPT !.pc = "settle", !.cnt = 0])
        <4>1. /\ [task[r][a] EXCEPT !.pc = "settle", !.cnt = 0].pc = "settle"
              /\ [task[r][a] EXCEPT !.pc = "settle", !.cnt = 0].mode = task[r][a].mode
          BY <2>0 DEF Task
        <4> QED
          BY <2>11, <3>0, <3>3, <4>1 DEF Normal, Spending
      <3>4. CASE TaskLeave(r, a)
        BY <2>4, <3>0, <3>4
      <3> QED
        BY <2>16, <3>1, <3>2, <3>3, <3>4 DEF WorkerError
    <2> QED
      BY <1>2, <2>5, <2>7, <2>8, <2>9, <2>10, <2>12, <2>13, <2>14, <2>15, <2>16 DEF WorkerStep
  <1> QED
    BY <1>1, <1>2 DEF WorkerNext

\* The counter is incremented by Bill alone; the user's requests may delete it.
LEMMA OthersKeepTokens ==
  ASSUME TypeOK, [Next]_vars, ~(WorkerNext /\ UNCHANGED <<gatewayVars, orchVars, synVars>>)
  PROVE  task' = task /\ tokens' \in {0, tokens}
  <1> USE DEF sharedVars, jobVars, countVars, keyVars, workerVars
  <1>1. CASE GatewayNext /\ UNCHANGED workerVars
    BY <1>1 DEF GatewayNext, GatewayStep, RetryRead, CancelRead, StopRead, RetryResults, RetryUncount,
       RetryEpoch, BumpEpoch, Wipe, ResetStatus, Emit, GatewayCrash
  <1>2. CASE OrchNext /\ UNCHANGED workerVars
    BY <1>2 DEF OrchNext, OrchStep, OrchError, OrchCrash, Receive, FenceAnalysis, MarkRunning,
       AckAnalysis, Index, SetGraphPath, SelectAndExpect, Dispatch, MarkFailed, AnalysisDlq
  <1>3. CASE SynNext /\ UNCHANGED workerVars
    BY <1>3 DEF SynNext, SynStep, SynError, SynCrash, LockExpires, SweepStart, SweepReadDone,
       SweepReadExpected, SweepCountRows, Wake, SweepClaim, Claim, CheckReport,
       CheckCancelled, LoadRows, Compose, CreateReport, Finish, FailJob, Cleanup
  <1>4. CASE Age /\ UNCHANGED workerVars
    BY <1>4 DEF Age
  <1>5. CASE UNCHANGED vars
    BY <1>5 DEF vars
  <1> QED
    BY <1>1, <1>2, <1>3, <1>4, <1>5 DEF Next

LEMMA BudgetStep == TypeOK /\ BudgetInv /\ [Next]_vars => BudgetInv'
  <1> SUFFICES ASSUME TypeOK, BudgetInv, [Next]_vars PROVE BudgetInv'
    OBVIOUS
  <1>1. CASE WorkerNext /\ UNCHANGED <<gatewayVars, orchVars, synVars>>
    BY <1>1, WorkerKeepsBudget
  <1>2. CASE ~(WorkerNext /\ UNCHANGED <<gatewayVars, orchVars, synVars>>)
    <2>1. task' = task /\ tokens' \in {0, tokens}
      BY <1>2, OthersKeepTokens
    <2>2. SlotHolders' = SlotHolders /\ Spenders' = Spenders
      BY <2>1 DEF SlotHolders, HoldsSlot, Busy, Spenders
    <2>3. tokens' + Cardinality(Spenders) <= Budget - 1 + Slots
      BY <2>1, SpendersHold, Numbers DEF BudgetInv
    <2> QED
      BY <2>1, <2>2, <2>3 DEF BudgetInv
  <1> QED
    BY <1>1, <1>2

\* AgentConsumer.handle looks at the budget before it runs the agent and bills
\* after: the job overspends by at most one agent per slot, whatever the user's
\* retries and force-stops and the faults do to the counter and the handlers.
THEOREM OvershootBounded == Spec => []BudgetOvershoot
  <1>1. TypeOK /\ BudgetInv => BudgetOvershoot
    BY SpendersHold, Numbers DEF BudgetInv, BudgetOvershoot
  <1> QED
    BY BudgetInit, BudgetStep, TypeCorrect, <1>1, PTL DEF Spec
=============================================================================
