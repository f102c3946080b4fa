----------------------------- MODULE AgentWorker -----------------------------
(***************************************************************************)
(* The agent-worker: AgentConsumer.handle for each agent message, with the *)
(* infra-failure path of its catch block, and AgentDlqConsumer.handle.     *)
(* Both failure paths end in the same recordInfraFailure, which repeats    *)
(* the bookkeeping of the normal path: insert a row, SADD agents_done,     *)
(* compare the two SCARDs, publish ready_for_synthesis.                    *)
(*                                                                         *)
(* The tool loop of an agent is reduced to its last turn, the check of the *)
(* fence and the call to the model: earlier turns change no shared state.  *)
(***************************************************************************)
EXTENDS JobState

VARIABLE task   \* the handler of each run's message for each agent type

workerVars == <<task>>

TaskPCs == {"idle", "fence", "budget", "turn", "call", "bill", "dlqFence",
            "persist", "count", "tally", "compare", "notify", "settle"}
Modes == {"normal", "infra", "dlq"}
Task == [pc : TaskPCs, mode : Modes, ok : BOOLEAN, cnt : Nat]
IdleTask == [pc |-> "idle", mode |-> "normal", ok |-> FALSE, cnt |-> 0]

InitWorker == task = [r \in Reqs |-> [a \in Agents |-> IdleTask]]
TypeOKWorker == task \in [Reqs -> [Agents -> Task]]

SetTask(r, a, t) == task' = [task EXCEPT ![r][a] = t]
TaskGoto(r, a, pc) == SetTask(r, a, [task[r][a] EXCEPT !.pc = pc])
TaskLeave(r, a) == SetTask(r, a, IdleTask)
MoveMsg(r, a, m) == agentMsg' = [agentMsg EXCEPT ![r][a] = m]
SettleMsg(r, a, place) == MoveMsg(r, a, [at |-> place, tries |-> 0])

Busy(r, a) == task[r][a].pc # "idle"
HoldsSlot(r, a) == Busy(r, a) /\ task[r][a].mode # "dlq"
SlotHolders == {x \in Reqs \X Agents : HoldsSlot(x[1], x[2])}

(***************************************************************************)
(* AgentConsumer.handle                                                    *)
(***************************************************************************)
\* Mutant: the consumer acknowledges on delivery.
AckOnDelivery(r, a) ==
    /\ agentMsg[r][a].at = "ready" /\ ~Busy(r, a)
    /\ Cardinality(SlotHolders) < Slots
    /\ SettleMsg(r, a, "settled")
    /\ TaskGoto(r, a, "fence")
    /\ UNCHANGED <<jobVars, countVars, keyVars, analysis, wakeups, mishaps>>

\* The message waits unacknowledged for one of the execution slots.
TakeSlot(r, a) ==
    /\ agentMsg[r][a].at = "ready" /\ ~Busy(r, a)
    /\ Cardinality(SlotHolders) < Slots
    /\ MoveMsg(r, a, [agentMsg[r][a] EXCEPT !.at = "held"])
    /\ TaskGoto(r, a, "fence")
    /\ UNCHANGED <<jobVars, countVars, keyVars, analysis, wakeups, mishaps>>

\* Mutant: a superseded message is dropped without an ack.
FenceWithoutAck(r, a, next) ==
    /\ IF Stale(r) THEN TaskLeave(r, a) ELSE TaskGoto(r, a, next)
    /\ UNCHANGED sharedVars

\* A read of the epoch: the message of a superseded run is acknowledged and
\* dropped, another one goes on to the step next.
CheckFence(r, a, next) ==
    /\ \/ /\ Stale(r)
          /\ SettleMsg(r, a, "settled")
          /\ TaskLeave(r, a)
       \/ /\ ~Stale(r)
          /\ TaskGoto(r, a, next)
          /\ UNCHANGED agentMsg
    /\ UNCHANGED <<jobVars, countVars, keyVars, analysis, wakeups, mishaps>>

FenceAgent(r, a) == task[r][a].pc = "fence" /\ CheckFence(r, a, "budget")

\* Mutant: the budget check is off by one.
CheckBudgetExceeded(r, a) ==
    /\ task[r][a].pc = "budget"
    /\ TaskGoto(r, a, IF tokens > Budget THEN "persist" ELSE "turn")
    /\ UNCHANGED sharedVars

\* An agent that finds the job's budget spent is recorded as failed.
CheckBudget(r, a) ==
    /\ task[r][a].pc = "budget"
    /\ TaskGoto(r, a, IF tokens >= Budget THEN "persist" ELSE "turn")
    /\ UNCHANGED sharedVars

\* openReadOnly, buildContext and loadFacts read what no step of the model
\* writes; then checkAlive, at the top of the turn.
CheckAlive(r, a) == task[r][a].pc = "turn" /\ CheckFence(r, a, "call")

\* The call to the model returns an accepted emit, or the agent has failed.
ModelAnswers(r, a) ==
    /\ task[r][a].pc = "call"
    /\ \E ok \in BOOLEAN :
          SetTask(r, a, [task[r][a] EXCEPT !.ok = ok, !.pc = IF ok THEN "bill" ELSE "persist"])
    /\ UNCHANGED sharedVars

\* INCRBY tokens_used, for a successful agent only.
Bill(r, a) ==
    /\ task[r][a].pc = "bill"
    /\ tokens' = tokens + 1
    /\ TaskGoto(r, a, "persist")
    /\ UNCHANGED <<jobVars, countVars, epoch, graphPath, lock, queueVars, wakeups, mishaps>>

(***************************************************************************)
(* The completion bookkeeping, of all three modes.                         *)
(***************************************************************************)
\* Mutant: a failed agent leaves no row.
PersistSuccess(r, a) ==
    /\ task[r][a].pc = "persist"
    /\ latest' = IF task[r][a].ok THEN [latest EXCEPT ![a] = Row(TRUE, r)] ELSE latest
    /\ SetTask(r, a, [task[r][a] EXCEPT !.pc = "count", !.ok = FALSE])
    /\ UNCHANGED <<jobStatus, report, aged, countVars, keyVars, queueVars, wakeups, mishaps>>

PersistResult(r, a) ==
    /\ task[r][a].pc = "persist"
    /\ latest' = [latest EXCEPT ![a] = Row(task[r][a].ok, r)]
    /\ SetTask(r, a, [task[r][a] EXCEPT !.pc = "count", !.ok = FALSE])
    /\ UNCHANGED <<jobStatus, report, aged, countVars, keyVars, queueVars, wakeups, mishaps>>

CountDone(r, a) ==
    /\ task[r][a].pc = "count"
    /\ done' = done \cup {a}
    /\ TaskGoto(r, a, "tally")
    /\ UNCHANGED <<jobVars, expected, keyVars, queueVars, wakeups, mishaps>>

TallyDone(r, a) ==
    /\ task[r][a].pc = "tally"
    /\ SetTask(r, a, [task[r][a] EXCEPT !.pc = "compare", !.cnt = Cardinality(done)])
    /\ UNCHANGED sharedVars

CompareExpected(r, a) ==
    /\ task[r][a].pc = "compare"
    /\ SetTask(r, a, [task[r][a] EXCEPT !.cnt = 0,
                                        !.pc = IF task[r][a].cnt >= Cardinality(expected)
                                               THEN "notify" ELSE "settle"])
    /\ UNCHANGED sharedVars

NotifyReady(r, a) ==
    /\ task[r][a].pc = "notify"
    /\ PublishReady
    /\ TaskGoto(r, a, "settle")
    /\ UNCHANGED <<jobVars, countVars, keyVars, queueVars>>

\* ack, or after an infra failure nack without requeue.
Settle(r, a) ==
    /\ task[r][a].pc = "settle"
    /\ SettleMsg(r, a, IF task[r][a].mode = "infra" THEN "dead" ELSE "settled")
    /\ TaskLeave(r, a)
    /\ UNCHANGED <<jobVars, countVars, keyVars, analysis, wakeups, mishaps>>

(***************************************************************************)
(* AgentDlqConsumer.handle, one message of an agent type at a time.        *)
(***************************************************************************)
DlqReceive(r, a) ==
    /\ agentMsg[r][a].at = "dead" /\ ~Busy(r, a)
    /\ \A r2 \in Reqs : Busy(r2, a) => task[r2][a].mode # "dlq"
    /\ SetTask(r, a, [task[r][a] EXCEPT !.pc = "dlqFence", !.mode = "dlq"])
    /\ UNCHANGED sharedVars

FenceDlq(r, a) == task[r][a].pc = "dlqFence" /\ CheckFence(r, a, "persist")

(***************************************************************************)
(* Faults                                                                  *)
(***************************************************************************)
\* A call of the handler throws, its ack included.  In the normal path the
\* catch block records an infra failure, whatever the handler had already
\* written; an error of the recording itself is swallowed.  The tool loop has a
\* catch block of its own: what throws there, checkAlive included, is a failed
\* result.  An ack or nack that throws outside of the try blocks leaves its
\* message where it is and ends the handler.
WorkerError(r, a) ==
    LET t == task[r][a] IN
    /\ t.pc \notin {"idle", "call"}
    /\ Mishap("workerError")
    /\ \/ /\ t.mode = "normal"
          /\ SetTask(r, a, [IdleTask EXCEPT !.pc = "persist", !.mode = "infra"])
       \/ /\ t.pc = "turn"
          /\ TaskGoto(r, a, "persist")
       \/ /\ t.mode # "normal" /\ t.pc # "settle"
          /\ SetTask(r, a, [t EXCEPT !.pc = "settle", !.cnt = 0])
       \/ /\ \/ t.mode # "normal" /\ t.pc = "settle"
             \/ t.pc = "turn" /\ Stale(r)
          /\ TaskLeave(r, a)
    /\ UNCHANGED <<jobVars, countVars, keyVars, queueVars, wakeups>>

\* The process dies.  Every message it held goes back, those that were only
\* prefetched and waiting for a slot included; the classic dead-letter queues
\* redeliver without a limit.
WorkerCrash ==
    /\ Mishap("workerCrash")
    /\ \E prefetched \in SUBSET {x \in Reqs \X Agents : agentMsg[x[1]][x[2]].at = "ready"} :
          agentMsg' = [r \in Reqs |-> [a \in Agents |->
                         IF agentMsg[r][a].at = "held" \/ <<r, a>> \in prefetched
                         THEN Redelivered(agentMsg[r][a])
                         ELSE agentMsg[r][a]]]
    /\ task' = [r \in Reqs |-> [a \in Agents |-> IdleTask]]
    /\ UNCHANGED <<jobVars, countVars, keyVars, analysis, wakeups>>

WorkerStep(r, a) ==
    \/ TakeSlot(r, a) \/ FenceAgent(r, a) \/ CheckBudget(r, a) \/ CheckAlive(r, a)
    \/ ModelAnswers(r, a) \/ Bill(r, a) \/ PersistResult(r, a)
    \/ CountDone(r, a) \/ TallyDone(r, a) \/ CompareExpected(r, a) \/ NotifyReady(r, a)
    \/ Settle(r, a) \/ DlqReceive(r, a) \/ FenceDlq(r, a)

WorkerNext == WorkerCrash \/ \E r \in Reqs, a \in Agents : WorkerStep(r, a) \/ WorkerError(r, a)
=============================================================================
