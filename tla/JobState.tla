------------------------------ MODULE JobState ------------------------------
(***************************************************************************)
(* What the four processes of the analysis pipeline share about ONE job:   *)
(* its Postgres rows, its Redis keys and its messages in RabbitMQ and in   *)
(* the ready_for_synthesis pub/sub channel.  Every key and every row is    *)
(* scoped by the job id, so jobs meet only in the worker's slots and in    *)
(* the prefetch windows, and one job is enough to see how the processes    *)
(* race with each other.                                                   *)
(*                                                                         *)
(* A step of the model is one operation on Postgres, Redis or RabbitMQ:    *)
(* the code awaits each of them, and between two awaits of one handler any *)
(* other handler may run.                                                  *)
(*                                                                         *)
(* A "run" of the job is one analysis.requested message.  It is named by   *)
(* the HTTP request that published it: FirstReq created the job, the       *)
(* others are the retry / stop / cancel requests of its user.              *)
(***************************************************************************)
EXTENDS Integers, FiniteSets

CONSTANTS
    Always,         \* the agent types selected for every repository
    Optional,       \* the agent types selected when the manifest asks for them
    Reqs,           \* gateway requests about the job, one of them its creation
    FirstReq,
    UserOps,        \* what the user may do: a subset of {"retry","stop","cancel"}
    Wakers,         \* concurrent synthesize() calls started by pub/sub
    Sweepers,       \* concurrent synthesize() calls started by the sweep
    Slots,          \* AGENT_CONCURRENCY
    DeliveryLimit,  \* x-delivery-limit of the quorum queues
    Budget,         \* JOB_TOKEN_BUDGET, in agents: one agent spends one unit
    MaxWakeups,     \* bound on wakeups published and not yet delivered
    Mishaps,        \* the kinds of fault that may happen
    MaxMishaps      \* bound on their number

Agents == Always \cup Optional

MishapKinds == {"workerCrash", "workerError", "lostWakeup", "lostDispatch",
                "orchCrash", "orchError", "synthCrash", "synthError",
                "gatewayCrash", "slowSynth", "slowSweep"}

ASSUME AgentsAssumption ==
    /\ IsFiniteSet(Always) /\ IsFiniteSet(Optional)
    /\ Always # {} /\ Always \cap Optional = {}
ASSUME RequestAssumption == FirstReq \in Reqs /\ UserOps \subseteq {"retry", "stop", "cancel"}
ASSUME CallerAssumption == Wakers \cap Sweepers = {}
ASSUME BoundAssumption ==
    /\ Slots \in Nat \ {0} /\ DeliveryLimit \in Nat /\ Budget \in Nat \ {0}
    /\ MaxWakeups \in Nat /\ MaxMishaps \in Nat /\ Mishaps \subseteq MishapKinds

VARIABLES
    \* Postgres
    jobStatus,      \* Job.status
    latest,         \* the newest AgentResult row of each agent type
    report,         \* the rows the Report was written from, NoReport if none
    aged,           \* createdAt is more than STALLED_MIN_AGE_MS ago
    \* Redis
    epoch,          \* job:{id}:epoch
    done,           \* job:{id}:agents_done
    expected,       \* job:{id}:agents_expected
    tokens,         \* job:{id}:tokens_used, in agents
    graphPath,      \* job:{id}:graph_path, by the run that wrote it
    lock,           \* job:{id}:synthesizing exists
    \* RabbitMQ and pub/sub
    analysis,       \* the analysis.requested message of each run
    agentMsg,       \* the agent message of each run and agent type
    wakeups,        \* ready_for_synthesis messages published, not delivered
    \* bookkeeping of the model
    mishaps         \* faults so far

jobVars == <<jobStatus, latest, report, aged>>
countVars == <<done, expected>>
keyVars == <<epoch, tokens, graphPath, lock>>
queueVars == <<analysis, agentMsg>>
sharedVars == <<jobVars, countVars, keyVars, queueVars, wakeups, mishaps>>

(***************************************************************************)
(* The values.                                                             *)
(***************************************************************************)
Statuses == {"pending", "running", "done", "failed", "cancelled"}

NoRow == [st |-> "none", run |-> FirstReq]
Row(ok, r) == [st |-> IF ok THEN "success" ELSE "failed", run |-> r]
Rows == [st : {"none", "success", "failed"}, run : Reqs]

NoReport == [a \in Agents |-> NoRow]
HasReport == report # NoReport

NoRun == "none"

\* Where a queued message is: not published, ready in its queue, delivered and
\* unacknowledged, in the dead-letter queue, or acknowledged.
Places == {"unsent", "ready", "held", "dead", "settled"}
Message == [at : Places, tries : Nat]
AnalysisMessage == [at : Places, tries : Nat, epoch : Nat, retry : SUBSET Agents]

\* Mutant: a queue declared without its dead-letter exchange drops the message.
RedeliveredNoDlx(m) ==
    IF m.tries < DeliveryLimit
    THEN [m EXCEPT !.at = "ready", !.tries = @ + 1]
    ELSE [m EXCEPT !.at = "settled"]

\* A message whose consumer vanished goes back to its queue, or to the
\* dead-letter exchange once it was delivered too often.
Redelivered(m) ==
    IF m.tries < DeliveryLimit
    THEN [m EXCEPT !.at = "ready", !.tries = @ + 1]
    ELSE [m EXCEPT !.at = "dead"]

\* The run whose message is analysis[r] was superseded by a force-stop or a
\* cancel: somebody incremented the epoch after it was stamped.
Stale(r) == analysis[r].epoch # epoch

AgentsWithRow == {a \in Agents : latest[a].st # "none"}

\* A fault of one of the kinds the configuration allows.
Mishap(kind) ==
    /\ kind \in Mishaps
    /\ mishaps < MaxMishaps
    /\ mishaps' = mishaps + 1

\* PUBLISH job:{id}:ready_for_synthesis.  Redis forgets a message nobody is
\* subscribed to at that moment.
PublishReady ==
    \/ /\ wakeups < MaxWakeups
       /\ wakeups' = wakeups + 1
       /\ UNCHANGED mishaps
    \/ /\ Mishap("lostWakeup")
       /\ UNCHANGED wakeups

(***************************************************************************)
(* The job as createAnalysisJob leaves it before its first message is      *)
(* published: a pending row, no Redis keys.                                *)
(***************************************************************************)
InitShared ==
    /\ jobStatus = "pending"
    /\ latest = [a \in Agents |-> NoRow]
    /\ report = NoReport
    /\ aged = FALSE
    /\ epoch = 0
    /\ done = {}
    /\ expected = {}
    /\ tokens = 0
    /\ graphPath = NoRun
    /\ lock = FALSE
    /\ analysis = [r \in Reqs |-> [at |-> "unsent", tries |-> 0, epoch |-> 0, retry |-> {}]]
    /\ agentMsg = [r \in Reqs |-> [a \in Agents |-> [at |-> "unsent", tries |-> 0]]]
    /\ wakeups = 0
    /\ mishaps = 0

TypeOKShared ==
    /\ jobStatus \in Statuses
    /\ latest \in [Agents -> Rows]
    /\ report \in [Agents -> Rows]
    /\ aged \in BOOLEAN
    /\ epoch \in Nat
    /\ done \subseteq Agents
    /\ expected \subseteq Agents
    /\ tokens \in Nat
    /\ graphPath \in Reqs \cup {NoRun}
    /\ lock \in BOOLEAN
    /\ analysis \in [Reqs -> AnalysisMessage]
    /\ agentMsg \in [Reqs -> [Agents -> Message]]
    /\ wakeups \in Nat
    /\ mishaps \in Nat

\* The job crosses the sweep's age threshold.
Age ==
    /\ ~aged
    /\ aged' = TRUE
    /\ UNCHANGED <<jobStatus, latest, report, countVars, keyVars, queueVars, wakeups, mishaps>>
=============================================================================
