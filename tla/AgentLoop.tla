----------------------------- MODULE AgentLoop -----------------------------
(***************************************************************************)
(* The evidence loop of one agent, BaseAgent.run, for the agents of one    *)
(* job, between the job-wide budget check of AgentConsumer.handle and the  *)
(* INCRBY of the counter that check reads.  AgentWorker keeps one turn of  *)
(* this loop; here are all of them: the turn limit, the token budget, the  *)
(* forced last emit, the one repair of a rejected emit and the floor below *)
(* which an emit is turned down.                                           *)
(*                                                                         *)
(* A step ends where the code awaits: the job counter, checkAlive, the     *)
(* call to the model, the tools, the bill.  What the model answers is one  *)
(* of its shapes: an emit whose payload validates or does not, calls of    *)
(* other tools, both in one message, or prose.                             *)
(***************************************************************************)
EXTENDS Integers

CONSTANTS
    Runners,        \* the agents of the job
    MaxTurns,       \* maxTurns
    EvidenceFloor,  \* ceil(maxTurns * MIN_EVIDENCE_FRACTION)
    AgentBudget,    \* AGENT_TOKEN_BUDGET
    Reserve,        \* RESERVE_TOKENS
    JobBudget,      \* JOB_TOKEN_BUDGET
    MaxCost         \* bound on the tokens of one call

ASSUME LoopAssumption ==
    /\ MaxTurns \in Nat \ {0} /\ EvidenceFloor \in Nat
    /\ AgentBudget \in Nat /\ Reserve \in Nat /\ Reserve < AgentBudget
    /\ JobBudget \in Nat /\ MaxCost \in Nat \ {0}

VARIABLES
    loop,           \* the loop of each agent
    jobTokens,      \* job:{id}:tokens_used
    stopped         \* a force-stop has incremented the epoch

loopVars == <<loop, jobTokens, stopped>>

LoopPCs == {"start", "fence", "call", "tools", "bill", "over"}
Ends == {"none", "success", "failure", "fenced", "skipped"}
Loop == [pc : LoopPCs, turn : Nat, repairs : 0..1, spent : Nat, end : Ends, truncated : BOOLEAN,
         refused : BOOLEAN,     \* a forced call came back without an emit
         late : Nat]            \* calls that returned after the force-stop

Answer == [emit : {"none", "valid", "invalid"}, tools : BOOLEAN]
\* What tool_choice with disable_parallel_tool_use asks for.
EmitOnly == {ans \in Answer : ans.emit # "none" /\ ~ans.tools}

MinEvidence == IF EvidenceFloor < MaxTurns - 1 THEN EvidenceFloor ELSE MaxTurns - 1

LoopTypeOK == loop \in [Runners -> Loop] /\ jobTokens \in Nat /\ stopped \in BOOLEAN

LoopInit ==
    /\ loop = [a \in Runners |-> [pc |-> "start", turn |-> 0, repairs |-> 0, spent |-> 0, end |-> "none",
                                  truncated |-> FALSE, refused |-> FALSE, late |-> 0]]
    /\ jobTokens = 0
    /\ stopped = FALSE

\* What the loop knows when it makes a call; neither is looked at again after it.
Remaining(a) == AgentBudget - loop[a].spent
LastTurn(a) == loop[a].turn = MaxTurns + loop[a].repairs

MustFinish(a) == LastTurn(a) \/ Remaining(a) <= Reserve

\* Mutant: a repair is granted whatever is left of the budget.
RepairAnyway(a, ans) == ans.emit = "invalid" /\ loop[a].repairs = 0

CanRepair(a, ans) == ans.emit = "invalid" /\ loop[a].repairs = 0 /\ Remaining(a) > Reserve

\* Mutant: the floor is off by one.
TooEarlyOffByOne(a) == ~MustFinish(a) /\ loop[a].turn < MinEvidence - 1 /\ Remaining(a) > Reserve

TooEarly(a) == ~MustFinish(a) /\ loop[a].turn < MinEvidence /\ Remaining(a) > Reserve

SetLoop(a, l) == loop' = [loop EXCEPT ![a] = l]

\* The loop of a once its call has returned ans, c tokens later.
Called(a, c, ans) ==
    [loop[a] EXCEPT !.spent = @ + c,
                    !.refused = @ \/ (MustFinish(a) /\ ans \notin EmitOnly),
                    !.late = IF stopped THEN @ + 1 ELSE @]

Over(l, end) == [l EXCEPT !.pc = "over", !.end = end]

\* Mutant: the limit is inclusive.
NextTurnInclusive(l) == IF l.turn <= MaxTurns + l.repairs
                        THEN [l EXCEPT !.turn = @ + 1, !.pc = "fence"]
                        ELSE Over(l, "failure")

\* The head of the for loop.
NextTurn(l) == IF l.turn < MaxTurns + l.repairs
               THEN [l EXCEPT !.turn = @ + 1, !.pc = "fence"]
               ELSE Over(l, "failure")

(***************************************************************************)
(* The steps of one agent                                                  *)
(***************************************************************************)
\* Step 0 of handle: an agent that finds the job's budget spent does not run.
Begin(a) ==
    /\ loop[a].pc = "start"
    /\ SetLoop(a, IF jobTokens >= JobBudget THEN Over(loop[a], "skipped") ELSE NextTurn(loop[a]))
    /\ UNCHANGED <<jobTokens, stopped>>

\* Mutant: the fence is checked before the first turn only.
AliveOnce(a) ==
    /\ loop[a].pc = "fence"
    /\ SetLoop(a, IF stopped /\ loop[a].turn = 1
                  THEN Over(loop[a], "fenced") ELSE [loop[a] EXCEPT !.pc = "call"])
    /\ UNCHANGED <<jobTokens, stopped>>

\* Mutant: the fence error is retried instead of rethrown.
AliveRetried(a) ==
    /\ loop[a].pc = "fence"
    /\ SetLoop(a, IF stopped THEN loop[a] ELSE [loop[a] EXCEPT !.pc = "call"])
    /\ UNCHANGED <<jobTokens, stopped>>

\* checkAlive: the handler acknowledges a superseded agent and writes nothing.
CheckAliveOfTurn(a) ==
    /\ loop[a].pc = "fence"
    /\ SetLoop(a, IF stopped THEN Over(loop[a], "fenced") ELSE [loop[a] EXCEPT !.pc = "call"])
    /\ UNCHANGED <<jobTokens, stopped>>

\* Prose: one nudge, and the next turn.
AnswerProse(a, c, ans) ==
    /\ ans.emit = "none" /\ ~ans.tools
    /\ SetLoop(a, NextTurn(Called(a, c, ans)))

\* The rejected emit is answered, and with it the turn limit grows by one.
RepairEmit(a, c, ans) ==
    /\ CanRepair(a, ans)
    /\ SetLoop(a, NextTurn([Called(a, c, ans) EXCEPT !.repairs = 1]))

\* An emit below the floor is answered with a refusal, valid or not.
PushBackEmit(a, c, ans) ==
    /\ ans.emit # "none" /\ ~CanRepair(a, ans) /\ TooEarly(a)
    /\ SetLoop(a, NextTurn(Called(a, c, ans)))

\* finish(): the payload is validated once more; a forced one is marked.
AcceptEmit(a, c, ans) ==
    /\ ans.emit # "none" /\ ~CanRepair(a, ans) /\ ~TooEarly(a)
    /\ SetLoop(a, IF ans.emit = "valid"
                  THEN [Called(a, c, ans) EXCEPT !.pc = "bill", !.end = "success", !.truncated = MustFinish(a)]
                  ELSE Over(Called(a, c, ans), "failure"))

\* Tools only: they run before the next turn.
RequestTools(a, c, ans) ==
    /\ ans.emit = "none" /\ ans.tools
    /\ SetLoop(a, [Called(a, c, ans) EXCEPT !.pc = "tools"])

\* The call returns.
Converse(a) ==
    /\ loop[a].pc = "call"
    /\ \E c \in 1..MaxCost, ans \in Answer :
          \/ AnswerProse(a, c, ans) \/ RepairEmit(a, c, ans) \/ PushBackEmit(a, c, ans)
          \/ AcceptEmit(a, c, ans) \/ RequestTools(a, c, ans)
    /\ UNCHANGED <<jobTokens, stopped>>

\* checkAlive or the call throws: the agent has failed with what it had spent.
LoopThrows(a) ==
    /\ loop[a].pc \in {"fence", "call"}
    /\ SetLoop(a, Over(loop[a], "failure"))
    /\ UNCHANGED <<jobTokens, stopped>>

\* Every tool call is answered, one that throws with an errored result.
RunTools(a) ==
    /\ loop[a].pc = "tools"
    /\ SetLoop(a, NextTurn(loop[a]))
    /\ UNCHANGED <<jobTokens, stopped>>

\* INCRBY tokens_used, for a successful agent only.
BillAgent(a) ==
    /\ loop[a].pc = "bill"
    /\ jobTokens' = jobTokens + loop[a].spent
    /\ SetLoop(a, [loop[a] EXCEPT !.pc = "over"])
    /\ UNCHANGED stopped

\* forceStopAndRetry: INCR the epoch, DEL the counter.
ForceStop ==
    /\ ~stopped
    /\ stopped' = TRUE
    /\ jobTokens' = 0
    /\ UNCHANGED loop

LoopStep(a) ==
    Begin(a) \/ CheckAliveOfTurn(a) \/ Converse(a) \/ RunTools(a) \/ BillAgent(a)

LoopNext == ForceStop \/ \E a \in Runners : LoopStep(a) \/ LoopThrows(a)

LoopSpec == LoopInit /\ [][LoopNext]_loopVars

(***************************************************************************)
(* Properties                                                              *)
(***************************************************************************)
\* The token budget of an agent binds: what is spent beyond the reserve is at
\* most two calls, the one that used it up and the forced emit that follows,
\* however rejected, repaired and turned-down emits mix with the tools; a model
\* that ignores tool_choice is bounded by its turns alone.
AgentSpendBounded ==
    \A a \in Runners : ~loop[a].refused => loop[a].spent < AgentBudget - Reserve + 2 * MaxCost

\* A repair adds one turn and only one, also for a model that keeps refusing.
TurnsBounded == \A a \in Runners : loop[a].turn <= MaxTurns + 1

\* A report section that is not marked as truncated comes from an agent that
\* answered by itself, after the evidence floor.
UntruncatedIsDeep ==
    \A a \in Runners : loop[a].end = "success" /\ ~loop[a].truncated => loop[a].turn >= MinEvidence

\* The limits of the loop together hold however they interact.
LoopBounded == AgentSpendBounded /\ TurnsBounded /\ UntruncatedIsDeep

\* A force-stop in the middle of a loop costs at most the call in flight.
StopCostsOneCall == \A a \in Runners : loop[a].late <= 1

\* Whatever the model answers, every agent that starts its loop comes to an end.
LoopsEnd == \A a \in Runners : loop[a].pc = "fence" ~> loop[a].pc = "over"
=============================================================================
