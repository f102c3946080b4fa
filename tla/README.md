# CodeMind backend: TLA+ models

CodeMind analyses a GitHub repository with five LLM agents and writes a report.
Four processes cooperate on one job through Postgres, Redis (keys and pub/sub)
and RabbitMQ (quorum queues with dead-letter exchanges):

```
            analysis.requested              agent.<type> x5            job:{id}:ready_for_synthesis
 api-gateway ----------------> orchestrator --------------> agent-worker ----(pub/sub)----> synthesizer
      |  INCR/GET epoch, DEL keys  |  SADD expected           | row, SADD done, INCRBY tokens   | SET NX lock
      +---------- Postgres: Job, AgentResult, Report ----------+---------------------------------+
                                    DLQ: analysis.dlq, agent.<type>.dlq
```

No process owns the job. What keeps it correct is a protocol over shared keys: an
epoch that fences superseded runs, two sets whose sizes decide completion, a
claim lock with a TTL, early or late acknowledgements, and a 30 s sweep that
repairs what pub/sub lost. That protocol is hard to test, because each handler
awaits between any two of its operations and the other three processes may run
there. `Pipeline` models it. Around it stand parts that are concurrent inside one
process or on one store of their own (slots, tool loop, renderer, checkouts and
chat, users, share links, rate limit), and the computations that turn a graph
into facts, diagrams, a conversation and a report.

## 1. Inventory

State in the first column is what survives a handler; "promises" is what the
component must guarantee for the system to be right.

| Component (source) | State | Operations | Hard behaviour | Promises |
|---|---|---|---|---|
| Job requests (`api-gateway/jobs/jobs.service.ts`) | `Job.status`, `job:{id}:*` keys | create, retryJob, forceStopAndRetry, cancelJob | each is a chain of awaits on three stores without a transaction; two requests race | a superseded run changes nothing; a cancel is final |
| `analysis.requested` consumer (`orchestrator/jobs/orchestrator.consumer.ts`) | message, `agents_expected`, `graph_path` | fence, mark running, ack, download, index, select, dispatch | acks before the work; catch block without a fence | dispatches each selected agent once, expected set written before the messages |
| Analysis DLQ consumer | status | mark failed | no fence | a job whose message died is failed |
| Agent consumer (`agent-worker/jobs/agent.consumer.ts`) | `AgentResult`, `agents_done`, `tokens_used` | fence, budget, run, persist, count, compare, publish, ack/nack | crash between any two steps; redelivery; catch block that repeats the bookkeeping | counted implies persisted; acked implies counted; last one wakes the synthesis |
| Execution slots (same file) | `slotWaiters`, `availableSlots`, `grantTimer` | acquireSlot, grantNext, releaseSlot | five queues, one gate, a collection timer | slots conserved, pipeline order, nobody forgotten |
| Agent DLQ consumer | as the agent consumer | recordInfraFailure | acks even if the recording threw | a dead agent is recorded as failed |
| Agent tool loop (`agents/base.agent.ts`) | conversation, turn, repairs, tokens | turns, tool calls, nudge, repair, evidence floor, forced emit, fence | turn limit, token budget and fence meet in one loop; the bill comes after it | ends; spends little over its budget; a stop costs one call; each request is well formed |
| Synthesizer (`synthesizer/synthesis/synthesizer.service.ts`) | `Report`, `synthesizing` lock | subscribe, sweep, synthesize, failJob | lock TTL against slow calls, crash mid-way, sweep against wakeup | one synthesis at a time; one report; report covers all agents |
| D2 renderer (`synthesizer/diagrams/d2-renderer.service.ts`) | lock chain, instance, worker thread | render, getInstance, terminate, recycle | a watchdog against a late answer of a worker that remembers one caller; overlapping reports; a builder that throws past the recycle | own diagram; one worker; memory given back; no hang |
| Repository facts (`orchestrator/facts/repo-facts.service.ts`) | none | chains, edges, imports, modules, hotspots | caps, reads that throw, cycles | what is measured is in the graph; a cut is said |
| Diagrams and report (`synthesizer/diagrams`, `synthesizer/report`) | none | D2 sources, findings register, sections | caps on boxes and arrows, ids, suppressed diagrams, facts that aged out | diagram, table and register agree |
| Code graph cache (`libs/common/codegraph`) | promise cache by path | initAndIndex, openReadOnly, close | joins, rejections, a path that is extracted again | a handle shows the files of its path |
| Checkouts (`libs/common/github`) | directories and archives on a volume | downloadAndExtract, prune | builders of one and of other keys side by side | the volume stays bounded |
| Repository chat (`api-gateway/jobs/chat.service.ts`) | rebuild map | ask, ensureGraph, reindex, loop | questions join one rebuild while runs prune and register | one rebuild; every question ends |
| LLM client, prompt, retry, tools (`libs/common/llm`, `util`, `codegraph`) | none | translate, cut, wait, search | parallel calls, bounds met by one | calls and results match; bounds hold and are said |
| Users (`api-gateway/auth`, `webhooks`, `repos`) | `User`, repository cache | webhook, getOrCreateUser, ensureGithubToken, listing | three writers, Clerk and GitHub down, database blips, a GitHub id another user holds | nothing known is forgotten; the guard survives what it says it does |
| Share links (`api-gateway/jobs/share.service.ts`) | `ReportShare` | createOrGet, get, revoke | check, then create, no transaction | one link per report; revoked together |
| Rate limit (`api-gateway/jobs/job-rate-limit.guard.ts`) | a counter with a TTL | INCR, EXPIRE | two commands | capped; a blocked user is freed |
| Event relay, charts, pricing, schemas | - | - | - | not modelled |
| HTTP surface, export, health, deployment | none | - | - | not modelled |

`PROJECT.json` lists every component with its status and every hazard with its
line. The four processes interact only as drawn: in a message, a row or a key.
Builders of checkouts, handles and questions meet on the volume and are composed
(`Checkouts`, `GraphCache`, `RepoChat`); facts, diagrams and report are composed
in `Algorithms`.

## 2. Modules

| Module | Models |
|---|---|
| `JobState` | what the four processes share about one job: constants, rows, keys, messages, faults |
| `Gateway` | `JobsService`: create, retry, stop, cancel |
| `Orchestrator` | `OrchestratorConsumer.onAnalysisRequested` and `AnalysisDlqConsumer` |
| `AgentWorker` | `AgentConsumer.handle`, `recordInfraFailure`, `AgentDlqConsumer` |
| `Synthesizer` | `onModuleInit` subscriber, sweep, `synthesize`, `failJob` |
| `Pipeline` | the composition, fairness and the properties |
| `Barrier` | the abstract specification the pipeline implements |
| `SlotGate` | `acquireSlot`, `grantNext`, `releaseSlot` and the timer |
| `AgentLoop` | `BaseAgent.run` between the budget check and the bill, several agents and a force-stop |
| `D2Renderer` | `D2Renderer`, `DiagramsService.buildAll` as its caller, the worker of `@terrastruct/d2` |
| `Checkouts` | `GithubTarballService.downloadAndExtract` and its pruning |
| `GraphCache` | extends it: `CodeGraphService.initAndIndex`, `openReadOnly` |
| `RepoChat` | extends that: `ChatService.ask`, the shared rebuild, `graph_path` |
| `Accounts` | the writers of a user's row and the requests that need it |
| `ShareLinks`, `RateLimit` | `ShareService`, `JobRateLimitGuard` |
| `RepoFacts` | `RepoFactsService.build`: chains, edges, imports, modules, hotspots |
| `D2Source` | extends it: `D2SourceBuilder`, the selection in `buildAll` |
| `Report` | extends that: `ReportRenderer`, its register and the sections that refer to others |
| `Dialect` | the messages of the tool loop, `withRollingCache`, `toMistralMessages` and back |
| `InputBudget` | `assembleUserMessage`, `retryWithBackoff`, the walk of `search_text` |
| `Lists` | filter, stable sort, slice, the keys of a map in insertion order, sums: what these modules are written with |
| `Algorithms` | the five above composed: an input, its output, what one says held against the others |
| `MCPipeline` | the pipeline with the symmetry of its agents, for TLC |
| `MCComponents`, `MCServices` | the remaining modules side by side, for TLC; `MCRepoChat`, `MCAlgorithms` give their inputs |
| `PipelineProofs`, `BarrierProofs` | theorems about the pipeline; what a job its user leaves alone guarantees, the refinement included |
| `WorkerProofs`, `D2RendererProofs` | theorems about the slot gate and the tool loop; about the renderer |
| `ComponentsProofs` | theorems about the rate limit, the checkouts and the chat, and about `MCComponents` as a whole |
| `ServicesProofs` | theorems about users and share links, and about these and the computations in `MCServices` |
| `AlgorithmsProofs` | theorems about the computations, a lemma for each says what it returns |
| `DataFacts` | lemmas about numbers, folds and the operators of `Lists`: what the proofs have for induction |

### How the model reads the code

*A step is one operation* on Redis, Postgres or RabbitMQ (a read, a write, an
ack, a publish). The code awaits each, so the handler's local state is a record
with a `pc` that names the operation it is about to do; the actions of a module
are its values of `pc` in the order of the source. `req`, `orch`, `task` and
`syn` hold the handlers of the four processes.

*A run* is one `analysis.requested` message. It is named by the request that
published it, so `agentMsg[r][a]` is the message of agent type `a` in run `r`,
and `Stale(r)` says that the epoch stamped on it is no longer the job's.

*A message* is in one of five places: `unsent`, `ready`, `held` (delivered, not
acknowledged), `dead` (in the dead-letter queue), `settled` (acknowledged, or
dropped). The connection of a worker that dies returns everything it held,
including what was only prefetched; `x-delivery-limit` moves a message to the
dead-letter queue. The dead-letter queues are classic and redeliver without limit.

*Data* is what the decisions see. A row is its agent type, `success` or `failed`,
and the run that wrote it; only the newest row of a type is ever read. A report
is the rows it was written from. Tokens are counted in agents. A model call, a
download or a rendering is a choice between success and failure. The tool
loop of an agent is its last turn (`checkAlive`, then the call): earlier turns
change no shared state. The manifest chooses whether the optional agents run.

*Left out* because nothing in the pipeline decides by them: `repo_facts`,
`job:{id}:status`, the event channel, prices, prompts, diagrams, logs.

*Two couplings of real time* are kept as switches of the configuration, because
an untimed interleaving would otherwise break the code in ways its timeouts
exclude. Without `"slowSynth"` the claim lock's 300 s TTL does not run out during
a synthesis. Without `"slowSweep"` no agent gets from its dispatch to its row
between two consecutive reads of one sweep.

*Faults* (`Mishaps`, at most `MaxMishaps` of them): `workerCrash`, `orchCrash`,
`synthCrash`, `gatewayCrash` (the process dies), `workerError`, `orchError`,
`synthError` (an await throws, and the catch block that belongs to that line
runs), `lostWakeup` (pub/sub had no subscriber), `lostDispatch` (one of the
unawaited emits is lost).

*The other modules* take the same grain: a step ends at an await. `AgentLoop`
keeps tokens as small numbers, an answer of the model is one of its shapes (an
emit that validates or not, other tools, both, prose). `D2Renderer` keeps the
messages of the worker, because the library resolves the caller it remembers and
not the one a reply belongs to. `Checkouts` has files and an index for each
directory, the index stale once files are extracted over it; the times of the
directories are kept as the order they put them in (`byAge`: for each directory those
with a later mtime), and every deletion succeeds. `Accounts` keeps of
a profile only whether it is known, of the other users only whether one of them
holds the GitHub id of this one, and of the cache of listings nothing: whether a
listing finds one is a choice. `RepoFacts`, `D2Source` and `Report` are
operators over records and sequences; a name, a file or a package is a value, a
length or a weight a number, the caps are parameters.

### Correspondence

| Action | Code |
|---|---|
| `RetryRead`, `RetryResults`, `RetryUncount`, `ResetStatus`, `RetryEpoch`, `Emit` | `retryJob`: read status; read failed agents of a done job; SREM; update to pending; GET epoch; emit |
| `StopRead`, `BumpEpoch`, `Wipe`, `ResetStatus`, `Emit` | `forceStopAndRetry`: read; INCR epoch; one DEL; pending; emit |
| `CancelRead`, `BumpEpoch`, `Wipe`, `ResetStatus` | `cancelJob`: read status; INCR; DEL; cancelled |
| `Receive` ... `Dispatch` | `onAnalysisRequested` top to bottom; `MarkFailed` is the catch block and the unsupported branch |
| `TakeSlot`, `FenceAgent`, `CheckBudget`, `CheckAlive`, `ModelAnswers`, `Bill` | `handle` up to its Step 3 |
| `PersistResult`, `CountDone`, `TallyDone`, `CompareExpected`, `NotifyReady`, `Settle` | Steps 4 to 6; in `infra` and `dlq` mode the same statements of `recordInfraFailure` |
| `DlqReceive`, `FenceDlq` | `AgentDlqConsumer.handle` |
| `Wake` | the `pmessage` handler and the claim |
| `SweepStart`, `SweepReadDone`, `SweepReadExpected`, `SweepCountRows`, `SweepClaim` | one job of the sweep; the two SCARDs and the count of rows are separate reads |
| `CheckReport`, `CheckCancelled`, `LoadRows`, `Compose`, `CreateReport`, `Finish`, `Cleanup`, `FailJob` | `synthesize` top to bottom, `failJob` |
| `AcquireSlot`, `TimerFires`, `ReleaseSlot` | the slot gate; each runs without an await and is one step |
| `Sorted`, `Shift`, `GrantNext` | `grantNext` on the queue `slotWaiters`: the sort by `ORDER`, then a shift for each free slot |
| `Begin`, `CheckAliveOfTurn`, `Converse`, `RunTools`, `BillAgent` | one turn of `run()` with what precedes and follows the loop; the branches of `Converse` (`AnswerProse`, `RepairEmit`, `PushBackEmit`, `AcceptEmit`, `RequestTools`) are those of the code in its order |
| `Enqueue`, `TakeLock`, `GetInstance`, `Reply`, `RenderFails`, `Terminate` | `serialize`, `render` and `recycle`, the worker's answers, the watchdog and the catch block |
| `BuilderThrows` | a builder of `buildAll` throws between two renders: no further render, and no recycle, which is not in a `finally` |
| `ListCheckouts`, `DeleteStale`, `Mkdir`, `Download`, `Extract`, `TooManyFiles`, `CleanUp` | `downloadAndExtract` top to bottom |
| `InitAndIndex`, `IndexingLands`, `OpeningLands`, `HandleRejects` | the cached promises, made and settled |
| `Ask`, `FindCheckout`, `Reindex`, `RebuildSettles`, `ChatTurn`, `FinalAnswer`, `ReportAnswer` | `ask()`, `ensureGraph`, `reindex`, `answerWithLoop`, `answerFromReport` |
| `FindUser` ... `RereadWinner`; `FindOwner` ... `StoreToken`; `HookDelivered` | `getOrCreateUser`; `ensureGithubToken`; the webhook |
| `FetchRepos`, `OverlayJobs`, `CreateJob` | the pages of GitHub, `getLastJobsByRepo`, `prisma.job.create`; `BlipUnretried` is the database error the last two pass on, `Blip` that of the queries under `withDbRetry` |
| `Clashes`, `OtherLinks` | the unique index on `users.githubId`, and the other user who takes or frees the id |
| `ApiSurface` | the section in its three forms: routes with flags, the agent's list when no route is known, nothing |

The pipeline does not repeat the slot gate: `TakeSlot` only requires that fewer
than `Slots` handlers hold one, which is `SlotsConserved` of `SlotGate`.

## 3. Runs

`a1`, `a2` are agent types, `q1`, `q2` requests of the user (`q1` creates the
job), `w1` a synthesis started by pub/sub, `s1` one started by the sweep.

| Run | Instance | Question |
|---|---|---|
| `faults` | 2 agents (one optional), 1 subscriber, sweep; one worker crash, worker error or lost wakeup | is the report complete, is one synthesis at a time paid for, is `Barrier` implemented, and does the job end (`Settles`)? |
| `redelivery` | 2 agents in 2 slots with a budget of 1, two worker faults | is an acknowledged agent always counted, and by how much may the budget be overspent? |
| `chaos` | 1 agent, retry/stop/cancel, two subscribers, any one fault of any kind, slow calls | the invariants that nothing may break |
| `cancel` | 1 agent, a cancel, a subscriber and the sweep, which may be outrun; up to two worker crashes, each dead-letters at once (delivery limit 0) | is nothing forgotten, does everything come to rest, and is a synthesis paid for twice only over the cancel? |
| `components` | slots: 2, with 2 jobs of 2 agents; loop: 2 agents, 3 turns, a budget of 4 tokens, a stop; renderer: 2 reports of 2 diagrams; chat: 2 questions, a run, a rebuild and another job's run on a volume for 1 checkout; rate limit: 2 submitters, a limit of 2 | do those who wait for one another get on, and do the limits hold? |
| `services` | users: 2 requests, 2 rows, 3 database errors, any webhook repeated, late or never delivered, Clerk or GitHub failing, a deletion, a GitHub account another user may hold; share links: 3 requests, 5 links; every input of `MCAlgorithms` | do rows survive their races, and do the computed artefacts agree with what they were computed from? |

The runs that are to be violated are in section 4.

`components` and `services` are each one behaviour per part: the first step is
the choice of the part, and the others rest. They share a run because none of them
touches another, as does the variable that picks the part.

CHECK_DEADLOCK is off: a job, a report, a question and a computation really end.

Bounds. One job, because all of its keys and rows are scoped by its id and jobs
meet only in the slots (their own model) and the prefetch window (any set of
ready messages may be prefetched at a crash). Two agents are enough for "the
last one" to differ from "the first one", and one optional agent for the expected
set to vary. Two requests suffice for one run to supersede another; the fence compares two epochs, and nothing counts
higher. Two syntheses (`w1` with `s1` or `w2`) suffice for a race for the lock. `DeliveryLimit` is 0 or 1
where the code has 5 and 3: what matters is that a message may come again and
that it may be dead-lettered. `MaxWakeups` bounds undelivered wakeups; a publish
waits for room, as many as there are wakers to receive them. With two faults (`redelivery`,
`cancel`) the second one may strike during the recovery from the first.

In `components` the loop has three turns, a floor of two and a reserve of half
the budget, so that the forced, the repaired, the pushed-back and the plain emit
all occur, on the last turn and before it. Two reports of two diagrams make a late
answer meet a render of the same report, of another report and no render at all.
`MaxInstances` of the renderer is never met: every render and every recycle
throws away at most one instance. The slots have four handlers for two slots: two of
one rank and two ranks, so a sort has equal and unequal elements. A volume for one checkout and three builders make every extraction compete with
a pruning. In `services` three database errors are what `withDbRetry` gives up
after; two rows are a user who is deleted and created again. The graphs have four
symbols in three files with cycles, recursion, a broken file or symbol, and caps
that cut as well as caps that do not.

Every property of a passing run has a mutant in `PROJECT.json`: a definition
replaced by one with a plausible bug (the comments `Mutant:` in the modules), for
which TLC finds that property violated.

### Fairness

`FairSpec` assumes weak fairness of each handler's next step (a started
handler goes on unless a fault removes it; a broker delivers what it holds), of
the sweep (an interval timer), of the lock's TTL and of the job's ageing. Users
are never obliged to act, faults never to happen. Weak fairness is enough: each
handler runs on its own event loop turn and no step of another handler disables
it for good, except a slot, which holders always give back. 

`ComponentsFair` is the same for the rest: the slot timer fires and handlers reach
their `finally` block; the steps of a loop go on, because the client of the
provider answers or gives up; timeouts of the renderer fire and the lock moves on,
while the worker may never answer; questions, the rebuild they wait for and the
opening of handles go on, while runs need not start; the clock of Redis runs, and
a gateway need not die. `services` states safety only and no fairness.

`Settles` does not hold under every fault, and the code does not claim it: a
crash of the orchestrator after its early ack, a lost unawaited dispatch, or an
error while a dead letter is recorded leave the job to the user's force-stop.

## 4. What the models found

Six runs are expected to be violated. Each checks one sentence of a comment or
of `ARCHITECTURE.md` against what the code does; the quotation is in
`PROJECT.json`.

| Run | Sentence | What happens |
|---|---|---|
| `retry_stuck` | a retry of failed agents concludes | the report exists already, so every synthesis returns at once, however often the sweep starts one; the expected set was deleted |
| `dlq_lost` | a dead letter is recorded | the `finally` acks also when the recording threw |
| `two_links` | sharing again returns the live link, so there are never two | two requests find none and both create one: no transaction, no unique index |
| `cancel_overwritten` | a cancelled job stays cancelled | the orchestrator read the epoch before the cancel and sets `running` after it |
| `stale_index` | the path is the identity of what is opened | a retry extracts into the path of the run before and is given its cached handle |
| `unanswered` | a batch of tool calls is answered by matching results | an emit that is rejected or turned down is answered alone |

Other steps that look wrong, read in the code and for the most part steps of the
models; no run is kept for them.

- Pipeline: an agent past its last fence still bills, persists and counts for the
  superseded run. A job cancelled during its synthesis gets its report. The
  tokens of a failed agent are not billed: `base.agent.ts:606-607` says that they
  are, the INCRBY of `agent.consumer.ts:312` is under `if (result.success)`. The
  sweep's fallback looks at the age of the job, so an old job that was stopped and
  retried may be synthesized from old rows. A crash between `report.create` and
  `job.update` leaves the job running, as in `retry_stuck`. `markFailed` and the
  analysis dead-letter handler have no fence. Two racing retries publish one
  epoch and share one checkout. An error after an agent's row was inserted adds a
  failed row on top of a success.
- Checkouts and chat: the sweep of archives (`github-tarball.service.ts:153-155`)
  removes the one another run is writing. A chat loop whose last turn still calls
  tools asks for the final answer with those calls unanswered.
- Users: GitHub ids are unique. The token refresh of a second Clerk user with the
  same GitHub account fails, and with it the listing or the submission. A first
  request of such a user is turned away: `createUserSafely` says it survives any
  residual unique clash (`auth.service.ts:102-107`), but it rereads the winner by the
  Clerk id, finds nothing and throws. `RequestsSurvive` therefore excepts the clash,
  which the models reach (`"shared"`). The overlay of a listing and the insert of a
  job are the two queries without `withDbRetry`. A repeated or late webhook writes an older
  profile over a newer one, and creates a deleted user again. The token update
  bumps `updatedAt`, so for an active user the lazy refresh, the backstop for a
  lost webhook (`schema.prisma:58-60`), does not come. An error of Clerk reads as
  "not connected". `invalidateReposCache` has no caller.
- Rate limit: a gateway that dies between INCR and EXPIRE blocks the user for good
  (`orphaned` in `BlockedIsFreed`).
- Facts: every cap is reported, "never silent" (`repo-facts.service.ts:20`), but
  those on module edges, modules, cycles and dead code leave no note, so
  a module page may say "nothing in this repository" of edges that were cut
  (`IsolatedIsAlone` excludes it). `moduleFacts` reads files without `safely`, so
  one bad read fails the run. `search_text` does not say that it stopped at
  `MAX_TEXT_FILES`.
- Diagrams and report: `countNodes` counts the line of a container. Packages two
  modules import are drawn twice in the system flow. The note on endpoints that "do
  not appear in the route graph" (`report-renderer.service.ts:489`) counts those of
  routes beyond the 40 shown, too, which are in the graph and were matched to no row;
  so `EndpointsAddUp` asks for no less than the missing ones, and for equality only
  if no route was cut. An error between two renders skips the recycle
  (`diagrams.service.ts:189`), and the worker stays until the next report. The contents list sections
  that are omitted. Descriptions of request flows are joined by position, after
  thin ones were left out.

## 5. Proofs

TLAPS checks these for every value of the constants that meets the assumptions
of the modules: finite sets where something is counted, positive limits,
`FirstReq` one of the requests, a reserve below the budget, a counter that can
exceed its limit, the chat's rebuild one of the builders, and inputs of the
computations that the program can be given (`InputsAssumption`, below). Where a
theorem assumes more, the table says so.

| Theorem | Says | Assumes |
|---|---|---|
| `TypeCorrect` | `Spec => []TypeOK` of the pipeline | - |
| `CountedAlwaysHasRow` | an agent in `agents_done` has a row | - |
| `DoneAlwaysHasReport` | a job that is done has a report | - |
| `ReportAlwaysGrounded` | a report rests on a successful agent | - |
| `SynthesesAreBounded` | at most one synthesis more than there were stops and cancels is paid for at a time | no `slowSynth` |
| `OvershootBounded` | the job's budget is overspent by at most one agent per slot | - |
| `SynthesisIsExclusive` | `OneSynthesis` | `Undisturbed`: no stop or cancel deletes the lock, no synthesis outlives it |
| `ReportIsComplete` | `CompleteReport` | `LeftAlone`, no `slowSweep` |
| `PipelineIsBarrier` | `Spec => ImplementsBarrier` | `LeftAlone`, no `slowSweep`, `NotRerun` |
| `AcknowledgedIsCounted` | `AckedIsCounted` | `LeftAlone`, `FewFaults` |
| `GateTypeCorrect`, `SlotsAlwaysConserved`, `NoSlotIdles` | the safety of the slot gate | - |
| `NobodyOvertakes` | the sort and the shifts of `grantNext` serve waiters by the pipeline and, within a type, by arrival | - |
| `LoopsBounded` | turns and repairs of a tool loop; its spend, less than budget less reserve plus two calls unless the model ignores `tool_choice`; what is not truncated is deep | - |
| `StopIsCheap` | a force-stop costs each agent the call in flight at most | - |
| `DiagramsAreTheirOwn`, `WorkersReclaimed` | the safety of the renderer | - |
| `RetentionHolds` | the volume keeps at most the limit and one checkout for each builder that ran beside another | - |
| `OneRebuildAtATime` | questions share one rebuild, and none waits for one that is forgotten | - |
| `LimitHolds` | no window admits more than the limit | - |
| `ComponentsTypeCorrect` | `ComponentsFair => []ComponentTypesOK` | - |
| `RequestsAlwaysSurvive` | over what the guard, and the handler behind it, may fail: a deleted account, three database errors (one in an unretried query), a GitHub id another user holds | - |
| `KnownStaysKnown` | what is known of a user stays known | - |
| `RevocationIsWhole` | a revocation leaves no link of those it found | - |
| `FactsAreOfTheGraph` | the hops of every chain are calls of the graph, the weights of module edges add up to its imports | - |
| `CutsAreSaid` | a hotspot left out, an import not counted or a module that only looks alone goes with a note or a cap that was met | - |
| `DiagramsAreWhole` | no arrow without its boxes, no self-call the chain does not have, no package without a module, no two labels with one id | - |
| `ReportsAgree` | the sections of a report agree with the diagrams and the findings they speak of; it counts no fewer endpoints as dropped than no route has, and no more if no route was cut | - |
| `RequestsAreAccepted` | calls are answered right after they are made, unless an emit that was turned down had company; one cache marker, at the tail | - |
| `BoundsAreHeld` | the cut of a prompt, the waits of a retry; a search over no more files than it may open says what it left out | - |
| `ServicesTypeCorrect` | `ServicesSpec => []ServicesTypeOK` | - |
| `ServicesComputeRight` | the six above, of the composition that is checked | - |

The rows without an assumption hold under every request of the user and every
fault, any number of them. The assumptions of the others are what the code has to
assume, too:

- `LeftAlone` (`UserOps = {}`): nobody retries, stops or cancels the job, which
  therefore has one run. A stop deletes the sets that decide completion while
  agents of the run before are at work, and the report of an old run may be written
  from its rows (section 4). Faults may still strike any number of times.
- no `slowSweep`: an agent may not get from dispatch to row between two reads of one
  sweep, as section 2 explains. `faults` makes the same assumption.
- `NotRerun`: not both an error of the orchestrator and its crash. With both, the run
  can be marked failed and the message, not acknowledged yet, comes again: the job
  would leave `failed` and dispatch, which `Barrier` does not allow.
- `FewFaults`: no errors of the worker's own steps (its crashes may be as many as
  there can be), or at most two faults and a message that is delivered twice before
  it is dead. A third fault can lose an agent; `dlq_lost` shows how.

None of the invariants is inductive alone. TLC checked the strengthenings below
as invariants of small instances before they were proved.

The pipeline, with every request of the user:

- `CountInv`: besides `CountedHasRow`, a handler at `count` has already
  inserted the row of its agent. Rows are never deleted, so `CountDone` only adds
  agents that have one; all other steps shrink `done` or leave it.
- `ReportInv`: besides the two invariants, a call past `load` carries rows with
  a success, and a call at `finish` has a report. `CreateReport` is the only
  step that writes the report and writes those rows; `Finish` is the only one
  that sets `done`.
- `ClaimInv`: a call with the claim implies the lock, two claimed calls are the
  same call, and a call that composes saw no report. The lock disappears
  only by a stop, by a cancel or when it expires, hence `Undisturbed`.
- `HoldersInv`, for `SynthesesAreBounded`: claimed calls and requests that have
  incremented the epoch and not deleted the lock yet are counted together. Their
  number is at most the epoch, and one more while the lock is there; a request adds
  one when it increments the epoch, trades it for the lock when it deletes the key,
  and a call takes the lock's place when it claims.
- `BudgetInv`: the counter says nothing of the agents that have passed the check
  and not billed, so they (`Spenders`) are counted with it. Each holds a slot, and
  whoever passes the check found the counter below the budget: `OneHandler` states
  this once, for all steps of a handler. A deleted counter only lowers the sum.

The pipeline, left alone (`BarrierProofs`):

- `OneRunInv`, `HandlerInv`: no other run has started, and what the orchestrator and
  the handlers have written so far follows from where they are. Together, as
  `RunInv`, with `RowsInv`: rows and counted agents are among the dispatched ones.
- `AllInInv` carries `CompleteReport`. Completion is decided in four places (a
  worker's comparison, the two counts of a sweep, its fallback over rows, a wakeup in
  flight), each of which may have read long ago; the invariant says of each that once
  it has decided, all dispatched agents have rows, because rows never go. It is here
  that the sweep's separate reads need the absence of `slowSweep`.
- `FailedInv`: where the orchestrator may still be when the job has failed. With it,
  `RunInv`, `AllInInv` and `ReportInv`, each step of the pipeline is a step of
  `Barrier` or changes none of what it sees; the proof goes by the pipeline's actions.
- `AckInv` (`MessageInv`): for every agent, its message, its handler and the faults
  so far are related: once a message is gone, the agent is counted or the counters
  have been cleared; a handler about to acknowledge an agent it has not counted, and a
  message that is dead and not counted, have cost two faults. Positions and faults
  have to be counted together, hence `FewFaults`.

The components:

- `IInv` of the slot gate: waiters and runners are disjoint and conserved, and a
  free slot with a waiter implies an armed timer. `GrantKeeps` states once what
  `grantNext` preserves, and the three actions cite it; `GrantKeepsOrder` does the
  same for the order: it rests on the sort, a stable permutation (`SortedIs`), and on
  what a shift takes from the front of a sorted queue (`ShiftKeepsOrder`).
- `LoopInv`: every agent is `Fit`. `Thrifty`: in its loop an agent has overdrawn
  its reserve by one answer at most, so that the forced emit may cost one more.
  `Deep`: a success that was not forced came after the evidence floor. `Punctual`:
  who has been called since the stop meets the fence before the next call.
- `RendererInv`: the lock's queue has no one twice (`Queued`); the only live worker
  is the instance (`Held`); an instance that is not abandoned has no message of
  an earlier render, and its remembered caller is the one that waits (`Clean`).
  The last is why the instance must be thrown away when the watchdog fires: any
  reply of it would otherwise belong to another diagram.
- `LimitInv`: while a request has still to set the time to live, the key cannot
  run out, and that request has its place among the admitted (`OneExpires`).
- `RetentionInv` is a counting argument about builders that have listed the volume
  and not deleted yet. Each will leave the directories it spared (`Spared`), which
  at its listing were `Keep - 1` at most, and others add directories until then.
  `RoomForAll`: at most n of them have room for only n more (`Tight(n)`), for every
  n. So nobody has room for none, and whoever deletes next may make its directory:
  that takes one place of everybody's room, and one builder out of those that wait.
  That the listing spares so few is `SparedAreFew`, over the order of the times.
- `RebuildInv`: while the rebuild runs, or a question waits for it, the map of
  rebuilds has the job.
- `AccountsInv`: while Clerk's account is there, no deletion is on its way and what
  each request has seen of the row agrees with it (`RowHeld`); the tries of a request
  are among the database errors there were (`TriesAreBlips`), a request has no
  end before it is over (`EndsAtTheEnd`), and another user's row holds
  the GitHub id only if the account is shared (`RivalShares`).
- `RevokedTogether` is inductive with the type of the rows (`Shape`).
- `ComponentsRunAlone`, `ServicesRunAlone`: in the compositions each part takes its
  own steps or none, so that what is proved of a part holds there.

The computations (`AlgorithmsProofs`). The machine has one step, so its invariant,
`ResultFits`, says only that what is computed is `Result` of the input. The work is
in what `Result` returns, for graphs, conversations and lists of any size.

What an input may be is `InputsAssumption`, which TLC evaluates on the inputs of
`services`. Of a graph (`IsGraph`): a file is indexed once and lies in a named
module, ids of symbols are unique, symbols are of indexed files, callees of
indexed symbols. Which files and symbols throw when read, what is
imported and which package an import names are arbitrary, as are cycles and
recursion. Caps are positive, as their literals are; a cap of zero chains or
boxes is not considered. The severity of a security finding is one of its four
(its schema), that of the others is what the agents wrote. Numbers in prompts,
retries and searches are natural, and a retry makes an attempt.

- Folds come first. The library defines one by a function on sets that is chosen, and
  `FoldExists` shows that there is one. `FoldIs` then unfolds a fold into a run: a
  function from `0` to the length of the list that makes one step per element.
  Induction is by the least counterexample (`Stepwise`): a set of numbers has a
  least element, which the library's well-founded sets give without a theorem that
  takes an operator. This is where induction over data, which
  the provers cannot instantiate, is replaced.
- `Lists`: a filter returns the chosen positions in order (`PickedIs`, `PickedBy`), a
  sort is a permutation (`RankedIs`), a list of lists keeps every element and its
  length is a sum (`FlattenIs`, `LaidApart`), keys come once (`FirstTimesIs`), sums
  over disjoint parts add up (`PartsAddUp`).
- A walk along calls keeps `Chained`: the trail so far has no symbol twice and each
  hop is a call. `WalkIs`, `ChainsAre` and `FlowsAre` carry it to the facts, and
  `SequencedIs`, `ChainIsDrawn` and `TableIs` on to the diagram and the table, which
  cut the same chain at the same step.
- The weights: an import across modules is a file and a position in its list, an edge
  is a pair of modules. `ImportsAreCrossings` puts the imports one to one (`AsMany`)
  with the positions of the list the code counts; `TallyAdds` and `ModuleEdgesAre` add
  the counts up. `CrossingPairsAre` says which pairs there are, from which `PageIsAlone`
  reads when a module stands alone.
- Hotspots: `RankedUpTo` says of the scan that either a symbol was skipped and the note
  is set, or every readable symbol so far was ranked.
- Ids: a numbered id is taken only if it is free. That one is (`SomeIsFree`) is a
  pigeonhole: there are more numbers than labels seen.
- Conversations: `TranslatedAll` splits a translated conversation into turns, an
  answer of the model and what replies to it in alternation; `TurnsAreWellFormed`
  makes a request the provider accepts of turns that answer each call. `CacheIs` says
  that the marker moves to the tail and is not left behind.

Only model-checked:

- liveness (`Settles`, `NoStrandedAgent`, `CancelQuiesces`, `GateServes`, `LoopsEnd`,
  `ReportsEnd`, `QuestionsAnswered`, `BlockedIsFreed`): ENABLED and fairness are out of
  the prover's reach.

Every other property of a passing run is stated by a theorem. That the strengthenings
hold in the code is as good as the models are: the theorems are about the modules of
section 2, not about the TypeScript.

## 6. Not modelled, and the plan

Not modelled, for want of state or decisions of their own: HTTP routing, export,
health checks, logging, bootstrap, deployment; the event relay, on which nothing
depends; prices, schemas and charts, which are tables and arithmetic; the wording
of prompts and reports; the sections of the report that print one input each.

Not modelled, although it could be:

- A redelivery while the first handler still runs
  (`rabbitmq-options.factory.ts:144`): it takes two handlers for one message, which
  more than squares the states of `AgentWorker`.
- Languages, entry points, cycles and dead code of the facts: the library computes
  them, `RepoFactsService` cuts them.
- `CodeGraphService.close`: only the agent-worker calls it, for checkouts that no
  other process's cache knows.
- Two jobs at once: they meet only in the slots and in the checkouts, where they are
  modelled.

The plan's first two stages are done: the pipeline with its composition, and the
parts with state of their own; of the third, the computations, what is listed above
is left out. `AgentWorker` keeps its one-turn agent; that `AgentLoop` implements it
is not stated, because the two meet only in the fence and in the bill, whose
effects on the job both have. The fourth, the theorems, covers every safety
property the runs check. What is left is the list above.
