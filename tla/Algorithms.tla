----------------------------- MODULE Algorithms -----------------------------
(***************************************************************************)
(* The pure computations of the system as a machine of one step: an input  *)
(* of one of them is given, its output computed.  A graph goes through     *)
(* RepoFactsService, the diagrams and the report in turn, so that what one *)
(* says can be held against what the others say.                           *)
(***************************************************************************)
EXTENDS Report, Dialect, InputBudget

CONSTANT Inputs     \* records [of, ...], see Result

\* What the computations are given.  Lengths, caps and limits are numbers; a retry
\* makes an attempt and its delay does not shrink; -1 hits are a file that throws;
\* an endpoint has a path.
Kinds == {"graph", "register", "routes", "labels", "talk", "prompt", "backoff", "search"}

ASSUME InputsAssumption ==
    \A x \in Inputs :
        /\ x.of \in Kinds
        /\ x.of = "graph" => /\ IsGraph(x.g) /\ x.m.dependencies \in Seq([name : STRING]) /\ x.c \in Caps
                             /\ x.said \in Sayings /\ x.aged \in BOOLEAN
        /\ x.of = "register" => x.said \in Reported
        /\ x.of = "routes" => /\ x.routes \in Seq(STRING) /\ x.listed \in Seq(STRING) /\ x.cap \in Nat
                               /\ None \notin ToSet(x.listed)
        /\ x.of = "labels" => /\ x.labels \in Seq(STRING)
                              /\ \A l \in ToSet(x.labels) : x.flat[l] \in Seq(Nat)
        /\ x.of = "talk" => x.answers \in Seq(Answers)
        /\ x.of = "prompt" => /\ {x.facts, x.fixed, x.budget} \subseteq Nat
                              /\ x.ctx \in [FieldNames -> Nat]
        /\ x.of = "backoff" => x.failures \in Nat /\ x.options \in RetryOptions
        /\ x.of = "search" => x.files \in Seq(Int) /\ x.c \in SearchCaps

VARIABLES
    input,
    output,         \* <<>> until it is computed
    computed

algorithmVars == <<input, output, computed>>

\* build() in the order of its fields: what the diagrams and the report read.
FactsOf(g, m, c) ==
    [there |-> TRUE,
     modules |-> Modules(g, c),
     edges |-> ModuleEdges(g, c),
     chains |-> CallChains(g, c).chains,
     imports |-> ExternalImports(g, m, c).edges]

NoFacts == [there |-> FALSE, modules |-> <<>>, edges |-> <<>>, chains |-> <<>>, imports |-> <<>>]

\* One run from graph to report; the facts may have aged out of Redis.
Pipelined(x) ==
    LET facts == IF x.aged THEN NoFacts ELSE FactsOf(x.g, x.m, x.c)
        diagrams == BuildAll(x.g, facts, x.said, x.c)
    IN [facts |-> facts,
        hotspots |-> Hotspots(x.g, x.c),
        cut |-> ExternalImports(x.g, x.m, x.c).degraded,
        diagrams |-> diagrams,
        report |-> Render(facts, diagrams, x.said, x.m.dependencies, x.c)]

Result(x) ==
    CASE x.of = "graph" -> Pipelined(x)
      [] x.of = "register" -> [rows |-> Findings(x.said), unanchored |-> Unanchored(x.said)]
      [] x.of = "routes" -> ApiSurface(x.routes, x.listed, x.cap)
      [] x.of = "labels" -> Ids(x.labels, x.flat)
      [] x.of = "talk" -> [sent |-> WithRollingCache(Conversation(x.answers)),
                           out |-> ToMistralMessages(WithRollingCache(Conversation(x.answers)))]
      [] x.of = "prompt" -> AssembleUserMessage(x.facts, x.fixed, x.ctx, x.budget)
      [] x.of = "backoff" -> Waits(x.failures, x.options)
      [] OTHER -> Answer(x.files, x.c)

AlgorithmsInit == input \in Inputs /\ output = <<>> /\ computed = FALSE
Compute == ~computed /\ computed' = TRUE /\ output' = Result(input) /\ UNCHANGED input
AlgorithmsNext == Compute
AlgorithmsSpec == AlgorithmsInit /\ [][AlgorithmsNext]_algorithmVars

Computed(of) == computed /\ input.of = of

(***************************************************************************)
(* Measured facts                                                          *)
(***************************************************************************)
\* Every hop of a chain is a call edge of the graph, no symbol comes twice, and
\* a chain is neither too short to say anything nor over the cap, for graphs
\* with cycles, recursion and reads that throw.
ChainsAreCalls ==
    Computed("graph") =>
        \A k \in DOMAIN output.facts.chains :
            LET chain == output.facts.chains[k] IN
            /\ Len(chain) \in input.c.minSteps..input.c.steps
            /\ \A i \in 2..Len(chain) : chain[i].id \in ToSet(input.g.callees[chain[i - 1].id])
            /\ \A i, j \in DOMAIN chain : chain[i] = chain[j] => i = j

\* Module edges are imports across modules: never a loop, each pair once, and
\* unless the cap cuts, their weights add up to the imports there are.
EdgesAreImports ==
    Computed("graph") /\ output.facts.there =>
        LET edges == output.facts.edges
            Crosses(f, i) == ModuleOf(input.g, input.g.deps[f][i]) \notin {None, input.g.module[f]}
            imports == UNION {{f} \X {i \in DOMAIN input.g.deps[f] : Crosses(f, i)} :
                                f \in ToSet(input.g.files) \ input.g.broken}
        IN /\ \A i \in DOMAIN edges : edges[i].from # edges[i].to
           /\ \A i, j \in DOMAIN edges : edges[i].from = edges[j].from /\ edges[i].to = edges[j].to => i = j
           /\ Len(edges) < input.c.edges => SumOf(edges, LAMBDA e : e.weight) = Cardinality(imports)

\* A ranking of hotspots that left a symbol out for the cap says so; without
\* that note every symbol that can be read was ranked.
PartialIsSaid ==
    Computed("graph") =>
        LET g == input.g
            readable == {n \in ToSet(g.nodes) : /\ n.kind \in {"function", "method"}
                                                /\ Readable(g, n.file) /\ Readable(g, n.id)}
        IN ~output.hotspots.degraded => ToSet(output.hotspots.scored) = readable

(***************************************************************************)
(* Diagrams and report                                                     *)
(***************************************************************************)
\* No arrow of any diagram ends at a box the caps have cut.
NoDanglingArrow ==
    Computed("graph") =>
        \A k \in DOMAIN output.diagrams :
            LET d == output.diagrams[k].diagram IN
            \A i \in DOMAIN d.edges : ToSet(d.edges[i]) \subseteq ToSet(d.nodes)

\* A sequence diagram has an arrow from a participant to itself only where the
\* chain stays in the same symbol of the same file.
NoInventedSelfCall ==
    Computed("graph") =>
        \A k \in DOMAIN output.facts.chains :
            LET chain == output.facts.chains[k]
                edges == SequenceFromChain(chain, input.c).edges
            IN \A i \in 1..(Len(edges) - 1) :
                  edges[i][1] = edges[i][2] => chain[i].name = chain[i + 1].name /\ chain[i].file = chain[i + 1].file

\* Every package the dependency diagram shows hangs on a module it shows.
PackagesConnected ==
    Computed("graph") /\ output.facts.imports # <<>> =>
        LET d == DependencyEdgeGraph(output.facts.imports, input.c) IN
        \A box \in ToSet(d.nodes) : box[1] = "pkg" => \E i \in DOMAIN d.edges : d.edges[i][2] = box

\* The table of the report and the diagram above it follow the same chain.
TableFollows == Computed("graph") => TableFollowsDiagram(output.report.table, output.diagrams, input.c)

\* A module said to be imported by nothing, or to import nothing, of this
\* repository stands alone in the graph, unless the cap on edges was met.
IsolatedIsAlone ==
    Computed("graph") /\ Len(output.facts.edges) < input.c.edges =>
        \A p \in ToSet(output.report.pages) :
            LET Imports(f, m) == \E i \in DOMAIN input.g.deps[f] : ModuleOf(input.g, input.g.deps[f][i]) = m
                others == {f \in ToSet(input.g.files) \ input.g.broken : input.g.module[f] # p.name}
                own == (ToSet(input.g.files) \ input.g.broken) \ others
                names == {input.g.module[f] : f \in ToSet(input.g.files)} \ {p.name}
            IN /\ p.importedBy = <<>> <=> \A f \in others : ~Imports(f, p.name)
               /\ p.importsFrom = <<>> <=> \A f \in own : \A m \in names : ~Imports(f, m)

\* The number of imports beside a declared package, none included, is that of
\* the repository, unless the facts say that imports were cut.
UsageIsMeasured ==
    Computed("graph") /\ ~output.cut =>
        \A row \in ToSet(output.report.packages) :
            row.used = Len(Select(input.g.imports, LAMBDA n : n.package = row.name))

\* Steps of authentication that were found are drawn or listed, whatever else
\* made the diagram thick or thin.
AuthStepsShown == Computed("graph") /\ input.said.authSteps > 0 => output.report.auth # "none"

\* The register of findings loses no item without counting it.
RegisterComplete == Computed("register") => RegisterIsComplete(input.said, output.rows, output.unanchored)

\* The endpoints that the report says are not in the route graph are at least those
\* that are not, and no other unless the table of routes was cut; where no routes
\* are known it takes the security agent's word for them.
EndpointsAddUp ==
    Computed("routes") => EndpointsAccounted(input.routes, input.listed, input.cap, output)

\* Two labels never share an id, whichever flatten alike and whichever look
\* like another one with its number.
IdsDistinct ==
    Computed("labels") =>
        /\ DOMAIN output = ToSet(input.labels)
        /\ \A a, b \in DOMAIN output : output[a] = output[b] => a = b

(***************************************************************************)
(* Conversation and bounds                                                 *)
(***************************************************************************)
\* Whatever the model asked for in parallel, the next request answers each call
\* right after it, if an emit that was turned down came alone: the other calls
\* of its message get no answer.
DialectWellFormed ==
    Computed("talk") =>
        LET alone == \A k \in DOMAIN input.answers :
                        LET uses == OfType(input.answers[k], "tool_use") IN
                        (\E i \in DOMAIN uses : uses[i].name = "emit") => Len(uses) = 1
        IN alone => WellFormed(output.out)

\* The one cache marker of a request is on its last block, also after a nudge,
\* which is a string.
CacheAtTail == Computed("talk") => OneMarker(output.sent)

\* A prompt over the budget gives up its parts in the order the code names, and
\* no part that a smaller cut would have saved.
PromptFits == Computed("prompt") => CutsInOrder(input.facts, input.fixed, input.ctx, input.budget, output)

\* Waits between attempts grow to the maximum and never over it, and there is
\* one less than there are attempts.
BackoffBounded == Computed("backoff") => BacksOff(input.failures, input.options, output)

\* A search that left out a match in a file within its cap on files says that
\* there is more.
SearchSaysMore == Computed("search") => SearchComplete(input.files, input.c, output)

(***************************************************************************)
(* The same, by what they are about                                        *)
(***************************************************************************)
\* What the facts say of calls and imports is in the graph they were measured in.
FactsAreMeasured == ChainsAreCalls /\ EdgesAreImports

\* What a report says of hotspots, modules and packages is all there is, unless a
\* cut was noted or a cap was met.
CutsAreKnown == PartialIsSaid /\ IsolatedIsAlone /\ UsageIsMeasured

\* The caps and the shortened labels leave no diagram with arrows, boxes or names
\* that belong to nothing.
DiagramsHoldTogether == NoDanglingArrow /\ NoInventedSelfCall /\ PackagesConnected /\ IdsDistinct

\* The sections of the report agree with the diagrams, the findings and the routes
\* they speak of, drawn or not, shown or cut.
ReportAgrees == TableFollows /\ AuthStepsShown /\ RegisterComplete /\ EndpointsAddUp

\* The next request of a conversation is one the provider accepts, with its cache
\* marker at the tail.
RequestsAccepted == DialectWellFormed /\ CacheAtTail

\* The budget of a prompt, the waits of a retry and the caps of a search hold at
\* their boundaries, and what they cut is what the code says they cut.
BoundsHold == PromptFits /\ BackoffBounded /\ SearchSaysMore

(***************************************************************************)
(* What a comment says and the code does not do                            *)
(***************************************************************************)
\* llm-client.service.ts on toMistralMessages: a batch of calls is always
\* answered by one message of matching results.
EveryCallAnswered == Computed("talk") => WellFormed(output.out)
=============================================================================
