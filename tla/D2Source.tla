------------------------------ MODULE D2Source ------------------------------
(***************************************************************************)
(* D2SourceBuilder and the selection in DiagramsService.buildAll: from the *)
(* facts and the answers of the agents to the boxes and arrows of each     *)
(* diagram.  Pure operators; c holds the caps.  A diagram is               *)
(*   nodes    the boxes in the order they are declared,                    *)
(*   edges    the arrows, pairs of boxes,                                  *)
(*   boxes    what countNodes makes of its source.                         *)
(* A box is named by the label its id was allocated for: Ids shows that    *)
(* different labels have different ids.                                    *)
(***************************************************************************)
EXTENDS RepoFacts

Diagram(nodes, edges) == [nodes |-> nodes, edges |-> edges, boxes |-> Len(nodes)]
Placeholder == Diagram(<<"empty">>, <<>>)
Hops(s) == [i \in 1..(Len(s) - 1) |-> <<s[i], s[i + 1]>>]

(***************************************************************************)
(* IdAllocator.  A label flattens to a base, a sequence of words, each a   *)
(* number here, as the number is that may follow it; several labels may    *)
(* share a base, and that number makes the id of a later one differ from   *)
(* every id taken so far, numbered or not.                                 *)
(***************************************************************************)
Given(acc, l, id) == [k \in DOMAIN acc \cup {l} |-> IF k = l THEN id ELSE acc[k]]

\* Mutant: only the bases are remembered as taken.
IdsForgetNumbers(labels, Flat) ==
    LET Get(acc, l) ==
          IF l \in DOMAIN acc THEN acc
          ELSE LET n == Cardinality({k \in DOMAIN acc : Flat[k] = Flat[l]})
               IN Given(acc, l, IF n = 0 THEN Flat[l] ELSE Append(Flat[l], n))
    IN FoldLeft(Get, <<>>, labels)

Ids(labels, Flat) ==
    LET Get(acc, l) ==
          LET taken == {acc[k] : k \in DOMAIN acc}
              Free(n) == (IF n = 0 THEN Flat[l] ELSE Append(Flat[l], n)) \notin taken
              n == CHOOSE n \in 0..Len(labels) : Free(n) /\ \A k \in 0..(n - 1) : ~Free(k)
          IN IF l \in DOMAIN acc THEN acc
             ELSE Given(acc, l, IF n = 0 THEN Flat[l] ELSE Append(Flat[l], n))
    IN FoldLeft(Get, <<>>, labels)

(***************************************************************************)
(* Diagrams of measured facts                                              *)
(***************************************************************************)
\* The longest chain, the first of the longest.
SpineOf(chains) == Descending(chains, LAMBDA w : Len(w))[1]

\* A box for each step of the longest chain, unless it is but one step, and the packages that the modules
\* on the way import most, hung on the last step.  A package that two of them
\* import is drawn twice, with the same id.
SystemFlow(g, chains, imports, c) ==
    LET steps == Slice(SpineOf(chains), c.flowSteps)
        touched == {g.module[steps[i].file] : i \in DOMAIN steps}
        reached == Slice(Descending(Select(imports, LAMBDA e : e.from \in touched),
                                    LAMBDA e : e.weight), c.flowDeps)
        spine == [i \in DOMAIN steps |-> <<i, steps[i].id>>]
        packages == [i \in DOMAIN reached |-> <<0, reached[i].to>>]
    IN IF chains = <<>> \/ Len(SpineOf(chains)) < 2 THEN Placeholder
       ELSE Diagram(spine \o packages,
                    Hops(spine) \o [i \in DOMAIN packages |-> <<Last(spine), packages[i]>>])

\* Mutant: an arrow is drawn whether its ends are boxes or not.
ModuleGraphAnyEdge(names, deps, c) ==
    LET ends == FlattenSeq([i \in DOMAIN deps |-> <<deps[i].from, deps[i].to>>])
        boxes == Slice(FirstTimes(names \o ends), c.boxes)
    IN IF boxes = <<>> THEN Placeholder
       ELSE Diagram(boxes, [i \in DOMAIN Slice(deps, c.arrows) |-> <<deps[i].from, deps[i].to>>])

\* Declared modules and all ends of edges, those nothing points at first; an
\* arrow is left out when the cap on boxes has cut one of its ends.
ModuleGraph(names, deps, c) ==
    LET ends == FlattenSeq([i \in DOMAIN deps |-> <<deps[i].from, deps[i].to>>])
        incoming == {deps[i].to : i \in DOMAIN deps}
        ordered == Descending(FirstTimes(names \o ends), LAMBDA m : IF m \in incoming THEN 0 ELSE 1)
        boxes == Slice(ordered, c.boxes)
        drawn == Select(Slice(deps, c.arrows),
                           LAMBDA d : d.from \in ToSet(boxes) /\ d.to \in ToSet(boxes))
    IN IF boxes = <<>> THEN Placeholder
       ELSE Diagram(boxes, [i \in DOMAIN drawn |-> <<drawn[i].from, drawn[i].to>>])

\* Participants in the order they are touched, an arrow for each hop, and one
\* back to the start unless the flow ends there.
Sequenced(participants) ==
    LET back == <<Last(participants), participants[1]>>
    IN IF Len(participants) < 2 THEN Placeholder
       ELSE Diagram(FirstTimes(participants),
                    Hops(participants) \o IF back[1] = back[2] THEN <<>> ELSE <<back>>)

\* Mutant: a participant is a symbol, in whatever file it is.
SequenceBySymbol(chain, c) ==
    LET steps == Slice(chain, c.steps) IN Sequenced([i \in DOMAIN steps |-> <<steps[i].name, "any">>])

\* A participant of a traced chain is a symbol in a file, one of an agent's
\* flow the name it gave the step.
SequenceFromChain(chain, c) ==
    LET steps == Slice(chain, c.steps) IN Sequenced([i \in DOMAIN steps |-> <<steps[i].name, steps[i].file>>])

SequenceDiagram(steps, c) == Sequenced(Slice(steps, c.steps))

\* Mutant: the busiest packages are drawn, whichever modules import them.
TopPackages(imports, c) ==
    LET modules == {Slice(Descending(imports, LAMBDA e : e.weight), c.depModules)[i].from :
                      i \in DOMAIN Slice(imports, c.depModules)}
        edges == Slice(Descending(Select(imports, LAMBDA e : e.from \in modules), LAMBDA e : e.weight), c.depEdges)
        packages == Slice(FirstTimes([i \in DOMAIN imports |-> imports[i].to]), c.depPackages)
        drawn == Select(edges, LAMBDA e : e.to \in ToSet(packages))
    IN Diagram(SetToSeq({<<"mod", m>> : m \in modules}) \o [i \in DOMAIN packages |-> <<"pkg", packages[i]>>],
               [i \in DOMAIN drawn |-> <<<<"mod", drawn[i].from>>, <<"pkg", drawn[i].to>>>>])

\* The busiest modules and the packages they import most, with an arrow for
\* each import between two boxes.
DependencyEdgeGraph(imports, c) ==
    LET Busy(m) == SumOf(Select(imports, LAMBDA e : e.from = m), LAMBDA e : e.weight)
        modules == Slice(Descending(FirstTimes([i \in DOMAIN imports |-> imports[i].from]), Busy), c.depModules)
        edges == Slice(Descending(Select(imports, LAMBDA e : e.from \in ToSet(modules)),
                                  LAMBDA e : e.weight), c.depEdges)
        packages == Slice(FirstTimes([i \in DOMAIN edges |-> edges[i].to]), c.depPackages)
        drawn == Select(edges, LAMBDA e : e.to \in ToSet(packages))
    IN Diagram([i \in DOMAIN modules |-> <<"mod", modules[i]>>] \o [i \in DOMAIN packages |-> <<"pkg", packages[i]>>],
               [i \in DOMAIN drawn |-> <<<<"mod", drawn[i].from>>, <<"pkg", drawn[i].to>>>>])

(***************************************************************************)
(* Diagrams of what agents say                                             *)
(***************************************************************************)
\* Without measured imports: a grid of the packages the agent named, in a
\* container, with a last box for those beyond the cap.  countNodes takes the
\* line of a container for a box.
DependencyGraph(runtime, imports, c) ==
    LET shown == Slice(runtime, c.deps)
        more == IF Len(runtime) > c.deps THEN <<"more">> ELSE <<>>
    IN IF imports # <<>> THEN DependencyEdgeGraph(imports, c)
       ELSE IF runtime = <<>> THEN Placeholder
       ELSE Diagram(<<"app", "deps">> \o shown \o more, <<<<"app", "deps">>>>)

\* The steps as a chain, and a container of the severe vulnerabilities.
SecurityFlow(authSteps, severe, c) ==
    LET steps == [i \in 1..authSteps |-> <<"a", i>>]
        cluster == IF severe = 0 THEN <<>>
                   ELSE <<<<"vulns", 0>>>> \o [i \in 1..(IF severe < c.vulns THEN severe ELSE c.vulns) |-> <<"v", i>>]
    IN IF authSteps = 0 /\ severe = 0 THEN Placeholder ELSE Diagram(steps \o cluster, Hops(steps))

(***************************************************************************)
(* buildAll.  said: what the architecture and security agents and the      *)
(* dependency agent answered, of which only this is read.                  *)
(***************************************************************************)
Sayings == [modules : Seq(STRING), edges : Seq([from : STRING, to : STRING]), flows : Seq(Seq(STRING)),
            authSteps : Nat, severe : Nat, runtime : Seq(STRING)]

Pushed(slug, diagram, c) ==
    IF diagram.boxes < c.minNodes THEN <<>> ELSE <<[slug |-> slug, diagram |-> diagram]>>

\* The flows drawn: measured chains, else what the architecture agent listed.
RequestFlows(chains, flows, c) ==
    LET from == Slice(IF chains # <<>> THEN chains ELSE flows, c.flows)
        Drawn(i) == IF chains # <<>> THEN SequenceFromChain(from[i], c) ELSE SequenceDiagram(from[i], c)
    IN FlattenSeq([i \in DOMAIN from |-> Pushed(<<"request-flow", i>>, Drawn(i), c)])

\* facts: chains, modules, edges and imports; said: the agents' answers.  The
\* charts are always there.
BuildAll(g, facts, said, c) ==
    (IF facts.there THEN Pushed(<<"system-flow", 0>>, SystemFlow(g, facts.chains, facts.imports, c), c) ELSE <<>>)
    \o Pushed(<<"architecture-modules", 0>>,
              IF facts.edges # <<>>
              THEN ModuleGraph([i \in DOMAIN facts.modules |-> facts.modules[i].name], facts.edges, c)
              ELSE ModuleGraph(said.modules, said.edges, c), c)
    \o RequestFlows(facts.chains, said.flows, c)
    \o Pushed(<<"security-auth-flow", 0>>, SecurityFlow(said.authSteps, said.severe, c), c)
    \o Pushed(<<"dependency-graph", 0>>, DependencyGraph(said.runtime, facts.imports, c), c)
    \o <<[slug |-> <<"quality-donut", 0>>, diagram |-> Diagram(<<>>, <<>>)],
         [slug |-> <<"health-gauge", 0>>, diagram |-> Diagram(<<>>, <<>>)]>>
=============================================================================
