------------------------------- MODULE Report -------------------------------
(***************************************************************************)
(* ReportRenderer: what a report holds, section by section, and what a     *)
(* section says of another part: a diagram, a finding, a measured fact.    *)
(* Pure operators over the inputs of render; wording and layout are left   *)
(* out.  facts is what D2Source calls facts.                               *)
(***************************************************************************)
EXTENDS D2Source

SeverityRank == [critical |-> 0, high |-> 1, medium |-> 2, low |-> 3]
Levels == <<"critical", "high", "medium", "low">>
Areas == <<"SEC", "QUA", "DEP">>

(***************************************************************************)
(* buildFindings.  A reported item is [severity, location]; the quality    *)
(* agent's carry a category instead, the dependency agent's neither.       *)
(***************************************************************************)
Reported == [SEC : Seq([severity : DOMAIN SeverityRank, location : STRING]),
             QUA : Seq([severity : STRING, location : STRING]),
             DEP : Seq([severity : STRING, location : STRING])]

SeverityOf(area, item) ==
    CASE area = "SEC" -> item.severity
      [] area = "QUA" -> IF item.severity \in {"error_handling", "tests"} THEN "medium" ELSE "low"
      [] OTHER -> "medium"

Findings(said) ==
    LET Anchored(area) == Select(said[area], LAMBDA item : item.location # None)
        Row(area, i) == [id |-> <<area, i>>, severity |-> SeverityOf(area, Anchored(area)[i]),
                         location |-> Anchored(area)[i].location]
        rows == FlattenSeq([k \in DOMAIN Areas |->
                    [i \in DOMAIN Anchored(Areas[k]) |-> Row(Areas[k], i)]])
    IN Descending(rows, LAMBDA f : 0 - SeverityRank[f.severity])

\* Mutant: what the dependency agent leaves without a package is not counted.
UnanchoredUncounted(said) ==
    SumOf(Front(Areas), LAMBDA area : Len(Select(said[area], LAMBDA item : item.location = None)))

Unanchored(said) ==
    SumOf(Areas, LAMBDA area : Len(Select(said[area], LAMBDA item : item.location = None)))

BySeverity(findings, level) == Len(Select(findings, LAMBDA f : f.severity = level))

(***************************************************************************)
(* Sections                                                                *)
(***************************************************************************)
\* DiagramFences: the diagram of a slug, if it was drawn.
Drawn(diagrams, slug) == Select(diagrams, LAMBDA d : d.slug = <<slug, 0>>)

\* Mutant: the table follows the first chain.
SystemFlowOfFirst(facts, diagrams) ==
    IF facts.there /\ Drawn(diagrams, "system-flow") # <<>> /\ facts.chains # <<>>
    THEN facts.chains[1] ELSE <<>>

\* The table under the system flow diagram: the longest chain, all of it.
SystemFlowTable(facts, diagrams) ==
    IF facts.there /\ Drawn(diagrams, "system-flow") # <<>> /\ facts.chains # <<>>
    THEN SpineOf(facts.chains) ELSE <<>>

\* Mutant: the importers of a module are taken for what it imports.
ModulePageSwapped(facts, m) ==
    [name |-> m,
     importsFrom |-> Select(facts.edges, LAMBDA e : e.to = m),
     importedBy |-> Select(facts.edges, LAMBDA e : e.from = m),
     packages |-> Slice(Select(facts.imports, LAMBDA e : e.from = m), 6)]

\* What the page of a module says of its edges and its packages.
ModulePage(facts, m) ==
    [name |-> m,
     importsFrom |-> Select(facts.edges, LAMBDA e : e.from = m),
     importedBy |-> Select(facts.edges, LAMBDA e : e.to = m),
     packages |-> Slice(Select(facts.imports, LAMBDA e : e.from = m), 6)]

\* Mutant: an endpoint is matched once for each row that shows it.
ApiSurfaceByRows(routes, listed, cap) ==
    LET shown == Slice(routes, cap)
        flagged == ToSet(listed)
        rows == [i \in DOMAIN shown |-> IF shown[i] \in flagged THEN shown[i] ELSE None]
    IN IF routes = <<>> THEN [source |-> "agent", rows |-> listed, dropped |-> 0]
       ELSE [source |-> "graph", rows |-> rows,
             dropped |-> Cardinality(flagged) - Len(Select(rows, LAMBDA r : r # None))]

\* The routes of the graph that fit, by their normalised form, with a flag where the
\* security agent listed one, and how many it listed that no row shows.  Without
\* routes, or facts, the section is its list, or is not there.
ApiSurface(routes, listed, cap) ==
    LET shown == Slice(routes, cap)
        flagged == ToSet(listed)
        rows == [i \in DOMAIN shown |-> IF shown[i] \in flagged THEN shown[i] ELSE None]
    IN CASE routes # <<>> -> [source |-> "graph", rows |-> rows,
                              dropped |-> Cardinality(flagged) - Cardinality(ToSet(rows) \ {None})]
         [] routes = <<>> /\ listed # <<>> -> [source |-> "agent", rows |-> listed, dropped |-> 0]
         [] OTHER -> [source |-> "none", rows |-> <<>>, dropped |-> 0]

\* Mutant: the section is its diagram.
AuthFlowDrawn(diagrams, authSteps) ==
    IF Drawn(diagrams, "security-auth-flow") # <<>> THEN "diagram" ELSE "none"

\* The diagram, or the list of steps when it was too thin to be drawn.
AuthFlow(diagrams, authSteps) ==
    IF Drawn(diagrams, "security-auth-flow") # <<>> THEN "diagram"
    ELSE IF authSteps > 0 THEN "list" ELSE "none"

\* Mutant: a later module's count replaces an earlier one's.
UsageOfLast(facts, package) ==
    LET of == Select(facts.imports, LAMBDA e : e.to = package) IN
    IF of = <<>> THEN 0 ELSE Last(of).weight

\* The imports of a package, over all modules; 0 is said as "no imports found".
Usage(facts, package) == SumOf(Select(facts.imports, LAMBDA e : e.to = package), LAMBDA e : e.weight)

\* The declared packages that fit, the most imported first.
Declared(facts, dependencies, c) ==
    LET shown == Slice(dependencies, c.declared)
        rows == [i \in DOMAIN shown |-> [name |-> shown[i].name, used |-> Usage(facts, shown[i].name)]]
    IN Descending(rows, LAMBDA r : r.used)

\* The sections that speak of a diagram or a fact.  Without facts, which age out
\* of Redis, the measured ones are left out.
Render(facts, diagrams, said, dependencies, c) ==
    [table |-> SystemFlowTable(facts, diagrams),
     auth |-> AuthFlow(diagrams, said.authSteps),
     pages |-> IF facts.there
               THEN [i \in DOMAIN facts.modules |-> ModulePage(facts, facts.modules[i].name)] ELSE <<>>,
     packages |-> IF facts.there THEN Declared(facts, dependencies, c) ELSE <<>>]

(***************************************************************************)
(* What relates a section to what it is about                              *)
(***************************************************************************)
\* Every reported item is a row or counted as dropped; ids name one row each,
\* as recommendations cite them; no row outranks one above it; and the counts of
\* the first section are those of the register.
RegisterIsComplete(said, rows, unanchored) ==
    LET reported == SumOf(Areas, LAMBDA area : Len(said[area]))
    IN /\ Len(rows) + unanchored = reported
       /\ Len(rows) = SumOf(Levels, LAMBDA level : BySeverity(rows, level))
       /\ \A i, j \in DOMAIN rows : rows[i].id = rows[j].id => i = j
       /\ \A i \in 2..Len(rows) : SeverityRank[rows[i - 1].severity] <= SeverityRank[rows[i].severity]

\* The rows of the system flow table start with the boxes of its diagram.
TableFollowsDiagram(table, diagrams, c) ==
    LET boxes == Drawn(diagrams, "system-flow")[1].diagram.nodes
    IN table # <<>> => \A i \in 1..(IF c.flowSteps < Len(table) THEN c.flowSteps ELSE Len(table)) : boxes[i] = <<i, table[i].id>>

\* With routes, the endpoints said not to appear in the route graph are no fewer
\* than those that do not, and just those if the table shows every route; without,
\* the list of the agent is there as it is, and none is said to be dropped.
EndpointsAccounted(routes, listed, cap, s) ==
    LET unknown == Cardinality(ToSet(listed) \ ToSet(routes)) IN
    /\ routes # <<>> => /\ s.dropped >= unknown
                        /\ Len(routes) <= cap => s.dropped = unknown
    /\ routes = <<>> => s.rows = listed /\ s.dropped = 0
=============================================================================
