------------------------------ MODULE RepoFacts ------------------------------
(***************************************************************************)
(* RepoFactsService.build: what the orchestrator derives from the graph of *)
(* a repository before any model is asked.  Pure operators: a graph g, a   *)
(* manifest m and the caps c are records,                                  *)
(*   g.files       the indexed files in order, g.module their directory,   *)
(*   g.loc         the lines of the readable ones, 0 of the others,        *)
(*   g.nodes       the symbols in order: id, kind, file, exported,         *)
(*   g.callees     the callees of each symbol in order,                    *)
(*   g.deps        the import targets of each file in order,               *)
(*   g.imports     the import nodes: file and package,                     *)
(*   g.broken      the files and symbols whose graph reads throw where     *)
(*                 build catches it (a throw in moduleFacts fails the run, *)
(*                 which Orchestrator's Index does),                       *)
(*   g.routes      the handler of each route of the manifest.              *)
(* A package is what packageOf leaves of a specifier, None if relative.    *)
(***************************************************************************)
EXTENDS Lists

None == "none"

\* moduleOf through fileToModule; None for a path that is not indexed.
ModuleOf(g, f) == IF f \in ToSet(g.files) THEN g.module[f] ELSE None
NodesIn(g, f) == Select(g.nodes, LAMBDA n : n.file = f)
Readable(g, x) == x \notin g.broken

(***************************************************************************)
(* What build is given: a file is indexed once, a symbol, a call and an    *)
(* import are of what is indexed, and a module has a name.  The caps are   *)
(* literals.                                                               *)
(***************************************************************************)
Symbols == [id : STRING, kind : STRING, name : STRING, file : STRING, exported : BOOLEAN]
SymbolIds(g) == {n.id : n \in ToSet(g.nodes)}

IsGraph(g) ==
    /\ g.files \in Seq(STRING) /\ IsInjective(g.files)
    /\ g.module \in [ToSet(g.files) -> STRING \ {None}] /\ g.loc \in [ToSet(g.files) -> Nat]
    /\ g.nodes \in Seq(Symbols) /\ \A n, o \in ToSet(g.nodes) : n.id = o.id => n = o
    /\ \A n \in ToSet(g.nodes) : n.file \in ToSet(g.files)
    /\ g.callees \in [SymbolIds(g) -> Seq(SymbolIds(g))]
    /\ g.deps \in [ToSet(g.files) -> Seq(STRING)]
    /\ g.imports \in Seq([file : STRING, package : STRING])
    /\ g.routes \in Seq([file : STRING, handler : STRING])

CapNames == {"chains", "steps", "minSteps", "seeds", "edges", "imports", "exports", "modules", "scan", "hotspots",
             "flowSteps", "flowDeps", "boxes", "arrows", "depModules", "depPackages", "depEdges", "deps", "vulns",
             "minNodes", "flows", "declared"}
Caps == {c \in [CapNames -> Nat \ {0}] : c.minSteps >= 2}

(***************************************************************************)
(* Call chains                                                             *)
(***************************************************************************)
OutDegree(g, id) == IF Readable(g, id) THEN Len(g.callees[id]) ELSE 0
NodeOf(g, id) == CHOOSE n \in ToSet(g.nodes) : n.id = id

\* Route handlers first, by file and name, once each; without any, the exported
\* functions, the most connected first.
ChainSeeds(g, c) ==
    LET Handler(n, r) == n.file = r.file /\ n.name = r.handler /\ n.kind \in {"function", "method"}
        Found(r) == Slice(Select(g.nodes, LAMBDA n : Handler(n, r) /\ Readable(g, n.file)), 1)
        routed == FirstTimes(FlattenSeq([i \in DOMAIN g.routes |-> Found(g.routes[i])]))
        exported == Slice(Select(g.nodes, LAMBDA n : n.kind = "function" /\ n.exported), 2 * c.seeds)
    IN IF routed # <<>> THEN routed
       ELSE Slice(Descending(exported, LAMBDA n : OutDegree(g, n.id)), c.seeds)

\* Mutant: the seed itself is not marked as visited.
NextHopRevisits(g, chain) ==
    LET here == Last(chain)
        fresh == Select(g.callees[here.id], LAMBDA id : \A i \in 2..Len(chain) : chain[i].id # id)
        nodes == [i \in DOMAIN fresh |-> NodeOf(g, fresh[i])]
        Merit(n) == (IF n.file # here.file THEN 100 ELSE 0) + OutDegree(g, n.id)
    IN IF Readable(g, here.id) THEN Slice(Descending(nodes, Merit), 1) ELSE <<>>

\* The callee to go to: not visited, another file before the same file, then
\* the one that calls more.  Nothing if the read throws.
NextHop(g, chain) ==
    LET here == Last(chain)
        fresh == Select(g.callees[here.id], LAMBDA id : \A i \in DOMAIN chain : chain[i].id # id)
        nodes == [i \in DOMAIN fresh |-> NodeOf(g, fresh[i])]
        Merit(n) == (IF n.file # here.file THEN 100 ELSE 0) + OutDegree(g, n.id)
    IN IF Readable(g, here.id) THEN Slice(Descending(nodes, Merit), 1) ELSE <<>>

\* The walk from a seed: at most c.steps symbols.
Walk(g, seed, c) ==
    FoldLeft(LAMBDA chain, i : chain \o (IF Len(chain) < i THEN <<>> ELSE NextHop(g, chain)),
             <<seed>>, [i \in 1..(c.steps - 1) |-> i])

\* The chains of at least c.minSteps symbols, the first c.chains of them; and
\* the note when there were seeds but no chain.
CallChains(g, c) ==
    LET seeds == Slice(ChainSeeds(g, c), c.seeds)
        chains == Select([i \in DOMAIN seeds |-> Walk(g, seeds[i], c)], LAMBDA w : Len(w) >= c.minSteps)
    IN [chains |-> Slice(chains, c.chains), degraded |-> seeds # <<>> /\ chains = <<>>]

(***************************************************************************)
(* Weighted edges: the nested maps in insertion order, heaviest first      *)
(***************************************************************************)
\* Pairs <<from, to>> counted, in the order of a map of maps.
Counted(pairs) ==
    LET froms == FirstTimes([i \in DOMAIN pairs |-> pairs[i][1]])
        Row(f) == FirstTimes(Select(pairs, LAMBDA p : p[1] = f))
        rows == FlattenSeq([i \in DOMAIN froms |-> Row(froms[i])])
        Count(p) == Cardinality({i \in DOMAIN pairs : pairs[i] = p})
    IN [i \in DOMAIN rows |-> [from |-> rows[i][1], to |-> rows[i][2], weight |-> Count(rows[i])]]

\* Mutant: an import inside the module counts as an edge of it.
ModuleEdgesWithLoops(g, c) ==
    LET Pairs(f) == IF Readable(g, f) THEN [i \in DOMAIN g.deps[f] |-> <<g.module[f], ModuleOf(g, g.deps[f][i])>>] ELSE <<>>
        crossing == Select(FlattenSeq([i \in DOMAIN g.files |-> Pairs(g.files[i])]), LAMBDA p : p[2] # None)
    IN Slice(Descending(Counted(crossing), LAMBDA e : e.weight), c.edges)

\* File imports between different modules of the repository.
ModuleEdges(g, c) ==
    LET Pairs(f) == IF Readable(g, f) THEN [i \in DOMAIN g.deps[f] |-> <<g.module[f], ModuleOf(g, g.deps[f][i])>>] ELSE <<>>
        all == FlattenSeq([i \in DOMAIN g.files |-> Pairs(g.files[i])])
        crossing == Select(all, LAMBDA p : p[2] # None /\ p[1] # p[2])
    IN Slice(Descending(Counted(crossing), LAMBDA e : e.weight), c.edges)

\* Imports of declared packages only; an import of a file that is not indexed
\* counts for the root module.
ExternalImports(g, m, c) ==
    LET declared == {m.dependencies[i].name : i \in DOMAIN m.dependencies}
        used == Select(g.imports, LAMBDA n : n.package \in declared)
        From(n) == IF ModuleOf(g, n.file) = None THEN "(root)" ELSE g.module[n.file]
        edges == Counted([i \in DOMAIN used |-> <<From(used[i]), used[i].package>>])
    IN [edges |-> Slice(Descending(edges, LAMBDA e : e.weight), c.imports),
        degraded |-> Len(edges) > c.imports]

(***************************************************************************)
(* Modules and hotspots                                                    *)
(***************************************************************************)
Exports(g, files, c) ==
    LET Public(n) == n.kind \in {"export", "class", "interface", "function"}
        names == FlattenSeq([i \in DOMAIN files |-> Select(NodesIn(g, files[i]), Public)])
    IN Slice(FirstTimes([i \in DOMAIN names |-> names[i].name]), c.exports)

\* Files grouped by directory in the order they come up, the largest first.
Modules(g, c) ==
    LET names == FirstTimes([i \in DOMAIN g.files |-> g.module[g.files[i]]])
        Fact(name) ==
            LET files == Select(g.files, LAMBDA f : g.module[f] = name) IN
            [name |-> name, files |-> Len(files), loc |-> SumOf(files, LAMBDA f : g.loc[f]),
             exports |-> Exports(g, files, c)]
    IN Slice(Descending([i \in DOMAIN names |-> Fact(names[i])], LAMBDA r : r.loc), c.modules)

\* Mutant: the cap met inside a file ends the scan of that file only, unmarked.
HotspotsUnmarked(g, c) ==
    LET Scan(acc, f) ==
            LET symbols == Select(NodesIn(g, f), LAMBDA n : n.kind \in {"function", "method"})
            IN IF acc.scanned >= c.scan THEN [acc EXCEPT !.truncated = TRUE]
               ELSE IF ~Readable(g, f) THEN acc
               ELSE LET looked == Slice(symbols, c.scan - acc.scanned) IN
                    [acc EXCEPT !.scanned = @ + Len(looked),
                                !.scored = @ \o Select(looked, LAMBDA n : Readable(g, n.id))]
        all == FoldLeft(Scan, [scored |-> <<>>, scanned |-> 0, truncated |-> FALSE], g.files)
    IN [hotspots |-> Slice(Descending(all.scored, LAMBDA n : OutDegree(g, n.id)), c.hotspots),
        scored |-> all.scored, degraded |-> all.truncated]

\* Functions and methods in file order until c.scan of them were looked at.  A
\* file that cannot be read costs nothing, a symbol that cannot be read counts
\* as looked at.  Measured by how much it calls.
Hotspots(g, c) ==
    LET Scan(acc, f) ==
            LET symbols == Select(NodesIn(g, f), LAMBDA n : n.kind \in {"function", "method"})
                looked == Slice(symbols, c.scan - acc.scanned)
            IN IF acc.truncated \/ acc.scanned >= c.scan THEN [acc EXCEPT !.truncated = TRUE]
               ELSE IF ~Readable(g, f) THEN acc
               ELSE [scanned |-> acc.scanned + Len(looked),
                     truncated |-> Len(looked) < Len(symbols),
                     scored |-> acc.scored \o Select(looked, LAMBDA n : Readable(g, n.id))]
        all == FoldLeft(Scan, [scored |-> <<>>, scanned |-> 0, truncated |-> FALSE], g.files)
    IN [hotspots |-> Slice(Descending(all.scored, LAMBDA n : OutDegree(g, n.id)), c.hotspots),
        scored |-> all.scored, degraded |-> all.truncated]
=============================================================================
