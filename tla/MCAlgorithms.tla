---------------------------- MODULE MCAlgorithms ----------------------------
(***************************************************************************)
(* Inputs for Algorithms: every graph of four symbols in three files with  *)
(* these calls, with cycles, recursion and one file or symbol that cannot  *)
(* be read, under tight and under loose caps; and small inputs of the rest.*)
(***************************************************************************)
EXTENDS Algorithms

Symbol(id, kind, name, file, exported) ==
    [id |-> id, kind |-> kind, name |-> name, file |-> file, exported |-> exported]

MCNodes == <<Symbol("n1", "function", "p", "a/x", TRUE), Symbol("n2", "method", "q", "a/x", FALSE),
             Symbol("n3", "function", "q", "b/y", TRUE), Symbol("n4", "function", "r", "z", TRUE)>>

MCDeps == {[f \in {"a/x", "b/y", "z"} |-> <<>>],
           [f \in {"a/x", "b/y", "z"} |-> CASE f = "a/x" -> <<"b/y", "z", "a/x">>
                                            [] f = "b/y" -> <<"z", "elsewhere">> [] OTHER -> <<"b/y">>]}

MCCallees == {[n \in {"n1", "n2", "n3", "n4"} |->
                 CASE n = "n1" -> c1 [] n = "n2" -> c2 [] n = "n3" -> c3 [] OTHER -> c4] :
              c1 \in {<<>>, <<"n2">>, <<"n3", "n2">>, <<"n1", "n3">>}, c2 \in {<<>>, <<"n3">>, <<"n4", "n1">>},
              c3 \in {<<>>, <<"n4">>, <<"n2", "n1">>}, c4 \in {<<>>, <<"n2">>}}

Route(file, handler) == [file |-> file, handler |-> handler]

MCGraphs ==
    {[files |-> <<"b/y", "z", "a/x">>, module |-> [f \in {"a/x", "b/y", "z"} |->
          CASE f = "a/x" -> "a" [] f = "b/y" -> "b" [] OTHER -> "(root)"],
      loc |-> [f \in {"a/x", "b/y", "z"} |-> IF f = "b/y" THEN 9 ELSE 3],
      nodes |-> MCNodes, callees |-> callees, deps |-> deps, broken |-> broken, routes |-> routes,
      imports |-> <<[file |-> "a/x", package |-> "k"], [file |-> "b/y", package |-> "k"],
                    [file |-> "b/y", package |-> "l"], [file |-> "b/y", package |-> None],
                    [file |-> "z", package |-> "undeclared"], [file |-> "z", package |-> "k"]>>] :
     callees \in MCCallees, deps \in MCDeps, broken \in {{}, {"n3"}, {"a/x"}},
     routes \in {<<>>, <<Route("a/x", "p"), Route("a/x", "p"), Route("a/x", "q")>>}}

MCManifest == [dependencies |-> <<[name |-> "k"], [name |-> "l"]>>]

MCTight == [chains |-> 2, steps |-> 3, minSteps |-> 3, seeds |-> 3, edges |-> 2, imports |-> 4, exports |-> 2,
            modules |-> 2, scan |-> 3, hotspots |-> 2, flowSteps |-> 2, flowDeps |-> 1, boxes |-> 2, arrows |-> 3,
            depModules |-> 1, depPackages |-> 2, depEdges |-> 2, deps |-> 2, vulns |-> 1, minNodes |-> 2, flows |-> 2,
            declared |-> 1]
MCLoose == [chains |-> 3, steps |-> 4, minSteps |-> 2, seeds |-> 4, edges |-> 9, imports |-> 9, exports |-> 9,
            modules |-> 9, scan |-> 9, hotspots |-> 9, flowSteps |-> 4, flowDeps |-> 2, boxes |-> 9, arrows |-> 9,
            depModules |-> 9, depPackages |-> 9, depEdges |-> 9, deps |-> 9, vulns |-> 2, minNodes |-> 3, flows |-> 3,
            declared |-> 9]

MCSaid == [modules |-> <<"a", "b", "c">>, edges |-> <<[from |-> "a", to |-> "b"], [from |-> "c", to |-> "d"]>>,
           flows |-> <<<<"s", "t", "s">>, <<"s">>, <<"s", "t", "u">>>>, authSteps |-> 1, severe |-> 2,
           runtime |-> <<"k", "l", "m">>]
MCThin == [MCSaid EXCEPT !.severe = 0, !.runtime = <<"k">>]

MCItems == {<<>>} \cup {<<[severity |-> s, location |-> l]>> : s \in {"low", "critical", "tests"}, l \in {None, "f"}}
                  \cup {<<[severity |-> "low", location |-> l], [severity |-> "high", location |-> "g"]>> : l \in {None, "f"}}
MCRegister == {[SEC |-> s, QUA |-> q, DEP |-> d] :
                 s \in {x \in MCItems : \A i \in DOMAIN x : x[i].severity # "tests"}, q \in MCItems, d \in MCItems}

MCAnswers == {FromDialect(TRUE, <<>>), FromDialect(TRUE, <<ToolUse(1, "graph"), ToolUse(2, "nosuch")>>),
              FromDialect(FALSE, <<ToolUse(3, "emit")>>), FromDialect(FALSE, <<ToolUse(4, "graph")>>),
              FromDialect(FALSE, <<ToolUse(5, "emit"), ToolUse(6, "graph")>>)}

\* The word a is 7, the word d is 9.
MCFlat == [a |-> <<7>>, b |-> <<7>>, c |-> <<7, 1>>, d |-> <<9>>, e |-> <<7, 1>>]

MCInputs ==
    {[of |-> "graph", g |-> g, m |-> MCManifest, c |-> c, said |-> said, aged |-> aged] :
       g \in MCGraphs, c \in {MCTight, MCLoose}, said \in {MCSaid, MCThin}, aged \in BOOLEAN}
    \cup {[of |-> "register", said |-> s] : s \in MCRegister}
    \cup {[of |-> "routes", routes |-> r, listed |-> l, cap |-> cap] :
            r \in BoundedSeq({"/a", "/b", "/c"}, 3), l \in BoundedSeq({"/a", "/b", "/d"}, 3), cap \in {2, 3}}
    \cup {[of |-> "labels", labels |-> l, flat |-> MCFlat] : l \in BoundedSeq({"a", "b", "c", "d", "e"}, 4)}
    \cup {[of |-> "talk", answers |-> a] : a \in BoundedSeq(MCAnswers, 3)}
    \cup {[of |-> "prompt", facts |-> f, fixed |-> 1, ctx |-> x, budget |-> b] :
            f \in 0..2, b \in 0..6, x \in [{"graphContext", "additionalContext", "fileTree"} -> 0..3]}
    \cup {[of |-> "backoff", failures |-> n, options |-> [retries |-> r, min |-> m, factor |-> k, max |-> x]] :
            n \in 0..5, r \in 1..4, m \in {1, 4}, k \in 1..3, x \in {3, 9}}
    \cup {[of |-> "search", files |-> s, c |-> [hits |-> 3, files |-> 2]] : s \in BoundedSeq(-1..3, 4)}
=============================================================================
