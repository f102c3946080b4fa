---------------------------- MODULE InputBudget ----------------------------
(***************************************************************************)
(* Three bounded computations.  BaseAgent.assembleUserMessage, by lengths: *)
(* a prompt is facts, fixed text and three fields, and fields are cut to   *)
(* fit a budget.  The waits of retryWithBackoff.  The walk of the          *)
(* search_text tool, with its two caps.                                    *)
(***************************************************************************)
EXTENDS Lists

Fields == <<"graphContext", "additionalContext", "fileTree">>
FieldNames == {"graphContext", "additionalContext", "fileTree"}
AtLeastZero(n) == IF n < 0 THEN 0 ELSE n

\* join: everything together.  The heading of a field is part of the fixed text.
JoinedLength(facts, fixed, ctx) ==
    facts + fixed + ctx["graphContext"] + ctx["additionalContext"] + ctx["fileTree"]

\* Mutant: the excess is taken from the original text again.
AssembleStale(facts, fixed, ctx, budget) ==
    LET Cut(now, f) ==
          LET excess == JoinedLength(facts, fixed, ctx) - budget
          IN IF excess <= 0 THEN now ELSE [now EXCEPT ![f] = AtLeastZero(@ - excess)]
    IN FoldLeft(Cut, ctx, Fields)

\* The fields in the order of sacrifice, each cut by what is still too much.
AssembleUserMessage(facts, fixed, ctx, budget) ==
    LET Cut(now, f) ==
          LET excess == JoinedLength(facts, fixed, now) - budget
          IN IF excess <= 0 THEN now ELSE [now EXCEPT ![f] = AtLeastZero(@ - excess)]
    IN FoldLeft(Cut, ctx, Fields)

\* A field is only cut when those before it are gone, nothing is cut that need
\* not be, and the budget holds unless nothing is left to cut.
CutsInOrder(facts, fixed, ctx, budget, cut) ==
    LET total == JoinedLength(facts, fixed, cut)
    IN /\ \A i \in DOMAIN Fields : cut[Fields[i]] < ctx[Fields[i]] => \A j \in 1..(i - 1) : cut[Fields[j]] = 0
       /\ total > budget => \A i \in DOMAIN Fields : cut[Fields[i]] = 0
       /\ total < budget => cut = ctx

(***************************************************************************)
(* retryWithBackoff                                                        *)
(***************************************************************************)
RetryOptions == [retries : Nat \ {0}, min : Nat, factor : Nat \ {0}, max : Nat]

Least(a, b) == IF a < b THEN a ELSE b

\* Mutant: the delay is capped where it is grown only.
WaitsUncapped(failures, o) ==
    LET Wait(acc, i) == [waits |-> Append(acc.waits, acc.delay), delay |-> Least(acc.delay * o.factor, o.max)]
    IN FoldLeft(Wait, [waits |-> <<>>, delay |-> o.min],
                [i \in 1..(IF failures < o.retries THEN failures ELSE o.retries - 1) |-> i]).waits

\* The waits before each further attempt, for a function that fails so often.
Waits(failures, o) ==
    LET Wait(acc, i) == [waits |-> Append(acc.waits, Least(acc.delay, o.max)),
                         delay |-> Least(acc.delay * o.factor, o.max)]
    IN FoldLeft(Wait, [waits |-> <<>>, delay |-> o.min],
                [i \in 1..(IF failures < o.retries THEN failures ELSE o.retries - 1) |-> i]).waits

GivesUp(failures, o) == failures >= o.retries

\* A function that fails fewer than retries times succeeds, no wait is above
\* the cap and none is shorter than the one before.
BacksOff(failures, o, waits) ==
    /\ GivesUp(failures, o) <=> Len(waits) < failures
    /\ \A i \in DOMAIN waits : waits[i] <= o.max /\ (i > 1 => waits[i - 1] <= waits[i])

(***************************************************************************)
(* search_text over the files of a checkout in the order they are met:     *)
(* the hits in each, -1 for one that cannot be read                        *)
(***************************************************************************)
SearchCaps == [hits : Nat, files : Nat]

\* Mutant: a file that cannot be read is not counted.
SearchCountsReadable(files, c) ==
    LET Visit(acc, hits) ==
          IF acc.hits >= c.hits \/ acc.scanned >= c.files \/ hits < 0 THEN acc
          ELSE [hits |-> Least(acc.hits + hits, c.hits), scanned |-> acc.scanned + 1]
    IN FoldLeft(Visit, [hits |-> 0, scanned |-> 0], files)

SearchText(files, c) ==
    LET Visit(acc, hits) ==
          IF acc.hits >= c.hits \/ acc.scanned >= c.files THEN acc
          ELSE [hits |-> Least(acc.hits + AtLeastZero(hits), c.hits), scanned |-> acc.scanned + 1]
    IN FoldLeft(Visit, [hits |-> 0, scanned |-> 0], files)

\* What the tool says: the hits, and that there are more than it shows only
\* when the cap on hits was met.
Answer(files, c) ==
    LET r == SearchText(files, c) IN [hits |-> r.hits, more |-> r.hits >= c.hits]

\* Without a note on more, all hits of the first c.files files are there.
SearchComplete(files, c, a) ==
    LET first == SubSeq(files, 1, Least(Len(files), c.files))
    IN ~a.more => a.hits = SumOf(first, AtLeastZero)
=============================================================================
