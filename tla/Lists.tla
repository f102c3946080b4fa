------------------------------- MODULE Lists -------------------------------
(***************************************************************************)
(* What the computations of the system do with lists: JavaScript's filter, *)
(* sort, slice, the keys of a Map in insertion order, and sums.  Those     *)
(* that take an operator rest on one that takes a set or a list instead,   *)
(* which a lemma can speak of.                                             *)
(***************************************************************************)
EXTENDS Integers, Sequences, SequencesExt, FiniteSetsExt, Folds

\* The elements at the positions of I, in order.
Picked(s, I) ==
    FoldLeftDomain(LAMBDA acc, i : IF i \in I THEN Append(acc, s[i]) ELSE acc, <<>>, s)

Select(s, Test(_)) == Picked(s, {i \in DOMAIN s : Test(s[i])})

\* Array.sort by weight, descending: stable, so equal elements keep their order.
\* Position p holds the element that p - 1 others come before.
Ranked(s, weights) ==
    LET Before(i, j) == weights[i] > weights[j] \/ (weights[i] = weights[j] /\ i < j)
        Place(j) == 1 + Cardinality({i \in DOMAIN s : Before(i, j)})
    IN [p \in DOMAIN s |-> s[CHOOSE j \in DOMAIN s : Place(j) = p]]

Descending(s, Weight(_)) == Ranked(s, [i \in DOMAIN s |-> Weight(s[i])])

Slice(s, n) == SubSeq(s, 1, IF Len(s) < n THEN Len(s) ELSE n)

\* Each element once, where it comes up first.
FirstTimes(s) == FoldLeft(LAMBDA acc, x : IF x \in ToSet(acc) THEN acc ELSE Append(acc, x), <<>>, s)

Added(numbers) == FoldLeft(LAMBDA acc, n : acc + n, 0, numbers)
SumOf(s, Weight(_)) == Added([i \in DOMAIN s |-> Weight(s[i])])
=============================================================================
