----------------------------- MODULE DataFacts ----------------------------
(***************************************************************************)
(* Lemmas about numbers, folds and lists.  The induction theorems of the   *)
(* library take an operator as a parameter, and the folds are defined by a *)
(* function on sets that is chosen; what follows is derived from the least *)
(* elements of well-founded sets, which need no parameter: first that the  *)
(* function exists, then that a fold is a run, a step for each position in *)
(* turn, then what each operator of Lists computes.                        *)
(***************************************************************************)
EXTENDS Lists, FiniteSetTheorems, WellFoundedInduction, TLAPS

\* Every nonempty set of natural numbers has a least element.
LEMMA LeastNumber ==
  ASSUME NEW T, T \subseteq Nat, T # {}
  PROVE  \E n \in T : \A m \in T : n <= m
  <1> DEFINE R == OpToRel(<, Nat)
  <1>1. IsWellFoundedOn(R, Nat)
    BY NatLessThanWellFounded
  <1>2. \A m, n \in Nat : <<m, n>> \in R <=> m < n
    BY DEF OpToRel
  <1> HIDE DEF R
  <1>3. PICK n \in T : \A m \in T : ~ (<<m, n>> \in R)
    BY <1>1, WFMin
  <1>4. \A m \in T : ~ (m < n)
    BY <1>2, <1>3, Zenon
  <1> QED
    BY <1>4

\* Every nonempty bounded set of natural numbers has a greatest element.
LEMMA GreatestNumber ==
  ASSUME NEW b \in Nat, NEW S, S \subseteq 0..b, S # {}
  PROVE  \E n \in S : \A m \in S : m <= n
  <1> DEFINE T == {b - n : n \in S}
  <1>1. \A n \in S : n \in Nat /\ b - n \in Nat
    OBVIOUS
  <1>2. T \subseteq Nat /\ T # {}
    BY <1>1
  <1>3. PICK t \in T : \A m \in T : t <= m
    BY <1>2, LeastNumber
  <1>4. PICK n \in S : t = b - n
    BY <1>3
  <1>5. ASSUME NEW m \in S PROVE m <= n
    <2>1. b - m \in T
      OBVIOUS
    <2> QED
      BY <1>1, <1>3, <1>4, <2>1
  <1> QED
    BY <1>5

\* Max of FiniteSetsExt is the greatest element.
LEMMA MaxIsGreatest ==
  ASSUME NEW b \in Nat, NEW S, S \subseteq 0..b, S # {}
  PROVE  Max(S) \in S /\ \A n \in S : n <= Max(S)
  <1>1. PICK x \in S : \A n \in S : n <= x
    BY GreatestNumber
  <1>2. \A n \in S : x >= n
    BY <1>1
  <1>3. Max(S) \in S /\ \A n \in S : Max(S) >= n
    BY <1>2 DEF Max
  <1> QED
    BY <1>3

\* What holds at 0 and from each number to the next holds up to n: a least counterexample has a predecessor.
LEMMA Stepwise ==
  ASSUME NEW n \in Nat, NEW G, 0 \in G, \A k \in 1..n : k - 1 \in G => k \in G
  PROVE  0..n \subseteq G
  <1> DEFINE T == (0..n) \ G
  <1> SUFFICES ASSUME T # {} PROVE FALSE
    OBVIOUS
  <1>0. T \subseteq Nat
    OBVIOUS
  <1>1. PICK k \in T : \A m \in T : k <= m
    <2> HIDE DEF T
    <2> QED
      BY <1>0, LeastNumber
  <1>2. k \in 1..n /\ k - 1 \notin T
    BY <1>1
  <1> QED
    BY <1>1, <1>2

\* The greatest number of 1..i is i.
LEMMA MaxOfPrefix ==
  ASSUME NEW i \in Nat \ {0}
  PROVE  Max(1..i) = i /\ (1..i) \ {i} = 1..(i - 1)
  <1>0. i \in Nat /\ 1..i \subseteq 0..i /\ 1..i # {} /\ i \in 1..i
    OBVIOUS
  <1>1. Max(1..i) \in 1..i /\ \A n \in 1..i : n <= Max(1..i)
    BY <1>0, MaxIsGreatest
  <1> QED
    BY <1>0, <1>1

FoldOver(f, n, A, base, step) ==
  /\ f \in [SUBSET (1..n) -> A]
  /\ f[{}] = base
  /\ \A s \in SUBSET (1..n) : s # {} => f[s] = step[Max(s)][f[s \ {Max(s)}]]

\* The function on sets that MapThenFoldSet chooses exists, whatever its step is.
LEMMA FoldExists ==
  ASSUME NEW n \in Nat, NEW A, NEW base \in A, NEW step \in [1..n -> [A -> A]]
  PROVE  \E f : FoldOver(f, n, A, base, step)
  <1> DEFINE Fold(k, f) == FoldOver(f, k, A, base, step)
             G == {k \in 0..n : \E f : Fold(k, f)}
  <1>1. 0 \in G
    <2> DEFINE f == [s \in SUBSET (1..0) |-> base]
    <2>1. SUBSET (1..0) = {{}}
      OBVIOUS
    <2>2. Fold(0, f)
      BY <2>1 DEF FoldOver
    <2> HIDE DEF Fold, f
    <2> QED
      BY <2>2
  <1>2. ASSUME NEW k \in 1..n, k - 1 \in G PROVE k \in G
    <2>1. PICK f : Fold(k - 1, f)
      BY <1>2
    <2> DEFINE g == [s \in SUBSET (1..k) |-> IF k \in s THEN step[k][f[s \ {k}]] ELSE f[s]]
    <2>2. \A s \in SUBSET (1..k) : (k \in s => s \ {k} \in SUBSET (1..(k - 1)))
                                /\ (k \notin s => s \in SUBSET (1..(k - 1)))
      OBVIOUS
    <2>3. g \in [SUBSET (1..k) -> A]
      BY <2>1, <2>2 DEF FoldOver
    <2>4. g[{}] = base
      BY <2>1 DEF FoldOver
    <2>5. \A s \in SUBSET (1..k) : s # {} => Max(s) \in s /\ \A m \in s : m <= Max(s)
      <3> TAKE s \in SUBSET (1..k)
      <3>1. s \subseteq 0..k /\ k \in Nat
        OBVIOUS
      <3> QED
        BY <3>1, MaxIsGreatest
    <2>6. ASSUME NEW s \in SUBSET (1..k), s # {} PROVE g[s] = step[Max(s)][g[s \ {Max(s)}]]
      <3>1. CASE k \in s
        <4>0. Max(s) \in 1..k /\ k <= Max(s)
          BY <2>5, <2>6, <3>1
        <4>1. Max(s) = k
          BY <4>0
        <4> QED
          BY <3>1, <4>1, <2>2
      <3>2. CASE k \notin s
        <4>1. s \in SUBSET (1..(k - 1)) /\ Max(s) \in s /\ k \notin s \ {Max(s)} /\ s \ {Max(s)} \in SUBSET (1..k)
          BY <2>2, <2>5, <2>6, <3>2
        <4>2. g[s] = f[s] /\ g[s \ {Max(s)}] = f[s \ {Max(s)}]
          BY <4>1, <3>2
        <4> QED
          BY <2>1, <2>6, <4>1, <4>2 DEF FoldOver
      <3> QED
        BY <3>1, <3>2
    <2>7. Fold(k, g)
      BY <2>3, <2>4, <2>6 DEF FoldOver
    <2> HIDE DEF g, Fold
    <2> QED
      BY <2>7
  <1> HIDE DEF Fold
  <1>3. 0..n \subseteq G
    <2> HIDE DEF G
    <2> QED
      BY <1>1, <1>2, Stepwise
  <1>4. n \in G
    BY <1>3
  <1> QED
    BY <1>4 DEF Fold

Running(h, n, A, base, step) ==
  /\ h \in [0..n -> A]
  /\ h[0] = base
  /\ \A i \in 1..n : h[i] = step[i][h[i - 1]]

Outcome(v, n, A, base, step) == \E h : Running(h, n, A, base, step) /\ h[n] = v

FoldedBy(F, n, A, base, step) ==
  /\ F[{}] = base
  /\ \A s \in SUBSET (1..n) : s # {} /\ F[s \ {Max(s)}] \in A => F[s] = step[Max(s)][F[s \ {Max(s)}]]

\* A fold over 1..n is its step taken at each number in turn.
LEMMA FoldIs ==
  ASSUME NEW n \in Nat, NEW A, NEW base \in A, NEW step \in [1..n -> [A -> A]], NEW F,
         FoldedBy(F, n, A, base, step)
  PROVE  Outcome(F[1..n], n, A, base, step)
  <1> DEFINE h == [i \in 0..n |-> F[1..i]]
             G == {i \in 0..n : F[1..i] \in A}
  <1> USE DEF FoldedBy
  <1>1. 1..0 = {}
    OBVIOUS
  <1>2. \A i \in 1..n : /\ (1..i) \in SUBSET (1..n) /\ 1..i # {}
                        /\ Max(1..i) = i /\ (1..i) \ {Max(1..i)} = 1..(i - 1)
    BY MaxOfPrefix
  <1>3. ASSUME NEW i \in 1..n, F[1..(i - 1)] \in A PROVE F[1..i] = step[i][F[1..(i - 1)]] /\ F[1..i] \in A
    <2>1. F[(1..i) \ {Max(1..i)}] \in A
      BY <1>2, <1>3
    <2>2. F[1..i] = step[Max(1..i)][F[(1..i) \ {Max(1..i)}]]
      BY <1>2, <2>1
    <2>3. F[1..i] = step[i][F[1..(i - 1)]]
      BY <1>2, <2>2
    <2>4. step[i] \in [A -> A]
      OBVIOUS
    <2> QED
      BY <1>3, <2>3, <2>4
  <1>4. 0 \in G
    BY <1>1
  <1>5. \A i \in 1..n : i - 1 \in G => i \in G
    BY <1>3
  <1>6. 0..n \subseteq G
    <2> HIDE DEF G
    <2> QED
      BY <1>4, <1>5, Stepwise
  <1>7. \A i \in 0..n : F[1..i] \in A
    BY <1>6
  <1>8. h \in [0..n -> A] /\ h[0] = base /\ h[n] = F[1..n]
    BY <1>1, <1>7
  <1>9. \A i \in 1..n : h[i] = step[i][h[i - 1]]
    BY <1>3, <1>7
  <1> HIDE DEF h
  <1> QED
    BY <1>8, <1>9 DEF Running, Outcome

\* A step taken from a base, n times, has a run.
LEMMA RunExists ==
  ASSUME NEW n \in Nat, NEW A, NEW base \in A, NEW step \in [1..n -> [A -> A]]
  PROVE  \E h : Running(h, n, A, base, step)
  <1>1. PICK f : FoldOver(f, n, A, base, step)
    BY FoldExists
  <1>2. FoldedBy(f, n, A, base, step)
    BY <1>1 DEF FoldOver, FoldedBy
  <1>3. Outcome(f[1..n], n, A, base, step)
    BY <1>2, FoldIs
  <1> QED
    BY <1>3 DEF Outcome

PickRun(h, A, s, I) ==
  /\ h \in [0..Len(s) -> Seq(A)]
  /\ h[0] = <<>>
  /\ \A k \in 1..Len(s) : h[k] = IF k \in I THEN Append(h[k - 1], s[k]) ELSE h[k - 1]
  /\ Picked(s, I) = h[Len(s)]

\* Picked as a run over the positions of a list.
LEMMA PickedRuns ==
  ASSUME NEW A, NEW s \in Seq(A), NEW I
  PROVE  \E h : PickRun(h, A, s, I)
  <1> DEFINE n == Len(s)
             step == [k \in 1..n |-> [acc \in Seq(A) |-> IF k \in I THEN Append(acc, s[k]) ELSE acc]]
             Eq(f) == f = [S \in SUBSET (1..n) |->
                             IF S = {} THEN <<>>
                             ELSE IF [i \in 1..n |-> i][Max(S)] \in I
                                  THEN Append(f[S \ {Max(S)}], s[[i \in 1..n |-> i][Max(S)]])
                                  ELSE f[S \ {Max(S)}]]
             F == CHOOSE f : Eq(f)
  <1>1. n \in Nat /\ DOMAIN s = 1..n /\ <<>> \in Seq(A) /\ \A k \in 1..n : s[k] \in A
    OBVIOUS
  <1>2. step \in [1..n -> [Seq(A) -> Seq(A)]]
    BY <1>1
  <1>3. \A S \in SUBSET (1..n) : S # {} => Max(S) \in 1..n /\ S \ {Max(S)} \in SUBSET (1..n)
    <2> TAKE S \in SUBSET (1..n)
    <2>1. S \subseteq 0..n
      BY <1>1
    <2> QED
      BY <1>1, <2>1, MaxIsGreatest
  <1>4. \E f : Eq(f)
    <2>1. PICK f : FoldOver(f, n, Seq(A), <<>>, step)
      <3> HIDE DEF step, n, Eq, F
      <3> QED
        BY <1>1, <1>2, FoldExists
    <2>2. Eq(f)
      BY <1>3, <2>1 DEF FoldOver
    <2> QED
      BY <2>2
  <1>5. Eq(F)
    <2> HIDE DEF Eq
    <2> QED
      BY <1>4
  <1>6. Picked(s, I) = F[1..n]
    BY <1>1 DEF Picked, FoldLeftDomain, FoldLeft, MapThenFoldSet
  <1>7. Outcome(F[1..n], n, Seq(A), <<>>, step)
    <2>1. FoldedBy(F, n, Seq(A), <<>>, step)
      BY <1>3, <1>5 DEF FoldedBy
    <2> HIDE DEF step, F, n, Eq
    <2> QED
      BY <1>1, <1>2, <2>1, FoldIs
  <1>8. PICK h : Running(h, n, Seq(A), <<>>, step) /\ h[n] = F[1..n]
    <2> HIDE DEF step, F, n, Eq
    <2> QED
      BY <1>7 DEF Outcome
  <1>9. h \in [0..n -> Seq(A)] /\ h[0] = <<>> /\ \A i \in 1..n : h[i] = step[i][h[i - 1]]
    <2> HIDE DEF step, n
    <2> QED
      BY <1>8 DEF Running
  <1>10. ASSUME NEW i \in 1..n PROVE h[i] = IF i \in I THEN Append(h[i - 1], s[i]) ELSE h[i - 1]
    <2>1. i - 1 \in 0..n
      BY <1>1
    <2>2. h[i - 1] \in Seq(A)
      <3> HIDE DEF n
      <3> QED
        BY <1>9, <2>1
    <2> QED
      BY <1>9, <2>2
  <1>11. PickRun(h, A, s, I)
    <2> HIDE DEF F
    <2> QED
      BY <1>6, <1>8, <1>9, <1>10 DEF PickRun
  <1> QED
    BY <1>11

Placed(at, t, s, I, k) ==
  /\ at \in [1..Len(t) -> 1..k]
  /\ \A p \in 1..Len(t) : at[p] \in I /\ t[p] = s[at[p]]
  /\ \A p, q \in 1..Len(t) : p < q => at[p] < at[q]
  /\ \A i \in 1..k : i \in I => \E p \in 1..Len(t) : at[p] = i

\* Picked takes the elements at these positions, each once and in order.
LEMMA PickedIs ==
  ASSUME NEW A, NEW s \in Seq(A), NEW I
  PROVE  /\ Picked(s, I) \in Seq(A)
         /\ \E at : Placed(at, Picked(s, I), s, I, Len(s))
  <1> DEFINE n == Len(s)
  <1>0. PICK h : PickRun(h, A, s, I)
    BY PickedRuns
  <1>1. /\ h \in [0..n -> Seq(A)] /\ h[0] = <<>>
        /\ \A k \in 1..n : h[k] = IF k \in I THEN Append(h[k - 1], s[k]) ELSE h[k - 1]
        /\ Picked(s, I) = h[n]
    BY <1>0 DEF PickRun
  <1>2. n \in Nat
    OBVIOUS
  <1> DEFINE G == {k \in 0..n : \E at : Placed(at, h[k], s, I, k)}
  <1>3. 0 \in G
    <2>1. Placed(<<>>, h[0], s, I, 0)
      BY <1>1 DEF Placed
    <2> QED
      BY <1>2, <2>1
  <1>4. ASSUME NEW k \in 1..n, k - 1 \in G PROVE k \in G
    <2> DEFINE t == h[k - 1]
               l == Len(t)
    <2>1. PICK at : Placed(at, t, s, I, k - 1)
      BY <1>4
    <2>2. t \in Seq(A) /\ l \in Nat /\ k \in Nat
      BY <1>1, <1>2
    <2>3. CASE k \in I
      <3> DEFINE more == [p \in 1..(l + 1) |-> IF p = l + 1 THEN k ELSE at[p]]
      <3>1. h[k] = Append(t, s[k])
        BY <1>1, <2>3
      <3>2. Len(h[k]) = l + 1 /\ h[k][l + 1] = s[k] /\ \A p \in 1..l : h[k][p] = t[p]
        BY <2>2, <3>1
      <3>3. Placed(more, h[k], s, I, k)
        <4>1. more \in [1..Len(h[k]) -> 1..k]
          BY <2>1, <2>2, <3>2 DEF Placed
        <4>2. \A p \in 1..(l + 1) : more[p] \in I /\ h[k][p] = s[more[p]]
          BY <2>1, <2>2, <2>3, <3>2 DEF Placed
        <4>0. /\ \A p \in 1..l : more[p] = at[p] /\ at[p] \in 1..(k - 1)
              /\ more[l + 1] = k /\ l + 1 \in 1..(l + 1)
          BY <2>1, <2>2 DEF Placed
        <4>3. ASSUME NEW p \in 1..(l + 1), NEW q \in 1..(l + 1), p < q PROVE more[p] < more[q]
          <5>1. p \in 1..l
            BY <2>2, <4>3
          <5>2. CASE q \in 1..l
            BY <2>1, <4>0, <4>3, <5>1, <5>2 DEF Placed
          <5>3. CASE q = l + 1
            <6>1. more[p] \in 1..(k - 1) /\ more[q] = k
              BY <4>0, <5>1, <5>3
            <6> HIDE DEF more
            <6> QED
              BY <2>2, <6>1
          <5> QED
            BY <2>2, <5>2, <5>3
        <4>4. ASSUME NEW i \in 1..k, i \in I PROVE \E p \in 1..(l + 1) : more[p] = i
          <5>1. CASE i = k
            BY <4>0, <5>1
          <5>2. CASE i # k
            <6>1. i \in 1..(k - 1)
              BY <2>2, <5>2
            <6>2. PICK p \in 1..l : at[p] = i
              BY <2>1, <4>4, <6>1 DEF Placed
            <6>3. p \in 1..(l + 1) /\ more[p] = i
              BY <2>2, <4>0, <6>2
            <6> HIDE DEF more
            <6> QED
              BY <6>3
          <5> QED
            BY <5>1, <5>2
        <4> HIDE DEF more
        <4> QED
          BY <3>2, <4>1, <4>2, <4>3, <4>4 DEF Placed
      <3> HIDE DEF more
      <3> QED
        BY <3>3
    <2>4. CASE k \notin I
      <3>1. h[k] = t
        BY <1>1, <2>4
      <3>2. Placed(at, h[k], s, I, k)
        BY <2>1, <2>2, <2>4, <3>1 DEF Placed
      <3> QED
        BY <3>2
    <2> QED
      BY <2>3, <2>4
  <1>5. 0..n \subseteq G
    <2> HIDE DEF G, n
    <2> QED
      BY <1>2, <1>3, <1>4, Stepwise
  <1>6. n \in G
    BY <1>2, <1>5
  <1> QED
    BY <1>1, <1>2, <1>6

AddRun(h, s) ==
  /\ h \in [0..Len(s) -> Int]
  /\ h[0] = 0
  /\ \A k \in 1..Len(s) : h[k] = h[k - 1] + s[k]
  /\ Added(s) = h[Len(s)]

\* A sum as a run over the positions of a list.
LEMMA AddedRuns ==
  ASSUME NEW s \in Seq(Int)
  PROVE  \E h : AddRun(h, s)
  <1> DEFINE n == Len(s)
             step == [k \in 1..n |-> [acc \in Int |-> acc + s[k]]]
             Eq(f) == f = [S \in SUBSET (1..n) |->
                             IF S = {} THEN 0 ELSE f[S \ {Max(S)}] + s[Max(S)]]
             F == CHOOSE f : Eq(f)
  <1>1. n \in Nat /\ DOMAIN s = 1..n /\ 0 \in Int /\ \A k \in 1..n : s[k] \in Int
    OBVIOUS
  <1>2. step \in [1..n -> [Int -> Int]]
    BY <1>1
  <1>3. \A S \in SUBSET (1..n) : S # {} => Max(S) \in 1..n /\ S \ {Max(S)} \in SUBSET (1..n)
    <2> TAKE S \in SUBSET (1..n)
    <2>1. S \subseteq 0..n
      BY <1>1
    <2> QED
      BY <1>1, <2>1, MaxIsGreatest
  <1>4. \E f : Eq(f)
    <2>1. PICK f : FoldOver(f, n, Int, 0, step)
      <3> HIDE DEF step, n, Eq, F
      <3> QED
        BY <1>1, <1>2, FoldExists
    <2>2. Eq(f)
      BY <1>3, <2>1 DEF FoldOver
    <2> QED
      BY <2>2
  <1>5. Eq(F)
    <2> HIDE DEF Eq
    <2> QED
      BY <1>4
  <1>6. Added(s) = F[1..n]
    BY <1>1 DEF Added, FoldLeft, MapThenFoldSet
  <1>7. Outcome(F[1..n], n, Int, 0, step)
    <2>1. FoldedBy(F, n, Int, 0, step)
      <3>1. F[{}] = 0
        BY <1>5
      <3>2. ASSUME NEW S \in SUBSET (1..n), S # {}, F[S \ {Max(S)}] \in Int
            PROVE  F[S] = step[Max(S)][F[S \ {Max(S)}]]
        <4>1. F[S] = F[S \ {Max(S)}] + s[Max(S)]
          BY <1>5, <3>2
        <4> HIDE DEF F
        <4> QED
          BY <1>3, <3>2, <4>1
      <3> HIDE DEF F, step
      <3> QED
        BY <3>1, <3>2 DEF FoldedBy
    <2> HIDE DEF step, F, n, Eq
    <2> QED
      BY <1>1, <1>2, <2>1, FoldIs
  <1>8. PICK h : Running(h, n, Int, 0, step) /\ h[n] = F[1..n]
    <2> HIDE DEF step, F, n, Eq
    <2> QED
      BY <1>7 DEF Outcome
  <1>9. h \in [0..n -> Int] /\ h[0] = 0 /\ \A k \in 1..n : h[k] = step[k][h[k - 1]]
    <2> HIDE DEF step, n
    <2> QED
      BY <1>8 DEF Running
  <1>10. ASSUME NEW k \in 1..n PROVE h[k] = h[k - 1] + s[k]
    <2>1. k - 1 \in 0..n
      BY <1>1
    <2>2. h[k - 1] \in Int
      <3> HIDE DEF n
      <3> QED
        BY <1>9, <2>1
    <2> QED
      BY <1>9, <2>2
  <1>11. AddRun(h, s)
    <2> HIDE DEF F
    <2> QED
      BY <1>6, <1>8, <1>9, <1>10 DEF AddRun
  <1> QED
    BY <1>11

FirstsRun(h, A, s) ==
  /\ h \in [0..Len(s) -> Seq(A)]
  /\ h[0] = <<>>
  /\ \A k \in 1..Len(s) : h[k] = IF s[k] \in ToSet(h[k - 1]) THEN h[k - 1] ELSE Append(h[k - 1], s[k])
  /\ FirstTimes(s) = h[Len(s)]

\* FirstTimes as a run over the positions of a list.
LEMMA FirstTimesRuns ==
  ASSUME NEW A, NEW s \in Seq(A)
  PROVE  \E h : FirstsRun(h, A, s)
  <1> DEFINE n == Len(s)
             step == [k \in 1..n |-> [acc \in Seq(A) |-> IF s[k] \in ToSet(acc) THEN acc ELSE Append(acc, s[k])]]
             Eq(f) == f = [S \in SUBSET (1..n) |->
                             IF S = {} THEN <<>> ELSE IF s[Max(S)] \in ToSet(f[S \ {Max(S)}]) THEN f[S \ {Max(S)}] ELSE Append(f[S \ {Max(S)}], s[Max(S)])]
             F == CHOOSE f : Eq(f)
  <1>1. n \in Nat /\ DOMAIN s = 1..n /\ <<>> \in Seq(A) /\ \A k \in 1..n : s[k] \in A
    OBVIOUS
  <1>2. step \in [1..n -> [Seq(A) -> Seq(A)]]
    BY <1>1
  <1>3. \A S \in SUBSET (1..n) : S # {} => Max(S) \in 1..n /\ S \ {Max(S)} \in SUBSET (1..n)
    <2> TAKE S \in SUBSET (1..n)
    <2>1. S \subseteq 0..n
      BY <1>1
    <2> QED
      BY <1>1, <2>1, MaxIsGreatest
  <1>4. \E f : Eq(f)
    <2>1. PICK f : FoldOver(f, n, Seq(A), <<>>, step)
      <3> HIDE DEF step, n, Eq, F
      <3> QED
        BY <1>1, <1>2, FoldExists
    <2>2. Eq(f)
      BY <1>3, <2>1 DEF FoldOver
    <2> QED
      BY <2>2
  <1>5. Eq(F)
    <2> HIDE DEF Eq
    <2> QED
      BY <1>4
  <1>6. FirstTimes(s) = F[1..n]
    BY <1>1 DEF FirstTimes, FoldLeft, MapThenFoldSet
  <1>7. Outcome(F[1..n], n, Seq(A), <<>>, step)
    <2>1. FoldedBy(F, n, Seq(A), <<>>, step)
      <3>1. F[{}] = <<>>
        BY <1>5
      <3>2. ASSUME NEW S \in SUBSET (1..n), S # {}, F[S \ {Max(S)}] \in Seq(A)
            PROVE  F[S] = step[Max(S)][F[S \ {Max(S)}]]
        <4>1. F[S] = IF s[Max(S)] \in ToSet(F[S \ {Max(S)}]) THEN F[S \ {Max(S)}] ELSE Append(F[S \ {Max(S)}], s[Max(S)])
          BY <1>5, <3>2
        <4> HIDE DEF F
        <4> QED
          BY <1>3, <3>2, <4>1
      <3> HIDE DEF F, step
      <3> QED
        BY <3>1, <3>2 DEF FoldedBy
    <2> HIDE DEF step, F, n, Eq
    <2> QED
      BY <1>1, <1>2, <2>1, FoldIs
  <1>8. PICK h : Running(h, n, Seq(A), <<>>, step) /\ h[n] = F[1..n]
    <2> HIDE DEF step, F, n, Eq
    <2> QED
      BY <1>7 DEF Outcome
  <1>9. h \in [0..n -> Seq(A)] /\ h[0] = <<>> /\ \A k \in 1..n : h[k] = step[k][h[k - 1]]
    <2> HIDE DEF step, n
    <2> QED
      BY <1>8 DEF Running
  <1>10. ASSUME NEW k \in 1..n PROVE h[k] = IF s[k] \in ToSet(h[k - 1]) THEN h[k - 1] ELSE Append(h[k - 1], s[k])
    <2>1. k - 1 \in 0..n
      BY <1>1
    <2>2. h[k - 1] \in Seq(A)
      <3> HIDE DEF n
      <3> QED
        BY <1>9, <2>1
    <2> QED
      BY <1>9, <2>2
  <1>11. FirstsRun(h, A, s)
    <2> HIDE DEF F
    <2> QED
      BY <1>6, <1>8, <1>9, <1>10 DEF FirstsRun
  <1> QED
    BY <1>11

NoRepeat(t) == \A i, j \in DOMAIN t : t[i] = t[j] => i = j

\* What Append does to the length, the elements and their distinctness.
LEMMA AppendIs ==
  ASSUME NEW A, NEW t \in Seq(A), NEW x \in A
  PROVE  /\ Append(t, x) \in Seq(A) /\ Len(Append(t, x)) = Len(t) + 1
         /\ ToSet(Append(t, x)) = ToSet(t) \cup {x}
         /\ NoRepeat(t) /\ x \notin ToSet(t) => NoRepeat(Append(t, x))
  <1> DEFINE l == Len(t)
             u == Append(t, x)
  <1>1. /\ l \in Nat /\ u \in Seq(A) /\ Len(u) = l + 1 /\ DOMAIN u = 1..(l + 1) /\ DOMAIN t = 1..l
        /\ u[l + 1] = x /\ \A p \in 1..l : u[p] = t[p]
    OBVIOUS
  <1>2. 1..(l + 1) = 1..l \cup {l + 1}
    BY <1>1
  <1> HIDE DEF u, l
  <1>3. ToSet(u) = ToSet(t) \cup {x}
    BY <1>1, <1>2 DEF ToSet
  <1>4. ASSUME NoRepeat(t), x \notin ToSet(t) PROVE NoRepeat(u)
    <2>1. \A p \in 1..l : t[p] # x
      BY <1>1, <1>4 DEF ToSet
    <2> QED
      BY <1>1, <1>2, <1>4, <2>1 DEF NoRepeat
  <1> QED
    BY <1>1, <1>3, <1>4 DEF u, l

\* What concatenation does to the length, the positions and the elements.
LEMMA ConcatIs ==
  ASSUME NEW A, NEW t \in Seq(A), NEW u \in Seq(A)
  PROVE  /\ t \o u \in Seq(A) /\ Len(t \o u) = Len(t) + Len(u)
         /\ \A p \in 1..Len(t) : (t \o u)[p] = t[p]
         /\ \A p \in 1..Len(u) : (t \o u)[Len(t) + p] = u[p]
         /\ ToSet(t \o u) = ToSet(t) \cup ToSet(u)
  <1> DEFINE l == Len(t)
             m == Len(u)
             v == t \o u
  <1>1. /\ l \in Nat /\ m \in Nat /\ v \in Seq(A) /\ Len(v) = l + m /\ DOMAIN v = 1..(l + m)
        /\ DOMAIN t = 1..l /\ DOMAIN u = 1..m
        /\ \A p \in 1..l : v[p] = t[p]
    OBVIOUS
  <1>2. ASSUME NEW p \in 1..m PROVE v[l + p] = u[p]
    BY <1>1
  <1> HIDE DEF v, l, m
  <1>3. \A i \in 1..(l + m) : i \in 1..l \/ \E p \in 1..m : i = l + p
    <2> TAKE i \in 1..(l + m)
    <2>1. i \in 1..l \/ (i - l \in 1..m /\ i = l + (i - l))
      BY <1>1
    <2> QED
      BY <2>1
  <1>4. \A p \in 1..m : l + p \in 1..(l + m)
    BY <1>1
  <1>5. \A p \in 1..l : p \in 1..(l + m)
    BY <1>1
  <1>6. ToSet(v) = ToSet(t) \cup ToSet(u)
    <2>1. ASSUME NEW x \in ToSet(v) PROVE x \in ToSet(t) \cup ToSet(u)
      <3>1. PICK i \in 1..(l + m) : x = v[i]
        BY <1>1, <2>1 DEF ToSet
      <3>2. CASE i \in 1..l
        BY <1>1, <3>1, <3>2 DEF ToSet
      <3>3. CASE \E p \in 1..m : i = l + p
        BY <1>1, <1>2, <3>1, <3>3 DEF ToSet
      <3> QED
        BY <1>3, <3>2, <3>3
    <2>2. ASSUME NEW x \in ToSet(t) \cup ToSet(u) PROVE x \in ToSet(v)
      <3>1. CASE x \in ToSet(t)
        BY <1>1, <1>5, <3>1 DEF ToSet
      <3>2. CASE x \in ToSet(u)
        <4>1. PICK p \in 1..m : x = u[p]
          BY <1>1, <3>2 DEF ToSet
        <4> QED
          BY <1>1, <1>2, <1>4, <4>1 DEF ToSet
      <3> QED
        BY <2>2, <3>1, <3>2
    <2> QED
      BY <2>1, <2>2
  <1> QED
    BY <1>1, <1>2, <1>6 DEF v, l, m

FirstsUpTo(t, s, k) == NoRepeat(t) /\ ToSet(t) = {s[i] : i \in 1..k} /\ Len(t) <= k

\* FirstTimes keeps each element of a list once, and no other.
LEMMA FirstTimesIs ==
  ASSUME NEW A, NEW s \in Seq(A)
  PROVE  /\ FirstTimes(s) \in Seq(A)
         /\ NoRepeat(FirstTimes(s))
         /\ ToSet(FirstTimes(s)) = ToSet(s)
         /\ Len(FirstTimes(s)) <= Len(s)
  <1> DEFINE n == Len(s)
  <1>0. PICK h : FirstsRun(h, A, s)
    BY FirstTimesRuns
  <1>1. /\ h \in [0..n -> Seq(A)] /\ h[0] = <<>> /\ n \in Nat
        /\ \A k \in 1..n : h[k] = IF s[k] \in ToSet(h[k - 1]) THEN h[k - 1] ELSE Append(h[k - 1], s[k])
        /\ FirstTimes(s) = h[n]
    BY <1>0 DEF FirstsRun
  <1> DEFINE G == {k \in 0..n : FirstsUpTo(h[k], s, k)}
  <1>2. 0 \in G
    BY <1>1 DEF NoRepeat, ToSet, FirstsUpTo
  <1>3. ASSUME NEW k \in 1..n, k - 1 \in G PROVE k \in G
    <2>0. k - 1 \in 0..n /\ s[k] \in A /\ k - 1 \in Nat /\ k \in 0..n /\ k \in Nat
      BY <1>1
    <2>1. PICK t \in Seq(A) : t = h[k - 1]
      <3> HIDE DEF n
      <3> QED
        BY <1>1, <2>0
    <2>2. FirstsUpTo(t, s, k - 1)
      BY <1>3, <2>1
    <2>3. {s[i] : i \in 1..k} = {s[i] : i \in 1..(k - 1)} \cup {s[k]}
      <3>1. 1..k = 1..(k - 1) \cup {k}
        BY <2>0
      <3> QED
        BY <3>1
    <2>4. h[k] = IF s[k] \in ToSet(t) THEN t ELSE Append(t, s[k])
      BY <1>1, <2>1
    <2>5. Len(t) \in Nat /\ Len(t) <= k - 1
      BY <2>1, <2>2 DEF FirstsUpTo
    <2>6. CASE s[k] \in ToSet(t)
      <3>1. FirstsUpTo(t, s, k)
        BY <2>0, <2>2, <2>3, <2>5, <2>6 DEF FirstsUpTo
      <3> QED
        BY <2>0, <2>4, <2>6, <3>1
    <2>7. CASE s[k] \notin ToSet(t)
      <3>1. FirstsUpTo(Append(t, s[k]), s, k)
        BY <2>0, <2>1, <2>2, <2>3, <2>5, <2>7, AppendIs DEF FirstsUpTo
      <3> QED
        BY <2>0, <2>4, <2>7, <3>1
    <2> QED
      BY <2>6, <2>7
  <1>4. 0..n \subseteq G
    <2> HIDE DEF G, n
    <2> QED
      BY <1>1, <1>2, <1>3, Stepwise
  <1>5. n \in G /\ h[n] \in Seq(A)
    BY <1>1, <1>4
  <1>6. ToSet(s) = {s[i] : i \in 1..n}
    BY DEF ToSet
  <1> QED
    BY <1>1, <1>5, <1>6 DEF FirstsUpTo

(***************************************************************************)
(* FlattenSeq                                                              *)
(***************************************************************************)
Laid(off, flat, ss, k) ==
  /\ off \in [0..k -> Nat] /\ off[0] = 0 /\ off[k] = Len(flat)
  /\ \A j \in 1..k : off[j] = off[j - 1] + Len(ss[j])
  /\ \A i, j \in 0..k : i <= j => off[i] <= off[j]
  /\ \A j \in 1..k : \A p \in 1..Len(ss[j]) : flat[off[j - 1] + p] = ss[j][p]
  /\ \A i \in 1..Len(flat) : \E j \in 1..k : \E p \in 1..Len(ss[j]) : i = off[j - 1] + p

Flattening(h, A, ss) ==
  /\ h \in [0..Len(ss) -> Seq(A)]
  /\ h[0] = <<>>
  /\ \A k \in 1..Len(ss) : h[k] = h[k - 1] \o ss[k]
  /\ FlattenSeq(ss) = h[Len(ss)]

\* FlattenSeq as a run over the lists it joins.
LEMMA FlattenRuns ==
  ASSUME NEW A, NEW ss \in Seq(Seq(A))
  PROVE  \E h : Flattening(h, A, ss)
  <1> DEFINE n == Len(ss)
  <1>1. n \in Nat /\ \A k \in 1..n : ss[k] \in Seq(A)
    OBVIOUS
  <1>2. CASE n = 0
    <2>1. FlattenSeq(ss) = <<>>
      BY <1>2 DEF FlattenSeq
    <2> DEFINE h == [k \in 0..n |-> <<>>]
    <2>2. Flattening(h, A, ss)
      BY <1>2, <2>1 DEF Flattening
    <2> HIDE DEF h
    <2> QED
      BY <2>2
  <1>3. CASE n # 0
    <2> DEFINE step == [k \in 1..n |-> [acc \in Seq(A) |-> acc \o ss[k]]]
               Eq(f) == f = [i \in 1..n |-> IF i = 1 THEN ss[i] ELSE f[i - 1] \o ss[i]]
               F == CHOOSE f : Eq(f)
    <2>1. step \in [1..n -> [Seq(A) -> Seq(A)]] /\ <<>> \in Seq(A)
      BY <1>1
    <2>2. PICK h : Running(h, n, Seq(A), <<>>, step)
      <3> HIDE DEF step, n
      <3> QED
        BY <1>1, <2>1, RunExists
    <2>3. h \in [0..n -> Seq(A)] /\ h[0] = <<>>
      BY <2>2 DEF Running
    <2>4. ASSUME NEW k \in 1..n PROVE h[k] = h[k - 1] \o ss[k] /\ h[k] \in Seq(A)
      <3>1. k - 1 \in 0..n /\ k \in 0..n
        BY <1>1
      <3>2. h[k - 1] \in Seq(A) /\ h[k] \in Seq(A)
        <4> HIDE DEF n
        <4> QED
          BY <2>3, <3>1
      <3>3. h[k] = step[k][h[k - 1]]
        <4> HIDE DEF step
        <4> QED
          BY <2>2 DEF Running
      <3> QED
        BY <3>2, <3>3
    <2>5. Eq([i \in 1..n |-> h[i]])
      <3> DEFINE g == [i \in 1..n |-> h[i]]
      <3>1. ASSUME NEW i \in 1..n PROVE g[i] = IF i = 1 THEN ss[i] ELSE g[i - 1] \o ss[i]
        <4>1. CASE i = 1
          <5>1. h[i] = h[i - 1] \o ss[i] /\ ss[i] \in Seq(A) /\ i - 1 = 0
            <6>1. ss[i] \in Seq(A)
              BY <1>1
            <6>2. i - 1 = 0
              BY <4>1
            <6> HIDE DEF n, F, step, g
            <6> QED
              BY <2>4, <6>1, <6>2
          <5>2. h[i] = <<>> \o ss[i]
            BY <2>3, <5>1
          <5> QED
            BY <4>1, <5>1, <5>2
        <4>2. CASE i # 1
          <5>1. i - 1 \in 1..n
            BY <1>1, <4>2
          <5> QED
            BY <2>4, <4>2, <5>1
        <4> QED
          BY <4>1, <4>2
      <3>2. g = [i \in 1..n |-> IF i = 1 THEN ss[i] ELSE g[i - 1] \o ss[i]]
        BY <3>1
      <3> HIDE DEF g
      <3> QED
        BY <3>2 DEF g
    <2>6. Eq(F)
      <3> HIDE DEF Eq
      <3> QED
        BY <2>5
    <2>7. FlattenSeq(ss) = F[n]
      BY <1>3, Zenon DEF FlattenSeq
    <2> DEFINE G == {k \in 0..n : k = 0 \/ F[k] = h[k]}
    <2>8. \A k \in 1..n : k - 1 \in G => k \in G
      <3> TAKE k \in 1..n
      <3> HAVE k - 1 \in G
      <3>1. F[k] = IF k = 1 THEN ss[k] ELSE F[k - 1] \o ss[k]
        BY <2>6
      <3>2. CASE k = 1
        <4>0. h[k] = h[k - 1] \o ss[k] /\ ss[k] \in Seq(A) /\ k - 1 = 0
          <5>1. ss[k] \in Seq(A)
            BY <1>1
          <5>2. k - 1 = 0
            BY <3>2
          <5> HIDE DEF n, F, step, G
          <5> QED
            BY <2>4, <5>1, <5>2
        <4>1. h[k] = <<>> \o ss[k]
          BY <2>3, <4>0
        <4>2. h[k] = ss[k]
          BY <4>0, <4>1
        <4> HIDE DEF F, n
        <4> QED
          BY <1>1, <3>1, <3>2, <4>2
      <3>3. CASE k # 1
        <4>1. k - 1 # 0 /\ F[k - 1] = h[k - 1]
          BY <3>3
        <4>2. F[k] = h[k]
          BY <2>4, <3>1, <3>3, <4>1
        <4> HIDE DEF F, n
        <4> QED
          BY <1>1, <4>2
      <3> QED
        BY <3>2, <3>3
    <2>9. 0..n \subseteq G
      <3>1. 0 \in G
        BY <1>1
      <3> HIDE DEF G, n
      <3> QED
        BY <1>1, <2>8, <3>1, Stepwise
    <2>10. F[n] = h[n]
      <3> HIDE DEF F
      <3> QED
        BY <1>1, <1>3, <2>9
    <2>11. Flattening(h, A, ss)
      <3> HIDE DEF F
      <3> QED
        BY <2>3, <2>4, <2>7, <2>10 DEF Flattening
    <2> QED
      BY <2>11
  <1> QED
    BY <1>2, <1>3

\* A position inside a part is one inside the whole.
LEMMA Inside ==
  ASSUME NEW a \in Nat, NEW b \in Nat, NEW l \in Nat, NEW p \in 1..b, a + b <= l
  PROVE  a + p \in 1..l
  OBVIOUS

\* One more list laid after those that are.
LEMMA LaidNext ==
  ASSUME NEW A, NEW ss \in Seq(Seq(A)), NEW k \in 1..Len(ss), NEW t \in Seq(A), NEW off, Laid(off, t, ss, k - 1)
  PROVE  \E more : Laid(more, t \o ss[k], ss, k)
  <1> DEFINE l == Len(t)
             m == Len(ss[k])
             u == t \o ss[k]
             more == [j \in 0..k |-> IF j = k THEN l + m ELSE off[j]]
  <1>1. /\ k \in Nat /\ k # 0 /\ l \in Nat /\ m \in Nat /\ \A j \in 1..k : Len(ss[j]) \in Nat
        /\ ss[k] \in Seq(A)
    OBVIOUS
  <1>2. /\ u \in Seq(A) /\ Len(u) = l + m
        /\ \A p \in 1..l : u[p] = t[p]
        /\ \A p \in 1..m : u[l + p] = ss[k][p]
    BY <1>1, ConcatIs
  <1> HIDE DEF u, l, m
  <1>3. /\ off \in [0..(k - 1) -> Nat] /\ off[0] = 0 /\ off[k - 1] = l
        /\ \A j \in 1..(k - 1) : off[j] = off[j - 1] + Len(ss[j])
        /\ \A i, j \in 0..(k - 1) : i <= j => off[i] <= off[j]
        /\ \A j \in 1..(k - 1) : \A p \in 1..Len(ss[j]) : t[off[j - 1] + p] = ss[j][p]
        /\ \A i \in 1..l : \E j \in 1..(k - 1) : \E p \in 1..Len(ss[j]) : i = off[j - 1] + p
    BY DEF Laid, l
  <1>4. /\ \A j \in 0..(k - 1) : j \in 0..k /\ more[j] = off[j] /\ off[j] \in Nat /\ off[j] <= l
        /\ more[k] = l + m /\ more[k - 1] = l /\ k - 1 \in 0..(k - 1) /\ 0 \in 0..(k - 1)
        /\ \A j \in 0..k : j \in 0..(k - 1) \/ j = k
    BY <1>1, <1>3
  <1>5. more \in [0..k -> Nat] /\ more[0] = 0 /\ more[k] = Len(u)
    BY <1>1, <1>2, <1>3, <1>4
  <1> HIDE DEF more
  <1>6. ASSUME NEW j \in 1..k PROVE more[j] = more[j - 1] + Len(ss[j])
    <2>1. CASE j = k
      BY <1>1, <1>4, <2>1 DEF m
    <2>2. CASE j # k
      <3>1. j \in 1..(k - 1) /\ j \in 0..(k - 1) /\ j - 1 \in 0..(k - 1)
        BY <1>1, <2>2
      <3> QED
        BY <1>3, <1>4, <3>1
    <2> QED
      BY <2>1, <2>2
  <1>7. ASSUME NEW i \in 0..k, NEW j \in 0..k, i <= j PROVE more[i] <= more[j]
    <2>1. CASE j = k
      <3>1. CASE i = k
        BY <1>1, <1>4, <2>1, <3>1
      <3>2. CASE i # k
        <4>1. i \in 0..(k - 1)
          BY <1>1, <3>2
        <4>2. more[i] = off[i] /\ off[i] \in Nat /\ off[i] <= l
          BY <1>4, <4>1
        <4> QED
          BY <1>1, <1>4, <2>1, <4>2
      <3> QED
        BY <3>1, <3>2
    <2>2. CASE j # k
      <3>1. i \in 0..(k - 1) /\ j \in 0..(k - 1)
        BY <1>1, <1>7, <2>2
      <3> QED
        BY <1>3, <1>4, <1>7, <3>1
    <2> QED
      BY <2>1, <2>2
  <1>8. ASSUME NEW j \in 1..k, NEW p \in 1..Len(ss[j]) PROVE u[more[j - 1] + p] = ss[j][p]
    <2>1. CASE j = k
      <3>1. more[j - 1] = l /\ p \in 1..m
        BY <1>4, <2>1 DEF m
      <3> QED
        BY <1>2, <2>1, <3>1
    <2>2. CASE j # k
      <3>1. j \in 1..(k - 1) /\ j \in 0..(k - 1) /\ j - 1 \in 0..(k - 1)
        BY <1>1, <2>2
      <3>2. more[j - 1] = off[j - 1] /\ off[j] = off[j - 1] + Len(ss[j]) /\ off[j] <= l
            /\ off[j - 1] \in Nat /\ Len(ss[j]) \in Nat
        BY <1>1, <1>3, <1>4, <3>1
      <3>3. off[j - 1] + p \in 1..l
        <4>1. PICK a \in Nat, b \in Nat : a = off[j - 1] /\ b = Len(ss[j])
          BY <3>2
        <4>2. a + b <= l /\ p \in 1..b
          BY <3>2, <4>1
        <4>3. a + p \in 1..l
          BY <1>1, <4>2, Inside
        <4> QED
          BY <4>1, <4>3
      <3>4. u[off[j - 1] + p] = t[off[j - 1] + p]
        BY <1>2, <3>3
      <3>5. t[off[j - 1] + p] = ss[j][p]
        BY <1>3, <3>1
      <3> QED
        BY <3>2, <3>4, <3>5
    <2> QED
      BY <2>1, <2>2
  <1>9. ASSUME NEW i \in 1..Len(u) PROVE \E j \in 1..k : \E p \in 1..Len(ss[j]) : i = more[j - 1] + p
    <2>1. CASE i \in 1..l
      <3>1. PICK j \in 1..(k - 1) : \E p \in 1..Len(ss[j]) : i = off[j - 1] + p
        BY <1>3, <2>1
      <3>2. j \in 1..k /\ more[j - 1] = off[j - 1]
        <4>1. j - 1 \in 0..(k - 1) /\ j \in 1..k
          BY <1>1
        <4> QED
          BY <1>4, <4>1
      <3> QED
        BY <3>1, <3>2
    <2>2. CASE i \notin 1..l
      <3>1. i - l \in 1..m /\ i = l + (i - l)
        BY <1>1, <1>2, <2>2
      <3>2. more[k - 1] = l /\ k \in 1..k
        BY <1>1, <1>4
      <3> QED
        BY <3>1, <3>2 DEF m
    <2> QED
      BY <2>1, <2>2
  <1>10. Laid(more, u, ss, k)
    BY <1>5, <1>6, <1>7, <1>8, <1>9 DEF Laid
  <1> QED
    BY <1>10 DEF u

\* FlattenSeq lays the lists one after another, each at its offset.
LEMMA FlattenIs ==
  ASSUME NEW A, NEW ss \in Seq(Seq(A))
  PROVE  /\ FlattenSeq(ss) \in Seq(A)
         /\ \E off : Laid(off, FlattenSeq(ss), ss, Len(ss))
  <1> DEFINE n == Len(ss)
  <1>0. PICK h : Flattening(h, A, ss)
    BY FlattenRuns
  <1>1. /\ h \in [0..n -> Seq(A)] /\ h[0] = <<>> /\ n \in Nat
        /\ \A k \in 1..n : h[k] = h[k - 1] \o ss[k]
        /\ FlattenSeq(ss) = h[n]
    <2>1. n \in Nat
      OBVIOUS
    <2> QED
      BY <1>0, <2>1 DEF Flattening
  <1> DEFINE G == {k \in 0..n : \E off : Laid(off, h[k], ss, k)}
  <1>2. 0 \in G
    <2> DEFINE off == [j \in 0..0 |-> 0]
    <2>1. Laid(off, <<>>, ss, 0)
      BY DEF Laid
    <2> HIDE DEF off
    <2> QED
      BY <1>1, <2>1
  <1>3. ASSUME NEW k \in 1..n, k - 1 \in G PROVE k \in G
    <2>0. k - 1 \in 0..n /\ k \in 0..n
      BY <1>1
    <2>1. PICK t \in Seq(A) : t = h[k - 1]
      <3> HIDE DEF n
      <3> QED
        BY <1>1, <2>0
    <2>2. PICK off : Laid(off, t, ss, k - 1)
      BY <1>3, <2>1
    <2>3. \E more : Laid(more, t \o ss[k], ss, k)
      BY <2>1, <2>2, LaidNext
    <2> QED
      BY <1>1, <2>0, <2>1, <2>3
  <1>4. 0..n \subseteq G
    <2> HIDE DEF G, n
    <2> QED
      BY <1>1, <1>2, <1>3, Stepwise
  <1>5. n \in G /\ h[n] \in Seq(A)
    BY <1>1, <1>4
  <1> QED
    BY <1>1, <1>5

\* Slice is a prefix, as long as the cap lets it.
LEMMA SliceIs ==
  ASSUME NEW A, NEW s \in Seq(A), NEW n \in Nat
  PROVE  /\ Slice(s, n) \in Seq(A)
         /\ Len(Slice(s, n)) = (IF Len(s) < n THEN Len(s) ELSE n)
         /\ \A i \in 1..Len(Slice(s, n)) : i \in 1..Len(s) /\ Slice(s, n)[i] = s[i]
         /\ ToSet(Slice(s, n)) \subseteq ToSet(s)
         /\ Len(s) <= n => Slice(s, n) = s
  <1> DEFINE m == IF Len(s) < n THEN Len(s) ELSE n
  <1>1. m \in Nat /\ m <= Len(s) /\ Len(s) \in Nat
    OBVIOUS
  <1>2. /\ SubSeq(s, 1, m) \in Seq(A) /\ Len(SubSeq(s, 1, m)) = m
        /\ \A i \in 1..m : i \in 1..Len(s) /\ SubSeq(s, 1, m)[i] = s[i]
    BY <1>1
  <1>3. ToSet(SubSeq(s, 1, m)) \subseteq ToSet(s)
    BY <1>1, <1>2 DEF ToSet
  <1>4. Len(s) <= n => SubSeq(s, 1, m) = s
    BY <1>1, <1>2
  <1> QED
    BY <1>2, <1>3, <1>4 DEF Slice

\* A function on 1..n is a sequence.
LEMMA SeqIs ==
  ASSUME NEW A, NEW n \in Nat, NEW f \in [1..n -> A]
  PROVE  f \in Seq(A) /\ Len(f) = n /\ DOMAIN f = 1..n
  OBVIOUS

\* The elements of a sequence are of its set.
LEMMA ElementIs ==
  ASSUME NEW A, NEW s \in Seq(A)
  PROVE  Len(s) \in Nat /\ DOMAIN s = 1..Len(s) /\ \A i \in 1..Len(s) : s[i] \in A
  OBVIOUS

\* The list of one element.
LEMMA SingleIs ==
  ASSUME NEW A, NEW x \in A
  PROVE  <<x>> \in Seq(A) /\ Len(<<x>>) = 1 /\ <<x>>[1] = x
  OBVIOUS

Numbers(n) == [i \in 1..n |-> i]

\* The positions picked do not depend on the list.
LEMMA PickedBy ==
  ASSUME NEW A, NEW s \in Seq(A), NEW I
  PROVE  /\ Picked(Numbers(Len(s)), I) \in Seq(1..Len(s))
         /\ Len(Picked(s, I)) = Len(Picked(Numbers(Len(s)), I))
         /\ \A p \in 1..Len(Picked(s, I)) : Picked(s, I)[p] = s[Picked(Numbers(Len(s)), I)[p]]
  <1> DEFINE n == Len(s)
             N == 1..n
             t == Numbers(n)
  <1>1. n \in Nat /\ t \in Seq(N) /\ Len(t) = n /\ (\A k \in 1..n : t[k] = k) /\ s \in Seq(A)
    BY DEF Numbers
  <1> HIDE DEF n, t
  <1>2. PICK h : PickRun(h, A, s, I)
    BY PickedRuns
  <1>3. PICK g : PickRun(g, N, t, I)
    BY <1>1, PickedRuns
  <1>4. /\ h \in [0..n -> Seq(A)] /\ h[0] = <<>>
        /\ \A k \in 1..n : h[k] = IF k \in I THEN Append(h[k - 1], s[k]) ELSE h[k - 1]
        /\ Picked(s, I) = h[n]
    BY <1>2 DEF PickRun, n
  <1>5. /\ g \in [0..n -> Seq(N)] /\ g[0] = <<>>
        /\ \A k \in 1..n : g[k] = IF k \in I THEN Append(g[k - 1], k) ELSE g[k - 1]
        /\ Picked(t, I) = g[n]
    BY <1>1, <1>3 DEF PickRun
  <1> HIDE DEF N
  <1> DEFINE Alike(u, v) == Len(u) = Len(v) /\ \A p \in 1..Len(u) : u[p] = s[v[p]]
             G == {k \in 0..n : Alike(h[k], g[k])}
  <1>6. 0 \in G
    BY <1>1, <1>4, <1>5
  <1>7. ASSUME NEW k \in 1..n, k - 1 \in G PROVE k \in G
    <2>0. k - 1 \in 0..n /\ k \in 0..n /\ k \in N
      BY <1>1 DEF N
    <2>1. PICK u \in Seq(A), v \in Seq(N) : u = h[k - 1] /\ v = g[k - 1]
      BY <1>4, <1>5, <2>0
    <2>2. Alike(u, v)
      BY <1>7, <2>1
    <2>3. s[k] \in A
      BY <1>1 DEF n
    <2>4. CASE k \in I
      <3>1. h[k] = Append(u, s[k]) /\ g[k] = Append(v, k)
        BY <1>4, <1>5, <2>1, <2>4
      <3> DEFINE l == Len(u)
      <3>2. /\ l \in Nat /\ Len(v) = l /\ Len(Append(u, s[k])) = l + 1 /\ Len(Append(v, k)) = l + 1
            /\ Append(u, s[k])[l + 1] = s[k] /\ Append(v, k)[l + 1] = k
            /\ \A p \in 1..l : Append(u, s[k])[p] = u[p] /\ Append(v, k)[p] = v[p]
        BY <2>0, <2>2, <2>3
      <3>3. \A p \in 1..(l + 1) : p \in 1..l \/ p = l + 1
        BY <3>2
      <3>4. Alike(Append(u, s[k]), Append(v, k))
        BY <2>2, <3>2, <3>3
      <3> QED
        BY <2>0, <3>1, <3>4
    <2>5. CASE k \notin I
      BY <1>4, <1>5, <2>0, <2>1, <2>2, <2>5
    <2> QED
      BY <2>4, <2>5
  <1>8. 0..n \subseteq G
    <2> HIDE DEF G
    <2> QED
      BY <1>1, <1>6, <1>7, Stepwise
  <1>9. Alike(h[n], g[n]) /\ g[n] \in Seq(N)
    BY <1>1, <1>5, <1>8
  <1> QED
    BY <1>4, <1>5, <1>9 DEF t, n, N

\* All positions pick the list itself.
LEMMA PickedAll ==
  ASSUME NEW A, NEW s \in Seq(A), NEW I, 1..Len(s) \subseteq I
  PROVE  Picked(s, I) = s
  <1> DEFINE n == Len(s)
  <1>1. n \in Nat /\ \A k \in 1..n : s[k] \in A
    OBVIOUS
  <1>2. PICK h : PickRun(h, A, s, I)
    BY PickedRuns
  <1>3. /\ h \in [0..n -> Seq(A)] /\ h[0] = <<>>
        /\ \A k \in 1..n : h[k] = Append(h[k - 1], s[k])
        /\ Picked(s, I) = h[n]
    BY <1>2 DEF PickRun
  <1> HIDE DEF n
  <1> DEFINE Same(u, k) == Len(u) = k /\ \A p \in 1..k : u[p] = s[p]
             G == {k \in 0..n : Same(h[k], k)}
  <1>4. 0 \in G
    BY <1>1, <1>3
  <1>5. ASSUME NEW k \in 1..n, k - 1 \in G PROVE k \in G
    <2>0. k - 1 \in 0..n /\ k \in 0..n
      BY <1>1
    <2>1. PICK u \in Seq(A) : u = h[k - 1]
      BY <1>3, <2>0
    <2>2. Same(u, k - 1)
      BY <1>5, <2>1
    <2>3. PICK x \in A : x = s[k]
      BY <1>1
    <2>4. Len(Append(u, x)) = k /\ Append(u, x)[k] = x /\ \A p \in 1..(k - 1) : Append(u, x)[p] = u[p]
      BY <1>1, <2>2
    <2>5. \A p \in 1..k : p \in 1..(k - 1) \/ p = k
      BY <1>1
    <2>6. Same(Append(u, x), k)
      BY <2>2, <2>3, <2>4, <2>5
    <2> QED
      BY <1>3, <2>0, <2>1, <2>3, <2>6
  <1>6. 0..n \subseteq G
    <2> HIDE DEF G
    <2> QED
      BY <1>1, <1>4, <1>5, Stepwise
  <1>7. PICK u \in Seq(A) : u = h[n] /\ Same(u, n)
    <2>1. Same(h[n], n)
      BY <1>1, <1>6
    <2>2. h[n] \in Seq(A)
      BY <1>1, <1>3
    <2> HIDE DEF Same
    <2> QED
      BY <2>1, <2>2
  <1>8. u = s
    BY <1>7 DEF n
  <1> QED
    BY <1>3, <1>7, <1>8

\* No position picks the empty list.
LEMMA PickedNone ==
  ASSUME NEW A, NEW s \in Seq(A), NEW I, \A i \in 1..Len(s) : i \notin I
  PROVE  Picked(s, I) = <<>>
  <1>1. Picked(s, I) \in Seq(A)
    BY PickedIs
  <1>2. PICK at : Placed(at, Picked(s, I), s, I, Len(s))
    BY PickedIs
  <1>3. \A p \in 1..Len(Picked(s, I)) : FALSE
    BY <1>2 DEF Placed
  <1> QED
    BY <1>1, <1>3

\* The elements of a list are those at its positions.
LEMMA ToSetIs ==
  ASSUME NEW A, NEW s \in Seq(A)
  PROVE  ToSet(s) \subseteq A /\ \A x : x \in ToSet(s) <=> \E i \in 1..Len(s) : s[i] = x
  BY DEF ToSet

\* Position i of a list of n elements with these weights comes before position j.
Ahead(w, i, j) == w[i] > w[j] \/ (w[i] = w[j] /\ i < j)
AheadOf(w, n, j) == {i \in 1..n : Ahead(w, i, j)}
PlaceOf(w, n, j) == 1 + Cardinality(AheadOf(w, n, j))

\* The places of a descending order are a permutation of the positions.
LEMMA PlaceIs ==
  ASSUME NEW n \in Nat, NEW w \in [1..n -> Int]
  PROVE  /\ \A j \in 1..n : PlaceOf(w, n, j) \in 1..n
         /\ \A j, k \in 1..n : Ahead(w, j, k) => PlaceOf(w, n, j) < PlaceOf(w, n, k)
         /\ \A p \in 1..n : \E j \in 1..n : PlaceOf(w, n, j) = p
  <1>1. IsFiniteSet(1..n) /\ Cardinality(1..n) = n
    BY FS_Interval
  <1>2. ASSUME NEW j \in 1..n
        PROVE  IsFiniteSet(AheadOf(w, n, j)) /\ Cardinality(AheadOf(w, n, j)) \in Nat /\ Cardinality(AheadOf(w, n, j)) < n
    <2>1. AheadOf(w, n, j) \in SUBSET (1..n) /\ j \notin AheadOf(w, n, j)
      <3>1. w[j] \in Int
        OBVIOUS
      <3> QED
        BY <3>1 DEF AheadOf, Ahead
    <2>2. IsFiniteSet(AheadOf(w, n, j)) /\ Cardinality(AheadOf(w, n, j)) <= n /\ Cardinality(AheadOf(w, n, j)) # n
      BY <1>1, <2>1, FS_Subset
    <2> QED
      BY <2>2, FS_CardinalityType
  <1>3. ASSUME NEW j \in 1..n PROVE PlaceOf(w, n, j) \in 1..n
    BY <1>2 DEF PlaceOf
  <1>4. ASSUME NEW j \in 1..n, NEW k \in 1..n, Ahead(w, j, k) PROVE PlaceOf(w, n, j) < PlaceOf(w, n, k)
    <2>1. AheadOf(w, n, j) \in SUBSET AheadOf(w, n, k) /\ j \in AheadOf(w, n, k) /\ j \notin AheadOf(w, n, j)
      <3>1. \A i \in 1..n : w[i] \in Int
        OBVIOUS
      <3> QED
        BY <1>4, <3>1 DEF AheadOf, Ahead
    <2>2. Cardinality(AheadOf(w, n, j)) <= Cardinality(AheadOf(w, n, k)) /\ Cardinality(AheadOf(w, n, j)) # Cardinality(AheadOf(w, n, k))
      BY <1>2, <2>1, FS_Subset
    <2> QED
      BY <1>2, <2>2 DEF PlaceOf
  <1>5. ASSUME NEW j \in 1..n, NEW k \in 1..n, j # k PROVE PlaceOf(w, n, j) # PlaceOf(w, n, k)
    <2>1. Ahead(w, j, k) \/ Ahead(w, k, j)
      <3>1. w[j] \in Int /\ w[k] \in Int
        OBVIOUS
      <3> QED
        BY <1>5, <3>1 DEF Ahead
    <2>2. PlaceOf(w, n, j) \in Int /\ PlaceOf(w, n, k) \in Int
      BY <1>3
    <2> QED
      BY <1>4, <2>1, <2>2
  <1> DEFINE f == [j \in 1..n |-> PlaceOf(w, n, j)]
  <1>6. f \in Injection(1..n, 1..n)
    BY <1>3, <1>5 DEF Injection, IsInjective
  <1>7. f \in Surjection(1..n, 1..n)
    BY <1>1, <1>6, FS_Injection
  <1>8. \A p \in 1..n : \E j \in 1..n : PlaceOf(w, n, j) = p
    BY <1>7 DEF Surjection
  <1> QED
    BY <1>3, <1>4, <1>8

\* A list in another order: heaviest first, and of one weight in the order it was.
Ordering(pi, t, s, w) ==
  /\ pi \in [1..Len(s) -> 1..Len(s)]
  /\ \A p, q \in 1..Len(s) : pi[p] = pi[q] => p = q
  /\ \A j \in 1..Len(s) : \E p \in 1..Len(s) : pi[p] = j
  /\ Len(t) = Len(s) /\ \A p \in 1..Len(s) : t[p] = s[pi[p]]
  /\ \A p, q \in 1..Len(s) : p < q => Ahead(w, pi[p], pi[q])

\* Ranked is the same elements, each as often, in descending order of weight.
LEMMA RankedIs ==
  ASSUME NEW A, NEW s \in Seq(A), NEW w, NEW n, n = Len(s), w \in [1..n -> Int]
  PROVE  /\ Ranked(s, w) \in Seq(A) /\ Len(Ranked(s, w)) = n
         /\ ToSet(Ranked(s, w)) = ToSet(s)
         /\ NoRepeat(s) => NoRepeat(Ranked(s, w))
         /\ \E pi : Ordering(pi, Ranked(s, w), s, w)
  <1>1. n \in Nat /\ DOMAIN s = 1..n /\ \A j \in 1..n : s[j] \in A
    OBVIOUS
  <1> DEFINE pi == [p \in 1..n |-> CHOOSE j \in 1..n : PlaceOf(w, n, j) = p]
             t == [p \in 1..n |-> s[pi[p]]]
  <1>2. Ranked(s, w) = t
    BY <1>1 DEF Ranked, PlaceOf, AheadOf, Ahead
  <1>3. \A p \in 1..n : pi[p] \in 1..n /\ PlaceOf(w, n, pi[p]) = p
    <2> TAKE p \in 1..n
    <2>1. \E j \in 1..n : PlaceOf(w, n, j) = p
      BY <1>1, PlaceIs
    <2> QED
      BY <2>1
  <1>4. pi \in [1..n -> 1..n]
    BY <1>3
  <1>5. \A p \in 1..n : t[p] = s[pi[p]] /\ t[p] \in A
    BY <1>1, <1>3
  <1> HIDE DEF pi
  <1>6. t \in Seq(A) /\ Len(t) = n /\ DOMAIN t = 1..n
    BY <1>1, <1>5, SeqIs
  <1>7. \A p, q \in 1..n : pi[p] = pi[q] => p = q
    BY <1>3
  <1>8. ASSUME NEW j \in 1..n PROVE \E p \in 1..n : pi[p] = j
    <2>1. PlaceOf(w, n, j) \in 1..n
      BY <1>1, PlaceIs
    <2>2. pi[PlaceOf(w, n, j)] = j
      <3> DEFINE p == PlaceOf(w, n, j)
      <3>1. PlaceOf(w, n, pi[p]) = p /\ pi[p] \in 1..n
        BY <1>3, <2>1
      <3> HIDE DEF p
      <3>2. ~ Ahead(w, j, pi[p]) /\ ~ Ahead(w, pi[p], j)
        <4>1. PlaceOf(w, n, j) = p /\ p \in Int
          BY <2>1 DEF p
        <4>2. /\ Ahead(w, j, pi[p]) => PlaceOf(w, n, j) < PlaceOf(w, n, pi[p])
              /\ Ahead(w, pi[p], j) => PlaceOf(w, n, pi[p]) < PlaceOf(w, n, j)
          BY <1>1, <3>1, PlaceIs
        <4> QED
          BY <3>1, <4>1, <4>2
      <3>3. w[j] \in Int /\ w[pi[p]] \in Int
        BY <3>1
      <3>4. j = pi[p]
        BY <1>1, <3>1, <3>2, <3>3 DEF Ahead
      <3> QED
        BY <3>4 DEF p
    <2> QED
      BY <2>1, <2>2
  <1>9. ASSUME NEW p \in 1..n, NEW q \in 1..n, p < q PROVE Ahead(w, pi[p], pi[q])
    <2>1. ~ Ahead(w, pi[q], pi[p])
      <3>1. pi[p] \in 1..n /\ pi[q] \in 1..n /\ PlaceOf(w, n, pi[p]) = p /\ PlaceOf(w, n, pi[q]) = q
        BY <1>3
      <3>2. Ahead(w, pi[q], pi[p]) => PlaceOf(w, n, pi[q]) < PlaceOf(w, n, pi[p])
        BY <1>1, <3>1, PlaceIs
      <3> QED
        BY <1>9, <3>1, <3>2
    <2>2. /\ pi[p] \in 1..n /\ pi[q] \in 1..n /\ pi[p] # pi[q]
          /\ w[pi[p]] \in Int /\ w[pi[q]] \in Int
      BY <1>3, <1>7, <1>9
    <2> QED
      BY <2>1, <2>2 DEF Ahead
  <1> HIDE DEF t
  <1>10. Ordering(pi, t, s, w)
    BY <1>4, <1>5, <1>6, <1>7, <1>8, <1>9 DEF Ordering
  <1>11. ToSet(t) = ToSet(s)
    <2>1. ASSUME NEW x \in ToSet(t) PROVE x \in ToSet(s)
      <3>1. PICK p \in 1..n : t[p] = x
        BY <1>6, ToSetIs
      <3>2. pi[p] \in 1..n /\ s[pi[p]] = x
        BY <1>3, <1>5, <3>1
      <3> QED
        BY <3>2, ToSetIs
    <2>2. ASSUME NEW x \in ToSet(s) PROVE x \in ToSet(t)
      <3>1. PICK j \in 1..n : s[j] = x
        BY ToSetIs
      <3>2. PICK p \in 1..n : pi[p] = j
        BY <1>8
      <3>3. t[p] = x
        BY <1>5, <3>1, <3>2
      <3> QED
        BY <1>6, <3>3, ToSetIs
    <2> QED
      BY <2>1, <2>2
  <1>12. NoRepeat(s) => NoRepeat(t)
    BY <1>1, <1>3, <1>5, <1>6, <1>7 DEF NoRepeat
  <1> QED
    BY <1>2, <1>6, <1>10, <1>11, <1>12

\* As many elements are picked as there are positions to pick.
LEMMA PickedCount ==
  ASSUME NEW A, NEW s \in Seq(A), NEW I, I \subseteq 1..Len(s)
  PROVE  IsFiniteSet(I) /\ Len(Picked(s, I)) = Cardinality(I)
  <1> DEFINE t == Picked(s, I)
             l == Len(t)
             n == Len(s)
  <1>1. t \in Seq(A)
    BY PickedIs
  <1>2. PICK at : Placed(at, t, s, I, n)
    BY PickedIs
  <1>3. l \in Nat /\ n \in Nat
    BY <1>1
  <1>4. /\ at \in [1..l -> 1..n]
        /\ \A p \in 1..l : at[p] \in I
        /\ \A p, q \in 1..l : p < q => at[p] < at[q]
        /\ \A i \in I : \E p \in 1..l : at[p] = i
    BY <1>2 DEF Placed
  <1> HIDE DEF t, l, n
  <1>5. at \in Surjection(1..l, I)
    BY <1>4 DEF Surjection
  <1>6. at \in Injection(1..l, I)
    <2>1. \A p, q \in 1..l : at[p] = at[q] => p = q
      <3> TAKE p, q \in 1..l
      <3>1. at[p] \in 1..n /\ at[q] \in 1..n
        BY <1>4
      <3>2. at[p] \in Int /\ at[q] \in Int /\ p \in Int /\ q \in Int
        BY <1>3, <3>1
      <3> QED
        BY <1>3, <1>4, <3>2
    <2>2. at \in [1..l -> I]
      BY <1>4
    <2> QED
      BY <2>1, <2>2 DEF Injection, IsInjective
  <1>7. IsFiniteSet(1..l) /\ Cardinality(1..l) = l
    BY <1>3, FS_Interval
  <1>8. IsFiniteSet(I) /\ Cardinality(I) = Cardinality(1..l)
    BY <1>5, <1>6, <1>7, FS_Surjection
  <1> QED
    BY <1>7, <1>8 DEF l, t

\* What is picked and what is not is all there is.
LEMMA SplitCount ==
  ASSUME NEW A, NEW s \in Seq(A), NEW I, NEW J, I \subseteq 1..Len(s), J = (1..Len(s)) \ I
  PROVE  Len(Picked(s, I)) + Len(Picked(s, J)) = Len(s)
  <1>1. IsFiniteSet(1..Len(s)) /\ Cardinality(1..Len(s)) = Len(s)
    <2>1. Len(s) \in Nat
      OBVIOUS
    <2> QED
      BY <2>1, FS_Interval
  <1>2. Len(Picked(s, I)) = Cardinality(I) /\ Len(Picked(s, J)) = Cardinality(J) /\ IsFiniteSet(I) /\ IsFiniteSet(J)
    BY PickedCount
  <1>3. Cardinality(J) = Cardinality(1..Len(s)) - Cardinality(I)
    <2>1. Cardinality((1..Len(s)) \ I) = Cardinality(1..Len(s)) - Cardinality((1..Len(s)) \cap I)
      BY <1>1, FS_Difference
    <2>2. (1..Len(s)) \cap I = I
      OBVIOUS
    <2> QED
      BY <2>1, <2>2
  <1>4. Cardinality(I) \in Nat /\ Len(s) \in Nat
    BY <1>2, FS_CardinalityType
  <1> QED
    BY <1>1, <1>2, <1>3, <1>4

\* The sum of three numbers.
LEMMA AddedThree ==
  ASSUME NEW s \in Seq(Int), Len(s) = 3
  PROVE  Added(s) = s[1] + s[2] + s[3]
  <1>1. PICK h : AddRun(h, s)
    BY AddedRuns
  <1>2. h[0] = 0 /\ (\A k \in 1..3 : h[k] = h[k - 1] + s[k]) /\ Added(s) = h[3]
    BY <1>1 DEF AddRun
  <1>3. s[1] \in Int /\ s[2] \in Int /\ s[3] \in Int
    <2>1. 1 \in 1..3 /\ 2 \in 1..3 /\ 3 \in 1..3
      OBVIOUS
    <2> QED
      BY <2>1, ElementIs
  <1>4. h[1] = h[0] + s[1] /\ h[2] = h[1] + s[2] /\ h[3] = h[2] + s[3]
    <2>1. h[1] = h[1 - 1] + s[1] /\ h[2] = h[2 - 1] + s[2] /\ h[3] = h[3 - 1] + s[3]
      BY <1>2
    <2> QED
      BY <2>1
  <1> QED
    BY <1>2, <1>3, <1>4

\* The sum of four numbers.
LEMMA AddedFour ==
  ASSUME NEW s \in Seq(Int), Len(s) = 4
  PROVE  Added(s) = s[1] + s[2] + s[3] + s[4]
  <1>1. PICK h : AddRun(h, s)
    BY AddedRuns
  <1>2. h[0] = 0 /\ (\A k \in 1..4 : h[k] = h[k - 1] + s[k]) /\ Added(s) = h[4]
    BY <1>1 DEF AddRun
  <1>3. s[1] \in Int /\ s[2] \in Int /\ s[3] \in Int /\ s[4] \in Int
    <2>1. 1 \in 1..4 /\ 2 \in 1..4 /\ 3 \in 1..4 /\ 4 \in 1..4
      OBVIOUS
    <2> QED
      BY <2>1, ElementIs
  <1>4. h[1] = h[0] + s[1] /\ h[2] = h[1] + s[2] /\ h[3] = h[2] + s[3] /\ h[4] = h[3] + s[4]
    <2>1. h[1] = h[1 - 1] + s[1] /\ h[2] = h[2 - 1] + s[2] /\ h[3] = h[3 - 1] + s[3] /\ h[4] = h[4 - 1] + s[4]
      BY <1>2
    <2> QED
      BY <2>1
  <1> QED
    BY <1>2, <1>3, <1>4

\* Two sets that share nothing have as many elements together as apart.
LEMMA TwoKinds ==
  ASSUME NEW S, NEW T, IsFiniteSet(S), IsFiniteSet(T), S \cap T = {}
  PROVE  /\ IsFiniteSet(S \cup T) /\ Cardinality(S) \in Nat /\ Cardinality(T) \in Nat
         /\ Cardinality(S \cup T) = Cardinality(S) + Cardinality(T)
  <1>1. IsFiniteSet(S \cup T) /\ Cardinality(S \cup T) = Cardinality(S) + Cardinality(T) - Cardinality(S \cap T)
    BY FS_Union
  <1>2. Cardinality(S \cap T) = 0
    BY FS_EmptySet
  <1>3. Cardinality(S) \in Nat /\ Cardinality(T) \in Nat
    BY FS_CardinalityType
  <1> QED
    BY <1>1, <1>2, <1>3

\* Four sorts of numbers up to n, each number of one sort.
FourSorts(n, a, b, c, d) ==
  /\ a \subseteq 1..n /\ b \subseteq 1..n /\ c \subseteq 1..n /\ d \subseteq 1..n
  /\ a \cup b \cup c \cup d = 1..n
  /\ a \cap b = {} /\ (a \cup b) \cap c = {} /\ (a \cup b \cup c) \cap d = {}

\* So do four.
LEMMA FourKinds ==
  ASSUME NEW n \in Nat, NEW a, NEW b, NEW c, NEW d, FourSorts(n, a, b, c, d)
  PROVE  n = Cardinality(a) + Cardinality(b) + Cardinality(c) + Cardinality(d)
  <1>1. IsFiniteSet(1..n) /\ Cardinality(1..n) = n
    BY FS_Interval
  <1>2. IsFiniteSet(a) /\ IsFiniteSet(b) /\ IsFiniteSet(c) /\ IsFiniteSet(d)
    BY <1>1, FS_Subset DEF FourSorts
  <1>3. IsFiniteSet(a \cup b) /\ Cardinality(a \cup b) = Cardinality(a) + Cardinality(b)
    BY <1>2, TwoKinds DEF FourSorts
  <1>4. IsFiniteSet((a \cup b) \cup c) /\ Cardinality((a \cup b) \cup c) = Cardinality(a \cup b) + Cardinality(c)
    BY <1>2, <1>3, TwoKinds DEF FourSorts
  <1>5. Cardinality((a \cup b \cup c) \cup d) = Cardinality(a \cup b \cup c) + Cardinality(d)
    BY <1>2, <1>4, TwoKinds DEF FourSorts
  <1> QED
    BY <1>1, <1>3, <1>4, <1>5 DEF FourSorts

Partition(S, k, n) ==
  /\ S \in [1..k -> SUBSET (1..n)]
  /\ \A i, j \in 1..k : i # j => S[i] \cap S[j] = {}
UpTo(S, k) == UNION {S[i] : i \in 1..k}

\* One more part of a partition.
LEMMA UpToNext ==
  ASSUME NEW n \in Nat, NEW k \in Nat, NEW S, Partition(S, k, n), NEW i \in 1..k
  PROVE  /\ IsFiniteSet(S[i]) /\ IsFiniteSet(UpTo(S, i - 1)) /\ S[i] \cap UpTo(S, i - 1) = {}
         /\ UpTo(S, i) = UpTo(S, i - 1) \cup S[i]
  <1>1. S \in [1..k -> SUBSET (1..n)] /\ \A j \in 1..k : i # j => S[i] \cap S[j] = {}
    BY DEF Partition
  <1>2. 1..i = 1..(i - 1) \cup {i} /\ \A j \in 1..(i - 1) : j \in 1..k /\ i # j
    OBVIOUS
  <1>3. UpTo(S, i - 1) \subseteq 1..n /\ S[i] \subseteq 1..n
    BY <1>1, <1>2 DEF UpTo
  <1>4. IsFiniteSet(1..n)
    BY FS_Interval
  <1>5. IsFiniteSet(S[i]) /\ IsFiniteSet(UpTo(S, i - 1))
    BY <1>3, <1>4, FS_Subset
  <1>6. S[i] \cap UpTo(S, i - 1) = {}
    BY <1>1, <1>2 DEF UpTo
  <1>7. UpTo(S, i) = UpTo(S, i - 1) \cup S[i]
    BY <1>2 DEF UpTo
  <1> QED
    BY <1>5, <1>6, <1>7

\* The sizes of sets that share nothing add up to the size of their union.
LEMMA PartsAddUp ==
  ASSUME NEW s \in Seq(Int), NEW n \in Nat, NEW S, Partition(S, Len(s), n), \A i \in 1..Len(s) : s[i] = Cardinality(S[i])
  PROVE  Added(s) = Cardinality(UpTo(S, Len(s)))
  <1> DEFINE k == Len(s)
  <1>1. PICK h : AddRun(h, s)
    BY AddedRuns
  <1>2. /\ h \in [0..k -> Int] /\ h[0] = 0 /\ \A i \in 1..k : h[i] = h[i - 1] + s[i]
        /\ Added(s) = h[k] /\ k \in Nat
    BY <1>1, ElementIs DEF AddRun
  <1>3. \A i \in 1..k : s[i] = Cardinality(S[i])
    OBVIOUS
  <1> HIDE DEF k
  <1> DEFINE G == {i \in 0..k : h[i] = Cardinality(UpTo(S, i))}
  <1>4. 0 \in G
    <2>1. UpTo(S, 0) = {}
      BY DEF UpTo
    <2>2. Cardinality({}) = 0
      BY FS_EmptySet
    <2>3. 0 \in 0..k
      BY <1>2
    <2> QED
      BY <1>2, <2>1, <2>2, <2>3
  <1>5. ASSUME NEW i \in 1..k, i - 1 \in G PROVE i \in G
    <2>1. /\ IsFiniteSet(S[i]) /\ IsFiniteSet(UpTo(S, i - 1)) /\ S[i] \cap UpTo(S, i - 1) = {}
          /\ UpTo(S, i) = UpTo(S, i - 1) \cup S[i]
      BY <1>2, UpToNext DEF k
    <2>2. UpTo(S, i - 1) \cap S[i] = {}
      BY <2>1
    <2>3. /\ Cardinality(UpTo(S, i - 1) \cup S[i]) = Cardinality(UpTo(S, i - 1)) + Cardinality(S[i])
      BY <2>1, <2>2, TwoKinds
    <2>4. h[i - 1] = Cardinality(UpTo(S, i - 1)) /\ h[i] = h[i - 1] + Cardinality(S[i])
      BY <1>2, <1>3, <1>5
    <2>5. i \in 0..k
      BY <1>2
    <2> QED
      BY <2>1, <2>3, <2>4, <2>5
  <1> HIDE DEF G
  <1>6. 0..k \subseteq G
    BY <1>2, <1>4, <1>5, Stepwise
  <1>7. k \in 0..k
    BY <1>2
  <1>8. h[k] = Cardinality(UpTo(S, k))
    BY <1>6, <1>7 DEF G
  <1> QED
    BY <1>2, <1>8 DEF k

\* Each of one set goes with one of another.
Single(S, T, R) ==
  /\ \A x \in S : \E y \in T : <<x, y>> \in R
  /\ \A y \in T : \E x \in S : <<x, y>> \in R
  /\ \A x \in S : \A y, z \in T : <<x, y>> \in R /\ <<x, z>> \in R => y = z
  /\ \A y \in T : \A x, z \in S : <<x, y>> \in R /\ <<z, y>> \in R => x = z

\* Sets whose elements go with one another one by one are as large.
LEMMA AsMany ==
  ASSUME NEW S, IsFiniteSet(S), NEW T, NEW R, Single(S, T, R)
  PROVE  IsFiniteSet(T) /\ Cardinality(T) = Cardinality(S)
  <1> DEFINE Of(x) == CHOOSE y \in T : <<x, y>> \in R
             f == [x \in S |-> Of(x)]
  <1>1. \A x \in S : Of(x) \in T /\ <<x, Of(x)>> \in R
    BY DEF Single
  <1> HIDE DEF Of
  <1>2. f \in [S -> T] /\ \A x \in S : f[x] = Of(x)
    BY <1>1
  <1> HIDE DEF f
  <1>3. \A x, z \in S : f[x] = f[z] => x = z
    BY <1>1, <1>2 DEF Single
  <1>4. ASSUME NEW y \in T PROVE \E x \in S : f[x] = y
    <2>1. PICK x \in S : <<x, y>> \in R
      BY DEF Single
    <2>2. f[x] \in T /\ <<x, f[x]>> \in R
      BY <1>1, <1>2
    <2>3. f[x] = y
      BY <2>1, <2>2 DEF Single
    <2> QED
      BY <2>3
  <1>5. f \in Bijection(S, T)
    <2>1. DOMAIN f = S
      BY <1>2
    <2>2. f \in Injection(S, T)
      BY <1>2, <1>3, <2>1 DEF Injection, IsInjective
    <2>3. f \in Surjection(S, T)
      BY <1>2, <1>4 DEF Surjection
    <2> QED
      BY <2>2, <2>3 DEF Bijection
  <1>6. ExistsBijection(S, T)
    BY <1>5 DEF ExistsBijection
  <1> QED
    BY <1>6, FS_Bijection

Tiled(off, t, ss, k) ==
  /\ \A j \in 1..k : \A p \in 1..Len(ss[j]) : off[j - 1] + p \in 1..Len(t) /\ t[off[j - 1] + p] = ss[j][p]
  /\ \A q \in 1..Len(t) : \E j \in 1..k : \E p \in 1..Len(ss[j]) : q = off[j - 1] + p
  /\ \A i, j \in 1..k : \A p \in 1..Len(ss[i]) : \A q \in 1..Len(ss[j]) : off[i - 1] + p = off[j - 1] + q => i = j /\ p = q

\* A position of a flattened list is one of one of its parts.
LEMMA LaidApart ==
  ASSUME NEW A, NEW ss \in Seq(Seq(A)), NEW t \in Seq(A), NEW off, Laid(off, t, ss, Len(ss))
  PROVE  Tiled(off, t, ss, Len(ss))
  <1> DEFINE k == Len(ss)
  <1>1. /\ off \in [0..k -> Nat] /\ off[k] = Len(t)
        /\ \A j \in 1..k : off[j] = off[j - 1] + Len(ss[j])
        /\ \A i, j \in 0..k : i <= j => off[i] <= off[j]
        /\ \A j \in 1..k : \A p \in 1..Len(ss[j]) : t[off[j - 1] + p] = ss[j][p]
        /\ \A i \in 1..Len(t) : \E j \in 1..k : \E p \in 1..Len(ss[j]) : i = off[j - 1] + p
    BY DEF Laid
  <1>2. k \in Nat /\ Len(t) \in Nat /\ \A j \in 1..k : Len(ss[j]) \in Nat
    BY ElementIs
  <1> HIDE DEF k
  <1>3. ASSUME NEW j \in 1..k, NEW p \in 1..Len(ss[j]) PROVE off[j - 1] + p \in 1..Len(t)
    <2>1. j - 1 \in 0..k /\ j \in 0..k /\ k \in 0..k /\ j <= k
      BY <1>2
    <2>2. off[j] <= off[k] /\ off[j] = off[j - 1] + Len(ss[j]) /\ off[j - 1] \in Nat
      BY <1>1, <2>1
    <2>3. off[j - 1] + Len(ss[j]) <= Len(t)
      BY <1>1, <2>2
    <2> QED
      BY <1>2, <2>2, <2>3, Inside
  <1>4. ASSUME NEW i \in 1..k, NEW j \in 1..k, i < j, NEW p \in 1..Len(ss[i]), NEW q \in 1..Len(ss[j])
        PROVE  off[i - 1] + p < off[j - 1] + q
    <2>1. i \in 0..k /\ i - 1 \in 0..k /\ j - 1 \in 0..k /\ i <= j - 1
      BY <1>2, <1>4
    <2>2. off[i] <= off[j - 1] /\ off[i] = off[i - 1] + Len(ss[i])
      BY <1>1, <2>1
    <2>3. off[i] \in Nat /\ off[i - 1] \in Nat /\ off[j - 1] \in Nat
      BY <1>1, <2>1
    <2> DEFINE a == off[i]
               b == off[i - 1]
               d == off[j - 1]
               l == Len(ss[i])
    <2>4. a <= d /\ a = b + l /\ a \in Nat /\ b \in Nat /\ d \in Nat /\ l \in Nat /\ p \in 1..l /\ q \in Nat \ {0}
      BY <1>2, <2>2, <2>3
    <2> HIDE DEF a, b, d, l
    <2>5. b + p < d + q
      BY <2>4
    <2> QED
      BY <2>5 DEF b, d
  <1>5. ASSUME NEW i \in 1..k, NEW j \in 1..k, NEW p \in 1..Len(ss[i]), NEW q \in 1..Len(ss[j]), off[i - 1] + p = off[j - 1] + q
        PROVE  i = j /\ p = q
    <2>1. i - 1 \in 0..k /\ j - 1 \in 0..k
      BY <1>2
    <2> DEFINE b == off[i - 1]
               d == off[j - 1]
    <2>2. b \in Nat /\ d \in Nat
      BY <1>1, <2>1
    <2>5. p \in Nat /\ q \in Nat
      BY <1>2
    <2>6. (i < j => b + p < d + q) /\ (j < i => d + q < b + p) /\ b + p = d + q
      BY <1>4, <1>5
    <2> HIDE DEF b, d
    <2>3. ~(i < j) /\ ~(j < i) /\ (b = d => p = q)
      BY <2>2, <2>5, <2>6
    <2>4. i = j
      BY <1>2, <2>3
    <2> QED
      BY <2>3, <2>4 DEF b, d
  <1> QED
    BY <1>1, <1>3, <1>5 DEF k, Tiled
===========================================================================
