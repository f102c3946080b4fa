------------------------- MODULE AlgorithmsProofs -------------------------
(***************************************************************************)
(* Theorems about the pure computations for every input of InputsAssumption: *)
(* that what they return satisfies what Algorithms states of it.  One lemma *)
(* for each computation says what it returns; the machine adds that a result *)
(* is computed once, from the input.                                       *)
(***************************************************************************)
EXTENDS Algorithms, DataFacts

(***************************************************************************)
(* The bounds of a prompt, a retry and a search                            *)
(***************************************************************************)
CutBy(facts, fixed, budget, now, f) ==
  IF JoinedLength(facts, fixed, now) - budget <= 0 THEN now
  ELSE [now EXCEPT ![f] = AtLeastZero(@ - (JoinedLength(facts, fixed, now) - budget))]

CutRun(h, facts, fixed, ctx, budget) ==
  /\ h \in [0..Len(Fields) -> [FieldNames -> Nat]]
  /\ h[0] = ctx
  /\ \A k \in 1..Len(Fields) : h[k] = CutBy(facts, fixed, budget, h[k - 1], Fields[k])
  /\ AssembleUserMessage(facts, fixed, ctx, budget) = h[Len(Fields)]

\* The cut of a prompt, field by field.
LEMMA CutRuns ==
  ASSUME NEW facts \in Int, NEW fixed \in Int, NEW budget \in Int, NEW ctx \in [FieldNames -> Nat]
  PROVE  \E h : CutRun(h, facts, fixed, ctx, budget)
  <1> DEFINE n == Len(Fields)
             step == [k \in 1..n |-> [acc \in [FieldNames -> Nat] |-> CutBy(facts, fixed, budget, acc, Fields[k])]]
             Eq(f) == f = [S \in SUBSET (1..n) |->
                             IF S = {} THEN ctx ELSE CutBy(facts, fixed, budget, f[S \ {Max(S)}], Fields[Max(S)])]
             F == CHOOSE f : Eq(f)
  <1>1. n \in Nat /\ DOMAIN Fields = 1..n /\ ctx \in [FieldNames -> Nat] /\ (\A k \in 1..n : Fields[k] \in FieldNames) /\ \A f \in FieldNames, now \in [FieldNames -> Nat] : CutBy(facts, fixed, budget, now, f) \in [FieldNames -> Nat]
    BY DEF Fields, FieldNames, CutBy, JoinedLength, AtLeastZero
  <1>2. step \in [1..n -> [[FieldNames -> Nat] -> [FieldNames -> Nat]]]
    BY <1>1
  <1>3. \A S \in SUBSET (1..n) : S # {} => Max(S) \in 1..n /\ S \ {Max(S)} \in SUBSET (1..n)
    <2> TAKE S \in SUBSET (1..n)
    <2>1. S \subseteq 0..n
      BY <1>1
    <2> QED
      BY <1>1, <2>1, MaxIsGreatest
  <1>4. \E f : Eq(f)
    <2>1. PICK f : FoldOver(f, n, [FieldNames -> Nat], ctx, step)
      <3> HIDE DEF step, n, Eq, F
      <3> QED
        BY <1>1, <1>2, FoldExists
    <2>2. Eq(f)
      BY <1>3, <2>1 DEF FoldOver
    <2> QED
      BY <2>2
  <1>5. Eq(F)
    <2> HIDE DEF Eq
    <2> QED
      BY <1>4
  <1>6. AssembleUserMessage(facts, fixed, ctx, budget) = F[1..n]
    BY <1>1 DEF AssembleUserMessage, CutBy, FoldLeft, MapThenFoldSet
  <1>7. Outcome(F[1..n], n, [FieldNames -> Nat], ctx, step)
    <2>1. FoldedBy(F, n, [FieldNames -> Nat], ctx, step)
      <3>1. F[{}] = ctx
        BY <1>5
      <3>2. ASSUME NEW S \in SUBSET (1..n), S # {}, F[S \ {Max(S)}] \in [FieldNames -> Nat]
            PROVE  F[S] = step[Max(S)][F[S \ {Max(S)}]]
        <4>1. F[S] = CutBy(facts, fixed, budget, F[S \ {Max(S)}], Fields[Max(S)])
          BY <1>5, <3>2
        <4> HIDE DEF F
        <4> QED
          BY <1>3, <3>2, <4>1
      <3> HIDE DEF F, step
      <3> QED
        BY <3>1, <3>2 DEF FoldedBy
    <2> HIDE DEF step, F, n, Eq
    <2> QED
      BY <1>1, <1>2, <2>1, FoldIs
  <1>8. PICK h : Running(h, n, [FieldNames -> Nat], ctx, step) /\ h[n] = F[1..n]
    <2> HIDE DEF step, F, n, Eq
    <2> QED
      BY <1>7 DEF Outcome
  <1>9. h \in [0..n -> [FieldNames -> Nat]] /\ h[0] = ctx /\ \A k \in 1..n : h[k] = step[k][h[k - 1]]
    <2> HIDE DEF step, n
    <2> QED
      BY <1>8 DEF Running
  <1>10. ASSUME NEW k \in 1..n PROVE h[k] = CutBy(facts, fixed, budget, h[k - 1], Fields[k])
    <2>1. k - 1 \in 0..n
      BY <1>1
    <2>2. h[k - 1] \in [FieldNames -> Nat]
      <3> HIDE DEF n
      <3> QED
        BY <1>9, <2>1
    <2> QED
      BY <1>9, <2>2
  <1>11. CutRun(h, facts, fixed, ctx, budget)
    <2> HIDE DEF F
    <2> QED
      BY <1>6, <1>8, <1>9, <1>10 DEF CutRun
  <1> QED
    BY <1>11

\* What a prompt's cut leaves satisfies CutsInOrder.
LEMMA CutIsInOrder ==
  ASSUME NEW facts \in Int, NEW fixed \in Int, NEW budget \in Int, NEW ctx \in [FieldNames -> Nat]
  PROVE  CutsInOrder(facts, fixed, ctx, budget, AssembleUserMessage(facts, fixed, ctx, budget))
  <1>1. PICK h : CutRun(h, facts, fixed, ctx, budget)
    BY CutRuns
  <1>2. DOMAIN Fields = 1..3 /\ Len(Fields) = 3 /\ Fields[1] = "graphContext"
        /\ Fields[2] = "additionalContext" /\ Fields[3] = "fileTree"
    BY DEF Fields
  <1> DEFINE a == h[1]
             b == h[2]
             d == h[3]
  <1>3. /\ a \in [FieldNames -> Nat] /\ b \in [FieldNames -> Nat] /\ d \in [FieldNames -> Nat]
        /\ a = CutBy(facts, fixed, budget, ctx, "graphContext")
        /\ b = CutBy(facts, fixed, budget, a, "additionalContext")
        /\ d = CutBy(facts, fixed, budget, b, "fileTree")
        /\ AssembleUserMessage(facts, fixed, ctx, budget) = d
    BY <1>1, <1>2 DEF CutRun
  <1> HIDE DEF a, b, d
  <1> DEFINE Tot(x, y, z) == facts + fixed + x + y + z
             Less(x, e) == IF e <= 0 THEN x ELSE AtLeastZero(x - e)
  <1>4. PICK x \in Nat, y \in Nat, z \in Nat :
           x = ctx["graphContext"] /\ y = ctx["additionalContext"] /\ z = ctx["fileTree"]
    BY DEF FieldNames
  <1>a. ASSUME NEW now \in [FieldNames -> Nat], NEW f \in FieldNames
         PROVE  /\ CutBy(facts, fixed, budget, now, f)[f] = Less(now[f], JoinedLength(facts, fixed, now) - budget)
                /\ \A g \in FieldNames : g # f => CutBy(facts, fixed, budget, now, f)[g] = now[g]
    BY DEF CutBy
  <1>b. "graphContext" \in FieldNames /\ "additionalContext" \in FieldNames /\ "fileTree" \in FieldNames
    BY DEF FieldNames
  <1>5. PICK u \in Nat, v \in Nat, w \in Nat :
           /\ u = d["graphContext"] /\ v = d["additionalContext"] /\ w = d["fileTree"]
           /\ u = Less(x, Tot(x, y, z) - budget)
           /\ v = Less(y, Tot(u, y, z) - budget)
           /\ w = Less(z, Tot(u, v, z) - budget)
    <2>1. /\ a["graphContext"] = Less(x, Tot(x, y, z) - budget)
          /\ a["additionalContext"] = y /\ a["fileTree"] = z
      BY <1>3, <1>4 DEF CutBy, JoinedLength, FieldNames
    <2>2. PICK u \in Nat : u = a["graphContext"]
      BY <1>3 DEF FieldNames
    <2>3. /\ b["additionalContext"] = Less(y, Tot(u, y, z) - budget)
          /\ b["graphContext"] = u /\ b["fileTree"] = z
      BY <1>3, <1>4, <2>1, <2>2 DEF CutBy, JoinedLength, FieldNames
    <2>4. PICK v \in Nat : v = b["additionalContext"]
      BY <1>3 DEF FieldNames
    <2>5. /\ d["fileTree"] = Less(z, Tot(u, v, z) - budget)
          /\ d["graphContext"] = u /\ d["additionalContext"] = v
      <3>1. JoinedLength(facts, fixed, b) = Tot(u, v, z)
        BY <2>3, <2>4 DEF JoinedLength
      <3> HIDE DEF Tot
      <3> QED
        <4> HIDE DEF Less
        <4>1. d["fileTree"] = Less(b["fileTree"], JoinedLength(facts, fixed, b) - budget)
          BY <1>3, <1>a, <1>b
        <4>2. d["graphContext"] = b["graphContext"] /\ d["additionalContext"] = b["additionalContext"]
          BY <1>3, <1>a, <1>b
        <4> QED
          BY <2>3, <2>4, <3>1, <4>1, <4>2
    <2>6. PICK w \in Nat : w = d["fileTree"]
      BY <1>3 DEF FieldNames
    <2> QED
      BY <2>1, <2>2, <2>3, <2>4, <2>5, <2>6
  <1>6. /\ Tot(u, v, w) > budget => u = 0 /\ v = 0 /\ w = 0
        /\ Tot(u, v, w) < budget => u = x /\ v = y /\ w = z
        /\ v < y => u = 0
        /\ w < z => u = 0 /\ v = 0
    BY <1>5 DEF AtLeastZero
  <1>7. Tot(u, v, w) < budget => d = ctx
    <2> HAVE Tot(u, v, w) < budget
    <2>1. \A f \in FieldNames : d[f] = ctx[f]
      BY <1>4, <1>5, <1>6 DEF FieldNames
    <2> QED
      BY <1>3, <2>1
  <1>8. JoinedLength(facts, fixed, d) = Tot(u, v, w)
    BY <1>5 DEF JoinedLength
  <1>9. /\ d[Fields[1]] = u /\ d[Fields[2]] = v /\ d[Fields[3]] = w
        /\ ctx[Fields[1]] = x /\ ctx[Fields[2]] = y /\ ctx[Fields[3]] = z
    BY <1>2, <1>4, <1>5
  <1>10. \A i \in DOMAIN Fields : i = 1 \/ i = 2 \/ i = 3
    BY <1>2
  <1>11. ASSUME NEW i \in DOMAIN Fields, d[Fields[i]] < ctx[Fields[i]], NEW j \in 1..(i - 1)
         PROVE  d[Fields[j]] = 0
    <2>1. CASE i = 1
      BY <2>1
    <2>2. CASE i = 2
      <3>1. j = 1 /\ v < y
        BY <1>9, <1>11, <2>2
      <3> HIDE DEF Less, Tot
      <3> QED
        BY <1>6, <1>9, <3>1
    <2>3. CASE i = 3
      <3>1. (j = 1 \/ j = 2) /\ w < z
        BY <1>9, <1>11, <2>3
      <3> HIDE DEF Less, Tot
      <3> QED
        BY <1>6, <1>9, <3>1
    <2> QED
      BY <1>10, <2>1, <2>2, <2>3
  <1>12. ASSUME Tot(u, v, w) > budget, NEW i \in DOMAIN Fields PROVE d[Fields[i]] = 0
    <2> HIDE DEF Less, Tot
    <2> QED
      BY <1>6, <1>9, <1>10, <1>12
  <1> QED
    BY <1>3, <1>7, <1>8, <1>11, <1>12 DEF CutsInOrder

Attempts(failures, o) == [i \in 1..(IF failures < o.retries THEN failures ELSE o.retries - 1) |-> i]
Waiting == [waits : Seq(Nat), delay : Nat]
WaitMore(o, acc) == [waits |-> Append(acc.waits, Least(acc.delay, o.max)), delay |-> Least(acc.delay * o.factor, o.max)]

\* A delay times a factor is no shorter.
LEMMA Grows ==
  ASSUME NEW d \in Nat, NEW f \in Nat \ {0}
  PROVE  d * f \in Nat /\ d <= d * f
  OBVIOUS

WaitRun(h, failures, o) ==
  /\ h \in [0..Len(Attempts(failures, o)) -> Waiting]
  /\ h[0] = [waits |-> <<>>, delay |-> o.min]
  /\ \A k \in 1..Len(Attempts(failures, o)) : h[k] = WaitMore(o, h[k - 1])
  /\ Waits(failures, o) = h[Len(Attempts(failures, o))].waits

\* The waits of a retry, attempt by attempt.
LEMMA WaitRuns ==
  ASSUME NEW failures \in Nat, NEW o \in RetryOptions
  PROVE  \E h : WaitRun(h, failures, o)
  <1> DEFINE n == Len(Attempts(failures, o))
             step == [k \in 1..n |-> [acc \in Waiting |-> WaitMore(o, acc)]]
             Eq(f) == f = [S \in SUBSET (1..n) |->
                             IF S = {} THEN [waits |-> <<>>, delay |-> o.min] ELSE WaitMore(o, f[S \ {Max(S)}])]
             F == CHOOSE f : Eq(f)
  <1>1. n \in Nat /\ DOMAIN Attempts(failures, o) = 1..n /\ [waits |-> <<>>, delay |-> o.min] \in Waiting /\ \A acc \in Waiting : WaitMore(o, acc) \in Waiting
    <2>1. n \in Nat /\ DOMAIN Attempts(failures, o) = 1..n /\ [waits |-> <<>>, delay |-> o.min] \in Waiting
      BY DEF Attempts, RetryOptions, Waiting
    <2>2. ASSUME NEW acc \in Waiting PROVE WaitMore(o, acc) \in Waiting
      <3>1. acc.delay * o.factor \in Nat
        BY Grows DEF Waiting, RetryOptions
      <3>2. Least(acc.delay, o.max) \in Nat /\ Least(acc.delay * o.factor, o.max) \in Nat /\ acc.waits \in Seq(Nat)
        BY <3>1 DEF Least, Waiting, RetryOptions
      <3> QED
        BY <3>2 DEF WaitMore, Waiting
    <2> QED
      BY <2>1, <2>2
  <1>2. step \in [1..n -> [Waiting -> Waiting]]
    BY <1>1
  <1>3. \A S \in SUBSET (1..n) : S # {} => Max(S) \in 1..n /\ S \ {Max(S)} \in SUBSET (1..n)
    <2> TAKE S \in SUBSET (1..n)
    <2>1. S \subseteq 0..n
      BY <1>1
    <2> QED
      BY <1>1, <2>1, MaxIsGreatest
  <1>4. \E f : Eq(f)
    <2>1. PICK f : FoldOver(f, n, Waiting, [waits |-> <<>>, delay |-> o.min], step)
      <3> HIDE DEF step, n, Eq, F
      <3> QED
        BY <1>1, <1>2, FoldExists
    <2>2. Eq(f)
      BY <1>3, <2>1 DEF FoldOver
    <2> QED
      BY <2>2
  <1>5. Eq(F)
    <2> HIDE DEF Eq
    <2> QED
      BY <1>4
  <1>6. Waits(failures, o) = F[1..n].waits
    BY <1>1 DEF Waits, WaitMore, Attempts, FoldLeft, MapThenFoldSet
  <1>7. Outcome(F[1..n], n, Waiting, [waits |-> <<>>, delay |-> o.min], step)
    <2>1. FoldedBy(F, n, Waiting, [waits |-> <<>>, delay |-> o.min], step)
      <3>1. F[{}] = [waits |-> <<>>, delay |-> o.min]
        BY <1>5
      <3>2. ASSUME NEW S \in SUBSET (1..n), S # {}, F[S \ {Max(S)}] \in Waiting
            PROVE  F[S] = step[Max(S)][F[S \ {Max(S)}]]
        <4>1. F[S] = WaitMore(o, F[S \ {Max(S)}])
          BY <1>5, <3>2
        <4> HIDE DEF F
        <4> QED
          BY <1>3, <3>2, <4>1
      <3> HIDE DEF F, step
      <3> QED
        BY <3>1, <3>2 DEF FoldedBy
    <2> HIDE DEF step, F, n, Eq
    <2> QED
      BY <1>1, <1>2, <2>1, FoldIs
  <1>8. PICK h : Running(h, n, Waiting, [waits |-> <<>>, delay |-> o.min], step) /\ h[n] = F[1..n]
    <2> HIDE DEF step, F, n, Eq
    <2> QED
      BY <1>7 DEF Outcome
  <1>9. h \in [0..n -> Waiting] /\ h[0] = [waits |-> <<>>, delay |-> o.min] /\ \A k \in 1..n : h[k] = step[k][h[k - 1]]
    <2> HIDE DEF step, n
    <2> QED
      BY <1>8 DEF Running
  <1>10. ASSUME NEW k \in 1..n PROVE h[k] = WaitMore(o, h[k - 1])
    <2>1. k - 1 \in 0..n
      BY <1>1
    <2>2. h[k - 1] \in Waiting
      <3> HIDE DEF n
      <3> QED
        BY <1>9, <2>1
    <2> QED
      BY <1>9, <2>2
  <1>11. WaitRun(h, failures, o)
    <2> HIDE DEF F
    <2> QED
      BY <1>6, <1>8, <1>9, <1>10 DEF WaitRun
  <1> QED
    BY <1>11

Growing(t, d, m, k) ==
  /\ Len(t) = k
  /\ \A i \in 1..k : t[i] <= m /\ (i > 1 => t[i - 1] <= t[i])
  /\ k > 0 => t[k] <= d

WaitsUpTo(o, acc, k) == acc \in Waiting /\ Growing(acc.waits, acc.delay, o.max, k)

\* One more wait keeps them growing and under the maximum.
LEMMA WaitsGrow ==
  ASSUME NEW k \in Nat, NEW t \in Seq(Nat), NEW d \in Nat, NEW p \in Nat, NEW m \in Nat, d <= p, Growing(t, d, m, k)
  PROVE  Growing(Append(t, Least(d, m)), Least(p, m), m, k + 1)
  <1>1. PICK w \in Nat, e \in Nat : w = Least(d, m) /\ e = Least(p, m) /\ w <= e /\ w <= m
                                   /\ (k > 0 => t[k] <= w)
    <2>1. k > 0 => k \in 1..k /\ t[k] <= m /\ t[k] <= d /\ t[k] \in Nat
      BY DEF Growing
    <2> QED
      BY <2>1 DEF Least
  <1> DEFINE u == Append(t, w)
  <1>2. k = Len(t)
    BY DEF Growing
  <1>3. u \in Seq(Nat) /\ Len(u) = k + 1 /\ u[k + 1] = w /\ \A i \in 1..k : u[i] = t[i]
    BY <1>2
  <1> HIDE DEF u
  <1>4. ASSUME NEW i \in 1..(k + 1) PROVE u[i] <= m /\ (i > 1 => u[i - 1] <= u[i])
    <2>1. CASE i = k + 1
      <3>1. i > 1 => k > 0 /\ i - 1 = k /\ k \in 1..k
        BY <2>1
      <3> QED
        BY <1>1, <1>3, <2>1, <3>1
    <2>2. CASE i # k + 1
      <3>1. i \in 1..k /\ (i > 1 => i - 1 \in 1..k)
        BY <2>2
      <3> QED
        BY <1>3, <3>1 DEF Growing
    <2> QED
      BY <2>1, <2>2
  <1>5. Growing(u, e, m, k + 1)
    BY <1>1, <1>3, <1>4 DEF Growing
  <1> QED
    BY <1>1, <1>5 DEF u

\* So does one more attempt.
LEMMA WaitsStep ==
  ASSUME NEW o \in RetryOptions, NEW k \in Nat, NEW acc, WaitsUpTo(o, acc, k)
  PROVE  WaitsUpTo(o, WaitMore(o, acc), k + 1)
  <1>1. PICK t \in Seq(Nat), d \in Nat, f \in Nat \ {0}, m \in Nat :
           t = acc.waits /\ d = acc.delay /\ f = o.factor /\ m = o.max
    BY DEF WaitsUpTo, Waiting, RetryOptions
  <1>2. PICK p \in Nat : p = d * f /\ d <= p
    BY Grows
  <1>3. Growing(t, d, m, k)
    BY <1>1 DEF WaitsUpTo
  <1>4. Growing(Append(t, Least(d, m)), Least(p, m), m, k + 1)
    BY <1>2, <1>3, WaitsGrow
  <1>5. Append(t, Least(d, m)) \in Seq(Nat) /\ Least(p, m) \in Nat
    BY DEF Least
  <1>6. WaitMore(o, acc) = [waits |-> Append(t, Least(d, m)), delay |-> Least(p, m)]
    BY <1>1, <1>2 DEF WaitMore
  <1> QED
    BY <1>1, <1>4, <1>5, <1>6 DEF WaitsUpTo, Waiting

\* The waits of a retry grow to the maximum, one less than the attempts.
LEMMA WaitsBackOff ==
  ASSUME NEW failures \in Nat, NEW o \in RetryOptions
  PROVE  BacksOff(failures, o, Waits(failures, o))
  <1> DEFINE n == Len(Attempts(failures, o))
  <1>1. PICK h : WaitRun(h, failures, o)
    BY WaitRuns
  <1>2. n \in Nat /\ n = (IF failures < o.retries THEN failures ELSE o.retries - 1)
    BY DEF Attempts, RetryOptions
  <1>3. /\ h[0] = [waits |-> <<>>, delay |-> o.min]
        /\ \A k \in 1..n : h[k] = WaitMore(o, h[k - 1])
        /\ Waits(failures, o) = h[n].waits
    BY <1>1 DEF WaitRun
  <1> HIDE DEF n
  <1> DEFINE G == {k \in 0..n : WaitsUpTo(o, h[k], k)}
  <1>4. 0 \in G
    <2>1. h[0].waits = <<>> /\ h[0].delay = o.min /\ h[0] \in Waiting
      BY <1>3 DEF Waiting, RetryOptions
    <2>2. Growing(<<>>, o.min, o.max, 0)
      BY DEF Growing
    <2> QED
      BY <1>2, <2>1, <2>2 DEF WaitsUpTo
  <1>5. ASSUME NEW k \in 1..n, k - 1 \in G PROVE k \in G
    <2>1. WaitsUpTo(o, WaitMore(o, h[k - 1]), (k - 1) + 1)
      BY <1>2, <1>5, WaitsStep
    <2> QED
      BY <1>2, <1>3, <2>1
  <1>6. 0..n \subseteq G
    <2> HIDE DEF G
    <2> QED
      BY <1>2, <1>4, <1>5, Stepwise
  <1>7. WaitsUpTo(o, h[n], n)
    BY <1>2, <1>6
  <1>8. DOMAIN Waits(failures, o) = 1..n /\ Len(Waits(failures, o)) = n
    BY <1>3, <1>7 DEF WaitsUpTo, Waiting, Growing
  <1>9. \A i \in 1..n : Waits(failures, o)[i] <= o.max /\ (i > 1 => Waits(failures, o)[i - 1] <= Waits(failures, o)[i])
    BY <1>3, <1>7 DEF WaitsUpTo, Growing
  <1>10. GivesUp(failures, o) <=> n < failures
    BY <1>2 DEF GivesUp, RetryOptions
  <1> QED
    BY <1>8, <1>9, <1>10 DEF BacksOff

Found == [hits : Nat, scanned : Nat]
VisitFile(c, acc, hits) ==
  IF acc.hits >= c.hits \/ acc.scanned >= c.files THEN acc
  ELSE [hits |-> Least(acc.hits + AtLeastZero(hits), c.hits), scanned |-> acc.scanned + 1]

SearchRun(h, files, c) ==
  /\ h \in [0..Len(files) -> Found]
  /\ h[0] = [hits |-> 0, scanned |-> 0]
  /\ \A k \in 1..Len(files) : h[k] = VisitFile(c, h[k - 1], files[k])
  /\ SearchText(files, c) = h[Len(files)]

\* The walk of a search, file by file.
LEMMA SearchRuns ==
  ASSUME NEW files \in Seq(Int), NEW c \in SearchCaps
  PROVE  \E h : SearchRun(h, files, c)
  <1> DEFINE n == Len(files)
             step == [k \in 1..n |-> [acc \in Found |-> VisitFile(c, acc, files[k])]]
             Eq(f) == f = [S \in SUBSET (1..n) |->
                             IF S = {} THEN [hits |-> 0, scanned |-> 0] ELSE VisitFile(c, f[S \ {Max(S)}], files[Max(S)])]
             F == CHOOSE f : Eq(f)
  <1>1. n \in Nat /\ DOMAIN files = 1..n /\ [hits |-> 0, scanned |-> 0] \in Found /\ (\A k \in 1..n : files[k] \in Int) /\ \A acc \in Found, x \in Int : VisitFile(c, acc, x) \in Found
    BY DEF VisitFile, Found, SearchCaps, Least, AtLeastZero
  <1>2. step \in [1..n -> [Found -> Found]]
    BY <1>1
  <1>3. \A S \in SUBSET (1..n) : S # {} => Max(S) \in 1..n /\ S \ {Max(S)} \in SUBSET (1..n)
    <2> TAKE S \in SUBSET (1..n)
    <2>1. S \subseteq 0..n
      BY <1>1
    <2> QED
      BY <1>1, <2>1, MaxIsGreatest
  <1>4. \E f : Eq(f)
    <2>1. PICK f : FoldOver(f, n, Found, [hits |-> 0, scanned |-> 0], step)
      <3> HIDE DEF step, n, Eq, F
      <3> QED
        BY <1>1, <1>2, FoldExists
    <2>2. Eq(f)
      BY <1>3, <2>1 DEF FoldOver
    <2> QED
      BY <2>2
  <1>5. Eq(F)
    <2> HIDE DEF Eq
    <2> QED
      BY <1>4
  <1>6. SearchText(files, c) = F[1..n]
    BY <1>1 DEF SearchText, VisitFile, FoldLeft, MapThenFoldSet
  <1>7. Outcome(F[1..n], n, Found, [hits |-> 0, scanned |-> 0], step)
    <2>1. FoldedBy(F, n, Found, [hits |-> 0, scanned |-> 0], step)
      <3>1. F[{}] = [hits |-> 0, scanned |-> 0]
        BY <1>5
      <3>2. ASSUME NEW S \in SUBSET (1..n), S # {}, F[S \ {Max(S)}] \in Found
            PROVE  F[S] = step[Max(S)][F[S \ {Max(S)}]]
        <4>1. F[S] = VisitFile(c, F[S \ {Max(S)}], files[Max(S)])
          BY <1>5, <3>2
        <4> HIDE DEF F
        <4> QED
          BY <1>3, <3>2, <4>1
      <3> HIDE DEF F, step
      <3> QED
        BY <3>1, <3>2 DEF FoldedBy
    <2> HIDE DEF step, F, n, Eq
    <2> QED
      BY <1>1, <1>2, <2>1, FoldIs
  <1>8. PICK h : Running(h, n, Found, [hits |-> 0, scanned |-> 0], step) /\ h[n] = F[1..n]
    <2> HIDE DEF step, F, n, Eq
    <2> QED
      BY <1>7 DEF Outcome
  <1>9. h \in [0..n -> Found] /\ h[0] = [hits |-> 0, scanned |-> 0] /\ \A k \in 1..n : h[k] = step[k][h[k - 1]]
    <2> HIDE DEF step, n
    <2> QED
      BY <1>8 DEF Running
  <1>10. ASSUME NEW k \in 1..n PROVE h[k] = VisitFile(c, h[k - 1], files[k])
    <2>1. k - 1 \in 0..n
      BY <1>1
    <2>2. h[k - 1] \in Found
      <3> HIDE DEF n
      <3> QED
        BY <1>9, <2>1
    <2> QED
      BY <1>9, <2>2
  <1>11. SearchRun(h, files, c)
    <2> HIDE DEF F
    <2> QED
      BY <1>6, <1>8, <1>9, <1>10 DEF SearchRun
  <1> QED
    BY <1>11

FoundUpTo(acc, H, c, k) ==
  /\ acc \in Found
  /\ acc.hits < c.hits => /\ acc.scanned = Least(k, c.files)
                          /\ acc.hits = H[Least(k, c.files)]

\* One more file keeps the count of the hits, until a cap is met.
LEMMA VisitKeepsCount ==
  ASSUME NEW c \in SearchCaps, NEW n \in Nat, NEW k \in 1..n, NEW acc, NEW H, NEW x \in Int,
         H[0] \in Int, k <= c.files => H[k] = H[k - 1] + AtLeastZero(x), FoundUpTo(acc, H, c, k - 1)
  PROVE  FoundUpTo(VisitFile(c, acc, x), H, c, k)
  <1>1. PICK a \in Nat, s \in Nat, m \in Nat, l \in Nat : acc = [hits |-> a, scanned |-> s] /\ c = [hits |-> m, files |-> l]
    BY DEF FoundUpTo, Found, SearchCaps
  <1>2. a < m => s = Least(k - 1, l) /\ a = H[Least(k - 1, l)]
    BY <1>1 DEF FoundUpTo
  <1>3. CASE a >= m \/ s >= l
    <2>1. VisitFile(c, acc, x) = acc
      BY <1>1, <1>3 DEF VisitFile
    <2>2. a < m => Least(k - 1, l) = Least(k, l)
      BY <1>2, <1>3 DEF Least
    <2> QED
      BY <1>1, <1>2, <2>1, <2>2 DEF FoundUpTo, Found
  <1>4. CASE ~ (a >= m \/ s >= l)
    <2>1. VisitFile(c, acc, x) = [hits |-> Least(a + AtLeastZero(x), m), scanned |-> s + 1]
      BY <1>1, <1>4 DEF VisitFile
    <2>2. s = k - 1 /\ a = H[k - 1] /\ k <= l /\ Least(k, l) = k
      BY <1>2, <1>4 DEF Least
    <2>3. AtLeastZero(x) \in Nat /\ H[k] = a + AtLeastZero(x)
      BY <1>1, <2>2 DEF AtLeastZero
    <2>4. Least(a + AtLeastZero(x), m) < m => Least(a + AtLeastZero(x), m) = a + AtLeastZero(x)
      BY <2>3 DEF Least
    <2>5. Least(a + AtLeastZero(x), m) \in Nat
      BY <2>3 DEF Least
    <2> QED
      BY <1>1, <2>1, <2>2, <2>3, <2>4, <2>5 DEF FoundUpTo, Found
  <1> QED
    BY <1>3, <1>4

\* A search that left out a hit of the files it may look at says that there is more.
LEMMA SearchIsComplete ==
  ASSUME NEW files \in Seq(Int), NEW c \in SearchCaps
  PROVE  SearchComplete(files, c, Answer(files, c))
  <1> DEFINE n == Len(files)
             l == Least(n, c.files)
             first == SubSeq(files, 1, l)
             numbers == [i \in DOMAIN first |-> AtLeastZero(first[i])]
  <1>1. n \in Nat /\ c.files \in Nat /\ c.hits \in Nat /\ l \in Nat /\ l <= n /\ l <= c.files /\ \A k \in 1..n : files[k] \in Int
    BY DEF SearchCaps, Least
  <1>2. first \in Seq(Int) /\ Len(first) = l /\ DOMAIN first = 1..l /\ \A i \in 1..l : first[i] = files[i]
    BY <1>1
  <1>3. numbers \in Seq(Int) /\ Len(numbers) = l /\ \A i \in 1..l : numbers[i] = AtLeastZero(files[i])
    <2> HIDE DEF first, l
    <2>1. \A i \in 1..l : AtLeastZero(first[i]) \in Int
      BY <1>1, <1>2 DEF AtLeastZero
    <2> QED
      BY <1>1, <1>2, <2>1
  <1> HIDE DEF numbers
  <1>4. PICK H : AddRun(H, numbers)
    BY <1>3, AddedRuns
  <1>5. PICK h : SearchRun(h, files, c)
    BY SearchRuns
  <1> HIDE DEF first, l, n
  <1>6. H[0] = 0 /\ (\A k \in 1..l : H[k] = H[k - 1] + numbers[k]) /\ Added(numbers) = H[l]
    BY <1>3, <1>4 DEF AddRun
  <1>7. /\ h[0] = [hits |-> 0, scanned |-> 0]
        /\ \A k \in 1..n : h[k] = VisitFile(c, h[k - 1], files[k])
        /\ SearchText(files, c) = h[n]
    BY <1>5 DEF SearchRun, n
  <1> DEFINE G == {k \in 0..n : FoundUpTo(h[k], H, c, k)}
  <1>8. 0 \in G
    BY <1>1, <1>6, <1>7 DEF FoundUpTo, Found, Least
  <1>9. ASSUME NEW k \in 1..n, k - 1 \in G PROVE k \in G
    <2>1. k <= c.files => H[k] = H[k - 1] + AtLeastZero(files[k])
      <3>1. k <= c.files => k \in 1..l
        BY <1>1 DEF l, Least
      <3> QED
        BY <1>3, <1>6, <3>1
    <2>2. files[k] \in Int /\ H[0] \in Int
      BY <1>1, <1>6
    <2>3. FoundUpTo(VisitFile(c, h[k - 1], files[k]), H, c, k)
      BY <1>1, <1>9, <2>1, <2>2, VisitKeepsCount
    <2> QED
      BY <1>1, <1>7, <2>3
  <1>10. 0..n \subseteq G
    <2> HIDE DEF G
    <2> QED
      BY <1>1, <1>8, <1>9, Stepwise
  <1>11. FoundUpTo(h[n], H, c, n)
    BY <1>1, <1>10
  <1>12. h[n].hits < c.hits => h[n].hits = Added(numbers)
    BY <1>6, <1>11 DEF FoundUpTo, l
  <1>13. h[n].hits \in Nat
    BY <1>11 DEF FoundUpTo, Found
  <1>14. SumOf(first, AtLeastZero) = Added(numbers)
    BY DEF SumOf, numbers
  <1> DEFINE a == Answer(files, c)
  <1>15. a.hits = h[n].hits /\ (~ a.more => h[n].hits < c.hits)
    <2>1. a.hits = h[n].hits /\ a.more = (h[n].hits >= c.hits)
      BY <1>7, Zenon DEF Answer
    <2>2. ~ a.more => ~ (h[n].hits >= c.hits)
      BY <2>1, Zenon
    <2>3. ~ (h[n].hits >= c.hits) => h[n].hits < c.hits
      BY <1>1, <1>13
    <2> HIDE DEF a
    <2> QED
      BY <2>1, <2>2, <2>3, Zenon
  <1>16. ~ a.more => a.hits = SumOf(first, AtLeastZero)
    BY <1>12, <1>14, <1>15
  <1> HIDE DEF a
  <1>17. ~ a.more => a.hits = SumOf(SubSeq(files, 1, Least(Len(files), c.files)), AtLeastZero)
    BY <1>16 DEF first, l, n
  <1> QED
    BY <1>17, Zenon DEF SearchComplete, a

(***************************************************************************)
(* Conversations                                                           *)
(***************************************************************************)
Marked(b, flag) == [b EXCEPT !.cached = flag]

\* The two flags.
LEMMA FlagsAre == TRUE \in Flags /\ FALSE \in Flags
  BY DEF Flags

\* A block that is made is a block.
LEMMA BlockIs ==
  ASSUME NEW ty \in Types, NEW id \in Nat, NEW nm \in Names
  PROVE  /\ Block(ty, id, nm) \in Blocks
         /\ Block(ty, id, nm).type = ty /\ Block(ty, id, nm).id = id
         /\ Block(ty, id, nm).cached = FALSE
  BY FlagsAre DEF Block, Blocks

\* A text block and a string.
LEMMA TextIs == /\ Text \in Blocks /\ Text.id = 0 /\ Text.type = "text"
                /\ Str \in Blocks /\ Str.id = 0 /\ Str.type = "string"
  <1>1. "text" \in Types /\ "string" \in Types /\ 0 \in Nat
    BY DEF Types
  <1>2. "" \in Names
    BY Zenon DEF Names
  <1> QED
    BY <1>1, <1>2, BlockIs DEF Text, Str

\* A message with another content.
LEMMA WithContent ==
  ASSUME NEW m \in Messages, NEW s \in Seq(Blocks)
  PROVE  [m EXCEPT !.content = s] \in Messages /\ [m EXCEPT !.content = s].role = m.role
         /\ [m EXCEPT !.content = s].content = s
  BY DEF Messages

\* A block with another marker.
LEMMA MarkedIs ==
  ASSUME NEW b \in Blocks, NEW flag \in Flags
  PROVE  /\ Marked(b, flag) \in Blocks
         /\ Marked(b, flag).type = b.type /\ Marked(b, flag).id = b.id /\ Marked(b, flag).name = b.name
         /\ Marked(b, flag).cached = flag
  BY DEF Marked, Blocks

\* MarkLast changes nothing but markers, and marks the last.
LEMMA MarkLastIs ==
  ASSUME NEW s \in Seq(Blocks)
  PROVE  /\ MarkLast(s) \in Seq(Blocks) /\ Len(MarkLast(s)) = Len(s)
         /\ \A i \in 1..Len(s) : /\ MarkLast(s)[i].type = s[i].type /\ MarkLast(s)[i].id = s[i].id
                                 /\ MarkLast(s)[i].cached <=> i = Len(s)
  <1> DEFINE n == Len(s)
             t == [i \in 1..n |-> Marked(s[i], i = n)]
  <1>1. n \in Nat /\ DOMAIN s = 1..n /\ \A i \in 1..n : s[i] \in Blocks
    OBVIOUS
  <1>2. \A i \in 1..n : (i = n) \in Flags
    BY Zenon DEF Flags
  <1>3. \A i \in 1..n : /\ t[i] \in Blocks /\ t[i].type = s[i].type /\ t[i].id = s[i].id
                        /\ t[i].cached = (i = n)
    BY <1>1, <1>2, MarkedIs, Zenon
  <1>4. MarkLast(s) = t
    BY <1>1, Zenon DEF MarkLast, Marked
  <1>5. \A i \in 1..n : t[i].cached <=> i = n
    BY <1>3, Zenon
  <1>6. t = [i \in 1..n |-> t[i]]
    BY Zenon
  <1> HIDE DEF t
  <1>7. t \in Seq(Blocks) /\ Len(t) = n
    <2>1. t \in [1..n -> Blocks]
      BY <1>3, <1>6, Zenon
    <2> QED
      BY <1>1, <2>1
  <1> QED
    BY <1>3, <1>4, <1>5, <1>7, Zenon

\* Bare changes nothing but markers, and leaves none.
LEMMA BareIs ==
  ASSUME NEW m \in Messages
  PROVE  /\ Bare(m) \in Messages /\ Bare(m).role = m.role /\ Len(Bare(m).content) = Len(m.content)
         /\ \A j \in 1..Len(m.content) : /\ Bare(m).content[j].type = m.content[j].type
                                         /\ Bare(m).content[j].id = m.content[j].id
                                         /\ ~ Bare(m).content[j].cached
  <1> DEFINE s == m.content
             n == Len(s)
             t == [i \in 1..n |-> Marked(s[i], FALSE)]
  <1>1. s \in Seq(Blocks) /\ n \in Nat /\ DOMAIN s = 1..n /\ \A i \in 1..n : s[i] \in Blocks
    BY DEF Messages
  <1>2. \A i \in 1..n : /\ t[i] \in Blocks /\ t[i].type = s[i].type /\ t[i].id = s[i].id
                        /\ t[i].cached = FALSE
    BY <1>1, FlagsAre, MarkedIs, Zenon
  <1>3. t \in Seq(Blocks) /\ Len(t) = n
    <2>1. t \in [1..n -> Blocks]
      BY <1>2
    <2> HIDE DEF t, n
    <2> QED
      BY <1>1, <2>1, SeqIs
  <1>4. Bare(m) = [m EXCEPT !.content = t]
    BY <1>1, Zenon DEF Bare, Marked
  <1> HIDE DEF t
  <1>5. Bare(m) \in Messages /\ Bare(m).role = m.role /\ Bare(m).content = t
    BY <1>3, <1>4 DEF Messages
  <1>6. \A j \in 1..n : t[j].type = s[j].type /\ t[j].id = s[j].id /\ ~ t[j].cached
    BY <1>2, Zenon
  <1> QED
    BY <1>3, <1>5, <1>6

\* The same message, with or without the marker and the block made for it.
Alike(m, w) ==
  /\ w.role = m.role /\ Len(w.content) = Len(m.content)
  /\ \A j \in 1..Len(m.content) :
       /\ w.content[j].id = m.content[j].id
       /\ \/ w.content[j].type = m.content[j].type
          \/ m.content[j].type = "string" /\ w.content[j].type = "text"

\* What the cache marker changes of a conversation.
LEMMA CacheIs ==
  ASSUME NEW ms \in Seq(Messages), ms # <<>>, NEW c, c = WithRollingCache(ms)
  PROVE  /\ c \in Seq(Messages) /\ Len(c) = Len(ms)
         /\ \A i \in 1..Len(ms) :
              /\ c[i] \in Messages /\ Alike(ms[i], c[i])
              /\ \A j \in 1..Len(ms[i].content) : c[i].content[j].cached <=> i = Len(ms) /\ j = Len(ms[i].content)
  <1> DEFINE n == Len(ms)
             bare == [i \in 1..n |-> Bare(ms[i])]
             last == bare[n]
             blocks == IF last.content = <<Str>> THEN <<Text>> ELSE last.content
             end == [last EXCEPT !.content = MarkLast(blocks)]
  <1>1. /\ n \in Nat /\ n >= 1 /\ DOMAIN ms = 1..n /\ Len(ms) = n
        /\ \A i \in 1..n : ms[i] \in Messages
        /\ \A i \in 1..n : i # n => i \in 1..(n - 1)
        /\ n \in 1..n /\ n - 1 \in Nat /\ \A i \in 1..(n - 1) : i \in 1..n /\ i # n
    OBVIOUS
  <1>2. bare \in Seq(Messages) /\ Len(bare) = n
    <2>1. bare \in [1..n -> Messages]
      BY <1>1, BareIs
    <2> HIDE DEF bare, n
    <2> QED
      BY <1>1, <2>1, SeqIs
  <1>3. c = Append(Front(bare), end)
    <2>1. Last(bare) = last
      BY <1>2 DEF Last
    <2> QED
      BY <1>1, <2>1 DEF WithRollingCache
  <1>4. \A i \in 1..n : bare[i] = Bare(ms[i])
    OBVIOUS
  <1> HIDE DEF bare, n
  <1>5. PICK w \in Seq(Blocks) : w = ms[n].content
    BY <1>1 DEF Messages
  <1>6. last \in Messages /\ last = Bare(ms[n]) /\ ms[n] \in Messages
    BY <1>1, <1>2, <1>4
  <1>7. PICK b \in Seq(Blocks) : b = last.content
    BY <1>6 DEF Messages
  <1>8. last.role = ms[n].role /\ Len(b) = Len(w) /\ \A j \in 1..Len(w) : b[j].type = w[j].type /\ b[j].id = w[j].id
    BY <1>5, <1>6, <1>7, BareIs
  <1>10. /\ blocks \in Seq(Blocks) /\ Len(blocks) = Len(w)
         /\ \A j \in 1..Len(w) :
              /\ blocks[j].id = w[j].id
              /\ blocks[j].type = w[j].type \/ (w[j].type = "string" /\ blocks[j].type = "text")
    <2>1. CASE b = <<Str>>
      <3>0. Len(b) = 1 /\ b[1] = Str
        BY <2>1
      <3>1. Len(w) = 1 /\ w[1].id = 0 /\ w[1].type = "string"
        BY <1>8, TextIs, <3>0
      <3>2. blocks = <<Text>>
        BY <1>7, <2>1
      <3>3. blocks \in Seq(Blocks) /\ Len(blocks) = 1 /\ blocks[1] = Text
        BY <3>2, SingleIs, TextIs
      <3> HIDE DEF blocks
      <3>4. \A j \in 1..1 : j = 1
        OBVIOUS
      <3> QED
        BY TextIs, <3>1, <3>3, <3>4
    <2>2. CASE b # <<Str>>
      <3>1. blocks = b
        BY <1>7, <2>2
      <3> HIDE DEF blocks
      <3> QED
        BY <1>8, <3>1
    <2> QED
      BY <2>1, <2>2
  <1> HIDE DEF blocks
  <1> DEFINE v == MarkLast(blocks)
  <1>11. /\ v \in Seq(Blocks) /\ Len(v) = Len(w)
         /\ \A j \in 1..Len(w) : v[j].id = blocks[j].id /\ v[j].type = blocks[j].type /\ (v[j].cached <=> j = Len(w))
    BY <1>10, MarkLastIs
  <1> HIDE DEF v
  <1>12. end \in Messages /\ end.role = ms[n].role /\ end.content = v
    <2>1. end = [last EXCEPT !.content = v]
      BY DEF v
    <2> HIDE DEF end
    <2> QED
      BY <1>6, <1>8, <1>11, <2>1, WithContent
  <1> HIDE DEF end, last
  <1> DEFINE f == Front(bare)
  <1>13. f \in Seq(Messages) /\ Len(f) = n - 1 /\ \A i \in 1..(n - 1) : f[i] = bare[i]
    BY <1>1, <1>2 DEF Front
  <1> HIDE DEF f
  <1>14. c \in Seq(Messages) /\ Len(c) = n /\ c[n] = end /\ \A i \in 1..(n - 1) : c[i] = Bare(ms[i])
    <2>1. c = Append(f, end)
      BY <1>3 DEF f
    <2>2. /\ Append(f, end) \in Seq(Messages) /\ Len(Append(f, end)) = (n - 1) + 1
          /\ Append(f, end)[(n - 1) + 1] = end /\ \A i \in 1..(n - 1) : Append(f, end)[i] = f[i]
      BY <1>12, <1>13
    <2> QED
      BY <1>1, <1>4, <1>13, <2>1, <2>2
  <1>15. ASSUME NEW i \in 1..n
         PROVE  /\ c[i].role = ms[i].role /\ Len(c[i].content) = Len(ms[i].content)
                /\ \A j \in 1..Len(ms[i].content) :
                     /\ c[i].content[j].id = ms[i].content[j].id
                     /\ \/ c[i].content[j].type = ms[i].content[j].type
                        \/ ms[i].content[j].type = "string" /\ c[i].content[j].type = "text"
                     /\ c[i].content[j].cached <=> i = n /\ j = Len(ms[i].content)
    <2>1. CASE i = n
      <3>1. c[i] = end /\ ms[i].content = w /\ end.content = v /\ end.role = ms[i].role
        BY <1>5, <1>12, <1>14, <2>1
      <3> QED
        BY <1>10, <1>11, <2>1, <3>1
    <2>2. CASE i # n
      <3>1. i \in 1..(n - 1) /\ ms[i] \in Messages
        BY <1>1, <2>2
      <3>2. PICK m \in Messages : m = ms[i]
        BY <3>1
      <3>3. /\ Bare(m).role = m.role /\ Len(Bare(m).content) = Len(m.content)
            /\ \A j \in 1..Len(m.content) : /\ Bare(m).content[j].type = m.content[j].type
                                            /\ Bare(m).content[j].id = m.content[j].id
                                            /\ ~ Bare(m).content[j].cached
        BY BareIs
      <3>4. c[i] = Bare(m)
        BY <1>14, <3>1, <3>2
      <3> QED
        BY <2>2, <3>2, <3>3, <3>4
    <2> QED
      BY <2>1, <2>2
  <1>16. \A i \in 1..n : Alike(ms[i], c[i])
    BY <1>15 DEF Alike
  <1>17. \A i \in 1..n : c[i] \in Messages
    BY <1>14, ElementIs
  <1> QED
    BY <1>1, <1>14, <1>15, <1>16, <1>17

Uses(m) == OfType(m, "tool_use")
OnlyEmits(m) == (\E i \in DOMAIN Uses(m) : Uses(m)[i].name = "emit") => Len(Uses(m)) = 1

\* A conversation with a last block has its one marker there.
LEMMA OneMarkerIs ==
  ASSUME NEW ms \in Seq(Messages), ms # <<>>, ms[Len(ms)].content # <<>>
  PROVE  OneMarker(WithRollingCache(ms))
  <1> DEFINE c == WithRollingCache(ms)
             n == Len(ms)
             m == Len(ms[n].content)
             At(i) == {j \in DOMAIN c[i].content : c[i].content[j].cached}
  <1>1. /\ c \in Seq(Messages) /\ Len(c) = n
        /\ \A i \in 1..n :
              /\ Len(c[i].content) = Len(ms[i].content)
              /\ \A j \in 1..Len(ms[i].content) : c[i].content[j].cached <=> i = n /\ j = Len(ms[i].content)
    BY CacheIs DEF Alike
  <1> HIDE DEF c
  <1>c. \A i \in 1..n : c[i] \in Messages
    BY <1>1
  <1>2. n \in Nat /\ n \in 1..n /\ m \in Nat /\ m \in 1..m /\ DOMAIN c = 1..n
    <2>1. n \in Nat /\ n \in 1..n /\ ms[n] \in Messages
      OBVIOUS
    <2>2. PICK w \in Seq(Blocks) : w = ms[n].content /\ w # <<>>
      BY <2>1 DEF Messages
    <2>3. Len(w) \in Nat /\ Len(w) \in 1..Len(w)
      BY <2>2
    <2>4. DOMAIN c = 1..Len(c)
      BY <1>1
    <2> HIDE DEF n
    <2> QED
      BY <1>1, <2>1, <2>2, <2>3, <2>4
  <1>3. \A i \in 1..n : DOMAIN c[i].content = 1..Len(ms[i].content)
    <2> TAKE i \in 1..n
    <2> HIDE DEF n
    <2>1. PICK w \in Seq(Blocks) : w = c[i].content
      BY <1>c DEF Messages
    <2>2. DOMAIN w = 1..Len(w)
      OBVIOUS
    <2> QED
      BY <1>1, <2>1, <2>2
  <1>4. Len(Last(c).content) = m /\ Len(c) = n
    <2> HIDE DEF n
    <2>1. Last(c) = c[n]
      BY <1>1 DEF Last
    <2> QED
      BY <1>1, <1>2, <2>1
  <1>5. \A i \in 1..n : At(i) = IF i = n THEN {m} ELSE {}
    <2> TAKE i \in 1..n
    <2>1. \A j \in DOMAIN c[i].content : c[i].content[j].cached <=> i = n /\ j = m
      BY <1>1, <1>3
    <2>2. i = n => m \in DOMAIN c[i].content
      BY <1>2, <1>3
    <2> QED
      BY <2>1, <2>2
  <1>6. UNION {{i} \X At(i) : i \in DOMAIN c} = {<<n, m>>}
    <2> HIDE DEF At, n, m
    <2> QED
      BY <1>2, <1>5
  <1> QED
    BY <1>4, <1>6 DEF OneMarker, c

\* A result has the id of its call.
LEMMA ToolResultIs ==
  ASSUME NEW use \in Blocks, NEW e \in Flags
  PROVE  /\ ToolResult(use, e) \in Blocks
         /\ ToolResult(use, e).type = "tool_result" /\ ToolResult(use, e).id = use.id
  <1>1. use.id \in Nat /\ "tool_result" \in Types /\ "" \in Names
    <2>1. "" \in Names
      BY Zenon DEF Names
    <2> QED
      BY <2>1 DEF Blocks, Types
  <1>2. Block("tool_result", use.id, "") \in Blocks
    BY <1>1, BlockIs
  <1>3. ToolResult(use, e) = [Block("tool_result", use.id, "") EXCEPT !.error = e]
    BY DEF ToolResult
  <1>4. Block("tool_result", use.id, "").type = "tool_result" /\ Block("tool_result", use.id, "").id = use.id
    BY DEF Block
  <1>5. [Block("tool_result", use.id, "") EXCEPT !.error = e] \in Blocks
    BY <1>2 DEF Blocks
  <1> QED
    BY <1>2, <1>3, <1>4, <1>5 DEF Blocks

\* The blocks of a type are picked by position.
LEMMA UsesAre ==
  ASSUME NEW s \in Seq(Blocks), NEW m, m.content = s, NEW ty
  PROVE  /\ OfType(m, ty) = Picked(s, {i \in 1..Len(s) : s[i].type = ty})
         /\ OfType(m, ty) \in Seq(Blocks)
         /\ \A i \in 1..Len(OfType(m, ty)) : OfType(m, ty)[i].type = ty
  <1> DEFINE I == {i \in 1..Len(s) : s[i].type = ty}
  <1>1. OfType(m, ty) = Picked(s, I)
    <2>1. OfType(m, ty) = Picked(s, {i \in DOMAIN s : s[i].type = ty})
      BY Zenon DEF OfType, Select
    <2>2. DOMAIN s = 1..Len(s)
      OBVIOUS
    <2> QED
      BY <2>1, <2>2
  <1>2. Picked(s, I) \in Seq(Blocks)
    BY PickedIs
  <1>3. PICK at : Placed(at, Picked(s, I), s, I, Len(s))
    BY PickedIs
  <1>4. \A p \in 1..Len(Picked(s, I)) : Picked(s, I)[p].type = ty
    BY <1>3 DEF Placed
  <1> HIDE DEF I
  <1>5. OfType(m, ty) \in Seq(Blocks) /\ \A i \in 1..Len(OfType(m, ty)) : OfType(m, ty)[i].type = ty
    BY <1>1, <1>2, <1>4
  <1> QED
    BY <1>1, <1>5 DEF I

\* runTools answers each call in its place.
LEMMA RunToolsIs ==
  ASSUME NEW uses \in Seq(Blocks)
  PROVE  /\ RunTools(uses) \in Seq(Blocks) /\ Len(RunTools(uses)) = Len(uses)
         /\ \A i \in 1..Len(uses) : RunTools(uses)[i].type = "tool_result" /\ RunTools(uses)[i].id = uses[i].id
  <1> DEFINE n == Len(uses)
             t == [i \in 1..n |-> ToolResult(uses[i], uses[i].name # "graph")]
  <1>1. n \in Nat /\ DOMAIN uses = 1..n /\ \A i \in 1..n : uses[i] \in Blocks
    OBVIOUS
  <1>2. \A i \in 1..n : (uses[i].name # "graph") \in Flags
    BY Zenon DEF Flags
  <1>3. \A i \in 1..n : t[i] \in Blocks /\ t[i].type = "tool_result" /\ t[i].id = uses[i].id
    BY <1>1, <1>2, ToolResultIs, Zenon
  <1>4. RunTools(uses) = t
    BY <1>1, Zenon DEF RunTools
  <1>5. t \in [1..n -> Blocks]
    BY <1>3, Zenon
  <1> HIDE DEF t
  <1> QED
    BY <1>1, <1>3, <1>4, <1>5, SeqIs

\* What follows an answer: as many results as it asked for, one for an emit, or a nudge.
LEMMA ReplyIs ==
  ASSUME NEW a \in Answers
  PROVE  /\ Reply(a) \in Messages /\ Reply(a).role = "user"
         /\ \/ Uses(a) = <<>> /\ Reply(a).content = <<Str>>
            \/ /\ Uses(a) # <<>> /\ \E i \in DOMAIN Uses(a) : Uses(a)[i].name = "emit"
               /\ \E u \in ToSet(Uses(a)) : Reply(a).content = <<ToolResult(u, TRUE)>>
            \/ Uses(a) # <<>> /\ Reply(a).content = RunTools(Uses(a))
  <1> DEFINE uses == Uses(a)
             I == {i \in 1..Len(uses) : uses[i].name = "emit"}
             emits == Picked(uses, I)
  <1>1. uses \in Seq(Blocks) /\ uses = OfType(a, "tool_use")
    BY UsesAre DEF Answers, Uses
  <1> HIDE DEF uses
  <1>2. Select(uses, LAMBDA u : u.name = "emit") = emits
    <2>1. Select(uses, LAMBDA u : u.name = "emit") = Picked(uses, {i \in DOMAIN uses : uses[i].name = "emit"})
      BY Zenon DEF Select
    <2>2. DOMAIN uses = 1..Len(uses)
      BY <1>1
    <2> QED
      BY <2>1, <2>2
  <1>3. \A s \in Seq(Blocks) : Msg("user", s) \in Messages /\ Msg("user", s).role = "user" /\ Msg("user", s).content = s
    BY DEF Msg, Messages, Roles
  <1>4. CASE uses = <<>>
    <2>1. Reply(a) = Msg("user", <<Str>>)
      BY <1>1, <1>4 DEF Reply
    <2>2. <<Str>> \in Seq(Blocks)
      BY TextIs, SingleIs
    <2> QED
      BY <1>3, <1>4, <2>1, <2>2 DEF uses
  <1>5. CASE uses # <<>> /\ emits # <<>>
    <2>1. Reply(a) = Msg("user", <<ToolResult(emits[1], TRUE)>>)
      <3> HIDE DEF emits
      <3> QED
        BY <1>1, <1>2, <1>5 DEF Reply
    <2>2. PICK at : Placed(at, emits, uses, I, Len(uses))
      BY <1>1, PickedIs
    <2>3. emits \in Seq(Blocks)
      BY <1>1, PickedIs
    <2>4. 1 \in 1..Len(emits)
      BY <1>5, <2>3
    <2>5. at[1] \in 1..Len(uses) /\ at[1] \in I /\ emits[1] = uses[at[1]]
      BY <2>2, <2>4 DEF Placed
    <2>6. emits[1] \in Blocks /\ emits[1] \in ToSet(uses) /\ uses[at[1]].name = "emit" /\ at[1] \in DOMAIN uses
      <3>1. PICK q \in 1..Len(uses) : q = at[1] /\ uses[q].name = "emit" /\ emits[1] = uses[q]
        BY <2>5
      <3>2. uses[q] \in Blocks /\ uses[q] \in ToSet(uses) /\ q \in DOMAIN uses
        BY <1>1 DEF ToSet
      <3> HIDE DEF emits, I
      <3> QED
        BY <3>1, <3>2
    <2> HIDE DEF emits
    <2>7. <<ToolResult(emits[1], TRUE)>> \in Seq(Blocks)
      BY <2>6, FlagsAre, ToolResultIs, SingleIs
    <2> QED
      BY <1>3, <1>5, <2>1, <2>6, <2>7 DEF uses
  <1>6. CASE uses # <<>> /\ emits = <<>>
    <2>1. Reply(a) = Msg("user", RunTools(uses))
      <3> HIDE DEF emits
      <3> QED
        BY <1>1, <1>2, <1>6 DEF Reply
    <2>2. RunTools(uses) \in Seq(Blocks)
      BY <1>1, RunToolsIs
    <2> HIDE DEF emits
    <2> QED
      BY <1>3, <1>6, <2>1, <2>2 DEF uses
  <1> QED
    BY <1>4, <1>5, <1>6

\* A list of pairs, flattened, holds them at 2 j - 1 and 2 j.
LEMMA TwoEach ==
  ASSUME NEW A, NEW ss \in Seq(Seq(A)), \A j \in 1..Len(ss) : Len(ss[j]) = 2
  PROVE  /\ FlattenSeq(ss) \in Seq(A) /\ Len(FlattenSeq(ss)) = 2 * Len(ss)
         /\ \A j \in 1..Len(ss) : FlattenSeq(ss)[2 * j - 1] = ss[j][1] /\ FlattenSeq(ss)[2 * j] = ss[j][2]
  <1> DEFINE n == Len(ss)
             flat == FlattenSeq(ss)
  <1>1. flat \in Seq(A) /\ n \in Nat
    BY FlattenIs
  <1>2. PICK off : Laid(off, flat, ss, n)
    BY FlattenIs
  <1>3. /\ off \in [0..n -> Nat] /\ off[0] = 0 /\ off[n] = Len(flat)
        /\ \A j \in 1..n : off[j] = off[j - 1] + 2
        /\ \A j \in 1..n : \A p \in 1..2 : flat[off[j - 1] + p] = ss[j][p]
    BY <1>2 DEF Laid
  <1> HIDE DEF n, flat
  <1> DEFINE G == {k \in 0..n : off[k] = 2 * k}
  <1>4. 0 \in G
    BY <1>1, <1>3
  <1>5. ASSUME NEW k \in 1..n, k - 1 \in G PROVE k \in G
    BY <1>1, <1>3, <1>5
  <1>6. 0..n \subseteq G
    <2> HIDE DEF G
    <2> QED
      BY <1>1, <1>4, <1>5, Stepwise
  <1>7. Len(flat) = 2 * n
    BY <1>1, <1>3, <1>6
  <1>8. ASSUME NEW j \in 1..n PROVE flat[2 * j - 1] = ss[j][1] /\ flat[2 * j] = ss[j][2]
    <2>1. j - 1 \in 0..n /\ j \in Nat
      BY <1>1
    <2>2. off[j - 1] = 2 * (j - 1)
      BY <1>6, <2>1
    <2>3. off[j - 1] + 1 = 2 * j - 1 /\ off[j - 1] + 2 = 2 * j
      BY <2>1, <2>2
    <2>4. flat[off[j - 1] + 1] = ss[j][1] /\ flat[off[j - 1] + 2] = ss[j][2]
      BY <1>3
    <2> QED
      BY <2>3, <2>4
  <1> QED
    BY <1>1, <1>7, <1>8 DEF n, flat

\* The first message, then each answer and what follows it.
LEMMA ConversationIs ==
  ASSUME NEW answers \in Seq(Answers)
  PROVE  /\ Conversation(answers) \in Seq(Messages) /\ Len(Conversation(answers)) = 2 * Len(answers) + 1
         /\ Conversation(answers)[1].role = "user" /\ Conversation(answers)[1].content = <<Str>>
         /\ \A j \in 1..Len(answers) : /\ Conversation(answers)[2 * j] = answers[j]
                                       /\ Conversation(answers)[2 * j + 1] = Reply(answers[j])
  <1> DEFINE n == Len(answers)
             ss == [j \in 1..n |-> <<answers[j], Reply(answers[j])>>]
             first == <<Msg("user", <<Str>>)>>
             flat == FlattenSeq(ss)
  <1>1. n \in Nat /\ DOMAIN answers = 1..n /\ \A j \in 1..n : answers[j] \in Messages /\ Reply(answers[j]) \in Messages
    <2>1. \A j \in 1..n : answers[j] \in Answers
      OBVIOUS
    <2>2. Answers \subseteq Messages
      BY DEF Answers, Messages, Roles
    <2>3. \A j \in 1..n : Reply(answers[j]) \in Messages
      BY <2>1, ReplyIs
    <2>4. n \in Nat /\ DOMAIN answers = 1..n
      OBVIOUS
    <2> QED
      BY <2>1, <2>2, <2>3, <2>4
  <1>2. /\ ss \in Seq(Seq(Messages)) /\ Len(ss) = n
        /\ \A j \in 1..n : Len(ss[j]) = 2 /\ ss[j][1] = answers[j] /\ ss[j][2] = Reply(answers[j])
    <2>1. ss \in [1..n -> Seq(Messages)]
      BY <1>1
    <2>2. \A j \in 1..n : Len(ss[j]) = 2 /\ ss[j][1] = answers[j] /\ ss[j][2] = Reply(answers[j])
      OBVIOUS
    <2> HIDE DEF ss, n
    <2> QED
      BY <1>1, <2>1, <2>2, SeqIs
  <1>3. Conversation(answers) = first \o flat
    BY <1>1 DEF Conversation
  <1> HIDE DEF ss
  <1>4. /\ flat \in Seq(Messages) /\ Len(flat) = 2 * n
        /\ \A j \in 1..n : flat[2 * j - 1] = answers[j] /\ flat[2 * j] = Reply(answers[j])
    BY <1>2, TwoEach
  <1>5. Msg("user", <<Str>>) \in Messages /\ Msg("user", <<Str>>).role = "user" /\ Msg("user", <<Str>>).content = <<Str>>
    <2>1. <<Str>> \in Seq(Blocks)
      BY TextIs, SingleIs
    <2> QED
      BY <2>1 DEF Msg, Messages, Roles
  <1>6. first \in Seq(Messages) /\ Len(first) = 1 /\ first[1] = Msg("user", <<Str>>)
    BY <1>5, SingleIs
  <1> HIDE DEF first, flat, n
  <1>7. /\ first \o flat \in Seq(Messages) /\ Len(first \o flat) = 2 * n + 1
        /\ (first \o flat)[1] = first[1]
        /\ \A p \in 1..(2 * n) : (first \o flat)[1 + p] = flat[p]
    <2>1. /\ first \o flat \in Seq(Messages) /\ Len(first \o flat) = Len(first) + Len(flat)
          /\ \A p \in 1..Len(first) : (first \o flat)[p] = first[p]
          /\ \A p \in 1..Len(flat) : (first \o flat)[Len(first) + p] = flat[p]
      <3>1. first \in Seq(Messages) /\ flat \in Seq(Messages)
        BY <1>4, <1>6
      <3> QED
        BY <3>1, ConcatIs
    <2>2. 1 + 2 * n = 2 * n + 1 /\ 1 \in 1..1
      BY <1>1
    <2> QED
      BY <1>4, <1>6, <2>1, <2>2
  <1>8. ASSUME NEW j \in 1..n
        PROVE  (first \o flat)[2 * j] = answers[j] /\ (first \o flat)[2 * j + 1] = Reply(answers[j])
    <2>1. 2 * j - 1 \in 1..(2 * n) /\ 2 * j \in 1..(2 * n) /\ 1 + (2 * j - 1) = 2 * j /\ 1 + 2 * j = 2 * j + 1
      BY <1>1
    <2>2. (first \o flat)[1 + (2 * j - 1)] = flat[2 * j - 1] /\ (first \o flat)[1 + 2 * j] = flat[2 * j]
      BY <1>7, <2>1
    <2> QED
      BY <1>4, <2>1, <2>2
  <1> QED
    BY <1>3, <1>5, <1>6, <1>7, <1>8 DEF n

Outs == [role : {"system", "user", "assistant", "tool"}, calls : Seq(Nat), answers : Nat, error : Flags]

\* A message of the dialect is one.
LEMMA OutIs ==
  ASSUME NEW r \in {"system", "user", "assistant", "tool"}, NEW calls \in Seq(Nat), NEW a \in Nat
  PROVE  /\ Out(r, calls, a) \in Outs
         /\ Out(r, calls, a).role = r /\ Out(r, calls, a).calls = calls /\ Out(r, calls, a).answers = a
  BY FlagsAre DEF Out, Outs

\* So is one that makes no calls.
LEMMA PlainOut ==
  ASSUME NEW r \in {"system", "user", "assistant", "tool"}, NEW a \in Nat
  PROVE  Out(r, <<>>, a) \in Outs /\ Out(r, <<>>, a).role = r /\ Out(r, <<>>, a).answers = a
  <1>1. <<>> \in Seq(Nat)
    OBVIOUS
  <1> QED
    BY <1>1, FlagsAre DEF Out, Outs

\* An answer of the model becomes one message with the ids of its calls.
LEMMA TranslatedAnswer ==
  ASSUME NEW m \in Messages, m.role = "assistant"
  PROVE  /\ Translated(m) \in Seq(Outs) /\ Len(Translated(m)) = 1
         /\ Translated(m)[1].role = "assistant" /\ Len(Translated(m)[1].calls) = Len(Uses(m))
         /\ \A i \in 1..Len(Uses(m)) : Translated(m)[1].calls[i] = Uses(m)[i].id
  <1> DEFINE uses == Uses(m)
             n == Len(uses)
             ids == [i \in 1..n |-> uses[i].id]
  <1>1. uses \in Seq(Blocks) /\ uses = OfType(m, "tool_use")
    BY UsesAre DEF Messages, Uses
  <1>2. n \in Nat /\ DOMAIN uses = 1..n /\ \A i \in 1..n : uses[i] \in Blocks
    BY <1>1, ElementIs
  <1> HIDE DEF uses, n
  <1>3. ids \in [1..n -> Nat]
    BY <1>2 DEF Blocks
  <1>4. \A i \in 1..n : ids[i] = uses[i].id
    OBVIOUS
  <1>5. Translated(m) = <<Out("assistant", ids, 0)>>
    BY <1>1, <1>2 DEF Translated
  <1> HIDE DEF ids
  <1>6. ids \in Seq(Nat) /\ Len(ids) = n
    BY <1>2, <1>3, SeqIs
  <1>7. Out("assistant", ids, 0) \in Outs /\ Out("assistant", ids, 0).role = "assistant" /\ Out("assistant", ids, 0).calls = ids
    BY <1>6, OutIs
  <1>8. Translated(m) \in Seq(Outs) /\ Len(Translated(m)) = 1 /\ Translated(m)[1] = Out("assistant", ids, 0)
    BY <1>5, <1>7, SingleIs
  <1> QED
    BY <1>4, <1>6, <1>7, <1>8 DEF n, uses

\* The texts of a message are picked by position.
LEMMA TextsAre ==
  ASSUME NEW s \in Seq(Blocks), NEW m, m.content = s
  PROVE  Select(m.content, LAMBDA b : b.type \in {"text", "string"}) = Picked(s, {i \in 1..Len(s) : s[i].type \in {"text", "string"}})
  <1>1. Select(m.content, LAMBDA b : b.type \in {"text", "string"}) = Picked(s, {i \in DOMAIN s : s[i].type \in {"text", "string"}})
    BY Zenon DEF Select
  <1> QED
    BY <1>1, ElementIs

\* Results become one message each, a nudge one of the user.
LEMMA TranslatedResults ==
  ASSUME NEW m \in Messages, m.role = "user", \A i \in 1..Len(m.content) : m.content[i].type = "tool_result"
  PROVE  /\ Translated(m) \in Seq(Outs) /\ Len(Translated(m)) = Len(m.content)
         /\ \A i \in 1..Len(m.content) : Translated(m)[i].role = "tool" /\ Translated(m)[i].answers = m.content[i].id
  <1> DEFINE Sent(b) == [Out("tool", <<>>, b.id) EXCEPT !.error = b.error]
  <1>1. PICK s \in Seq(Blocks) : s = m.content
    BY DEF Messages
  <1> DEFINE n == Len(s)
             t == [i \in 1..n |-> Sent(s[i])]
  <1>2. n \in Nat /\ DOMAIN s = 1..n /\ \A i \in 1..n : s[i] \in Blocks /\ s[i].type = "tool_result"
    BY <1>1, ElementIs
  <1>3. OfType(m, "tool_result") = s
    <2>1. OfType(m, "tool_result") = Picked(s, {i \in 1..Len(s) : s[i].type = "tool_result"})
      BY <1>1, UsesAre
    <2>2. 1..Len(s) \subseteq {i \in 1..Len(s) : s[i].type = "tool_result"}
      BY <1>2
    <2> QED
      BY <2>1, <2>2, PickedAll
  <1>4. Select(m.content, LAMBDA b : b.type \in {"text", "string"}) = <<>>
    <2>1. \A i \in 1..Len(s) : i \notin {j \in 1..Len(s) : s[j].type \in {"text", "string"}}
      BY <1>2
    <2> QED
      BY <1>1, <2>1, TextsAre, PickedNone
  <1> HIDE DEF n
  <1>5. Translated(m) = t \o <<>>
    BY <1>2, <1>3, <1>4 DEF Translated
  <1>6. ASSUME NEW i \in 1..n PROVE t[i] \in Outs /\ t[i].role = "tool" /\ t[i].answers = s[i].id
    <2>1. s[i].id \in Nat /\ s[i].error \in Flags /\ <<>> \in Seq(Nat)
      BY <1>2 DEF Blocks
    <2> DEFINE o == Out("tool", <<>>, s[i].id)
    <2>2. o \in Outs /\ o.role = "tool" /\ o.answers = s[i].id
      BY <2>1, PlainOut
    <2>3. t[i] = [o EXCEPT !.error = s[i].error]
      OBVIOUS
    <2> HIDE DEF t, o
    <2> QED
      BY <2>1, <2>2, <2>3 DEF Outs
  <1>7. t \in [1..n -> Outs]
    <2> HIDE DEF Sent
    <2> QED
      BY <1>6
  <1> HIDE DEF t
  <1>8. t \in Seq(Outs) /\ Len(t) = n
    BY <1>2, <1>7, SeqIs
  <1>9. t \o <<>> = t
    BY <1>8
  <1> QED
    BY <1>1, <1>5, <1>6, <1>8, <1>9 DEF n

\* A nudge becomes one message of the user.
LEMMA TranslatedNudge ==
  ASSUME NEW m \in Messages, m.role = "user", Len(m.content) = 1, m.content[1].type \in {"text", "string"}
  PROVE  Translated(m) \in Seq(Outs) /\ Len(Translated(m)) = 1 /\ Translated(m)[1].role = "user"
  <1>1. PICK s \in Seq(Blocks) : s = m.content
    BY DEF Messages
  <1>2. Len(s) = 1 /\ 1 \in 1..Len(s) /\ s[1].type # "tool_result" /\ s[1].type \in {"text", "string"} /\ \A i \in 1..Len(s) : i = 1
    <2>1. Len(s) = 1 /\ s[1].type \in {"text", "string"}
      BY <1>1
    <2> QED
      BY <2>1
  <1>3. OfType(m, "tool_result") = <<>>
    <2>1. OfType(m, "tool_result") = Picked(s, {i \in 1..Len(s) : s[i].type = "tool_result"})
      BY <1>1, UsesAre
    <2>2. \A i \in 1..Len(s) : i \notin {j \in 1..Len(s) : s[j].type = "tool_result"}
      BY <1>2
    <2> QED
      BY <2>1, <2>2, PickedNone
  <1>4. Select(m.content, LAMBDA b : b.type \in {"text", "string"}) = s
    <2>1. 1..Len(s) \subseteq {i \in 1..Len(s) : s[i].type \in {"text", "string"}}
      BY <1>2
    <2> QED
      BY <1>1, <2>1, TextsAre, PickedAll
  <1>5. s # <<>>
    BY <1>2
  <1>6. Translated(m) = [i \in DOMAIN <<>> |-> [Out("tool", <<>>, <<>>[i].id) EXCEPT !.error = <<>>[i].error]] \o <<Out("user", <<>>, 0)>>
    BY <1>3, <1>4, <1>5 DEF Translated
  <1>7. [i \in DOMAIN <<>> |-> [Out("tool", <<>>, <<>>[i].id) EXCEPT !.error = <<>>[i].error]] = <<>>
    OBVIOUS
  <1>8. Out("user", <<>>, 0) \in Outs /\ Out("user", <<>>, 0).role = "user"
    BY PlainOut
  <1>9. <<>> \o <<Out("user", <<>>, 0)>> = <<Out("user", <<>>, 0)>>
    BY <1>8
  <1> QED
    BY <1>6, <1>7, <1>8, <1>9, SingleIs

Answered(t, uses) ==
  \/ uses = <<>> /\ Len(t) = 1 /\ t[1].role = "user"
  \/ /\ uses # <<>> /\ Len(t) = Len(uses)
     /\ \A k \in 1..Len(uses) : t[k].role = "tool" /\ t[k].answers = uses[k].id

\* The marker does not change the calls of a message.
LEMMA AlikeCalls ==
  ASSUME NEW m \in Messages, NEW w \in Messages, Alike(m, w)
  PROVE  /\ Len(Uses(w)) = Len(Uses(m))
         /\ \A i \in 1..Len(Uses(m)) : Uses(w)[i].id = Uses(m)[i].id
  <1>1. PICK s \in Seq(Blocks), t \in Seq(Blocks) : m.content = s /\ w.content = t
    BY DEF Messages
  <1>2. Len(s) = Len(t) /\ \A k \in 1..Len(s) : t[k].id = s[k].id /\ (t[k].type = "tool_use" <=> s[k].type = "tool_use")
    BY <1>1 DEF Alike
  <1> DEFINE I == {i \in 1..Len(s) : s[i].type = "tool_use"}
  <1>3. Uses(m) = Picked(s, I) /\ Uses(w) = Picked(t, {i \in 1..Len(t) : t[i].type = "tool_use"})
    BY <1>1, UsesAre DEF Uses
  <1>4. {i \in 1..Len(t) : t[i].type = "tool_use"} = I
    BY <1>2
  <1> DEFINE at == Picked(Numbers(Len(s)), I)
  <1> HIDE DEF I
  <1>5. /\ at \in Seq(1..Len(s)) /\ Len(Picked(s, I)) = Len(at)
        /\ \A p \in 1..Len(Picked(s, I)) : Picked(s, I)[p] = s[at[p]]
    BY PickedBy
  <1>6. Len(Picked(t, I)) = Len(at) /\ \A p \in 1..Len(Picked(t, I)) : Picked(t, I)[p] = t[at[p]]
    BY <1>2, PickedBy
  <1> HIDE DEF at
  <1>7. \A p \in 1..Len(at) : at[p] \in 1..Len(s)
    BY <1>5, ElementIs
  <1>8. \A p \in 1..Len(at) : t[at[p]].id = s[at[p]].id
    BY <1>2, <1>7
  <1>9. Uses(w) = Picked(t, I)
    BY <1>3, <1>4
  <1>10. Len(Picked(t, I)) = Len(Picked(s, I))
    BY <1>5, <1>6
  <1>11. \A p \in 1..Len(Picked(s, I)) : Picked(t, I)[p].id = Picked(s, I)[p].id
    BY <1>5, <1>6, <1>8
  <1> QED
    BY <1>3, <1>9, <1>10, <1>11, Zenon

\* A nudge is translated into a message of the user.
LEMMA AlikeNudge ==
  ASSUME NEW m \in Messages, NEW w \in Messages, Alike(m, w), m.role = "user", m.content = <<Str>>
  PROVE  Translated(w) \in Seq(Outs) /\ Answered(Translated(w), <<>>)
  <1>1. Len(m.content) = 1 /\ m.content[1].type = "string"
    BY TextIs
  <1>2. w.role = "user" /\ Len(w.content) = 1 /\ w.content[1].type \in {"text", "string"}
    BY <1>1 DEF Alike
  <1> QED
    BY <1>2, TranslatedNudge DEF Answered

\* The one result of an emit that is turned down.
LEMMA ErrorResult ==
  ASSUME NEW use \in Blocks, NEW r, r = <<ToolResult(use, TRUE)>>
  PROVE  Len(r) = 1 /\ r[1].type = "tool_result" /\ r[1].id = use.id
  <1>1. ToolResult(use, TRUE).type = "tool_result" /\ ToolResult(use, TRUE).id = use.id
    BY FlagsAre, ToolResultIs
  <1> QED
    BY <1>1

\* The translation of a reply, whatever the cache marker did to it.
LEMMA TranslatedReply ==
  ASSUME NEW a \in Answers, OnlyEmits(a), NEW m \in Messages, Alike(Reply(a), m)
  PROVE  Translated(m) \in Seq(Outs) /\ Answered(Translated(m), Uses(a))
  <1> DEFINE r == Reply(a).content
             uses == Uses(a)
  <1>1. uses \in Seq(Blocks)
    BY UsesAre DEF Answers, Uses
  <1>a. /\ m.role = "user" /\ Len(m.content) = Len(r)
        /\ \A j \in 1..Len(r) :
             /\ m.content[j].id = r[j].id
             /\ m.content[j].type = r[j].type \/ (r[j].type = "string" /\ m.content[j].type = "text")
    BY ReplyIs DEF Alike
  <1>2. \/ uses = <<>> /\ r = <<Str>>
        \/ uses # <<>> /\ Len(uses) = 1 /\ \E u \in ToSet(uses) : r = <<ToolResult(u, TRUE)>>
        \/ uses # <<>> /\ r = RunTools(uses)
    BY ReplyIs DEF OnlyEmits
  <1>3. CASE uses = <<>> /\ r = <<Str>>
    <2>1. Len(r) = 1 /\ r[1].type = "string"
      BY <1>3, TextIs
    <2>2. Len(m.content) = 1 /\ m.content[1].type \in {"text", "string"}
      BY <1>a, <2>1
    <2>3. Translated(m) \in Seq(Outs) /\ Len(Translated(m)) = 1 /\ Translated(m)[1].role = "user"
      BY <1>a, <2>2, TranslatedNudge
    <2> QED
      BY <1>3, <2>3 DEF Answered
  <1>4. CASE uses # <<>> /\ Len(r) = Len(uses) /\ \A k \in 1..Len(uses) : r[k].type = "tool_result" /\ r[k].id = uses[k].id
    <2>1. Len(m.content) = Len(uses) /\ \A k \in 1..Len(uses) : m.content[k].type = "tool_result" /\ m.content[k].id = uses[k].id
      BY <1>a, <1>4
    <2>2. /\ Translated(m) \in Seq(Outs) /\ Len(Translated(m)) = Len(m.content)
          /\ \A i \in 1..Len(m.content) : Translated(m)[i].role = "tool" /\ Translated(m)[i].answers = m.content[i].id
      BY <1>a, <2>1, TranslatedResults
    <2> QED
      BY <1>4, <2>1, <2>2 DEF Answered
  <1>5. CASE uses # <<>> /\ Len(uses) = 1 /\ \E u \in ToSet(uses) : r = <<ToolResult(u, TRUE)>>
    <2>1. PICK u \in ToSet(uses) : r = <<ToolResult(u, TRUE)>>
      BY <1>5
    <2>2. u = uses[1] /\ u \in Blocks
      BY <1>1, <1>5 DEF ToSet
    <2>3. Len(r) = 1 /\ r[1].type = "tool_result" /\ r[1].id = uses[1].id
      BY <2>1, <2>2, ErrorResult
    <2> HIDE DEF r, uses
    <2>4. \A k \in 1..Len(uses) : k = 1
      BY <1>5
    <2> QED
      BY <1>4, <1>5, <2>3, <2>4
  <1>6. CASE uses # <<>> /\ r = RunTools(uses)
    <2>1. Len(r) = Len(uses) /\ \A k \in 1..Len(uses) : r[k].type = "tool_result" /\ r[k].id = uses[k].id
      BY <1>1, <1>6, RunToolsIs
    <2> QED
      BY <1>4, <1>6, <2>1
  <1> QED
    BY <1>2, <1>3, <1>5, <1>6

Called(t, uses) ==
  /\ Len(t) = 1 /\ t[1].role = "assistant" /\ Len(t[1].calls) = Len(uses)
  /\ \A k \in 1..Len(uses) : t[1].calls[k] = uses[k].id

\* What a conversation becomes, message by message.
LEMMA TranslatedAll ==
  ASSUME NEW answers \in Seq(Answers), \A j \in 1..Len(answers) : OnlyEmits(answers[j]),
         NEW c, c = WithRollingCache(Conversation(answers))
  PROVE  /\ c \in Seq(Messages) /\ Len(c) = 2 * Len(answers) + 1
         /\ Translated(c[1]) \in Seq(Outs) /\ Answered(Translated(c[1]), <<>>)
         /\ \A j \in 1..Len(answers) :
              /\ Translated(c[2 * j]) \in Seq(Outs) /\ Called(Translated(c[2 * j]), Uses(answers[j]))
              /\ Translated(c[2 * j + 1]) \in Seq(Outs) /\ Answered(Translated(c[2 * j + 1]), Uses(answers[j]))
  <1> DEFINE ms == Conversation(answers)
             n == Len(answers)
  <1>1. /\ ms \in Seq(Messages) /\ Len(ms) = 2 * n + 1 /\ n \in Nat
        /\ ms[1].role = "user" /\ ms[1].content = <<Str>>
        /\ \A j \in 1..n : ms[2 * j] = answers[j] /\ ms[2 * j + 1] = Reply(answers[j])
    BY ConversationIs
  <1> HIDE DEF ms, n
  <1>2. ms # <<>>
    BY <1>1
  <1>3. c \in Seq(Messages) /\ Len(c) = 2 * n + 1
    BY <1>1, <1>2, CacheIs DEF ms
  <1>4. \A i \in 1..(2 * n + 1) : c[i] \in Messages /\ Alike(ms[i], c[i])
    BY <1>1, <1>2, CacheIs DEF ms
  <1>5. Translated(c[1]) \in Seq(Outs) /\ Answered(Translated(c[1]), <<>>)
    <2>1. 1 \in 1..(2 * n + 1)
      BY <1>1
    <2>2. ms[1] \in Messages
      BY <1>1, <2>1, ElementIs
    <2> QED
      BY <1>1, <1>4, <2>1, <2>2, AlikeNudge
  <1>6. ASSUME NEW j \in 1..n
        PROVE  /\ Translated(c[2 * j]) \in Seq(Outs) /\ Called(Translated(c[2 * j]), Uses(answers[j]))
               /\ Translated(c[2 * j + 1]) \in Seq(Outs) /\ Answered(Translated(c[2 * j + 1]), Uses(answers[j]))
    <2>1. 2 * j \in 1..(2 * n + 1) /\ 2 * j + 1 \in 1..(2 * n + 1)
      BY <1>1
    <2>2. answers[j] \in Answers /\ OnlyEmits(answers[j])
      BY DEF n
    <2>3. PICK m \in Messages, w \in Messages : m = c[2 * j] /\ w = c[2 * j + 1]
      BY <1>4, <2>1
    <2>4. Alike(answers[j], m) /\ answers[j] \in Messages /\ answers[j].role = "assistant"
      <3>1. Alike(answers[j], m)
        BY <1>1, <1>4, <2>1, <2>3
      <3>2. answers[j] \in Messages /\ answers[j].role = "assistant"
        BY <2>2 DEF Answers, Messages, Roles
      <3> QED
        BY <3>1, <3>2
    <2>5. /\ m.role = "assistant" /\ Len(Uses(m)) = Len(Uses(answers[j]))
          /\ \A k \in 1..Len(Uses(answers[j])) : Uses(m)[k].id = Uses(answers[j])[k].id
      BY <2>4, AlikeCalls DEF Alike
    <2>6. Translated(m) \in Seq(Outs) /\ Called(Translated(m), Uses(answers[j]))
      BY <2>5, TranslatedAnswer DEF Called
    <2>7. Alike(Reply(answers[j]), w)
      BY <1>1, <1>4, <2>1, <2>3
    <2>8. Translated(w) \in Seq(Outs) /\ Answered(Translated(w), Uses(answers[j]))
      BY <2>2, <2>7, TranslatedReply
    <2> QED
      BY <2>3, <2>6, <2>8
  <1> QED
    BY <1>3, <1>5, <1>6 DEF n

\* Messages that are answered in turn make a request every call of which is answered.
Turns(T, uses, n) ==
  /\ T \in Seq(Seq(Outs)) /\ Len(T) = 2 * n + 1
  /\ Answered(T[1], <<>>)
  /\ \A j \in 1..n : Called(T[2 * j], uses[j]) /\ Answered(T[2 * j + 1], uses[j])

\* A message of the assistant is the first of an even turn.
LEMMA TurnIs ==
  ASSUME NEW n \in Nat, NEW T, NEW uses, Turns(T, uses, n), NEW i \in 1..(2 * n + 1), NEW p \in 1..Len(T[i]),
         T[i][p].role = "assistant"
  PROVE  \E j \in 1..n : i = 2 * j /\ p = 1
  <1>1. CASE i = 1
    BY <1>1 DEF Turns, Answered
  <1>2. CASE \E j \in 1..n : i = 2 * j + 1
    <2>1. PICK j \in 1..n : i = 2 * j + 1
      BY <1>2
    <2>2. Answered(T[i], uses[j])
      BY <2>1 DEF Turns
    <2>3. T[i][p].role = "user" \/ T[i][p].role = "tool"
      BY <2>2 DEF Answered
    <2> QED
      BY <2>3
  <1>3. CASE \E j \in 1..n : i = 2 * j
    <2>1. PICK j \in 1..n : i = 2 * j
      BY <1>3
    <2>2. Called(T[i], uses[j])
      BY <2>1 DEF Turns
    <2>3. p = 1
      BY <2>2 DEF Called
    <2> QED
      BY <2>1, <2>3
  <1>4. i = 1 \/ (\E j \in 1..n : i = 2 * j + 1) \/ (\E j \in 1..n : i = 2 * j)
    <2>1. i \in Nat /\ 1 <= i /\ i <= 2 * n + 1
      OBVIOUS
    <2>2. PICK h \in Nat : i = 2 * h \/ i = 2 * h + 1
      <3>1. i \div 2 \in Nat /\ (i = 2 * (i \div 2) \/ i = 2 * (i \div 2) + 1)
        BY <2>1
      <3> QED
        BY <3>1
    <2>3. CASE i = 2 * h
      <3>1. h \in 1..n
        BY <2>1, <2>3
      <3> QED
        BY <2>3, <3>1
    <2>4. CASE i = 2 * h + 1
      <3>1. i = 1 \/ h \in 1..n
        BY <2>1, <2>4
      <3> QED
        BY <2>4, <3>1
    <2> QED
      BY <2>2, <2>3, <2>4
  <1> QED
    BY <1>1, <1>2, <1>3, <1>4

\* Turns in which each call is answered make a well-formed request.
LEMMA TurnsAreWellFormed ==
  ASSUME NEW n \in Nat, NEW T, NEW uses, Turns(T, uses, n), \A j \in 1..n : uses[j] \in Seq(Blocks)
  PROVE  WellFormed(<<Out("system", <<>>, 0)>> \o FlattenSeq(T))
  <1> DEFINE N == 2 * n + 1
             flat == FlattenSeq(T)
             first == <<Out("system", <<>>, 0)>>
             out == first \o flat
             l == Len(flat)
  <1>b. \A i \in 1..(2 * n + 1) : \A p \in 1..Len(T[i]) : T[i][p].role = "assistant" => \E j \in 1..n : i = 2 * j /\ p = 1
    BY TurnIs
  <1>1. T \in Seq(Seq(Outs)) /\ Len(T) = N /\ N \in Nat
    BY DEF Turns
  <1>2. flat \in Seq(Outs) /\ l \in Nat
    BY <1>1, FlattenIs, ElementIs
  <1>3. PICK off : Laid(off, flat, T, N)
    BY <1>1, FlattenIs
  <1>4. first \in Seq(Outs) /\ Len(first) = 1 /\ first[1].role = "system"
    BY PlainOut, SingleIs
  <1>5. /\ out \in Seq(Outs) /\ Len(out) = 1 + l
        /\ out[1].role = "system" /\ \A q \in 1..l : out[1 + q] = flat[q]
    <2> HIDE DEF first, flat, l
    <2>1. /\ first \o flat \in Seq(Outs) /\ Len(first \o flat) = Len(first) + Len(flat)
          /\ \A q \in 1..Len(first) : (first \o flat)[q] = first[q]
          /\ \A q \in 1..Len(flat) : (first \o flat)[Len(first) + q] = flat[q]
      <3>1. first \in Seq(Outs) /\ flat \in Seq(Outs)
        BY <1>2, <1>4
      <3> QED
        BY <3>1, ConcatIs
    <2>2. 1 \in 1..1
      OBVIOUS
    <2> QED
      BY <1>4, <2>1, <2>2 DEF l
  <1> HIDE DEF out, first, flat, l
  <1>6. /\ off \in [0..N -> Nat] /\ off[0] = 0 /\ off[N] = l
        /\ \A j \in 1..N : off[j] = off[j - 1] + Len(T[j])
        /\ \A i, j \in 0..N : i <= j => off[i] <= off[j]
        /\ \A j \in 1..N : \A p \in 1..Len(T[j]) : flat[off[j - 1] + p] = T[j][p]
        /\ \A i \in 1..l : \E j \in 1..N : \E p \in 1..Len(T[j]) : i = off[j - 1] + p
    BY <1>3 DEF Laid, l
  <1>a. \A j \in 1..N : T[j] \in Seq(Outs) /\ Len(T[j]) \in Nat /\ j - 1 \in 0..N /\ j \in 0..N
    BY <1>1, ElementIs
  <1>7. ASSUME NEW j \in 1..N, NEW p \in 1..Len(T[j])
        PROVE  off[j - 1] + p \in 1..l /\ out[1 + (off[j - 1] + p)] = T[j][p]
    <2>1. PICK a \in Nat, b \in Nat : a = off[j - 1] /\ b = Len(T[j])
      BY <1>6, <1>a
    <2>2. a + b <= l
      <3>1. off[j] <= off[N]
        BY <1>1, <1>6, <1>a
      <3> QED
        BY <1>6, <2>1, <3>1
    <2>3. p \in 1..b
      BY <2>1
    <2>4. a + p \in 1..l
      BY <1>2, <2>2, <2>3, Inside
    <2>5. flat[a + p] = T[j][p] /\ out[1 + (a + p)] = flat[a + p]
      BY <1>5, <1>6, <2>1, <2>4
    <2> QED
      BY <2>1, <2>4, <2>5
  <1>8. ASSUME NEW x \in DOMAIN out, out[x].role = "assistant"
        PROVE  LET m == Len(out[x].calls) IN
               /\ x + m <= Len(out)
               /\ \A k \in 1..m : out[x + k].role = "tool" /\ out[x + k].answers = out[x].calls[k]
               /\ x + m < Len(out) => out[x + m + 1].role # "tool"
    <2>1. x \in 1..(1 + l) /\ x # 1
      BY <1>5, <1>8, ElementIs
    <2>2. x - 1 \in 1..l
      BY <1>2, <2>1
    <2>3. PICK i \in 1..N : \E p \in 1..Len(T[i]) : x - 1 = off[i - 1] + p
      BY <1>6, <2>2
    <2>4. PICK p \in 1..Len(T[i]) : x - 1 = off[i - 1] + p
      BY <2>3
    <2>5. out[x] = T[i][p]
      <3>1. 1 + (x - 1) = x
        BY <2>1
      <3> QED
        BY <1>7, <2>4, <3>1
    <2>6. PICK j \in 1..n : i = 2 * j /\ p = 1
      <3>1. T[i][p].role = "assistant" /\ i \in 1..(2 * n + 1)
        BY <1>8, <2>5
      <3> QED
        BY <3>1, <1>b
    <2>7. Called(T[i], uses[j]) /\ Answered(T[i + 1], uses[j]) /\ i + 1 \in 1..N /\ (i + 1) - 1 = i /\ uses[j] \in Seq(Blocks)
      BY <2>6 DEF Turns
    <2> DEFINE m == Len(uses[j])
    <2>8. m \in Nat /\ Len(out[x].calls) = m /\ (\A k \in 1..m : out[x].calls[k] = uses[j][k].id) /\ Len(T[i]) = 1
          /\ (m = 0 <=> uses[j] = <<>>)
      BY <2>5, <2>6, <2>7 DEF Called
    <2> HIDE DEF m
    <2>9. off[i] = x - 1 /\ off[i] \in Nat /\ off[i + 1] = off[i] + Len(T[i + 1])
      BY <1>6, <1>a, <2>4, <2>6, <2>7, <2>8
    <2>10. \A k \in 1..Len(T[i + 1]) : x + k - 1 \in 1..l /\ out[x + k] = T[i + 1][k]
      <3> TAKE k \in 1..Len(T[i + 1])
      <3>1. off[i] + k \in 1..l /\ out[1 + (off[i] + k)] = T[i + 1][k]
        BY <1>7, <2>7
      <3>2. k \in Nat
        <4>1. Len(T[i + 1]) \in Nat
          BY <1>a, <2>7
        <4> QED
          BY <4>1
      <3>3. off[i] + k = x + k - 1 /\ 1 + (off[i] + k) = x + k
        <4>1. PICK a \in Nat : a = off[i]
          BY <2>9
        <4>2. x \in Nat /\ a = x - 1
          BY <1>2, <2>1, <2>9, <4>1
        <4>3. a + k = x + k - 1 /\ 1 + (a + k) = x + k
          BY <3>2, <4>2
        <4> QED
          BY <4>1, <4>3
      <3> QED
        BY <3>1, <3>3
    <2>11. CASE m = 0
      <3>1. Len(T[i + 1]) = 1 /\ T[i + 1][1].role = "user"
        BY <2>7, <2>8, <2>11 DEF Answered
      <3>2. out[x + 1].role = "user"
        BY <2>10, <3>1
      <3>3. x + m = x /\ x <= Len(out)
        BY <1>2, <1>5, <2>1, <2>11
      <3> QED
        BY <2>8, <2>11, <3>2, <3>3
    <2>12. CASE m # 0
      <3>1. Len(T[i + 1]) = m /\ \A k \in 1..m : T[i + 1][k].role = "tool" /\ T[i + 1][k].answers = uses[j][k].id
        BY <2>7, <2>8, <2>12 DEF Answered, m
      <3>2. \A k \in 1..m : out[x + k].role = "tool" /\ out[x + k].answers = out[x].calls[k]
        BY <2>8, <2>10, <3>1
      <3>3. x + m <= Len(out)
        <4>1. m \in 1..m
          BY <2>8, <2>12
        <4>2. x + m - 1 \in 1..l
          BY <2>10, <3>1, <4>1
        <4> QED
          BY <1>2, <1>5, <2>1, <2>8, <4>2
      <3>4. ASSUME x + m < Len(out) PROVE out[x + m + 1].role # "tool"
        <4>1. off[i + 1] = x + m - 1
          BY <2>1, <2>8, <2>9, <3>1
        <4>2. off[i + 1] < off[N]
          BY <1>2, <1>5, <1>6, <2>1, <2>8, <3>4, <4>1
        <4>3. i + 1 # N
          <5>1. off[N] \in Nat
            BY <1>2, <1>6
          <5>0. off[i + 1] \in Nat
            <6>1. i + 1 \in 0..N
              BY <1>1, <2>7
            <6> QED
              BY <1>6, <6>1
          <5>2. PICK a \in Nat, b \in Nat : a = off[i + 1] /\ b = off[N]
            BY <5>0, <5>1
          <5>3. a < b
            BY <4>2, <5>2
          <5>4. a # b
            BY <5>3
          <5> QED
            BY <5>2, <5>4
        <4>4. j + 1 \in 1..n /\ i + 2 = 2 * (j + 1) /\ i + 2 \in 1..N /\ (i + 2) - 1 = i + 1
          BY <2>6, <2>7, <4>3
        <4>5. Called(T[i + 2], uses[j + 1])
          BY <4>4 DEF Turns
        <4>6. Len(T[i + 2]) = 1 /\ T[i + 2][1].role = "assistant" /\ 1 \in 1..1
          BY <4>5 DEF Called
        <4>7. out[1 + (off[i + 1] + 1)] = T[i + 2][1]
          BY <1>7, <4>4, <4>6
        <4>8. 1 + (off[i + 1] + 1) = x + m + 1
          BY <2>1, <2>8, <4>1
        <4> QED
          BY <4>6, <4>7, <4>8
      <3> QED
        BY <2>8, <3>2, <3>3, <3>4
    <2> QED
      BY <2>11, <2>12
  <1>9. WellFormed(out)
    BY <1>8 DEF WellFormed
  <1> QED
    BY <1>9 DEF out, first, flat

\* Every number up to 2 n + 1 is the first, or one of the pair of some j.
LEMMA Pairs ==
  ASSUME NEW n \in Nat, NEW i \in 1..(2 * n + 1)
  PROVE  i = 1 \/ \E j \in 1..n : i = 2 * j \/ i = 2 * j + 1
  <1>1. i \in Nat /\ 1 <= i /\ i <= 2 * n + 1
    OBVIOUS
  <1>2. PICK h \in Nat : i = 2 * h \/ i = 2 * h + 1
    <2>1. i \div 2 \in Nat /\ (i = 2 * (i \div 2) \/ i = 2 * (i \div 2) + 1)
      BY <1>1
    <2> QED
      BY <2>1
  <1>3. i = 1 \/ h \in 1..n
    BY <1>1, <1>2
  <1> QED
    BY <1>2, <1>3

\* The request after these answers is well formed, unless an emit came with others.
LEMMA TalkIsAnswered ==
  ASSUME NEW answers \in Seq(Answers), \A j \in 1..Len(answers) : OnlyEmits(answers[j])
  PROVE  WellFormed(ToMistralMessages(WithRollingCache(Conversation(answers))))
  <1> DEFINE c == WithRollingCache(Conversation(answers))
             n == Len(answers)
             T == [i \in DOMAIN c |-> Translated(c[i])]
             uses == [j \in 1..n |-> Uses(answers[j])]
  <1>1. /\ c \in Seq(Messages) /\ Len(c) = 2 * n + 1
        /\ Translated(c[1]) \in Seq(Outs) /\ Answered(Translated(c[1]), <<>>)
        /\ \A j \in 1..n :
             /\ Translated(c[2 * j]) \in Seq(Outs) /\ Called(Translated(c[2 * j]), Uses(answers[j]))
             /\ Translated(c[2 * j + 1]) \in Seq(Outs) /\ Answered(Translated(c[2 * j + 1]), Uses(answers[j]))
    BY TranslatedAll
  <1>2. n \in Nat /\ ToMistralMessages(c) = <<Out("system", <<>>, 0)>> \o FlattenSeq(T)
    BY DEF ToMistralMessages
  <1>3. ASSUME NEW j \in 1..n PROVE uses[j] = Uses(answers[j]) /\ uses[j] \in Seq(Blocks)
    <2>1. answers[j] \in Answers
      OBVIOUS
    <2>2. PICK s \in Seq(Blocks) : answers[j].content = s
      BY <2>1 DEF Answers
    <2>3. Uses(answers[j]) \in Seq(Blocks)
      BY <2>2, UsesAre DEF Uses
    <2> QED
      BY <2>3
  <1> HIDE DEF c, n, uses
  <1>4. DOMAIN c = 1..(2 * n + 1)
    BY <1>1
  <1>5. \A i \in 1..(2 * n + 1) : Translated(c[i]) \in Seq(Outs)
    <2> TAKE i \in 1..(2 * n + 1)
    <2>1. i = 1 \/ \E j \in 1..n : i = 2 * j \/ i = 2 * j + 1
      BY <1>2, Pairs
    <2> QED
      BY <1>1, <2>1
  <1>6. T \in Seq(Seq(Outs)) /\ Len(T) = 2 * n + 1 /\ \A i \in 1..(2 * n + 1) : T[i] = Translated(c[i])
    <2>1. 2 * n + 1 \in Nat
      BY <1>2
    <2>2. T = [i \in 1..(2 * n + 1) |-> Translated(c[i])]
      BY <1>4
    <2> QED
      BY <1>5, <2>1, <2>2, SeqIs
  <1>7. Turns(T, uses, n)
    <2>1. 1 \in 1..(2 * n + 1) /\ \A j \in 1..n : 2 * j \in 1..(2 * n + 1) /\ 2 * j + 1 \in 1..(2 * n + 1)
      BY <1>2
    <2> HIDE DEF T
    <2> QED
      BY <1>1, <1>3, <1>6, <2>1 DEF Turns
  <1>8. WellFormed(<<Out("system", <<>>, 0)>> \o FlattenSeq(T))
    <2> HIDE DEF T
    <2> QED
      BY <1>2, <1>3, <1>7, TurnsAreWellFormed
  <1> QED
    BY <1>2, <1>8 DEF c

\* What follows an answer is never empty.
LEMMA ReplySpeaks ==
  ASSUME NEW a \in Answers
  PROVE  Reply(a).content # <<>>
  <1>1. PICK s \in Seq(Blocks) : a.content = s
    BY DEF Answers
  <1>2. Uses(a) \in Seq(Blocks)
    BY <1>1, UsesAre DEF Uses
  <1>3. CASE Reply(a).content = <<Str>>
    BY <1>3
  <1>4. CASE \E u \in ToSet(Uses(a)) : Reply(a).content = <<ToolResult(u, TRUE)>>
    BY <1>4
  <1>5. CASE Uses(a) # <<>> /\ Reply(a).content = RunTools(Uses(a))
    <2>1. RunTools(Uses(a)) \in Seq(Blocks) /\ Len(RunTools(Uses(a))) = Len(Uses(a))
      BY <1>2, RunToolsIs
    <2>2. Len(Uses(a)) # 0
      BY <1>2, <1>5
    <2> QED
      BY <1>5, <2>1, <2>2
  <1> QED
    BY <1>3, <1>4, <1>5, ReplyIs

\* Its one cache marker is on the last block of the last message.
LEMMA TalkIsMarked ==
  ASSUME NEW answers \in Seq(Answers)
  PROVE  OneMarker(WithRollingCache(Conversation(answers)))
  <1> DEFINE ms == Conversation(answers)
             n == Len(answers)
  <1>1. /\ ms \in Seq(Messages) /\ Len(ms) = 2 * n + 1 /\ n \in Nat
        /\ ms[1].content = <<Str>>
        /\ \A j \in 1..n : ms[2 * j + 1] = Reply(answers[j])
    BY ConversationIs
  <1> HIDE DEF ms
  <1>2. ms # <<>>
    BY <1>1
  <1>3. ms[Len(ms)].content # <<>>
    <2>1. CASE n = 0
      BY <1>1, <2>1
    <2>2. CASE n # 0
      <3>1. n \in 1..n /\ answers[n] \in Answers
        BY <1>1, <2>2
      <3>2. Reply(answers[n]).content # <<>>
        BY <3>1, ReplySpeaks
      <3> QED
        BY <1>1, <3>1, <3>2
    <2> QED
      BY <2>1, <2>2
  <1> QED
    BY <1>1, <1>2, <1>3, OneMarkerIs DEF ms

(***************************************************************************)
(* The register and the routes                                             *)
(***************************************************************************)
AreaNames == {"SEC", "QUA", "DEP"}
AnchoredAt(said, area) == {i \in DOMAIN said[area] : said[area][i].location # None}
AnchoredOf(said, area) == Picked(said[area], AnchoredAt(said, area))
RowOf(said, area, i) ==
  [id |-> <<area, i>>, severity |-> SeverityOf(area, AnchoredOf(said, area)[i]), location |-> AnchoredOf(said, area)[i].location]
RowsOf(said, area) == [i \in DOMAIN AnchoredOf(said, area) |-> RowOf(said, area, i)]
AllRows(said) == FlattenSeq([k \in DOMAIN Areas |-> RowsOf(said, Areas[k])])
DroppedOf(said, area) == Picked(said[area], {i \in DOMAIN said[area] : said[area][i].location = None})
Rows == [id : AreaNames \X Nat, severity : DOMAIN SeverityRank, location : STRING]

\* What the register is put together from.
LEMMA RegisterParts ==
  ASSUME NEW said
  PROVE  /\ Findings(said) = Ranked(AllRows(said), [i \in DOMAIN AllRows(said) |-> 0 - SeverityRank[AllRows(said)[i].severity]])
         /\ Unanchored(said) = Added([k \in DOMAIN Areas |-> Len(DroppedOf(said, Areas[k]))])
  <1>1. Findings(said) = Ranked(AllRows(said), [i \in DOMAIN AllRows(said) |-> 0 - SeverityRank[AllRows(said)[i].severity]])
    BY Zenon DEF Findings, AllRows, RowsOf, RowOf, AnchoredOf, AnchoredAt, Select, Descending
  <1>2. Unanchored(said) = Added([k \in DOMAIN Areas |-> Len(DroppedOf(said, Areas[k]))])
    BY Zenon DEF Unanchored, SumOf, Select, DroppedOf
  <1> QED
    BY <1>1, <1>2

\* The four levels, and where each area finds them.
LEMMA SeverityIs ==
  /\ DOMAIN SeverityRank = {"critical", "high", "medium", "low"}
  /\ \A s \in DOMAIN SeverityRank : SeverityRank[s] \in Int
  /\ \A item : SeverityOf("QUA", item) \in DOMAIN SeverityRank /\ SeverityOf("DEP", item) \in DOMAIN SeverityRank
  /\ \A item : SeverityOf("SEC", item) = item.severity
  BY DEF SeverityRank, SeverityOf

\* The three areas.
LEMMA AreasAre ==
  /\ Len(Areas) = 3 /\ DOMAIN Areas = 1..3 /\ Areas[1] = "SEC" /\ Areas[2] = "QUA" /\ Areas[3] = "DEP"
  /\ \A j, k \in 1..3 : Areas[j] = Areas[k] => j = k
  BY DEF Areas

\* The items an area reports.
LEMMA SaidIs ==
  ASSUME NEW said \in Reported, NEW area \in AreaNames
  PROVE  \E T : /\ T \subseteq [severity : STRING, location : STRING] \cup [severity : DOMAIN SeverityRank, location : STRING]
                /\ said[area] \in Seq(T)
                /\ \A item \in T : item.location \in STRING /\ SeverityOf(area, item) \in DOMAIN SeverityRank
  <1>1. CASE area = "SEC"
    <2> DEFINE T == [severity : DOMAIN SeverityRank, location : STRING]
    <2>1. said[area] \in Seq(T)
      BY <1>1 DEF Reported
    <2>2. \A item \in T : item.location \in STRING /\ SeverityOf(area, item) \in DOMAIN SeverityRank
      BY <1>1, SeverityIs
    <2> QED
      BY <2>1, <2>2
  <1>2. CASE area \in {"QUA", "DEP"}
    <2> DEFINE T == [severity : STRING, location : STRING]
    <2>1. said[area] \in Seq(T)
      BY <1>2 DEF Reported
    <2>2. \A item \in T : item.location \in STRING /\ SeverityOf(area, item) \in DOMAIN SeverityRank
      BY <1>2, SeverityIs
    <2> QED
      BY <2>1, <2>2
  <1> QED
    BY <1>1, <1>2 DEF AreaNames

\* Each item of an area is a row or dropped, and rows are numbered.
LEMMA RowsOfArea ==
  ASSUME NEW said \in Reported, NEW area \in AreaNames
  PROVE  /\ RowsOf(said, area) \in Seq(Rows)
         /\ Len(RowsOf(said, area)) + Len(DroppedOf(said, area)) = Len(said[area])
         /\ Len(RowsOf(said, area)) \in Nat /\ Len(DroppedOf(said, area)) \in Nat /\ Len(said[area]) \in Nat
         /\ \A i \in 1..Len(RowsOf(said, area)) : RowsOf(said, area)[i].id = <<area, i>>
  <1>1. PICK T : /\ said[area] \in Seq(T)
                 /\ \A item \in T : item.location \in STRING /\ SeverityOf(area, item) \in DOMAIN SeverityRank
    BY SaidIs
  <1> DEFINE s == said[area]
             n == Len(s)
             I == AnchoredAt(said, area)
             J == {i \in DOMAIN said[area] : said[area][i].location = None}
             t == AnchoredOf(said, area)
             m == Len(t)
             r == RowsOf(said, area)
  <1>2. s \in Seq(T) /\ n \in Nat /\ DOMAIN s = 1..n
    BY <1>1
  <1>3. I \subseteq 1..n /\ J = (1..n) \ I
    BY <1>2 DEF AnchoredAt
  <1>4. t \in Seq(T) /\ m \in Nat /\ DOMAIN t = 1..m
    <2>1. Picked(s, I) \in Seq(T)
      <3> HIDE DEF s, I
      <3> QED
        BY <1>2, PickedIs
    <2> QED
      BY <2>1 DEF AnchoredOf
  <1>5. Len(t) + Len(DroppedOf(said, area)) = n
    <2>1. Len(Picked(s, I)) + Len(Picked(s, J)) = n
      <3> HIDE DEF s, I, J
      <3> QED
        BY <1>2, <1>3, SplitCount DEF n
    <2> QED
      BY <2>1 DEF AnchoredOf, DroppedOf
  <1>6. Len(DroppedOf(said, area)) \in Nat
    <2>1. Picked(s, J) \in Seq(T)
      <3> HIDE DEF s, J
      <3> QED
        BY <1>2, PickedIs
    <2> QED
      BY <2>1 DEF DroppedOf
  <1>7. r = [i \in 1..m |-> RowOf(said, area, i)]
    BY <1>4 DEF RowsOf
  <1>8. \A i \in 1..m : RowOf(said, area, i) \in Rows /\ RowOf(said, area, i).id = <<area, i>>
    <2> TAKE i \in 1..m
    <2>1. t[i] \in T /\ i \in Nat
      BY <1>4, ElementIs
    <2>2. SeverityOf(area, t[i]) \in DOMAIN SeverityRank /\ t[i].location \in STRING
      BY <1>1, <2>1
    <2>3. RowOf(said, area, i) = [id |-> <<area, i>>, severity |-> SeverityOf(area, t[i]), location |-> t[i].location]
      BY DEF RowOf
    <2>4. <<area, i>> \in AreaNames \X Nat
      BY <2>1
    <2> HIDE DEF t
    <2> QED
      BY <2>2, <2>3, <2>4 DEF Rows
  <1>9. r \in Seq(Rows) /\ Len(r) = m
    <2>1. r \in [1..m -> Rows]
      BY <1>7, <1>8
    <2> HIDE DEF r, m
    <2> QED
      BY <1>4, <2>1, SeqIs
  <1>10. \A i \in 1..m : r[i].id = <<area, i>>
    BY <1>7, <1>8
  <1> QED
    BY <1>2, <1>4, <1>5, <1>6, <1>9, <1>10

\* The rows in the order of the areas: each area and number once, and one row for
\* each item that is anchored.
LEMMA AllRowsAre ==
  ASSUME NEW said \in Reported
  PROVE  /\ AllRows(said) \in Seq(Rows)
         /\ \A i, j \in 1..Len(AllRows(said)) : AllRows(said)[i].id = AllRows(said)[j].id => i = j
         /\ Len(AllRows(said)) + Unanchored(said) = Added([k \in DOMAIN Areas |-> Len(said[Areas[k]])])
  <1> DEFINE ss == [k \in DOMAIN Areas |-> RowsOf(said, Areas[k])]
             flat == AllRows(said)
             n == Len(flat)
  <1>1. \A k \in 1..3 : Areas[k] \in AreaNames
    BY AreasAre DEF AreaNames
  <1>2. ss = [k \in 1..3 |-> RowsOf(said, Areas[k])] /\ \A k \in 1..3 : ss[k] = RowsOf(said, Areas[k]) /\ RowsOf(said, Areas[k]) \in Seq(Rows)
    BY <1>1, AreasAre, RowsOfArea
  <1>3. ss \in Seq(Seq(Rows)) /\ Len(ss) = 3
    <2>1. ss \in [1..3 -> Seq(Rows)]
      BY <1>2
    <2> HIDE DEF ss
    <2> QED
      BY <2>1, SeqIs
  <1>4. flat = FlattenSeq(ss)
    BY DEF AllRows
  <1> HIDE DEF ss, flat
  <1>5. flat \in Seq(Rows) /\ n \in Nat
    BY <1>3, <1>4, FlattenIs, ElementIs
  <1>6. PICK off : Laid(off, flat, ss, 3)
    BY <1>3, <1>4, FlattenIs
  <1>7. /\ off \in [0..3 -> Nat] /\ off[0] = 0 /\ off[3] = n
        /\ \A j \in 1..3 : off[j] = off[j - 1] + Len(ss[j])
        /\ \A j \in 1..3 : \A p \in 1..Len(ss[j]) : flat[off[j - 1] + p] = ss[j][p]
        /\ \A i \in 1..n : \E j \in 1..3 : \E p \in 1..Len(ss[j]) : i = off[j - 1] + p
    BY <1>6 DEF Laid
  <1>8. ASSUME NEW i \in 1..n
        PROVE  \E j \in 1..3 : \E p \in 1..Len(ss[j]) : i = off[j - 1] + p /\ flat[i].id = <<Areas[j], p>>
    <2>1. PICK j \in 1..3 : \E p \in 1..Len(ss[j]) : i = off[j - 1] + p
      BY <1>7
    <2>2. PICK p \in 1..Len(ss[j]) : i = off[j - 1] + p
      BY <2>1
    <2>3. flat[i] = ss[j][p]
      BY <1>7, <2>2
    <2>4. ss[j][p].id = <<Areas[j], p>>
      BY <1>1, <1>2, RowsOfArea
    <2> QED
      BY <2>2, <2>3, <2>4
  <1>9. ASSUME NEW i \in 1..n, NEW k \in 1..n, flat[i].id = flat[k].id PROVE i = k
    <2>1. PICK j \in 1..3, p \in Nat : i = off[j - 1] + p /\ flat[i].id = <<Areas[j], p>>
      <3>1. \A e \in 1..3 : Len(ss[e]) \in Nat
        BY <1>2, ElementIs
      <3> QED
        BY <1>8, <3>1
    <2>2. PICK h \in 1..3, q \in Nat : k = off[h - 1] + q /\ flat[k].id = <<Areas[h], q>>
      <3>1. \A e \in 1..3 : Len(ss[e]) \in Nat
        BY <1>2, ElementIs
      <3> QED
        BY <1>8, <3>1
    <2>3. Areas[j] = Areas[h] /\ p = q
      BY <1>9, <2>1, <2>2
    <2> QED
      BY <2>1, <2>2, <2>3, AreasAre
  <1> DEFINE lens == [k \in DOMAIN Areas |-> Len(said[Areas[k]])]
             drops == [k \in DOMAIN Areas |-> Len(DroppedOf(said, Areas[k]))]
  <1>10. \A k \in 1..3 : /\ Len(ss[k]) + drops[k] = lens[k]
                         /\ Len(ss[k]) \in Nat /\ drops[k] \in Nat /\ lens[k] \in Nat
    BY <1>1, <1>2, AreasAre, RowsOfArea
  <1>11. DOMAIN lens = 1..3 /\ DOMAIN drops = 1..3 /\ lens \in [1..3 -> Int] /\ drops \in [1..3 -> Int]
    BY <1>10, AreasAre
  <1>12. Unanchored(said) = Added(drops)
    BY RegisterParts
  <1> HIDE DEF lens, drops
  <1>13. lens \in Seq(Int) /\ Len(lens) = 3 /\ drops \in Seq(Int) /\ Len(drops) = 3
    BY <1>11, SeqIs
  <1>14. Added(lens) = lens[1] + lens[2] + lens[3] /\ Added(drops) = drops[1] + drops[2] + drops[3]
    BY <1>13, AddedThree
  <1>15. Len(ss[1]) \in Nat /\ Len(ss[2]) \in Nat /\ Len(ss[3]) \in Nat /\ drops[1] \in Nat /\ drops[2] \in Nat /\ drops[3] \in Nat
         /\ Len(ss[1]) + drops[1] = lens[1] /\ Len(ss[2]) + drops[2] = lens[2] /\ Len(ss[3]) + drops[3] = lens[3]
    <2>1. 1 \in 1..3 /\ 2 \in 1..3 /\ 3 \in 1..3
      OBVIOUS
    <2> QED
      BY <1>10, <2>1, Zenon
  <1>16. n = Len(ss[1]) + Len(ss[2]) + Len(ss[3])
    <2>1. off[1] = off[0] + Len(ss[1]) /\ off[2] = off[1] + Len(ss[2]) /\ off[3] = off[2] + Len(ss[3])
      <3>1. \A j \in 1..3 : off[j] = off[j - 1] + Len(ss[j])
        BY <1>7
      <3> QED
        BY <3>1
    <2>2. PICK a \in Nat, b \in Nat, c \in Nat : a = Len(ss[1]) /\ b = Len(ss[2]) /\ c = Len(ss[3])
      BY <1>15, Zenon
    <2>3. PICK s, t, u, v : s = off[0] /\ t = off[1] /\ u = off[2] /\ v = off[3]
      OBVIOUS
    <2>4. s = 0 /\ t = s + a /\ u = t + b /\ v = u + c
      BY <1>7, <2>1, <2>2, <2>3, Zenon
    <2>5. v = a + b + c
      BY <2>4
    <2> QED
      BY <1>7, <2>2, <2>3, <2>5, Zenon
  <1>17. n + Unanchored(said) = Added(lens)
    <2>1. PICK a \in Nat, b \in Nat, c \in Nat : a = Len(ss[1]) /\ b = Len(ss[2]) /\ c = Len(ss[3])
      BY <1>15, Zenon
    <2>2. PICK d \in Nat, e \in Nat, f \in Nat : d = drops[1] /\ e = drops[2] /\ f = drops[3]
      BY <1>15, Zenon
    <2>3. PICK s, t, u : s = lens[1] /\ t = lens[2] /\ u = lens[3]
      OBVIOUS
    <2>4. a + d = s /\ b + e = t /\ c + f = u
      BY <1>15, <2>1, <2>2, <2>3, Zenon
    <2>5. (a + b + c) + (d + e + f) = s + t + u
      BY <2>4
    <2>6. n = a + b + c /\ Unanchored(said) = d + e + f /\ Added(lens) = s + t + u
      BY <1>12, <1>14, <1>16, <2>1, <2>2, <2>3, Zenon
    <2> QED
      BY <2>5, <2>6, Zenon
  <1> QED
    BY <1>5, <1>9, <1>17 DEF lens, flat

\* The four levels, in order.
LEMMA LevelsAre == Len(Levels) = 4 /\ DOMAIN Levels = 1..4 /\ Levels[1] = "critical" /\ Levels[2] = "high" /\ Levels[3] = "medium" /\ Levels[4] = "low"
  BY DEF Levels

AtLevel(rows, level) == {i \in DOMAIN rows : rows[i].severity = level}

\* The counts by level add up to the rows there are.
LEMMA LevelsAddUp ==
  ASSUME NEW rows \in Seq(Rows)
  PROVE  Len(rows) = SumOf(Levels, LAMBDA level : BySeverity(rows, level))
  <1> DEFINE n == Len(rows)
             S(level) == AtLevel(rows, level)
             counts == [k \in DOMAIN Levels |-> BySeverity(rows, Levels[k])]
  <1>1. n \in Nat /\ DOMAIN rows = 1..n /\ \A i \in 1..n : rows[i].severity \in {"critical", "high", "medium", "low"}
    <2>1. \A i \in 1..n : rows[i] \in Rows
      BY ElementIs
    <2>2. \A r \in Rows : r.severity \in {"critical", "high", "medium", "low"}
      BY SeverityIs DEF Rows
    <2> QED
      BY <2>1, <2>2
  <1>2. ASSUME NEW level PROVE /\ BySeverity(rows, level) = Cardinality(S(level)) /\ IsFiniteSet(S(level))
                               /\ Cardinality(S(level)) \in Nat
    <2>1. BySeverity(rows, level) = Len(Picked(rows, AtLevel(rows, level)))
      BY Zenon DEF BySeverity, Select, AtLevel
    <2>2. AtLevel(rows, level) \subseteq 1..Len(rows)
      BY <1>1 DEF AtLevel
    <2>3. IsFiniteSet(AtLevel(rows, level)) /\ Len(Picked(rows, AtLevel(rows, level))) = Cardinality(AtLevel(rows, level))
      BY <2>2, PickedCount
    <2> QED
      BY <2>1, <2>3, FS_CardinalityType
  <1>3. n = Cardinality(S("critical")) + Cardinality(S("high")) + Cardinality(S("medium")) + Cardinality(S("low"))
    <2> DEFINE a == AtLevel(rows, "critical")
               b == AtLevel(rows, "high")
               c == AtLevel(rows, "medium")
               d == AtLevel(rows, "low")
    <2>1. FourSorts(n, a, b, c, d)
      BY <1>1 DEF AtLevel, FourSorts
    <2> HIDE DEF a, b, c, d, n
    <2>2. n = Cardinality(a) + Cardinality(b) + Cardinality(c) + Cardinality(d)
      <3>1. n \in Nat
        BY <1>1
      <3> QED
        BY <2>1, <3>1, FourKinds
    <2> QED
      BY <2>2 DEF a, b, c, d
  <1>4. counts \in Seq(Int) /\ Len(counts) = 4 /\ \A k \in 1..4 : counts[k] = Cardinality(S(Levels[k]))
    <2>1. DOMAIN counts = 1..4 /\ \A k \in 1..4 : counts[k] = Cardinality(S(Levels[k])) /\ counts[k] \in Int
      BY <1>2, LevelsAre
    <2>2. counts \in [1..4 -> Int]
      BY <2>1
    <2> HIDE DEF counts
    <2> QED
      BY <2>1, <2>2, SeqIs
  <1>5. SumOf(Levels, LAMBDA level : BySeverity(rows, level)) = Added(counts)
    BY Zenon DEF SumOf
  <1> HIDE DEF counts
  <1>6. Added(counts) = counts[1] + counts[2] + counts[3] + counts[4]
    BY <1>4, AddedFour
  <1>7. counts[1] = Cardinality(S("critical")) /\ counts[2] = Cardinality(S("high")) /\ counts[3] = Cardinality(S("medium")) /\ counts[4] = Cardinality(S("low"))
    BY <1>4, LevelsAre
  <1> QED
    BY <1>3, <1>5, <1>6, <1>7

\* The register is complete, whatever was reported.
LEMMA RegisterIs ==
  ASSUME NEW said \in Reported
  PROVE  RegisterIsComplete(said, Findings(said), Unanchored(said))
  <1> DEFINE flat == AllRows(said)
             n == Len(flat)
             w == [i \in DOMAIN flat |-> 0 - SeverityRank[flat[i].severity]]
             rows == Findings(said)
  <1>1. /\ flat \in Seq(Rows) /\ n \in Nat /\ DOMAIN flat = 1..n
        /\ \A i, j \in 1..n : flat[i].id = flat[j].id => i = j
        /\ n + Unanchored(said) = Added([k \in DOMAIN Areas |-> Len(said[Areas[k]])])
    BY AllRowsAre
  <1>2. rows = Ranked(flat, w)
    BY RegisterParts
  <1>3. \A i \in 1..n : w[i] = 0 - SeverityRank[flat[i].severity] /\ SeverityRank[flat[i].severity] \in Int
    <2>1. \A i \in 1..n : flat[i].severity \in DOMAIN SeverityRank
      <3>1. \A i \in 1..n : flat[i] \in Rows
        BY <1>1, ElementIs
      <3> HIDE DEF flat
      <3> QED
        BY <3>1 DEF Rows
    <2> QED
      BY <1>1, <2>1, SeverityIs
  <1>4. w \in [1..n -> Int]
    BY <1>1, <1>3
  <1> HIDE DEF flat, w, rows
  <1>5. rows \in Seq(Rows) /\ Len(rows) = n
    BY <1>1, <1>2, <1>4, RankedIs
  <1>6. PICK pi : Ordering(pi, rows, flat, w)
    BY <1>1, <1>2, <1>4, RankedIs
  <1>7. /\ pi \in [1..n -> 1..n]
        /\ \A p, q \in 1..n : pi[p] = pi[q] => p = q
        /\ \A p \in 1..n : rows[p] = flat[pi[p]]
        /\ \A p, q \in 1..n : p < q => w[pi[p]] >= w[pi[q]]
    <2>1. Len(flat) = n
      BY DEF n
    <2> HIDE DEF n
    <2>2. /\ pi \in [1..n -> 1..n]
          /\ \A p, q \in 1..n : pi[p] = pi[q] => p = q
          /\ \A p \in 1..n : rows[p] = flat[pi[p]]
          /\ \A p, q \in 1..n : p < q => Ahead(w, pi[p], pi[q])
      BY <1>6, <2>1 DEF Ordering
    <2>3. ASSUME NEW p \in 1..n, NEW q \in 1..n, p < q PROVE w[pi[p]] >= w[pi[q]]
      <3>1. w[pi[p]] \in Int /\ w[pi[q]] \in Int /\ Ahead(w, pi[p], pi[q])
        BY <1>4, <2>2, <2>3
      <3> QED
        BY <3>1 DEF Ahead
    <2> QED
      BY <2>2, <2>3
  <1>8. \A i, j \in DOMAIN rows : rows[i].id = rows[j].id => i = j
    <2>1. DOMAIN rows = 1..n
      BY <1>5, ElementIs
    <2> QED
      BY <1>1, <1>7, <2>1
  <1>9. ASSUME NEW i \in 2..Len(rows) PROVE SeverityRank[rows[i - 1].severity] <= SeverityRank[rows[i].severity]
    <2>1. i \in 1..n /\ i - 1 \in 1..n /\ i - 1 < i
      BY <1>1, <1>5
    <2>2. w[pi[i - 1]] >= w[pi[i]] /\ pi[i - 1] \in 1..n /\ pi[i] \in 1..n
      BY <1>7, <2>1
    <2>3. /\ w[pi[i - 1]] = 0 - SeverityRank[flat[pi[i - 1]].severity] /\ SeverityRank[flat[pi[i - 1]].severity] \in Int
          /\ w[pi[i]] = 0 - SeverityRank[flat[pi[i]].severity] /\ SeverityRank[flat[pi[i]].severity] \in Int
      BY <1>3, <2>2
    <2>4. rows[i - 1] = flat[pi[i - 1]] /\ rows[i] = flat[pi[i]]
      BY <1>7, <2>1
    <2>5. PICK a \in Int, b \in Int : /\ a = SeverityRank[flat[pi[i - 1]].severity] /\ b = SeverityRank[flat[pi[i]].severity]
      BY <2>3, Zenon
    <2>6. 0 - a >= 0 - b
      BY <2>2, <2>3, <2>5, Zenon
    <2>7. a <= b
      BY <2>6
    <2> QED
      BY <2>4, <2>5, <2>7, Zenon
  <1>10. Len(rows) = SumOf(Levels, LAMBDA level : BySeverity(rows, level))
    BY <1>5, LevelsAddUp
  <1>11. SumOf(Areas, LAMBDA area : Len(said[area])) = Added([k \in DOMAIN Areas |-> Len(said[Areas[k]])])
    BY Zenon DEF SumOf
  <1>12. Len(rows) + Unanchored(said) = SumOf(Areas, LAMBDA area : Len(said[area]))
    BY <1>1, <1>5, <1>11
  <1>13. RegisterIsComplete(said, rows, Unanchored(said))
    BY <1>8, <1>9, <1>10, <1>12, Zenon DEF RegisterIsComplete
  <1> QED
    BY <1>13 DEF rows

\* What is said not to be in the route graph, of the endpoints listed.
LEMMA EndpointsAre ==
  ASSUME NEW routes \in Seq(STRING), NEW listed \in Seq(STRING), NEW cap \in Nat, None \notin ToSet(listed)
  PROVE  EndpointsAccounted(routes, listed, cap, ApiSurface(routes, listed, cap))
  <1> DEFINE shown == Slice(routes, cap)
             flagged == ToSet(listed)
             rows == [i \in DOMAIN shown |-> IF shown[i] \in flagged THEN shown[i] ELSE None]
             R == ToSet(rows) \ {None}
             s == ApiSurface(routes, listed, cap)
             unknown == flagged \ ToSet(routes)
  <1>1. CASE routes = <<>>
    <2>1. s.rows = listed /\ s.dropped = 0
      BY <1>1 DEF ApiSurface
    <2> QED
      BY <1>1, <2>1 DEF EndpointsAccounted
  <1>2. CASE routes # <<>>
    <2>1. s.dropped = Cardinality(flagged) - Cardinality(R)
      BY <1>2 DEF ApiSurface
    <2>2. /\ shown \in Seq(STRING) /\ Len(shown) = IF cap < Len(routes) THEN cap ELSE Len(routes)
          /\ \A i \in 1..Len(shown) : shown[i] = routes[i]
      BY SliceIs
    <2>3. R = flagged \cap ToSet(shown)
      <3> HIDE DEF shown, flagged
      <3> QED
        BY DEF ToSet, flagged
    <2>4. ToSet(shown) \subseteq ToSet(routes) /\ (Len(routes) <= cap => ToSet(shown) = ToSet(routes))
      <3>1. Len(routes) \in Nat /\ DOMAIN routes = 1..Len(routes)
        BY ElementIs
      <3>2. DOMAIN shown = 1..Len(shown)
        BY <2>2, ElementIs
      <3> HIDE DEF shown
      <3> QED
        BY <2>2, <3>1, <3>2 DEF ToSet
    <2>5. IsFiniteSet(flagged)
      <3>1. Len(listed) \in Nat /\ DOMAIN listed = 1..Len(listed) /\ IsFiniteSet(1..Len(listed))
        BY ElementIs, FS_Interval
      <3>2. listed \in Surjection(1..Len(listed), flagged)
        BY <3>1 DEF Surjection, ToSet
      <3> QED
        BY <3>1, <3>2, FS_Surjection
    <2>6. Cardinality(flagged \ R) = Cardinality(flagged) - Cardinality(flagged \cap R)
      BY <2>5, FS_Difference
    <2>7. flagged \cap R = R
      BY <2>3
    <2>8. s.dropped = Cardinality(flagged \ R)
      BY <2>1, <2>6, <2>7
    <2> HIDE DEF s, rows, R, shown, flagged
    <2>9. unknown \subseteq flagged \ R /\ (Len(routes) <= cap => flagged \ R = unknown)
      BY <2>3, <2>4
    <2>10. IsFiniteSet(flagged \ R)
      BY <2>5, FS_Subset
    <2>11. /\ IsFiniteSet(unknown) /\ Cardinality(unknown) <= Cardinality(flagged \ R)
           /\ Cardinality(unknown) \in Nat /\ Cardinality(flagged \ R) \in Nat
      BY <2>9, <2>10, FS_Subset, FS_CardinalityType
    <2> QED
      BY <1>2, <2>8, <2>9, <2>11 DEF EndpointsAccounted, unknown, flagged, s
  <1> QED
    BY <1>1, <1>2

(***************************************************************************)
(* Call chains                                                             *)
(***************************************************************************)

\* A list of elements of a set is one of a larger set.
LEMMA Wider ==
  ASSUME NEW A, NEW B, A \subseteq B, NEW s \in Seq(A)
  PROVE  s \in Seq(B)
  <1>1. Len(s) \in Nat /\ DOMAIN s = 1..Len(s) /\ \A i \in 1..Len(s) : s[i] \in A
    BY ElementIs
  <1>2. s \in [1..Len(s) -> B]
    <2>1. s = [i \in 1..Len(s) |-> s[i]]
      BY <1>1
    <2> QED
      BY <1>1, <2>1
  <1> QED
    BY <1>1, <1>2, SeqIs

\* Two lists, one after the other, have the elements of either.
LEMMA JoinIs ==
  ASSUME NEW A, NEW B, NEW t \in Seq(A), NEW u \in Seq(B)
  PROVE  t \o u \in Seq(A \cup B)
  <1>1. t \in Seq(A \cup B) /\ u \in Seq(A \cup B)
    BY Wider
  <1> QED
    BY <1>1, ConcatIs

\* What is picked are the elements at the positions, none twice if none was.
LEMMA SelectIs ==
  ASSUME NEW A, NEW s \in Seq(A), NEW I
  PROVE  /\ Picked(s, I) \in Seq(A)
         /\ \A x : x \in ToSet(Picked(s, I)) <=> \E i \in 1..Len(s) : i \in I /\ s[i] = x
         /\ NoRepeat(s) => NoRepeat(Picked(s, I))
  <1> DEFINE t == Picked(s, I)
  <1>1. t \in Seq(A)
    BY PickedIs
  <1>2. PICK at : Placed(at, t, s, I, Len(s))
    BY PickedIs
  <1> HIDE DEF t
  <1>3. Len(t) \in Nat /\ DOMAIN t = 1..Len(t) /\ Len(s) \in Nat /\ DOMAIN s = 1..Len(s)
    BY <1>1, ElementIs
  <1>4. /\ \A p \in 1..Len(t) : at[p] \in 1..Len(s) /\ at[p] \in I /\ t[p] = s[at[p]]
        /\ \A p, q \in 1..Len(t) : p < q => at[p] < at[q]
        /\ \A i \in 1..Len(s) : i \in I => \E p \in 1..Len(t) : at[p] = i
    BY <1>2 DEF Placed
  <1>5. \A x : x \in ToSet(t) <=> \E p \in 1..Len(t) : t[p] = x
    BY <1>1, ToSetIs
  <1>6. ASSUME NEW x PROVE x \in ToSet(t) <=> \E i \in 1..Len(s) : i \in I /\ s[i] = x
    <2>1. ASSUME x \in ToSet(t) PROVE \E i \in 1..Len(s) : i \in I /\ s[i] = x
      BY <1>4, <1>5, <2>1
    <2>2. ASSUME NEW i \in 1..Len(s), i \in I, s[i] = x PROVE x \in ToSet(t)
      <3>1. PICK p \in 1..Len(t) : at[p] = i
        BY <1>4, <2>2
      <3> QED
        BY <1>4, <1>5, <2>2, <3>1
    <2> QED
      BY <2>1, <2>2
  <1>7. ASSUME NoRepeat(s) PROVE NoRepeat(t)
    <2>1. SUFFICES ASSUME NEW p \in 1..Len(t), NEW q \in 1..Len(t), t[p] = t[q] PROVE p = q
      BY <1>3 DEF NoRepeat
    <2>2. at[p] = at[q]
      BY <1>3, <1>4, <1>7, <2>1 DEF NoRepeat
    <2>3. at[p] \in Nat /\ at[q] \in Nat /\ p \in Nat /\ q \in Nat
      BY <1>3, <1>4
    <2>4. CASE p < q
      BY <1>4, <2>2, <2>3, <2>4
    <2>5. CASE q < p
      BY <1>4, <2>2, <2>3, <2>5
    <2> QED
      BY <2>3, <2>4, <2>5
  <1> QED
    BY <1>1, <1>6, <1>7 DEF t

\* The empty list.
LEMMA EmptyIs == /\ \A A : <<>> \in Seq(A)
                 /\ Len(<<>>) = 0
                 /\ ToSet(<<>>) = {}
  BY DEF ToSet

\* Slice takes elements of the list, none twice if none was.
LEMMA SliceWithin ==
  ASSUME NEW A, NEW s \in Seq(A), NEW n \in Nat
  PROVE  /\ Slice(s, n) \in Seq(A) /\ ToSet(Slice(s, n)) \subseteq ToSet(s)
         /\ Len(Slice(s, n)) <= n /\ Len(Slice(s, n)) <= Len(s)
         /\ NoRepeat(s) => NoRepeat(Slice(s, n))
  <1> DEFINE t == Slice(s, n)
  <1>1. /\ t \in Seq(A) /\ ToSet(t) \subseteq ToSet(s)
        /\ Len(t) = (IF Len(s) < n THEN Len(s) ELSE n)
        /\ \A i \in 1..Len(t) : i \in 1..Len(s) /\ t[i] = s[i]
    BY SliceIs
  <1> HIDE DEF t
  <1>2. Len(s) \in Nat /\ Len(t) \in Nat /\ DOMAIN s = 1..Len(s) /\ DOMAIN t = 1..Len(t)
    BY <1>1, ElementIs
  <1>3. NoRepeat(s) => NoRepeat(t)
    BY <1>1, <1>2 DEF NoRepeat
  <1> QED
    BY <1>1, <1>2, <1>3 DEF t

\* At most one element.
LEMMA SliceOne ==
  ASSUME NEW A, NEW s \in Seq(A)
  PROVE  Slice(s, 1) \in Seq(A) /\ ToSet(Slice(s, 1)) \subseteq ToSet(s) /\ Len(Slice(s, 1)) <= 1
  <1>1. PICK n \in Nat : n = 1
    OBVIOUS
  <1>2. Slice(s, n) \in Seq(A) /\ ToSet(Slice(s, n)) \subseteq ToSet(s) /\ Len(Slice(s, n)) <= n
    BY SliceWithin
  <1> QED
    BY <1>1, <1>2, Zenon

\* A list is one of its elements.
LEMMA OwnElements ==
  ASSUME NEW A, NEW s \in Seq(A)
  PROVE  s \in Seq(ToSet(s))
  <1>1. Len(s) \in Nat /\ DOMAIN s = 1..Len(s) /\ \A i \in 1..Len(s) : s[i] \in ToSet(s)
    BY ElementIs, ToSetIs
  <1> DEFINE B == ToSet(s)
  <1> HIDE DEF B
  <1>2. s \in [1..Len(s) -> B]
    <2>1. s = [i \in 1..Len(s) |-> s[i]]
      BY <1>1
    <2> QED
      BY <1>1, <2>1 DEF B
  <1> QED
    BY <1>1, <1>2, SeqIs DEF B

FreshAt(g, chain) == {i \in DOMAIN g.callees[Last(chain).id] : \A k \in DOMAIN chain : chain[k].id # g.callees[Last(chain).id][i]}
FreshOf(g, chain) == Picked(g.callees[Last(chain).id], FreshAt(g, chain))
HopNodes(g, chain) == [i \in DOMAIN FreshOf(g, chain) |-> NodeOf(g, FreshOf(g, chain)[i])]
HopMerit(g, chain, n) == (IF n.file # Last(chain).file THEN 100 ELSE 0) + OutDegree(g, n.id)
HopMerits(g, chain) == [i \in DOMAIN HopNodes(g, chain) |-> HopMerit(g, chain, HopNodes(g, chain)[i])]

\* What the next hop is put together from.
LEMMA HopParts ==
  ASSUME NEW g, NEW chain
  PROVE  NextHop(g, chain) = IF Readable(g, Last(chain).id) THEN Slice(Ranked(HopNodes(g, chain), HopMerits(g, chain)), 1) ELSE <<>>
  BY Zenon DEF NextHop, Select, Descending, FreshAt, FreshOf, HopNodes, HopMerit, HopMerits

\* The symbols of a graph and their ids.
LEMMA GraphNodes ==
  ASSUME NEW g, IsGraph(g)
  PROVE  /\ g.nodes \in Seq(Symbols) /\ g.callees \in [SymbolIds(g) -> Seq(SymbolIds(g))]
         /\ \A n \in ToSet(g.nodes) : n.id \in SymbolIds(g) /\ n \in Symbols
         /\ \A n, o \in ToSet(g.nodes) : n.id = o.id => n = o
         /\ \A id \in SymbolIds(g) : NodeOf(g, id) \in ToSet(g.nodes) /\ NodeOf(g, id).id = id
  <1>1. g.nodes \in Seq(Symbols) /\ g.callees \in [SymbolIds(g) -> Seq(SymbolIds(g))]
        /\ \A n, o \in ToSet(g.nodes) : n.id = o.id => n = o
    BY DEF IsGraph
  <1>2. ToSet(g.nodes) \subseteq Symbols
    BY <1>1, ToSetIs
  <1>3. ASSUME NEW id \in SymbolIds(g) PROVE NodeOf(g, id) \in ToSet(g.nodes) /\ NodeOf(g, id).id = id
    <2>1. \E n \in ToSet(g.nodes) : n.id = id
      BY DEF SymbolIds
    <2> QED
      BY <2>1 DEF NodeOf
  <1> QED
    BY <1>1, <1>2, <1>3 DEF SymbolIds

\* An out-degree is a number.
LEMMA OutDegreeIs ==
  ASSUME NEW g, IsGraph(g), NEW id \in SymbolIds(g)
  PROVE  OutDegree(g, id) \in Nat
  <1>1. g.callees[id] \in Seq(SymbolIds(g))
    BY GraphNodes
  <1>2. Len(g.callees[id]) \in Nat
    BY <1>1, ElementIs
  <1> QED
    BY <1>2 DEF OutDegree

Nodes(g) == ToSet(g.nodes)

\* The next hop is at most one symbol: a callee, and not visited.
LEMMA NextHopIs ==
  ASSUME NEW g, IsGraph(g), NEW chain \in Seq(Nodes(g)), Len(chain) >= 1
  PROVE  /\ NextHop(g, chain) \in Seq(Nodes(g)) /\ Len(NextHop(g, chain)) <= 1
         /\ \A i \in 1..Len(NextHop(g, chain)) : /\ NextHop(g, chain)[i].id \in ToSet(g.callees[Last(chain).id])
                                                 /\ \A k \in 1..Len(chain) : chain[k].id # NextHop(g, chain)[i].id
  <1> DEFINE here == Last(chain)
             calls == g.callees[here.id]
             fresh == FreshOf(g, chain)
             nodes == HopNodes(g, chain)
             w == HopMerits(g, chain)
             n == Len(nodes)
             hop == NextHop(g, chain)
  <1>1. here \in Nodes(g) /\ Len(chain) \in Nat /\ DOMAIN chain = 1..Len(chain)
    <2>1. Len(chain) \in Nat /\ DOMAIN chain = 1..Len(chain) /\ \A i \in 1..Len(chain) : chain[i] \in Nodes(g)
      BY ElementIs
    <2>2. Len(chain) \in 1..Len(chain) /\ here = chain[Len(chain)]
      BY <2>1 DEF Last
    <2> QED
      BY <2>1, <2>2
  <1>2. here.id \in SymbolIds(g)
    BY <1>1, GraphNodes DEF Nodes
  <1>3. calls \in Seq(SymbolIds(g))
    BY <1>2, GraphNodes
  <1>4. DOMAIN calls = 1..Len(calls)
    BY <1>3, ElementIs
  <1> HIDE DEF calls, here, hop
  <1>5. /\ fresh \in Seq(SymbolIds(g))
        /\ \A x : x \in ToSet(fresh) <=> \E i \in 1..Len(calls) : i \in FreshAt(g, chain) /\ calls[i] = x
    BY <1>3, SelectIs DEF FreshOf, calls, here
  <1>6. \A x \in ToSet(fresh) : x \in ToSet(calls) /\ \A k \in 1..Len(chain) : chain[k].id # x
    <2>1. \A i \in FreshAt(g, chain) : \A k \in 1..Len(chain) : chain[k].id # calls[i]
      BY <1>1 DEF FreshAt, calls, here
    <2>2. \A i \in 1..Len(calls) : calls[i] \in ToSet(calls)
      BY <1>3, ToSetIs
    <2> QED
      BY <1>5, <2>1, <2>2
  <1>7. nodes = [i \in DOMAIN fresh |-> NodeOf(g, fresh[i])]
    BY DEF HopNodes
  <1> HIDE DEF fresh, nodes
  <1>8. DOMAIN fresh = 1..Len(fresh) /\ Len(fresh) \in Nat /\ \A i \in 1..Len(fresh) : fresh[i] \in SymbolIds(g) /\ fresh[i] \in ToSet(fresh)
    BY <1>5, ElementIs, ToSetIs
  <1>9. \A i \in 1..Len(fresh) : nodes[i] \in Nodes(g) /\ nodes[i].id = fresh[i]
    BY <1>7, <1>8, GraphNodes DEF Nodes
  <1>10. nodes \in Seq(Nodes(g)) /\ n = Len(fresh) /\ DOMAIN nodes = 1..n /\ n \in Nat
    <2>1. nodes \in [1..Len(fresh) -> Nodes(g)]
      BY <1>7, <1>8, <1>9
    <2> QED
      BY <1>8, <2>1, SeqIs
  <1>11. w \in [1..n -> Int]
    <2>1. w = [i \in 1..n |-> HopMerit(g, chain, nodes[i])]
      BY <1>10 DEF HopMerits, nodes
    <2>2. \A i \in 1..n : HopMerit(g, chain, nodes[i]) \in Int
      <3> SUFFICES ASSUME NEW i \in 1..n PROVE HopMerit(g, chain, nodes[i]) \in Int
        OBVIOUS
      <3>1. nodes[i].id \in SymbolIds(g)
        BY <1>9, <1>10, GraphNodes DEF Nodes
      <3>2. OutDegree(g, nodes[i].id) \in Nat
        BY <3>1, OutDegreeIs
      <3> QED
        BY <3>2 DEF HopMerit
    <2> HIDE DEF w
    <2> QED
      BY <2>1, <2>2
  <1> DEFINE ranked == Ranked(nodes, w)
  <1> HIDE DEF w, n
  <1>12. ranked \in Seq(Nodes(g)) /\ ToSet(ranked) = ToSet(nodes)
    <2>1. n = Len(nodes)
      BY DEF n
    <2> QED
      BY <1>10, <1>11, <2>1, RankedIs
  <1> HIDE DEF ranked
  <1>13. /\ Slice(ranked, 1) \in Seq(Nodes(g)) /\ Len(Slice(ranked, 1)) <= 1
         /\ ToSet(Slice(ranked, 1)) \subseteq ToSet(ranked)
    BY <1>12, SliceOne
  <1>14. hop = (IF Readable(g, here.id) THEN Slice(ranked, 1) ELSE <<>>)
    BY HopParts DEF hop, ranked, w, nodes, here
  <1>15. hop \in Seq(Nodes(g)) /\ Len(hop) <= 1 /\ ToSet(hop) \subseteq ToSet(nodes)
    <2>1. CASE Readable(g, here.id)
      BY <1>12, <1>13, <1>14, <2>1
    <2>2. CASE ~Readable(g, here.id)
      <3>1. hop = <<>>
        BY <1>14, <2>2
      <3>2. hop \in Seq(Nodes(g)) /\ Len(hop) = 0 /\ ToSet(hop) = {}
        BY <3>1, EmptyIs
      <3> QED
        BY <3>2
    <2> QED
      BY <2>1, <2>2
  <1>16. ASSUME NEW i \in 1..Len(hop)
         PROVE  hop[i].id \in ToSet(calls) /\ \A k \in 1..Len(chain) : chain[k].id # hop[i].id
    <2>1. hop[i] \in ToSet(nodes)
      BY <1>15, ToSetIs
    <2>2. PICK j \in 1..Len(nodes) : nodes[j] = hop[i]
      BY <1>10, <2>1, ToSetIs
    <2>3. j \in 1..Len(fresh)
      BY <1>10 DEF n
    <2>4. hop[i].id \in ToSet(fresh)
      BY <1>8, <1>9, <2>2, <2>3
    <2> QED
      BY <1>6, <2>4
  <1> QED
    BY <1>15, <1>16 DEF hop, calls, here

\* The chains there are, and one longer by a hop unless an earlier hop was missing.
Trails(g) == {w \in Seq(Nodes(g)) : Len(w) >= 1}
Longer(g, chain, i) == chain \o (IF Len(chain) < i THEN <<>> ELSE NextHop(g, chain))

\* A chain that goes on is a chain.
LEMMA LongerIs ==
  ASSUME NEW g, IsGraph(g), NEW chain \in Trails(g), NEW i
  PROVE  Longer(g, chain, i) \in Trails(g)
  <1>1. chain \in Seq(Nodes(g)) /\ Len(chain) >= 1
    BY DEF Trails
  <1> DEFINE more == IF Len(chain) < i THEN <<>> ELSE NextHop(g, chain)
  <1>2. more \in Seq(Nodes(g))
    BY <1>1, NextHopIs, EmptyIs
  <1> HIDE DEF more
  <1>3. chain \o more \in Seq(Nodes(g)) /\ Len(chain \o more) = Len(chain) + Len(more) /\ Len(chain) \in Nat /\ Len(more) \in Nat
    BY <1>1, <1>2, ConcatIs, ElementIs
  <1>4. Longer(g, chain, i) = chain \o more
    BY DEF Longer, more
  <1> QED
    BY <1>1, <1>3, <1>4 DEF Trails

WalkRun(h, g, seed, c) ==
  /\ h \in [0..(c.steps - 1) -> Trails(g)]
  /\ h[0] = <<seed>>
  /\ \A k \in 1..(c.steps - 1) : h[k] = Longer(g, h[k - 1], Numbers(c.steps - 1)[k])
  /\ Walk(g, seed, c) = h[(c.steps - 1)]

\* The walk from a seed, hop by hop.
LEMMA WalkRuns ==
  ASSUME NEW g, IsGraph(g), NEW c, c.steps \in Nat \ {0}, NEW seed \in Nodes(g)
  PROVE  \E h : WalkRun(h, g, seed, c)
  <1> DEFINE n == (c.steps - 1)
             step == [k \in 1..n |-> [acc \in Trails(g) |-> Longer(g, acc, Numbers(c.steps - 1)[k])]]
             Eq(f) == f = [S \in SUBSET (1..n) |->
                             IF S = {} THEN <<seed>> ELSE Longer(g, f[S \ {Max(S)}], Numbers(c.steps - 1)[Max(S)])]
             F == CHOOSE f : Eq(f)
  <1>1. n \in Nat /\ DOMAIN Numbers(c.steps - 1) = 1..n /\ <<seed>> \in Trails(g) /\ \A acc \in Trails(g) : \A k \in 1..n : Longer(g, acc, Numbers(c.steps - 1)[k]) \in Trails(g)
    BY LongerIs, SingleIs DEF Trails, Numbers
  <1>2. step \in [1..n -> [Trails(g) -> Trails(g)]]
    BY <1>1
  <1>3. \A S \in SUBSET (1..n) : S # {} => Max(S) \in 1..n /\ S \ {Max(S)} \in SUBSET (1..n)
    <2> TAKE S \in SUBSET (1..n)
    <2>1. S \subseteq 0..n
      BY <1>1
    <2> QED
      BY <1>1, <2>1, MaxIsGreatest
  <1>4. \E f : Eq(f)
    <2>1. PICK f : FoldOver(f, n, Trails(g), <<seed>>, step)
      <3> HIDE DEF step, n, Eq, F
      <3> QED
        BY <1>1, <1>2, FoldExists
    <2>2. Eq(f)
      BY <1>3, <2>1 DEF FoldOver
    <2> QED
      BY <2>2
  <1>5. Eq(F)
    <2> HIDE DEF Eq
    <2> QED
      BY <1>4
  <1>6. Walk(g, seed, c) = F[1..n]
    BY <1>1 DEF Walk, Longer, Numbers, FoldLeft, MapThenFoldSet
  <1>7. Outcome(F[1..n], n, Trails(g), <<seed>>, step)
    <2>1. FoldedBy(F, n, Trails(g), <<seed>>, step)
      <3>1. F[{}] = <<seed>>
        BY <1>5
      <3>2. ASSUME NEW S \in SUBSET (1..n), S # {}, F[S \ {Max(S)}] \in Trails(g)
            PROVE  F[S] = step[Max(S)][F[S \ {Max(S)}]]
        <4>1. F[S] = Longer(g, F[S \ {Max(S)}], Numbers(c.steps - 1)[Max(S)])
          BY <1>5, <3>2
        <4> HIDE DEF F
        <4> QED
          BY <1>3, <3>2, <4>1
      <3> HIDE DEF F, step
      <3> QED
        BY <3>1, <3>2 DEF FoldedBy
    <2> HIDE DEF step, F, n, Eq
    <2> QED
      BY <1>1, <1>2, <2>1, FoldIs
  <1>8. PICK h : Running(h, n, Trails(g), <<seed>>, step) /\ h[n] = F[1..n]
    <2> HIDE DEF step, F, n, Eq
    <2> QED
      BY <1>7 DEF Outcome
  <1>9. h \in [0..n -> Trails(g)] /\ h[0] = <<seed>> /\ \A k \in 1..n : h[k] = step[k][h[k - 1]]
    <2> HIDE DEF step, n
    <2> QED
      BY <1>8 DEF Running
  <1>10. ASSUME NEW k \in 1..n PROVE h[k] = Longer(g, h[k - 1], Numbers(c.steps - 1)[k])
    <2>1. k - 1 \in 0..n
      BY <1>1
    <2>2. h[k - 1] \in Trails(g)
      <3> HIDE DEF n
      <3> QED
        BY <1>9, <2>1
    <2> QED
      BY <1>9, <2>2
  <1>11. WalkRun(h, g, seed, c)
    <2> HIDE DEF F
    <2> QED
      BY <1>6, <1>8, <1>9, <1>10 DEF WalkRun
  <1> QED
    BY <1>11

\* A walk of at most l symbols along calls, no symbol twice.
Chained(g, w, l) ==
  /\ w \in Seq(Nodes(g)) /\ Len(w) \in 1..l
  /\ \A i \in 2..Len(w) : w[i].id \in ToSet(g.callees[w[i - 1].id])
  /\ \A i, j \in 1..Len(w) : w[i].id = w[j].id => i = j

\* One hop more keeps a walk along calls, with no symbol twice.
LEMMA LongerKeeps ==
  ASSUME NEW g, IsGraph(g), NEW k \in Nat \ {0}, NEW w, Chained(g, w, k)
  PROVE  Chained(g, Longer(g, w, k), k + 1)
  <1>1. /\ w \in Seq(Nodes(g)) /\ Len(w) \in 1..k
        /\ \A i \in 2..Len(w) : w[i].id \in ToSet(g.callees[w[i - 1].id])
        /\ \A i, j \in 1..Len(w) : w[i].id = w[j].id => i = j
    BY DEF Chained
  <1> DEFINE hop == NextHop(g, w)
             more == IF Len(w) < k THEN <<>> ELSE hop
             t == w \o more
  <1>2. /\ hop \in Seq(Nodes(g)) /\ Len(hop) <= 1
        /\ \A i \in 1..Len(hop) : /\ hop[i].id \in ToSet(g.callees[Last(w).id])
                                  /\ \A j \in 1..Len(w) : w[j].id # hop[i].id
    <2>1. Len(w) >= 1
      BY <1>1
    <2> QED
      BY <1>1, <2>1, NextHopIs
  <1>3. Last(w) = w[Len(w)]
    BY DEF Last
  <1> HIDE DEF hop
  <1>4. /\ more \in Seq(Nodes(g)) /\ Len(more) <= 1 /\ Len(more) \in Nat
        /\ \A i \in 1..Len(more) : /\ more[i].id \in ToSet(g.callees[w[Len(w)].id])
                                   /\ \A j \in 1..Len(w) : w[j].id # more[i].id
    <2>1. CASE Len(w) < k
      <3>1. more = <<>>
        BY <2>1
      <3>2. more \in Seq(Nodes(g)) /\ Len(more) = 0
        BY <3>1, EmptyIs
      <3> HIDE DEF more
      <3> QED
        BY <3>2
    <2>2. CASE ~(Len(w) < k)
      <3>1. more = hop
        BY <2>2
      <3>2. Len(hop) \in Nat
        BY <1>2, ElementIs
      <3> HIDE DEF more
      <3> QED
        BY <1>2, <1>3, <3>1, <3>2
    <2> QED
      BY <2>1, <2>2
  <1> HIDE DEF more
  <1>5. /\ t \in Seq(Nodes(g)) /\ Len(t) = Len(w) + Len(more)
        /\ \A p \in 1..Len(w) : t[p] = w[p]
        /\ \A p \in 1..Len(more) : t[Len(w) + p] = more[p]
    BY <1>1, <1>4, ConcatIs
  <1> HIDE DEF t
  <1> DEFINE a == Len(w)
  <1>6. a \in Nat /\ a \in 1..k /\ Len(t) \in 1..(k + 1) /\ Len(t) \in {a, a + 1}
    BY <1>1, <1>4, <1>5
  <1>7. Len(t) = a + 1 => /\ t[a + 1].id \in ToSet(g.callees[w[a].id])
                          /\ \A j \in 1..a : w[j].id # t[a + 1].id
    <2> SUFFICES ASSUME Len(t) = a + 1
                 PROVE  t[a + 1].id \in ToSet(g.callees[w[a].id]) /\ \A j \in 1..a : w[j].id # t[a + 1].id
      OBVIOUS
    <2>1. 1 \in 1..Len(more)
      BY <1>4, <1>5, <1>6
    <2>2. t[a + 1] = more[1]
      BY <1>5, <2>1
    <2>3. more[1].id \in ToSet(g.callees[w[a].id]) /\ \A j \in 1..a : w[j].id # more[1].id
      BY <1>4, <2>1
    <2> QED
      BY <2>2, <2>3
  <1> HIDE DEF a
  <1>8. \A p \in 1..a : t[p] = w[p]
    BY <1>5 DEF a
  <1>9. ASSUME NEW i \in 2..Len(t) PROVE t[i].id \in ToSet(g.callees[t[i - 1].id])
    <2>1. CASE i \in 2..a
      <3>1. i \in 1..a /\ i - 1 \in 1..a
        BY <1>6, <2>1
      <3>2. t[i] = w[i] /\ t[i - 1] = w[i - 1]
        BY <1>8, <3>1
      <3> QED
        BY <1>1, <2>1, <3>2 DEF a
    <2>2. CASE i = a + 1
      <3>1. a \in 1..a /\ i - 1 = a /\ Len(t) = a + 1
        BY <1>6, <2>2
      <3>2. t[i - 1] = w[a]
        BY <1>8, <3>1
      <3> QED
        BY <1>7, <2>2, <3>1, <3>2
    <2> QED
      BY <1>6, <2>1, <2>2
  <1>10. ASSUME NEW i \in 1..Len(t), NEW j \in 1..Len(t), t[i].id = t[j].id PROVE i = j
    <2>1. CASE i \in 1..a /\ j \in 1..a
      BY <1>1, <1>8, <1>10, <2>1 DEF a
    <2>2. CASE i \in 1..a /\ j = a + 1
      BY <1>6, <1>7, <1>8, <1>10, <2>2
    <2>3. CASE i = a + 1 /\ j \in 1..a
      BY <1>6, <1>7, <1>8, <1>10, <2>3
    <2> QED
      BY <1>6, <2>1, <2>2, <2>3
  <1>11. Longer(g, w, k) = t
    BY DEF Longer, t, more, hop
  <1> QED
    BY <1>5, <1>6, <1>9, <1>10, <1>11 DEF Chained

\* The walk from a seed follows calls and visits no symbol twice.
LEMMA WalkIs ==
  ASSUME NEW g, IsGraph(g), NEW c, c.steps \in Nat \ {0}, NEW seed \in Nodes(g)
  PROVE  Chained(g, Walk(g, seed, c), c.steps)
  <1> DEFINE n == c.steps - 1
  <1>1. PICK h : WalkRun(h, g, seed, c)
    BY WalkRuns
  <1>2. /\ n \in Nat /\ h[0] = <<seed>> /\ Walk(g, seed, c) = h[n]
        /\ \A k \in 1..n : h[k] = Longer(g, h[k - 1], k)
    <2>1. /\ h[0] = <<seed>> /\ Walk(g, seed, c) = h[n]
          /\ \A k \in 1..n : h[k] = Longer(g, h[k - 1], Numbers(n)[k])
      BY <1>1 DEF WalkRun
    <2>2. \A k \in 1..n : Numbers(n)[k] = k
      BY DEF Numbers
    <2> QED
      BY <2>1, <2>2
  <1> HIDE DEF n
  <1> DEFINE G == {k \in 0..n : Chained(g, h[k], k + 1)}
  <1>3. 0 \in G
    <2>1. <<seed>> \in Seq(Nodes(g)) /\ Len(<<seed>>) = 1
      BY SingleIs
    <2>2. Chained(g, h[0], 1)
      BY <1>2, <2>1 DEF Chained
    <2> QED
      BY <1>2, <2>2
  <1>4. ASSUME NEW k \in 1..n, k - 1 \in G PROVE k \in G
    <2>1. k \in Nat \ {0} /\ (k - 1) + 1 = k
      BY <1>2
    <2>2. Chained(g, h[k - 1], k)
      BY <1>4, <2>1
    <2>3. Chained(g, Longer(g, h[k - 1], k), k + 1)
      BY <2>1, <2>2, LongerKeeps
    <2> QED
      BY <1>2, <2>3
  <1>5. 0..n \subseteq G
    <2> HIDE DEF G
    <2> QED
      BY <1>2, <1>3, <1>4, Stepwise
  <1>6. n \in 0..n /\ n + 1 = c.steps
    BY <1>2 DEF n
  <1> QED
    BY <1>2, <1>5, <1>6

FoundAt(g, r) == {i \in DOMAIN g.nodes : /\ g.nodes[i].file = r.file /\ g.nodes[i].name = r.handler /\ g.nodes[i].kind \in {"function", "method"}
                                         /\ Readable(g, g.nodes[i].file)}
FoundFor(g, r) == Slice(Picked(g.nodes, FoundAt(g, r)), 1)
Routed(g) == FirstTimes(FlattenSeq([i \in DOMAIN g.routes |-> FoundFor(g, g.routes[i])]))
ExportedAt(g) == {i \in DOMAIN g.nodes : g.nodes[i].kind = "function" /\ g.nodes[i].exported}
ExportedSeeds(g, c) == Slice(Picked(g.nodes, ExportedAt(g)), 2 * c.seeds)
Degrees(g, nodes) == [i \in DOMAIN nodes |-> OutDegree(g, nodes[i].id)]

\* What the seeds are put together from.
LEMMA SeedParts ==
  ASSUME NEW g, NEW c
  PROVE  ChainSeeds(g, c) = IF Routed(g) # <<>> THEN Routed(g)
                            ELSE Slice(Ranked(ExportedSeeds(g, c), Degrees(g, ExportedSeeds(g, c))), c.seeds)
  BY Zenon DEF ChainSeeds, Select, Descending, FoundAt, FoundFor, Routed, ExportedAt, ExportedSeeds, Degrees

\* The out-degrees of a list of symbols are numbers.
LEMMA DegreesAre ==
  ASSUME NEW g, IsGraph(g), NEW nodes \in Seq(Nodes(g))
  PROVE  Degrees(g, nodes) \in [1..Len(nodes) -> Int]
  <1>1. DOMAIN nodes = 1..Len(nodes) /\ \A i \in 1..Len(nodes) : nodes[i] \in Nodes(g)
    BY ElementIs
  <1>2. \A i \in 1..Len(nodes) : OutDegree(g, nodes[i].id) \in Int
    <2> TAKE i \in 1..Len(nodes)
    <2>1. nodes[i].id \in SymbolIds(g)
      BY <1>1, GraphNodes DEF Nodes
    <2> QED
      BY <2>1, OutDegreeIs
  <1> QED
    BY <1>1, <1>2 DEF Degrees

\* The seeds are symbols.
LEMMA SeedsAre ==
  ASSUME NEW g, IsGraph(g), NEW c, c.seeds \in Nat
  PROVE  ChainSeeds(g, c) \in Seq(Nodes(g))
  <1>1. g.nodes \in Seq(Nodes(g))
    BY GraphNodes, OwnElements DEF Nodes
  <1>2. \A r : FoundFor(g, r) \in Seq(Nodes(g))
    BY <1>1, SelectIs, SliceOne DEF FoundFor
  <1>3. Routed(g) \in Seq(Nodes(g))
    <2> DEFINE ss == [i \in DOMAIN g.routes |-> FoundFor(g, g.routes[i])]
    <2>1. DOMAIN g.routes = 1..Len(g.routes) /\ Len(g.routes) \in Nat
      <3>1. g.routes \in Seq([file : STRING, handler : STRING])
        BY DEF IsGraph
      <3> QED
        BY <3>1, ElementIs
    <2>2. ss \in Seq(Seq(Nodes(g)))
      <3>1. ss \in [1..Len(g.routes) -> Seq(Nodes(g))]
        BY <1>2, <2>1
      <3> HIDE DEF ss
      <3> QED
        BY <2>1, <3>1, SeqIs
    <2> HIDE DEF ss
    <2>3. FlattenSeq(ss) \in Seq(Nodes(g))
      BY <2>2, FlattenIs
    <2>4. FirstTimes(FlattenSeq(ss)) \in Seq(Nodes(g))
      BY <2>3, FirstTimesIs
    <2> QED
      BY <2>4 DEF Routed, ss
  <1> DEFINE t == ExportedSeeds(g, c)
  <1>4. t \in Seq(Nodes(g))
    <2>1. 2 * c.seeds \in Nat
      OBVIOUS
    <2>2. Picked(g.nodes, ExportedAt(g)) \in Seq(Nodes(g))
      BY <1>1, SelectIs
    <2> QED
      BY <2>1, <2>2, SliceWithin DEF ExportedSeeds
  <1> HIDE DEF t
  <1>5. Degrees(g, t) \in [1..Len(t) -> Int]
    BY <1>4, DegreesAre
  <1> DEFINE n == Len(t)
             w == Degrees(g, t)
  <1>6. n = Len(t)
    OBVIOUS
  <1> HIDE DEF n, w
  <1>7. Ranked(t, w) \in Seq(Nodes(g))
    BY <1>4, <1>5, <1>6, RankedIs DEF w
  <1>8. Slice(Ranked(t, w), c.seeds) \in Seq(Nodes(g))
    BY <1>7, SliceWithin
  <1> QED
    BY <1>3, <1>8, SeedParts DEF t, w

WalksOf(g, c) == [i \in DOMAIN Slice(ChainSeeds(g, c), c.seeds) |-> Walk(g, Slice(ChainSeeds(g, c), c.seeds)[i], c)]
LongAt(g, c) == {i \in DOMAIN WalksOf(g, c) : Len(WalksOf(g, c)[i]) >= c.minSteps}

\* What the chains are put together from.
LEMMA ChainParts ==
  ASSUME NEW g, NEW c
  PROVE  CallChains(g, c).chains = Slice(Picked(WalksOf(g, c), LongAt(g, c)), c.chains)
  BY Zenon DEF CallChains, Select, WalksOf, LongAt

\* The chains of a graph are walks, none too short.
LEMMA ChainsAre ==
  ASSUME NEW g, IsGraph(g), NEW c, c.steps \in Nat \ {0}, c.minSteps \in Nat, c.seeds \in Nat, c.chains \in Nat
  PROVE  /\ CallChains(g, c).chains \in Seq(Seq(Nodes(g)))
         /\ \A w \in ToSet(CallChains(g, c).chains) : Chained(g, w, c.steps) /\ Len(w) >= c.minSteps
  <1> DEFINE seeds == Slice(ChainSeeds(g, c), c.seeds)
             walks == WalksOf(g, c)
             n == Len(seeds)
             all == Picked(walks, LongAt(g, c))
             T == {w \in Seq(Nodes(g)) : Chained(g, w, c.steps)}
  <1>1. seeds \in Seq(Nodes(g))
    BY SeedsAre, SliceWithin
  <1> HIDE DEF seeds
  <1>2. n \in Nat /\ DOMAIN seeds = 1..n /\ \A i \in 1..n : seeds[i] \in Nodes(g)
    BY <1>1, ElementIs
  <1>3. walks = [i \in 1..n |-> Walk(g, seeds[i], c)]
    BY <1>2 DEF WalksOf, seeds
  <1>4. \A i \in 1..n : Walk(g, seeds[i], c) \in T
    <2> TAKE i \in 1..n
    <2>1. Chained(g, Walk(g, seeds[i], c), c.steps)
      BY <1>2, WalkIs
    <2> QED
      BY <2>1 DEF Chained
  <1> HIDE DEF walks, T, n
  <1>5. walks \in Seq(T) /\ Len(walks) = n /\ DOMAIN walks = 1..n
    <2>1. walks \in [1..n -> T]
      BY <1>3, <1>4
    <2> QED
      BY <1>2, <2>1, SeqIs
  <1>6. all \in Seq(T) /\ \A x \in ToSet(all) : \E i \in 1..Len(walks) : i \in LongAt(g, c) /\ walks[i] = x
    BY <1>5, SelectIs
  <1>7. \A x \in ToSet(all) : Len(x) >= c.minSteps
    BY <1>6 DEF LongAt, walks
  <1> HIDE DEF all
  <1> DEFINE t == Slice(all, c.chains)
  <1>8. t \in Seq(T) /\ ToSet(t) \subseteq ToSet(all)
    BY <1>6, SliceWithin
  <1>9. CallChains(g, c).chains = t
    BY ChainParts DEF t, all, walks
  <1> HIDE DEF t
  <1>10. t \in Seq(Seq(Nodes(g))) /\ ToSet(t) \subseteq T
    <2>1. T \subseteq Seq(Nodes(g))
      BY DEF T
    <2> QED
      BY <1>8, <2>1, Wider, ToSetIs
  <1>11. \A x \in ToSet(t) : Chained(g, x, c.steps)
    BY <1>10 DEF T
  <1> QED
    BY <1>7, <1>8, <1>9, <1>10, <1>11

(***************************************************************************)
(* Edges and diagrams                                                      *)
(***************************************************************************)

\* A diagram is pushed or is not.
LEMMA PushedIs ==
  ASSUME NEW slug, NEW diagram, NEW c
  PROVE  Pushed(slug, diagram, c) \in Seq({[slug |-> slug, diagram |-> diagram]})
  <1> DEFINE A == {[slug |-> slug, diagram |-> diagram]}
             x == [slug |-> slug, diagram |-> diagram]
  <1>1. x \in A
    OBVIOUS
  <1>2. Pushed(slug, diagram, c) = (IF diagram.boxes < c.minNodes THEN <<>> ELSE <<x>>)
    BY DEF Pushed
  <1> HIDE DEF A, x
  <1>3. <<>> \in Seq(A) /\ <<x>> \in Seq(A)
    BY <1>1, EmptyIs, SingleIs
  <1>4. Pushed(slug, diagram, c) \in Seq(A)
    BY <1>2, <1>3, Zenon
  <1> QED
    BY <1>4 DEF A

FlowFrom(chains, flows, c) == Slice(IF chains # <<>> THEN chains ELSE flows, c.flows)
FlowDrawn(chains, flows, c, i) ==
  IF chains # <<>> THEN SequenceFromChain(FlowFrom(chains, flows, c)[i], c) ELSE SequenceDiagram(FlowFrom(chains, flows, c)[i], c)
FlowEntries(chains, flows, c) ==
  {[slug |-> <<"request-flow", i>>, diagram |-> FlowDrawn(chains, flows, c, i)] : i \in 1..Len(FlowFrom(chains, flows, c))}

\* What the request flows are put together from.
LEMMA FlowParts ==
  ASSUME NEW chains, NEW flows, NEW c
  PROVE  RequestFlows(chains, flows, c) =
           FlattenSeq([i \in DOMAIN FlowFrom(chains, flows, c) |-> Pushed(<<"request-flow", i>>, FlowDrawn(chains, flows, c, i), c)])
  BY Zenon DEF RequestFlows, FlowFrom, FlowDrawn

\* A flow is drawn from a chain, or from what was said if there is none.
LEMMA FlowFromIs ==
  ASSUME NEW A, NEW B, NEW chains \in Seq(A), NEW flows \in Seq(B), NEW c, c.flows \in Nat
  PROVE  /\ FlowFrom(chains, flows, c) \in Seq(A \cup B)
         /\ ToSet(FlowFrom(chains, flows, c)) \subseteq (IF chains # <<>> THEN ToSet(chains) ELSE ToSet(flows))
  <1>1. chains \in Seq(A \cup B) /\ flows \in Seq(A \cup B)
    BY Wider
  <1> DEFINE s == IF chains # <<>> THEN chains ELSE flows
  <1>2. s \in Seq(A \cup B)
    BY <1>1
  <1>3. (chains # <<>> => s = chains) /\ (chains = <<>> => s = flows) /\ FlowFrom(chains, flows, c) = Slice(s, c.flows)
    BY DEF FlowFrom
  <1> HIDE DEF s
  <1>4. Slice(s, c.flows) \in Seq(A \cup B) /\ ToSet(Slice(s, c.flows)) \subseteq ToSet(s)
    BY <1>2, SliceWithin
  <1> QED
    BY <1>3, <1>4

\* Every request flow is one of the flows drawn.
LEMMA FlowsAre ==
  ASSUME NEW A, NEW B, NEW chains \in Seq(A), NEW flows \in Seq(B), NEW c, c.flows \in Nat
  PROVE  RequestFlows(chains, flows, c) \in Seq(FlowEntries(chains, flows, c))
  <1> DEFINE from == FlowFrom(chains, flows, c)
             n == Len(from)
             E == FlowEntries(chains, flows, c)
             P(i) == Pushed(<<"request-flow", i>>, FlowDrawn(chains, flows, c, i), c)
             ss == [i \in DOMAIN from |-> P(i)]
  <1>1. n \in Nat /\ DOMAIN from = 1..n
    BY FlowFromIs, ElementIs
  <1>2. ASSUME NEW i \in 1..n PROVE P(i) \in Seq(E)
    <2> DEFINE x == [slug |-> <<"request-flow", i>>, diagram |-> FlowDrawn(chains, flows, c, i)]
    <2>1. x \in E
      BY DEF FlowEntries
    <2>2. P(i) \in Seq({x})
      BY PushedIs
    <2> HIDE DEF x, E
    <2>3. {x} \subseteq E
      BY <2>1
    <2> HIDE DEF P
    <2> QED
      BY <2>2, <2>3, Wider
  <1> HIDE DEF P, E, from, n
  <1>3. ss \in Seq(Seq(E))
    <2>1. ss \in [1..n -> Seq(E)]
      BY <1>1, <1>2
    <2> HIDE DEF ss
    <2> QED
      BY <1>1, <2>1, SeqIs
  <1> HIDE DEF ss
  <1>4. FlattenSeq(ss) \in Seq(E)
    BY <1>3, FlattenIs
  <1> QED
    BY <1>4, FlowParts, Zenon DEF ss, from, P, E

Entry(slug, diagram) == [slug |-> slug, diagram |-> diagram]
ArchitectureOf(facts, said, c) ==
  IF facts.edges # <<>> THEN ModuleGraph([i \in DOMAIN facts.modules |-> facts.modules[i].name], facts.edges, c)
  ELSE ModuleGraph(said.modules, said.edges, c)
FlowOfFacts(g, facts, c) == Entry(<<"system-flow", 0>>, SystemFlow(g, facts.chains, facts.imports, c))
OthersOf(facts, said, c) ==
  {Entry(<<"architecture-modules", 0>>, ArchitectureOf(facts, said, c)),
   Entry(<<"security-auth-flow", 0>>, SecurityFlow(said.authSteps, said.severe, c)),
   Entry(<<"dependency-graph", 0>>, DependencyGraph(said.runtime, facts.imports, c)),
   Entry(<<"quality-donut", 0>>, Diagram(<<>>, <<>>)),
   Entry(<<"health-gauge", 0>>, Diagram(<<>>, <<>>))}
Entries(g, facts, said, c) ==
  {x \in {FlowOfFacts(g, facts, c)} : facts.there} \cup OthersOf(facts, said, c) \cup FlowEntries(facts.chains, said.flows, c)

\* Every diagram is one of those buildAll names, by its slug.
LEMMA BuiltIs ==
  ASSUME NEW g, NEW facts, NEW said, NEW c, NEW A, NEW B, facts.chains \in Seq(A), said.flows \in Seq(B), c.flows \in Nat
  PROVE  BuildAll(g, facts, said, c) \in Seq(Entries(g, facts, said, c))
  <1> DEFINE E == Entries(g, facts, said, c)
             s1 == IF facts.there THEN Pushed(<<"system-flow", 0>>, SystemFlow(g, facts.chains, facts.imports, c), c) ELSE <<>>
             s2 == Pushed(<<"architecture-modules", 0>>, ArchitectureOf(facts, said, c), c)
             s3 == RequestFlows(facts.chains, said.flows, c)
             s4 == Pushed(<<"security-auth-flow", 0>>, SecurityFlow(said.authSteps, said.severe, c), c)
             s5 == Pushed(<<"dependency-graph", 0>>, DependencyGraph(said.runtime, facts.imports, c), c)
             s6 == <<Entry(<<"quality-donut", 0>>, Diagram(<<>>, <<>>)), Entry(<<"health-gauge", 0>>, Diagram(<<>>, <<>>))>>
  <1>1. s1 \in Seq(E)
    <2>1. CASE facts.there
      <3>1. s1 \in Seq({FlowOfFacts(g, facts, c)})
        BY <2>1, PushedIs DEF FlowOfFacts, Entry
      <3>2. {FlowOfFacts(g, facts, c)} \subseteq E
        BY <2>1 DEF Entries
      <3> HIDE DEF s1, E
      <3> QED
        BY <3>1, <3>2, Wider
    <2>2. CASE ~facts.there
      <3>1. s1 = <<>>
        BY <2>2
      <3> HIDE DEF s1, E
      <3> QED
        BY <3>1, EmptyIs
    <2> QED
      BY <2>1, <2>2
  <1>2. s2 \in Seq(E)
    <2>1. s2 \in Seq({Entry(<<"architecture-modules", 0>>, ArchitectureOf(facts, said, c))})
      BY PushedIs DEF Entry
    <2>2. {Entry(<<"architecture-modules", 0>>, ArchitectureOf(facts, said, c))} \subseteq E
      BY DEF Entries, OthersOf
    <2> HIDE DEF s2, E
    <2> QED
      BY <2>1, <2>2, Wider
  <1>3. s3 \in Seq(E)
    <2>1. s3 \in Seq(FlowEntries(facts.chains, said.flows, c))
      BY FlowsAre
    <2>2. FlowEntries(facts.chains, said.flows, c) \subseteq E
      BY DEF Entries
    <2> HIDE DEF s3, E
    <2> QED
      BY <2>1, <2>2, Wider
  <1>4. s4 \in Seq(E)
    <2>1. s4 \in Seq({Entry(<<"security-auth-flow", 0>>, SecurityFlow(said.authSteps, said.severe, c))})
      BY PushedIs DEF Entry
    <2>2. {Entry(<<"security-auth-flow", 0>>, SecurityFlow(said.authSteps, said.severe, c))} \subseteq E
      BY DEF Entries, OthersOf
    <2> HIDE DEF s4, E
    <2> QED
      BY <2>1, <2>2, Wider
  <1>5. s5 \in Seq(E)
    <2>1. s5 \in Seq({Entry(<<"dependency-graph", 0>>, DependencyGraph(said.runtime, facts.imports, c))})
      BY PushedIs DEF Entry
    <2>2. {Entry(<<"dependency-graph", 0>>, DependencyGraph(said.runtime, facts.imports, c))} \subseteq E
      BY DEF Entries, OthersOf
    <2> HIDE DEF s5, E
    <2> QED
      BY <2>1, <2>2, Wider
  <1>6. s6 \in Seq(E)
    <2>1. Entry(<<"quality-donut", 0>>, Diagram(<<>>, <<>>)) \in E /\ Entry(<<"health-gauge", 0>>, Diagram(<<>>, <<>>)) \in E
      BY DEF Entries, OthersOf
    <2> HIDE DEF E
    <2> QED
      BY <2>1
  <1>7. BuildAll(g, facts, said, c) = s1 \o s2 \o s3 \o s4 \o s5 \o s6
    BY Zenon DEF BuildAll, ArchitectureOf, Entry
  <1> HIDE DEF s1, s2, s3, s4, s5, s6, E
  <1>8. s1 \o s2 \o s3 \in Seq(E)
    BY <1>1, <1>2, <1>3, ConcatIs
  <1>9. s1 \o s2 \o s3 \o s4 \o s5 \in Seq(E)
    BY <1>4, <1>5, <1>8, ConcatIs
  <1>10. s1 \o s2 \o s3 \o s4 \o s5 \o s6 \in Seq(E)
    BY <1>6, <1>9, ConcatIs
  <1> QED
    BY <1>7, <1>10 DEF E

\* The elements of a flattened list are those of its parts.
LEMMA FlattenElements ==
  ASSUME NEW A, NEW ss \in Seq(Seq(A))
  PROVE  \A x : x \in ToSet(FlattenSeq(ss)) <=> \E j \in 1..Len(ss) : x \in ToSet(ss[j])
  <1> DEFINE t == FlattenSeq(ss)
             k == Len(ss)
  <1>1. t \in Seq(A)
    BY FlattenIs
  <1>2. PICK off : Laid(off, t, ss, k)
    BY FlattenIs
  <1> HIDE DEF t
  <1>3. /\ off \in [0..k -> Nat] /\ off[0] = 0 /\ off[k] = Len(t)
        /\ \A j \in 1..k : off[j] = off[j - 1] + Len(ss[j])
        /\ \A i, j \in 0..k : i <= j => off[i] <= off[j]
        /\ \A j \in 1..k : \A p \in 1..Len(ss[j]) : t[off[j - 1] + p] = ss[j][p]
        /\ \A i \in 1..Len(t) : \E j \in 1..k : \E p \in 1..Len(ss[j]) : i = off[j - 1] + p
    BY <1>2 DEF Laid
  <1>4. k \in Nat /\ \A j \in 1..k : ss[j] \in Seq(A) /\ Len(ss[j]) \in Nat
    BY ElementIs
  <1> HIDE DEF k
  <1>5. \A x : x \in ToSet(t) <=> \E i \in 1..Len(t) : t[i] = x
    BY <1>1, ToSetIs
  <1>6. \A j \in 1..k : \A x : x \in ToSet(ss[j]) <=> \E p \in 1..Len(ss[j]) : ss[j][p] = x
    <2> TAKE j \in 1..k
    <2>1. ss[j] \in Seq(A)
      BY <1>4
    <2> QED
      BY <2>1, ToSetIs
  <1>7. ASSUME NEW x, x \in ToSet(t) PROVE \E j \in 1..k : x \in ToSet(ss[j])
    <2>1. PICK i \in 1..Len(t) : t[i] = x
      BY <1>5, <1>7
    <2>2. PICK j \in 1..k : \E p \in 1..Len(ss[j]) : i = off[j - 1] + p
      BY <1>3
    <2>3. PICK p \in 1..Len(ss[j]) : i = off[j - 1] + p
      BY <2>2
    <2>4. ss[j][p] = x
      BY <1>3, <2>1, <2>3
    <2> QED
      BY <1>6, <2>4
  <1>8. ASSUME NEW x, NEW j \in 1..k, x \in ToSet(ss[j]) PROVE x \in ToSet(t)
    <2>1. PICK p \in 1..Len(ss[j]) : ss[j][p] = x
      BY <1>6, <1>8
    <2>2. t[off[j - 1] + p] = x
      BY <1>3, <2>1
    <2>3. /\ off[j - 1] \in Nat /\ Len(ss[j]) \in Nat /\ Len(t) \in Nat
          /\ off[j - 1] + Len(ss[j]) <= Len(t)
      <3>1. j - 1 \in 0..k /\ j \in 0..k /\ k \in 0..k /\ j <= k
        BY <1>4
      <3>2. off[j] <= off[k] /\ off[j] = off[j - 1] + Len(ss[j])
        BY <1>3, <3>1
      <3> QED
        BY <1>1, <1>3, <1>4, <3>1, <3>2, ElementIs
    <2>4. off[j - 1] + p \in 1..Len(t)
      BY <2>3, Inside
    <2> QED
      BY <1>5, <2>2, <2>4
  <1> QED
    BY <1>7, <1>8 DEF t, k

\* No element comes twice if none does in a part or in two of them.
LEMMA FlattenDistinct ==
  ASSUME NEW A, NEW ss \in Seq(Seq(A)), \A j \in 1..Len(ss) : NoRepeat(ss[j]),
         \A i, j \in 1..Len(ss) : \A x : x \in ToSet(ss[i]) /\ x \in ToSet(ss[j]) => i = j
  PROVE  NoRepeat(FlattenSeq(ss))
  <1> DEFINE t == FlattenSeq(ss)
             k == Len(ss)
  <1>1. t \in Seq(A)
    BY FlattenIs
  <1>2. PICK off : Laid(off, t, ss, k)
    BY FlattenIs
  <1> HIDE DEF t
  <1>3. /\ \A j \in 1..k : \A p \in 1..Len(ss[j]) : t[off[j - 1] + p] = ss[j][p]
        /\ \A i \in 1..Len(t) : \E j \in 1..k : \E p \in 1..Len(ss[j]) : i = off[j - 1] + p
    BY <1>2 DEF Laid
  <1>4. DOMAIN t = 1..Len(t) /\ \A j \in 1..k : ss[j] \in Seq(A) /\ DOMAIN ss[j] = 1..Len(ss[j])
    BY <1>1, ElementIs
  <1>5. \A j \in 1..k : \A p \in 1..Len(ss[j]) : ss[j][p] \in ToSet(ss[j])
    BY <1>4, ToSetIs
  <1> SUFFICES ASSUME NEW i \in 1..Len(t), NEW h \in 1..Len(t), t[i] = t[h] PROVE i = h
    BY <1>4 DEF NoRepeat, t
  <1>6. PICK j \in 1..k : \E p \in 1..Len(ss[j]) : i = off[j - 1] + p
    BY <1>3
  <1>7. PICK p \in 1..Len(ss[j]) : i = off[j - 1] + p
    BY <1>6
  <1>8. PICK m \in 1..k : \E q \in 1..Len(ss[m]) : h = off[m - 1] + q
    BY <1>3
  <1>9. PICK q \in 1..Len(ss[m]) : h = off[m - 1] + q
    BY <1>8
  <1>10. ss[j][p] = t[i] /\ ss[m][q] = t[i]
    BY <1>3, <1>7, <1>9
  <1>11. j = m
    BY <1>5, <1>10
  <1>12. p = q
    BY <1>4, <1>10, <1>11 DEF NoRepeat
  <1> QED
    BY <1>7, <1>9, <1>11, <1>12

SourcesOf(pairs) == FirstTimes([i \in DOMAIN pairs |-> pairs[i][1]])
RowAt(pairs, f) == {i \in DOMAIN pairs : pairs[i][1] = f}
EdgeRow(pairs, f) == FirstTimes(Picked(pairs, RowAt(pairs, f)))
EdgeRows(pairs) == FlattenSeq([i \in DOMAIN SourcesOf(pairs) |-> EdgeRow(pairs, SourcesOf(pairs)[i])])
TimesOf(pairs, p) == {i \in DOMAIN pairs : pairs[i] = p}

\* What counted pairs are put together from.
LEMMA CountedParts ==
  ASSUME NEW pairs
  PROVE  Counted(pairs) = [i \in DOMAIN EdgeRows(pairs) |->
            [from |-> EdgeRows(pairs)[i][1], to |-> EdgeRows(pairs)[i][2], weight |-> Cardinality(TimesOf(pairs, EdgeRows(pairs)[i]))]]
  BY Zenon DEF Counted, Select, SourcesOf, RowAt, EdgeRow, EdgeRows, TimesOf

\* The rows are the pairs there are, each once.
LEMMA EdgeRowsAre ==
  ASSUME NEW F, NEW T, NEW pairs \in Seq(F \X T)
  PROVE  /\ EdgeRows(pairs) \in Seq(F \X T) /\ NoRepeat(EdgeRows(pairs))
         /\ ToSet(EdgeRows(pairs)) = ToSet(pairs)
  <1> DEFINE A == F \X T
             n == Len(pairs)
             firsts == [i \in DOMAIN pairs |-> pairs[i][1]]
             s == SourcesOf(pairs)
             R(f) == EdgeRow(pairs, f)
             ss == [i \in DOMAIN s |-> R(s[i])]
  <1>1. n \in Nat /\ DOMAIN pairs = 1..n /\ \A i \in 1..n : pairs[i] \in A
    BY ElementIs
  <1>2. firsts \in Seq(F) /\ \A x : x \in ToSet(firsts) <=> \E i \in 1..n : pairs[i][1] = x
    <2>1. firsts \in [1..n -> F]
      BY <1>1
    <2>2. \A i \in 1..n : firsts[i] = pairs[i][1]
      BY <1>1
    <2> HIDE DEF firsts, n, A
    <2>3. firsts \in Seq(F) /\ Len(firsts) = n
      BY <1>1, <2>1, SeqIs
    <2> QED
      BY <2>2, <2>3, ToSetIs
  <1>3. s \in Seq(F) /\ NoRepeat(s) /\ ToSet(s) = ToSet(firsts)
    <2> HIDE DEF firsts
    <2>1. s = FirstTimes(firsts)
      BY DEF SourcesOf, firsts
    <2> HIDE DEF s
    <2> QED
      BY <1>2, <2>1, FirstTimesIs
  <1> HIDE DEF firsts, s
  <1>4. ASSUME NEW f PROVE /\ R(f) \in Seq(A) /\ NoRepeat(R(f))
                           /\ \A x : x \in ToSet(R(f)) <=> x \in ToSet(pairs) /\ x[1] = f
    <2> DEFINE t == Picked(pairs, RowAt(pairs, f))
    <2>1. t \in Seq(A) /\ \A x : x \in ToSet(t) <=> \E i \in 1..n : i \in RowAt(pairs, f) /\ pairs[i] = x
      BY SelectIs
    <2>2. \A x : x \in ToSet(pairs) <=> \E i \in 1..n : pairs[i] = x
      BY ToSetIs
    <2>3. \A i \in 1..n : i \in RowAt(pairs, f) <=> pairs[i][1] = f
      BY <1>1 DEF RowAt
    <2> HIDE DEF t, A, n
    <2>4. FirstTimes(t) \in Seq(A) /\ NoRepeat(FirstTimes(t)) /\ ToSet(FirstTimes(t)) = ToSet(t)
      BY <2>1, FirstTimesIs
    <2>5. R(f) = FirstTimes(t)
      BY DEF EdgeRow, t
    <2> HIDE DEF R
    <2>6. \A x : x \in ToSet(t) <=> x \in ToSet(pairs) /\ x[1] = f
      BY <2>1, <2>2, <2>3
    <2> QED
      BY <2>4, <2>5, <2>6
  <1> DEFINE k == Len(s)
  <1>5. k \in Nat /\ DOMAIN s = 1..k /\ \A i \in 1..k : s[i] \in ToSet(s)
    BY <1>3, ElementIs, ToSetIs
  <1> HIDE DEF R, k, A
  <1>6. ss \in Seq(Seq(A)) /\ Len(ss) = k /\ \A i \in 1..k : ss[i] = R(s[i])
    <2>1. ss \in [1..k -> Seq(A)] /\ \A i \in 1..k : ss[i] = R(s[i])
      BY <1>4, <1>5
    <2> HIDE DEF ss
    <2> QED
      BY <1>5, <2>1, SeqIs
  <1> HIDE DEF ss
  <1>7. EdgeRows(pairs) = FlattenSeq(ss)
    BY DEF EdgeRows, ss, R, s
  <1>8. FlattenSeq(ss) \in Seq(A)
    BY <1>6, FlattenIs
  <1>9. NoRepeat(FlattenSeq(ss))
    <2>1. \A j \in 1..Len(ss) : NoRepeat(ss[j])
      BY <1>4, <1>6
    <2>2. \A i, j \in 1..Len(ss) : \A x : x \in ToSet(ss[i]) /\ x \in ToSet(ss[j]) => i = j
      <3> SUFFICES ASSUME NEW i \in 1..k, NEW j \in 1..k, NEW x, x \in ToSet(R(s[i])), x \in ToSet(R(s[j])) PROVE i = j
        BY <1>6
      <3>1. x[1] = s[i] /\ x[1] = s[j]
        BY <1>4
      <3> QED
        BY <1>3, <1>5, <3>1 DEF NoRepeat
    <2> QED
      BY <1>6, <2>1, <2>2, FlattenDistinct
  <1>10. \A x : x \in ToSet(FlattenSeq(ss)) <=> \E j \in 1..k : x \in ToSet(ss[j])
    BY <1>6, FlattenElements
  <1>11. ASSUME NEW x PROVE x \in ToSet(FlattenSeq(ss)) <=> x \in ToSet(pairs)
    <2>1. ASSUME x \in ToSet(pairs) PROVE \E j \in 1..k : x \in ToSet(ss[j])
      <3>1. PICK i \in 1..n : pairs[i] = x
        BY <2>1, ToSetIs
      <3>2. x[1] \in ToSet(s)
        BY <1>2, <1>3, <3>1
      <3>3. PICK j \in 1..k : s[j] = x[1]
        BY <1>3, <3>2, ToSetIs DEF k
      <3> QED
        BY <1>4, <1>6, <2>1, <3>3
    <2>2. ASSUME NEW j \in 1..k, x \in ToSet(ss[j]) PROVE x \in ToSet(pairs)
      BY <1>4, <1>6, <2>2
    <2> QED
      BY <1>10, <2>1, <2>2
  <1>12. ToSet(FlattenSeq(ss)) = ToSet(pairs)
    BY <1>11
  <1> QED
    BY <1>7, <1>8, <1>9, <1>12 DEF A

EdgesOf(F, T) == [from : F, to : T, weight : Nat]

\* Each row of counted pairs is an edge with the number of times its pair comes up.
LEMMA CountedIs ==
  ASSUME NEW F, NEW T, NEW pairs \in Seq(F \X T)
  PROVE  /\ Counted(pairs) \in Seq(EdgesOf(F, T)) /\ Len(Counted(pairs)) = Len(EdgeRows(pairs))
         /\ \A i \in 1..Len(Counted(pairs)) :
               /\ <<Counted(pairs)[i].from, Counted(pairs)[i].to>> = EdgeRows(pairs)[i]
               /\ Counted(pairs)[i].weight = Cardinality(TimesOf(pairs, EdgeRows(pairs)[i]))
  <1> DEFINE rows == EdgeRows(pairs)
             n == Len(rows)
             W(p) == Cardinality(TimesOf(pairs, p))
             e == Counted(pairs)
  <1>1. rows \in Seq(F \X T)
    BY EdgeRowsAre
  <1> HIDE DEF rows
  <1>2. n \in Nat /\ DOMAIN rows = 1..n /\ \A i \in 1..n : rows[i] \in F \X T
    BY <1>1, ElementIs
  <1>3. ASSUME NEW p PROVE W(p) \in Nat
    <2>1. TimesOf(pairs, p) \subseteq 1..Len(pairs)
      BY ElementIs DEF TimesOf
    <2>2. IsFiniteSet(TimesOf(pairs, p))
      BY <2>1, PickedCount
    <2> QED
      BY <2>2, FS_CardinalityType
  <1>4. e = [i \in 1..n |-> [from |-> rows[i][1], to |-> rows[i][2], weight |-> W(rows[i])]]
    BY <1>2, CountedParts DEF rows
  <1> HIDE DEF W, e, n
  <1>5. e \in [1..n -> EdgesOf(F, T)]
    BY <1>2, <1>3, <1>4 DEF EdgesOf
  <1>6. \A i \in 1..n : e[i].from = rows[i][1] /\ e[i].to = rows[i][2] /\ e[i].weight = W(rows[i])
    BY <1>4
  <1>7. \A i \in 1..n : <<e[i].from, e[i].to>> = rows[i]
    BY <1>2, <1>6
  <1>8. e \in Seq(EdgesOf(F, T)) /\ Len(e) = n
    BY <1>2, <1>5, SeqIs
  <1> QED
    BY <1>6, <1>7, <1>8 DEF e, n, rows, W

WeightsOf(e) == [i \in DOMAIN e |-> e[i].weight]
Heaviest(e, cap) == Slice(Ranked(e, WeightsOf(e)), cap)

\* Weights are numbers.
LEMMA WeightsAre ==
  ASSUME NEW F, NEW T, NEW e \in Seq(EdgesOf(F, T))
  PROVE  WeightsOf(e) \in [1..Len(e) -> Int]
  <1>1. DOMAIN e = 1..Len(e) /\ \A i \in 1..Len(e) : e[i] \in EdgesOf(F, T)
    BY ElementIs
  <1>2. \A x \in EdgesOf(F, T) : x.weight \in Int
    BY DEF EdgesOf
  <1> QED
    BY <1>1, <1>2 DEF WeightsOf

\* The heaviest edges are edges, all of them if they are fewer than the cap.
LEMMA HeaviestIs ==
  ASSUME NEW F, NEW T, NEW e \in Seq(EdgesOf(F, T)), NEW cap \in Nat
  PROVE  /\ Heaviest(e, cap) \in Seq(EdgesOf(F, T))
         /\ ToSet(Heaviest(e, cap)) \subseteq ToSet(e)
         /\ NoRepeat(e) => NoRepeat(Heaviest(e, cap))
         /\ Len(Heaviest(e, cap)) < cap => Heaviest(e, cap) = Ranked(e, WeightsOf(e))
  <1> DEFINE n == Len(e)
             t == Ranked(e, WeightsOf(e))
  <1>1. n = Len(e) /\ WeightsOf(e) \in [1..n -> Int]
    BY WeightsAre
  <1> HIDE DEF n
  <1>2. t \in Seq(EdgesOf(F, T)) /\ ToSet(t) = ToSet(e) /\ (NoRepeat(e) => NoRepeat(t))
    BY <1>1, RankedIs
  <1> HIDE DEF t
  <1>3. /\ Slice(t, cap) \in Seq(EdgesOf(F, T)) /\ ToSet(Slice(t, cap)) \subseteq ToSet(t)
        /\ NoRepeat(t) => NoRepeat(Slice(t, cap))
    BY <1>2, SliceWithin
  <1>4. Len(Slice(t, cap)) = (IF Len(t) < cap THEN Len(t) ELSE cap) /\ (Len(t) <= cap => Slice(t, cap) = t)
    BY <1>2, SliceIs
  <1>5. Len(Slice(t, cap)) < cap => Slice(t, cap) = t
    BY <1>2, <1>4, ElementIs
  <1> QED
    BY <1>2, <1>3, <1>5 DEF Heaviest, t

ModuleNames == STRING \cup {"(root)", None}

PairsOf(g, f) == IF Readable(g, f) THEN [i \in DOMAIN g.deps[f] |-> <<g.module[f], ModuleOf(g, g.deps[f][i])>>] ELSE <<>>
AllPairs(g) == FlattenSeq([i \in DOMAIN g.files |-> PairsOf(g, g.files[i])])
CrossingAt(g) == {i \in DOMAIN AllPairs(g) : AllPairs(g)[i][2] # None /\ AllPairs(g)[i][1] # AllPairs(g)[i][2]}
CrossingPairs(g) == Picked(AllPairs(g), CrossingAt(g))

\* What the module edges are put together from.
LEMMA ModuleEdgesParts ==
  ASSUME NEW g, NEW c
  PROVE  ModuleEdges(g, c) = Heaviest(Counted(CrossingPairs(g)), c.edges)
  BY Zenon DEF ModuleEdges, Select, Descending, PairsOf, AllPairs, CrossingAt, CrossingPairs, Heaviest, WeightsOf

DeclaredNames(m) == {m.dependencies[i].name : i \in DOMAIN m.dependencies}
UsedAt(g, m) == {i \in DOMAIN g.imports : g.imports[i].package \in DeclaredNames(m)}
UsedImports(g, m) == Picked(g.imports, UsedAt(g, m))
FromOf(g, n) == IF ModuleOf(g, n.file) = None THEN "(root)" ELSE g.module[n.file]
ImportPairs(g, m) == [i \in DOMAIN UsedImports(g, m) |-> <<FromOf(g, UsedImports(g, m)[i]), UsedImports(g, m)[i].package>>]

\* What the external imports are put together from.
LEMMA ImportParts ==
  ASSUME NEW g, NEW m, NEW c
  PROVE  /\ ExternalImports(g, m, c).edges = Heaviest(Counted(ImportPairs(g, m)), c.imports)
         /\ ExternalImports(g, m, c).degraded = (Len(Counted(ImportPairs(g, m))) > c.imports)
  BY Zenon DEF ExternalImports, Select, Descending, DeclaredNames, UsedAt, UsedImports, FromOf, ImportPairs, Heaviest, WeightsOf

\* Modules of files, indexed and not.
LEMMA ModuleOfIs ==
  ASSUME NEW g, IsGraph(g)
  PROVE  /\ \A f : ModuleOf(g, f) \in ModuleNames
         /\ \A f \in ToSet(g.files) : /\ ModuleOf(g, f) = g.module[f] /\ g.module[f] \in ModuleNames
                                      /\ g.module[f] # None /\ g.deps[f] \in Seq(STRING)
         /\ g.files \in Seq(STRING) /\ NoRepeat(g.files)
         /\ \A f : ModuleOf(g, f) # None => f \in ToSet(g.files)
  <1>1. g.module \in [ToSet(g.files) -> STRING \ {None}] /\ g.deps \in [ToSet(g.files) -> Seq(STRING)]
        /\ g.files \in Seq(STRING) /\ IsInjective(g.files)
    BY DEF IsGraph
  <1>2. NoRepeat(g.files)
    BY <1>1 DEF NoRepeat, IsInjective
  <1> QED
    BY <1>1, <1>2 DEF ModuleOf, ModuleNames

\* The pairs of modules of the imports that cross, and of modules and packages.
LEMMA PairsAre ==
  ASSUME NEW g, IsGraph(g)
  PROVE  /\ \A f \in ToSet(g.files) : PairsOf(g, f) \in Seq(ModuleNames \X ModuleNames)
         /\ AllPairs(g) \in Seq(ModuleNames \X ModuleNames)
         /\ CrossingPairs(g) \in Seq(ModuleNames \X ModuleNames)
  <1> DEFINE A == ModuleNames \X ModuleNames
             n == Len(g.files)
             ss == [i \in DOMAIN g.files |-> PairsOf(g, g.files[i])]
  <1>1. ASSUME NEW f \in ToSet(g.files) PROVE PairsOf(g, f) \in Seq(A)
    <2> DEFINE d == g.deps[f]
               p == [i \in DOMAIN d |-> <<g.module[f], ModuleOf(g, d[i])>>]
    <2>1. d \in Seq(STRING)
      BY ModuleOfIs
    <2> HIDE DEF d
    <2>2. Len(d) \in Nat /\ DOMAIN d = 1..Len(d)
      BY <2>1, ElementIs
    <2>3. p \in [1..Len(d) -> A]
      BY <2>2, ModuleOfIs
    <2> HIDE DEF p, A
    <2>4. p \in Seq(A) /\ <<>> \in Seq(A)
      BY <2>2, <2>3, SeqIs, EmptyIs
    <2>5. PairsOf(g, f) = IF Readable(g, f) THEN p ELSE <<>>
      BY DEF PairsOf, p, d
    <2> QED
      BY <2>4, <2>5, Zenon
  <1> HIDE DEF A
  <1>2. n \in Nat /\ DOMAIN g.files = 1..n /\ \A i \in 1..n : g.files[i] \in ToSet(g.files)
    BY ModuleOfIs, ElementIs, ToSetIs
  <1>3. ss \in Seq(Seq(A))
    <2>1. ss \in [1..n -> Seq(A)]
      BY <1>1, <1>2
    <2> HIDE DEF ss, n
    <2> QED
      BY <1>2, <2>1, SeqIs
  <1> HIDE DEF ss
  <1>4. FlattenSeq(ss) \in Seq(A)
    BY <1>3, FlattenIs
  <1>5. AllPairs(g) \in Seq(A)
    BY <1>4 DEF AllPairs, ss
  <1>6. CrossingPairs(g) \in Seq(A)
    BY <1>5, SelectIs DEF CrossingPairs
  <1> QED
    BY <1>1, <1>5, <1>6 DEF A

Imports == [file : STRING, package : STRING]

\* Each import of a declared package is a pair.
LEMMA ImportPairsAre ==
  ASSUME NEW g, IsGraph(g), NEW m
  PROVE  /\ UsedImports(g, m) \in Seq(Imports) /\ ImportPairs(g, m) \in Seq(ModuleNames \X STRING)
         /\ Len(ImportPairs(g, m)) = Len(UsedImports(g, m))
         /\ \A i \in 1..Len(UsedImports(g, m)) : ImportPairs(g, m)[i][2] = UsedImports(g, m)[i].package
  <1> DEFINE s == UsedImports(g, m)
             n == Len(s)
             t == ImportPairs(g, m)
  <1>1. s \in Seq(Imports)
    <2>1. g.imports \in Seq(Imports)
      BY DEF IsGraph, Imports
    <2> QED
      BY <2>1, SelectIs DEF UsedImports
  <1> HIDE DEF s
  <1>2. n \in Nat /\ DOMAIN s = 1..n /\ \A i \in 1..n : s[i] \in Imports
    BY <1>1, ElementIs
  <1>3. \A i \in 1..n : FromOf(g, s[i]) \in ModuleNames
    BY ModuleOfIs DEF FromOf, ModuleNames
  <1>4. \A i \in 1..n : s[i].package \in STRING
    BY <1>2 DEF Imports
  <1>5. t = [i \in 1..n |-> <<FromOf(g, s[i]), s[i].package>>]
    BY <1>2 DEF ImportPairs, s
  <1> HIDE DEF t, n
  <1>6. t \in [1..n -> ModuleNames \X STRING] /\ \A i \in 1..n : t[i][2] = s[i].package
    BY <1>3, <1>4, <1>5
  <1>7. t \in Seq(ModuleNames \X STRING) /\ Len(t) = n
    BY <1>2, <1>6, SeqIs
  <1> QED
    BY <1>1, <1>6, <1>7 DEF s, n, t

\* The edges of the facts are edges.
LEMMA EdgesAre ==
  ASSUME NEW g, IsGraph(g), NEW m, NEW c, c.edges \in Nat, c.imports \in Nat
  PROVE  /\ ModuleEdges(g, c) \in Seq(EdgesOf(ModuleNames, ModuleNames))
         /\ ExternalImports(g, m, c).edges \in Seq(EdgesOf(ModuleNames, STRING))
  <1>1. Counted(CrossingPairs(g)) \in Seq(EdgesOf(ModuleNames, ModuleNames))
    BY PairsAre, CountedIs
  <1>2. Counted(ImportPairs(g, m)) \in Seq(EdgesOf(ModuleNames, STRING))
    BY ImportPairsAre, CountedIs
  <1>3. Heaviest(Counted(CrossingPairs(g)), c.edges) \in Seq(EdgesOf(ModuleNames, ModuleNames))
    BY <1>1, HeaviestIs
  <1>4. Heaviest(Counted(ImportPairs(g, m)), c.imports) \in Seq(EdgesOf(ModuleNames, STRING))
    BY <1>2, HeaviestIs
  <1> QED
    BY <1>3, <1>4, ModuleEdgesParts, ImportParts, Zenon

\* Every end of an arrow is a box.
Sound(d) == \A i \in DOMAIN d.edges : ToSet(d.edges[i]) \subseteq ToSet(d.nodes)

\* Arrows between the boxes there are end at boxes.
LEMMA SoundIs ==
  ASSUME NEW nodes, NEW edges \in Seq(ToSet(nodes) \X ToSet(nodes))
  PROVE  Sound(Diagram(nodes, edges))
  <1> DEFINE B == ToSet(nodes)
  <1>1. DOMAIN edges = 1..Len(edges) /\ \A i \in 1..Len(edges) : edges[i] \in B \X B
    BY ElementIs
  <1>2. ASSUME NEW e \in B \X B PROVE ToSet(e) \subseteq B
    <2>1. PICK x \in B, y \in B : e = <<x, y>>
      OBVIOUS
    <2>2. ToSet(e) = {x, y}
      BY <2>1 DEF ToSet
    <2> QED
      BY <2>2
  <1> HIDE DEF B
  <1>3. \A i \in DOMAIN edges : ToSet(edges[i]) \subseteq B
    BY <1>1, <1>2
  <1> QED
    BY <1>3 DEF Sound, Diagram, B

\* Hops lead from an element to an element.
LEMMA HopsAre ==
  ASSUME NEW A, NEW s \in Seq(A)
  PROVE  Hops(s) \in Seq(ToSet(s) \X ToSet(s))
  <1> DEFINE B == ToSet(s)
             n == Len(s)
             m == IF n = 0 THEN 0 ELSE n - 1
  <1>1. n \in Nat /\ \A i \in 1..n : s[i] \in B
    BY ElementIs, ToSetIs
  <1> HIDE DEF B
  <1>2. m \in Nat /\ 1..(n - 1) = 1..m /\ \A i \in 1..m : i \in 1..n /\ i + 1 \in 1..n
    BY <1>1
  <1>3. Hops(s) = [i \in 1..m |-> <<s[i], s[i + 1]>>]
    BY <1>2 DEF Hops
  <1> HIDE DEF m, n
  <1>4. Hops(s) \in [1..m -> B \X B]
    BY <1>1, <1>2, <1>3
  <1> QED
    BY <1>2, <1>4, SeqIs DEF B

StepsOf(chains, c) == Slice(SpineOf(chains), c.flowSteps)
TouchedBy(g, chains, c) == {g.module[StepsOf(chains, c)[i].file] : i \in DOMAIN StepsOf(chains, c)}
TouchedAt(g, chains, imports, c) == {i \in DOMAIN imports : imports[i].from \in TouchedBy(g, chains, c)}
ReachedOf(g, chains, imports, c) == Heaviest(Picked(imports, TouchedAt(g, chains, imports, c)), c.flowDeps)
SpineBoxes(chains, c) == [i \in DOMAIN StepsOf(chains, c) |-> <<i, StepsOf(chains, c)[i].id>>]
PackageBoxes(g, chains, imports, c) == [i \in DOMAIN ReachedOf(g, chains, imports, c) |-> <<0, ReachedOf(g, chains, imports, c)[i].to>>]
PackageArrows(g, chains, imports, c) ==
  [i \in DOMAIN PackageBoxes(g, chains, imports, c) |-> <<Last(SpineBoxes(chains, c)), PackageBoxes(g, chains, imports, c)[i]>>]

\* What the system flow is put together from.
LEMMA SystemFlowParts ==
  ASSUME NEW g, NEW chains, NEW imports, NEW c, chains # <<>>, ~(Len(SpineOf(chains)) < 2)
  PROVE  SystemFlow(g, chains, imports, c) =
           Diagram(SpineBoxes(chains, c) \o PackageBoxes(g, chains, imports, c),
                   Hops(SpineBoxes(chains, c)) \o PackageArrows(g, chains, imports, c))
  BY Zenon DEF SystemFlow, Select, Descending, StepsOf, TouchedBy, TouchedAt, ReachedOf, SpineBoxes, PackageBoxes, PackageArrows,
     Heaviest, WeightsOf

\* The spine is one of the chains.
LEMMA SpineIs ==
  ASSUME NEW A, NEW chains \in Seq(Seq(A)), chains # <<>>
  PROVE  SpineOf(chains) \in ToSet(chains)
  <1> DEFINE n == Len(chains)
             w == [i \in DOMAIN chains |-> Len(chains[i])]
             t == Ranked(chains, w)
  <1>1. n \in Nat /\ DOMAIN chains = 1..n /\ (\A i \in 1..n : chains[i] \in Seq(A)) /\ n # 0
    <2>1. n \in Nat /\ DOMAIN chains = 1..n /\ \A i \in 1..n : chains[i] \in Seq(A)
      BY ElementIs
    <2>2. n # 0
      OBVIOUS
    <2> QED
      BY <2>1, <2>2
  <1>2. w \in [1..n -> Int]
    <2>1. \A i \in 1..n : Len(chains[i]) \in Int
      BY <1>1, ElementIs
    <2> QED
      BY <1>1, <2>1
  <1>3. n = Len(chains)
    OBVIOUS
  <1>4. SpineOf(chains) = t[1]
    BY Zenon DEF SpineOf, Descending
  <1> HIDE DEF w, n
  <1>5. t \in Seq(Seq(A)) /\ Len(t) = n /\ ToSet(t) = ToSet(chains)
    BY <1>2, <1>3, RankedIs
  <1> HIDE DEF t
  <1>6. 1 \in 1..Len(t)
    BY <1>1, <1>5
  <1>7. t[1] \in ToSet(t)
    BY <1>5, <1>6, ToSetIs
  <1> QED
    BY <1>4, <1>5, <1>7

\* The chains that the facts keep are more than one symbol.
Paths(g) == {w \in Trails(g) : Len(w) >= 2}

Boxes(g) == Nat \X (SymbolIds(g) \cup STRING)

\* The boxes of the system flow: the steps of the chain, then the packages.
LEMMA SystemFlowIs ==
  ASSUME NEW g, IsGraph(g), NEW chains \in Seq(Paths(g)), chains # <<>>,
         NEW imports \in Seq(EdgesOf(ModuleNames, STRING)), NEW c, c.flowSteps \in Nat \ {0}, c.flowDeps \in Nat
  PROVE  /\ Sound(SystemFlow(g, chains, imports, c))
         /\ SpineOf(chains) \in Paths(g)
         /\ LET l == IF c.flowSteps < Len(SpineOf(chains)) THEN c.flowSteps ELSE Len(SpineOf(chains))
            IN \A i \in 1..l : SystemFlow(g, chains, imports, c).nodes[i] = <<i, SpineOf(chains)[i].id>>
  <1> DEFINE spine == SpineOf(chains)
             l == IF c.flowSteps < Len(spine) THEN c.flowSteps ELSE Len(spine)
             steps == StepsOf(chains, c)
             s == SpineBoxes(chains, c)
             r == ReachedOf(g, chains, imports, c)
             p == PackageBoxes(g, chains, imports, c)
             a == PackageArrows(g, chains, imports, c)
             A == Boxes(g)
  <1>1. spine \in Paths(g) /\ spine \in Seq(Nodes(g)) /\ Len(spine) >= 2 /\ Len(spine) \in Nat
    <2>1. chains \in Seq(Seq(Nodes(g))) /\ ToSet(chains) \subseteq Paths(g)
      <3>1. Paths(g) \subseteq Seq(Nodes(g))
        BY DEF Trails, Paths
      <3> QED
        BY <3>1, Wider, ToSetIs
    <2>2. spine \in Paths(g)
      BY <2>1, SpineIs
    <2> QED
      BY <2>2, ElementIs DEF Trails, Paths
  <1> HIDE DEF spine
  <1>2. /\ steps \in Seq(Nodes(g)) /\ Len(steps) = l
        /\ \A i \in 1..l : steps[i] = spine[i]
    BY <1>1, SliceIs DEF StepsOf, spine
  <1>3. l \in Nat /\ l >= 1 /\ DOMAIN steps = 1..l /\ \A i \in 1..l : steps[i] \in Nodes(g)
    BY <1>1, <1>2, ElementIs
  <1>4. s = [i \in 1..l |-> <<i, steps[i].id>>]
    BY <1>3 DEF SpineBoxes
  <1> HIDE DEF l, steps, s
  <1>5. s \in Seq(A) /\ Len(s) = l
    <2>1. \A i \in 1..l : <<i, steps[i].id>> \in A
      BY <1>3, GraphNodes DEF Boxes, Nodes
    <2> HIDE DEF A
    <2>2. s \in [1..l -> A]
      BY <1>4, <2>1
    <2> QED
      BY <1>3, <2>2, SeqIs
  <1>6. r \in Seq(EdgesOf(ModuleNames, STRING))
    <2>1. Picked(imports, TouchedAt(g, chains, imports, c)) \in Seq(EdgesOf(ModuleNames, STRING))
      BY SelectIs
    <2> QED
      BY <2>1, HeaviestIs DEF ReachedOf
  <1> HIDE DEF r
  <1> DEFINE m == Len(r)
  <1>7. m \in Nat /\ DOMAIN r = 1..m /\ \A i \in 1..m : r[i] \in EdgesOf(ModuleNames, STRING)
    BY <1>6, ElementIs
  <1>8. p = [i \in 1..m |-> <<0, r[i].to>>]
    BY <1>7 DEF PackageBoxes, r
  <1> HIDE DEF m, p
  <1>9. p \in Seq(A) /\ Len(p) = m /\ DOMAIN p = 1..m
    <2>1. \A i \in 1..m : <<0, r[i].to>> \in A
      BY <1>7 DEF Boxes, EdgesOf
    <2> HIDE DEF A
    <2>2. p \in [1..m -> A]
      BY <1>8, <2>1
    <2> QED
      BY <1>7, <2>2, SeqIs
  <1> HIDE DEF A
  <1> DEFINE nodes == s \o p
             B == ToSet(nodes)
             edges == Hops(s) \o a
  <1>10. /\ nodes \in Seq(A) /\ B = ToSet(s) \cup ToSet(p)
         /\ \A i \in 1..l : nodes[i] = s[i]
    BY <1>5, <1>9, ConcatIs
  <1>11. Last(s) \in ToSet(s)
    <2>1. Last(s) = s[l] /\ l \in 1..l
      BY <1>3, <1>5 DEF Last
    <2> QED
      BY <1>5, <2>1, ToSetIs
  <1>12. \A i \in 1..m : p[i] \in ToSet(p)
    BY <1>9, ToSetIs
  <1>13. a = [i \in 1..m |-> <<Last(s), p[i]>>]
    BY <1>9 DEF PackageArrows, p, s
  <1> HIDE DEF nodes, B, a
  <1>14. a \in Seq(B \X B)
    <2>1. a \in [1..m -> B \X B]
      BY <1>10, <1>11, <1>12, <1>13
    <2> QED
      BY <1>7, <2>1, SeqIs
  <1>15. Hops(s) \in Seq(B \X B)
    <2>1. Hops(s) \in Seq(ToSet(s) \X ToSet(s))
      BY <1>5, HopsAre
    <2>2. ToSet(s) \X ToSet(s) \subseteq B \X B
      BY <1>10
    <2> QED
      BY <2>1, <2>2, Wider
  <1>16. edges \in Seq(B \X B)
    BY <1>14, <1>15, ConcatIs
  <1> HIDE DEF edges
  <1>17. Sound(Diagram(nodes, edges))
    BY <1>16, SoundIs DEF B
  <1>18. SystemFlow(g, chains, imports, c) = Diagram(nodes, edges)
    <2>1. ~(Len(SpineOf(chains)) < 2)
      BY <1>1 DEF spine
    <2> QED
      BY <2>1, SystemFlowParts DEF nodes, edges, s, p, a
  <1>19. Diagram(nodes, edges).nodes = nodes
    BY DEF Diagram
  <1>20. \A i \in 1..l : nodes[i] = <<i, spine[i].id>>
    BY <1>2, <1>4, <1>10
  <1> QED
    BY <1>1, <1>17, <1>18, <1>19, <1>20 DEF l, spine

FactsTyped(g, facts) ==
  /\ facts.chains \in Seq(Paths(g)) /\ facts.there \in BOOLEAN
  /\ facts.edges \in Seq(EdgesOf(ModuleNames, ModuleNames))
  /\ facts.imports \in Seq(EdgesOf(ModuleNames, STRING))

\* A cap is a positive number.
LEMMA CapsAre ==
  ASSUME NEW c \in Caps
  PROVE  \A x \in CapNames : c[x] \in Nat \ {0}
  BY DEF Caps

\* So are those of the facts.
LEMMA FactCapsAre ==
  ASSUME NEW c \in Caps
  PROVE  /\ c.chains \in Nat \ {0} /\ c.steps \in Nat \ {0} /\ c.minSteps \in Nat \ {0} /\ c.seeds \in Nat \ {0}
         /\ c.edges \in Nat \ {0} /\ c.imports \in Nat \ {0} /\ c.modules \in Nat \ {0} /\ c.scan \in Nat \ {0}
  BY DEF Caps, CapNames

\* And those of the diagrams.
LEMMA DrawCapsAre ==
  ASSUME NEW c \in Caps
  PROVE  /\ c.flowSteps \in Nat \ {0} /\ c.flowDeps \in Nat \ {0} /\ c.boxes \in Nat \ {0} /\ c.arrows \in Nat \ {0}
         /\ c.depModules \in Nat \ {0} /\ c.depPackages \in Nat \ {0} /\ c.depEdges \in Nat \ {0} /\ c.deps \in Nat \ {0}
         /\ c.vulns \in Nat \ {0} /\ c.flows \in Nat \ {0} /\ c.declared \in Nat \ {0}
  BY DEF Caps, CapNames

\* The chains of a graph, for its caps.
LEMMA TrailsAre ==
  ASSUME NEW g, IsGraph(g), NEW c \in Caps
  PROVE  /\ CallChains(g, c).chains \in Seq(Paths(g))
         /\ \A w \in ToSet(CallChains(g, c).chains) : Chained(g, w, c.steps) /\ Len(w) >= c.minSteps
  <1> DEFINE t == CallChains(g, c).chains
  <1>1. /\ t \in Seq(Seq(Nodes(g)))
        /\ \A w \in ToSet(t) : Chained(g, w, c.steps) /\ Len(w) >= c.minSteps
    BY FactCapsAre, ChainsAre
  <1> HIDE DEF t
  <1>2. \A w \in ToSet(t) : w \in Paths(g)
    <2>1. c.minSteps \in Nat /\ c.minSteps >= 2
      BY FactCapsAre DEF Caps
    <2> QED
      BY <1>1, <2>1, ElementIs DEF Chained, Trails, Paths
  <1>3. t \in Seq(ToSet(t))
    BY <1>1, OwnElements
  <1>4. t \in Seq(Paths(g))
    BY <1>2, <1>3, Wider
  <1> QED
    BY <1>1, <1>4 DEF t

\* The facts of a graph are chains of its symbols, edges and imports.
LEMMA FactsAreTyped ==
  ASSUME NEW g, IsGraph(g), NEW m, NEW c \in Caps
  PROVE  FactsTyped(g, FactsOf(g, m, c)) /\ FactsTyped(g, NoFacts)
  <1>1. FactsTyped(g, FactsOf(g, m, c))
    <2>1. /\ FactsOf(g, m, c).chains = CallChains(g, c).chains /\ FactsOf(g, m, c).there = TRUE
          /\ FactsOf(g, m, c).edges = ModuleEdges(g, c) /\ FactsOf(g, m, c).imports = ExternalImports(g, m, c).edges
      BY DEF FactsOf
    <2>2. CallChains(g, c).chains \in Seq(Paths(g))
      BY TrailsAre
    <2>3. /\ ModuleEdges(g, c) \in Seq(EdgesOf(ModuleNames, ModuleNames))
          /\ ExternalImports(g, m, c).edges \in Seq(EdgesOf(ModuleNames, STRING))
      BY FactCapsAre, EdgesAre
    <2> QED
      BY <2>1, <2>2, <2>3, Zenon DEF FactsTyped
  <1>2. FactsTyped(g, NoFacts)
    <2>1. NoFacts.chains = <<>> /\ NoFacts.edges = <<>> /\ NoFacts.imports = <<>> /\ NoFacts.there = FALSE
      BY DEF NoFacts
    <2> QED
      BY <2>1, EmptyIs, Zenon DEF FactsTyped
  <1> QED
    BY <1>1, <1>2

\* Only one diagram has the slug of the system flow.
LEMMA OnlyFlowOfFacts ==
  ASSUME NEW g, NEW facts, NEW said, NEW c, NEW x \in Entries(g, facts, said, c), x.slug = <<"system-flow", 0>>
  PROVE  x = FlowOfFacts(g, facts, c)
  <1>1. x \notin OthersOf(facts, said, c)
    BY DEF OthersOf, Entry
  <1>2. x \notin FlowEntries(facts.chains, said.flows, c)
    <2>1. \A i : <<"request-flow", i>> # <<"system-flow", 0>>
      OBVIOUS
    <2> QED
      BY <2>1 DEF FlowEntries
  <1> QED
    BY <1>1, <1>2 DEF Entries

DrawnAt(diagrams, slug) == {i \in DOMAIN diagrams : diagrams[i].slug = <<slug, 0>>}

\* The table of the system flow follows the diagram that is drawn.
LEMMA TableIs ==
  ASSUME NEW g, IsGraph(g), NEW facts, FactsTyped(g, facts), NEW said \in Sayings, NEW c \in Caps
  PROVE  LET diagrams == BuildAll(g, facts, said, c)
         IN TableFollowsDiagram(SystemFlowTable(facts, diagrams), diagrams, c)
  <1> DEFINE diagrams == BuildAll(g, facts, said, c)
             drawn == Drawn(diagrams, "system-flow")
             table == SystemFlowTable(facts, diagrams)
             E == Entries(g, facts, said, c)
             spine == SpineOf(facts.chains)
             l == IF c.flowSteps < Len(spine) THEN c.flowSteps ELSE Len(spine)
  <1>1. CASE facts.there /\ drawn # <<>> /\ facts.chains # <<>>
    <2>1. table = spine
      BY <1>1 DEF SystemFlowTable
    <2>2. diagrams \in Seq(E)
      <3>1. facts.chains \in Seq(Paths(g)) /\ said.flows \in Seq(Seq(STRING)) /\ c.flows \in Nat
        BY DrawCapsAre DEF FactsTyped, Sayings
      <3> QED
        BY <3>1, BuiltIs
    <2>3. drawn = Picked(diagrams, DrawnAt(diagrams, "system-flow"))
      BY Zenon DEF Drawn, Select, DrawnAt
    <2> HIDE DEF drawn, diagrams, table, E
    <2>4. drawn \in Seq(E) /\ \A x : x \in ToSet(drawn) <=> \E i \in 1..Len(diagrams) : i \in DrawnAt(diagrams, "system-flow") /\ diagrams[i] = x
      BY <2>2, <2>3, SelectIs
    <2>5. drawn[1] \in ToSet(drawn)
      <3>1. Len(drawn) \in Nat /\ Len(drawn) # 0
        BY <1>1, <2>4
      <3>2. 1 \in 1..Len(drawn)
        BY <3>1
      <3> QED
        BY <2>4, <3>2, ToSetIs
    <2>6. drawn[1].slug = <<"system-flow", 0>> /\ drawn[1] \in E
      BY <2>4, <2>5, ToSetIs DEF DrawnAt
    <2>7. drawn[1] = FlowOfFacts(g, facts, c)
      BY <2>6, OnlyFlowOfFacts DEF E
    <2>8. drawn[1].diagram = SystemFlow(g, facts.chains, facts.imports, c)
      BY <2>7 DEF FlowOfFacts, Entry
    <2>9. \A i \in 1..l : SystemFlow(g, facts.chains, facts.imports, c).nodes[i] = <<i, spine[i].id>>
      <3>1. facts.chains \in Seq(Paths(g)) /\ facts.imports \in Seq(EdgesOf(ModuleNames, STRING))
        BY DEF FactsTyped
      <3>2. c.flowSteps \in Nat \ {0} /\ c.flowDeps \in Nat
        BY DrawCapsAre
      <3> QED
        BY <1>1, <3>1, <3>2, SystemFlowIs
    <2> HIDE DEF spine, l
    <2>10. \A i \in 1..l : drawn[1].diagram.nodes[i] = <<i, spine[i].id>>
      BY <2>8, <2>9
    <2>11. l = (IF c.flowSteps < Len(table) THEN c.flowSteps ELSE Len(table))
      BY <2>1 DEF l
    <2> QED
      BY <2>1, <2>10, <2>11 DEF TableFollowsDiagram, drawn, table, diagrams
  <1>2. CASE ~(facts.there /\ drawn # <<>> /\ facts.chains # <<>>)
    <2>1. table = <<>>
      BY <1>2 DEF SystemFlowTable
    <2> QED
      BY <2>1 DEF TableFollowsDiagram
  <1> QED
    BY <1>1, <1>2

\* A diagram without arrows is sound.
LEMMA PlainIsSound == Sound(Placeholder) /\ Sound(Diagram(<<>>, <<>>))
  <1>1. Placeholder.edges = <<>> /\ Diagram(<<>>, <<>>).edges = <<>>
    BY DEF Placeholder, Diagram
  <1>2. DOMAIN <<>> = {}
    OBVIOUS
  <1> QED
    BY <1>1, <1>2, Zenon DEF Sound

Ends(deps) == [i \in DOMAIN deps |-> <<deps[i].from, deps[i].to>>]

\* The ends of edges between names.
LEMMA EndsAre ==
  ASSUME NEW A, NEW B, NEW deps \in Seq(A), \A d \in ToSet(deps) : d.from \in B /\ d.to \in B
  PROVE  Ends(deps) \in Seq(B \X B)
  <1> DEFINE n == Len(deps)
  <1>1. n \in Nat /\ DOMAIN deps = 1..n /\ \A i \in 1..n : deps[i] \in ToSet(deps)
    BY ElementIs, ToSetIs
  <1>2. Ends(deps) = [i \in 1..n |-> <<deps[i].from, deps[i].to>>]
    BY <1>1 DEF Ends
  <1> HIDE DEF n
  <1>3. Ends(deps) \in [1..n -> B \X B]
    BY <1>1, <1>2
  <1> QED
    BY <1>1, <1>3, SeqIs

AllEnds(deps) == FlattenSeq([i \in DOMAIN deps |-> <<deps[i].from, deps[i].to>>])
Targets(deps) == {deps[i].to : i \in DOMAIN deps}
EntryFirst(names, deps) ==
  Ranked(FirstTimes(names \o AllEnds(deps)),
         [i \in DOMAIN FirstTimes(names \o AllEnds(deps)) |-> IF FirstTimes(names \o AllEnds(deps))[i] \in Targets(deps) THEN 0 ELSE 1])
BoxesOf(names, deps, c) == Slice(EntryFirst(names, deps), c.boxes)
InBoxesAt(names, deps, c) ==
  {i \in DOMAIN Slice(deps, c.arrows) : /\ Slice(deps, c.arrows)[i].from \in ToSet(BoxesOf(names, deps, c))
                                        /\ Slice(deps, c.arrows)[i].to \in ToSet(BoxesOf(names, deps, c))}
DrawnDeps(names, deps, c) == Picked(Slice(deps, c.arrows), InBoxesAt(names, deps, c))

\* What the graph of modules is put together from.
LEMMA ModuleGraphParts ==
  ASSUME NEW names, NEW deps, NEW c
  PROVE  ModuleGraph(names, deps, c) =
           IF BoxesOf(names, deps, c) = <<>> THEN Placeholder ELSE Diagram(BoxesOf(names, deps, c), Ends(DrawnDeps(names, deps, c)))
  BY Zenon DEF ModuleGraph, Select, Descending, AllEnds, Targets, EntryFirst, BoxesOf, InBoxesAt, DrawnDeps, Ends

\* Its arrows end at boxes the caps have left.
LEMMA ModuleGraphIsSound ==
  ASSUME NEW A, NEW names, NEW deps \in Seq(A), NEW c \in Caps
  PROVE  Sound(ModuleGraph(names, deps, c))
  <1> DEFINE boxes == BoxesOf(names, deps, c)
             drawn == DrawnDeps(names, deps, c)
             s == Slice(deps, c.arrows)
  <1>1. s \in Seq(A)
    BY DrawCapsAre, SliceWithin
  <1>2. /\ drawn \in Seq(A)
        /\ \A x : x \in ToSet(drawn) <=> \E i \in 1..Len(s) : i \in InBoxesAt(names, deps, c) /\ s[i] = x
    BY <1>1, SelectIs DEF DrawnDeps
  <1>3. \A d \in ToSet(drawn) : d.from \in ToSet(boxes) /\ d.to \in ToSet(boxes)
    BY <1>2 DEF InBoxesAt
  <1> HIDE DEF boxes, drawn
  <1>4. Ends(drawn) \in Seq(ToSet(boxes) \X ToSet(boxes))
    BY <1>2, <1>3, EndsAre
  <1>5. Sound(Diagram(boxes, Ends(drawn)))
    BY <1>4, SoundIs
  <1>6. ModuleGraph(names, deps, c) = IF boxes = <<>> THEN Placeholder ELSE Diagram(boxes, Ends(drawn))
    BY ModuleGraphParts DEF boxes, drawn
  <1> QED
    BY <1>5, <1>6, PlainIsSound, Zenon

BackOf(p) == <<Last(p), p[1]>>
ReturnOf(p) == IF Last(p) = p[1] THEN <<>> ELSE <<BackOf(p)>>

\* What a sequence is put together from.
LEMMA SequencedParts ==
  ASSUME NEW p
  PROVE  Sequenced(p) = IF Len(p) < 2 THEN Placeholder ELSE Diagram(FirstTimes(p), Hops(p) \o ReturnOf(p))
  BY DEF Sequenced, BackOf, ReturnOf

\* A sequence is sound, and its arrows go from step to step.
LEMMA SequencedIs ==
  ASSUME NEW A, NEW p \in Seq(A)
  PROVE  /\ Sound(Sequenced(p))
         /\ \A i \in 1..(Len(Sequenced(p).edges) - 1) :
               i + 1 \in 1..Len(p) /\ i \in 1..Len(p) /\ Sequenced(p).edges[i] = <<p[i], p[i + 1]>>
  <1> DEFINE n == Len(p)
             h == Hops(p)
             r == ReturnOf(p)
             e == h \o r
             B == ToSet(p)
  <1>1. n \in Nat /\ \A i \in 1..n : p[i] \in B
    BY ElementIs, ToSetIs
  <1>2. CASE n < 2
    <2>1. Sequenced(p) = Placeholder
      BY <1>2, SequencedParts
    <2>2. Len(Placeholder.edges) = 0
      BY DEF Placeholder, Diagram
    <2> QED
      BY <2>1, <2>2, PlainIsSound
  <1>3. CASE ~(n < 2)
    <2>1. h \in Seq(B \X B)
      BY HopsAre
    <2>2. Len(h) = n - 1 /\ \A i \in 1..(n - 1) : h[i] = <<p[i], p[i + 1]>>
      BY <1>1, <1>3 DEF Hops
    <2>3. r \in Seq(B \X B) /\ Len(r) <= 1 /\ Len(r) \in Nat
      <3>1. BackOf(p) \in B \X B
        <4>1. 1 \in 1..n /\ n \in 1..n /\ Last(p) = p[n]
          BY <1>1, <1>3 DEF Last
        <4> HIDE DEF B, n
        <4> QED
          BY <1>1, <4>1 DEF BackOf
      <3> HIDE DEF B
      <3>2. <<>> \in Seq(B \X B) /\ Len(<<>>) = 0 /\ <<BackOf(p)>> \in Seq(B \X B) /\ Len(<<BackOf(p)>>) = 1
        BY <3>1, EmptyIs, SingleIs
      <3>3. CASE Last(p) = p[1]
        <4>1. r = <<>>
          BY <3>3 DEF ReturnOf
        <4> HIDE DEF r
        <4> QED
          BY <3>2, <4>1
      <3>4. CASE Last(p) # p[1]
        <4>1. r = <<BackOf(p)>>
          BY <3>4 DEF ReturnOf
        <4> HIDE DEF r
        <4> QED
          BY <3>2, <4>1
      <3> QED
        BY <3>3, <3>4
    <2> HIDE DEF h, r, B
    <2>4. e \in Seq(B \X B) /\ Len(e) = Len(h) + Len(r) /\ \A i \in 1..Len(h) : e[i] = h[i]
      BY <2>1, <2>3, ConcatIs
    <2>5. ToSet(FirstTimes(p)) = B
      BY FirstTimesIs DEF B
    <2> HIDE DEF e, n
    <2>6. Sequenced(p) = Diagram(FirstTimes(p), e)
      BY <1>3, SequencedParts DEF e, h, r, n
    <2>7. Sound(Diagram(FirstTimes(p), e))
      BY <2>4, <2>5, SoundIs
    <2>8. Diagram(FirstTimes(p), e).edges = e
      BY DEF Diagram
    <2>9. ASSUME NEW i \in 1..(Len(e) - 1) PROVE i + 1 \in 1..n /\ i \in 1..n /\ e[i] = <<p[i], p[i + 1]>>
      <3>1. i \in 1..(n - 1)
        BY <1>1, <2>2, <2>3, <2>4
      <3> QED
        BY <1>1, <2>2, <2>4, <3>1
    <2> QED
      BY <2>6, <2>7, <2>8, <2>9 DEF n
  <1> QED
    BY <1>2, <1>3

Participants(chain, c) == [i \in DOMAIN Slice(chain, c.steps) |-> <<Slice(chain, c.steps)[i].name, Slice(chain, c.steps)[i].file>>]

\* A flow is drawn with an arrow for each hop, from the symbol to the symbol.
LEMMA ChainIsDrawn ==
  ASSUME NEW g, IsGraph(g), NEW chain \in Seq(Nodes(g)), NEW c \in Caps
  PROVE  LET d == SequenceFromChain(chain, c) IN
         /\ Sound(d)
         /\ \A i \in 1..(Len(d.edges) - 1) :
               d.edges[i] = <<<<chain[i].name, chain[i].file>>, <<chain[i + 1].name, chain[i + 1].file>>>>
  <1> DEFINE s == Slice(chain, c.steps)
             n == Len(s)
             p == Participants(chain, c)
             d == SequenceFromChain(chain, c)
  <1>1. s \in Seq(Nodes(g)) /\ \A i \in 1..n : s[i] = chain[i]
    BY FactCapsAre, SliceIs
  <1> HIDE DEF s
  <1>2. n \in Nat /\ DOMAIN s = 1..n /\ \A i \in 1..n : s[i] \in Nodes(g)
    BY <1>1, ElementIs
  <1>3. p = [i \in 1..n |-> <<s[i].name, s[i].file>>]
    BY <1>2 DEF Participants, s
  <1>4. \A i \in 1..n : s[i].name \in STRING /\ s[i].file \in STRING
    <2>1. \A x \in Nodes(g) : x \in Symbols
      BY GraphNodes DEF Nodes
    <2> QED
      BY <1>2, <2>1 DEF Symbols
  <1> HIDE DEF p, n
  <1>5. p \in [1..n -> STRING \X STRING] /\ \A i \in 1..n : p[i] = <<s[i].name, s[i].file>>
    BY <1>3, <1>4
  <1>6. p \in Seq(STRING \X STRING) /\ Len(p) = n
    BY <1>2, <1>5, SeqIs
  <1>7. d = Sequenced(p)
    BY DEF SequenceFromChain, Participants, p
  <1> HIDE DEF d
  <1>8. /\ Sound(d)
        /\ \A i \in 1..(Len(d.edges) - 1) : i + 1 \in 1..n /\ i \in 1..n /\ d.edges[i] = <<p[i], p[i + 1]>>
    BY <1>6, <1>7, SequencedIs
  <1>9. \A i \in 1..n : p[i] = <<chain[i].name, chain[i].file>>
    BY <1>1, <1>5 DEF n
  <1> QED
    BY <1>8, <1>9 DEF d

\* A sum of integers is an integer.
LEMMA AddedIsInt ==
  ASSUME NEW s \in Seq(Int)
  PROVE  Added(s) \in Int
  <1>1. PICK h : AddRun(h, s)
    BY AddedRuns
  <1>2. h \in [0..Len(s) -> Int] /\ Added(s) = h[Len(s)]
    BY <1>1 DEF AddRun
  <1>3. Len(s) \in 0..Len(s)
    BY ElementIs
  <1> QED
    BY <1>2, <1>3

FromsOf(e) == [i \in DOMAIN e |-> e[i].from]
TosOf(e) == [i \in DOMAIN e |-> e[i].to]

\* The ends and the weights of a list of edges.
LEMMA FromsAre ==
  ASSUME NEW F, NEW T, NEW e \in Seq(EdgesOf(F, T))
  PROVE  /\ FromsOf(e) \in Seq(F) /\ TosOf(e) \in Seq(T)
         /\ WeightsOf(e) \in Seq(Int)
         /\ \A x : x \in ToSet(TosOf(e)) <=> \E y \in ToSet(e) : y.to = x
  <1> DEFINE n == Len(e)
             f == [i \in DOMAIN e |-> e[i].from]
             t == [i \in DOMAIN e |-> e[i].to]
  <1>1. n \in Nat /\ DOMAIN e = 1..n /\ \A i \in 1..n : e[i] \in EdgesOf(F, T)
    BY ElementIs
  <1>2. \A x \in EdgesOf(F, T) : x.from \in F /\ x.to \in T
    BY DEF EdgesOf
  <1>3. f \in [1..n -> F] /\ t \in [1..n -> T] /\ \A i \in 1..n : t[i] = e[i].to
    BY <1>1, <1>2
  <1>4. WeightsOf(e) \in [1..n -> Int]
    BY WeightsAre
  <1>5. \A y : y \in ToSet(e) <=> \E i \in 1..n : e[i] = y
    BY ToSetIs
  <1> HIDE DEF f, t, n
  <1>6. f \in Seq(F) /\ t \in Seq(T) /\ Len(t) = n /\ WeightsOf(e) \in Seq(Int)
    BY <1>1, <1>3, <1>4, SeqIs
  <1>7. \A x : x \in ToSet(t) <=> \E i \in 1..n : t[i] = x
    BY <1>6, ToSetIs
  <1>8. \A x : x \in ToSet(t) <=> \E y \in ToSet(e) : y.to = x
    BY <1>3, <1>5, <1>7
  <1> QED
    BY <1>6, <1>8 DEF f, t, FromsOf, TosOf

ImportsFrom(imports, m) == Picked(imports, {i \in DOMAIN imports : imports[i].from = m})
BusyOf(imports, m) == Added(WeightsOf(ImportsFrom(imports, m)))
Importers(imports) == FirstTimes(FromsOf(imports))
BusyModules(imports, c) == Slice(Ranked(Importers(imports), [i \in DOMAIN Importers(imports) |-> BusyOf(imports, Importers(imports)[i])]), c.depModules)
BusyAt(imports, c) == {i \in DOMAIN imports : imports[i].from \in ToSet(BusyModules(imports, c))}
BusyEdges(imports, c) == Heaviest(Picked(imports, BusyAt(imports, c)), c.depEdges)
BusyPackages(imports, c) == Slice(FirstTimes(TosOf(BusyEdges(imports, c))), c.depPackages)
BusyDrawn(imports, c) == Picked(BusyEdges(imports, c), {i \in DOMAIN BusyEdges(imports, c) : BusyEdges(imports, c)[i].to \in ToSet(BusyPackages(imports, c))})
Boxed(kind, names) == [i \in DOMAIN names |-> <<kind, names[i]>>]
BusyArrows(drawn) == [i \in DOMAIN drawn |-> <<<<"mod", drawn[i].from>>, <<"pkg", drawn[i].to>>>>]

\* What the dependency diagram is put together from.
LEMMA DependencyParts ==
  ASSUME NEW imports, NEW c
  PROVE  DependencyEdgeGraph(imports, c) =
           Diagram(Boxed("mod", BusyModules(imports, c)) \o Boxed("pkg", BusyPackages(imports, c)), BusyArrows(BusyDrawn(imports, c)))
  BY Zenon DEF DependencyEdgeGraph, Select, Descending, SumOf, ImportsFrom, BusyOf, Importers, BusyModules, BusyAt, BusyEdges,
     BusyPackages, BusyDrawn, Boxed, BusyArrows, Heaviest, WeightsOf, FromsOf, TosOf

\* The modules it shows are modules of the edges.
LEMMA BusyModulesAre ==
  ASSUME NEW F, NEW T, NEW imports \in Seq(EdgesOf(F, T)), NEW c \in Caps
  PROVE  BusyModules(imports, c) \in Seq(F)
  <1> DEFINE s == Importers(imports)
             n == Len(s)
             w == [i \in DOMAIN s |-> BusyOf(imports, s[i])]
  <1>1. s \in Seq(F)
    BY FromsAre, FirstTimesIs DEF Importers
  <1>2. \A m : BusyOf(imports, m) \in Int
    <2> TAKE m
    <2>1. ImportsFrom(imports, m) \in Seq(EdgesOf(F, T))
      BY SelectIs DEF ImportsFrom
    <2>2. WeightsOf(ImportsFrom(imports, m)) \in Seq(Int)
      BY <2>1, FromsAre
    <2> QED
      BY <2>2, AddedIsInt DEF BusyOf
  <1> HIDE DEF s
  <1>3. w \in [1..n -> Int] /\ n = Len(s)
    BY <1>1, <1>2, ElementIs
  <1> HIDE DEF w, n
  <1>4. Ranked(s, w) \in Seq(F)
    BY <1>1, <1>3, RankedIs
  <1>5. Slice(Ranked(s, w), c.depModules) \in Seq(F)
    BY <1>4, DrawCapsAre, SliceWithin
  <1> QED
    BY <1>5 DEF BusyModules, s, w

\* A box for each name.
LEMMA BoxedIs ==
  ASSUME NEW A, NEW names \in Seq(A), NEW kind
  PROVE  /\ Boxed(kind, names) \in Seq({kind} \X A)
         /\ \A x : x \in ToSet(Boxed(kind, names)) <=> \E y \in ToSet(names) : x = <<kind, y>>
  <1> DEFINE n == Len(names)
             t == Boxed(kind, names)
  <1>1. n \in Nat /\ DOMAIN names = 1..n /\ \A i \in 1..n : names[i] \in A
    BY ElementIs
  <1>2. t = [i \in 1..n |-> <<kind, names[i]>>]
    BY <1>1 DEF Boxed
  <1> HIDE DEF t, n
  <1>3. t \in [1..n -> {kind} \X A] /\ \A i \in 1..n : t[i] = <<kind, names[i]>>
    BY <1>1, <1>2
  <1>4. t \in Seq({kind} \X A) /\ Len(t) = n
    BY <1>1, <1>3, SeqIs
  <1>5. \A x : x \in ToSet(t) <=> \E i \in 1..n : t[i] = x
    BY <1>4, ToSetIs
  <1>6. \A y : y \in ToSet(names) <=> \E i \in 1..n : names[i] = y
    BY ToSetIs DEF n
  <1>7. \A x : x \in ToSet(t) <=> \E y \in ToSet(names) : x = <<kind, y>>
    BY <1>3, <1>5, <1>6
  <1> QED
    BY <1>4, <1>7 DEF t

\* A package is drawn where an import of a module that is drawn led to it.
LEMMA DependencyGraphIs ==
  ASSUME NEW F, NEW T, NEW imports \in Seq(EdgesOf(F, T)), NEW c \in Caps
  PROVE  LET d == DependencyEdgeGraph(imports, c) IN
         /\ Sound(d)
         /\ \A box \in ToSet(d.nodes) : box[1] = "pkg" => \E i \in DOMAIN d.edges : d.edges[i][2] = box
  <1> DEFINE mods == BusyModules(imports, c)
             edges == BusyEdges(imports, c)
             pkgs == BusyPackages(imports, c)
             drawn == BusyDrawn(imports, c)
             s == Boxed("mod", mods)
             t == Boxed("pkg", pkgs)
             nodes == s \o t
             B == ToSet(nodes)
             arrows == BusyArrows(drawn)
             d == DependencyEdgeGraph(imports, c)
  <1>1. mods \in Seq(F)
    BY BusyModulesAre
  <1>2. edges \in Seq(EdgesOf(F, T)) /\ \A x \in ToSet(edges) : x.from \in ToSet(mods)
    <2> DEFINE u == Picked(imports, BusyAt(imports, c))
    <2>1. u \in Seq(EdgesOf(F, T)) /\ \A x : x \in ToSet(u) <=> \E i \in 1..Len(imports) : i \in BusyAt(imports, c) /\ imports[i] = x
      BY SelectIs
    <2>2. \A x \in ToSet(u) : x.from \in ToSet(mods)
      BY <2>1 DEF BusyAt
    <2> HIDE DEF u
    <2>3. Heaviest(u, c.depEdges) \in Seq(EdgesOf(F, T)) /\ ToSet(Heaviest(u, c.depEdges)) \subseteq ToSet(u)
      BY <2>1, DrawCapsAre, HeaviestIs
    <2> HIDE DEF mods
    <2> QED
      BY <2>2, <2>3 DEF BusyEdges, u
  <1> HIDE DEF mods, edges
  <1>3. pkgs \in Seq(T) /\ \A x \in ToSet(pkgs) : \E y \in ToSet(edges) : y.to = x
    <2> DEFINE u == TosOf(edges)
    <2>1. u \in Seq(T) /\ \A x : x \in ToSet(u) <=> \E y \in ToSet(edges) : y.to = x
      BY <1>2, FromsAre
    <2> HIDE DEF u
    <2>2. FirstTimes(u) \in Seq(T) /\ ToSet(FirstTimes(u)) = ToSet(u)
      BY <2>1, FirstTimesIs
    <2>3. Slice(FirstTimes(u), c.depPackages) \in Seq(T) /\ ToSet(Slice(FirstTimes(u), c.depPackages)) \subseteq ToSet(FirstTimes(u))
      BY <2>2, DrawCapsAre, SliceWithin
    <2>4. pkgs = Slice(FirstTimes(u), c.depPackages)
      BY DEF BusyPackages, u, edges
    <2> HIDE DEF pkgs
    <2> QED
      BY <2>1, <2>2, <2>3, <2>4
  <1> HIDE DEF pkgs
  <1>4. /\ drawn \in Seq(EdgesOf(F, T))
        /\ \A x : x \in ToSet(drawn) <=> x \in ToSet(edges) /\ x.to \in ToSet(pkgs)
    <2> DEFINE I == {i \in DOMAIN edges : edges[i].to \in ToSet(pkgs)}
    <2>1. DOMAIN edges = 1..Len(edges) /\ \A x : x \in ToSet(edges) <=> \E i \in 1..Len(edges) : edges[i] = x
      BY <1>2, ElementIs, ToSetIs
    <2>2. drawn = Picked(edges, I)
      BY DEF BusyDrawn, edges, pkgs
    <2>3. \A i \in 1..Len(edges) : i \in I <=> edges[i].to \in ToSet(pkgs)
      BY <2>1
    <2> HIDE DEF I, drawn
    <2>4. Picked(edges, I) \in Seq(EdgesOf(F, T)) /\ \A x : x \in ToSet(Picked(edges, I)) <=> \E i \in 1..Len(edges) : i \in I /\ edges[i] = x
      BY <1>2, SelectIs
    <2> QED
      BY <2>1, <2>2, <2>3, <2>4
  <1> HIDE DEF drawn
  <1>5. /\ s \in Seq({"mod"} \X F) /\ t \in Seq({"pkg"} \X T)
        /\ \A x : x \in ToSet(s) <=> \E y \in ToSet(mods) : x = <<"mod", y>>
        /\ \A x : x \in ToSet(t) <=> \E y \in ToSet(pkgs) : x = <<"pkg", y>>
    BY <1>1, <1>3, BoxedIs
  <1> HIDE DEF s, t
  <1>6. B = ToSet(s) \cup ToSet(t)
    <2> DEFINE X == {"mod"} \X F
               Y == {"pkg"} \X T
               Z == X \cup Y
    <2>1. s \in Seq(X) /\ t \in Seq(Y) /\ X \subseteq Z /\ Y \subseteq Z
      BY <1>5
    <2> HIDE DEF X, Y, Z
    <2>2. s \in Seq(Z) /\ t \in Seq(Z)
      BY <2>1, Wider
    <2> QED
      BY <2>2, ConcatIs
  <1> HIDE DEF nodes, B
  <1> DEFINE n == Len(drawn)
  <1>7. n \in Nat /\ DOMAIN drawn = 1..n /\ \A i \in 1..n : drawn[i] \in ToSet(drawn)
    BY <1>4, ElementIs, ToSetIs
  <1>8. arrows = [i \in 1..n |-> <<<<"mod", drawn[i].from>>, <<"pkg", drawn[i].to>>>>]
    BY <1>7 DEF BusyArrows
  <1> HIDE DEF n, arrows
  <1>9. \A x \in ToSet(drawn) : <<"mod", x.from>> \in B /\ <<"pkg", x.to>> \in B
    BY <1>2, <1>4, <1>5, <1>6
  <1>10. arrows \in [1..n -> B \X B] /\ DOMAIN arrows = 1..n /\ \A i \in 1..n : arrows[i][2] = <<"pkg", drawn[i].to>>
    BY <1>7, <1>8, <1>9
  <1>11. arrows \in Seq(B \X B)
    BY <1>7, <1>10, SeqIs
  <1>12. d = Diagram(nodes, arrows)
    BY DependencyParts DEF nodes, arrows, s, t, mods, pkgs, drawn
  <1>13. Sound(Diagram(nodes, arrows))
    BY <1>11, SoundIs DEF B
  <1>14. d.nodes = nodes /\ d.edges = arrows
    BY <1>12 DEF Diagram
  <1>15. ASSUME NEW box \in B, box[1] = "pkg" PROVE \E i \in 1..n : arrows[i][2] = box
    <2>1. \A y \in ToSet(mods) : box # <<"mod", y>>
      BY <1>15
    <2>2. PICK y \in ToSet(pkgs) : box = <<"pkg", y>>
      BY <1>5, <1>6, <1>15, <2>1
    <2>3. PICK x \in ToSet(drawn) : x.to = y
      BY <1>3, <1>4
    <2>4. PICK i \in 1..n : drawn[i] = x
      BY <1>4, ToSetIs DEF n
    <2> QED
      BY <1>10, <2>2, <2>3, <2>4
  <1> HIDE DEF d
  <1>16. Sound(d)
    BY <1>12, <1>13
  <1>17. \A box \in ToSet(d.nodes) : box[1] = "pkg" => \E i \in DOMAIN d.edges : d.edges[i][2] = box
    BY <1>10, <1>14, <1>15 DEF B
  <1> QED
    BY <1>16, <1>17 DEF d

AuthBoxes(n) == [i \in 1..n |-> <<"a", i>>]
VulnBoxes(n) == [i \in 1..n |-> <<"v", i>>]
ClusterOf(severe, c) ==
  IF severe = 0 THEN <<>> ELSE <<<<"vulns", 0>>>> \o VulnBoxes(IF severe < c.vulns THEN severe ELSE c.vulns)

\* What the security flow is put together from.
LEMMA SecurityParts ==
  ASSUME NEW n, NEW severe, NEW c
  PROVE  SecurityFlow(n, severe, c) =
           IF n = 0 /\ severe = 0 THEN Placeholder ELSE Diagram(AuthBoxes(n) \o ClusterOf(severe, c), Hops(AuthBoxes(n)))
  BY DEF SecurityFlow, AuthBoxes, VulnBoxes, ClusterOf

\* Arrows between boxes of the first of two lists.
LEMMA HopsOfFirst ==
  ASSUME NEW A, NEW B, NEW s \in Seq(A), NEW t \in Seq(B)
  PROVE  Sound(Diagram(s \o t, Hops(s)))
  <1> DEFINE u == s \o t
             C == A \cup B
  <1>1. s \in Seq(C) /\ t \in Seq(C)
    <2>1. A \subseteq C /\ B \subseteq C
      OBVIOUS
    <2> HIDE DEF C
    <2> QED
      BY <2>1, Wider
  <1> HIDE DEF C
  <1>2. ToSet(s) \subseteq ToSet(u)
    BY <1>1, ConcatIs
  <1> HIDE DEF u
  <1> DEFINE X == ToSet(s) \X ToSet(s)
             Y == ToSet(u) \X ToSet(u)
  <1>3. Hops(s) \in Seq(X)
    BY HopsAre
  <1>4. X \subseteq Y
    BY <1>2
  <1> HIDE DEF X, Y
  <1>5. Hops(s) \in Seq(Y)
    BY <1>3, <1>4, Wider
  <1> QED
    BY <1>5, SoundIs DEF Y, u

\* Its arrows connect authentication steps only.
LEMMA SecurityFlowIsSound ==
  ASSUME NEW n \in Nat, NEW severe \in Nat, NEW c \in Caps
  PROVE  Sound(SecurityFlow(n, severe, c))
  <1> DEFINE A == {"a"} \X Nat
             V == {"v", "vulns"} \X Nat
             m == IF severe < c.vulns THEN severe ELSE c.vulns
  <1>1. m \in Nat
    BY DrawCapsAre
  <1>2. AuthBoxes(n) \in [1..n -> A] /\ VulnBoxes(m) \in [1..m -> V] /\ <<"vulns", 0>> \in V
    BY <1>1 DEF AuthBoxes, VulnBoxes
  <1> HIDE DEF A, V, m
  <1>3. AuthBoxes(n) \in Seq(A) /\ VulnBoxes(m) \in Seq(V) /\ <<<<"vulns", 0>>>> \in Seq(V) /\ <<>> \in Seq(V)
    BY <1>1, <1>2, SeqIs, SingleIs, EmptyIs
  <1>4. <<<<"vulns", 0>>>> \o VulnBoxes(m) \in Seq(V)
    BY <1>3, ConcatIs
  <1>5. ClusterOf(severe, c) \in Seq(V)
    BY <1>3, <1>4 DEF ClusterOf, m
  <1>6. Sound(Diagram(AuthBoxes(n) \o ClusterOf(severe, c), Hops(AuthBoxes(n))))
    BY <1>3, <1>5, HopsOfFirst
  <1> QED
    BY <1>6, PlainIsSound, SecurityParts

\* The dependency diagram is sound with edges and without.
LEMMA DependencyGraphIsSound ==
  ASSUME NEW runtime \in Seq(STRING), NEW F, NEW T, NEW imports \in Seq(EdgesOf(F, T)), NEW c \in Caps
  PROVE  Sound(DependencyGraph(runtime, imports, c))
  <1> DEFINE A == STRING \cup {"app", "deps", "more"}
             shown == Slice(runtime, c.deps)
             more == IF Len(runtime) > c.deps THEN <<"more">> ELSE <<>>
             nodes == <<"app", "deps">> \o shown \o more
             edges == <<<<"app", "deps">>>>
  <1>1. "app" \in A /\ "deps" \in A /\ "more" \in A /\ STRING \subseteq A
    OBVIOUS
  <1> HIDE DEF A
  <1>2. <<"app", "deps">> \in Seq(A) /\ <<"more">> \in Seq(A) /\ <<>> \in Seq(A)
    BY <1>1
  <1>3. shown \in Seq(A)
    <2>1. shown \in Seq(STRING)
      BY DrawCapsAre, SliceWithin
    <2> HIDE DEF shown
    <2> QED
      BY <1>1, <2>1, Wider
  <1>4. more \in Seq(A)
    BY <1>2
  <1> HIDE DEF shown, more
  <1> DEFINE t == <<"app", "deps">> \o shown
             b == <<"app", "deps">>
  <1>5. t \in Seq(A) /\ ToSet(b) \subseteq ToSet(t)
    <2>1. b \in Seq(A)
      BY <1>2
    <2> HIDE DEF b
    <2>2. b \o shown \in Seq(A) /\ ToSet(b \o shown) = ToSet(b) \cup ToSet(shown)
      BY <1>3, <2>1, ConcatIs
    <2> QED
      BY <2>2 DEF b
  <1> HIDE DEF t
  <1>6. nodes = t \o more
    BY DEF t
  <1>7. ToSet(t) \subseteq ToSet(nodes)
    <2> HIDE DEF nodes
    <2>1. ToSet(t \o more) = ToSet(t) \cup ToSet(more)
      BY <1>4, <1>5, ConcatIs
    <2> QED
      BY <1>6, <2>1
  <1>8. "app" \in ToSet(b) /\ "deps" \in ToSet(b)
    <2>1. 1 \in DOMAIN b /\ 2 \in DOMAIN b /\ b[1] = "app" /\ b[2] = "deps"
      OBVIOUS
    <2> HIDE DEF b
    <2> QED
      BY <2>1 DEF ToSet
  <1> HIDE DEF nodes, b
  <1> DEFINE B == ToSet(nodes)
  <1>9. <<"app", "deps">> \in B \X B
    BY <1>5, <1>7, <1>8
  <1> HIDE DEF B
  <1>10. edges \in Seq(B \X B)
    BY <1>9, SingleIs
  <1> HIDE DEF edges
  <1>11. Sound(Diagram(nodes, edges))
    BY <1>10, SoundIs DEF B
  <1>12. DependencyGraph(runtime, imports, c) =
           IF imports # <<>> THEN DependencyEdgeGraph(imports, c)
           ELSE IF runtime = <<>> THEN Placeholder ELSE Diagram(nodes, edges)
    BY Zenon DEF DependencyGraph, nodes, shown, more, edges
  <1>13. Sound(DependencyEdgeGraph(imports, c))
    BY DependencyGraphIs
  <1> QED
    BY <1>11, <1>12, <1>13, PlainIsSound

\* Whatever is drawn, no arrow of it dangles.
LEMMA EntriesAreSound ==
  ASSUME NEW g, IsGraph(g), NEW facts, FactsTyped(g, facts), NEW said \in Sayings, NEW c \in Caps,
         NEW x \in Entries(g, facts, said, c)
  PROVE  Sound(x.diagram)
  <1>1. /\ facts.chains \in Seq(Paths(g)) /\ facts.edges \in Seq(EdgesOf(ModuleNames, ModuleNames))
        /\ facts.imports \in Seq(EdgesOf(ModuleNames, STRING))
    BY DEF FactsTyped
  <1>2. /\ said.edges \in Seq([from : STRING, to : STRING]) /\ said.flows \in Seq(Seq(STRING))
        /\ said.authSteps \in Nat /\ said.severe \in Nat /\ said.runtime \in Seq(STRING)
    BY DEF Sayings
  <1>3. /\ c.flows \in Nat /\ c.flowSteps \in Nat \ {0} /\ c.flowDeps \in Nat /\ c.steps \in Nat
    BY DrawCapsAre, FactCapsAre
  <1>4. ASSUME x = FlowOfFacts(g, facts, c) PROVE Sound(x.diagram)
    <2>1. x.diagram = SystemFlow(g, facts.chains, facts.imports, c)
      BY <1>4 DEF FlowOfFacts, Entry
    <2>2. CASE facts.chains = <<>>
      <3>1. SystemFlow(g, facts.chains, facts.imports, c) = Placeholder
        BY <2>2 DEF SystemFlow
      <3> QED
        BY <2>1, <3>1, PlainIsSound
    <2>3. CASE facts.chains # <<>>
      BY <1>1, <1>3, <2>1, <2>3, SystemFlowIs
    <2> QED
      BY <2>2, <2>3
  <1>5. ASSUME x \in OthersOf(facts, said, c) PROVE Sound(x.diagram)
    <2>1. \/ x.diagram = ArchitectureOf(facts, said, c)
          \/ x.diagram = SecurityFlow(said.authSteps, said.severe, c)
          \/ x.diagram = DependencyGraph(said.runtime, facts.imports, c)
          \/ x.diagram = Diagram(<<>>, <<>>)
      BY <1>5 DEF OthersOf, Entry
    <2>2. Sound(ArchitectureOf(facts, said, c))
      BY <1>1, <1>2, ModuleGraphIsSound DEF ArchitectureOf
    <2>3. Sound(SecurityFlow(said.authSteps, said.severe, c))
      BY <1>2, SecurityFlowIsSound
    <2>4. Sound(DependencyGraph(said.runtime, facts.imports, c))
      BY <1>1, <1>2, DependencyGraphIsSound
    <2> QED
      BY <2>1, <2>2, <2>3, <2>4, PlainIsSound
  <1>6. ASSUME x \in FlowEntries(facts.chains, said.flows, c) PROVE Sound(x.diagram)
    <2> DEFINE from == FlowFrom(facts.chains, said.flows, c)
    <2>1. PICK i \in 1..Len(from) : x.diagram = FlowDrawn(facts.chains, said.flows, c, i)
      BY <1>6 DEF FlowEntries
    <2>2. /\ from \in Seq(Paths(g) \cup Seq(STRING))
          /\ ToSet(from) \subseteq (IF facts.chains # <<>> THEN ToSet(facts.chains) ELSE ToSet(said.flows))
      BY <1>1, <1>2, <1>3, FlowFromIs
    <2> HIDE DEF from
    <2>3. from[i] \in ToSet(from)
      BY <2>2, ToSetIs
    <2>4. CASE facts.chains # <<>>
      <3>1. from[i] \in Paths(g)
        BY <1>1, <2>2, <2>3, <2>4, ToSetIs
      <3>2. from[i] \in Seq(Nodes(g))
        BY <3>1 DEF Trails, Paths
      <3>3. Sound(SequenceFromChain(from[i], c))
        BY <3>2, ChainIsDrawn
      <3> QED
        BY <2>1, <2>4, <3>3 DEF FlowDrawn, from
    <2>5. CASE facts.chains = <<>>
      <3>1. from[i] \in Seq(STRING)
        BY <1>2, <2>2, <2>3, <2>5, ToSetIs
      <3>2. Slice(from[i], c.steps) \in Seq(STRING)
        BY <1>3, <3>1, SliceWithin
      <3>3. Sound(SequenceDiagram(from[i], c))
        BY <3>2, SequencedIs DEF SequenceDiagram
      <3> QED
        BY <2>1, <2>5, <3>3 DEF FlowDrawn, from
    <2> QED
      BY <2>4, <2>5
  <1> QED
    BY <1>4, <1>5, <1>6 DEF Entries

(***************************************************************************)
(* The ids of a diagram                                                    *)
(***************************************************************************)
NumberedId(flat, n) == IF n = 0 THEN flat ELSE Append(flat, n)
TakenBy(acc) == {acc[k] : k \in DOMAIN acc}
FreeAt(acc, flat, n) == NumberedId(flat, n) \notin TakenBy(acc)
FreeNumber(acc, flat, m) == CHOOSE n \in 0..m : FreeAt(acc, flat, n) /\ \A k \in 0..(n - 1) : ~FreeAt(acc, flat, k)
WithId(acc, l, m, Flat) == IF l \in DOMAIN acc THEN acc ELSE Given(acc, l, NumberedId(Flat[l], FreeNumber(acc, Flat[l], m)))
Allocated(labels) == UNION {[D -> Seq(Nat)] : D \in SUBSET ToSet(labels)}
Flattened(labels, Flat) == labels \in Seq(STRING) /\ \A l \in ToSet(labels) : Flat[l] \in Seq(Nat)

\* A base has as many ids as there are numbers.
LEMMA NumbersDiffer ==
  ASSUME NEW flat \in Seq(Nat), NEW m \in Nat, NEW n \in Nat
  PROVE  /\ NumberedId(flat, m) \in Seq(Nat)
         /\ NumberedId(flat, m) = NumberedId(flat, n) => m = n
  <1>1. \A k \in Nat : Append(flat, k) \in Seq(Nat) /\ Len(Append(flat, k)) = Len(flat) + 1 /\ Append(flat, k)[Len(flat) + 1] = k
    OBVIOUS
  <1>2. Len(flat) # Len(flat) + 1
    BY ElementIs
  <1> QED
    BY <1>1, <1>2 DEF NumberedId

\* What an allocation is.
LEMMA AllocatedIs ==
  ASSUME NEW labels, NEW acc
  PROVE  acc \in Allocated(labels) <=> DOMAIN acc \subseteq ToSet(labels) /\ acc \in [DOMAIN acc -> Seq(Nat)]
  BY DEF Allocated

\* There are more numbers than labels, so one is free.
LEMMA SomeIsFree ==
  ASSUME NEW labels \in Seq(STRING), NEW acc \in Allocated(labels), NEW flat \in Seq(Nat)
  PROVE  LET n == FreeNumber(acc, flat, Len(labels)) IN n \in Nat /\ FreeAt(acc, flat, n)
  <1> DEFINE m == Len(labels)
             T == {n \in 0..m : FreeAt(acc, flat, n)}
  <1>1. m \in Nat
    BY ElementIs
  <1>2. T # {}
    <2> SUFFICES ASSUME T = {} PROVE FALSE
      OBVIOUS
    <2> DEFINE At(n) == CHOOSE p \in 1..m : labels[p] \in DOMAIN acc /\ acc[labels[p]] = NumberedId(flat, n)
               f == [n \in 0..m |-> At(n)]
    <2>1. ASSUME NEW n \in 0..m PROVE At(n) \in 1..m /\ acc[labels[At(n)]] = NumberedId(flat, n)
      <3>1. NumberedId(flat, n) \in TakenBy(acc)
        BY DEF FreeAt
      <3>2. PICK l \in DOMAIN acc : acc[l] = NumberedId(flat, n)
        BY <3>1 DEF TakenBy
      <3>3. PICK p \in 1..m : labels[p] = l
        BY <3>2, AllocatedIs, ToSetIs
      <3> QED
        BY <3>2, <3>3
    <2> HIDE DEF At
    <2>2. f \in [0..m -> 1..m]
      BY <2>1
    <2>3. /\ IsFiniteSet(0..m) /\ Cardinality(0..m) = m + 1
          /\ IsFiniteSet(1..m) /\ Cardinality(1..m) = m
      <3> HIDE DEF m
      <3> QED
        BY <1>1, FS_Interval
    <2> HIDE DEF f
    <2>4. Cardinality(1..m) < Cardinality(0..m)
      <3> HIDE DEF m
      <3> QED
        BY <1>1, <2>3
    <2>5. \E x, y \in 0..m : x # y /\ f[x] = f[y]
      <3> DEFINE S == 0..m
                 V == 1..m
      <3>1. IsFiniteSet(S) /\ IsFiniteSet(V) /\ Cardinality(V) < Cardinality(S) /\ f \in [S -> V]
        BY <2>2, <2>3, <2>4
      <3> HIDE DEF S, V
      <3>2. \E x, y \in S : x # y /\ f[x] = f[y]
        BY <3>1, FS_PigeonHole
      <3> QED
        BY <3>2 DEF S
    <2>6. PICK x \in 0..m, y \in 0..m : x # y /\ f[x] = f[y]
      BY <2>5
    <2>7. NumberedId(flat, x) = NumberedId(flat, y)
      <3>1. f[x] = At(x) /\ f[y] = At(y)
        BY DEF f
      <3> QED
        BY <2>1, <2>6, <3>1
    <2>8. x \in Nat /\ y \in Nat
      BY <1>1
    <2> QED
      BY <2>6, <2>7, <2>8, NumbersDiffer
  <1>3. T \subseteq Nat /\ \A n \in T : n \in 0..m
    BY <1>1
  <1>4. PICK n \in T : \A k \in T : n <= k
    <2> HIDE DEF T
    <2> QED
      BY <1>2, <1>3, LeastNumber
  <1>5. FreeAt(acc, flat, n) /\ \A k \in 0..(n - 1) : ~FreeAt(acc, flat, k)
    <2>1. ASSUME NEW k \in 0..(n - 1), FreeAt(acc, flat, k) PROVE FALSE
      <3>1. k \in 0..m /\ ~(n <= k)
        <4> HIDE DEF T, m
        <4> QED
          BY <1>1, <1>3, <1>4
      <3> QED
        BY <1>4, <2>1, <3>1
    <2> QED
      BY <1>4, <2>1
  <1>6. n \in 0..m
    BY <1>4
  <1> HIDE DEF T, m
  <1>7. FreeNumber(acc, flat, m) \in 0..m /\ FreeAt(acc, flat, FreeNumber(acc, flat, m))
    <2> DEFINE Good(k) == FreeAt(acc, flat, k) /\ \A j \in 0..(k - 1) : ~FreeAt(acc, flat, j)
               l == CHOOSE k \in 0..m : Good(k)
    <2>1. \E k \in 0..m : Good(k)
      BY <1>5, <1>6
    <2> HIDE DEF Good
    <2>2. l \in 0..m /\ Good(l)
      BY <2>1
    <2>3. FreeNumber(acc, flat, m) = l
      BY DEF FreeNumber, Good
    <2> HIDE DEF l
    <2> QED
      BY <2>2, <2>3 DEF Good
  <1> QED
    BY <1>1, <1>7 DEF m

Apart(acc) == \A a, b \in DOMAIN acc : acc[a] = acc[b] => a = b

Grown(more, acc, l) == DOMAIN more = DOMAIN acc \cup {l} /\ (Apart(acc) => Apart(more))

\* One more label has an id that no other has.
LEMMA WithIdIs ==
  ASSUME NEW labels, NEW Flat, Flattened(labels, Flat), NEW acc \in Allocated(labels), NEW l \in ToSet(labels)
  PROVE  /\ WithId(acc, l, Len(labels), Flat) \in Allocated(labels)
         /\ Grown(WithId(acc, l, Len(labels), Flat), acc, l)
  <1> DEFINE m == Len(labels)
             n == FreeNumber(acc, Flat[l], m)
             id == NumberedId(Flat[l], n)
             more == WithId(acc, l, m, Flat)
  <1>1. labels \in Seq(STRING) /\ Flat[l] \in Seq(Nat)
    BY DEF Flattened
  <1>2. n \in Nat /\ FreeAt(acc, Flat[l], n)
    BY <1>1, SomeIsFree
  <1> HIDE DEF n
  <1>3. id \in Seq(Nat) /\ id \notin TakenBy(acc)
    BY <1>1, <1>2, NumbersDiffer DEF FreeAt
  <1>4. DOMAIN acc \subseteq ToSet(labels) /\ acc \in [DOMAIN acc -> Seq(Nat)]
    BY AllocatedIs
  <1>5. CASE l \in DOMAIN acc
    <2>1. more = acc
      BY <1>5 DEF WithId
    <2>2. DOMAIN acc \cup {l} = DOMAIN acc
      BY <1>5
    <2> HIDE DEF more
    <2> QED
      BY <2>1, <2>2 DEF more, Grown
  <1>6. CASE l \notin DOMAIN acc
    <2>1. more = Given(acc, l, id)
      BY <1>6 DEF WithId, n
    <2> HIDE DEF id
    <2>2. more = [k \in DOMAIN acc \cup {l} |-> IF k = l THEN id ELSE acc[k]]
      BY <2>1 DEF Given
    <2> HIDE DEF more
    <2>3. /\ DOMAIN more = DOMAIN acc \cup {l} /\ more[l] = id
          /\ \A k \in DOMAIN acc : more[k] = acc[k]
          /\ more \in [DOMAIN acc \cup {l} -> Seq(Nat)]
      BY <1>3, <1>4, <1>6, <2>2
    <2>4. more \in Allocated(labels)
      BY <1>4, <2>3, AllocatedIs
    <2>5. ASSUME Apart(acc), NEW a \in DOMAIN more, NEW b \in DOMAIN more, more[a] = more[b] PROVE a = b
      <3>1. \A k \in DOMAIN acc : more[k] # id
        BY <1>3, <2>3 DEF TakenBy
      <3> QED
        BY <2>3, <2>5, <3>1 DEF Apart
    <2> QED
      BY <2>3, <2>4, <2>5 DEF Apart, more, Grown
  <1> QED
    BY <1>5, <1>6

\* At first nothing is allocated.
LEMMA NothingAllocated ==
  ASSUME NEW labels
  PROVE  <<>> \in Allocated(labels)
  <1>1. DOMAIN <<>> = {} /\ <<>> \in [{} -> Seq(Nat)]
    OBVIOUS
  <1> QED
    BY <1>1, AllocatedIs

\* Ids as a fold whose step has a name.
LEMMA IdsParts ==
  ASSUME NEW labels, NEW Flat
  PROVE  Ids(labels, Flat) = FoldLeft(LAMBDA acc, l : WithId(acc, l, Len(labels), Flat), <<>>, labels)
  BY Zenon DEF Ids, WithId, FreeNumber, FreeAt, TakenBy, NumberedId

IdsRun(h, labels, Flat) ==
  /\ h \in [0..Len(labels) -> Allocated(labels)]
  /\ h[0] = <<>>
  /\ \A k \in 1..Len(labels) : h[k] = WithId(h[k - 1], labels[k], Len(labels), Flat)
  /\ Ids(labels, Flat) = h[Len(labels)]

\* The ids as a run over the labels.
LEMMA IdsRuns ==
  ASSUME NEW labels, NEW Flat, Flattened(labels, Flat)
  PROVE  \E h : IdsRun(h, labels, Flat)
  <1> DEFINE n == Len(labels)
             step == [k \in 1..n |-> [acc \in Allocated(labels) |-> WithId(acc, labels[k], Len(labels), Flat)]]
             Eq(f) == f = [S \in SUBSET (1..n) |->
                             IF S = {} THEN <<>> ELSE WithId(f[S \ {Max(S)}], labels[Max(S)], Len(labels), Flat)]
             F == CHOOSE f : Eq(f)
  <1>1. n \in Nat /\ DOMAIN labels = 1..n /\ <<>> \in Allocated(labels) /\ \A acc \in Allocated(labels) : \A k \in 1..n : WithId(acc, labels[k], Len(labels), Flat) \in Allocated(labels)
    BY ElementIs, ToSetIs, WithIdIs, NothingAllocated DEF Flattened
  <1>2. step \in [1..n -> [Allocated(labels) -> Allocated(labels)]]
    BY <1>1
  <1>3. \A S \in SUBSET (1..n) : S # {} => Max(S) \in 1..n /\ S \ {Max(S)} \in SUBSET (1..n)
    <2> TAKE S \in SUBSET (1..n)
    <2>1. S \subseteq 0..n
      BY <1>1
    <2> QED
      BY <1>1, <2>1, MaxIsGreatest
  <1>4. \E f : Eq(f)
    <2>1. PICK f : FoldOver(f, n, Allocated(labels), <<>>, step)
      <3> HIDE DEF step, n, Eq, F
      <3> QED
        BY <1>1, <1>2, FoldExists
    <2>2. Eq(f)
      BY <1>3, <2>1 DEF FoldOver
    <2> QED
      BY <2>2
  <1>5. Eq(F)
    <2> HIDE DEF Eq
    <2> QED
      BY <1>4
  <1>6. Ids(labels, Flat) = F[1..n]
    BY <1>1 DEF Ids, WithId, FreeNumber, FreeAt, TakenBy, NumberedId, Given, FoldLeft, MapThenFoldSet
  <1>7. Outcome(F[1..n], n, Allocated(labels), <<>>, step)
    <2>1. FoldedBy(F, n, Allocated(labels), <<>>, step)
      <3>1. F[{}] = <<>>
        BY <1>5
      <3>2. ASSUME NEW S \in SUBSET (1..n), S # {}, F[S \ {Max(S)}] \in Allocated(labels)
            PROVE  F[S] = step[Max(S)][F[S \ {Max(S)}]]
        <4>1. F[S] = WithId(F[S \ {Max(S)}], labels[Max(S)], Len(labels), Flat)
          BY <1>5, <3>2
        <4> HIDE DEF F
        <4> QED
          BY <1>3, <3>2, <4>1
      <3> HIDE DEF F, step
      <3> QED
        BY <3>1, <3>2 DEF FoldedBy
    <2> HIDE DEF step, F, n, Eq
    <2> QED
      BY <1>1, <1>2, <2>1, FoldIs
  <1>8. PICK h : Running(h, n, Allocated(labels), <<>>, step) /\ h[n] = F[1..n]
    <2> HIDE DEF step, F, n, Eq
    <2> QED
      BY <1>7 DEF Outcome
  <1>9. h \in [0..n -> Allocated(labels)] /\ h[0] = <<>> /\ \A k \in 1..n : h[k] = step[k][h[k - 1]]
    <2> HIDE DEF step, n
    <2> QED
      BY <1>8 DEF Running
  <1>10. ASSUME NEW k \in 1..n PROVE h[k] = WithId(h[k - 1], labels[k], Len(labels), Flat)
    <2>1. k - 1 \in 0..n
      BY <1>1
    <2>2. h[k - 1] \in Allocated(labels)
      <3> HIDE DEF n
      <3> QED
        BY <1>9, <2>1
    <2> QED
      BY <1>9, <2>2
  <1>11. IdsRun(h, labels, Flat)
    <2> HIDE DEF F
    <2> QED
      BY <1>6, <1>8, <1>9, <1>10 DEF IdsRun
  <1> QED
    BY <1>11

\* Every label has an id, and no two have the same.
LEMMA IdsAre ==
  ASSUME NEW labels, NEW Flat, Flattened(labels, Flat)
  PROVE  DOMAIN Ids(labels, Flat) = ToSet(labels) /\ Apart(Ids(labels, Flat))
  <1> DEFINE n == Len(labels)
             Good(k, acc) == DOMAIN acc = {labels[i] : i \in 1..k} /\ Apart(acc)
  <1>1. PICK h : IdsRun(h, labels, Flat)
    BY IdsRuns
  <1>2. /\ h \in [0..n -> Allocated(labels)] /\ h[0] = <<>>
        /\ \A k \in 1..n : h[k] = WithId(h[k - 1], labels[k], n, Flat)
        /\ Ids(labels, Flat) = h[n]
    BY <1>1 DEF IdsRun
  <1>3. n \in Nat /\ \A k \in 1..n : labels[k] \in ToSet(labels) /\ k - 1 \in 0..n
    BY ElementIs, ToSetIs DEF Flattened
  <1> DEFINE G == {k \in 0..n : Good(k, h[k])}
  <1>4. 0 \in G
    <2>1. DOMAIN <<>> = {}
      OBVIOUS
    <2>2. {labels[i] : i \in 1..0} = {}
      OBVIOUS
    <2>3. 0 \in 0..n
      BY <1>3
    <2> QED
      BY <1>2, <2>1, <2>2, <2>3 DEF Apart
  <1>5. ASSUME NEW k \in 1..n, k - 1 \in G PROVE k \in G
    <2> DEFINE acc == h[k - 1]
    <2>1. acc \in Allocated(labels) /\ Good(k - 1, acc) /\ labels[k] \in ToSet(labels)
      BY <1>2, <1>3, <1>5
    <2>2. h[k] = WithId(acc, labels[k], n, Flat)
      BY <1>2
    <2> HIDE DEF acc
    <2>3. DOMAIN h[k] = DOMAIN acc \cup {labels[k]} /\ Apart(h[k])
      <3> DEFINE l == labels[k]
      <3>1. l \in ToSet(labels) /\ h[k] = WithId(acc, l, Len(labels), Flat) /\ Apart(acc) /\ acc \in Allocated(labels)
        BY <2>1, <2>2
      <3> HIDE DEF l
      <3>2. Grown(WithId(acc, l, Len(labels), Flat), acc, l)
        BY <3>1, WithIdIs
      <3> QED
        BY <3>1, <3>2 DEF l, Grown
    <2>4. {labels[i] : i \in 1..k} = {labels[i] : i \in 1..(k - 1)} \cup {labels[k]}
      <3>1. 1..k = 1..(k - 1) \cup {k}
        BY <1>3
      <3> QED
        BY <3>1
    <2> HIDE DEF n
    <2>5. k \in 0..n
      BY <1>3
    <2> QED
      BY <2>1, <2>3, <2>4, <2>5
  <1> HIDE DEF G
  <1>6. 0..n \subseteq G
    <2> HIDE DEF n
    <2> QED
      BY <1>3, <1>4, <1>5, Stepwise
  <1>7. Good(n, h[n])
    <2>1. n \in 0..n
      BY <1>3
    <2> QED
      BY <1>6, <2>1 DEF G
  <1>8. {labels[i] : i \in 1..n} = ToSet(labels)
    BY ToSetIs DEF Flattened
  <1> QED
    BY <1>2, <1>7, <1>8

(***************************************************************************)
(* Weights of module edges                                                 *)
(***************************************************************************)
\* Edges that count each a pair of a list.
Tallied(e, P, F, T) ==
  /\ e \in Seq(EdgesOf(F, T)) /\ NoRepeat(e)
  /\ \A x \in ToSet(e) : x.weight = Cardinality(TimesOf(P, <<x.from, x.to>>))

Covers(e, P) ==
  /\ \A x \in ToSet(e) : <<x.from, x.to>> \in ToSet(P)
  /\ \A p \in ToSet(P) : \E x \in ToSet(e) : <<x.from, x.to>> = p

CountedIn(e, P) == {q \in 1..Len(P) : \E x \in ToSet(e) : P[q] = <<x.from, x.to>>}

\* An edge is its ends and its weight.
LEMMA EdgeIs ==
  ASSUME NEW F, NEW T, NEW x \in EdgesOf(F, T), NEW y \in EdgesOf(F, T), x.from = y.from, x.to = y.to, x.weight = y.weight
  PROVE  x = y
  <1>1. x = [from |-> x.from, to |-> x.to, weight |-> x.weight] /\ y = [from |-> y.from, to |-> y.to, weight |-> y.weight]
    BY DEF EdgesOf
  <1> QED
    BY <1>1

\* Tallied edges have each pair once.
LEMMA TalliedOnce ==
  ASSUME NEW F, NEW T, NEW P, NEW e, Tallied(e, P, F, T)
  PROVE  /\ \A x, y \in ToSet(e) : x.from = y.from /\ x.to = y.to => x = y
         /\ \A i, j \in 1..Len(e) : e[i].from = e[j].from /\ e[i].to = e[j].to => i = j
  <1>1. ASSUME NEW x \in ToSet(e), NEW y \in ToSet(e), x.from = y.from, x.to = y.to PROVE x = y
    <2>1. x \in EdgesOf(F, T) /\ y \in EdgesOf(F, T)
      BY ToSetIs DEF Tallied
    <2>2. x.weight = Cardinality(TimesOf(P, <<x.from, x.to>>)) /\ y.weight = Cardinality(TimesOf(P, <<y.from, y.to>>))
      BY DEF Tallied
    <2> QED
      BY <1>1, <2>1, <2>2, EdgeIs
  <1>2. e \in Seq(EdgesOf(F, T)) /\ NoRepeat(e)
    BY DEF Tallied
  <1>3. DOMAIN e = 1..Len(e) /\ \A i \in 1..Len(e) : e[i] \in ToSet(e)
    BY <1>2, ElementIs, ToSetIs
  <1>4. ASSUME NEW i \in 1..Len(e), NEW j \in 1..Len(e), e[i].from = e[j].from, e[i].to = e[j].to PROVE i = j
    <2>1. e[i] = e[j]
      BY <1>1, <1>3, <1>4
    <2> QED
      BY <1>2, <1>3, <2>1 DEF NoRepeat
  <1> QED
    BY <1>1, <1>4

\* Counted pairs are tallied, and no pair is left out.
LEMMA CountedTallied ==
  ASSUME NEW F, NEW T, NEW P \in Seq(F \X T)
  PROVE  Tallied(Counted(P), P, F, T) /\ Covers(Counted(P), P)
  <1> DEFINE e == Counted(P)
             rows == EdgeRows(P)
             n == Len(e)
  <1>1. /\ e \in Seq(EdgesOf(F, T)) /\ Len(e) = Len(rows)
        /\ \A i \in 1..n : <<e[i].from, e[i].to>> = rows[i] /\ e[i].weight = Cardinality(TimesOf(P, rows[i]))
    <2>1. Len(e) = Len(rows)
      BY CountedIs
    <2> QED
      BY <2>1, CountedIs
  <1>2. rows \in Seq(F \X T) /\ NoRepeat(rows) /\ ToSet(rows) = ToSet(P)
    BY EdgeRowsAre
  <1> HIDE DEF e, rows
  <1>3. /\ DOMAIN e = 1..n /\ DOMAIN rows = 1..n
        /\ \A x : x \in ToSet(e) <=> \E i \in 1..n : e[i] = x
        /\ \A x : x \in ToSet(rows) <=> \E i \in 1..n : rows[i] = x
    BY <1>1, <1>2, ElementIs, ToSetIs
  <1>4. NoRepeat(e)
    <2> SUFFICES ASSUME NEW i \in 1..n, NEW j \in 1..n, e[i] = e[j] PROVE i = j
      BY <1>3 DEF NoRepeat
    <2>1. rows[i] = rows[j]
      BY <1>1
    <2> QED
      BY <1>2, <1>3, <2>1 DEF NoRepeat
  <1>5. \A x \in ToSet(e) : x.weight = Cardinality(TimesOf(P, <<x.from, x.to>>)) /\ <<x.from, x.to>> \in ToSet(rows)
    <2> SUFFICES ASSUME NEW i \in 1..n
                 PROVE  e[i].weight = Cardinality(TimesOf(P, <<e[i].from, e[i].to>>)) /\ <<e[i].from, e[i].to>> \in ToSet(rows)
      BY <1>3
    <2> QED
      BY <1>1, <1>3
  <1>6. \A p \in ToSet(rows) : \E x \in ToSet(e) : <<x.from, x.to>> = p
    BY <1>1, <1>3
  <1>7. Tallied(e, P, F, T)
    BY <1>1, <1>4, <1>5 DEF Tallied
  <1> QED
    BY <1>2, <1>5, <1>6, <1>7 DEF e, Covers

\* Their weights add up to the positions they count.
LEMMA TallyAdds ==
  ASSUME NEW F, NEW T, NEW P \in Seq(F \X T), NEW e, Tallied(e, P, F, T)
  PROVE  Added(WeightsOf(e)) = Cardinality(CountedIn(e, P))
  <1> DEFINE n == Len(e)
             m == Len(P)
             s == WeightsOf(e)
             S == [i \in 1..n |-> TimesOf(P, <<e[i].from, e[i].to>>)]
  <1>1. e \in Seq(EdgesOf(F, T)) /\ \A x \in ToSet(e) : x.weight = Cardinality(TimesOf(P, <<x.from, x.to>>))
    BY DEF Tallied
  <1>2. n \in Nat /\ DOMAIN e = 1..n /\ m \in Nat /\ DOMAIN P = 1..m
        /\ \A x : x \in ToSet(e) <=> \E i \in 1..n : e[i] = x
    BY <1>1, ElementIs, ToSetIs
  <1>3. s \in [1..n -> Int] /\ \A i \in 1..n : s[i] = e[i].weight
    BY <1>1, <1>2, WeightsAre DEF WeightsOf
  <1> HIDE DEF s, n
  <1>4. s \in Seq(Int) /\ Len(s) = n
    BY <1>2, <1>3, SeqIs
  <1>5. \A p : TimesOf(P, p) \subseteq 1..m
    BY <1>2 DEF TimesOf
  <1>6. S \in [1..n -> SUBSET (1..m)] /\ \A i \in 1..n : S[i] = TimesOf(P, <<e[i].from, e[i].to>>)
    BY <1>5
  <1> HIDE DEF S
  <1>7. ASSUME NEW i \in 1..n, NEW j \in 1..n, i # j PROVE S[i] \cap S[j] = {}
    <2> SUFFICES ASSUME NEW q, q \in S[i], q \in S[j] PROVE FALSE
      OBVIOUS
    <2>1. <<e[i].from, e[i].to>> = <<e[j].from, e[j].to>>
      BY <1>6 DEF TimesOf
    <2>2. e[i].from = e[j].from /\ e[i].to = e[j].to
      BY <2>1
    <2> QED
      BY <1>7, <2>2, TalliedOnce DEF n
  <1>8. Partition(S, n, m)
    BY <1>6, <1>7 DEF Partition
  <1>9. \A i \in 1..n : s[i] = Cardinality(S[i])
    BY <1>1, <1>2, <1>3, <1>6
  <1>10. Added(s) = Cardinality(UpTo(S, n))
    BY <1>2, <1>4, <1>8, <1>9, PartsAddUp
  <1>11. UpTo(S, n) = {q \in 1..m : \E x \in ToSet(e) : P[q] = <<x.from, x.to>>}
    <2>1. \A q : q \in UpTo(S, n) <=> \E i \in 1..n : q \in 1..m /\ P[q] = <<e[i].from, e[i].to>>
      <3>1. \A i \in 1..n : \A q : q \in S[i] <=> q \in 1..m /\ P[q] = <<e[i].from, e[i].to>>
        BY <1>2, <1>6 DEF TimesOf
      <3>2. \A q : q \in UpTo(S, n) <=> \E i \in 1..n : q \in S[i]
        BY DEF UpTo
      <3> QED
        BY <3>1, <3>2
    <2>2. \A q : (\E i \in 1..n : P[q] = <<e[i].from, e[i].to>>) <=> \E x \in ToSet(e) : P[q] = <<x.from, x.to>>
      BY <1>2
    <2> QED
      BY <2>1, <2>2
  <1> QED
    BY <1>10, <1>11 DEF s, CountedIn

\* The heaviest of tallied edges are tallied, all of them if the cap does not cut.
LEMMA HeaviestTallied ==
  ASSUME NEW F, NEW T, NEW P, NEW e, Tallied(e, P, F, T), NEW cap \in Nat
  PROVE  /\ Tallied(Heaviest(e, cap), P, F, T)
         /\ ToSet(Heaviest(e, cap)) \subseteq ToSet(e)
         /\ Len(Heaviest(e, cap)) < cap \/ Len(e) <= cap => ToSet(Heaviest(e, cap)) = ToSet(e)
  <1> DEFINE h == Heaviest(e, cap)
             r == Ranked(e, WeightsOf(e))
  <1>1. e \in Seq(EdgesOf(F, T)) /\ NoRepeat(e)
    BY DEF Tallied
  <1>2. /\ h \in Seq(EdgesOf(F, T)) /\ ToSet(h) \subseteq ToSet(e) /\ NoRepeat(h)
        /\ Len(h) < cap => h = r
    BY <1>1, HeaviestIs
  <1>3. WeightsOf(e) \in [1..Len(e) -> Int]
    BY <1>1, WeightsAre
  <1>4. r \in Seq(EdgesOf(F, T)) /\ Len(r) = Len(e) /\ ToSet(r) = ToSet(e)
    BY <1>1, <1>3, RankedIs
  <1>5. h = Slice(r, cap)
    BY DEF Heaviest
  <1> HIDE DEF h, r
  <1>6. Len(e) <= cap => h = r
    BY <1>4, <1>5, SliceIs
  <1>7. Tallied(h, P, F, T)
    BY <1>2 DEF Tallied
  <1> QED
    BY <1>2, <1>4, <1>6, <1>7 DEF h

CrossesIn(g, f) == {i \in DOMAIN g.deps[f] : ModuleOf(g, g.deps[f][i]) \notin {None, g.module[f]}}
ImportSet(g) == UNION {{f} \X CrossesIn(g, f) : f \in ToSet(g.files) \ g.broken}

\* The pairs of a file are those of its imports, in order.
LEMMA PairsOfFile ==
  ASSUME NEW g, IsGraph(g), NEW f \in ToSet(g.files)
  PROVE  /\ DOMAIN g.deps[f] = 1..Len(g.deps[f])
         /\ PairsOf(g, f) \in Seq(ModuleNames \X ModuleNames)
         /\ f \notin g.broken => Len(PairsOf(g, f)) = Len(g.deps[f])
         /\ \A p \in 1..Len(PairsOf(g, f)) : /\ f \notin g.broken /\ p \in 1..Len(g.deps[f])
                                             /\ PairsOf(g, f)[p] = <<g.module[f], ModuleOf(g, g.deps[f][p])>>
  <1> DEFINE d == g.deps[f]
             r == [i \in DOMAIN d |-> <<g.module[f], ModuleOf(g, d[i])>>]
  <1>1. d \in Seq(STRING)
    BY ModuleOfIs
  <1>2. PairsOf(g, f) \in Seq(ModuleNames \X ModuleNames)
    BY PairsAre
  <1>3. PairsOf(g, f) = IF Readable(g, f) THEN r ELSE <<>>
    BY DEF PairsOf
  <1> HIDE DEF d
  <1>4. Len(d) \in Nat /\ DOMAIN d = 1..Len(d)
    BY <1>1, ElementIs
  <1>5. DOMAIN r = 1..Len(d) /\ \A p \in 1..Len(d) : r[p] = <<g.module[f], ModuleOf(g, d[p])>>
    BY <1>4
  <1> HIDE DEF r
  <1>6. CASE f \in g.broken
    <2>1. PairsOf(g, f) = <<>>
      BY <1>3, <1>6 DEF Readable
    <2>2. Len(PairsOf(g, f)) = 0
      BY <2>1, EmptyIs
    <2> QED
      BY <1>2, <1>4, <1>6, <2>2 DEF d
  <1>7. CASE f \notin g.broken
    <2>1. PairsOf(g, f) = r
      BY <1>3, <1>7 DEF Readable
    <2>2. DOMAIN PairsOf(g, f) = 1..Len(PairsOf(g, f)) /\ Len(PairsOf(g, f)) \in Nat
      BY <1>2, ElementIs
    <2>3. Len(PairsOf(g, f)) = Len(d)
      <3> DEFINE a == Len(PairsOf(g, f))
                 b == Len(d)
      <3>1. a \in Nat /\ b \in Nat /\ 1..a = 1..b
        BY <1>4, <1>5, <2>1, <2>2
      <3> HIDE DEF a, b
      <3>2. a = b
        BY <3>1
      <3> QED
        BY <3>2 DEF a, b
    <2> QED
      BY <1>2, <1>4, <1>5, <1>7, <2>1, <2>3 DEF d
  <1> QED
    BY <1>6, <1>7

Laying(g) == [i \in DOMAIN g.files |-> PairsOf(g, g.files[i])]

\* The pairs of all files are laid file by file.
LEMMA LayingIs ==
  ASSUME NEW g, IsGraph(g)
  PROVE  /\ Laying(g) \in Seq(Seq(ModuleNames \X ModuleNames)) /\ Len(Laying(g)) = Len(g.files)
         /\ \A j \in 1..Len(g.files) : Laying(g)[j] = PairsOf(g, g.files[j]) /\ g.files[j] \in ToSet(g.files)
         /\ AllPairs(g) = FlattenSeq(Laying(g))
         /\ \A f : f \in ToSet(g.files) <=> \E j \in 1..Len(g.files) : g.files[j] = f
         /\ \A i, j \in 1..Len(g.files) : g.files[i] = g.files[j] => i = j
  <1> DEFINE n == Len(g.files)
             A == ModuleNames \X ModuleNames
             s == Laying(g)
  <1>1. /\ n \in Nat /\ DOMAIN g.files = 1..n /\ \A i \in 1..n : g.files[i] \in ToSet(g.files)
        /\ \A f : f \in ToSet(g.files) <=> \E j \in 1..n : g.files[j] = f
    BY ModuleOfIs, ElementIs, ToSetIs
  <1>2. \A f \in ToSet(g.files) : PairsOf(g, f) \in Seq(A)
    BY PairsAre
  <1>3. s = [i \in 1..n |-> PairsOf(g, g.files[i])]
    BY <1>1 DEF Laying
  <1> HIDE DEF s, A
  <1>4. s \in [1..n -> Seq(A)] /\ \A j \in 1..n : s[j] = PairsOf(g, g.files[j])
    BY <1>1, <1>2, <1>3
  <1>5. AllPairs(g) = FlattenSeq(s)
    BY DEF AllPairs, Laying, s
  <1>6. \A i, j \in 1..n : g.files[i] = g.files[j] => i = j
    BY <1>1, ModuleOfIs DEF NoRepeat
  <1> HIDE DEF n
  <1>7. s \in Seq(Seq(A)) /\ Len(s) = n
    BY <1>1, <1>4, SeqIs
  <1> QED
    BY <1>1, <1>4, <1>5, <1>6, <1>7 DEF s, n, A

\* The imports across modules, one pair for each.
LEMMA ImportsAreCrossings ==
  ASSUME NEW g, IsGraph(g)
  PROVE  Cardinality(ImportSet(g)) = Cardinality(CrossingAt(g))
  <1> DEFINE A == ModuleNames \X ModuleNames
             ss == Laying(g)
             k == Len(g.files)
             t == AllPairs(g)
  <1>1. /\ ss \in Seq(Seq(A)) /\ Len(ss) = k /\ t = FlattenSeq(ss)
        /\ \A j \in 1..k : ss[j] = PairsOf(g, g.files[j]) /\ g.files[j] \in ToSet(g.files)
        /\ \A f : f \in ToSet(g.files) <=> \E j \in 1..k : g.files[j] = f
        /\ \A i, j \in 1..k : g.files[i] = g.files[j] => i = j
    BY LayingIs
  <1> HIDE DEF ss, t, A
  <1>2. t \in Seq(A) /\ \E off : Laid(off, t, ss, Len(ss))
    BY <1>1, FlattenIs
  <1>3. PICK off : Laid(off, t, ss, Len(ss))
    BY <1>2
  <1>4. /\ \A j \in 1..k : \A p \in 1..Len(ss[j]) : off[j - 1] + p \in 1..Len(t) /\ t[off[j - 1] + p] = ss[j][p]
        /\ \A q \in 1..Len(t) : \E j \in 1..k : \E p \in 1..Len(ss[j]) : q = off[j - 1] + p
        /\ \A i, j \in 1..k : \A p \in 1..Len(ss[i]) : \A q \in 1..Len(ss[j]) :
              off[i - 1] + p = off[j - 1] + q => i = j /\ p = q
    <2>1. Tiled(off, t, ss, k)
      BY <1>1, <1>2, <1>3, LaidApart
    <2> QED
      BY <2>1 DEF Tiled
  <1> HIDE DEF k
  <1>5. ASSUME NEW j \in 1..k
        PROVE  /\ DOMAIN g.deps[g.files[j]] = 1..Len(g.deps[g.files[j]])
               /\ g.files[j] \notin g.broken => Len(ss[j]) = Len(g.deps[g.files[j]])
               /\ \A p \in 1..Len(ss[j]) : /\ g.files[j] \notin g.broken /\ p \in 1..Len(g.deps[g.files[j]])
                                           /\ ss[j][p] = <<g.module[g.files[j]], ModuleOf(g, g.deps[g.files[j]][p])>>
    <2> DEFINE f == g.files[j]
    <2>1. f \in ToSet(g.files) /\ ss[j] = PairsOf(g, f)
      BY <1>1
    <2> HIDE DEF f
    <2>2. /\ DOMAIN g.deps[f] = 1..Len(g.deps[f])
          /\ f \notin g.broken => Len(PairsOf(g, f)) = Len(g.deps[f])
          /\ \A p \in 1..Len(PairsOf(g, f)) : /\ f \notin g.broken /\ p \in 1..Len(g.deps[f])
                                             /\ PairsOf(g, f)[p] = <<g.module[f], ModuleOf(g, g.deps[f][p])>>
      BY <2>1, PairsOfFile
    <2> QED
      BY <2>1, <2>2 DEF f
  <1> DEFINE S == CrossingAt(g)
             T == ImportSet(g)
             Goes(q, x) == \E j \in 1..k : x[1] = g.files[j] /\ x[2] \in 1..Len(ss[j]) /\ q = off[j - 1] + x[2]
             R == {z \in S \X T : Goes(z[1], z[2])}
  <1>6. DOMAIN t = 1..Len(t)
    BY <1>2, ElementIs
  <1>7. ASSUME NEW j \in 1..k, NEW p \in 1..Len(ss[j])
        PROVE  off[j - 1] + p \in S <=> <<g.files[j], p>> \in T
    <2> DEFINE f == g.files[j]
               q == off[j - 1] + p
    <2>1. q \in 1..Len(t) /\ t[q] = <<g.module[f], ModuleOf(g, g.deps[f][p])>>
      BY <1>4, <1>5
    <2>2. f \in ToSet(g.files) \ g.broken /\ p \in DOMAIN g.deps[f]
      BY <1>1, <1>5
    <2> HIDE DEF q, f
    <2>3. q \in S <=> ModuleOf(g, g.deps[f][p]) # None /\ g.module[f] # ModuleOf(g, g.deps[f][p])
      BY <1>6, <2>1 DEF CrossingAt, t
    <2>4. <<f, p>> \in T <=> p \in CrossesIn(g, f)
      BY <2>2 DEF ImportSet
    <2>5. p \in CrossesIn(g, f) <=> ModuleOf(g, g.deps[f][p]) # None /\ g.module[f] # ModuleOf(g, g.deps[f][p])
      BY <2>2 DEF CrossesIn
    <2> QED
      BY <2>3, <2>4, <2>5 DEF q, f
  <1>8. ASSUME NEW x \in T PROVE \E j \in 1..k : \E p \in 1..Len(ss[j]) : x = <<g.files[j], p>>
    <2>1. PICK f \in ToSet(g.files) \ g.broken : x \in {f} \X CrossesIn(g, f)
      BY DEF ImportSet
    <2>2. PICK j \in 1..k : g.files[j] = f
      BY <1>1, <2>1
    <2>3. PICK p \in CrossesIn(g, f) : x = <<f, p>>
      BY <2>1
    <2>4. p \in 1..Len(ss[j])
      BY <1>5, <2>1, <2>2, <2>3 DEF CrossesIn
    <2> QED
      BY <2>2, <2>3, <2>4
  <1>9. ASSUME NEW q \in S PROVE \E j \in 1..k : \E p \in 1..Len(ss[j]) : q = off[j - 1] + p
    <2>1. q \in 1..Len(t)
      BY <1>6 DEF CrossingAt, t
    <2> QED
      BY <1>4, <2>1
  <1> HIDE DEF S, T
  <1>10. ASSUME NEW q \in S PROVE \E x \in T : <<q, x>> \in R
    <2>1. PICK j \in 1..k : \E p \in 1..Len(ss[j]) : q = off[j - 1] + p
      BY <1>9
    <2>2. PICK p \in 1..Len(ss[j]) : q = off[j - 1] + p
      BY <2>1
    <2>3. <<g.files[j], p>> \in T
      BY <1>7, <2>2
    <2> QED
      BY <2>2, <2>3
  <1>11. ASSUME NEW x \in T PROVE \E q \in S : <<q, x>> \in R
    <2>1. PICK j \in 1..k : \E p \in 1..Len(ss[j]) : x = <<g.files[j], p>>
      BY <1>8
    <2>2. PICK p \in 1..Len(ss[j]) : x = <<g.files[j], p>>
      BY <2>1
    <2>3. off[j - 1] + p \in S
      BY <1>7, <2>2
    <2> QED
      BY <2>2, <2>3
  <1>12. ASSUME NEW q \in S, NEW x \in T, NEW y \in T, Goes(q, x), Goes(q, y) PROVE x = y
    <2>1. PICK i \in 1..k : x[1] = g.files[i] /\ x[2] \in 1..Len(ss[i]) /\ q = off[i - 1] + x[2]
      BY <1>12
    <2>2. PICK j \in 1..k : y[1] = g.files[j] /\ y[2] \in 1..Len(ss[j]) /\ q = off[j - 1] + y[2]
      BY <1>12
    <2> DEFINE a == x[2]
               b == y[2]
    <2>5. a \in 1..Len(ss[i]) /\ b \in 1..Len(ss[j]) /\ off[i - 1] + a = off[j - 1] + b
      BY <2>1, <2>2
    <2> HIDE DEF a, b
    <2>6. i = j /\ a = b
      BY <1>4, <2>5
    <2>3. i = j /\ x[2] = y[2]
      BY <2>6 DEF a, b
    <2>4. x = <<x[1], x[2]>> /\ y = <<y[1], y[2]>>
      BY <1>8
    <2> QED
      BY <2>1, <2>2, <2>3, <2>4
  <1>13. ASSUME NEW q \in S, NEW r \in S, NEW x \in T, Goes(q, x), Goes(r, x) PROVE q = r
    <2>1. PICK i \in 1..k : x[1] = g.files[i] /\ q = off[i - 1] + x[2]
      BY <1>13
    <2>2. PICK j \in 1..k : x[1] = g.files[j] /\ r = off[j - 1] + x[2]
      BY <1>13
    <2>3. i = j
      BY <1>1, <2>1, <2>2
    <2> QED
      BY <2>1, <2>2, <2>3
  <1>14. \A q \in S, x \in T : <<q, x>> \in R => Goes(q, x)
    OBVIOUS
  <1> HIDE DEF R, Goes
  <1>15. Single(S, T, R)
    BY <1>10, <1>11, <1>12, <1>13, <1>14 DEF Single
  <1>16. IsFiniteSet(S)
    <2>1. S \subseteq 1..Len(t)
      BY <1>6 DEF S, CrossingAt, t
    <2> QED
      BY <1>2, <2>1, PickedCount
  <1> QED
    BY <1>15, <1>16, AsMany DEF S, T

Reaches(g, f, m) == \E i \in DOMAIN g.deps[f] : ModuleOf(g, g.deps[f][i]) = m

\* A pair is there where a file of one module imports one of the other.
LEMMA CrossingPairsAre ==
  ASSUME NEW g, IsGraph(g), NEW a, NEW b
  PROVE  <<a, b>> \in ToSet(CrossingPairs(g)) <=>
           /\ b # None /\ a # b
           /\ \E f \in ToSet(g.files) \ g.broken : g.module[f] = a /\ Reaches(g, f, b)
  <1> DEFINE A == ModuleNames \X ModuleNames
             ss == Laying(g)
             k == Len(g.files)
             t == AllPairs(g)
             x == <<a, b>>
  <1>1. /\ ss \in Seq(Seq(A)) /\ Len(ss) = k /\ t = FlattenSeq(ss)
        /\ \A j \in 1..k : ss[j] = PairsOf(g, g.files[j]) /\ g.files[j] \in ToSet(g.files)
        /\ \A f : f \in ToSet(g.files) <=> \E j \in 1..k : g.files[j] = f
    BY LayingIs
  <1> HIDE DEF ss, t, A
  <1>2. t \in Seq(A) /\ \A y : y \in ToSet(t) <=> \E j \in 1..Len(ss) : y \in ToSet(ss[j])
    BY <1>1, FlattenIs, FlattenElements
  <1> HIDE DEF k
  <1>3. x \in ToSet(t) <=> \E f \in ToSet(g.files) : x \in ToSet(PairsOf(g, f))
    <2> HIDE DEF x
    <2>1. x \in ToSet(t) <=> \E j \in 1..k : x \in ToSet(ss[j])
      BY <1>1, <1>2
    <2>2. ASSUME NEW j \in 1..k, x \in ToSet(ss[j]) PROVE \E f \in ToSet(g.files) : x \in ToSet(PairsOf(g, f))
      BY <1>1, <2>2
    <2>3. ASSUME NEW f \in ToSet(g.files), x \in ToSet(PairsOf(g, f)) PROVE \E j \in 1..k : x \in ToSet(ss[j])
      <3>1. PICK j \in 1..k : g.files[j] = f
        BY <1>1
      <3>2. ss[j] = PairsOf(g, f)
        BY <1>1, <3>1
      <3> QED
        BY <2>3, <3>2
    <2> QED
      BY <2>1, <2>2, <2>3
  <1>4. ASSUME NEW f \in ToSet(g.files)
        PROVE  x \in ToSet(PairsOf(g, f)) <=> f \notin g.broken /\ g.module[f] = a /\ Reaches(g, f, b)
    <2>1. /\ DOMAIN g.deps[f] = 1..Len(g.deps[f])
          /\ PairsOf(g, f) \in Seq(A)
          /\ f \notin g.broken => Len(PairsOf(g, f)) = Len(g.deps[f])
          /\ \A p \in 1..Len(PairsOf(g, f)) : /\ f \notin g.broken /\ p \in 1..Len(g.deps[f])
                                              /\ PairsOf(g, f)[p] = <<g.module[f], ModuleOf(g, g.deps[f][p])>>
      BY PairsOfFile DEF A
    <2>2. x \in ToSet(PairsOf(g, f)) <=> \E p \in 1..Len(PairsOf(g, f)) : PairsOf(g, f)[p] = x
      BY <2>1, ToSetIs
    <2>3. Reaches(g, f, b) <=> \E p \in 1..Len(g.deps[f]) : ModuleOf(g, g.deps[f][p]) = b
      BY <2>1 DEF Reaches
    <2>4. ASSUME x \in ToSet(PairsOf(g, f)) PROVE f \notin g.broken /\ g.module[f] = a /\ Reaches(g, f, b)
      <3>1. PICK p \in 1..Len(PairsOf(g, f)) : PairsOf(g, f)[p] = x
        BY <2>2, <2>4
      <3>2. f \notin g.broken /\ p \in 1..Len(g.deps[f]) /\ x = <<g.module[f], ModuleOf(g, g.deps[f][p])>>
        BY <2>1, <3>1
      <3>3. g.module[f] = a /\ ModuleOf(g, g.deps[f][p]) = b
        BY <3>2
      <3> QED
        BY <2>3, <3>2, <3>3
    <2>5. ASSUME f \notin g.broken, g.module[f] = a, Reaches(g, f, b) PROVE x \in ToSet(PairsOf(g, f))
      <3>1. PICK p \in 1..Len(g.deps[f]) : ModuleOf(g, g.deps[f][p]) = b
        BY <2>3, <2>5
      <3>2. p \in 1..Len(PairsOf(g, f)) /\ PairsOf(g, f)[p] = <<g.module[f], ModuleOf(g, g.deps[f][p])>>
        BY <2>1, <2>5
      <3> QED
        BY <2>2, <2>5, <3>1, <3>2
    <2> QED
      BY <2>4, <2>5
  <1>5. x \in ToSet(CrossingPairs(g)) <=> x \in ToSet(t) /\ b # None /\ a # b
    <2>1. \A y : y \in ToSet(CrossingPairs(g)) <=> \E i \in 1..Len(t) : i \in CrossingAt(g) /\ t[i] = y
      BY <1>2, SelectIs DEF CrossingPairs, t
    <2>2. DOMAIN t = 1..Len(t) /\ \A y : y \in ToSet(t) <=> \E i \in 1..Len(t) : t[i] = y
      BY <1>2, ElementIs, ToSetIs
    <2>3. \A i \in 1..Len(t) : i \in CrossingAt(g) <=> t[i][2] # None /\ t[i][1] # t[i][2]
      BY <2>2 DEF CrossingAt, t
    <2>4. x[1] = a /\ x[2] = b
      OBVIOUS
    <2> HIDE DEF x
    <2> QED
      BY <2>1, <2>2, <2>3, <2>4
  <1> HIDE DEF x
  <1>6. x \in ToSet(CrossingPairs(g)) <=>
           /\ b # None /\ a # b
           /\ \E f \in ToSet(g.files) \ g.broken : g.module[f] = a /\ Reaches(g, f, b)
    BY <1>3, <1>4, <1>5
  <1> QED
    BY <1>6 DEF x

\* The edges of modules count the imports across modules, each pair once.
LEMMA ModuleEdgesAre ==
  ASSUME NEW g, IsGraph(g), NEW c \in Caps
  PROVE  LET e == ModuleEdges(g, c) IN
         /\ Tallied(e, CrossingPairs(g), ModuleNames, ModuleNames)
         /\ \A x \in ToSet(e) : <<x.from, x.to>> \in ToSet(CrossingPairs(g))
         /\ Len(e) < c.edges => /\ \A p \in ToSet(CrossingPairs(g)) : \E x \in ToSet(e) : <<x.from, x.to>> = p
                                /\ Added(WeightsOf(e)) = Cardinality(ImportSet(g))
  <1> DEFINE P == CrossingPairs(g)
             M == ModuleNames
             u == Counted(P)
             e == Heaviest(u, c.edges)
             m == Len(P)
  <1>1. P \in Seq(M \X M) /\ AllPairs(g) \in Seq(M \X M) /\ c.edges \in Nat
    BY PairsAre, FactCapsAre
  <1> HIDE DEF P, M
  <1>2. Tallied(u, P, M, M) /\ Covers(u, P)
    BY <1>1, CountedTallied
  <1> HIDE DEF u
  <1>3. /\ Tallied(e, P, M, M) /\ ToSet(e) \subseteq ToSet(u)
        /\ Len(e) < c.edges => ToSet(e) = ToSet(u)
    <2>1. /\ Tallied(e, P, M, M) /\ ToSet(e) \subseteq ToSet(u)
          /\ Len(e) < c.edges \/ Len(u) <= c.edges => ToSet(e) = ToSet(u)
      BY <1>1, <1>2, HeaviestTallied
    <2> HIDE DEF e
    <2> QED
      BY <2>1
  <1>4. ModuleEdges(g, c) = e
    BY ModuleEdgesParts DEF e, u, P
  <1> HIDE DEF e
  <1>5. \A x \in ToSet(e) : <<x.from, x.to>> \in ToSet(P)
    BY <1>2, <1>3 DEF Covers
  <1>6. m \in Nat /\ \A q \in 1..m : P[q] \in ToSet(P)
    BY <1>1, ElementIs, ToSetIs
  <1>7. m = Cardinality(ImportSet(g))
    <2> DEFINE t == AllPairs(g)
    <2>1. DOMAIN t = 1..Len(t)
      BY <1>1, ElementIs
    <2>2. CrossingAt(g) \subseteq 1..Len(t)
      BY <2>1 DEF CrossingAt
    <2> HIDE DEF t
    <2>3. Len(Picked(t, CrossingAt(g))) = Cardinality(CrossingAt(g))
      BY <1>1, <2>2, PickedCount DEF t
    <2> QED
      BY <2>3, ImportsAreCrossings DEF P, CrossingPairs, t
  <1>8. ASSUME Len(e) < c.edges
        PROVE  /\ \A p \in ToSet(P) : \E x \in ToSet(e) : <<x.from, x.to>> = p
               /\ Added(WeightsOf(e)) = Cardinality(ImportSet(g))
    <2>1. \A p \in ToSet(P) : \E x \in ToSet(e) : <<x.from, x.to>> = p
      BY <1>2, <1>3, <1>8 DEF Covers
    <2> DEFINE Q == CountedIn(e, P)
    <2>2. Added(WeightsOf(e)) = Cardinality(CountedIn(e, P))
      BY <1>1, <1>3, TallyAdds
    <2>3. Q = 1..m
      <3>1. \A q \in 1..m : \E x \in ToSet(e) : P[q] = <<x.from, x.to>>
        BY <1>6, <2>1
      <3> QED
        BY <3>1 DEF CountedIn
    <2>4. Cardinality(1..m) = m
      <3> HIDE DEF m
      <3> QED
        BY <1>6, FS_Interval
    <2> QED
      BY <1>7, <2>1, <2>2, <2>3, <2>4
  <1> QED
    BY <1>3, <1>4, <1>5, <1>8 DEF P, M

(***************************************************************************)
(* Pages, packages and hotspots                                            *)
(***************************************************************************)

\* Nothing is picked exactly if no position is.
LEMMA PickedEmpty ==
  ASSUME NEW A, NEW s \in Seq(A), NEW I
  PROVE  Picked(s, I) = <<>> <=> \A i \in 1..Len(s) : i \notin I
  <1>1. ASSUME NEW i \in 1..Len(s), i \in I PROVE Picked(s, I) # <<>>
    <2>1. s[i] \in ToSet(Picked(s, I))
      BY <1>1, SelectIs
    <2> QED
      BY <2>1, EmptyIs
  <1> QED
    BY <1>1, PickedNone

(* The modules of the facts are directories of the graph *)
DirNames(g) == FirstTimes([i \in DOMAIN g.files |-> g.module[g.files[i]]])
FilesAt(g, name) == {i \in DOMAIN g.files : g.module[g.files[i]] = name}
FilesOf(g, name) == Picked(g.files, FilesAt(g, name))
LinesOf(g, name) == Added([i \in DOMAIN FilesOf(g, name) |-> g.loc[FilesOf(g, name)[i]]])
ModuleFact(g, c, name) ==
  [name |-> name, files |-> Len(FilesOf(g, name)), loc |-> LinesOf(g, name), exports |-> Exports(g, FilesOf(g, name), c)]
ModuleFacts(g, c) == [i \in DOMAIN DirNames(g) |-> ModuleFact(g, c, DirNames(g)[i])]
SizesOf(rows) == [i \in DOMAIN rows |-> rows[i].loc]
Dirs(g) == {g.module[f] : f \in ToSet(g.files)}

\* What the modules are put together from.
LEMMA ModulesParts ==
  ASSUME NEW g, NEW c
  PROVE  Modules(g, c) = Slice(Ranked(ModuleFacts(g, c), SizesOf(ModuleFacts(g, c))), c.modules)
  BY Zenon DEF Modules, Select, Descending, SumOf, DirNames, FilesAt, FilesOf, LinesOf, ModuleFact, ModuleFacts, SizesOf

\* The lines of a module are a number.
LEMMA LinesAre ==
  ASSUME NEW g, IsGraph(g), NEW name
  PROVE  LinesOf(g, name) \in Int
  <1> DEFINE files == FilesOf(g, name)
             lines == [i \in DOMAIN files |-> g.loc[files[i]]]
  <1>1. g.files \in Seq(ToSet(g.files)) /\ g.loc \in [ToSet(g.files) -> Nat]
    BY OwnElements DEF IsGraph
  <1>2. files \in Seq(ToSet(g.files))
    BY <1>1, SelectIs DEF FilesOf
  <1> HIDE DEF files
  <1>3. DOMAIN files = 1..Len(files) /\ Len(files) \in Nat /\ \A i \in 1..Len(files) : files[i] \in ToSet(g.files)
    BY <1>2, ElementIs
  <1>4. lines \in [1..Len(files) -> Int]
    BY <1>1, <1>3
  <1>5. LinesOf(g, name) = Added(lines)
    BY DEF LinesOf, files
  <1> HIDE DEF lines
  <1> QED
    BY <1>3, <1>4, <1>5, SeqIs, AddedIsInt

\* A module of the facts is the directory of an indexed file.
LEMMA ModulesAreDirs ==
  ASSUME NEW g, IsGraph(g), NEW c \in Caps
  PROVE  /\ DOMAIN Modules(g, c) = 1..Len(Modules(g, c)) /\ Len(Modules(g, c)) \in Nat
         /\ \A i \in 1..Len(Modules(g, c)) : Modules(g, c)[i].name \in Dirs(g)
  <1> DEFINE dirs == [i \in DOMAIN g.files |-> g.module[g.files[i]]]
             names == DirNames(g)
             rows == ModuleFacts(g, c)
             n == Len(rows)
             w == SizesOf(rows)
             Made == {ModuleFact(g, c, d) : d \in Dirs(g)}
  <1>1. dirs \in Seq(Dirs(g))
    <2>1. g.files \in Seq(ToSet(g.files))
      BY OwnElements DEF IsGraph
    <2>2. DOMAIN g.files = 1..Len(g.files) /\ Len(g.files) \in Nat /\ \A i \in 1..Len(g.files) : g.files[i] \in ToSet(g.files)
      BY <2>1, ElementIs
    <2>3. dirs \in [1..Len(g.files) -> Dirs(g)]
      BY <2>2 DEF Dirs
    <2> HIDE DEF dirs
    <2> QED
      BY <2>2, <2>3, SeqIs
  <1>2. names \in Seq(Dirs(g))
    <2>1. names = FirstTimes(dirs)
      BY DEF DirNames
    <2> HIDE DEF dirs, names
    <2> QED
      BY <1>1, <2>1, FirstTimesIs
  <1>3. rows = [i \in DOMAIN names |-> ModuleFact(g, c, names[i])]
    BY DEF ModuleFacts
  <1> HIDE DEF names, rows
  <1>4. rows \in Seq(Made)
    <2>1. DOMAIN names = 1..Len(names) /\ Len(names) \in Nat /\ \A i \in 1..Len(names) : names[i] \in Dirs(g)
      BY <1>2, ElementIs
    <2>2. rows \in [1..Len(names) -> Made]
      BY <1>3, <2>1
    <2> HIDE DEF Made
    <2> QED
      BY <2>1, <2>2, SeqIs
  <1>5. \A r \in Made : r.name \in Dirs(g) /\ r.loc \in Int
    BY LinesAre DEF ModuleFact
  <1> HIDE DEF Made
  <1>6. w \in [1..n -> Int]
    <2>1. DOMAIN rows = 1..n /\ \A i \in 1..n : rows[i] \in Made
      BY <1>4, ElementIs
    <2>2. \A i \in 1..n : rows[i].loc \in Int
      BY <1>5, <2>1
    <2> HIDE DEF n
    <2> QED
      BY <2>1, <2>2 DEF SizesOf
  <1> HIDE DEF w
  <1>7. Ranked(rows, w) \in Seq(Made)
    BY <1>4, <1>6, RankedIs
  <1>8. Modules(g, c) = Slice(Ranked(rows, w), c.modules) /\ c.modules \in Nat
    BY ModulesParts, FactCapsAre DEF rows, w
  <1>9. Modules(g, c) \in Seq(Made)
    BY <1>7, <1>8, SliceWithin
  <1> QED
    BY <1>5, <1>9, ElementIs

(* What a page says of a module that stands alone *)
FromAt(edges, a) == {i \in DOMAIN edges : edges[i].from = a}
ToAt(edges, a) == {i \in DOMAIN edges : edges[i].to = a}

\* What a page says of edges.
LEMMA PageParts ==
  ASSUME NEW facts, NEW a
  PROVE  /\ ModulePage(facts, a).name = a
         /\ ModulePage(facts, a).importsFrom = Picked(facts.edges, FromAt(facts.edges, a))
         /\ ModulePage(facts, a).importedBy = Picked(facts.edges, ToAt(facts.edges, a))
  BY Zenon DEF ModulePage, Select, FromAt, ToAt

OtherFiles(g, a) == {f \in ToSet(g.files) \ g.broken : g.module[f] # a}
OwnFiles(g, a) == (ToSet(g.files) \ g.broken) \ OtherFiles(g, a)
Alone(g, p) ==
  /\ p.importedBy = <<>> <=> \A f \in OtherFiles(g, p.name) : ~Reaches(g, f, p.name)
  /\ p.importsFrom = <<>> <=> \A f \in OwnFiles(g, p.name) : \A m \in Dirs(g) \ {p.name} : ~Reaches(g, f, m)

\* Unless the cap on edges was met, a page says that nothing imports a module, or that it
\* imports nothing, exactly if no readable file of the graph does.
LEMMA PageIsAlone ==
  ASSUME NEW g, IsGraph(g), NEW c \in Caps, NEW facts, facts.edges = ModuleEdges(g, c), Len(facts.edges) < c.edges,
         NEW a \in Dirs(g)
  PROVE  Alone(g, ModulePage(facts, a))
  <1> DEFINE e == facts.edges
             P == ToSet(CrossingPairs(g))
  <1>1. a # None
    BY ModuleOfIs DEF Dirs
  <1>2. e \in Seq(EdgesOf(ModuleNames, ModuleNames)) /\ DOMAIN e = 1..Len(e)
    BY ModuleEdgesAre, ElementIs DEF Tallied
  <1>3. \A x \in ToSet(e) : <<x.from, x.to>> \in P
    BY ModuleEdgesAre
  <1>4. \A p \in P : \E x \in ToSet(e) : <<x.from, x.to>> = p
    BY ModuleEdgesAre
  <1>5. ASSUME NEW b, NEW d
        PROVE  <<b, d>> \in P <=> \E i \in 1..Len(e) : e[i].from = b /\ e[i].to = d
    <2>1. ASSUME <<b, d>> \in P PROVE \E i \in 1..Len(e) : e[i].from = b /\ e[i].to = d
      <3>1. PICK x \in ToSet(e) : <<x.from, x.to>> = <<b, d>>
        BY <1>4, <2>1
      <3>2. PICK i \in 1..Len(e) : e[i] = x
        BY <1>2, ToSetIs
      <3> QED
        BY <3>1, <3>2
    <2>2. ASSUME NEW i \in 1..Len(e), e[i].from = b, e[i].to = d PROVE <<b, d>> \in P
      <3>1. e[i] \in ToSet(e)
        BY <1>2, ToSetIs
      <3> QED
        BY <1>3, <2>2, <3>1
    <2> QED
      BY <2>1, <2>2
  <1> HIDE DEF e
  <1>6. ASSUME NEW b, NEW d
        PROVE  (\E i \in 1..Len(e) : e[i].from = b /\ e[i].to = d) <=>
                 /\ d # None /\ b # d
                 /\ \E f \in ToSet(g.files) \ g.broken : g.module[f] = b /\ Reaches(g, f, d)
    BY <1>5, CrossingPairsAre
  <1> HIDE DEF P
  <1>7. /\ Picked(e, FromAt(e, a)) = <<>> <=> \A i \in 1..Len(e) : i \notin FromAt(e, a)
        /\ Picked(e, ToAt(e, a)) = <<>> <=> \A i \in 1..Len(e) : i \notin ToAt(e, a)
    BY <1>2, PickedEmpty
  <1>8. \A i \in 1..Len(e) : (i \in FromAt(e, a) <=> e[i].from = a) /\ (i \in ToAt(e, a) <=> e[i].to = a)
    BY <1>2 DEF FromAt, ToAt
  <1>9. Picked(e, ToAt(e, a)) = <<>> <=> \A f \in OtherFiles(g, a) : ~Reaches(g, f, a)
    <2>1. ASSUME NEW i \in 1..Len(e), e[i].to = a PROVE \E f \in OtherFiles(g, a) : Reaches(g, f, a)
      <3> DEFINE b == e[i].from
      <3>1. \E j \in 1..Len(e) : e[j].from = b /\ e[j].to = a
        BY <2>1
      <3> HIDE DEF b
      <3>2. b # a /\ \E f \in ToSet(g.files) \ g.broken : g.module[f] = b /\ Reaches(g, f, a)
        BY <1>6, <3>1
      <3> QED
        BY <3>2 DEF OtherFiles
    <2>2. ASSUME NEW f \in OtherFiles(g, a), Reaches(g, f, a) PROVE \E i \in 1..Len(e) : e[i].to = a
      <3> DEFINE b == g.module[f]
      <3>1. f \in ToSet(g.files) \ g.broken /\ b # a
        BY <2>2 DEF OtherFiles
      <3> HIDE DEF b
      <3>2. \E h \in ToSet(g.files) \ g.broken : g.module[h] = b /\ Reaches(g, h, a)
        BY <2>2, <3>1 DEF b
      <3> QED
        BY <1>1, <1>6, <3>1, <3>2
    <2> QED
      BY <1>7, <1>8, <2>1, <2>2
  <1>10. Picked(e, FromAt(e, a)) = <<>> <=> \A f \in OwnFiles(g, a) : \A m \in Dirs(g) \ {a} : ~Reaches(g, f, m)
    <2>1. ASSUME NEW i \in 1..Len(e), e[i].from = a PROVE \E f \in OwnFiles(g, a) : \E m \in Dirs(g) \ {a} : Reaches(g, f, m)
      <3> DEFINE d == e[i].to
      <3>1. \E j \in 1..Len(e) : e[j].from = a /\ e[j].to = d
        BY <2>1
      <3> HIDE DEF d
      <3>2. PICK f \in ToSet(g.files) \ g.broken : d # None /\ a # d /\ g.module[f] = a /\ Reaches(g, f, d)
        BY <1>6, <3>1
      <3>3. d \in Dirs(g)
        <4>1. PICK j \in DOMAIN g.deps[f] : ModuleOf(g, g.deps[f][j]) = d
          BY <3>2 DEF Reaches
        <4> DEFINE x == g.deps[f][j]
        <4>2. ModuleOf(g, x) = d
          BY <4>1
        <4> HIDE DEF x
        <4>3. x \in ToSet(g.files) /\ d = g.module[x]
          BY <3>2, <4>2, ModuleOfIs
        <4> QED
          BY <4>3 DEF Dirs
      <3> QED
        BY <3>2, <3>3 DEF OwnFiles, OtherFiles
    <2>2. ASSUME NEW f \in OwnFiles(g, a), NEW m \in Dirs(g) \ {a}, Reaches(g, f, m) PROVE \E i \in 1..Len(e) : e[i].from = a
      <3>1. f \in ToSet(g.files) \ g.broken /\ g.module[f] = a
        BY DEF OwnFiles, OtherFiles
      <3>2. m # None /\ a # m
        BY ModuleOfIs DEF Dirs
      <3>3. \E h \in ToSet(g.files) \ g.broken : g.module[h] = a /\ Reaches(g, h, m)
        BY <2>2, <3>1
      <3>4. \E i \in 1..Len(e) : e[i].from = a /\ e[i].to = m
        BY <1>6, <3>2, <3>3
      <3> QED
        BY <3>4
    <2> QED
      BY <1>7, <1>8, <2>1, <2>2
  <1> DEFINE p == ModulePage(facts, a)
  <1>11. /\ p.name = a /\ p.importsFrom = Picked(e, FromAt(e, a)) /\ p.importedBy = Picked(e, ToAt(e, a))
    BY PageParts DEF e
  <1> HIDE DEF p
  <1> QED
    BY <1>9, <1>10, <1>11 DEF Alone, p

ImportedAt(g, package) == {i \in DOMAIN g.imports : g.imports[i].package = package}
WithPackage(g, m, package) == {q \in 1..Len(UsedImports(g, m)) : UsedImports(g, m)[q].package = package}

\* A declared package is imported as often as the imports of declared packages say.
LEMMA UsedAsOften ==
  ASSUME NEW g, IsGraph(g), NEW m, NEW package \in DeclaredNames(m)
  PROVE  Cardinality(WithPackage(g, m, package)) = Len(Picked(g.imports, ImportedAt(g, package)))
  <1> DEFINE s == g.imports
             n == Len(s)
             I == UsedAt(g, m)
             J == ImportedAt(g, package)
             u == Picked(Numbers(n), I)
             t == UsedImports(g, m)
             Q == WithPackage(g, m, package)
             R == {r \in Q \X J : u[r[1]] = r[2]}
  <1>1. s \in Seq(Imports) /\ n \in Nat /\ DOMAIN s = 1..n
    <2>1. s \in Seq(Imports)
      BY DEF IsGraph, Imports
    <2> QED
      BY <2>1, ElementIs
  <1>2. Numbers(n) \in Seq(1..n) /\ Len(Numbers(n)) = n /\ NoRepeat(Numbers(n))
    <2>1. Numbers(n) \in [1..n -> 1..n] /\ \A i \in 1..n : Numbers(n)[i] = i
      BY <1>1 DEF Numbers
    <2>2. Numbers(n) \in Seq(1..n) /\ Len(Numbers(n)) = n /\ DOMAIN Numbers(n) = 1..n
      BY <1>1, <2>1, SeqIs
    <2> QED
      BY <2>1, <2>2 DEF NoRepeat
  <1>3. /\ u \in Seq(1..n) /\ Len(t) = Len(u)
        /\ \A p \in 1..Len(t) : t[p] = s[u[p]]
    BY <1>1, PickedBy DEF UsedImports
  <1>4. NoRepeat(u) /\ \A x : x \in ToSet(u) <=> \E i \in 1..n : i \in I /\ Numbers(n)[i] = x
    BY <1>2, SelectIs
  <1>5. /\ DOMAIN u = 1..Len(u) /\ Len(u) \in Nat /\ \A p \in 1..Len(u) : u[p] \in 1..n
        /\ \A x : x \in ToSet(u) <=> \E p \in 1..Len(u) : u[p] = x
    BY <1>3, ElementIs, ToSetIs
  <1>6. \A j \in J : j \in 1..n /\ j \in I /\ s[j].package = package
    BY <1>1 DEF ImportedAt, UsedAt
  <1>7. \A q \in Q : q \in 1..Len(u) /\ s[u[q]].package = package /\ u[q] \in J
    BY <1>1, <1>3, <1>5 DEF WithPackage, ImportedAt
  <1>8. \A j \in J : \E q \in Q : u[q] = j
    <2> SUFFICES ASSUME NEW j \in J PROVE \E q \in Q : u[q] = j
      OBVIOUS
    <2>1. Numbers(n)[j] = j
      BY <1>6 DEF Numbers
    <2>2. j \in ToSet(u)
      BY <1>4, <1>6, <2>1
    <2>3. PICK p \in 1..Len(u) : u[p] = j
      BY <1>5, <2>2
    <2>4. p \in Q
      BY <1>3, <1>6, <2>3 DEF WithPackage
    <2> QED
      BY <2>3, <2>4
  <1>9. \A p, q \in 1..Len(u) : u[p] = u[q] => p = q
    BY <1>4, <1>5 DEF NoRepeat
  <1> HIDE DEF u, J, Q, t, s, n
  <1>10. \A q \in Q : \A j \in J : <<q, j>> \in R <=> u[q] = j
    OBVIOUS
  <1> HIDE DEF R
  <1>11. Single(Q, J, R)
    BY <1>7, <1>8, <1>9, <1>10 DEF Single
  <1>12. IsFiniteSet(Q)
    <2>1. Q \subseteq 1..Len(u)
      BY <1>7
    <2> QED
      BY <1>3, <2>1, PickedCount
  <1>13. Cardinality(J) = Cardinality(Q)
    BY <1>11, <1>12, AsMany
  <1>14. J \subseteq 1..n
    BY <1>6
  <1>15. Len(Picked(s, J)) = Cardinality(J)
    BY <1>1, <1>14, PickedCount DEF n
  <1> QED
    BY <1>13, <1>15 DEF s, J, Q

UsageParts(imports, package) == Added(WeightsOf(Picked(imports, ToAt(imports, package))))

\* The usage of a package is a sum of weights.
LEMMA UsageIsParts ==
  ASSUME NEW facts, NEW package
  PROVE  Usage(facts, package) = UsageParts(facts.imports, package)
  BY Zenon DEF Usage, UsageParts, Select, SumOf, WeightsOf, ToAt

\* It is a number.
LEMMA UsageIsInt ==
  ASSUME NEW F, NEW T, NEW e \in Seq(EdgesOf(F, T)), NEW package
  PROVE  UsageParts(e, package) \in Int
  <1> DEFINE s == Picked(e, ToAt(e, package))
  <1>1. s \in Seq(EdgesOf(F, T))
    BY SelectIs
  <1> HIDE DEF s
  <1>2. WeightsOf(s) \in [1..Len(s) -> Int] /\ Len(s) \in Nat
    BY <1>1, WeightsAre, ElementIs
  <1>3. WeightsOf(s) \in Seq(Int)
    BY <1>2, SeqIs
  <1> QED
    BY <1>3, AddedIsInt DEF UsageParts, s

\* Unless imports were cut, it is the number of imports of the package in the graph.
LEMMA UsageIs ==
  ASSUME NEW g, IsGraph(g), NEW m, NEW c \in Caps, ~ExternalImports(g, m, c).degraded, NEW package \in DeclaredNames(m)
  PROVE  UsageParts(ExternalImports(g, m, c).edges, package) = Len(Picked(g.imports, ImportedAt(g, package)))
  <1> DEFINE P == ImportPairs(g, m)
             all == Counted(P)
             e == Heaviest(all, c.imports)
             s == Picked(e, ToAt(e, package))
  <1>1. ExternalImports(g, m, c).edges = e /\ Len(all) <= c.imports /\ c.imports \in Nat
    <2>1. ExternalImports(g, m, c).degraded = (Len(all) > c.imports)
      BY ImportParts
    <2>2. c.imports \in Nat
      BY FactCapsAre
    <2>3. P \in Seq(ModuleNames \X STRING)
      BY ImportPairsAre
    <2>4. all \in Seq(EdgesOf(ModuleNames, STRING))
      BY <2>3, CountedIs
    <2>5. Len(all) \in Nat
      BY <2>4, ElementIs
    <2>6. ExternalImports(g, m, c).edges = e
      BY ImportParts
    <2> HIDE DEF all, e
    <2>7. ~(Len(all) > c.imports)
      BY <2>1, Zenon
    <2> QED
      BY <2>2, <2>5, <2>6, <2>7
  <1>2. /\ P \in Seq(ModuleNames \X STRING) /\ Len(P) = Len(UsedImports(g, m))
        /\ \A i \in 1..Len(P) : P[i][2] = UsedImports(g, m)[i].package
    BY ImportPairsAre
  <1> HIDE DEF P
  <1>3. Tallied(all, P, ModuleNames, STRING) /\ Covers(all, P)
    BY <1>2, CountedTallied
  <1> HIDE DEF all
  <1>4. Tallied(e, P, ModuleNames, STRING) /\ ToSet(e) = ToSet(all)
    BY <1>1, <1>3, HeaviestTallied
  <1> HIDE DEF e
  <1>5. e \in Seq(EdgesOf(ModuleNames, STRING)) /\ DOMAIN e = 1..Len(e)
    BY <1>4, ElementIs DEF Tallied
  <1>6. /\ s \in Seq(EdgesOf(ModuleNames, STRING)) /\ NoRepeat(s)
        /\ \A x : x \in ToSet(s) <=> \E i \in 1..Len(e) : i \in ToAt(e, package) /\ e[i] = x
    BY <1>4, <1>5, SelectIs DEF Tallied
  <1> HIDE DEF s
  <1>7. \A x : x \in ToSet(s) <=> x \in ToSet(e) /\ x.to = package
    BY <1>5, <1>6, ToSetIs DEF ToAt
  <1>8. Tallied(s, P, ModuleNames, STRING)
    BY <1>4, <1>6, <1>7 DEF Tallied
  <1>9. Added(WeightsOf(s)) = Cardinality(CountedIn(s, P))
    BY <1>2, <1>8, TallyAdds
  <1>10. CountedIn(s, P) = WithPackage(g, m, package)
    <2>1. ASSUME NEW q \in 1..Len(P), NEW x \in ToSet(s), P[q] = <<x.from, x.to>>
          PROVE  UsedImports(g, m)[q].package = package
      BY <1>2, <1>7, <2>1
    <2>2. ASSUME NEW q \in 1..Len(P), UsedImports(g, m)[q].package = package
          PROVE  \E x \in ToSet(s) : P[q] = <<x.from, x.to>>
      <3>1. P[q] \in ToSet(P)
        BY <1>2, ToSetIs
      <3>2. PICK x \in ToSet(e) : <<x.from, x.to>> = P[q]
        BY <1>3, <1>4, <3>1 DEF Covers
      <3>3. x.to = package
        BY <1>2, <2>2, <3>2
      <3> QED
        BY <1>7, <3>2, <3>3
    <2>3. ASSUME NEW q PROVE q \in CountedIn(s, P) <=> q \in WithPackage(g, m, package)
      BY <1>2, <2>1, <2>2 DEF CountedIn, WithPackage
    <2> QED
      BY <2>3
  <1>11. Cardinality(WithPackage(g, m, package)) = Len(Picked(g.imports, ImportedAt(g, package)))
    BY UsedAsOften
  <1> QED
    BY <1>1, <1>9, <1>10, <1>11 DEF UsageParts, s

(* The rows of the declared packages *)
PackageRow(facts, name) == [name |-> name, used |-> Usage(facts, name)]
PackageRows(facts, dependencies, c) ==
  [i \in DOMAIN Slice(dependencies, c.declared) |-> PackageRow(facts, Slice(dependencies, c.declared)[i].name)]
UsesOf(rows) == [i \in DOMAIN rows |-> rows[i].used]

\* What the table of declared packages is put together from.
LEMMA DeclaredParts ==
  ASSUME NEW facts, NEW dependencies, NEW c
  PROVE  Declared(facts, dependencies, c) =
           Ranked(PackageRows(facts, dependencies, c), UsesOf(PackageRows(facts, dependencies, c)))
  BY Zenon DEF Declared, Descending, PackageRow, PackageRows, UsesOf

\* A row of it is a declared package with its usage.
LEMMA DeclaredAre ==
  ASSUME NEW m, m.dependencies \in Seq([name : STRING]), NEW facts, facts.imports \in Seq(EdgesOf(ModuleNames, STRING)),
         NEW c \in Caps, NEW row \in ToSet(Declared(facts, m.dependencies, c))
  PROVE  row.name \in DeclaredNames(m) /\ row.used = UsageParts(facts.imports, row.name)
  <1> DEFINE deps == m.dependencies
             shown == Slice(deps, c.declared)
             rows == PackageRows(facts, deps, c)
             n == Len(rows)
             w == UsesOf(rows)
             Made == {PackageRow(facts, d) : d \in DeclaredNames(m)}
  <1>1. shown \in Seq([name : STRING]) /\ ToSet(shown) \subseteq ToSet(deps)
    BY DrawCapsAre, SliceWithin
  <1>2. rows = [i \in DOMAIN shown |-> PackageRow(facts, shown[i].name)]
    BY DEF PackageRows
  <1> HIDE DEF shown, rows
  <1>3. \A x \in ToSet(shown) : x.name \in DeclaredNames(m)
    <2> SUFFICES ASSUME NEW x \in ToSet(shown) PROVE x.name \in DeclaredNames(m)
      OBVIOUS
    <2>1. DOMAIN deps = 1..Len(deps)
      BY ElementIs
    <2>2. \E i \in 1..Len(deps) : deps[i] = x
      BY <1>1, ToSetIs
    <2> QED
      BY <2>1, <2>2 DEF DeclaredNames
  <1>4. rows \in Seq(Made)
    <2>1. DOMAIN shown = 1..Len(shown) /\ Len(shown) \in Nat /\ \A i \in 1..Len(shown) : shown[i] \in ToSet(shown)
      BY <1>1, ElementIs, ToSetIs
    <2>2. \A i \in 1..Len(shown) : PackageRow(facts, shown[i].name) \in Made
      BY <1>3, <2>1
    <2> HIDE DEF Made
    <2>3. rows \in [1..Len(shown) -> Made]
      BY <1>2, <2>1, <2>2
    <2> QED
      BY <2>1, <2>3, SeqIs
  <1>5. \A r \in Made : r.name \in DeclaredNames(m) /\ r.used = UsageParts(facts.imports, r.name) /\ r.used \in Int
    BY UsageIsParts, UsageIsInt DEF PackageRow
  <1> HIDE DEF Made
  <1>6. w \in [1..n -> Int]
    <2>1. DOMAIN rows = 1..n /\ \A i \in 1..n : rows[i] \in Made
      BY <1>4, ElementIs
    <2>2. \A i \in 1..n : rows[i].used \in Int
      BY <1>5, <2>1
    <2> HIDE DEF n
    <2> QED
      BY <2>1, <2>2 DEF UsesOf
  <1> HIDE DEF w
  <1>7. ToSet(Ranked(rows, w)) = ToSet(rows)
    BY <1>4, <1>6, RankedIs
  <1>8. row \in ToSet(rows)
    BY <1>7, DeclaredParts DEF rows, w
  <1>9. row \in Made
    BY <1>4, <1>8, ToSetIs
  <1> QED
    BY <1>5, <1>9

(* The scan for hotspots, file by file *)
InFileAt(g, f) == {i \in DOMAIN g.nodes : g.nodes[i].file = f}
InFile(g, f) == Picked(g.nodes, InFileAt(g, f))
CallableAt(g, f) == {i \in DOMAIN InFile(g, f) : InFile(g, f)[i].kind \in {"function", "method"}}
CallablesIn(g, f) == Picked(InFile(g, f), CallableAt(g, f))
LookedAt(g, c, acc, f) == Slice(CallablesIn(g, f), c.scan - acc.scanned)
ReadableAt(g, s) == {i \in DOMAIN s : Readable(g, s[i].id)}
Scanned(g, c, acc, f) ==
  IF acc.truncated \/ acc.scanned >= c.scan THEN [acc EXCEPT !.truncated = TRUE]
  ELSE IF ~Readable(g, f) THEN acc
  ELSE [scanned |-> acc.scanned + Len(LookedAt(g, c, acc, f)),
        truncated |-> Len(LookedAt(g, c, acc, f)) < Len(CallablesIn(g, f)),
        scored |-> acc.scored \o Picked(LookedAt(g, c, acc, f), ReadableAt(g, LookedAt(g, c, acc, f)))]
NothingScanned == [scored |-> <<>>, scanned |-> 0, truncated |-> FALSE]
ScanOf(g, c) == FoldLeft(LAMBDA acc, f : Scanned(g, c, acc, f), NothingScanned, g.files)
Scans(g) == [scored : Seq(Nodes(g)), scanned : Nat, truncated : BOOLEAN]

\* The ranking is that of a scan over the files.
LEMMA HotspotParts ==
  ASSUME NEW g, NEW c
  PROVE  Hotspots(g, c).scored = ScanOf(g, c).scored /\ Hotspots(g, c).degraded = ScanOf(g, c).truncated
  <1> DEFINE most == Slice(Ranked(ScanOf(g, c).scored, Degrees(g, ScanOf(g, c).scored)), c.hotspots)
             all == ScanOf(g, c)
  <1>1. Hotspots(g, c) = [hotspots |-> most, scored |-> all.scored, degraded |-> all.truncated]
    BY Zenon DEF Hotspots, Select, Descending, NodesIn, InFileAt, InFile, CallableAt, CallablesIn, LookedAt, ReadableAt,
                 Scanned, NothingScanned, ScanOf, Degrees
  <1> HIDE DEF most, all
  <1>2. Hotspots(g, c).scored = all.scored /\ Hotspots(g, c).degraded = all.truncated
    BY <1>1
  <1> QED
    BY <1>2 DEF all

Callable(g, f) == {x \in Nodes(g) : x.file = f /\ x.kind \in {"function", "method"}}

\* The functions and methods of a file.
LEMMA CallablesAre ==
  ASSUME NEW g, IsGraph(g), NEW f
  PROVE  CallablesIn(g, f) \in Seq(Nodes(g)) /\ ToSet(CallablesIn(g, f)) = Callable(g, f)
  <1> DEFINE s == g.nodes
             t == InFile(g, f)
             u == CallablesIn(g, f)
  <1>1. s \in Seq(Nodes(g)) /\ DOMAIN s = 1..Len(s)
    <2>1. s \in Seq(Symbols)
      BY GraphNodes
    <2>2. s \in Seq(ToSet(s))
      BY <2>1, OwnElements
    <2> QED
      BY <2>1, <2>2, ElementIs DEF Nodes
  <1>2. t \in Seq(Nodes(g)) /\ \A x : x \in ToSet(t) <=> \E i \in 1..Len(s) : i \in InFileAt(g, f) /\ s[i] = x
    BY <1>1, SelectIs DEF InFile
  <1>3. \A x : x \in ToSet(t) <=> x \in Nodes(g) /\ x.file = f
    <2>1. \A x : x \in Nodes(g) <=> \E i \in 1..Len(s) : s[i] = x
      BY <1>1, ToSetIs DEF Nodes
    <2> QED
      BY <1>1, <1>2, <2>1 DEF InFileAt
  <1> HIDE DEF t, s
  <1>4. DOMAIN t = 1..Len(t)
    BY <1>2, ElementIs
  <1>5. u \in Seq(Nodes(g)) /\ \A x : x \in ToSet(u) <=> \E i \in 1..Len(t) : i \in CallableAt(g, f) /\ t[i] = x
    BY <1>2, SelectIs DEF CallablesIn, t
  <1>6. \A i \in 1..Len(t) : i \in CallableAt(g, f) <=> t[i].kind \in {"function", "method"}
    BY <1>4 DEF CallableAt, t
  <1> HIDE DEF u
  <1>7. \A x : x \in ToSet(u) <=> x \in Callable(g, f)
    <2>1. \A x : x \in ToSet(t) <=> \E i \in 1..Len(t) : t[i] = x
      BY <1>2, ToSetIs
    <2> QED
      BY <1>3, <1>5, <1>6, <2>1 DEF Callable
  <1> QED
    BY <1>5, <1>7 DEF u

\* One more file without a note adds what can be read of it, and no more.
LEMMA ScannedIs ==
  ASSUME NEW g, IsGraph(g), NEW c \in Caps, NEW acc \in Scans(g), NEW f
  PROVE  /\ Scanned(g, c, acc, f) \in Scans(g)
         /\ ~Scanned(g, c, acc, f).truncated =>
              /\ ~acc.truncated
              /\ \A x : x \in ToSet(Scanned(g, c, acc, f).scored) <=>
                          \/ x \in ToSet(acc.scored)
                          \/ f \notin g.broken /\ x \in Callable(g, f) /\ x.id \notin g.broken
  <1> DEFINE all == CallablesIn(g, f)
             looked == LookedAt(g, c, acc, f)
             read == Picked(looked, ReadableAt(g, looked))
             next == Scanned(g, c, acc, f)
  <1>1. acc.scored \in Seq(Nodes(g)) /\ acc.scanned \in Nat /\ acc.truncated \in BOOLEAN /\ c.scan \in Nat
    BY FactCapsAre DEF Scans
  <1>2. CASE acc.truncated \/ acc.scanned >= c.scan
    <2>1. next = [acc EXCEPT !.truncated = TRUE]
      BY <1>2 DEF Scanned
    <2>2. next \in Scans(g) /\ next.truncated
      BY <2>1 DEF Scans
    <2> QED
      BY <2>2
  <1>3. CASE ~(acc.truncated \/ acc.scanned >= c.scan) /\ ~Readable(g, f)
    <2>1. next = acc
      BY <1>3 DEF Scanned
    <2> QED
      BY <1>3, <2>1 DEF Readable
  <1>4. CASE ~(acc.truncated \/ acc.scanned >= c.scan) /\ Readable(g, f)
    <2>1. c.scan - acc.scanned \in Nat
      BY <1>1, <1>4
    <2>2. all \in Seq(Nodes(g)) /\ ToSet(all) = Callable(g, f)
      BY CallablesAre
    <2> HIDE DEF all
    <2>3. looked = Slice(all, c.scan - acc.scanned)
      BY DEF LookedAt, all
    <2>4. /\ looked \in Seq(Nodes(g)) /\ Len(looked) \in Nat /\ Len(all) \in Nat /\ DOMAIN looked = 1..Len(looked)
          /\ ~(Len(looked) < Len(all)) => looked = all
      <3> DEFINE l == c.scan - acc.scanned
      <3>1. l \in Nat /\ looked = Slice(all, l)
        BY <2>1, <2>3
      <3> HIDE DEF l, looked
      <3>2. /\ looked \in Seq(Nodes(g)) /\ Len(looked) = (IF Len(all) < l THEN Len(all) ELSE l)
            /\ Len(all) <= l => looked = all
        BY <2>2, <3>1, SliceIs
      <3>3. Len(looked) \in Nat /\ Len(all) \in Nat /\ DOMAIN looked = 1..Len(looked)
        BY <2>2, <3>2, ElementIs
      <3> QED
        BY <3>1, <3>2, <3>3
    <2> HIDE DEF looked
    <2>5. read \in Seq(Nodes(g)) /\ \A x : x \in ToSet(read) <=> \E i \in 1..Len(looked) : i \in ReadableAt(g, looked) /\ looked[i] = x
      BY <2>4, SelectIs
    <2>6. \A x : x \in ToSet(read) <=> x \in ToSet(looked) /\ x.id \notin g.broken
      <3>1. \A x : x \in ToSet(looked) <=> \E i \in 1..Len(looked) : looked[i] = x
        BY <2>4, ToSetIs
      <3> QED
        BY <2>4, <2>5, <3>1 DEF ReadableAt, Readable
    <2> HIDE DEF read
    <2>7. acc.scored \o read \in Seq(Nodes(g)) /\ ToSet(acc.scored \o read) = ToSet(acc.scored) \cup ToSet(read)
      BY <1>1, <2>5, ConcatIs
    <2> DEFINE cut == Len(looked) < Len(all)
               scored == acc.scored \o read
               scanned == acc.scanned + Len(looked)
    <2>8. next = [scanned |-> scanned, truncated |-> cut, scored |-> scored]
      BY <1>4 DEF Scanned, looked, all, read
    <2>9. scanned \in Nat /\ cut \in BOOLEAN
      BY <1>1, <2>4
    <2>10. ~cut => looked = all
      BY <2>4
    <2> HIDE DEF cut, scored, scanned, next
    <2>11. next \in Scans(g) /\ next.truncated = cut /\ next.scored = scored
      BY <2>7, <2>8, <2>9 DEF Scans, scored
    <2>12. ASSUME ~next.truncated
           PROVE  \A x : x \in ToSet(next.scored) <=> x \in ToSet(acc.scored) \/ (f \notin g.broken /\ x \in Callable(g, f) /\ x.id \notin g.broken)
      <3>1. looked = all
        BY <2>10, <2>11, <2>12
      <3>2. ToSet(next.scored) = ToSet(acc.scored) \cup ToSet(read)
        BY <2>7, <2>11 DEF scored
      <3> QED
        BY <1>4, <2>2, <2>6, <3>1, <3>2 DEF Readable
    <2> QED
      BY <1>4, <2>11, <2>12 DEF next
  <1> QED
    BY <1>2, <1>3, <1>4

ScanRun(h, g, c) ==
  /\ h \in [0..Len(g.files) -> Scans(g)]
  /\ h[0] = NothingScanned
  /\ \A k \in 1..Len(g.files) : h[k] = Scanned(g, c, h[k - 1], g.files[k])
  /\ ScanOf(g, c) = h[Len(g.files)]

\* The scan as a run over the files.
LEMMA ScanRuns ==
  ASSUME NEW g, IsGraph(g), NEW c \in Caps
  PROVE  \E h : ScanRun(h, g, c)
  <1> DEFINE n == Len(g.files)
             step == [k \in 1..n |-> [acc \in Scans(g) |-> Scanned(g, c, acc, g.files[k])]]
             Eq(f) == f = [S \in SUBSET (1..n) |->
                             IF S = {} THEN NothingScanned ELSE Scanned(g, c, f[S \ {Max(S)}], g.files[Max(S)])]
             F == CHOOSE f : Eq(f)
  <1>1. n \in Nat /\ DOMAIN g.files = 1..n /\ NothingScanned \in Scans(g) /\ \A acc \in Scans(g) : \A k \in 1..n : Scanned(g, c, acc, g.files[k]) \in Scans(g)
    BY ScannedIs, ElementIs, EmptyIs DEF IsGraph, Scans, NothingScanned
  <1>2. step \in [1..n -> [Scans(g) -> Scans(g)]]
    BY <1>1
  <1>3. \A S \in SUBSET (1..n) : S # {} => Max(S) \in 1..n /\ S \ {Max(S)} \in SUBSET (1..n)
    <2> TAKE S \in SUBSET (1..n)
    <2>1. S \subseteq 0..n
      BY <1>1
    <2> QED
      BY <1>1, <2>1, MaxIsGreatest
  <1>4. \E f : Eq(f)
    <2>1. PICK f : FoldOver(f, n, Scans(g), NothingScanned, step)
      <3> HIDE DEF step, n, Eq, F
      <3> QED
        BY <1>1, <1>2, FoldExists
    <2>2. Eq(f)
      BY <1>3, <2>1 DEF FoldOver
    <2> QED
      BY <2>2
  <1>5. Eq(F)
    <2> HIDE DEF Eq
    <2> QED
      BY <1>4
  <1>6. ScanOf(g, c) = F[1..n]
    BY <1>1 DEF ScanOf, FoldLeft, MapThenFoldSet
  <1>7. Outcome(F[1..n], n, Scans(g), NothingScanned, step)
    <2>1. FoldedBy(F, n, Scans(g), NothingScanned, step)
      <3>1. F[{}] = NothingScanned
        BY <1>5
      <3>2. ASSUME NEW S \in SUBSET (1..n), S # {}, F[S \ {Max(S)}] \in Scans(g)
            PROVE  F[S] = step[Max(S)][F[S \ {Max(S)}]]
        <4>1. F[S] = Scanned(g, c, F[S \ {Max(S)}], g.files[Max(S)])
          BY <1>5, <3>2
        <4> HIDE DEF F
        <4> QED
          BY <1>3, <3>2, <4>1
      <3> HIDE DEF F, step
      <3> QED
        BY <3>1, <3>2 DEF FoldedBy
    <2> HIDE DEF step, F, n, Eq
    <2> QED
      BY <1>1, <1>2, <2>1, FoldIs
  <1>8. PICK h : Running(h, n, Scans(g), NothingScanned, step) /\ h[n] = F[1..n]
    <2> HIDE DEF step, F, n, Eq
    <2> QED
      BY <1>7 DEF Outcome
  <1>9. h \in [0..n -> Scans(g)] /\ h[0] = NothingScanned /\ \A k \in 1..n : h[k] = step[k][h[k - 1]]
    <2> HIDE DEF step, n
    <2> QED
      BY <1>8 DEF Running
  <1>10. ASSUME NEW k \in 1..n PROVE h[k] = Scanned(g, c, h[k - 1], g.files[k])
    <2>1. k - 1 \in 0..n
      BY <1>1
    <2>2. h[k - 1] \in Scans(g)
      <3> HIDE DEF n
      <3> QED
        BY <1>9, <2>1
    <2> QED
      BY <1>9, <2>2
  <1>11. ScanRun(h, g, c)
    <2> HIDE DEF F
    <2> QED
      BY <1>6, <1>8, <1>9, <1>10 DEF ScanRun
  <1> QED
    BY <1>11

RankedUpTo(g, acc, k) ==
  ~acc.truncated =>
    \A x : x \in ToSet(acc.scored) <=>
             \E j \in 1..k : g.files[j] \notin g.broken /\ x \in Callable(g, g.files[j]) /\ x.id \notin g.broken

\* A scan without a note has ranked what can be read of the files so far.
LEMMA ScanKeeps ==
  ASSUME NEW g, IsGraph(g), NEW c \in Caps, NEW acc \in Scans(g), NEW k \in Nat \ {0}, RankedUpTo(g, acc, k - 1)
  PROVE  RankedUpTo(g, Scanned(g, c, acc, g.files[k]), k)
  <1> DEFINE next == Scanned(g, c, acc, g.files[k])
             New(x, j) == g.files[j] \notin g.broken /\ x \in Callable(g, g.files[j]) /\ x.id \notin g.broken
  <1> SUFFICES ASSUME ~next.truncated PROVE \A x : x \in ToSet(next.scored) <=> \E j \in 1..k : New(x, j)
    BY DEF RankedUpTo
  <1>1. ~acc.truncated /\ \A x : x \in ToSet(next.scored) <=> x \in ToSet(acc.scored) \/ New(x, k)
    <2> DEFINE f == g.files[k]
    <2> HIDE DEF f
    <2>1. /\ ~Scanned(g, c, acc, f).truncated => ~acc.truncated
          /\ ~Scanned(g, c, acc, f).truncated =>
                \A x : x \in ToSet(Scanned(g, c, acc, f).scored) <=>
                         \/ x \in ToSet(acc.scored)
                         \/ f \notin g.broken /\ x \in Callable(g, f) /\ x.id \notin g.broken
      BY ScannedIs
    <2> QED
      BY <2>1 DEF f
  <1>2. \A x : x \in ToSet(acc.scored) <=> \E j \in 1..(k - 1) : New(x, j)
    BY <1>1 DEF RankedUpTo
  <1> HIDE DEF New, next
  <1>3. 1..k = 1..(k - 1) \cup {k}
    OBVIOUS
  <1> QED
    BY <1>1, <1>2, <1>3

\* Without a note, what was ranked is what can be read.
LEMMA HotspotsAre ==
  ASSUME NEW g, IsGraph(g), NEW c \in Caps, ~Hotspots(g, c).degraded
  PROVE  \A x : x \in ToSet(Hotspots(g, c).scored) <=>
                  /\ x \in Nodes(g) /\ x.kind \in {"function", "method"}
                  /\ Readable(g, x.file) /\ Readable(g, x.id)
  <1> DEFINE n == Len(g.files)
  <1>1. PICK h : ScanRun(h, g, c)
    BY ScanRuns
  <1>2. /\ n \in Nat /\ g.files \in Seq(STRING)
        /\ h \in [0..n -> Scans(g)] /\ h[0] = NothingScanned /\ \A k \in 1..n : h[k] = Scanned(g, c, h[k - 1], g.files[k])
        /\ ScanOf(g, c) = h[n]
    BY <1>1, ElementIs DEF ScanRun, IsGraph
  <1> HIDE DEF n
  <1> DEFINE G == {k \in 0..n : RankedUpTo(g, h[k], k)}
  <1>3. 0 \in G
    <2>1. h[0].scored = <<>>
      BY <1>2 DEF NothingScanned
    <2>2. \A x : x \notin ToSet(h[0].scored)
      BY <2>1, EmptyIs
    <2> QED
      BY <1>2, <2>2 DEF RankedUpTo
  <1>4. ASSUME NEW k \in 1..n, k - 1 \in G PROVE k \in G
    <2>1. k \in Nat \ {0} /\ k \in 0..n /\ k - 1 \in 0..n
      BY <1>2
    <2> DEFINE acc == h[k - 1]
    <2>2. acc \in Scans(g) /\ RankedUpTo(g, acc, k - 1) /\ h[k] = Scanned(g, c, acc, g.files[k])
      BY <1>2, <1>4, <2>1
    <2> HIDE DEF acc
    <2>3. RankedUpTo(g, h[k], k)
      BY <2>1, <2>2, ScanKeeps
    <2> QED
      BY <2>1, <2>3
  <1>5. n \in G
    <2>1. n \in 0..n
      BY <1>2
    <2> HIDE DEF G
    <2> QED
      BY <1>2, <1>3, <1>4, <2>1, Stepwise
  <1>6. ~h[n].truncated /\ Hotspots(g, c).scored = h[n].scored
    BY <1>2, HotspotParts
  <1>7. \A x : x \in ToSet(h[n].scored) <=>
                 \E j \in 1..n : g.files[j] \notin g.broken /\ x \in Callable(g, g.files[j]) /\ x.id \notin g.broken
    BY <1>5, <1>6 DEF RankedUpTo
  <1>8. \A f : f \in ToSet(g.files) <=> \E j \in 1..n : g.files[j] = f
    BY <1>2, ToSetIs DEF n
  <1>9. \A x \in Nodes(g) : x.file \in ToSet(g.files)
    BY DEF IsGraph, Nodes
  <1> QED
    BY <1>6, <1>7, <1>8, <1>9 DEF Callable, Readable

(***************************************************************************)
(* The results of the machine                                              *)
(***************************************************************************)
\* A result, once it is there, is that of the input.
ResultFits == computed => input \in Inputs /\ output = Result(input)

\* Nothing is computed but the result of the input.
LEMMA ResultsFit == AlgorithmsSpec => []ResultFits
  <1> DEFINE Inv == input \in Inputs /\ ResultFits
  <1>1. AlgorithmsInit => Inv
    BY DEF AlgorithmsInit, ResultFits
  <1>2. Inv /\ [AlgorithmsNext]_algorithmVars => Inv'
    <2> SUFFICES ASSUME Inv, [AlgorithmsNext]_algorithmVars PROVE Inv'
      OBVIOUS
    <2>1. CASE Compute
      BY <2>1 DEF Compute, ResultFits
    <2>2. CASE UNCHANGED algorithmVars
      BY <2>2 DEF algorithmVars, ResultFits
    <2> QED
      BY <2>1, <2>2 DEF AlgorithmsNext
  <1>3. Inv => ResultFits
    OBVIOUS
  <1> QED
    BY <1>1, <1>2, <1>3, PTL DEF AlgorithmsSpec

\* What a conversation is computed to.
LEMMA ConversationResult ==
  ASSUME NEW x, x.of = "talk"
  PROVE  /\ Result(x).sent = WithRollingCache(Conversation(x.answers))
         /\ Result(x).out = ToMistralMessages(WithRollingCache(Conversation(x.answers)))
  BY DEF Result

\* What a prompt, a retry and a search are computed to.
LEMMA BoundsResult ==
  ASSUME NEW x, x.of \in Kinds
  PROVE  /\ x.of = "prompt" => Result(x) = AssembleUserMessage(x.facts, x.fixed, x.ctx, x.budget)
         /\ x.of = "backoff" => Result(x) = Waits(x.failures, x.options)
         /\ x.of = "search" => Result(x) = Answer(x.files, x.c)
  BY DEF Result, Kinds

\* The request after a conversation is one the provider accepts.
LEMMA AcceptedRequests == ResultFits => RequestsAccepted
  <1>1. ASSUME ResultFits PROVE RequestsAccepted
    <2> SUFFICES ASSUME computed, input.of = "talk"
                 PROVE  /\ (\A k \in DOMAIN input.answers :
                              LET uses == OfType(input.answers[k], "tool_use") IN
                              (\E i \in DOMAIN uses : uses[i].name = "emit") => Len(uses) = 1)
                           => WellFormed(output.out)
                        /\ OneMarker(output.sent)
      BY DEF RequestsAccepted, DialectWellFormed, CacheAtTail, Computed
    <2> DEFINE answers == input.answers
    <2>1. answers \in Seq(Answers)
      BY <1>1, InputsAssumption DEF ResultFits
    <2>2. /\ output.sent = WithRollingCache(Conversation(answers))
          /\ output.out = ToMistralMessages(WithRollingCache(Conversation(answers)))
      BY <1>1, ConversationResult DEF ResultFits
    <2> HIDE DEF answers
    <2>3. OneMarker(output.sent)
      BY <2>1, <2>2, TalkIsMarked
    <2>4. ASSUME \A k \in DOMAIN answers : LET uses == OfType(answers[k], "tool_use") IN
                                            (\E i \in DOMAIN uses : uses[i].name = "emit") => Len(uses) = 1
          PROVE  WellFormed(output.out)
      <3>1. \A j \in 1..Len(answers) : OnlyEmits(answers[j])
        BY <2>1, <2>4 DEF OnlyEmits, Uses
      <3> QED
        BY <2>1, <2>2, <3>1, TalkIsAnswered
    <2> QED
      BY <2>3, <2>4 DEF answers
  <1> QED
    BY <1>1

\* Prompts, waits and searches keep their bounds.
LEMMA HeldBounds == ResultFits => BoundsHold
  <1>1. ASSUME ResultFits PROVE BoundsHold
    <2>1. PromptFits
      <3> SUFFICES ASSUME computed, input.of = "prompt"
                   PROVE  CutsInOrder(input.facts, input.fixed, input.ctx, input.budget, output)
        BY DEF PromptFits, Computed
      <3>1. /\ input.facts \in Int /\ input.fixed \in Int /\ input.budget \in Int
            /\ input.ctx \in [FieldNames -> Nat] /\ input.of \in Kinds
        BY <1>1, InputsAssumption DEF ResultFits
      <3>2. output = AssembleUserMessage(input.facts, input.fixed, input.ctx, input.budget)
        BY <1>1, <3>1, BoundsResult DEF ResultFits
      <3> QED
        BY <3>1, <3>2, CutIsInOrder
    <2>2. BackoffBounded
      <3> SUFFICES ASSUME computed, input.of = "backoff"
                   PROVE  BacksOff(input.failures, input.options, output)
        BY DEF BackoffBounded, Computed
      <3>1. input.failures \in Nat /\ input.options \in RetryOptions /\ input.of \in Kinds
        BY <1>1, InputsAssumption DEF ResultFits
      <3>2. output = Waits(input.failures, input.options)
        BY <1>1, <3>1, BoundsResult DEF ResultFits
      <3> QED
        BY <3>1, <3>2, WaitsBackOff
    <2>3. SearchSaysMore
      <3> SUFFICES ASSUME computed, input.of = "search"
                   PROVE  SearchComplete(input.files, input.c, output)
        BY DEF SearchSaysMore, Computed
      <3>1. input.files \in Seq(Int) /\ input.c \in SearchCaps /\ input.of \in Kinds
        BY <1>1, InputsAssumption DEF ResultFits
      <3>2. output = Answer(input.files, input.c)
        BY <1>1, <3>1, BoundsResult DEF ResultFits
      <3> QED
        BY <3>1, <3>2, SearchIsComplete
    <2> QED
      BY <2>1, <2>2, <2>3 DEF BoundsHold
  <1> QED
    BY <1>1

\* What a graph, a register, routes and labels are computed to.
LEMMA ReportResult ==
  ASSUME NEW x, x.of \in Kinds
  PROVE  /\ x.of = "graph" => Result(x) = Pipelined(x)
         /\ x.of = "register" => Result(x).rows = Findings(x.said) /\ Result(x).unanchored = Unanchored(x.said)
         /\ x.of = "routes" => Result(x) = ApiSurface(x.routes, x.listed, x.cap)
         /\ x.of = "labels" => Result(x) = Ids(x.labels, x.flat)
  BY DEF Result, Kinds

FactsFrom(x) == IF x.aged THEN NoFacts ELSE FactsOf(x.g, x.m, x.c)

\* The facts, the diagrams and the report of a graph.
LEMMA PipelineParts ==
  ASSUME NEW x
  PROVE  LET p == Pipelined(x)
             diagrams == BuildAll(x.g, FactsFrom(x), x.said, x.c)
         IN /\ p.facts = FactsFrom(x) /\ p.diagrams = diagrams
            /\ p.hotspots = Hotspots(x.g, x.c) /\ p.cut = ExternalImports(x.g, x.m, x.c).degraded
            /\ p.report = Render(FactsFrom(x), diagrams, x.said, x.m.dependencies, x.c)
  BY DEF Pipelined, FactsFrom

\* What is computed of a graph.
LEMMA GraphResult ==
  ASSUME ResultFits, computed, input.of = "graph"
  PROVE  /\ IsGraph(input.g) /\ input.c \in Caps /\ input.said \in Sayings /\ input.m.dependencies \in Seq([name : STRING])
         /\ output = Pipelined(input) /\ FactsTyped(input.g, FactsFrom(input)) /\ input.aged \in BOOLEAN
  <1>1. /\ IsGraph(input.g) /\ input.c \in Caps /\ input.said \in Sayings /\ input.m.dependencies \in Seq([name : STRING])
        /\ input.aged \in BOOLEAN /\ input.of \in Kinds /\ output = Result(input)
    BY InputsAssumption DEF ResultFits
  <1>2. output = Pipelined(input)
    BY <1>1, ReportResult
  <1>3. FactsTyped(input.g, FactsFrom(input))
    BY <1>1, FactsAreTyped DEF FactsFrom
  <1> QED
    BY <1>1, <1>2, <1>3

\* The sections agree.
LEMMA AgreedReports == ResultFits => ReportAgrees
  <1> SUFFICES ASSUME ResultFits PROVE ReportAgrees
    OBVIOUS
  <1>1. TableFollows
    <2> SUFFICES ASSUME computed, input.of = "graph"
                 PROVE  TableFollowsDiagram(output.report.table, output.diagrams, input.c)
      BY DEF TableFollows, Computed
    <2> DEFINE facts == FactsFrom(input)
               diagrams == BuildAll(input.g, facts, input.said, input.c)
    <2>1. /\ IsGraph(input.g) /\ input.c \in Caps /\ input.said \in Sayings /\ FactsTyped(input.g, facts)
          /\ output = Pipelined(input)
      BY GraphResult
    <2>2. output.diagrams = diagrams /\ output.report = Render(facts, diagrams, input.said, input.m.dependencies, input.c)
      BY <2>1, PipelineParts
    <2> HIDE DEF facts
    <2>3. TableFollowsDiagram(SystemFlowTable(facts, diagrams), diagrams, input.c)
      BY <2>1, TableIs
    <2> HIDE DEF diagrams
    <2>4. output.report.table = SystemFlowTable(facts, diagrams)
      BY <2>2 DEF Render
    <2> QED
      BY <2>2, <2>3, <2>4
  <1>2. AuthStepsShown
    <2> SUFFICES ASSUME computed, input.of = "graph", input.said.authSteps > 0 PROVE output.report.auth # "none"
      BY DEF AuthStepsShown, Computed
    <2> DEFINE facts == FactsFrom(input)
               diagrams == BuildAll(input.g, facts, input.said, input.c)
    <2>1. output.report = Render(facts, diagrams, input.said, input.m.dependencies, input.c)
      BY GraphResult, PipelineParts
    <2> HIDE DEF facts, diagrams
    <2>2. output.report.auth = AuthFlow(diagrams, input.said.authSteps)
      BY <2>1 DEF Render
    <2>3. AuthFlow(diagrams, input.said.authSteps) \in {"diagram", "list"}
      BY DEF AuthFlow
    <2> QED
      BY <2>2, <2>3
  <1>3. RegisterComplete
    <2> SUFFICES ASSUME computed, input.of = "register"
                 PROVE  RegisterIsComplete(input.said, output.rows, output.unanchored)
      BY DEF RegisterComplete, Computed
    <2>1. input.said \in Reported /\ output.rows = Findings(input.said) /\ output.unanchored = Unanchored(input.said)
      BY InputsAssumption, ReportResult DEF ResultFits
    <2> QED
      BY <2>1, RegisterIs
  <1>4. EndpointsAddUp
    <2> SUFFICES ASSUME computed, input.of = "routes"
                 PROVE  EndpointsAccounted(input.routes, input.listed, input.cap, output)
      BY DEF EndpointsAddUp, Computed
    <2>1. /\ input.routes \in Seq(STRING) /\ input.listed \in Seq(STRING) /\ input.cap \in Nat
          /\ None \notin ToSet(input.listed) /\ output = ApiSurface(input.routes, input.listed, input.cap)
      BY InputsAssumption, ReportResult DEF ResultFits
    <2> QED
      BY <2>1, EndpointsAre
  <1> QED
    BY <1>1, <1>2, <1>3, <1>4 DEF ReportAgrees

\* The diagrams hold together.
LEMMA HeldDiagrams == ResultFits => DiagramsHoldTogether
  <1> SUFFICES ASSUME ResultFits PROVE DiagramsHoldTogether
    OBVIOUS
  <1>1. NoDanglingArrow
    <2> SUFFICES ASSUME computed, input.of = "graph", NEW k \in DOMAIN output.diagrams PROVE Sound(output.diagrams[k].diagram)
      BY Zenon DEF NoDanglingArrow, Computed, Sound
    <2> DEFINE facts == FactsFrom(input)
               entries == Entries(input.g, facts, input.said, input.c)
    <2>1. IsGraph(input.g) /\ input.c \in Caps /\ input.said \in Sayings /\ FactsTyped(input.g, facts)
      BY GraphResult
    <2>2. output.diagrams = BuildAll(input.g, facts, input.said, input.c)
      BY GraphResult, PipelineParts
    <2> HIDE DEF facts
    <2>3. /\ facts.chains \in Seq(Paths(input.g)) /\ input.said.flows \in Seq(Seq(STRING)) /\ input.c.flows \in Nat
      BY <2>1, DrawCapsAre DEF FactsTyped, Sayings
    <2>4. output.diagrams \in Seq(entries)
      BY <2>2, <2>3, BuiltIs
    <2> HIDE DEF entries
    <2>5. output.diagrams[k] \in entries
      BY <2>4, ElementIs
    <2> QED
      BY <2>1, <2>5, EntriesAreSound DEF entries
  <1>2. NoInventedSelfCall
    <2> SUFFICES ASSUME computed, input.of = "graph", NEW k \in DOMAIN output.facts.chains
                 PROVE  LET chain == output.facts.chains[k]
                            edges == SequenceFromChain(chain, input.c).edges
                        IN \A i \in 1..(Len(edges) - 1) :
                             edges[i][1] = edges[i][2] => chain[i].name = chain[i + 1].name /\ chain[i].file = chain[i + 1].file
      BY Zenon DEF NoInventedSelfCall, Computed
    <2> DEFINE chain == output.facts.chains[k]
               edges == SequenceFromChain(chain, input.c).edges
    <2>1. IsGraph(input.g) /\ input.c \in Caps /\ output.facts.chains \in Seq(Paths(input.g))
      BY GraphResult, PipelineParts DEF FactsTyped
    <2>2. chain \in Paths(input.g)
      BY <2>1, ElementIs
    <2> HIDE DEF chain
    <2>3. chain \in Seq(Nodes(input.g))
      BY <2>2 DEF Trails, Paths
    <2>4. \A i \in 1..(Len(edges) - 1) :
             edges[i] = <<<<chain[i].name, chain[i].file>>, <<chain[i + 1].name, chain[i + 1].file>>>>
      BY <2>1, <2>3, ChainIsDrawn
    <2> HIDE DEF edges
    <2>5. \A i \in 1..(Len(edges) - 1) :
             edges[i][1] = edges[i][2] => chain[i].name = chain[i + 1].name /\ chain[i].file = chain[i + 1].file
      BY <2>4
    <2> QED
      BY <2>5 DEF edges, chain
  <1>3. PackagesConnected
    <2> SUFFICES ASSUME computed, input.of = "graph"
                 PROVE  LET d == DependencyEdgeGraph(output.facts.imports, input.c) IN
                        \A box \in ToSet(d.nodes) : box[1] = "pkg" => \E i \in DOMAIN d.edges : d.edges[i][2] = box
      BY Zenon DEF PackagesConnected, Computed
    <2>1. input.c \in Caps /\ output.facts.imports \in Seq(EdgesOf(ModuleNames, STRING))
      BY GraphResult, PipelineParts DEF FactsTyped
    <2> QED
      BY <2>1, DependencyGraphIs
  <1>4. IdsDistinct
    <2> SUFFICES ASSUME computed, input.of = "labels" PROVE DOMAIN output = ToSet(input.labels) /\ Apart(output)
      BY Zenon DEF IdsDistinct, Computed, Apart
    <2>1. Flattened(input.labels, input.flat) /\ output = Ids(input.labels, input.flat)
      BY InputsAssumption, ReportResult DEF ResultFits, Flattened
    <2> QED
      BY <2>1, IdsAre
  <1> QED
    BY <1>1, <1>2, <1>3, <1>4 DEF DiagramsHoldTogether

\* The facts of a graph are those measured in it, or none.
LEMMA FactsOfGraph ==
  ASSUME ResultFits, computed, input.of = "graph"
  PROVE  /\ IsGraph(input.g) /\ input.c \in Caps
         /\ output.facts = NoFacts \/ output.facts = FactsOf(input.g, input.m, input.c)
  <1>1. IsGraph(input.g) /\ input.c \in Caps /\ output.facts = FactsFrom(input)
    BY GraphResult, PipelineParts
  <1> QED
    BY <1>1 DEF FactsFrom

Steps(g, c, chain) ==
  /\ Len(chain) \in c.minSteps..c.steps
  /\ \A i \in 2..Len(chain) : chain[i].id \in ToSet(g.callees[chain[i - 1].id])
  /\ \A i, j \in DOMAIN chain : chain[i] = chain[j] => i = j

\* A walk of the graph is a chain as the property says it.
LEMMA ChainedSteps ==
  ASSUME NEW g, NEW c \in Caps, NEW w, Chained(g, w, c.steps), Len(w) >= c.minSteps
  PROVE  Steps(g, c, w)
  <1>1. w \in Seq(Nodes(g)) /\ Len(w) \in 1..c.steps /\ c.steps \in Nat /\ c.minSteps \in Nat
    BY FactCapsAre DEF Chained
  <1>2. Len(w) \in c.minSteps..c.steps
    BY <1>1
  <1>3. DOMAIN w = 1..Len(w)
    BY <1>1
  <1>4. ASSUME NEW i \in DOMAIN w, NEW j \in DOMAIN w, w[i] = w[j] PROVE i = j
    BY <1>3, <1>4 DEF Chained
  <1> QED
    BY <1>2, <1>4 DEF Chained, Steps

\* Chains are calls.
LEMMA CalledChains == ResultFits => ChainsAreCalls
  <1> SUFFICES ASSUME ResultFits, computed, input.of = "graph", NEW k \in DOMAIN output.facts.chains
               PROVE  Steps(input.g, input.c, output.facts.chains[k])
    BY Zenon DEF ChainsAreCalls, Computed, Steps
  <1> DEFINE chains == CallChains(input.g, input.c).chains
  <1>1. IsGraph(input.g) /\ input.c \in Caps /\ (output.facts = NoFacts \/ output.facts = FactsOf(input.g, input.m, input.c))
    BY FactsOfGraph
  <1>2. output.facts.chains = <<>> \/ output.facts.chains = chains
    BY <1>1 DEF NoFacts, FactsOf
  <1>3. /\ chains \in Seq(Paths(input.g))
        /\ \A w \in ToSet(chains) : Chained(input.g, w, input.c.steps) /\ Len(w) >= input.c.minSteps
    BY <1>1, TrailsAre
  <1> HIDE DEF chains
  <1>4. output.facts.chains = chains
    BY <1>2
  <1>5. chains[k] \in ToSet(chains)
    BY <1>3, <1>4, ToSetIs
  <1> QED
    BY <1>1, <1>3, <1>4, <1>5, ChainedSteps

\* Edges are imports.
LEMMA ImportedEdges == ResultFits => EdgesAreImports
  <1> SUFFICES ASSUME ResultFits, computed, input.of = "graph", output.facts.there
               PROVE  /\ \A i \in DOMAIN output.facts.edges : output.facts.edges[i].from # output.facts.edges[i].to
                      /\ \A i, j \in DOMAIN output.facts.edges :
                            output.facts.edges[i].from = output.facts.edges[j].from /\ output.facts.edges[i].to = output.facts.edges[j].to => i = j
                      /\ Len(output.facts.edges) < input.c.edges => Added(WeightsOf(output.facts.edges)) = Cardinality(ImportSet(input.g))
    BY Zenon DEF EdgesAreImports, Computed, SumOf, WeightsOf, ImportSet, CrossesIn
  <1> DEFINE e == ModuleEdges(input.g, input.c)
             P == CrossingPairs(input.g)
  <1>1. IsGraph(input.g) /\ input.c \in Caps /\ (output.facts = NoFacts \/ output.facts = FactsOf(input.g, input.m, input.c))
    BY FactsOfGraph
  <1>2. output.facts.edges = e
    BY <1>1 DEF NoFacts, FactsOf
  <1>3. /\ Tallied(e, P, ModuleNames, ModuleNames)
        /\ \A x \in ToSet(e) : <<x.from, x.to>> \in ToSet(P)
        /\ Len(e) < input.c.edges => Added(WeightsOf(e)) = Cardinality(ImportSet(input.g))
    BY <1>1, ModuleEdgesAre
  <1> HIDE DEF e
  <1>4. ASSUME NEW x \in ToSet(e) PROVE x.from # x.to
    <2> DEFINE a == x.from
               b == x.to
    <2>1. <<a, b>> \in ToSet(CrossingPairs(input.g))
      BY <1>3
    <2> HIDE DEF a, b
    <2>2. a # b
      BY <1>1, <2>1, CrossingPairsAre
    <2> QED
      BY <2>2 DEF a, b
  <1> HIDE DEF P
  <1>5. e \in Seq(EdgesOf(ModuleNames, ModuleNames)) /\ DOMAIN e = 1..Len(e)
    BY <1>3 DEF Tallied
  <1>6. \A i \in DOMAIN e : e[i].from # e[i].to
    BY <1>4, <1>5, ToSetIs
  <1>7. \A i, j \in 1..Len(e) : e[i].from = e[j].from /\ e[i].to = e[j].to => i = j
    BY <1>3, TalliedOnce
  <1> QED
    BY <1>2, <1>3, <1>5, <1>6, <1>7

\* The facts are those of the graph.
LEMMA MeasuredFacts == ResultFits => FactsAreMeasured
  BY CalledChains, ImportedEdges DEF FactsAreMeasured

\* A partial ranking is said to be one.
LEMMA SaidPartial == ResultFits => PartialIsSaid
  <1> SUFFICES ASSUME ResultFits, computed, input.of = "graph", ~output.hotspots.degraded
               PROVE  ToSet(output.hotspots.scored) =
                        {n \in ToSet(input.g.nodes) : /\ n.kind \in {"function", "method"}
                                                      /\ Readable(input.g, n.file) /\ Readable(input.g, n.id)}
    BY Zenon DEF PartialIsSaid, Computed
  <1> DEFINE g == input.g
             c == input.c
  <1>1. IsGraph(g) /\ c \in Caps /\ output.hotspots = Hotspots(g, c)
    BY GraphResult, PipelineParts
  <1> HIDE DEF g, c
  <1>2. \A x : x \in ToSet(output.hotspots.scored) <=>
                  /\ x \in Nodes(g) /\ x.kind \in {"function", "method"}
                  /\ Readable(g, x.file) /\ Readable(g, x.id)
    BY <1>1, HotspotsAre
  <1> QED
    BY <1>2 DEF Nodes, g

\* The facts a report was rendered from, when they were there.
LEMMA ReportParts ==
  ASSUME ResultFits, computed, input.of = "graph"
  PROVE  /\ output.report.pages = IF output.facts.there
                                  THEN [i \in DOMAIN output.facts.modules |-> ModulePage(output.facts, output.facts.modules[i].name)] ELSE <<>>
         /\ output.report.packages = IF output.facts.there THEN Declared(output.facts, input.m.dependencies, input.c) ELSE <<>>
         /\ output.facts.there => output.facts = FactsOf(input.g, input.m, input.c)
         /\ output.cut = ExternalImports(input.g, input.m, input.c).degraded
  <1> DEFINE facts == output.facts
             diagrams == output.diagrams
  <1>1. /\ output.report = Render(facts, diagrams, input.said, input.m.dependencies, input.c)
        /\ output.cut = ExternalImports(input.g, input.m, input.c).degraded
    BY GraphResult, PipelineParts
  <1>2. facts.there => facts = FactsOf(input.g, input.m, input.c)
    BY FactsOfGraph DEF NoFacts
  <1> HIDE DEF facts, diagrams
  <1>3. /\ output.report.pages = IF facts.there
                                 THEN [i \in DOMAIN facts.modules |-> ModulePage(facts, facts.modules[i].name)] ELSE <<>>
        /\ output.report.packages = IF facts.there THEN Declared(facts, input.m.dependencies, input.c) ELSE <<>>
    BY <1>1 DEF Render
  <1> QED
    BY <1>1, <1>2, <1>3 DEF facts

\* Isolated modules stand alone.
LEMMA IsolatedPages == ResultFits => IsolatedIsAlone
  <1> SUFFICES ASSUME ResultFits, computed, input.of = "graph", Len(output.facts.edges) < input.c.edges,
                      NEW p \in ToSet(output.report.pages)
               PROVE  Alone(input.g, p)
    BY Zenon DEF IsolatedIsAlone, Computed, Alone, OtherFiles, OwnFiles, Dirs, Reaches
  <1> DEFINE g == input.g
             c == input.c
             facts == output.facts
             modules == facts.modules
             pages == output.report.pages
  <1>1. IsGraph(g) /\ c \in Caps
    BY GraphResult
  <1>2. /\ pages = IF facts.there THEN [i \in DOMAIN modules |-> ModulePage(facts, modules[i].name)] ELSE <<>>
        /\ facts.there => facts = FactsOf(g, input.m, c)
    BY ReportParts
  <1> HIDE DEF g, c, pages
  <1>3. facts.there
    <2> SUFFICES ASSUME ~facts.there PROVE FALSE
      OBVIOUS
    <2>1. pages = <<>>
      BY <1>2
    <2>2. ToSet(pages) = {}
      BY <2>1, EmptyIs
    <2> QED
      BY <2>2 DEF pages
  <1>4. modules = Modules(g, c) /\ facts.edges = ModuleEdges(g, c)
    BY <1>2, <1>3 DEF FactsOf
  <1>5. DOMAIN modules = 1..Len(modules) /\ Len(modules) \in Nat /\ \A i \in 1..Len(modules) : modules[i].name \in Dirs(g)
    BY <1>1, <1>4, ModulesAreDirs
  <1>6. Len(facts.edges) < c.edges
    BY DEF c
  <1> HIDE DEF modules, facts
  <1> DEFINE Good == {x \in {ModulePage(facts, d) : d \in Dirs(g)} : Alone(g, x)}
  <1>7. \A d \in Dirs(g) : ModulePage(facts, d) \in Good
    BY <1>1, <1>4, <1>6, PageIsAlone
  <1>8. pages \in [1..Len(modules) -> Good]
    <2> HIDE DEF Good
    <2> QED
      BY <1>2, <1>3, <1>5, <1>7
  <1>9. p \in Good
    <2> HIDE DEF Good
    <2>1. pages \in Seq(Good)
      BY <1>5, <1>8, SeqIs
    <2> QED
      BY <2>1, ToSetIs DEF pages
  <1> QED
    BY <1>9 DEF g

\* Usage is measured.
LEMMA MeasuredUsage == ResultFits => UsageIsMeasured
  <1> SUFFICES ASSUME ResultFits, computed, input.of = "graph", ~output.cut, NEW row \in ToSet(output.report.packages)
               PROVE  row.used = Len(Picked(input.g.imports, ImportedAt(input.g, row.name)))
    BY Zenon DEF UsageIsMeasured, Computed, Select, ImportedAt
  <1> DEFINE g == input.g
             m == input.m
             c == input.c
             facts == output.facts
  <1>1. IsGraph(g) /\ c \in Caps /\ m.dependencies \in Seq([name : STRING])
    BY GraphResult
  <1>2. /\ output.report.packages = IF facts.there THEN Declared(facts, m.dependencies, c) ELSE <<>>
        /\ facts.there => facts = FactsOf(g, m, c)
        /\ ~ExternalImports(g, m, c).degraded
    BY ReportParts
  <1> HIDE DEF g, m, c, facts
  <1>3. facts.there
    <2> SUFFICES ASSUME ~facts.there PROVE FALSE
      OBVIOUS
    <2>1. output.report.packages = <<>>
      BY <1>2
    <2>2. ToSet(output.report.packages) = {}
      BY <2>1, EmptyIs
    <2> QED
      BY <2>2
  <1>4. facts.imports = ExternalImports(g, m, c).edges
    BY <1>2, <1>3 DEF FactsOf
  <1>5. facts.imports \in Seq(EdgesOf(ModuleNames, STRING))
    BY <1>1, <1>4, EdgesAre, FactCapsAre
  <1>6. row \in ToSet(Declared(facts, m.dependencies, c))
    BY <1>2, <1>3
  <1>7. row.name \in DeclaredNames(m) /\ row.used = UsageParts(facts.imports, row.name)
    BY <1>1, <1>5, <1>6, DeclaredAre
  <1> DEFINE package == row.name
  <1>8. package \in DeclaredNames(m) /\ row.used = UsageParts(ExternalImports(g, m, c).edges, package)
    BY <1>4, <1>7
  <1> HIDE DEF package
  <1>9. UsageParts(ExternalImports(g, m, c).edges, package) = Len(Picked(g.imports, ImportedAt(g, package)))
    BY <1>1, <1>2, <1>8, UsageIs
  <1> QED
    BY <1>8, <1>9 DEF package, g

\* What is cut is known.
LEMMA KnownCuts == ResultFits => CutsAreKnown
  BY SaidPartial, IsolatedPages, MeasuredUsage DEF CutsAreKnown

\* For every graph and caps: each chain of callChains follows call edges, visits no symbol
\* twice and keeps its two bounds; each edge of moduleFacts joins two modules, comes once,
\* and unless MAX_MODULE_EDGES was met their weights add up to the imports that cross.
THEOREM FactsAreOfTheGraph == AlgorithmsSpec => []FactsAreMeasured
  BY ResultsFit, MeasuredFacts, PTL

\* For every graph, manifest and caps: hotspots without the note of a cut rank every symbol
\* that can be read; a page says that a module is isolated exactly if it is; and the count
\* beside a declared package is that of its imports, unless the cut of imports was noted.
THEOREM CutsAreSaid == AlgorithmsSpec => []CutsAreKnown
  BY ResultsFit, KnownCuts, PTL

\* For every graph, manifest, cap and agents' words: no arrow of a diagram of buildAll ends
\* at a box that was cut, no chain is drawn with a call of itself it does not make, every
\* package of the dependency diagram hangs on a module, and IdAllocator gives no id twice.
THEOREM DiagramsAreWhole == AlgorithmsSpec => []DiagramsHoldTogether
  BY ResultsFit, HeldDiagrams, PTL

\* For every graph, register and list of routes: the system flow's table follows the chain
\* of its diagram, authentication steps are drawn or listed, buildFindings loses no item
\* without counting it and orders by severity, and the endpoints that the report says are
\* not in the route graph are no fewer than those, and no more if no route was cut.
THEOREM ReportsAgree == AlgorithmsSpec => []ReportAgrees
  BY ResultsFit, AgreedReports, PTL

\* For every conversation: the request that follows it answers each call the model
\* made right after it (unless an emit came with other calls), and its one cache marker
\* is on its last block: runTools, withRollingCache and toMistralMessages together.
THEOREM RequestsAreAccepted == AlgorithmsSpec => []RequestsAccepted
  BY ResultsFit, AcceptedRequests, PTL

\* For every prompt, budget, retry and search: fields are cut in the order of
\* assembleUserMessage and only by what is too much; the waits of retryWithBackoff grow
\* to the maximum, one less than the attempts; and search_text says that there is more
\* whenever it left out a hit of a file it may look at.
THEOREM BoundsAreHeld == AlgorithmsSpec => []BoundsHold
  BY ResultsFit, HeldBounds, PTL
===========================================================================
