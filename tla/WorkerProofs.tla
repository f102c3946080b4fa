--------------------------- MODULE WorkerProofs ---------------------------
(***************************************************************************)
(* Theorems about the slot gate, for every number of jobs and of slots, and *)
(* about the evidence loop, for every number of agents and every choice of *)
(* the limits.                                                             *)
(***************************************************************************)
EXTENDS SlotGate, AgentLoop, DataFacts, FiniteSetTheorems, TLAPS

(***************************************************************************)
(* The slot gate                                                           *)
(***************************************************************************)
\* A handler waits once, and not while it holds a slot.
Separate == NoRepeat(waiters) /\ Waiting \cap running = {}

IInv == TypeOK /\ Separate /\ SlotsConserved /\ NoIdleSlot

LEMMA HandlersFinite == IsFiniteSet(Handlers)
  BY FS_Product, GateAssumption DEF Handlers

LEMMA HandlerSets ==
  ASSUME NEW S \in SUBSET Handlers
  PROVE  IsFiniteSet(S) /\ Cardinality(S) \in Nat
  BY HandlersFinite, FS_Subset, FS_CardinalityType

LEMMA GateInit == Init => IInv
  <1> SUFFICES ASSUME Init PROVE IInv
    OBVIOUS
  <1>1. TypeOK /\ Separate
    <2>1. Slots \in 0..Slots
      BY GateAssumption
    <2>2. waiters \in Seq(Handlers) /\ DOMAIN waiters = {}
      BY DEF Init
    <2>3. NoRepeat(waiters) /\ Waiting = {}
      BY <2>2 DEF NoRepeat, Waiting, ToSet
    <2> QED
      BY <2>1, <2>2, <2>3 DEF Init, TypeOK, Separate
  <1>2. SlotsConserved
    <2>1. Cardinality(running) = 0
      BY FS_EmptySet DEF Init
    <2>2. QED
      BY <2>1, GateAssumption DEF Init, SlotsConserved
  <1>3. NoIdleSlot
    BY DEF Init, NoIdleSlot
  <1>4. QED
    BY <1>1, <1>2, <1>3 DEF IInv

\* The sort: the same waiters, in another order.
Weights == [i \in DOMAIN waiters |-> -Rank(waiters[i])]

LEMMA RankIs ==
  ASSUME NEW h \in Handlers
  PROVE  Rank(h) \in 1..5
  <1>1. h[2] \in AgentTypes
    BY DEF Handlers
  <1>2. \E i \in 1..5 : ORDER[i] = h[2]
    BY <1>1, GateAssumption
  <1> QED
    BY <1>1, <1>2 DEF Rank, IndexOf

LEMMA WeightsAre ==
  ASSUME waiters \in Seq(Handlers)
  PROVE  Weights \in [1..Len(waiters) -> Int] /\ \A i \in 1..Len(waiters) : Weights[i] = -Rank(waiters[i])
  <1>1. \A i \in 1..Len(waiters) : waiters[i] \in Handlers /\ Rank(waiters[i]) \in Int
    BY RankIs
  <1> QED
    BY <1>1 DEF Weights

LEMMA SortedIs ==
  ASSUME waiters \in Seq(Handlers), NoRepeat(waiters)
  PROVE  Sorted \in Seq(Handlers) /\ NoRepeat(Sorted) /\ ToSet(Sorted) = Waiting
  BY WeightsAre, RankedIs DEF Sorted, Waiting, Weights

\* What is shifted and what is left.
LEMMA Shifted ==
  ASSUME NEW queue \in Seq(Handlers), NEW n \in Nat, NEW holders, Shift(queue, n, holders)
  PROVE  \E m \in 0..Len(queue) :
           /\ m <= n /\ available' = n - m /\ (m = n \/ m = Len(queue))
           /\ waiters' \in Seq(Handlers) /\ Len(waiters') = Len(queue) - m /\ (m = Len(queue) => waiters' = <<>>)
           /\ \A k \in 1..Len(waiters') : m + k \in 1..Len(queue) /\ waiters'[k] = queue[m + k]
           /\ running' = holders \cup {queue[i] : i \in 1..m}
  <1> DEFINE m == IF n < Len(queue) THEN n ELSE Len(queue)
  <1>1. Len(queue) \in Nat /\ m \in 0..Len(queue) /\ m <= n /\ (m = n \/ m = Len(queue))
    OBVIOUS
  <1>2. waiters' = SubSeq(queue, m + 1, Len(queue)) /\ available' = n - m
        /\ running' = holders \cup {queue[i] : i \in 1..m}
    BY DEF Shift
  <1> HIDE DEF m
  <1>3. waiters' \in Seq(Handlers) /\ Len(waiters') = Len(queue) - m
    BY <1>1, <1>2
  <1>4. \A k \in 1..Len(waiters') : m + k \in 1..Len(queue) /\ waiters'[k] = queue[m + k]
    BY <1>1, <1>2, <1>3
  <1>5. m = Len(queue) => waiters' = <<>>
    BY <1>3
  <1> QED
    BY <1>1, <1>2, <1>3, <1>4, <1>5

\* Whoever shifts n free slots' worth of waiters beside the handlers that hold
\* one keeps the sum of the two, and leaves a slot free only when nobody waits
\* any more.
LEMMA ShiftKeeps ==
  ASSUME NEW n \in Nat, NEW holders \in SUBSET Handlers, NEW queue \in Seq(Handlers),
         NoRepeat(queue), ToSet(queue) \cap holders = {},
         n + Cardinality(holders) = Slots,
         Shift(queue, n, holders)
  PROVE  /\ waiters' \in Seq(Handlers) /\ running' \subseteq Handlers
         /\ available' \in 0..Slots
         /\ Separate' /\ SlotsConserved'
         /\ waiters' # <<>> => available' = 0
  <1>1. PICK m \in 0..Len(queue) :
           /\ m <= n /\ available' = n - m /\ (m = n \/ m = Len(queue))
           /\ waiters' \in Seq(Handlers) /\ Len(waiters') = Len(queue) - m /\ (m = Len(queue) => waiters' = <<>>)
           /\ \A k \in 1..Len(waiters') : m + k \in 1..Len(queue) /\ waiters'[k] = queue[m + k]
           /\ running' = holders \cup {queue[i] : i \in 1..m}
    BY Shifted
  <1> DEFINE taken == {queue[i] : i \in 1..m}
  <1>2. Len(queue) \in Nat /\ DOMAIN queue = 1..Len(queue) /\ \A i \in 1..Len(queue) : queue[i] \in Handlers
    OBVIOUS
  <1>3. IsFiniteSet(taken) /\ Cardinality(taken) = m
    <2> DEFINE R == {<<i, queue[i]>> : i \in 1..m}
    <2>1. IsFiniteSet(1..m) /\ Cardinality(1..m) = m
      BY FS_Interval
    <2>2. Single(1..m, taken, R)
      BY <1>2 DEF Single, NoRepeat
    <2> QED
      BY <2>1, <2>2, AsMany
  <1>4. taken \subseteq ToSet(queue) /\ taken \subseteq Handlers
    BY <1>2 DEF ToSet
  <1>5. IsFiniteSet(holders) /\ Cardinality(holders) \in Nat
    BY HandlerSets
  <1>6. Cardinality(running') = Cardinality(holders) + m
    <2>1. holders \cap taken = {}
      BY <1>4
    <2>2. Cardinality(holders \cap taken) = 0
      BY <2>1, FS_EmptySet
    <2>3. Cardinality(holders \cup taken)
             = Cardinality(holders) + Cardinality(taken) - Cardinality(holders \cap taken)
      BY <1>3, <1>5, FS_Union
    <2> QED
      BY <1>1, <1>3, <1>5, <2>2, <2>3
  <1>7. available' \in 0..Slots /\ available' + Cardinality(running') = Slots
    BY <1>1, <1>5, <1>6
  <1>8. NoRepeat(waiters')
    <2> SUFFICES ASSUME NEW k \in 1..Len(waiters'), NEW l \in 1..Len(waiters'), waiters'[k] = waiters'[l]
                 PROVE  k = l
      BY <1>1 DEF NoRepeat
    <2>1. queue[m + k] = queue[m + l] /\ m + k \in 1..Len(queue) /\ m + l \in 1..Len(queue)
      BY <1>1
    <2>2. m + k = m + l
      BY <1>2, <2>1 DEF NoRepeat
    <2> QED
      BY <2>2
  <1>9. ToSet(waiters') \cap running' = {}
    <2> SUFFICES ASSUME NEW k \in 1..Len(waiters'), waiters'[k] \in running' PROVE FALSE
      BY <1>1 DEF ToSet
    <2>1. waiters'[k] = queue[m + k] /\ m + k \in 1..Len(queue) /\ waiters'[k] \in ToSet(queue)
      BY <1>1, <1>2 DEF ToSet
    <2>2. PICK i \in 1..m : queue[i] = queue[m + k]
      BY <1>1, <2>1
    <2>3. i = m + k
      BY <1>2, <2>1, <2>2 DEF NoRepeat
    <2> QED
      BY <2>3
  <1>10. waiters' # <<>> => available' = 0
    BY <1>1
  <1>11. Separate'
    BY <1>8, <1>9 DEF Separate, Waiting, NoRepeat, ToSet
  <1> HIDE DEF taken
  <1> QED
    BY <1>1, <1>4, <1>7, <1>10, <1>11 DEF SlotsConserved, taken

\* What grantNext keeps.
LEMMA GrantKeeps ==
  ASSUME NEW n \in Nat, NEW holders \in SUBSET Handlers,
         waiters \in Seq(Handlers), NoRepeat(waiters), Waiting \cap holders = {},
         n + Cardinality(holders) = Slots,
         GrantNext(n, holders)
  PROVE  /\ waiters' \in Seq(Handlers) /\ running' \subseteq Handlers
         /\ available' \in 0..Slots
         /\ Separate' /\ SlotsConserved'
         /\ waiters' # <<>> => available' = 0
  <1>1. CASE n > 0
    BY <1>1, SortedIs, ShiftKeeps DEF GrantNext
  <1>2. CASE ~(n > 0)
    BY <1>2, ShiftKeeps DEF GrantNext, Waiting
  <1> QED
    BY <1>1, <1>2

LEMMA GateStep == IInv /\ [Next]_vars => IInv'
  <1> SUFFICES ASSUME IInv, [Next]_vars PROVE IInv'
    OBVIOUS
  <1>1. TypeOK /\ Separate /\ SlotsConserved /\ NoIdleSlot
    BY DEF IInv
  <1>2. ASSUME NEW h \in Handlers, AcquireSlot(h) PROVE IInv'
    <2>1. /\ h \notin Waiting \cup running /\ waiters' = Append(waiters, h) /\ timer'
          /\ available' = available /\ running' = running
      BY <1>2 DEF AcquireSlot
    <2>2. /\ waiters' \in Seq(Handlers) /\ Len(waiters') = Len(waiters) + 1 /\ waiters'[Len(waiters) + 1] = h
          /\ \A k \in 1..Len(waiters) : waiters'[k] = waiters[k] /\ waiters[k] \in Waiting
      BY <1>1, <2>1 DEF TypeOK, Waiting, ToSet
    <2>3. Separate'
      <3>1. NoRepeat(waiters')
        BY <1>1, <2>1, <2>2 DEF TypeOK, Separate, NoRepeat
      <3>2. ToSet(waiters') \cap running' = {}
        BY <1>1, <2>1, <2>2 DEF TypeOK, Separate, ToSet
      <3> QED
        BY <3>1, <3>2 DEF Separate, Waiting, NoRepeat, ToSet
    <2>4. TypeOK' /\ SlotsConserved' /\ NoIdleSlot'
      BY <1>1, <2>1, <2>2 DEF TypeOK, SlotsConserved, NoIdleSlot
    <2> QED
      BY <2>3, <2>4 DEF IInv
  <1>3. CASE TimerFires
    <2>1. available \in Nat /\ running \in SUBSET Handlers /\ waiters \in Seq(Handlers)
      BY <1>1, GateAssumption DEF TypeOK
    <2>2. NoRepeat(waiters) /\ Waiting \cap running = {} /\ available + Cardinality(running) = Slots
      BY <1>1 DEF Separate, SlotsConserved
    <2>3. GrantNext(available, running) /\ timer' = FALSE
      BY <1>3 DEF TimerFires
    <2>4. /\ waiters' \in Seq(Handlers) /\ running' \subseteq Handlers
          /\ available' \in 0..Slots
          /\ Separate' /\ SlotsConserved'
          /\ waiters' # <<>> => available' = 0
      BY <2>1, <2>2, <2>3, GrantKeeps
    <2>5. TypeOK'
      BY <2>3, <2>4 DEF TypeOK
    <2>6. NoIdleSlot'
      BY <2>4, GateAssumption DEF NoIdleSlot
    <2>7. QED
      BY <2>4, <2>5, <2>6 DEF IInv
  <1>4. ASSUME NEW h \in Handlers, ReleaseSlot(h) PROVE IInv'
    <2>1. available + 1 \in Nat /\ running \ {h} \in SUBSET Handlers /\ waiters \in Seq(Handlers)
      BY <1>1, GateAssumption DEF TypeOK
    <2>2. h \in running /\ timer' = timer /\ GrantNext(available + 1, running \ {h})
      BY <1>4 DEF ReleaseSlot
    <2>3. IsFiniteSet(running) /\ Cardinality(running) \in Nat
      BY <1>1, HandlerSets DEF TypeOK
    <2>4. Cardinality(running \ {h}) = Cardinality(running) - 1
      BY <2>2, <2>3, FS_RemoveElement
    <2>5. (available + 1) + Cardinality(running \ {h}) = Slots
      BY <1>1, <2>3, <2>4, GateAssumption DEF TypeOK, SlotsConserved
    <2>6. NoRepeat(waiters) /\ Waiting \cap (running \ {h}) = {}
      BY <1>1 DEF Separate
    <2>7. /\ waiters' \in Seq(Handlers) /\ running' \subseteq Handlers
          /\ available' \in 0..Slots
          /\ Separate' /\ SlotsConserved'
          /\ waiters' # <<>> => available' = 0
      BY <2>1, <2>2, <2>5, <2>6, GrantKeeps
    <2>8. QED
      BY <1>1, <2>2, <2>7 DEF IInv, TypeOK, NoIdleSlot
  <1>5. CASE UNCHANGED vars
    BY <1>1, <1>5 DEF vars, IInv, TypeOK, Separate, SlotsConserved, NoIdleSlot, Waiting
  <1>6. QED
    BY <1>2, <1>3, <1>4, <1>5 DEF Next

LEMMA GateInvariant == Spec => []IInv
  BY GateInit, GateStep, PTL DEF Spec

\* Slots and their waiters stay in their types; availableSlots never leaves
\* 0..AGENT_CONCURRENCY.
THEOREM GateTypeCorrect == Spec => []TypeOK
  <1>1. IInv => TypeOK
    BY DEF IInv
  <1>2. QED
    BY GateInvariant, <1>1, PTL

\* No sequence of deliveries, timer grants and release grants loses a slot or
\* makes one up.
THEOREM SlotsAlwaysConserved == Spec => []SlotsConserved
  <1>1. IInv => SlotsConserved
    BY DEF IInv
  <1>2. QED
    BY GateInvariant, <1>1, PTL

\* No waiter is left beside a free slot without a timer that will serve it.
THEOREM NoSlotIdles == Spec => []NoIdleSlot
  <1>1. IInv => NoIdleSlot
    BY DEF IInv
  <1>2. QED
    BY GateInvariant, <1>1, PTL

\* Whoever comes first among the waiters is served no later, and stays first.
LEMMA SortKeepsOrder ==
  ASSUME waiters \in Seq(Handlers), NoRepeat(waiters),
         NEW i \in DOMAIN waiters, NEW j \in DOMAIN waiters, Precedes(i, j)
  PROVE  \E p, q \in 1..Len(Sorted) : p < q /\ Sorted[p] = waiters[i] /\ Sorted[q] = waiters[j]
  <1>1. Len(waiters) \in Nat /\ DOMAIN waiters = 1..Len(waiters)
    OBVIOUS
  <1>2. /\ Weights \in [1..Len(waiters) -> Int]
        /\ Weights[i] = -Rank(waiters[i]) /\ Weights[j] = -Rank(waiters[j])
    BY <1>1, WeightsAre
  <1>3. Rank(waiters[i]) \in Int /\ Rank(waiters[j]) \in Int
    BY <1>1, RankIs
  <1>4. Ahead(Weights, i, j)
    BY <1>2, <1>3 DEF Ahead, Precedes
  <1>5. Len(Sorted) = Len(waiters) /\ \E pi : Ordering(pi, Sorted, waiters, Weights)
    BY <1>2, RankedIs DEF Sorted, Weights
  <1>6. PICK pi : Ordering(pi, Sorted, waiters, Weights)
    BY <1>5
  <1>7. \E p, q \in 1..Len(waiters) : pi[p] = i /\ pi[q] = j
    <2>1. \A h \in 1..Len(waiters) : \E p \in 1..Len(waiters) : pi[p] = h
      BY <1>6 DEF Ordering
    <2> QED
      BY <1>1, <2>1
  <1>8. PICK p \in 1..Len(waiters), q \in 1..Len(waiters) : pi[p] = i /\ pi[q] = j
    BY <1>7
  <1>9. Sorted[p] = waiters[i] /\ Sorted[q] = waiters[j]
    BY <1>6, <1>8 DEF Ordering
  <1>10. p < q
    <2>1. q < p => Ahead(Weights, j, i)
      BY <1>6, <1>8 DEF Ordering
    <2>2. p = q => i = j
      BY <1>8
    <2>3. i \in Int /\ j \in Int /\ Weights[i] \in Int /\ Weights[j] \in Int
      BY <1>1, <1>2, <1>3
    <2>4. ~(q < p) /\ p # q
      BY <1>4, <2>1, <2>2, <2>3 DEF Ahead
    <2> QED
      BY <1>1, <2>4
  <1> QED
    BY <1>5, <1>9, <1>10

Ordered(i, j) ==
  Precedes(i, j) =>
    /\ waiters[j] \in running' => waiters[i] \in running'
    /\ \A k, l \in DOMAIN waiters' :
          waiters'[k] = waiters[i] /\ waiters'[l] = waiters[j] => Precedes(k, l)'

\* Of two waiters at p < q of the list that is shifted, the first is shifted first.
LEMMA ShiftKeepsOrder ==
  ASSUME NEW queue \in Seq(Handlers), NoRepeat(queue), NEW n \in Nat, NEW holders,
         ToSet(queue) \cap holders = {}, Shift(queue, n, holders),
         NEW p \in 1..Len(queue), NEW q \in 1..Len(queue), p < q
  PROVE  /\ queue[q] \in running' => queue[p] \in running'
         /\ \A k, l \in DOMAIN waiters' : waiters'[k] = queue[p] /\ waiters'[l] = queue[q] => k < l
  <1>1. PICK m \in 0..Len(queue) :
           /\ waiters' \in Seq(Handlers)
           /\ \A k \in 1..Len(waiters') : m + k \in 1..Len(queue) /\ waiters'[k] = queue[m + k]
           /\ running' = holders \cup {queue[i] : i \in 1..m}
    BY Shifted
  <1>2. Len(queue) \in Nat /\ DOMAIN queue = 1..Len(queue) /\ DOMAIN waiters' = 1..Len(waiters') /\ Len(waiters') \in Nat
    BY <1>1
  <1>3. ASSUME queue[q] \in running' PROVE queue[p] \in running'
    <2>1. queue[q] \in ToSet(queue)
      BY <1>2 DEF ToSet
    <2>2. PICK i \in 1..m : queue[i] = queue[q]
      BY <1>1, <1>3, <2>1
    <2>3. i = q
      BY <1>2, <2>2 DEF NoRepeat
    <2>4. p \in 1..m
      BY <2>3
    <2> QED
      BY <1>1, <2>4
  <1>4. ASSUME NEW k \in DOMAIN waiters', NEW l \in DOMAIN waiters', waiters'[k] = queue[p], waiters'[l] = queue[q]
        PROVE  k < l
    <2>1. m + k \in 1..Len(queue) /\ m + l \in 1..Len(queue) /\ queue[m + k] = queue[p] /\ queue[m + l] = queue[q]
      BY <1>1, <1>2, <1>4
    <2>2. m + k = p /\ m + l = q
      BY <1>2, <2>1 DEF NoRepeat
    <2> QED
      BY <1>2, <2>2
  <1> QED
    BY <1>3, <1>4

LEMMA GrantKeepsOrder ==
  ASSUME waiters \in Seq(Handlers), NoRepeat(waiters), NEW n \in Nat, NEW holders,
         Waiting \cap holders = {}, GrantNext(n, holders), waiters' \in Seq(Handlers),
         NEW i \in DOMAIN waiters, NEW j \in DOMAIN waiters
  PROVE  Ordered(i, j)
  <1> SUFFICES ASSUME Precedes(i, j)
               PROVE  /\ waiters[j] \in running' => waiters[i] \in running'
                      /\ \A k, l \in DOMAIN waiters' :
                            waiters'[k] = waiters[i] /\ waiters'[l] = waiters[j] => Precedes(k, l)'
    BY DEF Ordered
  <1>1. Rank(waiters[i]) <= Rank(waiters[j]) /\ Rank(waiters[i]) \in Int /\ Rank(waiters[j]) \in Int
    <2>1. waiters[i] \in Handlers /\ waiters[j] \in Handlers
      OBVIOUS
    <2> QED
      BY <2>1, RankIs DEF Precedes
  <1>2. /\ waiters[j] \in running' => waiters[i] \in running'
        /\ \A k, l \in DOMAIN waiters' :
              waiters'[k] = waiters[i] /\ waiters'[l] = waiters[j] =>
                 k < l \/ Rank(waiters[i]) < Rank(waiters[j])
    <2>1. CASE n > 0
      <3>1. Sorted \in Seq(Handlers) /\ NoRepeat(Sorted) /\ ToSet(Sorted) = Waiting /\ Shift(Sorted, n, holders)
        BY <2>1, SortedIs DEF GrantNext
      <3>2. PICK p \in 1..Len(Sorted), q \in 1..Len(Sorted) :
               p < q /\ Sorted[p] = waiters[i] /\ Sorted[q] = waiters[j]
        BY SortKeepsOrder
      <3>3. ToSet(Sorted) \cap holders = {}
        BY <3>1
      <3> HIDE DEF Sorted
      <3> QED
        BY <3>1, <3>2, <3>3, ShiftKeepsOrder
    <2>2. CASE ~(n > 0)
      <3>1. Shift(waiters, n, holders) /\ n = 0
        BY <2>2 DEF GrantNext
      <3>2. waiters' = waiters /\ running' = holders
        <4>1. PICK m \in 0..Len(waiters) :
                 /\ m <= n /\ waiters' \in Seq(Handlers) /\ Len(waiters') = Len(waiters) - m
                 /\ \A k \in 1..Len(waiters') : m + k \in 1..Len(waiters) /\ waiters'[k] = waiters[m + k]
                 /\ running' = holders \cup {waiters[k] : k \in 1..m}
          BY <3>1, Shifted
        <4>2. m = 0 /\ Len(waiters') = Len(waiters) /\ \A k \in 1..Len(waiters) : waiters'[k] = waiters[k]
          BY <3>1, <4>1
        <4> QED
          BY <4>1, <4>2
      <3>3. waiters[j] \in Waiting
        BY DEF Waiting, ToSet
      <3>4. ASSUME NEW k \in DOMAIN waiters', NEW l \in DOMAIN waiters', waiters'[k] = waiters[i], waiters'[l] = waiters[j]
            PROVE  k = i /\ l = j
        BY <3>2, <3>4 DEF NoRepeat
      <3>5. i < j \/ Rank(waiters[i]) < Rank(waiters[j])
        BY DEF Precedes
      <3> QED
        BY <3>2, <3>3, <3>4, <3>5
    <2> QED
      BY <2>1, <2>2
  <1>3. ASSUME NEW k \in DOMAIN waiters', NEW l \in DOMAIN waiters', waiters'[k] = waiters[i], waiters'[l] = waiters[j]
        PROVE  Precedes(k, l)'
    <2>1. k < l \/ Rank(waiters[i]) < Rank(waiters[j])
      BY <1>2, <1>3
    <2>2. Rank(waiters[i]) < Rank(waiters[j]) \/ (Rank(waiters[i]) = Rank(waiters[j]) /\ k < l)
      BY <1>1, <2>1
    <2> QED
      BY <1>3, <2>2 DEF Precedes, Rank
  <1> QED
    BY <1>2, <1>3

\* No step, neither of the timer nor of a release nor an arrival, lets a handler
\* overtake one that is earlier in ORDER, or of its type and delivered before it.
THEOREM NobodyOvertakes == Spec => GrantsInOrder
  <1> DEFINE InOrder == \A i, j \in DOMAIN waiters : Ordered(i, j)
  <1>1. IInv /\ IInv' /\ [Next]_vars => [InOrder]_vars
    <2> SUFFICES ASSUME IInv, IInv', Next, NEW i \in DOMAIN waiters, NEW j \in DOMAIN waiters
                 PROVE  Ordered(i, j)
      OBVIOUS
    <2>1. /\ waiters \in Seq(Handlers) /\ waiters' \in Seq(Handlers)
          /\ NoRepeat(waiters) /\ Waiting \cap running = {} /\ available \in Nat
          /\ \A h : Waiting \cap (running \ {h}) = {}
      BY GateAssumption DEF IInv, TypeOK, Separate
    <2>2. CASE TimerFires
      BY <2>1, <2>2, GrantKeepsOrder DEF TimerFires
    <2>3. ASSUME NEW h \in Handlers, AcquireSlot(h) PROVE Ordered(i, j)
      <3>1. h \notin Waiting /\ waiters' = Append(waiters, h) /\ running' = running
        BY <2>3 DEF AcquireSlot
      <3>2. waiters[i] \in Waiting /\ waiters[j] \in Waiting
        BY DEF Waiting, ToSet
      <3>3. ASSUME NEW k \in DOMAIN waiters', waiters'[k] \in Waiting PROVE k \in DOMAIN waiters /\ waiters[k] = waiters'[k]
        BY <2>1, <3>1, <3>3
      <3>4. ASSUME NEW k \in DOMAIN waiters', NEW l \in DOMAIN waiters', waiters'[k] = waiters[i], waiters'[l] = waiters[j]
            PROVE  k = i /\ l = j
        BY <2>1, <3>2, <3>3, <3>4 DEF NoRepeat
      <3>5. Precedes(i, j) => \A k, l \in DOMAIN waiters' :
               waiters'[k] = waiters[i] /\ waiters'[l] = waiters[j] => Precedes(k, l)'
        BY <3>4 DEF Precedes, Rank
      <3> QED
        BY <2>1, <3>1, <3>2, <3>5 DEF Ordered
    <2>4. ASSUME NEW h \in Handlers, ReleaseSlot(h) PROVE Ordered(i, j)
      <3>1. available + 1 \in Nat /\ GrantNext(available + 1, running \ {h})
        BY <2>1, <2>4 DEF ReleaseSlot
      <3> QED
        BY <2>1, <3>1, GrantKeepsOrder
    <2> QED
      BY <2>2, <2>3, <2>4 DEF Next
  <1> HIDE DEF InOrder
  <1>2. Spec => [][InOrder]_vars
    BY <1>1, GateInvariant, PTL DEF Spec
  <1> QED
    BY <1>2, PTL DEF GrantsInOrder, InOrder, Ordered

(***************************************************************************)
(* The evidence loop                                                       *)
(***************************************************************************)
Going == {"start", "fence", "call", "tools"}

\* The budget of an agent in its loop is overdrawn by one call at most, so that
\* the emit which then is forced may cost another.
Thrifty(l) ==
    ~l.refused =>
        /\ l.spent < AgentBudget - Reserve + 2 * MaxCost
        /\ l.pc \in Going => l.spent < AgentBudget - Reserve + MaxCost

\* A success is behind the loop, and was forced or deep.
Deep(l) == l.end = "success" => l.pc \notin Going /\ (l.truncated \/ l.turn >= MinEvidence)

\* Whoever has been called since the force-stop meets the fence before the next call.
Punctual(l) == l.late <= 1 /\ (l.late # 0 => stopped /\ l.pc \in {"fence", "tools", "bill", "over"})

Fit(l) == l \in Loop /\ l.turn <= MaxTurns + l.repairs /\ Thrifty(l) /\ Deep(l) /\ Punctual(l)

LoopInv ==
    /\ jobTokens \in Nat /\ stopped \in BOOLEAN
    /\ DOMAIN loop = Runners /\ loop = [a \in Runners |-> loop[a]]
    /\ \A a \in Runners : Fit(loop[a])

LEMMA Limits ==
    /\ MaxTurns \in Nat /\ MaxTurns >= 1 /\ AgentBudget \in Nat /\ Reserve \in Nat /\ Reserve < AgentBudget
    /\ JobBudget \in Nat /\ MaxCost \in Nat /\ MaxCost >= 1 /\ MinEvidence \in Int
  BY LoopAssumption DEF MinEvidence

LEMMA LoopStarts == LoopInit => LoopInv
  <1> SUFFICES ASSUME LoopInit PROVE LoopInv
    OBVIOUS
  <1>1. ASSUME NEW a \in Runners PROVE Fit(loop[a])
    <2>1. loop[a] = [pc |-> "start", turn |-> 0, repairs |-> 0, spent |-> 0, end |-> "none",
                     truncated |-> FALSE, refused |-> FALSE, late |-> 0]
      BY DEF LoopInit
    <2>2. loop[a] \in Loop
      BY <2>1 DEF Loop, LoopPCs, Ends
    <2> QED
      BY <2>1, <2>2, Limits DEF Fit, Thrifty, Deep, Punctual
  <1> QED
    BY <1>1 DEF LoopInit, LoopInv

\* A step of one agent that leaves it fit keeps the invariant.
LEMMA OneAgent ==
  ASSUME LoopInv, NEW a \in Runners, NEW l, Fit(l), SetLoop(a, l),
         jobTokens' \in Nat, stopped' = stopped
  PROVE  LoopInv'
  <1>1. /\ DOMAIN loop' = Runners /\ loop' = [b \in Runners |-> loop'[b]]
        /\ \A b \in Runners : loop'[b] = IF b = a THEN l ELSE loop[b]
    BY DEF LoopInv, SetLoop
  <1>2. \A b \in Runners : Fit(loop'[b])
    BY <1>1 DEF LoopInv
  <1>4. \A b \in Runners : Fit(loop[b])'
    BY <1>2 DEF Fit, Thrifty, Deep, Punctual
  <1>5. stopped' \in BOOLEAN
    BY DEF LoopInv
  <1> QED
    BY <1>1, <1>4, <1>5 DEF LoopInv

\* The head of the for loop: the next turn, or the turns are used up.
LEMMA NextTurnFits ==
  ASSUME NEW l \in Loop, l.turn <= MaxTurns + l.repairs, l.end # "success",
         ~l.refused => l.spent < AgentBudget - Reserve + MaxCost,
         l.late <= 1, l.late # 0 => stopped
  PROVE  Fit(NextTurn(l))
  <1>1. CASE l.turn < MaxTurns + l.repairs
    <2>1. NextTurn(l) = [l EXCEPT !.turn = l.turn + 1, !.pc = "fence"]
      BY <1>1 DEF NextTurn
    <2>2. l.turn + 1 \in Nat /\ l.turn + 1 <= MaxTurns + l.repairs
      BY <1>1, Limits DEF Loop
    <2>3. NextTurn(l) \in Loop
      BY <2>1, <2>2 DEF Loop, LoopPCs
    <2> QED
      BY <2>1, <2>2, <2>3, Limits DEF Fit, Thrifty, Deep, Punctual, Loop
  <1>2. CASE ~(l.turn < MaxTurns + l.repairs)
    <2>1. NextTurn(l) = [l EXCEPT !.pc = "over", !.end = "failure"]
      BY <1>2 DEF NextTurn, Over
    <2>2. NextTurn(l) \in Loop
      BY <2>1 DEF Loop, LoopPCs, Ends
    <2> QED
      BY <2>1, <2>2, Limits DEF Fit, Thrifty, Deep, Punctual, Loop, Going
  <1> QED
    BY <1>1, <1>2

\* An agent that ends without a result.
LEMMA OverFits ==
  ASSUME NEW l \in Loop, NEW end \in Ends, end # "success", l.turn <= MaxTurns + l.repairs,
         ~l.refused => l.spent < AgentBudget - Reserve + 2 * MaxCost,
         l.late <= 1, l.late # 0 => stopped
  PROVE  Fit(Over(l, end))
  <1>1. Over(l, end) = [l EXCEPT !.pc = "over", !.end = end]
    BY DEF Over
  <1>2. Over(l, end) \in Loop
    BY <1>1 DEF Loop, LoopPCs
  <1> QED
    BY <1>1, <1>2, Limits DEF Fit, Thrifty, Deep, Punctual, Loop, Going

\* What every agent in its loop may be assumed to be.
LEMMA InLoop ==
  ASSUME LoopInv, NEW a \in Runners, loop[a].pc \in Going
  PROVE  /\ loop[a] \in Loop /\ loop[a].turn <= MaxTurns + loop[a].repairs /\ loop[a].end # "success"
         /\ ~loop[a].refused => loop[a].spent < AgentBudget - Reserve + MaxCost
         /\ loop[a].late <= 1 /\ (loop[a].late # 0 => stopped)
         /\ loop[a].pc \in {"start", "call"} => loop[a].late = 0
  BY DEF LoopInv, Fit, Thrifty, Deep, Punctual, Going, Loop

\* The call: what has been spent, whether it is late, whether it was forced in vain.
LEMMA CalledFits ==
  ASSUME LoopInv, NEW a \in Runners, loop[a].pc = "call", NEW c \in 1..MaxCost, NEW ans \in Answer
  PROVE  LET l == Called(a, c, ans) IN
         /\ l \in Loop /\ l.pc = "call" /\ l.turn = loop[a].turn /\ l.repairs = loop[a].repairs
         /\ l.end = loop[a].end /\ l.turn <= MaxTurns + l.repairs /\ l.end # "success"
         /\ l.spent = loop[a].spent + c /\ l.late <= 1 /\ (l.late # 0 => stopped)
         /\ ~l.refused => l.spent < AgentBudget - Reserve + 2 * MaxCost
         /\ ~l.refused => ~MustFinish(a) \/ ans \in EmitOnly
         /\ Remaining(a) > Reserve => l.spent < AgentBudget - Reserve + MaxCost
  <1> DEFINE l == Called(a, c, ans)
             refused == loop[a].refused \/ (MustFinish(a) /\ ans \notin EmitOnly)
             late == IF stopped THEN loop[a].late + 1 ELSE loop[a].late
  <1>1. /\ loop[a] \in Loop /\ loop[a].turn <= MaxTurns + loop[a].repairs /\ loop[a].end # "success"
        /\ ~loop[a].refused => loop[a].spent < AgentBudget - Reserve + MaxCost
        /\ loop[a].late = 0
    BY InLoop DEF Going
  <1>2. l = [loop[a] EXCEPT !.spent = loop[a].spent + c, !.refused = refused, !.late = late]
    BY <1>1 DEF Called, Loop
  <1>3. refused \in BOOLEAN
    BY DEF MustFinish
  <1>4. loop[a].spent + c \in Nat /\ late \in Nat /\ late <= 1 /\ (late # 0 => stopped)
    BY <1>1, Limits DEF Loop, LoopInv
  <1> HIDE DEF refused, late
  <1>5. l \in Loop
    <2> DEFINE counted == [loop[a] EXCEPT !.spent = loop[a].spent + c, !.late = late]
    <2>1. counted \in Loop
      BY <1>1, <1>4 DEF Loop
    <2>2. l = [counted EXCEPT !.refused = refused]
      BY <1>1, <1>2 DEF Loop
    <2> HIDE DEF counted
    <2> QED
      BY <1>3, <2>1, <2>2 DEF Loop
  <1>6. /\ l.pc = "call" /\ l.turn = loop[a].turn /\ l.repairs = loop[a].repairs /\ l.end = loop[a].end
        /\ l.spent = loop[a].spent + c /\ l.late = late /\ l.refused = refused
    BY <1>1, <1>2 DEF Loop
  <1>7. ~refused => ~loop[a].refused /\ (~MustFinish(a) \/ ans \in EmitOnly)
    BY DEF refused
  <1>8. Remaining(a) > Reserve => loop[a].spent < AgentBudget - Reserve
    BY <1>1, Limits DEF Remaining, Loop
  <1> QED
    BY <1>1, <1>4, <1>5, <1>6, <1>7, <1>8, Limits DEF Loop

LEMMA ConverseKeeps ==
  ASSUME LoopInv, NEW a \in Runners, Converse(a)
  PROVE  LoopInv'
  <1>1. PICK c \in 1..MaxCost, ans \in Answer :
           \/ AnswerProse(a, c, ans) \/ RepairEmit(a, c, ans) \/ PushBackEmit(a, c, ans)
           \/ AcceptEmit(a, c, ans) \/ RequestTools(a, c, ans)
    BY DEF Converse
  <1>2. loop[a].pc = "call" /\ jobTokens' = jobTokens /\ stopped' = stopped /\ jobTokens' \in Nat
    BY DEF Converse, LoopInv
  <1> DEFINE l == Called(a, c, ans)
  <1>3. /\ l \in Loop /\ l.pc = "call" /\ l.turn = loop[a].turn /\ l.repairs = loop[a].repairs
        /\ l.end = loop[a].end /\ l.turn <= MaxTurns + l.repairs /\ l.end # "success"
        /\ l.spent = loop[a].spent + c /\ l.late <= 1 /\ (l.late # 0 => stopped)
        /\ ~l.refused => l.spent < AgentBudget - Reserve + 2 * MaxCost
        /\ ~l.refused => ~MustFinish(a) \/ ans \in EmitOnly
        /\ Remaining(a) > Reserve => l.spent < AgentBudget - Reserve + MaxCost
    BY <1>2, CalledFits
  <1> HIDE DEF l
  \* An answer that is not accepted: the budget was not used up before the call.
  <1>4. ASSUME ans \notin EmitOnly \/ Remaining(a) > Reserve
        PROVE  ~l.refused => l.spent < AgentBudget - Reserve + MaxCost
    <2>1. ~MustFinish(a) => Remaining(a) > Reserve
      BY Limits DEF MustFinish, Remaining, LoopInv, Fit, Loop
    <2> QED
      BY <1>3, <1>4, <2>1
  <1>5. CASE AnswerProse(a, c, ans)
    <2>1. SetLoop(a, NextTurn(l)) /\ ans \notin EmitOnly
      BY <1>5 DEF AnswerProse, EmitOnly, l
    <2>2. Fit(NextTurn(l))
      BY <1>3, <1>4, <2>1, NextTurnFits
    <2> QED
      BY <1>2, <2>1, <2>2, OneAgent
  <1>6. CASE RepairEmit(a, c, ans)
    <2> DEFINE r == [l EXCEPT !.repairs = 1]
    <2>1. SetLoop(a, NextTurn(r)) /\ Remaining(a) > Reserve /\ loop[a].repairs = 0
      BY <1>6 DEF RepairEmit, CanRepair, l
    <2>2. r \in Loop /\ r.repairs = 1 /\ r.turn = l.turn /\ r.end = l.end /\ r.spent = l.spent
          /\ r.late = l.late /\ r.refused = l.refused
      BY <1>3 DEF Loop
    <2>3. r.turn <= MaxTurns + r.repairs
      BY <1>3, <2>1, <2>2, Limits DEF Loop
    <2>4. Fit(NextTurn(r))
      BY <1>3, <1>4, <2>1, <2>2, <2>3, NextTurnFits
    <2> QED
      BY <1>2, <2>1, <2>4, OneAgent
  <1>7. CASE PushBackEmit(a, c, ans)
    <2>1. SetLoop(a, NextTurn(l)) /\ Remaining(a) > Reserve
      BY <1>7 DEF PushBackEmit, TooEarly, l
    <2>2. Fit(NextTurn(l))
      BY <1>3, <1>4, <2>1, NextTurnFits
    <2> QED
      BY <1>2, <2>1, <2>2, OneAgent
  <1>8. CASE AcceptEmit(a, c, ans)
    <2>1. CASE ans.emit = "valid"
      <3> DEFINE s == [l EXCEPT !.pc = "bill", !.end = "success", !.truncated = MustFinish(a)]
      <3>1. SetLoop(a, s)
        BY <1>8, <2>1 DEF AcceptEmit, l
      <3>2. MustFinish(a) \in BOOLEAN
        BY DEF MustFinish
      <3>3. s \in Loop
        BY <1>3, <3>2 DEF Loop, LoopPCs, Ends
      <3>4. /\ s.pc = "bill" /\ s.end = "success" /\ s.truncated = MustFinish(a) /\ s.turn = l.turn
            /\ s.repairs = l.repairs /\ s.spent = l.spent /\ s.late = l.late /\ s.refused = l.refused
        BY <1>3 DEF Loop
      <3>5. MustFinish(a) \/ loop[a].turn >= MinEvidence
        <4>1. MustFinish(a) \/ Remaining(a) > Reserve
          BY Limits DEF MustFinish, Remaining, LoopInv, Fit, Loop
        <4>2. ~TooEarly(a) /\ loop[a].turn \in Nat
          BY <1>8 DEF AcceptEmit, LoopInv, Fit, Loop
        <4> QED
          BY <4>1, <4>2, Limits DEF TooEarly
      <3> HIDE DEF s
      <3>6. Fit(s)
        BY <1>3, <3>3, <3>4, <3>5 DEF Fit, Thrifty, Deep, Punctual, Going
      <3> QED
        BY <1>2, <3>1, <3>6, OneAgent
    <2>2. CASE ans.emit # "valid"
      <3>1. SetLoop(a, Over(l, "failure"))
        BY <1>8, <2>2 DEF AcceptEmit, l
      <3>2. Fit(Over(l, "failure"))
        BY <1>3, OverFits DEF Ends
      <3> QED
        BY <1>2, <3>1, <3>2, OneAgent
    <2> QED
      BY <2>1, <2>2
  <1>9. CASE RequestTools(a, c, ans)
    <2> DEFINE s == [l EXCEPT !.pc = "tools"]
    <2>1. SetLoop(a, s) /\ ans \notin EmitOnly
      BY <1>9 DEF RequestTools, EmitOnly, l
    <2>2. /\ s \in Loop /\ s.pc = "tools" /\ s.turn = l.turn /\ s.end = l.end /\ s.repairs = l.repairs
          /\ s.spent = l.spent /\ s.late = l.late /\ s.refused = l.refused
      BY <1>3 DEF Loop, LoopPCs
    <2>3. ~l.refused => l.spent < AgentBudget - Reserve + MaxCost
      BY <1>4, <2>1
    <2> HIDE DEF s
    <2>4. Fit(s)
      BY <1>3, <2>2, <2>3 DEF Fit, Thrifty, Deep, Punctual, Going
    <2> QED
      BY <1>2, <2>1, <2>4, OneAgent
  <1> QED
    BY <1>1, <1>5, <1>6, <1>7, <1>8, <1>9

LEMMA OtherStepsKeep ==
  ASSUME LoopInv, NEW a \in Runners,
         Begin(a) \/ CheckAliveOfTurn(a) \/ RunTools(a) \/ BillAgent(a) \/ LoopThrows(a)
  PROVE  LoopInv'
  <1>0. loop[a] \in Loop /\ Fit(loop[a]) /\ jobTokens \in Nat
    BY DEF LoopInv, Fit
  <1>1. CASE Begin(a) \/ RunTools(a)
    <2>1. /\ loop[a].pc \in Going /\ stopped' = stopped /\ jobTokens' = jobTokens
          /\ SetLoop(a, NextTurn(loop[a])) \/ SetLoop(a, Over(loop[a], "skipped"))
      BY <1>1 DEF Begin, RunTools, Going
    <2>2. Fit(NextTurn(loop[a]))
      BY <2>1, InLoop, NextTurnFits
    <2>3. Fit(Over(loop[a], "skipped"))
      BY <1>0, <2>1, InLoop, OverFits DEF Ends, Fit, Thrifty
    <2> QED
      BY <1>0, <2>1, <2>2, <2>3, OneAgent
  <1>2. CASE CheckAliveOfTurn(a) /\ stopped
    <2>1. SetLoop(a, Over(loop[a], "fenced")) /\ stopped' = stopped /\ jobTokens' = jobTokens /\ loop[a].pc \in Going
      BY <1>2 DEF CheckAliveOfTurn, Going
    <2>2. Fit(Over(loop[a], "fenced"))
      BY <1>0, <2>1, InLoop, OverFits DEF Ends, Fit, Thrifty
    <2> QED
      BY <1>0, <2>1, <2>2, OneAgent
  <1>3. CASE CheckAliveOfTurn(a) /\ ~stopped
    <2> DEFINE s == [loop[a] EXCEPT !.pc = "call"]
    <2>1. SetLoop(a, s) /\ stopped' = stopped /\ jobTokens' = jobTokens /\ loop[a].pc \in Going
      BY <1>3 DEF CheckAliveOfTurn, Going
    <2>2. /\ s \in Loop /\ s.pc = "call" /\ s.turn = loop[a].turn /\ s.end = loop[a].end
          /\ s.repairs = loop[a].repairs /\ s.spent = loop[a].spent /\ s.late = loop[a].late
          /\ s.refused = loop[a].refused
      BY <1>0 DEF Loop, LoopPCs
    <2> HIDE DEF s
    <2>3. Fit(s)
      BY <1>0, <1>3, <2>1, <2>2 DEF Fit, Thrifty, Deep, Punctual
    <2> QED
      BY <1>0, <2>1, <2>3, OneAgent
  <1>4. CASE LoopThrows(a)
    <2>1. SetLoop(a, Over(loop[a], "failure")) /\ stopped' = stopped /\ jobTokens' = jobTokens /\ loop[a].pc \in Going
      BY <1>4 DEF LoopThrows, Going
    <2>2. Fit(Over(loop[a], "failure"))
      BY <1>0, <2>1, InLoop, OverFits DEF Ends, Fit, Thrifty
    <2> QED
      BY <1>0, <2>1, <2>2, OneAgent
  <1>5. CASE BillAgent(a)
    <2> DEFINE s == [loop[a] EXCEPT !.pc = "over"]
    <2>1. SetLoop(a, s) /\ stopped' = stopped /\ jobTokens' = jobTokens + loop[a].spent /\ loop[a].pc = "bill"
      BY <1>5 DEF BillAgent
    <2>2. /\ s \in Loop /\ s.pc = "over" /\ s.turn = loop[a].turn /\ s.end = loop[a].end
          /\ s.repairs = loop[a].repairs /\ s.spent = loop[a].spent /\ s.late = loop[a].late
          /\ s.refused = loop[a].refused /\ s.truncated = loop[a].truncated
      BY <1>0 DEF Loop, LoopPCs
    <2>3. jobTokens' \in Nat
      BY <1>0, <2>1 DEF Loop
    <2> HIDE DEF s
    <2>4. Fit(s)
      BY <1>0, <2>1, <2>2 DEF Fit, Thrifty, Deep, Punctual, Going
    <2> QED
      BY <2>1, <2>3, <2>4, OneAgent
  <1> QED
    BY <1>1, <1>2, <1>3, <1>4, <1>5

\* The invariant above holds in every state of the loops.
THEOREM LoopInvariant == LoopSpec => []LoopInv
  <1>1. LoopInv /\ [LoopNext]_loopVars => LoopInv'
    <2> SUFFICES ASSUME LoopInv, [LoopNext]_loopVars PROVE LoopInv'
      OBVIOUS
    <2>1. CASE ForceStop
      <3>1. stopped' = TRUE /\ jobTokens' = 0 /\ loop' = loop
        BY <2>1 DEF ForceStop
      <3>2. \A a \in Runners : Fit(loop[a])'
        BY <3>1 DEF LoopInv, Fit, Thrifty, Deep, Punctual
      <3> QED
        BY <3>1, <3>2 DEF LoopInv
    <2>2. CASE UNCHANGED loopVars
      BY <2>2 DEF loopVars, LoopInv, Fit, Thrifty, Deep, Punctual
    <2> QED
      BY <2>1, <2>2, ConverseKeeps, OtherStepsKeep DEF LoopNext, LoopStep
  <1> QED
    BY LoopStarts, <1>1, PTL DEF LoopSpec

\* However rejected, repaired, turned-down and forced emits of BaseAgent.run mix:
\* turns are bounded with one more for a repair; an agent whose model heeds
\* tool_choice spends less than its budget less the reserve plus two calls; and an
\* answer not marked as truncated is deep.  For every choice of the limits.
THEOREM LoopsBounded == LoopSpec => []LoopBounded
  <1>1. LoopInv => LoopBounded
    <2> SUFFICES ASSUME LoopInv, NEW a \in Runners
                 PROVE  /\ ~loop[a].refused => loop[a].spent < AgentBudget - Reserve + 2 * MaxCost
                        /\ loop[a].turn <= MaxTurns + 1
                        /\ loop[a].end = "success" /\ ~loop[a].truncated => loop[a].turn >= MinEvidence
      BY DEF LoopBounded, AgentSpendBounded, TurnsBounded, UntruncatedIsDeep
    <2> QED
      BY Limits DEF LoopInv, Fit, Thrifty, Deep, Loop
  <1> QED
    BY LoopInvariant, <1>1, PTL

\* A force-stop costs each of the agents that run at most the call it is waiting
\* for: checkAlive stands between any two calls.
THEOREM StopIsCheap == LoopSpec => []StopCostsOneCall
  <1>1. LoopInv => StopCostsOneCall
    BY DEF LoopInv, Fit, Punctual, StopCostsOneCall
  <1> QED
    BY LoopInvariant, <1>1, PTL
===========================================================================
