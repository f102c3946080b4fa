------------------------------ MODULE SlotGate ------------------------------
(***************************************************************************)
(* The execution slots of the agent-worker: AgentConsumer.acquireSlot,     *)
(* grantNext and releaseSlot.  The five queues deliver independently; a    *)
(* handler that wants a slot waits in slotWaiters, and slots are granted   *)
(* in the order of the pipeline, not of arrival.  Each of the three runs   *)
(* to its end without an await, so each is one step.                       *)
(*                                                                         *)
(* A handler stands for the message of one agent type of one job.         *)
(***************************************************************************)
EXTENDS Lists, FiniteSets

CONSTANTS Jobs, AgentTypes, Slots

ORDER == <<"architecture", "security", "dependency", "quality", "docs">>

ASSUME GateAssumption ==
    /\ Slots \in Nat \ {0}
    /\ IsFiniteSet(Jobs) /\ IsFiniteSet(AgentTypes)
    /\ AgentTypes \subseteq {ORDER[i] : i \in 1..5}

VARIABLES
    waiters,        \* slotWaiters, in the order of their arrival until they are sorted
    available,      \* availableSlots
    timer,          \* grantTimer is armed
    running         \* the handlers that hold a slot

vars == <<waiters, available, timer, running>>

Handlers == Jobs \X AgentTypes
IndexOf == [a \in AgentTypes |-> CHOOSE i \in 1..5 : ORDER[i] = a]     \* ORDER.indexOf
Rank(h) == IndexOf[h[2]]
Waiting == ToSet(waiters)

TypeOK ==
    /\ waiters \in Seq(Handlers)
    /\ available \in 0..Slots
    /\ timer \in BOOLEAN
    /\ running \subseteq Handlers

Init == waiters = <<>> /\ available = Slots /\ timer = FALSE /\ running = {}

\* slotWaiters.sort by the place of the type in ORDER; Array.sort is stable.
Sorted == Ranked(waiters, [i \in DOMAIN waiters |-> -Rank(waiters[i])])

\* The loop shifts as many waiters as there are free slots, or all of them.
Shift(queue, n, holders) ==
    LET taken == IF n < Len(queue) THEN n ELSE Len(queue) IN
    /\ waiters' = SubSeq(queue, taken + 1, Len(queue))
    /\ available' = n - taken
    /\ running' = holders \cup {queue[i] : i \in 1..taken}

\* Mutant: the waiters are shifted without being sorted.
GrantUnsorted(n, holders) == Shift(waiters, n, holders)

\* grantNext with n free slots, for the handlers that hold one already.  What
\* is left after a shift is sorted, so one sort stands for that of every round.
GrantNext(n, holders) == Shift(IF n > 0 THEN Sorted ELSE waiters, n, holders)

\* A message is delivered: wait, and start the collection window if none is open.
AcquireSlot(h) ==
    /\ h \notin Waiting \cup running
    /\ waiters' = Append(waiters, h)
    /\ timer' = TRUE
    /\ UNCHANGED <<available, running>>

\* Mutant: the window opens again instead of closing.
TimerRearms == timer /\ UNCHANGED vars

\* SLOT_COLLECT_MS after it was armed.
TimerFires ==
    /\ timer
    /\ timer' = FALSE
    /\ GrantNext(available, running)

\* Mutants: the slot is given back twice; never; or without a look at the waiters.
ReleaseTwice(h) ==
    /\ h \in running
    /\ GrantNext(available + 2, running \ {h})
    /\ UNCHANGED timer

ReleaseNothing(h) ==
    /\ h \in running
    /\ GrantNext(available, running \ {h})
    /\ UNCHANGED timer

ReleaseWithoutGrant(h) ==
    /\ h \in running
    /\ running' = running \ {h}
    /\ available' = available + 1
    /\ UNCHANGED <<waiters, timer>>

\* The finally block of the handler, however it ended.
ReleaseSlot(h) ==
    /\ h \in running
    /\ GrantNext(available + 1, running \ {h})
    /\ UNCHANGED timer

Next == TimerFires \/ \E h \in Handlers : AcquireSlot(h) \/ ReleaseSlot(h)

Spec == Init /\ [][Next]_vars

(***************************************************************************)
(* Properties                                                              *)
(***************************************************************************)
\* Slots are neither lost nor made up: at most AGENT_CONCURRENCY handlers run,
\* whatever mix of timer grants and release grants served them.
SlotsConserved == available + Cardinality(running) = Slots

\* No waiter is forgotten: a slot is free while somebody waits only as long as
\* a collection window is open that will hand it over.
NoIdleSlot == waiters # <<>> /\ available > 0 => timer

\* The waiter at i comes before the one at j: it is earlier in ORDER, or of the
\* same type and delivered earlier.
Precedes(i, j) == LET r == Rank(waiters[i]) q == Rank(waiters[j]) IN r < q \/ (r = q /\ i < j)

\* Nobody overtakes: of two waiters, whatever timer or release serves them and
\* whoever arrives in between, the one that comes first by ORDER and, within a
\* type, by arrival gets its slot first, and stays first while both wait.
GrantsInOrder ==
    [][\A i, j \in DOMAIN waiters :
          Precedes(i, j) =>
              /\ waiters[j] \in running' => waiters[i] \in running'
              /\ \A k, l \in DOMAIN waiters' :
                    waiters'[k] = waiters[i] /\ waiters'[l] = waiters[j] => Precedes(k, l)']_vars

\* As long as somebody waits, agents are started.
GateServes == waiters # <<>> ~> running # {}
=============================================================================
