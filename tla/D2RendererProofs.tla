-------------------------- MODULE D2RendererProofs --------------------------
(***************************************************************************)
(* Theorems about the diagram renderer for every number of reports and of  *)
(* diagrams.                                                               *)
(***************************************************************************)
EXTENDS D2Renderer, FiniteSetTheorems, SequenceTheorems, TLAPS

\* The lock: whoever queues waits, once, and only a render boots or compiles.
Queued ==
    /\ \A k \in DOMAIN lockQueue : build[lockQueue[k]].stage = "waiting"
    /\ \A j, k \in DOMAIN lockQueue : lockQueue[j] = lockQueue[k] => j = k
    /\ holder # "free" => lockQueue # <<>>
    /\ holder \in {"boot", "compile", "render"} => ~Recycles(Current)

\* The one worker is the instance.
Held ==
    /\ OneWorker
    /\ instance = NoInstance => alive = {}
    /\ instance <= booted
    /\ \A i \in Instances : i > booted => inbox[i] = <<>>
    /\ holder \in {"compile", "render"} => instance # NoInstance
    /\ (\A b \in Reports : build[b].stage = "over") => instance = NoInstance

\* Nothing is left over from a render that was given up: an instance that is
\* used again has answered everything, and is asked one thing at a time.
Clean ==
    instance # NoInstance =>
        /\ holder \in {"free", "boot"} => inbox[instance] = <<>>
        /\ holder \in {"compile", "render"} =>
              /\ inbox[instance] = << <<CurrentTask, holder>> >>
              /\ resolver[instance] = <<CurrentTask, holder>>

RendererInv == RendererTypeOK /\ Queued /\ Held /\ Clean /\ OwnDiagram

LEMMA Bounds == MaxInstances \in Nat /\ Diagrams \in Nat /\ Diagrams >= 1
  <1>1. Cardinality(Reports) \in Nat /\ Diagrams \in Nat /\ Diagrams >= 1
    BY RendererAssumption, FS_CardinalityType
  <1>2. \A m, n \in Nat : m * n \in Nat
    OBVIOUS
  <1> QED
    BY <1>1, <1>2 DEF MaxInstances

LEMMA RendererStarts == RendererInit => RendererInv
  <1> SUFFICES ASSUME RendererInit PROVE RendererInv
    OBVIOUS
  <1> USE DEF RendererInit
  <1>1. RendererTypeOK
    <2>1. [stage |-> "start", next |-> 1, got |-> [n \in 1..Diagrams |-> Pending]] \in Build
      BY Bounds DEF Build
    <2>2. build \in [Reports -> Build]
      BY <2>1
    <2>3. lockQueue \in Seq(Reports) /\ inbox \in [Instances -> Seq(Messages)]
      OBVIOUS
    <2> QED
      BY <2>2, <2>3, Bounds DEF RendererTypeOK, Phases
  <1>2. Queued
    BY DEF Queued
  <1>3. Held
    BY DEF Held, OneWorker, NoInstance
  <1>4. Clean
    BY DEF Clean
  <1>5. OwnDiagram
    BY DEF OwnDiagram
  <1> QED
    BY <1>1, <1>2, <1>3, <1>4, <1>5 DEF RendererInv

\* Whoever is at the head of the chain.
LEMMA AtHead ==
  ASSUME RendererTypeOK, Queued, lockQueue # <<>>
  PROVE  /\ Current \in Reports /\ Current = lockQueue[1] /\ 1 \in DOMAIN lockQueue
         /\ build[Current] \in Build /\ build[Current].stage = "waiting"
         /\ Tail(lockQueue) \in Seq(Reports)
         /\ \A k \in DOMAIN Tail(lockQueue) :
               /\ k + 1 \in DOMAIN lockQueue /\ Tail(lockQueue)[k] = lockQueue[k + 1]
               /\ Tail(lockQueue)[k] # Current /\ Tail(lockQueue)[k] \in Reports
         /\ ~Recycles(Current) => build[Current].next \in 1..Diagrams /\ CurrentTask \in Tasks
  <1>1. lockQueue \in Seq(Reports)
    BY DEF RendererTypeOK
  <1>2. /\ Current \in Reports /\ Current = lockQueue[1] /\ 1 \in DOMAIN lockQueue
        /\ Tail(lockQueue) \in Seq(Reports)
    BY <1>1 DEF Current
  <1>3. ASSUME NEW k \in DOMAIN Tail(lockQueue)
        PROVE  /\ k + 1 \in DOMAIN lockQueue /\ Tail(lockQueue)[k] = lockQueue[k + 1]
               /\ k + 1 # 1 /\ Tail(lockQueue)[k] \in Reports
    BY <1>1, <1>2, <1>3
  <1>4. \A k \in DOMAIN Tail(lockQueue) : Tail(lockQueue)[k] # Current
    BY <1>2, <1>3 DEF Queued
  <1>5. build[Current] \in Build /\ build[Current].stage = "waiting"
    BY <1>2 DEF RendererTypeOK, Queued
  <1>6. ~Recycles(Current) => build[Current].next \in 1..Diagrams
    BY <1>5, Bounds DEF Recycles, Build
  <1> QED
    BY <1>2, <1>3, <1>4, <1>5, <1>6 DEF CurrentTask, Tasks

\* The next one takes the lock from a render or a recycle that has ended.
LEMMA SettledKeeps ==
  ASSUME RendererTypeOK, Queued, OwnDiagram, lockQueue # <<>>, NEW outcome,
         outcome \in {Placeholder, CurrentTask}, Settled(outcome)
  PROVE  /\ build' \in [Reports -> Build] /\ lockQueue' \in Seq(Reports) /\ holder' = "free"
         /\ Queued' /\ OwnDiagram'
         /\ ~Recycles(Current) => build'[Current].stage = "start"
  <1> DEFINE b == Current
             done == Advanced(outcome)
  <1>1. build' = [build EXCEPT ![b] = done] /\ lockQueue' = Tail(lockQueue) /\ holder' = "free"
    BY DEF Settled
  <1>2. b \in Reports /\ build[b] \in Build /\ build \in [Reports -> Build]
    BY AtHead DEF RendererTypeOK
  <1>3. ~Recycles(b) => build[b].next \in 1..Diagrams /\ CurrentTask \in Tasks /\ CurrentTask = <<b, build[b].next>>
    BY AtHead DEF CurrentTask
  <1>4. done \in Build
    <2>1. CASE Recycles(b)
      BY <1>2, <2>1 DEF Build, Advanced
    <2>2. CASE ~Recycles(b)
      <3>1. build[b].got \in [1..Diagrams -> Svg \cup {Pending, Placeholder}]
        BY <1>2 DEF Build
      <3>2. outcome \in Svg \cup {Pending, Placeholder}
        BY <1>3, <2>2 DEF Svg
      <3>3. [build[b].got EXCEPT ![build[b].next] = outcome] \in [1..Diagrams -> Svg \cup {Pending, Placeholder}]
        BY <3>1, <3>2
      <3>4. build[b].next + 1 \in 1..(Diagrams + 1)
        BY <1>3, <2>2, Bounds
      <3> QED
        BY <1>2, <2>2, <3>3, <3>4 DEF Build, Advanced
    <2> QED
      BY <2>1, <2>2
  <1>5. build' \in [Reports -> Build] /\ \A r \in Reports : build'[r] = IF r = b THEN done ELSE build[r]
    BY <1>1, <1>2, <1>4
  <1>6. Queued'
    <2>1. \A k \in DOMAIN lockQueue' : build'[lockQueue'[k]].stage = "waiting"
      BY <1>1, <1>5, AtHead DEF Queued
    <2>2. \A j, k \in DOMAIN lockQueue' : lockQueue'[j] = lockQueue'[k] => j = k
      <3> SUFFICES ASSUME NEW j \in DOMAIN Tail(lockQueue), NEW k \in DOMAIN Tail(lockQueue),
                          Tail(lockQueue)[j] = Tail(lockQueue)[k]
                   PROVE  j = k
        BY <1>1
      <3>1. j + 1 = k + 1
        BY AtHead DEF Queued
      <3>2. j \in Int /\ k \in Int
        BY AtHead
      <3> QED
        BY <3>1, <3>2
    <2> QED
      BY <1>1, <2>1, <2>2 DEF Queued
  <1>7. OwnDiagram'
    <2> SUFFICES ASSUME NEW r \in Reports, NEW n \in 1..Diagrams
                 PROVE  build'[r].got[n] \in {Pending, Placeholder, <<r, n>>}
      BY DEF OwnDiagram
    <2>0. build[r].got[n] \in {Pending, Placeholder, <<r, n>>}
      BY DEF OwnDiagram
    <2>1. CASE r # b \/ Recycles(b)
      BY <1>2, <1>5, <2>0, <2>1 DEF Build, Advanced
    <2>2. CASE r = b /\ ~Recycles(b)
      <3>1. build'[r].got = [build[b].got EXCEPT ![build[b].next] = outcome]
        BY <1>2, <1>5, <2>2 DEF Build, Advanced
      <3>2. build'[r].got[n] = IF n = build[b].next THEN outcome ELSE build[r].got[n]
        BY <1>2, <2>2, <3>1 DEF Build
      <3> QED
        BY <1>3, <2>0, <2>2, <3>2
    <2> QED
      BY <2>1, <2>2
  <1>8. ~Recycles(b) => build'[b].stage = "start"
    BY <1>2, <1>5 DEF Build, Advanced
  <1> QED
    BY <1>1, <1>2, <1>5, <1>6, <1>7, <1>8, AtHead DEF Settled

LEMMA EnqueueKeeps ==
  ASSUME RendererInv, NEW b \in Reports, Enqueue(b)
  PROVE  RendererInv'
  <1> USE DEF Enqueue
  <1>0. RendererTypeOK /\ Queued /\ Held /\ Clean /\ OwnDiagram /\ build[b] \in Build
    BY DEF RendererInv, RendererTypeOK
  <1>1. /\ build' = [build EXCEPT ![b].stage = "waiting"] /\ build' \in [Reports -> Build]
        /\ \A r \in Reports : build'[r].next = build[r].next /\ build'[r].got = build[r].got
        /\ \A r \in Reports : r # b => build'[r] = build[r]
        /\ build'[b].stage = "waiting"
    BY <1>0 DEF RendererTypeOK, Build
  <1>2. /\ lockQueue \in Seq(Reports) /\ lockQueue' \in Seq(Reports) /\ Len(lockQueue) \in Nat
        /\ DOMAIN lockQueue = 1..Len(lockQueue) /\ DOMAIN lockQueue' = 1..(Len(lockQueue) + 1)
        /\ \A k \in DOMAIN lockQueue : lockQueue'[k] = lockQueue[k]
        /\ lockQueue'[Len(lockQueue) + 1] = b
    BY <1>0 DEF RendererTypeOK
  <1>3. \A k \in DOMAIN lockQueue : lockQueue[k] # b /\ lockQueue[k] \in Reports
    BY <1>0, <1>2 DEF Queued
  <1>4. lockQueue # <<>> => Current' = Current /\ Current \in Reports /\ CurrentTask' = CurrentTask
    <2> SUFFICES ASSUME lockQueue # <<>> PROVE Current' = Current /\ Current \in Reports /\ CurrentTask' = CurrentTask
      OBVIOUS
    <2>1. 1 \in DOMAIN lockQueue /\ Current = lockQueue[1] /\ Current \in Reports
      BY <1>0, AtHead
    <2>2. Current' = lockQueue'[1]
      BY <1>2 DEF Current
    <2> QED
      BY <1>1, <1>2, <2>1, <2>2 DEF CurrentTask
  <1>5. RendererTypeOK'
    BY <1>0, <1>1, <1>2 DEF RendererTypeOK
  <1>6. Queued'
    <2>1. \A k \in DOMAIN lockQueue' : build'[lockQueue'[k]].stage = "waiting"
      BY <1>0, <1>1, <1>2, <1>3 DEF Queued
    <2>2. \A j, k \in DOMAIN lockQueue' : lockQueue'[j] = lockQueue'[k] => j = k
      BY <1>0, <1>2, <1>3 DEF Queued
    <2>3. holder' # "free" => lockQueue' # <<>>
      BY <1>0, <1>2 DEF Queued
    <2>4. holder' \in {"boot", "compile", "render"} => ~Recycles(Current)'
      BY <1>0, <1>1, <1>4 DEF Queued, Recycles
    <2> QED
      BY <2>1, <2>2, <2>3, <2>4 DEF Queued, Recycles
  <1>7. Held'
    <2>1. \E r \in Reports : build'[r].stage # "over"
      BY <1>1
    <2> QED
      BY <1>0, <2>1 DEF Held, OneWorker
  <1>8. Clean'
    BY <1>0, <1>4 DEF Clean, Queued
  <1>9. OwnDiagram'
    BY <1>0, <1>1 DEF OwnDiagram
  <1> QED
    BY <1>5, <1>6, <1>7, <1>8, <1>9 DEF RendererInv

LEMMA TooLargeKeeps ==
  ASSUME RendererInv, NEW b \in Reports, TooLarge(b)
  PROVE  RendererInv'
  <1> USE DEF TooLarge
  <1>0. RendererTypeOK /\ Queued /\ Held /\ Clean /\ OwnDiagram /\ build[b] \in Build
    BY DEF RendererInv, RendererTypeOK
  <1>1. build[b].next \in 1..Diagrams
    BY <1>0, Bounds DEF Build, Recycles
  <1>2. /\ build' \in [Reports -> Build] /\ build'[b].stage = "start"
        /\ \A r \in Reports : r # b => build'[r] = build[r]
        /\ \A n \in 1..Diagrams : build'[b].got[n] \in {build[b].got[n], Placeholder}
    <2> DEFINE got == [build[b].got EXCEPT ![build[b].next] = Placeholder]
               next == build[b].next + 1
    <2>1. got \in [1..Diagrams -> Svg \cup {Pending, Placeholder}] /\ next \in 1..(Diagrams + 1)
      BY <1>0, <1>1, Bounds DEF Build
    <2>2. build' = [build EXCEPT ![b] = [build[b] EXCEPT !.got = got, !.next = next]]
      BY <1>0 DEF RendererTypeOK, Build
    <2>3. \A n \in 1..Diagrams : got[n] \in {build[b].got[n], Placeholder}
      BY <1>0, <1>1 DEF Build
    <2> HIDE DEF got, next
    <2>4. [build[b] EXCEPT !.got = got, !.next = next] \in Build
      BY <1>0, <2>1 DEF Build
    <2>5. build'[b] = [build[b] EXCEPT !.got = got, !.next = next] /\ \A r \in Reports : r # b => build'[r] = build[r]
      BY <1>0, <2>2 DEF RendererTypeOK
    <2>6. build'[b].got = got /\ build'[b].stage = "start"
      <3>1. build[b].stage = "start"
        OBVIOUS
      <3>2. \A v \in Build : LET w == [v EXCEPT !.got = got, !.next = next] IN w.got = got /\ w.stage = v.stage
        <4> HIDE DEF TooLarge
        <4> QED
          BY DEF Build
      <3> HIDE DEF TooLarge
      <3> QED
        BY <1>0, <2>5, <3>1, <3>2
    <2> QED
      BY <1>0, <2>2, <2>3, <2>4, <2>5, <2>6 DEF RendererTypeOK
  <1>3. lockQueue # <<>> => Current' = Current /\ CurrentTask' = CurrentTask /\ Current # b /\ Current \in Reports
    BY <1>0, <1>2, AtHead DEF Current, CurrentTask
  <1>4. \A k \in DOMAIN lockQueue : lockQueue[k] # b /\ lockQueue[k] \in Reports
    BY <1>0 DEF Queued, RendererTypeOK
  <1>5. RendererTypeOK'
    BY <1>0, <1>2 DEF RendererTypeOK
  <1>6. Queued'
    BY <1>0, <1>2, <1>3, <1>4 DEF Queued, Recycles
  <1>7. Held'
    BY <1>0, <1>2 DEF Held, OneWorker
  <1>8. Clean'
    BY <1>0, <1>3 DEF Clean, Queued
  <1>9. OwnDiagram'
    BY <1>0, <1>2 DEF OwnDiagram
  <1> QED
    BY <1>5, <1>6, <1>7, <1>8, <1>9 DEF RendererInv

LEMMA BuilderThrowsKeeps ==
  ASSUME RendererInv, NEW b \in Reports, BuilderThrows(b)
  PROVE  RendererInv'
  <1> USE DEF BuilderThrows
  <1>0. RendererTypeOK /\ Queued /\ Held /\ Clean /\ OwnDiagram /\ build[b] \in Build
    BY DEF RendererInv, RendererTypeOK
  <1>1. /\ build' = [build EXCEPT ![b].stage = "thrown"] /\ build' \in [Reports -> Build]
        /\ \A r \in Reports : build'[r].next = build[r].next /\ build'[r].got = build[r].got
        /\ \A r \in Reports : r # b => build'[r] = build[r]
        /\ build'[b].stage = "thrown"
    BY <1>0 DEF RendererTypeOK, Build
  <1>2. \A k \in DOMAIN lockQueue : lockQueue[k] # b /\ lockQueue[k] \in Reports
    BY <1>0 DEF Queued, RendererTypeOK
  <1>3. lockQueue # <<>> => Current' = Current /\ CurrentTask' = CurrentTask /\ Current \in Reports
    BY <1>0, <1>1, AtHead DEF Current, CurrentTask
  <1>4. RendererTypeOK'
    BY <1>0, <1>1 DEF RendererTypeOK
  <1>5. Queued'
    BY <1>0, <1>1, <1>2, <1>3 DEF Queued, Recycles
  <1>6. Held'
    <2>1. \E r \in Reports : build'[r].stage # "over"
      BY <1>1
    <2> QED
      BY <1>0, <2>1 DEF Held, OneWorker
  <1>7. Clean'
    BY <1>0, <1>3 DEF Clean, Queued
  <1>8. OwnDiagram'
    BY <1>0, <1>1 DEF OwnDiagram
  <1> QED
    BY <1>4, <1>5, <1>6, <1>7, <1>8 DEF RendererInv

LEMMA TakeLockKeeps ==
  ASSUME RendererInv, TakeLock
  PROVE  RendererInv'
  <1> USE DEF TakeLock
  <1>0. RendererTypeOK /\ Queued /\ Held /\ Clean /\ OwnDiagram
    BY DEF RendererInv
  <1>1. holder' \in Phases /\ holder' \notin {"free", "compile", "render"} /\ (holder' = "boot" => ~Recycles(Current))
    BY DEF Phases
  <1>2. RendererTypeOK'
    BY <1>0, <1>1 DEF RendererTypeOK
  <1>3. Queued'
    BY <1>0, <1>1 DEF Queued, Recycles, Current
  <1>4. Held'
    BY <1>0, <1>1 DEF Held, OneWorker
  <1>5. Clean'
    BY <1>0, <1>1 DEF Clean
  <1>6. OwnDiagram'
    BY <1>0 DEF OwnDiagram
  <1> QED
    BY <1>2, <1>3, <1>4, <1>5, <1>6 DEF RendererInv

LEMMA GiveUpKeeps ==
  ASSUME RendererInv, BootFails \/ RenderFails
  PROVE  RendererInv'
  <1> USE DEF BootFails, RenderFails
  <1>0. RendererTypeOK /\ Queued /\ Held /\ Clean /\ OwnDiagram
    BY DEF RendererInv
  <1>1. holder' = "terminate" /\ holder # "free"
    OBVIOUS
  <1>2. RendererTypeOK'
    BY <1>0, <1>1 DEF RendererTypeOK, Phases
  <1>3. Queued'
    BY <1>0, <1>1 DEF Queued
  <1>4. Held'
    BY <1>0, <1>1 DEF Held, OneWorker
  <1>5. Clean'
    BY <1>0, <1>1 DEF Clean
  <1>6. OwnDiagram'
    BY <1>0 DEF OwnDiagram
  <1> QED
    BY <1>2, <1>3, <1>4, <1>5, <1>6 DEF RendererInv

LEMMA GetInstanceKeeps ==
  ASSUME RendererInv, GetInstance
  PROVE  RendererInv'
  <1> DEFINE m == <<CurrentTask, "compile">>
  <1>0. RendererTypeOK /\ Queued /\ Held /\ Clean /\ OwnDiagram
    BY DEF RendererInv
  <1>1. /\ holder = "boot" /\ holder' = "compile" /\ build' = build /\ lockQueue' = lockQueue
        /\ lockQueue # <<>> /\ ~Recycles(Current)
    BY <1>0 DEF GetInstance, Queued
  <1>2. Current \in Reports /\ build[Current].stage = "waiting" /\ m \in Messages
    BY <1>0, <1>1, AtHead DEF Messages
  <1>3. Current' = Current /\ CurrentTask' = CurrentTask
    BY <1>1 DEF Current, CurrentTask
  <1>4. Queued'
    BY <1>0, <1>1, <1>3 DEF Queued, Recycles
  <1>5. OwnDiagram'
    BY <1>0, <1>1 DEF OwnDiagram
  <1>6. ~\A b \in Reports : build'[b].stage = "over"
    BY <1>1, <1>2
  \* Both branches send m to an instance that has nothing left to answer.
  <1>7. ASSUME NEW i \in Instances, inbox[i] = <<>>, instance' = i, Post(i, m)
        PROVE  /\ inbox' \in [Instances -> Seq(Messages)] /\ resolver' \in [Instances -> Messages \cup {NoCaller}]
               /\ \A j \in Instances : j # i => inbox'[j] = inbox[j]
               /\ Clean'
    <2>1. inbox' = [inbox EXCEPT ![i] = <<m>>] /\ resolver' = [resolver EXCEPT ![i] = m]
      BY <1>0, <1>2, <1>7 DEF Post, RendererTypeOK
    <2>2. <<m>> \in Seq(Messages)
      BY <1>2
    <2>3. inbox'[i] = <<m>> /\ resolver'[i] = m
      BY <1>0, <2>1 DEF RendererTypeOK
    <2>4. Clean'
      BY <1>1, <1>3, <1>7, <2>3 DEF Clean
    <2> QED
      BY <1>0, <1>2, <2>1, <2>2, <2>4 DEF RendererTypeOK
  <1>8. CASE instance # NoInstance
    <2>1. Post(instance, m) /\ instance' = instance /\ booted' = booted /\ alive' = alive
      BY <1>8 DEF GetInstance
    <2>2. instance \in Instances /\ inbox[instance] = <<>>
      BY <1>0, <1>1, <1>8 DEF RendererTypeOK, Clean
    <2>3. /\ inbox' \in [Instances -> Seq(Messages)] /\ resolver' \in [Instances -> Messages \cup {NoCaller}]
          /\ \A j \in Instances : j # instance => inbox'[j] = inbox[j]
          /\ Clean'
      BY <1>7, <2>1, <2>2
    <2>4. RendererTypeOK'
      BY <1>0, <1>1, <2>1, <2>3 DEF RendererTypeOK, Phases
    <2>5. Held'
      <3>1. \A j \in Instances : j > booted' => inbox'[j] = <<>>
        <4> SUFFICES ASSUME NEW j \in Instances, j > booted PROVE inbox'[j] = <<>>
          BY <2>1
        <4>1. j # instance
          BY <1>0, Bounds DEF Held, RendererTypeOK, Instances, NoInstance
        <4> QED
          BY <1>0, <2>3, <4>1 DEF Held
      <3> QED
        BY <1>0, <1>6, <1>8, <2>1, <3>1 DEF Held, OneWorker
    <2> QED
      BY <1>4, <1>5, <2>3, <2>4, <2>5 DEF RendererInv
  <1>9. CASE instance = NoInstance
    <2>1. /\ booted < MaxInstances /\ booted' = booted + 1 /\ instance' = booted + 1
          /\ alive' = alive \cup {booted + 1} /\ Post(booted + 1, m)
      BY <1>9 DEF GetInstance
    <2>2. booted \in 0..MaxInstances /\ booted + 1 \in Instances /\ booted + 1 \in 0..MaxInstances /\ booted + 1 # 0
      BY <1>0, <2>1, Bounds DEF RendererTypeOK, Instances
    <2>3. inbox[booted + 1] = <<>>
      <3>1. booted + 1 > booted
        BY <2>2, Bounds
      <3> QED
        BY <1>0, <2>2, <3>1 DEF Held
    <2>4. /\ inbox' \in [Instances -> Seq(Messages)] /\ resolver' \in [Instances -> Messages \cup {NoCaller}]
          /\ \A j \in Instances : j # booted + 1 => inbox'[j] = inbox[j]
          /\ Clean'
      BY <1>7, <2>1, <2>2, <2>3
    <2>5. alive' = {booted + 1}
      BY <1>0, <1>9, <2>1 DEF Held
    <2>6. RendererTypeOK'
      BY <1>0, <1>1, <2>1, <2>2, <2>4, <2>5 DEF RendererTypeOK, Phases
    <2>7. Held'
      <3>1. \A j \in Instances : j > booted + 1 => inbox'[j] = <<>>
        <4> SUFFICES ASSUME NEW j \in Instances, j > booted + 1 PROVE inbox'[j] = <<>>
          OBVIOUS
        <4>1. j > booted /\ j # booted + 1
          BY <2>2, Bounds DEF Instances
        <4> QED
          BY <1>0, <2>4, <4>1 DEF Held
      <3>2. instance' # NoInstance /\ instance' <= booted'
        BY <2>1, <2>2, Bounds DEF NoInstance
      <3> QED
        BY <1>6, <2>1, <2>5, <3>1, <3>2 DEF Held, OneWorker
    <2> QED
      BY <1>4, <1>5, <2>4, <2>6, <2>7 DEF RendererInv
  <1> QED
    BY <1>8, <1>9

LEMMA TerminateKeeps ==
  ASSUME RendererInv, Terminate
  PROVE  RendererInv'
  <1>0. RendererTypeOK /\ Queued /\ Held /\ Clean /\ OwnDiagram
    BY DEF RendererInv
  <1>1. /\ holder = "terminate" /\ instance' = NoInstance /\ alive' = alive \ {instance}
        /\ Settled(Placeholder) /\ UNCHANGED <<booted, inbox, resolver>>
    BY DEF Terminate
  <1>2. /\ build' \in [Reports -> Build] /\ lockQueue' \in Seq(Reports) /\ holder' = "free"
        /\ Queued' /\ OwnDiagram'
    BY <1>0, <1>1, SettledKeeps DEF Queued
  <1>3. alive' = {}
    BY <1>0, <1>1 DEF Held, OneWorker
  <1>4. RendererTypeOK'
    BY <1>0, <1>1, <1>2, <1>3 DEF RendererTypeOK, Phases
  <1>5. Held'
    <2>1. NoInstance <= booted
      BY <1>0, Bounds DEF RendererTypeOK, NoInstance
    <2> QED
      BY <1>0, <1>1, <1>2, <1>3, <2>1 DEF Held, OneWorker
  <1>6. Clean'
    BY <1>1 DEF Clean
  <1> QED
    BY <1>2, <1>4, <1>5, <1>6 DEF RendererInv

LEMMA ReplyKeeps ==
  ASSUME RendererInv, NEW i \in Instances, Reply(i)
  PROVE  RendererInv'
  <1> DEFINE m == resolver[i]
  <1>0. RendererTypeOK /\ Queued /\ Held /\ Clean /\ OwnDiagram
    BY DEF RendererInv
  \* Only the instance has a thread, and it owes an answer under the lock alone.
  <1>1. /\ i = instance /\ instance # NoInstance /\ inbox[i] # <<>>
        /\ holder \in {"compile", "render", "terminate"} /\ lockQueue # <<>>
        /\ instance' = instance /\ booted' = booted /\ alive' = alive
    BY <1>0 DEF Reply, Held, OneWorker, Clean, Queued, RendererTypeOK, Phases
  <1>2. /\ m \in Messages /\ m[1] \in Tasks /\ m[2] \in {"compile", "render"}
        /\ <<m[1], "render">> \in Messages
    BY <1>0 DEF Reply, Resolved, RendererTypeOK, Messages
  <1>3. /\ inbox[i] \in Seq(Messages) /\ Tail(inbox[i]) \in Seq(Messages)
        /\ Append(Tail(inbox[i]), <<m[1], "render">>) \in Seq(Messages)
    BY <1>0, <1>1, <1>2 DEF RendererTypeOK
  <1>4. ASSUME NEW q \in Seq(Messages), NEW r \in Messages \cup {NoCaller},
               inbox' = [inbox EXCEPT ![i] = q], resolver' = [resolver EXCEPT ![i] = r]
        PROVE  /\ inbox' \in [Instances -> Seq(Messages)] /\ inbox'[i] = q
               /\ resolver' \in [Instances -> Messages \cup {NoCaller}] /\ resolver'[i] = r
               /\ \A j \in Instances : j > booted => inbox'[j] = <<>>
    <2>1. \A j \in Instances : j # i => inbox'[j] = inbox[j]
      BY <1>0, <1>4 DEF RendererTypeOK
    <2>2. ASSUME NEW j \in Instances, j > booted PROVE j # i
      BY <1>0, <1>1, <2>2, Bounds DEF Held, RendererTypeOK, Instances
    <2>3. \A j \in Instances : j > booted => inbox'[j] = <<>>
      BY <1>0, <2>1, <2>2 DEF Held
    <2> QED
      BY <1>0, <1>4, <2>3 DEF RendererTypeOK
  <1>5. CASE holder = "terminate"
    <2>1. ~Awaited(m)
      BY <1>2, <1>5 DEF Awaited
    <2>2. UNCHANGED <<build, lockQueue, holder>>
      BY <2>1 DEF Reply, Resolved
    <2>3. PICK q \in Seq(Messages), r \in Messages \cup {NoCaller} :
              inbox' = [inbox EXCEPT ![i] = q] /\ resolver' = [resolver EXCEPT ![i] = r]
      <3>1. CASE m[2] = "compile"
        <4>1. /\ inbox' = [inbox EXCEPT ![i] = Append(Tail(inbox[i]), <<m[1], "render">>)]
              /\ resolver' = [resolver EXCEPT ![i] = <<m[1], "render">>]
          BY <1>0, <3>1 DEF Reply, Resolved, RendererTypeOK
        <4> QED
          BY <1>2, <1>3, <4>1
      <3>2. CASE m[2] = "render"
        BY <1>3, <3>2 DEF Reply, Resolved
      <3> QED
        BY <1>2, <3>1, <3>2
    <2>4. RendererTypeOK'
      BY <1>0, <1>1, <1>4, <2>2, <2>3 DEF RendererTypeOK
    <2>5. Queued' /\ OwnDiagram'
      BY <1>0, <2>2 DEF Queued, OwnDiagram, Recycles, Current
    <2>6. Held'
      BY <1>0, <1>1, <1>4, <2>2, <2>3 DEF Held, OneWorker
    <2>7. Clean'
      BY <1>5, <2>2 DEF Clean
    <2> QED
      BY <2>4, <2>5, <2>6, <2>7 DEF RendererInv
  \* The answer is the one that is awaited.
  <1>6. CASE holder = "compile"
    <2>1. m = <<CurrentTask, "compile">> /\ inbox[i] = <<m>> /\ Awaited(m)
      BY <1>0, <1>1, <1>6 DEF Clean, Awaited
    <2>2. /\ inbox' = [inbox EXCEPT ![i] = << <<CurrentTask, "render">> >>]
          /\ resolver' = [resolver EXCEPT ![i] = <<CurrentTask, "render">>]
          /\ holder' = "render" /\ UNCHANGED <<build, lockQueue>>
      <3>1. Append(Tail(inbox[i]), <<CurrentTask, "render">>) = << <<CurrentTask, "render">> >>
        BY <2>1
      <3>2. /\ inbox' = [inbox EXCEPT ![i] = Append(Tail(inbox[i]), <<CurrentTask, "render">>)]
            /\ resolver' = [resolver EXCEPT ![i] = <<CurrentTask, "render">>]
            /\ holder' = "render" /\ UNCHANGED <<build, lockQueue>>
        BY <1>0, <2>1 DEF Reply, Resolved, RendererTypeOK
      <3> QED
        BY <3>1, <3>2
    <2>3. << <<CurrentTask, "render">> >> \in Seq(Messages) /\ <<CurrentTask, "render">> \in Messages
      BY <1>2, <2>1
    <2>4. Current' = Current /\ CurrentTask' = CurrentTask
      BY <2>2 DEF Current, CurrentTask
    <2>5. RendererTypeOK'
      BY <1>0, <1>1, <1>4, <2>2, <2>3 DEF RendererTypeOK, Phases
    <2>6. Queued' /\ OwnDiagram'
      BY <1>0, <1>6, <2>2, <2>4 DEF Queued, OwnDiagram, Recycles
    <2>7. Held'
      BY <1>0, <1>1, <1>4, <2>2, <2>3 DEF Held, OneWorker
    <2>8. Clean'
      BY <1>1, <1>4, <2>2, <2>3, <2>4 DEF Clean
    <2> QED
      BY <2>5, <2>6, <2>7, <2>8 DEF RendererInv
  <1>7. CASE holder = "render"
    <2>1. m = <<CurrentTask, "render">> /\ inbox[i] = <<m>> /\ Awaited(m)
      BY <1>0, <1>1, <1>7 DEF Clean, Awaited
    <2>2. Answered(i)[1] = CurrentTask /\ Tail(inbox[i]) = <<>>
      BY <2>1 DEF Answered
    <2>3. /\ inbox' = [inbox EXCEPT ![i] = <<>>]
          /\ resolver' = [resolver EXCEPT ![i] = NoCaller]
          /\ Settled(CurrentTask)
      <3>1. /\ inbox' = [inbox EXCEPT ![i] = Tail(inbox[i])]
            /\ resolver' = [resolver EXCEPT ![i] = NoCaller]
            /\ Settled(Answered(i)[1])
        BY <1>0, <2>1 DEF Reply, Resolved, RendererTypeOK
      <3> QED
        BY <2>2, <3>1
    <2>4. ~Recycles(Current) /\ Current \in Reports
      BY <1>0, <1>1, <1>7, AtHead DEF Queued
    <2>5. /\ build' \in [Reports -> Build] /\ lockQueue' \in Seq(Reports) /\ holder' = "free"
          /\ Queued' /\ OwnDiagram' /\ build'[Current].stage = "start"
      BY <1>0, <1>1, <2>3, <2>4, SettledKeeps
    <2>6. <<>> \in Seq(Messages)
      OBVIOUS
    <2>7. RendererTypeOK'
      BY <1>0, <1>1, <1>4, <2>3, <2>5, <2>6 DEF RendererTypeOK, Phases
    <2>8. Held'
      BY <1>0, <1>1, <1>4, <2>3, <2>4, <2>5, <2>6 DEF Held, OneWorker
    <2>9. Clean'
      BY <1>1, <1>4, <2>3, <2>5, <2>6 DEF Clean
    <2> QED
      BY <2>5, <2>7, <2>8, <2>9 DEF RendererInv
  <1> QED
    BY <1>1, <1>5, <1>6, <1>7

\* The invariant above holds in every state of the renderer.
THEOREM RendererInvariant == RendererSpec => []RendererInv
  <1>1. RendererInv /\ [RendererNext]_rendererVars => RendererInv'
    <2> SUFFICES ASSUME RendererInv, [RendererNext]_rendererVars PROVE RendererInv'
      OBVIOUS
    <2>1. CASE UNCHANGED rendererVars
      BY <2>1 DEF rendererVars, RendererInv, RendererTypeOK, Queued, Held, Clean, OwnDiagram, OneWorker,
         Current, CurrentTask, Recycles
    <2> QED
      BY <2>1, EnqueueKeeps, TooLargeKeeps, BuilderThrowsKeeps, TakeLockKeeps, GiveUpKeeps, GetInstanceKeeps, TerminateKeeps,
         ReplyKeeps DEF RendererNext
  <1> QED
    BY RendererStarts, <1>1, PTL DEF RendererSpec

\* However many reports render at once, and whichever renders D2Renderer gives
\* up, a diagram never gets the drawing of another: the instance is gone before
\* anyone else gets the lock, so its late answers reach nobody.
THEOREM DiagramsAreTheirOwn == RendererSpec => []OwnDiagram
  <1>1. RendererInv => OwnDiagram
    BY DEF RendererInv
  <1> QED
    BY RendererInvariant, <1>1, PTL

\* The renderer never has two workers, and none once every buildAll has run to
\* its recycle, which one whose builder throws does not.
THEOREM WorkersReclaimed == RendererSpec => []WorkerReclaimed
  <1>1. RendererInv => WorkerReclaimed
    BY DEF RendererInv, Held, WorkerReclaimed, QuietReclaims
  <1> QED
    BY RendererInvariant, <1>1, PTL
=============================================================================
