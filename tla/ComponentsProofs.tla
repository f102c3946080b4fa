------------------------- MODULE ComponentsProofs -------------------------
(***************************************************************************)
(* Theorems about the submission limit and about the checkouts with the    *)
(* repository chat, for every number of submissions, builders, keys and    *)
(* questions; and what holds of the components side by side.               *)
(***************************************************************************)
EXTENDS MCComponents, WorkerProofs, D2RendererProofs, DataFacts

(***************************************************************************)
(* The submission limit                                                    *)
(***************************************************************************)
\* The request that made the key and has not set its time to live yet.
Expiring(s) == submitter[s] = "expire"

\* The counter cannot run out under the one request that still has to set it
\* off, which has a place in the count.
OneExpires ==
    \A s \in Submitters : Expiring(s) =>
        /\ counter.ttl = Forever /\ counter.n >= 1
        /\ admitted + 1 <= counter.n
        /\ Admits(1) => admitted + 1 <= Limit
        /\ \A r \in Submitters : Expiring(r) => r = s

Capped == OneExpires /\ admitted <= counter.n /\ WindowCapped /\ (counter.n = 0 => counter.ttl = Forever)

LimitInv == LimitTypeOK /\ Capped

LEMMA LimitStarts == LimitInit => LimitInv
  <1> SUFFICES ASSUME LimitInit PROVE LimitInv
    OBVIOUS
  <1>1. counter = [n |-> 0, ttl |-> 0] /\ admitted = 0 /\ 0 \in 0..MaxCount /\ 0 \in 0..Window
    BY LimitAssumption DEF LimitInit, NoKey, Forever
  <1>2. LimitTypeOK
    <2>1. counter \in [n : 0..MaxCount, ttl : 0..Window]
      BY <1>1
    <2>2. submitter \in [Submitters -> {"incr", "expire", "check", "over"}]
      BY DEF LimitInit
    <2>3. admitted \in Nat
      BY <1>1
    <2>4. orphaned \in BOOLEAN
      BY DEF LimitInit
    <2> QED
      BY <2>1, <2>2, <2>3, <2>4 DEF LimitTypeOK
  <1>3. OneExpires
    BY DEF LimitInit, OneExpires, Expiring
  <1> QED
    BY <1>1, <1>2, <1>3, LimitAssumption DEF LimitInv, Capped, WindowCapped, Forever

LEMMA LimitTypeKept == LimitTypeOK /\ [LimitNext]_limitVars => LimitTypeOK'
  <1> SUFFICES ASSUME LimitTypeOK, [LimitNext]_limitVars
               PROVE  LimitTypeOK'
    OBVIOUS
  <1> USE DEF LimitTypeOK
  <1>1. counter' \in [n : 0..MaxCount, ttl : 0..Window]
    <2>1. Counted \in 0..MaxCount /\ 0 \in 0..MaxCount /\ 0 \in 0..Window /\ Window \in 0..Window
      BY LimitAssumption DEF Counted
    <2>2. ASSUME SecondsPass PROVE counter' \in [n : 0..MaxCount, ttl : 0..Window]
      BY <2>1, <2>2 DEF SecondsPass, NoKey, Forever
    <2> QED
      BY <2>1, <2>2 DEF LimitNext, limitVars, Incr, Expire, GatewayDies, SubmitAgain
  <1>2. submitter' \in [Submitters -> {"incr", "expire", "check", "over"}]
    BY DEF LimitNext, limitVars, Incr, Expire, GatewayDies, SubmitAgain, SecondsPass, Submits
  <1>3. admitted' \in Nat
    BY DEF LimitNext, limitVars, Incr, Expire, GatewayDies, SubmitAgain, SecondsPass
  <1>4. orphaned' \in BOOLEAN
    BY Zenon DEF LimitNext, limitVars, Incr, Expire, GatewayDies, SubmitAgain, SecondsPass
  <1> QED
    BY <1>1, <1>2, <1>3, <1>4

LEMMA CappedKept == LimitInv /\ [LimitNext]_limitVars => Capped'
  <1> SUFFICES ASSUME LimitTypeOK, Capped, [LimitNext]_limitVars
               PROVE  Capped'
    BY DEF LimitInv
  <1>0. counter.n \in 0..MaxCount /\ counter.ttl \in 0..Window /\ admitted \in Nat
        /\ DOMAIN submitter = Submitters
    BY DEF LimitTypeOK
  <1> USE <1>0, LimitAssumption DEF Capped, OneExpires, Expiring, WindowCapped, Admits, Forever
  <1>1. ASSUME NEW s \in Submitters, Incr(s)
        PROVE  Capped'
    <2>0. counter' = [counter EXCEPT !.n = Counted]
      BY <1>1 DEF Incr
    <2>1. CASE counter.n = 0
      <3>1. \A r \in Submitters : ~Expiring(r)
        BY <2>1
      <3>2. Counted = 1
        BY <2>1 DEF Counted
      <3>3. counter'.n = 1 /\ counter'.ttl = counter.ttl
        BY <2>0, <3>2 DEF LimitTypeOK
      <3>4. submitter' = [submitter EXCEPT ![s] = "expire"] /\ admitted' = admitted
        BY <1>1, <3>3 DEF Incr, Submits
      <3> QED
        BY <2>1, <3>1, <3>3, <3>4
    <2>2. CASE counter.n # 0
      <3>1. Counted \in 2..MaxCount /\ Counted >= counter.n /\ (Counted <= Limit => Counted = counter.n + 1)
        BY <2>2 DEF Counted
      <3>2. counter'.n = Counted /\ counter'.ttl = counter.ttl /\ counter'.n > 1 /\ counter'.n # 1
        BY <2>0, <3>1 DEF LimitTypeOK
      <3>3. submitter' = [submitter EXCEPT ![s] = "over"]
        BY <1>1, <3>2 DEF Incr, Submits
      <3>4. admitted' = IF Counted <= Limit THEN admitted + 1 ELSE admitted
        BY <1>1, <3>1, <3>2 DEF Incr
      <3> QED
        BY <2>2, <3>1, <3>2, <3>3, <3>4
    <2> QED
      BY <2>1, <2>2
  <1>2. ASSUME NEW s \in Submitters, Expire(s)
        PROVE  Capped'
    <2>1. Expiring(s) /\ submitter' = [submitter EXCEPT ![s] = "over"]
      BY <1>2 DEF Expire, Submits
    <2>2. \A r \in Submitters : submitter'[r] # "expire"
      BY <2>1
    <2>3. counter'.n = counter.n /\ admitted' = IF 1 <= Limit THEN admitted + 1 ELSE admitted
      BY <1>2 DEF Expire, LimitTypeOK
    <2> QED
      BY <2>1, <2>2, <2>3
  <1>3. ASSUME NEW s \in Submitters, GatewayDies(s) \/ SubmitAgain(s)
        PROVE  Capped'
    <2>1. \A r \in Submitters : submitter'[r] = "expire" => Expiring(r)
      BY <1>3 DEF GatewayDies, SubmitAgain, Submits
    <2> QED
      BY <1>3, <2>1 DEF GatewayDies, SubmitAgain
  <1>4. ASSUME SecondsPass
        PROVE  Capped'
    <2>1. \A r \in Submitters : ~Expiring(r)
      BY <1>4 DEF SecondsPass
    <2>2. \/ counter'.n = 0 /\ counter'.ttl = Forever /\ admitted' = 0
          \/ counter'.n = counter.n /\ counter.n # 0 /\ admitted' = admitted
      BY <1>4 DEF SecondsPass, NoKey, LimitTypeOK
    <2> QED
      BY <1>4, <2>1, <2>2 DEF SecondsPass
  <1>5. CASE UNCHANGED limitVars
    BY <1>5 DEF limitVars
  <1> QED
    BY <1>1, <1>2, <1>3, <1>4, <1>5 DEF LimitNext

LEMMA LimitInvariant == LimitSpec => []LimitInv
  <1>1. LimitInv /\ [LimitNext]_limitVars => LimitInv'
    BY LimitTypeKept, CappedKept DEF LimitInv
  <1> QED
    BY LimitStarts, <1>1, PTL DEF LimitSpec

\* However the INCR and EXPIRE of concurrent submissions of JobRateLimitGuard
\* mix, and whenever the gateway dies between them, no window lets more than the
\* limit through, for every limit, window and number of submissions.
THEOREM LimitHolds == LimitSpec => []WindowCapped
  <1>1. LimitInv => WindowCapped
    BY DEF LimitInv, Capped
  <1> QED
    BY LimitInvariant, <1>1, PTL

(***************************************************************************)
(* The directories by age                                                  *)
(***************************************************************************)
\* byAge is a strict total order of the directories there are.
AgeOrdered ==
    /\ Dirs \subseteq Keys /\ byAge \in [Dirs -> SUBSET Dirs]
    /\ \A k, j \in Dirs : j \in byAge[k] <=> k # j /\ k \notin byAge[j]
    /\ \A k \in Dirs : \A j \in byAge[k] : byAge[j] \subseteq byAge[k]

\* A directory that has gone has neither files nor index.
GoneIsEmpty == \A k \in Keys : ~There(k) => disk[k] = NoDir

LEMMA ArrangeGives ==
  ASSUME AgeOrdered, NEW left \in SUBSET Dirs, NEW k \in Keys, NEW top \in SUBSET {k}, Arrange(left, top)
  PROVE  AgeOrdered' /\ Dirs' = left \cup top
  <1> DEFINE N == byAge'
  <1>1. N = [d \in left \cup top |-> IF d \in top THEN {} ELSE (byAge[d] \cap left) \cup top]
    BY DEF Arrange
  <1>2. DOMAIN N = left \cup top
    BY <1>1
  <1>3. \A d \in left \cup top : N[d] = IF d \in top THEN {} ELSE (byAge[d] \cap left) \cup top
    BY <1>1
  <1>4. \A d \in left : d \in Dirs /\ byAge[d] \subseteq Dirs
    BY DEF AgeOrdered
  <1>5. \A d, e \in top : d = e
    OBVIOUS
  <1> HIDE DEF N
  <1>6. DOMAIN N \subseteq Keys /\ N \in [DOMAIN N -> SUBSET DOMAIN N]
    <2>1. \A d \in DOMAIN N : N[d] \in SUBSET DOMAIN N
      BY <1>2, <1>3
    <2>2. N = [d \in DOMAIN N |-> N[d]]
      BY <1>1 DEF N
    <2> QED
      BY <1>2, <2>1, <2>2 DEF AgeOrdered
  <1>7. ASSUME NEW d \in DOMAIN N, NEW e \in DOMAIN N
        PROVE  e \in N[d] <=> d # e /\ d \notin N[e]
    <2>1. CASE d \in top \/ e \in top
      BY <1>2, <1>3, <1>5, <2>1
    <2>2. CASE d \notin top /\ e \notin top
      <3>1. e \in byAge[d] <=> d # e /\ d \notin byAge[e]
        BY <1>2, <2>2 DEF AgeOrdered
      <3> QED
        BY <1>2, <1>3, <2>2, <3>1
    <2> QED
      BY <2>1, <2>2
  <1>8. ASSUME NEW d \in DOMAIN N, NEW e \in N[d]
        PROVE  N[e] \subseteq N[d]
    <2>1. d \notin top /\ e \in left \cup top /\ d \in Dirs
      BY <1>2, <1>3, <1>4
    <2>2. CASE e \in top
      BY <1>3, <2>1, <2>2
    <2>3. CASE e \notin top
      <3>1. e \in byAge[d]
        BY <1>2, <1>3, <2>1, <2>3
      <3>2. byAge[e] \subseteq byAge[d]
        BY <2>1, <3>1 DEF AgeOrdered
      <3> QED
        BY <1>2, <1>3, <2>1, <2>3, <3>2
    <2> QED
      BY <2>1, <2>2, <2>3
  <1>9. Dirs' = DOMAIN N
    BY DEF Dirs, N
  <1> QED
    BY <1>2, <1>6, <1>7, <1>8, <1>9 DEF AgeOrdered, N

\* The listing spares at most the newest Keep - 1 directories of other keys: the
\* oldest of those it spares has all the others after it.
LEMMA SparedAreFew ==
  ASSUME AgeOrdered, NEW k \in Keys
  PROVE  /\ IsFiniteSet(Dirs \ (StaleDirs(k) \cup {k}))
         /\ Cardinality(Dirs \ (StaleDirs(k) \cup {k})) <= Keep - 1
  <1> DEFINE R == Dirs \ (StaleDirs(k) \cup {k})
             After(d) == byAge[d] \ {k}
  <1>0. Keep - 1 \in Nat
    BY CheckoutAssumption
  <1>1. IsFiniteSet(Dirs) /\ IsFiniteSet(R)
    BY CheckoutAssumption, FS_Subset DEF AgeOrdered
  <1>2. \A d \in Dirs : After(d) \subseteq Dirs /\ IsFiniteSet(After(d)) /\ Cardinality(After(d)) \in Nat
    <2> TAKE d \in Dirs
    <2>1. After(d) \subseteq Dirs
      BY DEF AgeOrdered
    <2> QED
      BY <1>1, <2>1, FS_Subset, FS_CardinalityType
  <1>3. \A d \in R : d \in Dirs /\ d # k /\ Cardinality(After(d)) < Keep - 1
    <2> TAKE d \in R
    <2>1. d \in Dirs /\ d # k /\ ~ (Cardinality(After(d)) >= Keep - 1)
      BY DEF StaleDirs
    <2> HIDE DEF R, After
    <2> QED
      BY <1>0, <1>2, <2>1
  <1>4. CASE R = {}
    BY <1>0, <1>1, <1>4, FS_EmptySet
  <1>5. CASE R # {}
    <2> DEFINE C == {Cardinality(After(d)) : d \in R}
    <2>1. C \subseteq 0..(Keep - 1) /\ C # {}
      <3> HIDE DEF R, After
      <3>1. \A d \in R : Cardinality(After(d)) \in 0..(Keep - 1)
        BY <1>0, <1>2, <1>3
      <3> QED
        BY <1>5, <3>1
    <2>2. PICK n \in C : \A m \in C : m <= n
      <3> HIDE DEF C
      <3> QED
        BY <1>0, <2>1, GreatestNumber
    <2>3. PICK d \in R : n = Cardinality(After(d))
      BY <2>2
    <2>4. \A e \in R : Cardinality(After(e)) <= Cardinality(After(d))
      BY <2>2, <2>3
    <2> HIDE DEF C
    <2>5. ASSUME NEW e \in R, e # d PROVE e \in After(d)
      <3> HIDE DEF R
      <3>1. SUFFICES ASSUME e \notin After(d) PROVE FALSE
        OBVIOUS
      <3>2. d \in byAge[e] /\ byAge[d] \subseteq byAge[e] /\ d \notin byAge[d]
        BY <1>3, <2>5, <3>1 DEF AgeOrdered
      <3>3. After(d) \cup {d} \subseteq After(e) /\ d \notin After(d)
        BY <1>3, <3>2
      <3>4. Cardinality(After(d) \cup {d}) = Cardinality(After(d)) + 1
        BY <1>2, <1>3, <3>3, FS_AddElement
      <3>5. Cardinality(After(d) \cup {d}) <= Cardinality(After(e))
        BY <1>2, <1>3, <3>3, FS_Subset
      <3> HIDE DEF After
      <3> QED
        BY <1>2, <1>3, <2>4, <3>4, <3>5
    <2> HIDE DEF R, After
    <2>6. R \ {d} \subseteq After(d)
      BY <2>5
    <2>7. Cardinality(R \ {d}) <= Cardinality(After(d))
      BY <1>2, <1>3, <2>6, FS_Subset
    <2>8. Cardinality(R \ {d}) = Cardinality(R) - 1 /\ Cardinality(R) \in Nat
      BY <1>1, FS_RemoveElement, FS_CardinalityType
    <2>9. Cardinality(After(d)) \in Nat /\ Cardinality(After(d)) < Keep - 1
      BY <1>2, <1>3
    <2>10. Cardinality(R) <= Keep - 1
      BY <1>0, <2>7, <2>8, <2>9
    <2> QED
      BY <1>1, <2>10 DEF R
  <1> QED
    BY <1>1, <1>4, <1>5

(***************************************************************************)
(* The builders                                                            *)
(***************************************************************************)
Builds == [Builders -> [pc : BuildPCs, stale : SUBSET Keys, beside : 0..Cardinality(Builders)]]
Resting == {"idle", "done", "failed"}

\* What a step that is not a listing makes of the builders: none begins, what is
\* listed stays listed until it is gone, and the peak is what it was.
BuildFrame ==
    /\ builds' \in Builds
    /\ \A b \in Builders : /\ builds'[b].beside = builds[b].beside
                           /\ builds'[b].pc = "prune" =>
                                 builds[b].pc = "prune" /\ (builds[b].stale \ builds'[b].stale) \cap Dirs' = {}
                           /\ builds'[b].pc \notin Resting => builds[b].pc \notin Resting

LEMMA BuildersCounted ==
  ASSUME builds \in Builds
  PROVE  /\ IsFiniteSet(Builders) /\ Cardinality(Builders) \in Nat
         /\ Building \subseteq Builders /\ IsFiniteSet(Building) /\ Cardinality(Building) \in 0..Cardinality(Builders)
         /\ \A b \in Builders : b \in Building <=> builds[b].pc \notin Resting
  <1>1. IsFiniteSet(Builders) /\ Cardinality(Builders) \in Nat
    BY CheckoutAssumption, FS_CardinalityType
  <1>2. Building \subseteq Builders
    BY DEF Building
  <1>3. IsFiniteSet(Building) /\ Cardinality(Building) <= Cardinality(Builders) /\ Cardinality(Building) \in Nat
    BY <1>1, <1>2, FS_Subset, FS_CardinalityType
  <1>4. \A b \in Builders : b \in Building <=> builds[b].pc \notin Resting
    BY DEF Building, At, Resting
  <1> QED
    BY <1>1, <1>2, <1>3, <1>4

\* The peak is the most that any builder saw beside it.
MostOf(f) == Max({f[b].beside : b \in Builders})

LEMMA MostBeside ==
  ASSUME NEW f \in Builds, Builders # {}
  PROVE  /\ MostOf(f) \in 0..Cardinality(Builders)
         /\ \A b \in Builders : f[b].beside <= MostOf(f)
         /\ \E b \in Builders : f[b].beside = MostOf(f)
  <1> DEFINE S == {f[b].beside : b \in Builders}
  <1>1. S \subseteq 0..Cardinality(Builders) /\ S # {} /\ Cardinality(Builders) \in Nat
    <2>1. \A b \in Builders : f[b].beside \in 0..Cardinality(Builders)
      BY DEF Builds
    <2>2. Cardinality(Builders) \in Nat
      BY CheckoutAssumption, FS_CardinalityType
    <2> QED
      BY <2>1, <2>2
  <1>2. \A b \in Builders : f[b].beside \in S
    OBVIOUS
  <1>3. \A n \in S : \E b \in Builders : f[b].beside = n
    OBVIOUS
  <1>4. Max(S) \in S /\ \A n \in S : n <= Max(S)
    <2> HIDE DEF S
    <2> QED
      BY <1>1, MaxIsGreatest
  <1>5. /\ Max(S) \in 0..Cardinality(Builders)
        /\ \A b \in Builders : f[b].beside <= Max(S)
        /\ \E b \in Builders : f[b].beside = Max(S)
    <2> HIDE DEF S
    <2> QED
      BY <1>1, <1>2, <1>3, <1>4
  <1> QED
    BY <1>5 DEF MostOf

LEMMA GotoFrame ==
  ASSUME builds \in Builds, NEW b \in Builders, NEW pc \in BuildPCs, Goto(b, pc),
         pc \in Resting \/ (pc # "prune" /\ builds[b].pc \notin Resting)
  PROVE  BuildFrame /\ builds'[b].pc = pc /\ \A x \in Builders \ {b} : builds'[x] = builds[x]
  <1>1. builds[b] \in [pc : BuildPCs, stale : SUBSET Keys, beside : 0..Cardinality(Builders)]
    BY DEF Builds
  <1> DEFINE w == [builds[b] EXCEPT !.pc = pc, !.stale = {}]
  <1>2. w \in [pc : BuildPCs, stale : SUBSET Keys, beside : 0..Cardinality(Builders)]
        /\ w.pc = pc /\ w.beside = builds[b].beside
    BY <1>1
  <1>3. builds' = [builds EXCEPT ![b] = w]
    BY DEF Goto
  <1> HIDE DEF w
  <1>4. builds' \in Builds /\ builds'[b] = w /\ \A x \in Builders \ {b} : builds'[x] = builds[x]
    BY <1>2, <1>3 DEF Builds
  <1> QED
    BY <1>2, <1>4 DEF BuildFrame, Resting

LEMMA ResumeFrame ==
  ASSUME builds \in Builds, NEW p, NEW k, NEW ok \in BOOLEAN, BuildersResume(p, k, ok)
  PROVE  BuildFrame
  <1> DEFINE T == [pc : BuildPCs, stale : SUBSET Keys, beside : 0..Cardinality(Builders)]
             w(b) == [builds[b] EXCEPT !.pc = IF ok THEN "register" ELSE "failed"]
  <1>1. ASSUME NEW b \in Builders
        PROVE  /\ w(b) \in T /\ w(b).pc \in {"register", "failed"} /\ w(b).beside = builds[b].beside
               /\ builds[b] \in T
    <2>1. builds[b] \in T /\ "register" \in BuildPCs /\ "failed" \in BuildPCs
      BY DEF Builds, BuildPCs
    <2> QED
      BY <2>1
  <1>2. \A b \in Builders : builds'[b] = IF At(b, "indexing") /\ Proc(b) = p /\ Key(b) = k THEN w(b) ELSE builds[b]
    BY DEF BuildersResume
  <1>3. builds' = [b \in Builders |-> builds'[b]]
    BY DEF BuildersResume
  <1> HIDE DEF w
  <1>4. builds' \in Builds
    <2>1. \A b \in Builders : builds'[b] \in T
      BY <1>1, <1>2
    <2> QED
      BY <1>3, <2>1 DEF Builds
  <1>5. ASSUME NEW b \in Builders
        PROVE  /\ builds'[b].beside = builds[b].beside
               /\ builds'[b].pc = "prune" =>
                     builds[b].pc = "prune" /\ (builds[b].stale \ builds'[b].stale) \cap Dirs' = {}
               /\ builds'[b].pc \notin Resting => builds[b].pc \notin Resting
    BY <1>1, <1>2 DEF At, Resting
  <1> QED
    BY <1>4, <1>5 DEF BuildFrame

\* The listing counts the builder in.
LEMMA ListGives ==
  ASSUME builds \in Builds, AgeOrdered, NEW b \in Builders, ListCheckouts(b)
  PROVE  /\ builds' \in Builds /\ builds[b].pc = "idle"
         /\ builds'[b].pc = "prune" /\ builds'[b].stale = StaleDirs(Key(b))
         /\ builds'[b].beside >= builds[b].beside /\ builds'[b].beside >= Cardinality(Building) + 1
         /\ \A x \in Builders \ {b} : builds'[x] = builds[x]
  <1> DEFINE T == [pc : BuildPCs, stale : SUBSET Keys, beside : 0..Cardinality(Builders)]
             n == Cardinality(Builders)
             S == {builds[b].beside, Cardinality(Building) + 1}
  <1>1. builds[b] \in T /\ builds[b].beside \in 0..n /\ builds[b].pc = "idle"
    BY DEF Builds, ListCheckouts, At
  <1>2. n \in Nat /\ Cardinality(Building) \in Nat /\ Cardinality(Building) + 1 <= n
    <2>1. Building \subseteq Builders \ {b}
      BY <1>1, BuildersCounted DEF Resting
    <2>2. Cardinality(Builders \ {b}) = n - 1 /\ IsFiniteSet(Builders \ {b})
      BY BuildersCounted, FS_RemoveElement
    <2>3. Cardinality(Building) <= n - 1
      BY <2>1, <2>2, FS_Subset
    <2> QED
      BY <2>3, BuildersCounted
  <1>3. S \subseteq 0..n /\ S # {}
    BY <1>1, <1>2
  <1>4. Beside(b) = Max(S)
    BY DEF Beside
  <1>5. Max(S) \in S /\ \A m \in S : m <= Max(S)
    <2> HIDE DEF S
    <2> QED
      BY <1>2, <1>3, MaxIsGreatest
  <1>6. Beside(b) \in 0..n /\ Beside(b) >= builds[b].beside /\ Beside(b) >= Cardinality(Building) + 1
    BY <1>1, <1>2, <1>3, <1>4, <1>5
  <1>7. StaleDirs(Key(b)) \in SUBSET Keys
    BY DEF StaleDirs, AgeOrdered
  <1> DEFINE w == [pc |-> "prune", stale |-> StaleDirs(Key(b)), beside |-> Beside(b)]
  <1>8. w \in T
    BY <1>6, <1>7 DEF BuildPCs
  <1>9. builds' = [builds EXCEPT ![b] = w]
    BY DEF ListCheckouts
  <1>10. w.pc = "prune" /\ w.stale = StaleDirs(Key(b)) /\ w.beside = Beside(b)
    OBVIOUS
  <1> HIDE DEF w
  <1>11. builds' \in Builds /\ builds'[b] = w /\ \A x \in Builders \ {b} : builds'[x] = builds[x]
    BY <1>8, <1>9 DEF Builds
  <1> QED
    BY <1>1, <1>6, <1>10, <1>11

(***************************************************************************)
(* The volume                                                              *)
(***************************************************************************)
Checkout == [files : BOOLEAN, index : {"none", "stale", "fresh"}]
VolumeOK == disk \in [Keys -> Checkout] /\ AgeOrdered /\ archives \subseteq Keys /\ GoneIsEmpty

LEMMA CheckoutTypeParts == CheckoutTypeOK <=> VolumeOK /\ builds \in Builds
  BY Zenon DEF CheckoutTypeOK, VolumeOK, Builds, Checkout, AgeOrdered, GoneIsEmpty

LEMMA KeyIsKey == \A b \in Builders : Key(b) \in Keys
  BY CheckoutAssumption DEF Key

LEMMA VolumeAlone ==
  ASSUME VolumeOK, disk' = disk, byAge' = byAge, archives' \subseteq Keys
  PROVE  VolumeOK' /\ Dirs' = Dirs
  <1>1. Dirs' = Dirs
    BY DEF Dirs
  <1> QED
    BY <1>1 DEF VolumeOK, AgeOrdered, GoneIsEmpty, There

LEMMA MkdirGives ==
  ASSUME VolumeOK, builds \in Builds, NEW b \in Builders, Mkdir(b)
  PROVE  /\ VolumeOK' /\ Dirs' = (Dirs \ builds[b].stale) \cup {Key(b)}
         /\ BuildFrame /\ builds[b].pc = "prune" /\ builds'[b].pc = "fetch"
         /\ \A x \in Builders \ {b} : builds'[x] = builds[x]
  <1> DEFINE top == {Key(b)} \ Dirs
  <1>1. builds[b].pc = "prune" /\ builds[b].stale = {} /\ Goto(b, "fetch") /\ Arrange(Dirs, top)
        /\ archives' = archives /\ disk' = disk
    BY Zenon DEF Mkdir, At
  <1>2. top \in SUBSET {Key(b)} /\ Key(b) \in Keys /\ AgeOrdered
    BY KeyIsKey DEF VolumeOK
  <1>3. AgeOrdered' /\ Dirs' = Dirs \cup top
    <2>1. Arrange(Dirs, top) /\ Dirs \in SUBSET Dirs
      BY <1>1
    <2> HIDE DEF top
    <2> QED
      BY <1>2, <2>1, ArrangeGives
  <1>4. Dirs' = (Dirs \ builds[b].stale) \cup {Key(b)}
    BY <1>1, <1>3
  <1>5. VolumeOK'
    BY <1>1, <1>3 DEF VolumeOK, GoneIsEmpty, There
  <1>6. BuildFrame /\ builds'[b].pc = "fetch" /\ \A x \in Builders \ {b} : builds'[x] = builds[x]
    <2> HIDE DEF top
    <2>1. "fetch" \in BuildPCs /\ "fetch" # "prune" /\ builds[b].pc \notin Resting
      BY <1>1 DEF BuildPCs, Resting
    <2> QED
      BY <1>1, <2>1, GotoFrame
  <1> QED
    BY <1>1, <1>4, <1>5, <1>6

LEMMA DeleteGives ==
  ASSUME VolumeOK, builds \in Builds, NEW b \in Builders, DeleteStale(b)
  PROVE  VolumeOK' /\ Dirs' \subseteq Dirs /\ BuildFrame
  <1>1. PICK k \in builds[b].stale :
           /\ builds[b].pc = "prune" /\ archives' = archives
           /\ disk' = [disk EXCEPT ![k] = NoDir] /\ Arrange(Dirs \ {k}, {})
           /\ builds' = [builds EXCEPT ![b].stale = @ \ {k}]
    BY DEF DeleteStale, At
  <1>2. builds[b] \in [pc : BuildPCs, stale : SUBSET Keys, beside : 0..Cardinality(Builders)] /\ k \in Keys
    BY DEF Builds
  <1>3. AgeOrdered' /\ Dirs' = Dirs \ {k}
    <2>1. Dirs \ {k} \in SUBSET Dirs /\ {} \in SUBSET {k}
      OBVIOUS
    <2>2. AgeOrdered' /\ Dirs' = (Dirs \ {k}) \cup {}
      BY <1>1, <1>2, <2>1, ArrangeGives DEF VolumeOK
    <2> QED
      BY <2>2
  <1>4. VolumeOK'
    <2>1. disk' \in [Keys -> Checkout]
      BY <1>1 DEF VolumeOK, NoDir, Checkout
    <2>2. \A j \in Keys : j \notin Dirs' => disk'[j] = NoDir
      BY <1>1, <1>2, <1>3 DEF VolumeOK, GoneIsEmpty, There
    <2> QED
      BY <1>1, <1>3, <2>1, <2>2 DEF VolumeOK, GoneIsEmpty, There
  <1>5. BuildFrame
    <2> DEFINE w == [builds[b] EXCEPT !.stale = builds[b].stale \ {k}]
    <2>1. w \in [pc : BuildPCs, stale : SUBSET Keys, beside : 0..Cardinality(Builders)]
          /\ w.pc = builds[b].pc /\ w.beside = builds[b].beside /\ w.stale = builds[b].stale \ {k}
      BY <1>2
    <2>2. builds' = [builds EXCEPT ![b] = w]
      BY <1>1
    <2> HIDE DEF w
    <2>3. builds' \in Builds /\ builds'[b] = w /\ \A x \in Builders \ {b} : builds'[x] = builds[x]
      BY <2>1, <2>2 DEF Builds
    <2>4. (builds[b].stale \ builds'[b].stale) \cap Dirs' = {}
      BY <1>3, <2>1, <2>3
    <2> QED
      BY <1>1, <2>1, <2>3, <2>4 DEF BuildFrame, Resting
  <1> QED
    BY <1>3, <1>4, <1>5

\* A directory is written to, and is the newest after that.
LEMMA TouchGives ==
  ASSUME VolumeOK, NEW k \in Keys, There(k), Touch(k), archives' \subseteq Keys,
         NEW d \in Checkout, disk' = [disk EXCEPT ![k] = d]
  PROVE  VolumeOK' /\ Dirs' = Dirs
  <1>1. AgeOrdered' /\ Dirs' = Dirs \cup {k}
    BY ArrangeGives DEF Touch, VolumeOK
  <1>2. Dirs' = Dirs /\ k \in Dirs
    BY <1>1 DEF There
  <1>3. disk' \in [Keys -> Checkout]
    BY DEF VolumeOK
  <1>4. GoneIsEmpty'
    <2>1. ASSUME NEW j \in Keys, j \notin Dirs' PROVE disk'[j] = NoDir
      <3>1. j # k /\ disk[j] = NoDir /\ disk'[j] = disk[j]
        BY <1>2, <2>1 DEF VolumeOK, GoneIsEmpty, There
      <3> QED
        BY <3>1
    <2> QED
      BY <2>1 DEF GoneIsEmpty, There
  <1> QED
    BY <1>1, <1>2, <1>3, <1>4 DEF VolumeOK

LEMMA ExtractGives ==
  ASSUME VolumeOK, builds \in Builds, NEW b \in Builders, Extract(b)
  PROVE  VolumeOK' /\ Dirs' = Dirs /\ BuildFrame
  <1>0. Key(b) \in Keys /\ builds[b].pc \notin Resting /\ archives \subseteq Keys /\ disk[Key(b)] \in Checkout
    BY KeyIsKey DEF Extract, At, Resting, VolumeOK
  <1>1. CASE Key(b) \in archives /\ There(Key(b))
    <2> DEFINE i == disk[Key(b)].index
               d == [disk[Key(b)] EXCEPT !.files = TRUE, !.index = IF i = "none" THEN i ELSE "stale"]
    <2>1. Touch(Key(b)) /\ archives' = archives \ {Key(b)} /\ Goto(b, "index")
      BY <1>1, Zenon DEF Extract
    <2>2. disk' = [disk EXCEPT ![Key(b)] = d]
      BY <1>1 DEF Extract
    <2>3. d \in Checkout
      <3>1. TRUE \in BOOLEAN /\ (IF i = "none" THEN i ELSE "stale") \in {"none", "stale", "fresh"}
        OBVIOUS
      <3> QED
        BY <1>0, <3>1, Zenon DEF Checkout
    <2> HIDE DEF d
    <2>4. VolumeOK' /\ Dirs' = Dirs
      BY <1>0, <1>1, <2>1, <2>2, <2>3, TouchGives
    <2>5. "index" \in BuildPCs /\ "index" # "prune"
      BY DEF BuildPCs
    <2> QED
      BY <1>0, <2>1, <2>4, <2>5, GotoFrame
  <1>2. CASE ~(Key(b) \in archives /\ There(Key(b)))
    <2>1. Goto(b, "cleanup") /\ disk' = disk /\ byAge' = byAge /\ archives' = archives
      BY <1>2, Zenon DEF Extract
    <2>2. "cleanup" \in BuildPCs /\ "cleanup" # "prune"
      BY DEF BuildPCs
    <2> QED
      BY <1>0, <2>1, <2>2, GotoFrame, VolumeAlone
  <1> QED
    BY <1>1, <1>2

LEMMA CleanUpGives ==
  ASSUME VolumeOK, builds \in Builds, NEW b \in Builders, CleanUp(b)
  PROVE  VolumeOK' /\ Dirs' \subseteq Dirs /\ BuildFrame
  <1>0. /\ Key(b) \in Keys /\ builds[b].pc \notin Resting /\ Goto(b, "failed")
        /\ disk' = [disk EXCEPT ![Key(b)] = NoDir] /\ Arrange(Dirs \ {Key(b)}, {}) /\ archives' = archives \ {Key(b)}
    BY KeyIsKey, Zenon DEF CleanUp, At, Resting
  <1>1. AgeOrdered' /\ Dirs' = Dirs \ {Key(b)}
    <2>1. Dirs \ {Key(b)} \in SUBSET Dirs /\ {} \in SUBSET {Key(b)}
      OBVIOUS
    <2>2. AgeOrdered' /\ Dirs' = (Dirs \ {Key(b)}) \cup {}
      BY <1>0, <2>1, ArrangeGives DEF VolumeOK
    <2> QED
      BY <2>2
  <1>2. disk' \in [Keys -> Checkout]
    BY <1>0 DEF VolumeOK, NoDir, Checkout
  <1>3. GoneIsEmpty'
    <2>1. ASSUME NEW j \in Keys, j \notin Dirs' PROVE disk'[j] = NoDir
      BY <1>0, <1>1, <2>1 DEF VolumeOK, GoneIsEmpty, There
    <2> QED
      BY <2>1 DEF GoneIsEmpty, There
  <1>4. BuildFrame
    BY <1>0, GotoFrame DEF BuildPCs, Resting
  <1> QED
    BY <1>0, <1>1, <1>2, <1>3, <1>4 DEF VolumeOK

(***************************************************************************)
(* The steps of the builders, the handles and the chat                     *)
(***************************************************************************)
LEMMA LandsGives ==
  ASSUME VolumeOK, builds \in Builds, NEW p \in Procs, NEW k \in Keys, Lands(p, k) \/ HandleRejects(p, k)
  PROVE  VolumeOK' /\ Dirs' = Dirs /\ BuildFrame
  <1>1. CASE IndexingLands(p, k)
    <2> DEFINE d == [disk[k] EXCEPT !.index = "fresh"]
    <2>1. disk[k] \in Checkout /\ archives \subseteq Keys
      BY DEF VolumeOK
    <2>2. d \in Checkout
      BY <2>1 DEF Checkout
    <2>3. /\ There(k) /\ Touch(k) /\ disk' = [disk EXCEPT ![k] = d]
          /\ archives' = archives /\ BuildersResume(p, k, TRUE)
      BY <1>1 DEF IndexingLands
    <2> HIDE DEF d
    <2> QED
      BY <2>1, <2>2, <2>3, TouchGives, ResumeFrame
  <1>2. CASE OpeningLands(p, k)
    BY <1>2, VolumeAlone, ResumeFrame DEF OpeningLands, VolumeOK
  <1>3. CASE HandleRejects(p, k)
    BY <1>3, VolumeAlone, ResumeFrame DEF HandleRejects, VolumeOK
  <1> QED
    BY <1>1, <1>2, <1>3 DEF Lands

\* A step of a builder but the listing, the deletions and the mkdir.
LEMMA OtherBuildSteps ==
  ASSUME VolumeOK, builds \in Builds, NEW b \in Builders,
         \/ Download(b) \/ Extract(b) \/ CleanUp(b) \/ TooManyFiles(b) \/ InitAndIndex(b) \/ Register(b)
  PROVE  VolumeOK' /\ Dirs' \subseteq Dirs /\ BuildFrame
  <1>0. Key(b) \in Keys /\ archives \subseteq Keys
    BY KeyIsKey DEF VolumeOK
  <1>1. ASSUME NEW pc \in BuildPCs \ {"prune"}, Goto(b, pc), builds[b].pc \notin Resting,
               disk' = disk, byAge' = byAge, archives' \subseteq Keys
        PROVE  VolumeOK' /\ Dirs' \subseteq Dirs /\ BuildFrame
    BY <1>1, GotoFrame, VolumeAlone
  <1>2. CASE Download(b)
    <2>1. /\ builds[b].pc \notin Resting /\ disk' = disk /\ byAge' = byAge
          /\ archives' \in {archives, archives \cup {Key(b)}}
          /\ Goto(b, "extract") \/ Goto(b, "cleanup")
      BY <1>2 DEF Download, At, Resting
    <2> QED
      BY <1>0, <1>1, <2>1 DEF BuildPCs
  <1>3. CASE Extract(b)
    BY <1>3, ExtractGives
  <1>4. CASE CleanUp(b)
    BY <1>4, CleanUpGives
  <1>5. CASE TooManyFiles(b)
    BY <1>0, <1>1, <1>5 DEF TooManyFiles, At, Resting, BuildPCs
  <1>6. CASE InitAndIndex(b)
    <2>1. /\ builds[b].pc \notin Resting /\ disk' = disk /\ byAge' = byAge /\ archives' = archives
          /\ Goto(b, "register") \/ Goto(b, "indexing")
      BY <1>6 DEF InitAndIndex, At, Resting
    <2> QED
      BY <1>0, <1>1, <2>1 DEF BuildPCs
  <1>7. CASE Register(b)
    BY <1>0, <1>1, <1>7 DEF Register, At, Resting, BuildPCs
  <1> QED
    BY <1>2, <1>3, <1>4, <1>5, <1>6, <1>7

\* What the questions do, but for starting the rebuild, leaves the volume alone.
LEMMA QuestionSteps ==
  ASSUME NEW q \in Questions, Ask(q) \/ QuestionStep(q) \/ ChatThrows(q)
  PROVE  /\ disk' = disk /\ byAge' = byAge /\ archives' = archives
         /\ builds' = builds \/ (Reindex(q) /\ ~reindexing /\ reindexing' /\ Goto(ChatBuilder, "idle"))
  <1>1. CASE Reindex(q)
    BY <1>1 DEF Reindex
  <1>2. CASE ~Reindex(q)
    BY <1>2, Zenon DEF Ask, QuestionStep, ChatThrows, FindCheckout, ChatTurn, FinalAnswer, ReportAnswer,
                       graphVars, checkoutVars
  <1> QED
    BY <1>1, <1>2

\* Every step lists, makes a directory, or does neither.
LEMMA VolumeStep ==
  ASSUME VolumeOK, builds \in Builds, [ChatNext]_chatVars
  PROVE  /\ VolumeOK' /\ builds' \in Builds
         /\ \/ \E b \in Builders : ListCheckouts(b) /\ MayBuild(b) /\ Dirs' = Dirs /\ reindexing' = reindexing
            \/ \E b \in Builders : Mkdir(b) /\ reindexing' = reindexing
            \/ BuildFrame /\ Dirs' \subseteq Dirs
  <1> DEFINE Other == VolumeOK' /\ BuildFrame /\ Dirs' \subseteq Dirs
  <1>0. archives \subseteq Keys /\ AgeOrdered /\ (BuildFrame => builds' \in Builds)
    BY DEF VolumeOK, BuildFrame
  <1>1. ASSUME NEW b \in Builders, ListCheckouts(b)
        PROVE  VolumeOK' /\ builds' \in Builds /\ Dirs' = Dirs
    <2>1. disk' = disk /\ byAge' = byAge /\ archives' = {}
      BY <1>1 DEF ListCheckouts
    <2> QED
      BY <1>1, <2>1, VolumeAlone, ListGives DEF VolumeOK
  <1>2. ASSUME NEW b \in Builders, Mkdir(b)
        PROVE  VolumeOK' /\ builds' \in Builds
    BY <1>2, MkdirGives DEF BuildFrame
  <1>3. ASSUME NEW b \in Builders, BuildStep(b), ~ListCheckouts(b), ~Mkdir(b)
        PROVE  Other
    BY <1>3, OtherBuildSteps, DeleteGives DEF BuildStep, FetchStep
  <1>4. ASSUME NEW b \in Builders, BuildStep(b), ListCheckouts(b) \/ Mkdir(b)
        PROVE  MayBuild(b) /\ reindexing' = reindexing
    <2>1. At(b, "idle") \/ At(b, "prune")
      BY <1>4 DEF ListCheckouts, Mkdir
    <2>2. ~InitAndIndex(b) /\ ~Register(b)
      BY <2>1 DEF InitAndIndex, Register, At
    <2> QED
      BY <1>4, <2>2, Zenon DEF BuildStep
  <1>5. ASSUME NEW b \in Builders, TooManyFiles(b)
        PROVE  Other
    BY <1>5, OtherBuildSteps
  <1>6. ASSUME NEW p \in Procs, NEW k \in Keys, HandleStep(p, k)
        PROVE  Other
    BY <1>6, LandsGives DEF HandleStep
  <1>7. ASSUME disk' = disk, byAge' = byAge, archives' = archives, builds' = builds
        PROVE  Other
    <2>1. BuildFrame
      BY <1>7 DEF BuildFrame
    <2> QED
      BY <1>0, <1>7, <2>1, VolumeAlone
  <1>8. ASSUME NEW q \in Questions, Ask(q) \/ QuestionStep(q) \/ ChatThrows(q)
        PROVE  Other
    <2>1. CASE builds' = builds
      BY <1>7, <1>8, <2>1, QuestionSteps
    <2>2. CASE Goto(ChatBuilder, "idle")
      <3>1. ChatBuilder \in Builders /\ BuildFrame
        BY <2>2, ChatAssumption, GotoFrame DEF BuildPCs, Resting
      <3> QED
        BY <1>0, <1>8, <3>1, QuestionSteps, VolumeAlone
    <2> QED
      BY <1>8, <2>1, <2>2, QuestionSteps
  <1>9. ASSUME RebuildSettles PROVE Other
    BY <1>7, <1>9 DEF RebuildSettles, checkoutVars
  <1>10. ASSUME UNCHANGED chatVars PROVE Other
    BY <1>7, <1>10 DEF chatVars, graphVars, checkoutVars
  <1> HIDE DEF Other
  <1>11. \/ \E b \in Builders : ListCheckouts(b) /\ MayBuild(b) /\ reindexing' = reindexing
         \/ \E b \in Builders : Mkdir(b) /\ reindexing' = reindexing
         \/ Other
    <2>1. ChatNext \/ UNCHANGED chatVars
      OBVIOUS
    <2> QED
      BY <2>1, <1>3, <1>4, <1>5, <1>6, <1>8, <1>9, <1>10, Zenon DEF ChatNext
  <1> QED
    BY <1>0, <1>1, <1>2, <1>11, Zenon DEF Other

(***************************************************************************)
(* Retention                                                               *)
(***************************************************************************)
\* Builders that have listed the volume and not made theirs yet; the directories of
\* other keys each of them will leave; and those that will leave so many that
\* there is room for no more than n of the builders still to come.
Pruning == {b \in Builders : builds[b].pc = "prune"}
Spared(b) == Dirs \ (builds[b].stale \cup {Key(b)})
Tight(n) == {b \in Pruning : Cardinality(Spared(b)) + n >= Keep - 1 + Peak}

\* Of the builders between listing and deletion at most n have room for only n:
\* in the order they listed, each has room for itself and those before it.
RoomForAll == \A n \in Nat : Cardinality(Tight(n)) <= n

RetentionInv == Cardinality(Dirs) <= Keep - 1 + Peak /\ RoomForAll

LEMMA DirsFinite ==
  ASSUME NEW D \in SUBSET Keys
  PROVE  IsFiniteSet(D) /\ Cardinality(D) \in Nat /\ \A S \in SUBSET D : Cardinality(S) \in Nat /\ Cardinality(S) <= Cardinality(D)
  BY CheckoutAssumption, FS_Subset, FS_CardinalityType

LEMMA BuilderSetsFinite ==
  ASSUME NEW B \in SUBSET Builders
  PROVE  IsFiniteSet(B) /\ Cardinality(B) \in Nat /\ \A S \in SUBSET B : Cardinality(S) \in Nat /\ Cardinality(S) <= Cardinality(B)
  BY CheckoutAssumption, FS_Subset, FS_CardinalityType

LEMMA OneMore ==
  ASSUME NEW S, NEW x, IsFiniteSet(S)
  PROVE  Cardinality(S \cup {x}) <= Cardinality(S) + 1
  <1>1. Cardinality(S) \in Nat
    BY FS_CardinalityType
  <1>2. Cardinality(S \cup {x}) = IF x \in S THEN Cardinality(S) ELSE Cardinality(S) + 1
    BY FS_AddElement, Zenon
  <1> QED
    BY <1>1, <1>2

LEMMA RetentionKept ==
  ASSUME VolumeOK, builds \in Builds, RetentionInv, [ChatNext]_chatVars
  PROVE  RetentionInv'
  <1>0. /\ VolumeOK' /\ builds' \in Builds /\ Dirs \in SUBSET Keys /\ Dirs' \in SUBSET Keys /\ AgeOrdered
        /\ Keep - 1 \in Nat /\ Builders # {} /\ \A b \in Builders : Key(b) \in Keys
    BY VolumeStep, CheckoutAssumption, ChatAssumption, KeyIsKey DEF VolumeOK, AgeOrdered
  <1>1. /\ Peak \in Nat /\ \A b \in Builders : builds[b].beside <= Peak
        /\ \E b \in Builders : builds[b].beside = Peak
    <2>1. Peak = MostOf(builds)
      BY DEF Peak, MostOf
    <2>2. /\ MostOf(builds) \in 0..Cardinality(Builders) /\ \A b \in Builders : builds[b].beside <= MostOf(builds)
          /\ \E b \in Builders : builds[b].beside = MostOf(builds)
      BY <1>0, MostBeside
    <2> QED
      BY <2>1, <2>2, BuildersCounted
  <1>2. /\ Peak' \in Nat /\ \A b \in Builders : builds'[b].beside <= Peak'
        /\ \E b \in Builders : builds'[b].beside = Peak'
    <2>1. Peak' = MostOf(builds')
      BY DEF Peak, MostOf
    <2>2. /\ MostOf(builds') \in 0..Cardinality(Builders) /\ \A b \in Builders : builds'[b].beside <= MostOf(builds')
          /\ \E b \in Builders : builds'[b].beside = MostOf(builds')
      BY <1>0, MostBeside
    <2> QED
      BY <2>1, <2>2, BuildersCounted
  <1>3. \A n \in Nat : Tight(n) \in SUBSET Builders /\ Tight(n)' \in SUBSET Builders /\ Cardinality(Tight(n)) <= n
    BY DEF Tight, Pruning, RetentionInv, RoomForAll
  <1>4. \A b \in Builders : Spared(b) \in SUBSET Keys /\ Spared(b)' \in SUBSET Keys
    BY <1>0 DEF Spared
  <1>5. Cardinality(Dirs) <= Keep - 1 + Peak
    BY DEF RetentionInv
  <1>6. SUFFICES Cardinality(Dirs') <= Keep - 1 + Peak' /\ \A n \in Nat : Cardinality(Tight(n)') <= n
    BY DEF RetentionInv, RoomForAll
  <1>7. CASE BuildFrame /\ Dirs' \subseteq Dirs
    <2>1. Peak' = Peak
      BY <1>1, <1>2, <1>7 DEF BuildFrame
    <2>2. Cardinality(Dirs') <= Cardinality(Dirs) /\ Cardinality(Dirs') \in Nat /\ Cardinality(Dirs) \in Nat
      BY <1>0, <1>7, DirsFinite
    <2>3. ASSUME NEW n \in Nat PROVE Cardinality(Tight(n)') <= n
      <3>1. ASSUME NEW b \in Tight(n)' PROVE b \in Tight(n)
        <4>1. b \in Builders /\ builds'[b].pc = "prune" /\ Cardinality(Spared(b)') + n >= Keep - 1 + Peak'
          BY <3>1 DEF Tight, Pruning
        <4>2. builds[b].pc = "prune" /\ (builds[b].stale \ builds'[b].stale) \cap Dirs' = {}
          BY <1>7, <4>1 DEF BuildFrame
        <4>3. Spared(b)' \subseteq Spared(b)
          BY <1>7, <4>2 DEF Spared
        <4>4. Cardinality(Spared(b)') <= Cardinality(Spared(b)) /\ Cardinality(Spared(b)') \in Nat /\ Cardinality(Spared(b)) \in Nat
          BY <1>4, <4>1, <4>3, DirsFinite
        <4>5. Cardinality(Spared(b)) + n >= Keep - 1 + Peak
          BY <1>0, <1>1, <2>1, <4>1, <4>4
        <4> QED
          BY <4>1, <4>2, <4>5 DEF Tight, Pruning
      <3>2. Cardinality(Tight(n)') <= Cardinality(Tight(n)) /\ Cardinality(Tight(n)') \in Nat /\ Cardinality(Tight(n)) \in Nat
        <4>1. Tight(n)' \subseteq Tight(n)
          BY <3>1
        <4> QED
          BY <1>3, <4>1, BuilderSetsFinite
      <3> QED
        BY <1>3, <3>2
    <2> QED
      BY <1>0, <1>1, <1>5, <2>1, <2>2, <2>3
  \* A builder that lists now has room for itself and everybody at work.
  <1>8. ASSUME NEW b \in Builders, ListCheckouts(b), Dirs' = Dirs
        PROVE  Cardinality(Dirs') <= Keep - 1 + Peak' /\ \A n \in Nat : Cardinality(Tight(n)') <= n
    <2>1. /\ builds[b].pc = "idle" /\ builds'[b].pc = "prune" /\ builds'[b].stale = StaleDirs(Key(b))
          /\ builds'[b].beside >= builds[b].beside /\ builds'[b].beside >= Cardinality(Building) + 1
          /\ \A x \in Builders \ {b} : builds'[x] = builds[x]
      BY <1>0, <1>8, ListGives
    <2>2. Pruning \in SUBSET Builders /\ Building \in SUBSET Builders /\ Pruning \in SUBSET Building /\ b \notin Pruning
      BY <2>1, BuildersCounted DEF Pruning, Resting
    <2>3. Cardinality(Pruning) \in Nat /\ Cardinality(Building) \in Nat /\ Cardinality(Pruning) <= Cardinality(Building)
      BY <2>2, BuilderSetsFinite
    <2>4. Peak' >= Peak /\ Peak' >= Cardinality(Pruning) + 1
      <3>1. \A x \in Builders : builds[x].beside \in Nat /\ builds'[x].beside \in Nat
        BY <1>0, BuildersCounted DEF Builds
      <3>2. \A x \in Builders : builds'[x].beside >= builds[x].beside
        BY <2>1, <3>1
      <3> QED
        BY <1>1, <1>2, <2>1, <2>3, <3>1, <3>2
    <2>5. Cardinality(Spared(b)') <= Keep - 1 /\ Cardinality(Spared(b)') \in Nat
      <3>1. Spared(b)' = Dirs \ (StaleDirs(Key(b)) \cup {Key(b)})
        BY <1>8, <2>1 DEF Spared
      <3>2. Cardinality(Spared(b)') <= Keep - 1
        BY <1>0, <3>1, SparedAreFew
      <3> QED
        BY <1>4, <3>2, DirsFinite
    <2>6. ASSUME NEW n \in Nat PROVE Cardinality(Tight(n)') <= n
      <3>1. ASSUME NEW x \in Tight(n)', x # b PROVE x \in Tight(n)
        <4>1. x \in Builders /\ builds'[x].pc = "prune" /\ Cardinality(Spared(x)') + n >= Keep - 1 + Peak'
          BY <3>1 DEF Tight, Pruning
        <4>2. builds'[x] = builds[x] /\ Spared(x)' = Spared(x)
          BY <1>8, <2>1, <3>1, <4>1 DEF Spared
        <4>3. Cardinality(Spared(x)) \in Nat
          BY <1>4, <4>1, DirsFinite
        <4>4. Cardinality(Spared(x)) + n >= Keep - 1 + Peak
          BY <1>0, <1>1, <1>2, <2>4, <4>1, <4>2, <4>3
        <4> QED
          BY <4>1, <4>2, <4>4 DEF Tight, Pruning
      <3>2. CASE b \in Tight(n)'
        <4>1. Cardinality(Spared(b)') + n >= Keep - 1 + Peak'
          BY <3>2 DEF Tight
        <4>2. n >= Cardinality(Pruning) + 1
          BY <1>0, <1>2, <2>3, <2>4, <2>5, <4>1
        <4>3. Tight(n)' \subseteq Pruning \cup {b}
          BY <3>1 DEF Tight
        <4>4. Cardinality(Pruning \cup {b}) = Cardinality(Pruning) + 1
          BY <2>2, BuilderSetsFinite, FS_AddElement
        <4>5. Cardinality(Tight(n)') <= Cardinality(Pruning \cup {b}) /\ Cardinality(Tight(n)') \in Nat
          <5>1. Pruning \cup {b} \in SUBSET Builders
            BY <2>2
          <5> QED
            BY <4>3, <5>1, BuilderSetsFinite
        <4> QED
          BY <2>3, <4>2, <4>4, <4>5
      <3>3. CASE b \notin Tight(n)'
        <4>1. Tight(n)' \subseteq Tight(n)
          BY <3>1, <3>3
        <4>2. Cardinality(Tight(n)') <= Cardinality(Tight(n)) /\ Cardinality(Tight(n)') \in Nat /\ Cardinality(Tight(n)) \in Nat
          BY <1>3, <4>1, BuilderSetsFinite
        <4> QED
          BY <1>3, <4>2
      <3> QED
        BY <3>2, <3>3
    <2>7. Cardinality(Dirs) \in Nat
      BY <1>0, DirsFinite
    <2> QED
      BY <1>0, <1>1, <1>2, <1>5, <1>8, <2>4, <2>6, <2>7
  \* A builder that makes its directory was one of those with room
  \* for one more, if anybody is left who will find less.
  <1>9. ASSUME NEW b \in Builders, Mkdir(b)
        PROVE  Cardinality(Dirs') <= Keep - 1 + Peak' /\ \A n \in Nat : Cardinality(Tight(n)') <= n
    <2>1. /\ Dirs' = (Dirs \ builds[b].stale) \cup {Key(b)}
          /\ BuildFrame /\ builds[b].pc = "prune" /\ builds'[b].pc = "fetch"
          /\ \A x \in Builders \ {b} : builds'[x] = builds[x]
      BY <1>9, MkdirGives
    <2>2. Peak' = Peak
      BY <1>1, <1>2, <2>1 DEF BuildFrame
    <2> DEFINE s == Cardinality(Spared(b))
    <2>3. s \in Nat /\ Cardinality(Dirs') = s + 1
      <3>1. Dirs' = Spared(b) \cup {Key(b)} /\ Key(b) \notin Spared(b)
        BY <2>1 DEF Spared
      <3>2. IsFiniteSet(Spared(b)) /\ Cardinality(Spared(b)) \in Nat
        BY <1>4, DirsFinite
      <3> QED
        BY <3>1, <3>2, FS_AddElement
    <2>4. b \in Pruning /\ \A n \in Nat : s + n >= Keep - 1 + Peak => b \in Tight(n)
      BY <2>1 DEF Pruning, Tight
    <2>5. ASSUME NEW n \in Nat PROVE Cardinality(Tight(n)') <= n
      <3>1. ASSUME NEW x \in Tight(n)'
            PROVE  x \in Tight(n + 1) \ {b} /\ b \in Tight(n + 1)
        <4>1. x \in Builders /\ builds'[x].pc = "prune" /\ Cardinality(Spared(x)') + n >= Keep - 1 + Peak'
          BY <3>1 DEF Tight, Pruning
        <4>2. x # b /\ builds'[x] = builds[x]
          BY <2>1, <4>1
        <4>3. Spared(x)' \subseteq Spared(x) \cup {Key(b)} /\ Spared(x)' \subseteq Dirs'
          BY <2>1, <4>2 DEF Spared
        <4>4. /\ Cardinality(Spared(x)) \in Nat /\ Cardinality(Spared(x)') \in Nat
              /\ Cardinality(Spared(x)') <= Cardinality(Spared(x)) + 1 /\ Cardinality(Spared(x)') <= s + 1
          <5>1. Spared(x) \in SUBSET Keys /\ IsFiniteSet(Spared(x)) /\ Cardinality(Spared(x)) \in Nat
            BY <1>4, <4>1, DirsFinite
          <5>2. Spared(x) \cup {Key(b)} \in SUBSET Keys
            BY <1>0, <5>1
          <5>3. Cardinality(Spared(x) \cup {Key(b)}) <= Cardinality(Spared(x)) + 1
            BY <5>1, OneMore
          <5>4. Cardinality(Spared(x)') <= Cardinality(Spared(x) \cup {Key(b)}) /\ Cardinality(Spared(x)') \in Nat
                /\ Cardinality(Spared(x) \cup {Key(b)}) \in Nat
            BY <4>3, <5>2, DirsFinite
          <5>5. Cardinality(Spared(x)') <= Cardinality(Dirs')
            BY <1>0, <4>3, DirsFinite
          <5> QED
            BY <2>3, <5>1, <5>3, <5>4, <5>5
        <4>5. Cardinality(Spared(x)) + (n + 1) >= Keep - 1 + Peak /\ s + (n + 1) >= Keep - 1 + Peak
          BY <1>0, <1>1, <2>2, <2>3, <4>1, <4>4
        <4>6. x \in Tight(n + 1)
          BY <4>1, <4>2, <4>5 DEF Tight, Pruning
        <4> QED
          BY <2>4, <4>2, <4>5, <4>6
      <3>2. CASE Tight(n)' = {}
        BY <3>2, FS_EmptySet
      <3>3. CASE Tight(n)' # {}
        <4> DEFINE later == Tight(n + 1)
        <4>1. b \in later /\ Tight(n)' \subseteq later \ {b}
          BY <3>1, <3>3
        <4>2. later \in SUBSET Builders /\ Cardinality(later) <= n + 1
          BY <1>3
        <4> HIDE DEF later
        <4>3. IsFiniteSet(later) /\ Cardinality(later) \in Nat /\ Cardinality(later \ {b}) = Cardinality(later) - 1
          BY <4>1, <4>2, BuilderSetsFinite, FS_RemoveElement
        <4>4. Cardinality(Tight(n)') <= Cardinality(later \ {b}) /\ Cardinality(Tight(n)') \in Nat
          <5>1. later \ {b} \in SUBSET Builders
            BY <4>2
          <5> QED
            BY <4>1, <5>1, BuilderSetsFinite
        <4> QED
          BY <4>2, <4>3, <4>4
      <3> QED
        BY <3>2, <3>3
    \* It has room for itself: none has room for none.
    <2>6. Cardinality(Dirs') <= Keep - 1 + Peak'
      <3>1. Cardinality(Tight(0)) <= 0 /\ Tight(0) \in SUBSET Builders
        BY <1>3
      <3>2. Tight(0) = {}
        BY <3>1, BuilderSetsFinite, FS_EmptySet
      <3>3. ~ (s + 0 >= Keep - 1 + Peak)
        BY <2>4, <3>2
      <3> QED
        BY <1>0, <1>1, <2>2, <2>3, <3>3
    <2> QED
      BY <2>5, <2>6
  <1> QED
    BY VolumeStep, <1>7, <1>8, <1>9

(***************************************************************************)
(* The questions and the rebuild                                           *)
(***************************************************************************)
AskedOK ==
    /\ GraphTypeOK
    /\ graphPath \in Keys \cup {NoPath}
    /\ question \in [Questions -> Question]
    /\ reindexing \in BOOLEAN

\* No question starts to wait for the rebuild; no builder starts over.
NoneJoins == \A q \in Questions : question'[q].pc = "rebuild" => question[q].pc = "rebuild"
NoneRestarts == \A b \in Builders : builds'[b].pc = "idle" => builds[b].pc = "idle"

LEMMA HandleTyped ==
  ASSUME GraphTypeOK, NEW p \in Procs, NEW k \in Keys, NEW h \in Handles, SetHandle(p, k, h)
  PROVE  GraphTypeOK'
  <1>1. graphs[p] \in [Keys -> Handles]
    BY DEF GraphTypeOK
  <1>2. [graphs[p] EXCEPT ![k] = h] \in [Keys -> Handles]
    BY <1>1
  <1>3. graphs' = [graphs EXCEPT ![p] = [graphs[p] EXCEPT ![k] = h]]
    BY DEF SetHandle
  <1> QED
    BY <1>2, <1>3 DEF GraphTypeOK

\* What a question becomes is a question.
LEMMA QuestionTyped ==
  ASSUME NEW r \in Question, NEW pc \in QuestionPCs, NEW k \in Keys, NEW end \in Outcomes
  PROVE  /\ [r EXCEPT !.pc = pc] \in Question
         /\ [r EXCEPT !.pc = "over", !.end = end] \in Question
         /\ [r EXCEPT !.key = k, !.pc = pc] \in Question
         /\ (r.turn < ChatTurns - 1 => [r EXCEPT !.turn = @ + 1] \in Question)
  <1>1. /\ r = [pc |-> r.pc, key |-> r.key, turn |-> r.turn, end |-> r.end]
        /\ r.pc \in QuestionPCs /\ r.key \in Keys \cup {NoPath} /\ r.turn \in 0..ChatTurns /\ r.end \in Outcomes
    BY DEF Question
  <1>2. "over" \in QuestionPCs /\ k \in Keys \cup {NoPath} /\ ChatTurns \in Nat
    BY ChatAssumption DEF QuestionPCs
  <1>3. r.turn < ChatTurns - 1 => r.turn + 1 \in 0..ChatTurns
    BY <1>1, <1>2
  <1>4. [r EXCEPT !.pc = pc] \in Question
    BY <1>1 DEF Question
  <1>5. [r EXCEPT !.pc = "over", !.end = end] \in Question
    BY <1>1, <1>2 DEF Question
  <1>6. [r EXCEPT !.key = k, !.pc = pc] \in Question
    BY <1>1, <1>2 DEF Question
  <1>7. r.turn < ChatTurns - 1 => [r EXCEPT !.turn = @ + 1] \in Question
    BY <1>1, <1>3 DEF Question
  <1> QED
    BY <1>4, <1>5, <1>6, <1>7

LEMMA AskedTyped == Asked \in Question /\ [Asked EXCEPT !.pc = "idle"] \in Question
  BY ChatAssumption DEF Asked, Question, QuestionPCs, Outcomes

\* One question moves on, to anything but waiting for the rebuild.
LEMMA OneMoves ==
  ASSUME AskedOK, NEW q \in Questions, NEW r \in Question, r.pc # "rebuild", SetQuestion(q, r)
  PROVE  question' \in [Questions -> Question] /\ NoneJoins
  <1>1. question' \in [Questions -> Question] /\ question'[q] = r /\ \A u \in Questions \ {q} : question'[u] = question[u]
    BY DEF AskedOK, SetQuestion
  <1> QED
    BY <1>1 DEF NoneJoins

LEMMA OneAsks ==
  ASSUME AskedOK, NEW q \in Questions, Ask(q) \/ QuestionStep(q) \/ ChatThrows(q)
  PROVE  /\ AskedOK'
         /\ \/ NoneJoins /\ reindexing' = reindexing /\ builds' = builds
            \/ Reindex(q) /\ reindexing'
  <1> DEFINE r == question[q]
  <1>0. /\ r \in Question /\ GraphTypeOK /\ question \in [Questions -> Question] /\ reindexing \in BOOLEAN
        /\ Gateway \in Procs /\ graphPath \in Keys \cup {NoPath}
    BY ChatAssumption DEF AskedOK
  <1>1. ASSUME NEW w \in Question, w.pc # "rebuild", SetQuestion(q, w), GraphTypeOK',
               graphPath' = graphPath, reindexing' = reindexing
        PROVE  AskedOK' /\ NoneJoins
    BY <1>0, <1>1, OneMoves DEF AskedOK
  <1>2. ASSUME graphs' = graphs PROVE GraphTypeOK'
    BY <1>0, <1>2 DEF GraphTypeOK
  <1>3. ASSUME NEW end \in Outcomes, QEnd(q, end), graphs' = graphs, graphPath' = graphPath, reindexing' = reindexing
        PROVE  AskedOK' /\ NoneJoins
    <2> DEFINE w == [r EXCEPT !.pc = "over", !.end = end]
    <2>1. w \in Question /\ w.pc = "over"
      <3>1. "over" \in QuestionPCs /\ \E k : k \in Keys
        BY CheckoutAssumption, ChatAssumption, KeyIsKey DEF QuestionPCs
      <3>2. w \in Question
        BY <1>0, <3>1, QuestionTyped
      <3>3. r = [pc |-> r.pc, key |-> r.key, turn |-> r.turn, end |-> r.end]
        BY <1>0 DEF Question
      <3> QED
        BY <3>2, <3>3
    <2>2. SetQuestion(q, w)
      BY <1>3 DEF QEnd
    <2> HIDE DEF w
    <2> QED
      BY <1>1, <1>2, <1>3, <2>1, <2>2
  <1>4. CASE Ask(q)
    <2>1. SetQuestion(q, Asked) \/ QEnd(q, "refused")
      BY <1>4 DEF Ask
    <2>2. graphs' = graphs /\ graphPath' = graphPath /\ reindexing' = reindexing /\ builds' = builds
      BY <1>4 DEF Ask, graphVars, checkoutVars
    <2>3. Asked \in Question /\ Asked.pc # "rebuild" /\ "refused" \in Outcomes
      BY AskedTyped DEF Asked, Outcomes
    <2> QED
      BY <1>1, <1>2, <1>3, <2>1, <2>2, <2>3
  <1>5. CASE FindCheckout(q)
    <2> DEFINE h == graphs[Gateway][graphPath]
               pc == IF h = "open" THEN "turn" ELSE "open"
               w == [r EXCEPT !.key = graphPath, !.pc = pc]
    <2>1. graphPath \in Keys
      BY <1>0, <1>5 DEF FindCheckout
    <2>2. SetQuestion(q, w) /\ (IF h = Absent THEN SetHandle(Gateway, graphPath, Opening) ELSE graphs' = graphs)
      BY <1>5 DEF FindCheckout, OpenReadOnly
    <2>3. graphPath' = graphPath /\ reindexing' = reindexing /\ builds' = builds
      BY <1>5 DEF FindCheckout, checkoutVars
    <2>4. w \in Question /\ w.pc # "rebuild"
      <3>1. pc \in QuestionPCs /\ "none" \in Outcomes
        BY DEF QuestionPCs, Outcomes
      <3>2. w \in Question
        <4> HIDE DEF pc
        <4> QED
          BY <1>0, <2>1, <3>1, QuestionTyped
      <3>3. r = [pc |-> r.pc, key |-> r.key, turn |-> r.turn, end |-> r.end]
        BY <1>0 DEF Question
      <3> QED
        BY <3>2, <3>3
    <2>5. GraphTypeOK'
      <3>1. Opening \in Handles
        BY DEF Handles
      <3> QED
        BY <1>0, <1>2, <2>1, <2>2, <3>1, HandleTyped
    <2> HIDE DEF w
    <2> QED
      BY <1>1, <2>2, <2>3, <2>4, <2>5
  <1>6. CASE Reindex(q)
    <2> DEFINE w == [r EXCEPT !.pc = "rebuild"]
    <2>1. SetQuestion(q, w) /\ reindexing' /\ graphs' = graphs /\ graphPath' = graphPath
      BY <1>0, <1>6 DEF Reindex, QGoto
    <2>2. w \in Question
      <3>1. "rebuild" \in QuestionPCs /\ "none" \in Outcomes /\ \E k : k \in Keys
        BY ChatAssumption, KeyIsKey DEF QuestionPCs, Outcomes
      <3> QED
        BY <1>0, <3>1, QuestionTyped
    <2>3. question' \in [Questions -> Question]
      <3> HIDE DEF w
      <3> QED
        BY <1>0, <2>1, <2>2 DEF SetQuestion
    <2>4. reindexing' \in BOOLEAN
      BY <1>6, <1>0 DEF Reindex
    <2> QED
      BY <1>0, <1>2, <1>6, <2>1, <2>3, <2>4 DEF AskedOK
  <1>7. CASE ChatTurn(q)
    <2>0. graphs' = graphs /\ graphPath' = graphPath /\ reindexing' = reindexing /\ builds' = builds /\ r.pc = "turn"
      BY <1>7 DEF ChatTurn, graphVars, checkoutVars, Q
    <2>1. CASE QEnd(q, "graph")
      <3>1. "graph" \in Outcomes
        BY DEF Outcomes
      <3> QED
        BY <1>3, <2>0, <2>1, <3>1
    <2>2. ASSUME NEW w, w = [r EXCEPT !.pc = "final"] \/ (r.turn < ChatTurns - 1 /\ w = [r EXCEPT !.turn = @ + 1]), SetQuestion(q, w)
          PROVE  AskedOK' /\ NoneJoins
      <3>1. "final" \in QuestionPCs /\ "none" \in Outcomes /\ \E k : k \in Keys
        BY ChatAssumption, KeyIsKey DEF QuestionPCs, Outcomes
      <3>2. w \in Question
        BY <1>0, <2>2, <3>1, QuestionTyped
      <3>3. r = [pc |-> r.pc, key |-> r.key, turn |-> r.turn, end |-> r.end]
        BY <1>0 DEF Question
      <3>4. w.pc # "rebuild"
        BY <2>0, <2>2, <3>3
      <3> QED
        BY <1>1, <1>2, <2>0, <2>2, <3>2, <3>4
    <2>3. \/ QEnd(q, "graph") \/ SetQuestion(q, [r EXCEPT !.pc = "final"])
          \/ (r.turn < ChatTurns - 1 /\ SetQuestion(q, [r EXCEPT !.turn = @ + 1]))
      BY <1>7 DEF ChatTurn, QGoto
    <2> QED
      BY <2>0, <2>1, <2>2, <2>3
  <1>8. CASE FinalAnswer(q) \/ ReportAnswer(q) \/ ChatThrows(q)
    <2>1. graphs' = graphs /\ graphPath' = graphPath /\ reindexing' = reindexing /\ builds' = builds
      BY <1>8 DEF FinalAnswer, ReportAnswer, ChatThrows, graphVars, checkoutVars
    <2>2. \E end \in Outcomes : QEnd(q, end)
      BY <1>8 DEF FinalAnswer, ReportAnswer, ChatThrows, Outcomes
    <2> QED
      BY <1>3, <2>1, <2>2
  <1> QED
    BY <1>4, <1>5, <1>6, <1>7, <1>8 DEF QuestionStep

LEMMA HandleStepAsked ==
  ASSUME AskedOK, NEW p \in Procs, NEW k \in Keys, HandleStep(p, k)
  PROVE  AskedOK' /\ NoneJoins /\ NoneRestarts /\ reindexing' = reindexing
  <1>0. GraphTypeOK /\ question \in [Questions -> Question]
    BY DEF AskedOK
  <1>1. GraphTypeOK'
    <2>1. \E h \in Handles : SetHandle(p, k, h)
      BY DEF HandleStep, Lands, IndexingLands, OpeningLands, HandleRejects, Handles
    <2> QED
      BY <1>0, <2>1, HandleTyped
  <1>2. graphPath' = graphPath /\ reindexing' = reindexing
    BY DEF HandleStep
  <1>3. question' \in [Questions -> Question] /\ NoneJoins
    <2>1. PICK pc \in {"turn", "report"} : QuestionsResume(p, k, pc)
      BY DEF HandleStep
    <2> DEFINE w(q) == [question[q] EXCEPT !.pc = pc]
    <2>2. ASSUME NEW q \in Questions PROVE question[q] \in Question /\ w(q) \in Question /\ w(q).pc = pc
      <3>1. pc \in QuestionPCs /\ "none" \in Outcomes
        BY <2>1 DEF QuestionPCs, Outcomes
      <3>2. question[q] \in Question
        BY <1>0
      <3>3. w(q) \in Question
        BY <3>1, <3>2, QuestionTyped
      <3> QED
        BY <3>2, <3>3 DEF Question
    <2>3. question' = [q \in Questions |-> IF p = Gateway /\ q \in AwaitHandle(k) THEN w(q) ELSE question[q]]
      <3>1. question = [q \in Questions |-> question[q]]
        BY <1>0
      <3> QED
        BY <2>1, <3>1 DEF QuestionsResume
    <2> HIDE DEF w
    <2>4. question' \in [Questions -> Question]
      BY <2>2, <2>3
    <2>5. ASSUME NEW q \in Questions, question'[q].pc = "rebuild" PROVE question[q].pc = "rebuild"
      BY <2>1, <2>2, <2>3, <2>5
    <2> QED
      BY <2>4, <2>5 DEF NoneJoins
  <1>4. NoneRestarts
    <2>1. PICK ok \in BOOLEAN : BuildersResume(p, k, ok)
      BY DEF HandleStep, Lands, IndexingLands, OpeningLands, HandleRejects
    <2>2. ASSUME NEW b \in Builders PROVE builds'[b].pc = "idle" => builds[b].pc = "idle"
      <3> DEFINE w == [builds[b] EXCEPT !.pc = IF ok THEN "register" ELSE "failed"]
      <3>1. builds'[b] = IF At(b, "indexing") /\ Proc(b) = p /\ Key(b) = k THEN w ELSE builds[b]
        BY <2>1 DEF BuildersResume
      <3>2. ASSUME "pc" \in DOMAIN builds[b] PROVE w.pc # "idle"
        BY <3>2
      <3> QED
        BY <3>1, <3>2
    <2> QED
      BY <2>2 DEF NoneRestarts
  <1> QED
    BY <1>1, <1>2, <1>3, <1>4 DEF AskedOK

LEMMA GotoGoesOn ==
  ASSUME builds \in Builds, NEW b \in Builders, NEW pc, pc # "idle", Goto(b, pc)
  PROVE  NoneRestarts
  <1>1. builds'[b].pc = pc /\ \A x \in Builders \ {b} : builds'[x] = builds[x]
    BY DEF Goto, Builds
  <1> QED
    BY <1>1 DEF NoneRestarts

LEMMA BuildStepAsked ==
  ASSUME AskedOK, VolumeOK, builds \in Builds, NEW b \in Builders,
         BuildStep(b) \/ (TooManyFiles(b) /\ UNCHANGED <<graphs, graphPath, question, reindexing>>)
  PROVE  AskedOK' /\ NoneJoins /\ NoneRestarts /\ reindexing' = reindexing
  <1>0. GraphTypeOK /\ graphPath \in Keys \cup {NoPath} /\ Proc(b) \in Procs /\ Key(b) \in Keys
    BY GraphAssumption, KeyIsKey DEF AskedOK, Proc
  <1>1. question' = question /\ reindexing' = reindexing
    BY DEF BuildStep, Register
  <1>2. GraphTypeOK'
    <2>1. graphs' = graphs \/ SetHandle(Proc(b), Key(b), Indexing)
      BY DEF BuildStep, InitAndIndex, Register
    <2>2. Indexing \in Handles
      BY DEF Handles
    <2>3. CASE graphs' = graphs
      BY <1>0, <2>3 DEF GraphTypeOK
    <2> QED
      BY <1>0, <2>1, <2>2, <2>3, HandleTyped
  <1>3. graphPath' \in Keys \cup {NoPath}
    BY <1>0 DEF BuildStep, Register
  <1>4. NoneRestarts
    <2>1. CASE ListCheckouts(b)
      <3>1. builds'[b].pc = "prune" /\ \A x \in Builders \ {b} : builds'[x] = builds[x]
        BY <2>1, ListGives DEF VolumeOK
      <3> QED
        BY <3>1 DEF NoneRestarts
    <2>2. CASE ~ListCheckouts(b) /\ ~DeleteStale(b)
      <3>1. \E pc \in BuildPCs \ {"idle"} : Goto(b, pc)
        BY <2>2 DEF BuildStep, FetchStep, Mkdir, Download, Extract, CleanUp, TooManyFiles, InitAndIndex, Register, BuildPCs
      <3> QED
        BY <3>1, GotoGoesOn
    <2>3. CASE DeleteStale(b)
      BY <2>3 DEF DeleteStale, At, NoneRestarts, VolumeOK, Builds
    <2> QED
      BY <2>1, <2>2, <2>3
  <1> QED
    BY <1>1, <1>2, <1>3, <1>4 DEF AskedOK, NoneJoins

LEMMA SettlesAsked ==
  ASSUME AskedOK, RebuildSettles
  PROVE  AskedOK' /\ AwaitRebuild' = {} /\ builds' = builds /\ builds[ChatBuilder].pc \in Resting /\ NoneJoins
  <1>0. /\ GraphTypeOK /\ question \in [Questions -> Question] /\ ChatKey \in Keys
        /\ graphPath' = graphPath /\ reindexing' = FALSE /\ builds' = builds /\ builds[ChatBuilder].pc \in Resting
    BY ChatAssumption, KeyIsKey DEF AskedOK, RebuildSettles, checkoutVars, Key, ChatKey, At, Resting
  <1>1. GraphTypeOK'
    <2>1. graphs' = graphs \/ SetHandle(Gateway, ChatKey, Opening)
      BY DEF RebuildSettles
    <2>2. Opening \in Handles /\ Gateway \in Procs
      BY ChatAssumption DEF Handles
    <2>3. CASE graphs' = graphs
      BY <1>0, <2>3 DEF GraphTypeOK
    <2> QED
      BY <1>0, <2>1, <2>2, <2>3, HandleTyped
  <1> DEFINE pc == IF graphs[Gateway][ChatKey] = "open" THEN "turn" ELSE "open"
             w(q) == IF At(ChatBuilder, "failed") THEN [question[q] EXCEPT !.pc = "report"]
                     ELSE [question[q] EXCEPT !.key = ChatKey, !.pc = pc]
  <1>2. \A q \in Questions : question'[q] = IF q \notin AwaitRebuild THEN question[q] ELSE w(q)
    BY DEF RebuildSettles
  <1>3. question' = [q \in Questions |-> question'[q]]
    BY DEF RebuildSettles
  <1>4. ASSUME NEW q \in Questions PROVE question[q] \in Question /\ w(q) \in Question /\ w(q).pc # "rebuild"
    <2>1. pc \in QuestionPCs /\ "report" \in QuestionPCs /\ "none" \in Outcomes /\ pc # "rebuild" /\ question[q] \in Question
      BY <1>0 DEF QuestionPCs, Outcomes
    <2> HIDE DEF pc
    <2>2. w(q) \in Question
      BY <1>0, <2>1, QuestionTyped
    <2>3. w(q).pc \in {"report", pc}
      <3>1. question[q] = [pc |-> question[q].pc, key |-> question[q].key, turn |-> question[q].turn, end |-> question[q].end]
        BY <2>1 DEF Question
      <3> QED
        BY <3>1
    <2> QED
      BY <2>1, <2>2, <2>3
  <1> HIDE DEF w
  <1>5. question' \in [Questions -> Question]
    BY <1>2, <1>3, <1>4
  <1>6. \A q \in Questions : question'[q].pc # "rebuild"
    BY <1>2, <1>4 DEF AwaitRebuild, Q
  <1>7. AwaitRebuild' = {}
    BY <1>6 DEF AwaitRebuild, Q
  <1> QED
    BY <1>0, <1>1, <1>5, <1>6, <1>7 DEF AskedOK, NoneJoins

(***************************************************************************)
(* The chat                                                                *)
(***************************************************************************)
\* While the rebuild runs, or a question waits for it, the map has it.
RebuildInv ==
    /\ ChatBuilder \in Building => reindexing
    /\ AwaitRebuild # {} => reindexing

RebuildStep ==
    /\ ChatBuilder \in Building => ~(builds'[ChatBuilder].pc = "idle")
    /\ AwaitRebuild' # {} => reindexing'

ChatInv == VolumeOK /\ builds \in Builds /\ AskedOK /\ RetentionInv /\ RebuildInv

\* Every step keeps the types, and the map of rebuilds loses the job only when the
\* rebuild is over and nobody waits for it any more.
LEMMA AskedStep ==
  ASSUME VolumeOK, builds \in Builds, AskedOK, [ChatNext]_chatVars
  PROVE  /\ AskedOK'
         /\ \/ NoneJoins /\ NoneRestarts /\ reindexing' = reindexing
            \/ \E q \in Questions : Reindex(q) /\ reindexing'
            \/ AwaitRebuild' = {} /\ builds' = builds /\ builds[ChatBuilder].pc \in Resting
  <1>1. CASE \E b \in Builders : BuildStep(b) \/ (TooManyFiles(b) /\ UNCHANGED <<graphs, graphPath, question, reindexing>>)
    BY <1>1, BuildStepAsked
  <1>2. CASE \E p \in Procs, k \in Keys : HandleStep(p, k)
    BY <1>2, HandleStepAsked
  <1>3. CASE \E q \in Questions : Ask(q) \/ QuestionStep(q) \/ ChatThrows(q)
    BY <1>3, OneAsks DEF NoneRestarts
  <1>4. CASE RebuildSettles
    BY <1>4, SettlesAsked
  <1>5. CASE UNCHANGED chatVars
    BY <1>5 DEF chatVars, graphVars, checkoutVars, AskedOK, GraphTypeOK, NoneJoins, NoneRestarts
  <1> QED
    BY <1>1, <1>2, <1>3, <1>4, <1>5, Zenon DEF ChatNext

LEMMA RebuildKept ==
  ASSUME ChatInv, [ChatNext]_chatVars
  PROVE  RebuildInv' /\ RebuildStep
  <1>0. VolumeOK /\ builds \in Builds /\ builds' \in Builds /\ AskedOK /\ ChatBuilder \in Builders
    BY VolumeStep, ChatAssumption DEF ChatInv
  <1>1. /\ ChatBuilder \in Building <=> builds[ChatBuilder].pc \notin Resting
        /\ ChatBuilder \in Building' <=> builds'[ChatBuilder].pc \notin Resting
    BY <1>0 DEF Building, At, Resting
  <1>2. (ChatBuilder \in Building => reindexing) /\ (AwaitRebuild # {} => reindexing)
    BY DEF ChatInv, RebuildInv
  \* The rebuild builds when the map has it.
  <1>3. ChatBuilder \in Building' => reindexing
    <2>1. CASE \E b \in Builders : ListCheckouts(b) /\ MayBuild(b)
      <3>1. PICK b \in Builders : ListCheckouts(b) /\ MayBuild(b)
        BY <2>1
      <3>2. \A x \in Builders \ {b} : builds'[x] = builds[x]
        BY <1>0, <3>1, ListGives DEF VolumeOK
      <3> QED
        BY <1>0, <1>1, <1>2, <3>1, <3>2 DEF MayBuild
    <2>2. CASE BuildFrame \/ \E b \in Builders : Mkdir(b)
      <3>1. BuildFrame
        BY <1>0, <2>2, MkdirGives
      <3> QED
        BY <1>0, <1>1, <1>2, <3>1 DEF BuildFrame
    <2> QED
      BY <1>0, <2>1, <2>2, VolumeStep
  <1>4. CASE NoneJoins /\ NoneRestarts /\ reindexing' = reindexing
    <2>1. AwaitRebuild' \subseteq AwaitRebuild
      BY <1>4 DEF NoneJoins, AwaitRebuild, Q
    <2>2. builds'[ChatBuilder].pc = "idle" => builds[ChatBuilder].pc = "idle"
      BY <1>0, <1>4 DEF NoneRestarts
    <2>3. AwaitRebuild' # {} => reindexing'
      BY <1>2, <1>4, <2>1
    <2>4. ChatBuilder \in Building => builds'[ChatBuilder].pc # "idle"
      BY <1>1, <2>2 DEF Resting
    <2> QED
      BY <1>3, <1>4, <2>3, <2>4 DEF RebuildInv, RebuildStep
  <1>5. CASE \E q \in Questions : Reindex(q) /\ reindexing'
    <2>1. reindexing \/ ChatBuilder \notin Building
      BY <1>2
    <2>2. builds' = builds \/ ~reindexing
      BY <1>5 DEF Reindex
    <2>3. ChatBuilder \in Building => builds'[ChatBuilder].pc # "idle"
      <3>1. CASE reindexing
        BY <1>1, <2>2, <3>1 DEF Resting
      <3>2. CASE ~reindexing
        BY <1>2, <3>2
      <3> QED
        BY <3>1, <3>2
    <2> QED
      BY <1>5, <2>3 DEF RebuildInv, RebuildStep
  <1>6. CASE AwaitRebuild' = {} /\ builds' = builds /\ builds[ChatBuilder].pc \in Resting
    BY <1>1, <1>6 DEF RebuildInv, RebuildStep
  <1> QED
    BY <1>0, <1>4, <1>5, <1>6, AskedStep

LEMMA ChatStarts == ChatInit => ChatInv
  <1> SUFFICES ASSUME ChatInit PROVE ChatInv
    OBVIOUS
  <1>0. /\ disk = [k \in Keys |-> NoDir] /\ byAge = [k \in {} |-> {}] /\ archives = {}
        /\ builds = [b \in Builders |-> [pc |-> "idle", stale |-> {}, beside |-> 0]]
        /\ graphs = [p \in Procs |-> [k \in Keys |-> Absent]] /\ graphPath = NoPath
        /\ question = [q \in Questions |-> [Asked EXCEPT !.pc = "idle"]] /\ reindexing = FALSE
    BY DEF ChatInit, CheckoutInit, GraphInit
  <1>1. Dirs = {}
    BY <1>0 DEF Dirs
  <1>2. VolumeOK
    <2>1. disk \in [Keys -> Checkout]
      BY <1>0 DEF NoDir, Checkout
    <2>2. AgeOrdered
      BY <1>0, <1>1 DEF AgeOrdered
    <2> QED
      BY <1>0, <2>1, <2>2 DEF VolumeOK, GoneIsEmpty
  <1>3. builds \in Builds
    <2>1. 0 \in 0..Cardinality(Builders)
      BY CheckoutAssumption, FS_CardinalityType
    <2> QED
      BY <1>0, <2>1 DEF Builds, BuildPCs
  <1>4. AskedOK
    BY <1>0, AskedTyped DEF AskedOK, GraphTypeOK, Handles
  <1>5. \A b \in Builders : builds[b].pc = "idle" /\ builds[b].beside = 0
    BY <1>0
  <1>6. RetentionInv
    <2>1. Builders # {} /\ Keep - 1 \in Nat
      BY CheckoutAssumption, ChatAssumption
    <2>2. Peak = 0
      <3>1. \E b \in Builders : builds[b].beside = MostOf(builds)
        BY <1>3, <2>1, MostBeside
      <3> QED
        BY <1>5, <3>1 DEF Peak, MostOf
    <2>3. \A n \in Nat : Tight(n) = {}
      BY <1>5 DEF Tight, Pruning
    <2>4. Cardinality({}) = 0
      BY FS_EmptySet
    <2>5. RoomForAll
      BY <2>3, <2>4 DEF RoomForAll
    <2> QED
      BY <1>1, <2>1, <2>2, <2>4, <2>5 DEF RetentionInv
  <1>7. RebuildInv
    <2>1. ChatBuilder \notin Building
      BY <1>5 DEF Building, At
    <2>2. AwaitRebuild = {}
      BY <1>0 DEF AwaitRebuild, Q, Asked
    <2> QED
      BY <2>1, <2>2 DEF RebuildInv
  <1> QED
    BY <1>2, <1>3, <1>4, <1>6, <1>7 DEF ChatInv

LEMMA ChatInvariant == ChatSpec => []ChatInv
  <1>1. ASSUME ChatInv, [ChatNext]_chatVars PROVE ChatInv'
    <2>1. VolumeOK /\ builds \in Builds /\ AskedOK /\ RetentionInv
      BY <1>1 DEF ChatInv
    <2>2. VolumeOK' /\ builds' \in Builds
      BY <1>1, <2>1, VolumeStep
    <2>3. AskedOK'
      BY <1>1, <2>1, AskedStep
    <2>4. RetentionInv'
      BY <1>1, <2>1, RetentionKept
    <2> QED
      BY <1>1, <2>2, <2>3, <2>4, RebuildKept DEF ChatInv
  <1> QED
    BY ChatStarts, <1>1, PTL DEF ChatSpec

\* Whatever builders there are and however their listings, deletions, extractions
\* and indexing interleave, downloadAndExtract keeps no more checkouts than the
\* limit and one for each builder that ran beside another.
THEOREM RetentionHolds == ChatSpec => []RetentionBounded
  <1>1. ChatInv => RetentionBounded
    BY DEF ChatInv, RetentionInv, RetentionBounded
  <1> QED
    BY ChatInvariant, <1>1, PTL

\* However many questions come at a time, ensureGraph starts no rebuild while one
\* runs, and none of them waits for a rebuild that the map has forgotten.
THEOREM OneRebuildAtATime == ChatSpec => OneRebuild
  <1>1. ChatInv /\ [ChatNext]_chatVars =>
          [/\ ChatBuilder \in Building => ~(builds'[ChatBuilder].pc = "idle")
           /\ AwaitRebuild' # {} => reindexing']_chatVars
    BY RebuildKept DEF RebuildStep
  <1> QED
    BY ChatInvariant, <1>1, PTL DEF ChatSpec, OneRebuild

LEMMA ChatTypes == ChatInv => ChatTypeOK
  BY CheckoutTypeParts DEF ChatInv, AskedOK, ChatTypeOK

(***************************************************************************)
(* The components side by side                                             *)
(***************************************************************************)
\* Each component runs as it does alone.
LEMMA ComponentsRunAlone ==
  ComponentsFair => /\ Init /\ [][Next]_vars /\ LoopSpec /\ RendererSpec /\ ChatSpec /\ LimitSpec
  <1>1. ComponentsInit => Init /\ LoopInit /\ RendererInit /\ ChatInit /\ LimitInit
    BY DEF ComponentsInit
  <1>2. [ComponentsNext]_componentVars =>
          /\ [Next]_vars /\ [LoopNext]_loopVars /\ [RendererNext]_rendererVars
          /\ [ChatNext]_chatVars /\ [LimitNext]_limitVars
    BY Zenon DEF ComponentsNext, componentVars, gateVars, GateMoves, LoopMoves, RendererMoves, ChatMoves, LimitMoves
  <1> QED
    BY <1>1, <1>2, PTL DEF ComponentsFair, LoopSpec, RendererSpec, ChatSpec, LimitSpec

\* The gate, the tool loop, the renderer, the checkouts with the chat and the
\* submission counter keep to the types their code declares, in every state of
\* any of them; a checkout that has gone has neither files nor index.
THEOREM ComponentsTypeCorrect == ComponentsFair => []ComponentTypesOK
  <1>1. IInv => TypeOK
    BY DEF IInv
  <1>2. LoopInv => LoopTypeOK
    <2> SUFFICES ASSUME LoopInv PROVE LoopTypeOK
      OBVIOUS
    <2>1. \A a \in Runners : loop[a] \in Loop
      BY DEF LoopInv, Fit
    <2>2. [a \in Runners |-> loop[a]] \in [Runners -> Loop]
      BY <2>1
    <2> QED
      BY <2>2, Zenon DEF LoopInv, LoopTypeOK
  <1>3. RendererInv => RendererTypeOK
    BY DEF RendererInv
  <1>4. LimitInv => LimitTypeOK
    BY DEF LimitInv
  <1>5. Init /\ [][Next]_vars => []IInv
    BY GateInit, GateStep, PTL
  <1>6. TypeOK /\ LoopTypeOK /\ RendererTypeOK /\ ChatTypeOK /\ LimitTypeOK <=> ComponentTypesOK
    BY DEF ComponentTypesOK
  <1> QED
    BY ComponentsRunAlone, LoopInvariant, RendererInvariant, ChatInvariant, ChatTypes, LimitInvariant,
       <1>1, <1>2, <1>3, <1>4, <1>5, <1>6, PTL
=============================================================================
