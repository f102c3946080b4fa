-------------------------- MODULE ServicesProofs --------------------------
(***************************************************************************)
(* Theorems about the services of the gateway that only keep rows, the     *)
(* accounts of users and the share links of reports, for every number of   *)
(* concurrent requests and every bound, and about their composition with   *)
(* the computations.                                                       *)
(***************************************************************************)
EXTENDS MCServices, AlgorithmsProofs

(***************************************************************************)
(* Share links                                                             *)
(***************************************************************************)
\* What the proofs need of the types: not that LiveLink names the newest link.
Shape == share \in Seq({"live", "revoked"}) /\ DOMAIN sharer = Sharers

SharesInv == Shape /\ RevokedTogether

LEMMA SharesStart == SharesInit => SharesInv
  BY DEF SharesInit, SharesInv, Shape, RevokedTogether, Links

LEMMA ShapeKept == Shape /\ [SharesNext]_shareVars => Shape'
  <1> SUFFICES ASSUME Shape, [SharesNext]_shareVars PROVE Shape'
    OBVIOUS
  <1>1. share' \in Seq({"live", "revoked"})
    <2>1. ASSUME RevokeLinks PROVE share' \in Seq({"live", "revoked"})
      <3>1. share' = [l \in 1..Len(share) |-> "revoked"] /\ Len(share) \in Nat
        BY <2>1 DEF RevokeLinks, Shape, Links
      <3> QED
        BY <3>1
    <2> QED
      BY <2>1 DEF Shape, SharesNext, shareVars, FindLink, CreateLink, ShareAgain
  <1>2. DOMAIN sharer' = Sharers
    BY DEF Shape, SharesNext, shareVars, FindLink, CreateLink, ShareAgain, RevokeLinks
  <1> QED
    BY <1>1, <1>2 DEF Shape

LEMMA RevokedKept == Shape /\ RevokedTogether /\ [SharesNext]_shareVars => RevokedTogether'
  <1> SUFFICES ASSUME Shape, RevokedTogether, [SharesNext]_shareVars PROVE RevokedTogether'
    OBVIOUS
  <1>1. ASSUME NEW s \in Sharers, CreateLink(s) PROVE RevokedTogether'
    <2>1. /\ Links = 1..Len(share) /\ Links' = 1..(Len(share) + 1) /\ Len(share) \in Nat
          /\ share'[Len(share) + 1] = "live" /\ \A l \in Links : share'[l] = share[l]
      BY <1>1 DEF CreateLink, Shape, Links
    <2> QED
      BY <2>1 DEF RevokedTogether
  <1>2. ASSUME RevokeLinks PROVE RevokedTogether'
    BY <1>2 DEF RevokeLinks, RevokedTogether, Links
  <1>3. CASE UNCHANGED share
    BY <1>3 DEF RevokedTogether, Links
  <1> QED
    BY <1>1, <1>2, <1>3 DEF SharesNext, shareVars, FindLink, ShareAgain

\* The two together are inductive.
THEOREM SharesInvariant == SharesSpec => []SharesInv
  <1>1. SharesInv /\ [SharesNext]_shareVars => SharesInv'
    BY ShapeKept, RevokedKept DEF SharesInv
  <1> QED
    BY SharesStart, <1>1, PTL DEF SharesSpec

\* revokeLinks leaves no older link live, whatever raced with it.
THEOREM RevocationIsWhole == SharesSpec => []RevokedTogether
  <1>1. SharesInv => RevokedTogether
    BY DEF SharesInv
  <1> QED
    BY SharesInvariant, <1>1, PTL

(***************************************************************************)
(* Accounts                                                                *)
(***************************************************************************)
\* A request that holds the id of a row it has seen, or has just lost the race
\* for one, relies on that row being there.
Holding == {"refresh", "save", "work", "owner", "token", "store", "repos", "job"}
Served(w, r) ==
    /\ w.pc \in Holding => r.there /\ w.id = r.id
    /\ w.pc = "reread" /\ ~w.clash => r.there

\* An account that is there has no deletion on its way, so its row, once made,
\* is the one every request has seen.
RowHeld ==
    clerk.there => /\ \A h \in hooks : h.kind = "sync"
                   /\ \A v \in Visits : Served(visit[v], row)

\* Tries count errors, and a request has no end before it is over.
TriesAreBlips == \A v \in Visits : visit[v].tries <= blips
Underway(w) == w.pc # "over" => w.end = "none"
EndsAtTheEnd == \A v \in Visits : Underway(visit[v])

\* Only a shared GitHub account is another user's.
RivalShares ==
    /\ rival => "shared" \in Trouble
    /\ \A v \in Visits : visit[v].clash => "shared" \in Trouble

\* What RequestsSurvive allows an end of a user's request.
Excused(w, b) ==
    /\ w.end = "turnedAway" => b > 2 \/ w.clash
    /\ w.end = "error" => b > 0 \/ w.clash

AccountsInv ==
    AccountsTypeOK /\ RowHeld /\ TriesAreBlips /\ EndsAtTheEnd /\ RivalShares /\ RequestsSurvive

\* What a step does to the row unless it is a deletion: the row stays the same
\* user's, and what was known of the user stays known.
RowKept == row.there => /\ row'.there /\ row'.id = row.id
                        /\ row.said.profile => row'.said.profile
                        /\ row.said.github => row'.said.github

LEMMA NewVisitType ==
  /\ NewVisit \in Visit /\ NewVisit.pc = "over" /\ NewVisit.tries = 0 /\ NewVisit.end = "none"
  /\ NewVisit.clash = FALSE
  BY AccountAssumption DEF NewVisit, Visit, VisitPCs, VisitEnds, Said, Nothing

LEMMA AccountsStart == AccountsInit => AccountsInv
  <1> SUFFICES ASSUME AccountsInit PROVE AccountsInv
    OBVIOUS
  <1>1. visit = [v \in Visits |-> NewVisit] /\ blips = 0 /\ rival = FALSE
    BY DEF AccountsInit
  <1>2. AccountsTypeOK
    <2>1. clerk \in [linked : BOOLEAN, there : BOOLEAN] /\ hooks \subseteq Event
      BY DEF AccountsInit, Event, Said
    <2>2. row \in User /\ ~row.token
      BY AccountAssumption DEF AccountsInit, User, Said, Nothing
    <2>3. visit \in [Visits -> Visit] /\ rival \in BOOLEAN
      BY NewVisitType, <1>1
    <2>4. blips \in 0..MaxBlips
      BY <1>1, AccountAssumption
    <2> QED
      BY <2>1, <2>2, <2>3, <2>4, Zenon DEF AccountsTypeOK
  <1>3. RowHeld
    BY NewVisitType DEF RowHeld, Served, Holding, AccountsInit
  <1> QED
    BY NewVisitType, <1>1, <1>2, <1>3
       DEF AccountsInv, TriesAreBlips, EndsAtTheEnd, Underway, RivalShares, RequestsSurvive

\* upsertUser leaves a row that has at least what it had.
LEMMA UpsertGives ==
  ASSUME AccountsTypeOK, NEW said \in Said, Upsert(said)
  PROVE  row' \in User /\ row'.there /\ (row'.token => row'.there) /\ RowKept
  <1>1. row \in User /\ row.said \in Said /\ (row.token => row.there)
    BY DEF AccountsTypeOK, User
  <1>2. CASE row.there
    <2>1. PICK p \in BOOLEAN, g \in BOOLEAN, stale \in BOOLEAN :
            /\ row.said.profile => p
            /\ row.said.github => g
            /\ row' = [row EXCEPT !.said = [profile |-> p, github |-> g], !.stale = stale]
      <3>1. row.stale \in BOOLEAN
        BY <1>1 DEF User
      <3> DEFINE p == said.profile \/ row.said.profile
                 g == said.github \/ row.said.github
      <3>2. PICK stale \in BOOLEAN : row' = [row EXCEPT !.said = [profile |-> p, github |-> g], !.stale = stale]
        BY <1>2, <3>1, Zenon DEF Upsert
      <3>3. p \in BOOLEAN /\ g \in BOOLEAN /\ (row.said.profile => p) /\ (row.said.github => g)
        BY Zenon
      <3> HIDE DEF p, g
      <3> QED
        BY <3>2, <3>3
    <2>2. [profile |-> p, github |-> g] \in Said
      BY <2>1 DEF Said
    <2>3. row' \in User
      BY <1>1, <2>1, <2>2 DEF User
    <2>4. row'.there = row.there /\ row'.id = row.id /\ row'.said = [profile |-> p, github |-> g]
      BY <1>1, <2>1 DEF User
    <2>5. row'.said.profile = p /\ row'.said.github = g
      BY <2>4
    <2> QED
      BY <1>2, <2>1, <2>3, <2>4, <2>5 DEF RowKept
  <1>3. CASE ~row.there
    <2>1. row.id < MaxRows /\ row' = [id |-> row.id + 1, there |-> TRUE, said |-> said, token |-> FALSE, stale |-> FALSE]
      BY <1>3 DEF Upsert
    <2>2. row.id + 1 \in 0..MaxRows
      BY <1>1, <2>1, AccountAssumption DEF User
    <2> QED
      BY <1>3, <2>1, <2>2 DEF User, RowKept
  <1> QED
    BY <1>2, <1>3

\* A stored token is of a row that is there, and takes nothing back.
LEMMA StoreGives ==
  ASSUME AccountsTypeOK, NEW v \in Visits, StoreToken(v)
  PROVE  row' \in User /\ (row'.token => row'.there) /\ RowKept
  <1>1. row \in User /\ row.said \in Said /\ (row.token => row.there)
    BY DEF AccountsTypeOK, User
  <1>2. CASE row.there /\ row.id = visit[v].id /\ row' # row
    <2>1. PICK g \in BOOLEAN :
            /\ row.said.github => g
            /\ row' = [row EXCEPT !.token = TRUE, !.stale = FALSE, !.said.github = g]
      <3>1. PICK identity \in BOOLEAN :
              row' = [row EXCEPT !.token = TRUE, !.stale = FALSE, !.said.github = @ \/ identity]
        BY <1>2, Zenon DEF StoreToken
      <3> DEFINE g == row.said.github \/ identity
      <3>2. row' = [row EXCEPT !.token = TRUE, !.stale = FALSE, !.said.github = g]
        BY <3>1, Zenon
      <3>3. g \in BOOLEAN /\ (row.said.github => g)
        BY Zenon
      <3> HIDE DEF g
      <3> QED
        BY <3>2, <3>3
    <2>2. row'.said = [row.said EXCEPT !.github = g] /\ row'.there = row.there /\ row'.id = row.id
      BY <1>1, <2>1 DEF User
    <2>3. row'.said.profile = row.said.profile /\ row'.said.github = g
      BY <1>1, <2>2 DEF Said
    <2>4. row' \in User
      BY <1>1, <2>1 DEF User, Said
    <2> QED
      BY <1>2, <2>1, <2>2, <2>3, <2>4 DEF RowKept
  <1>3. CASE ~(row.there /\ row.id = visit[v].id) \/ row' = row
    <2>1. row' = row
      BY <1>3, Zenon DEF StoreToken
    <2> QED
      BY <1>1, <2>1 DEF RowKept
  <1> QED
    BY <1>2, <1>3

LEMMA RowStep ==
  ASSUME AccountsTypeOK, [AccountsNext]_accountVars
  PROVE  /\ row' \in User /\ (row'.token => row'.there)
         /\ RowKept \/ \E h \in hooks : h.kind = "delete" /\ ~row'.there
  <1>1. row \in User /\ (row.token => row.there) /\ \A v \in Visits : visit[v].said \in Said
    BY DEF AccountsTypeOK, Visit
  <1>2. CASE UNCHANGED row
    BY <1>1, <1>2 DEF RowKept
  <1>3. ASSUME NEW said \in Said, Upsert(said)
        PROVE  row' \in User /\ (row'.token => row'.there) /\ RowKept
    BY <1>3, UpsertGives
  <1>4. ASSUME NEW h \in hooks, HookDelivered(h)
        PROVE  /\ row' \in User /\ (row'.token => row'.there)
               /\ RowKept \/ (h.kind = "delete" /\ ~row'.there)
    <2>1. h \in Event /\ h.said \in Said
      BY DEF AccountsTypeOK, Event
    <2>2. CASE h.kind = "sync"
      <3>1. Upsert(h.said)
        BY <1>4, <2>2, Zenon DEF HookDelivered
      <3> QED
        BY <1>3, <2>1, <3>1
    <2>3. CASE h.kind # "sync"
      <3>1. h.kind = "delete"
        BY <2>1, <2>3 DEF Event
      <3>2. row' = [row EXCEPT !.there = FALSE, !.token = FALSE]
        BY <1>4, <2>3, Zenon DEF HookDelivered
      <3>3. row' \in User /\ ~row'.there /\ ~row'.token
        BY <1>1, <3>2 DEF User
      <3> QED
        BY <3>1, <3>3
    <2> QED
      BY <2>2, <2>3
  <1>5. ASSUME HourPasses
        PROVE  row' \in User /\ (row'.token => row'.there) /\ RowKept
    <2>1. row' = [row EXCEPT !.stale = row.there]
      BY <1>5 DEF HourPasses
    <2> QED
      BY <1>1, <2>1 DEF User, RowKept
  <1>6. ASSUME NEW v \in Visits, SaveRefreshed(v) \/ MintUser(v)
        PROVE  UNCHANGED row \/ Upsert(visit[v].said)
    BY <1>6, Zenon DEF SaveRefreshed, MintUser
  <1>7. ASSUME NEW v \in Visits, VisitStep(v), ~SaveRefreshed(v), ~MintUser(v), ~StoreToken(v)
        PROVE  UNCHANGED row
    BY <1>7, Zenon DEF VisitStep, FindUser, Refresh, FetchProfile, RereadWinner, Work, FindOwner, GetToken,
                       FetchRepos, OverlayJobs, CreateJob
  <1>8. ASSUME NEW v \in Visits, VisitStep(v)
        PROVE  row' \in User /\ (row'.token => row'.there) /\ RowKept
    <2>1. CASE SaveRefreshed(v) \/ MintUser(v)
      BY <1>1, <1>2, <1>3, <1>6, <2>1 DEF RowKept
    <2>2. CASE StoreToken(v)
      BY <2>2, StoreGives
    <2>3. CASE ~SaveRefreshed(v) /\ ~MintUser(v) /\ ~StoreToken(v)
      BY <1>1, <1>7, <1>8, <2>3 DEF RowKept
    <2> QED
      BY <2>1, <2>2, <2>3
  <1>9. ASSUME NEW v \in Visits, Blip(v) \/ BlipUnretried(v) \/ Arrive(v)
        PROVE  UNCHANGED row
    BY <1>9, Zenon DEF Blip, BlipUnretried, Arrive, Outside
  <1>10. CASE EditAccount \/ DeleteAccount \/ OtherLinks
    BY <1>2, <1>10 DEF EditAccount, DeleteAccount, OtherLinks
  <1>11. CASE UNCHANGED accountVars
    BY <1>2, <1>11 DEF accountVars
  <1> QED
    BY <1>2, <1>4, <1>5, <1>8, <1>9, <1>10, <1>11, Zenon DEF AccountsNext

\* What becomes of a request in one of its steps: it keeps to the row while its
\* account is there, and fails only over errors of the database or a clash.
VisitMoves(v, w) ==
    /\ w \in Visit /\ visit' = [visit EXCEPT ![v] = w]
    /\ blips' \in 0..MaxBlips /\ blips' >= blips
    /\ hooks' = hooks /\ clerk' = clerk /\ rival' = rival
    /\ visit[v].tries <= blips => w.tries <= blips'
    /\ Underway(w)
    /\ w.clash => visit[v].clash \/ rival
    /\ clerk.there /\ Served(visit[v], row) /\ visit[v].tries <= blips => Served(w, row') /\ Excused(w, blips')

Aside == clerk' = clerk /\ hooks' = hooks /\ rival' = rival /\ blips' = blips

\* A step that is not an error, by what it makes of the request.
LEMMA PlainMove ==
  ASSUME AccountsTypeOK, NEW v \in Visits, NEW w \in Visit, SetVisit(v, w), Aside,
         w.tries = 0 \/ w.tries = visit[v].tries,
         Underway(w), w.clash => visit[v].clash \/ rival,
         clerk.there /\ Served(visit[v], row) => Served(w, row') /\ Excused(w, blips)
  PROVE  VisitMoves(v, w)
  <1>1. blips' = blips /\ hooks' = hooks /\ clerk' = clerk /\ rival' = rival /\ blips \in 0..MaxBlips
    BY DEF Aside, AccountsTypeOK
  <1>2. visit' = [visit EXCEPT ![v] = w]
    BY DEF SetVisit
  <1> QED
    BY <1>1, <1>2, AccountAssumption DEF VisitMoves

\* The three ways on that most steps take.
LEMMA GotoGives ==
  ASSUME AccountsTypeOK, NEW v \in Visits, NEW pc \in VisitPCs, VisitGoto(v, pc)
  PROVE  \E w \in Visit : /\ SetVisit(v, w) /\ w.pc = pc /\ w.id = visit[v].id
                          /\ w.tries = 0 /\ w.end = visit[v].end /\ w.clash = visit[v].clash
  <1> DEFINE w == [visit[v] EXCEPT !.pc = pc, !.tries = 0]
  <1>1. visit[v] \in Visit
    BY DEF AccountsTypeOK
  <1>2. w.pc = pc /\ w.id = visit[v].id /\ w.tries = 0 /\ w.end = visit[v].end /\ w.clash = visit[v].clash
    BY <1>1, Zenon DEF Visit
  <1>3. w \in Visit
    <2>1. 0 \in 0..2
      OBVIOUS
    <2> QED
      BY <1>1, <2>1, Zenon DEF Visit
  <1>4. SetVisit(v, w)
    BY DEF VisitGoto
  <1> QED
    BY <1>2, <1>3, <1>4

LEMMA ServeGives ==
  ASSUME AccountsTypeOK, NEW v \in Visits, ServeSeen(v)
  PROVE  \E w \in Visit : /\ SetVisit(v, w) /\ w.pc = "work" /\ w.id = visit[v].id
                          /\ w.tries = 0 /\ w.end = visit[v].end /\ w.clash = visit[v].clash
  <1> DEFINE w == [visit[v] EXCEPT !.pc = "work", !.said = Nothing, !.tries = 0]
  <1>1. visit[v] \in Visit
    BY DEF AccountsTypeOK
  <1>2. "work" \in VisitPCs /\ Nothing \in Said /\ 0 \in 0..2
    BY DEF VisitPCs, Nothing, Said
  <1>3. w \in Visit /\ w.pc = "work" /\ w.id = visit[v].id /\ w.tries = 0 /\ w.end = visit[v].end /\ w.clash = visit[v].clash
    BY <1>1, <1>2, Zenon DEF Visit
  <1>4. SetVisit(v, w)
    BY DEF ServeSeen
  <1> QED
    BY <1>3, <1>4

LEMMA EndGives ==
  ASSUME AccountsTypeOK, NEW v \in Visits, NEW end \in VisitEnds, NEW clash \in BOOLEAN, VisitFails(v, end, clash)
  PROVE  \E w \in Visit : SetVisit(v, w) /\ w.pc = "over" /\ w.tries = 0 /\ w.end = end /\ w.clash = clash
  <1> DEFINE w == [NewVisit EXCEPT !.end = end, !.clash = clash]
  <1>1. w \in Visit /\ w.pc = "over" /\ w.tries = 0 /\ w.end = end /\ w.clash = clash
    BY NewVisitType, Zenon DEF Visit
  <1>2. SetVisit(v, w)
    BY DEF VisitFails
  <1> QED
    BY <1>1, <1>2

LEMMA FailMoves ==
  ASSUME AccountsTypeOK, NEW v \in Visits, NEW end \in VisitEnds, NEW clash \in BOOLEAN,
         VisitFails(v, end, clash), Aside, clash => visit[v].clash \/ rival,
         clerk.there /\ Served(visit[v], row) => clash \/ end \notin {"turnedAway", "error"}
  PROVE  \E w \in Visit : VisitMoves(v, w)
  <1>1. PICK w \in Visit : SetVisit(v, w) /\ w.pc = "over" /\ w.tries = 0 /\ w.end = end /\ w.clash = clash
    BY EndGives
  <1>2. Served(w, row') /\ Underway(w)
    BY <1>1 DEF Served, Holding, Underway
  <1>3. clerk.there /\ Served(visit[v], row) => Excused(w, blips)
    BY <1>1 DEF Excused
  <1>4. VisitMoves(v, w)
    BY <1>1, <1>2, <1>3, PlainMove
  <1> QED
    BY <1>4

LEMMA EndMoves ==
  ASSUME AccountsTypeOK, NEW v \in Visits, NEW end \in VisitEnds, VisitEnd(v, end), Aside,
         end \in {"turnedAway", "error"} => ~(clerk.there /\ Served(visit[v], row))
  PROVE  \E w \in Visit : VisitMoves(v, w)
  <1>1. VisitFails(v, end, FALSE)
    BY DEF VisitEnd
  <1> QED
    BY <1>1, FailMoves

LEMMA GotoMoves ==
  ASSUME AccountsTypeOK, NEW v \in Visits, NEW pc \in VisitPCs, VisitGoto(v, pc), Aside,
         visit[v].end = "none",
         clerk.there /\ Served(visit[v], row) =>
            /\ pc \in Holding => row'.there /\ visit[v].id = row'.id
            /\ pc = "reread" => row'.there
  PROVE  \E w \in Visit : VisitMoves(v, w)
  <1>1. PICK w \in Visit : /\ SetVisit(v, w) /\ w.pc = pc /\ w.id = visit[v].id
                           /\ w.tries = 0 /\ w.end = visit[v].end /\ w.clash = visit[v].clash
    BY GotoGives
  <1>2. clerk.there /\ Served(visit[v], row) => Served(w, row')
    BY <1>1 DEF Served
  <1>3. Excused(w, blips) /\ Underway(w)
    BY <1>1 DEF Excused, Underway
  <1>4. VisitMoves(v, w)
    BY <1>1, <1>2, <1>3, PlainMove
  <1> QED
    BY <1>4

LEMMA ServeMoves ==
  ASSUME AccountsTypeOK, NEW v \in Visits, ServeSeen(v), Aside, row' = row,
         visit[v].pc \in Holding, visit[v].end = "none"
  PROVE  \E w \in Visit : VisitMoves(v, w)
  <1>1. PICK w \in Visit : /\ SetVisit(v, w) /\ w.pc = "work" /\ w.id = visit[v].id
                           /\ w.tries = 0 /\ w.end = visit[v].end /\ w.clash = visit[v].clash
    BY ServeGives
  <1>2. Served(visit[v], row) => Served(w, row')
    BY <1>1 DEF Served
  <1>3. Excused(w, blips) /\ Underway(w)
    BY <1>1 DEF Excused, Underway
  <1>4. VisitMoves(v, w)
    BY <1>1, <1>2, <1>3, PlainMove
  <1> QED
    BY <1>4

LEMMA ClerkMoves ==
  ASSUME AccountsTypeOK, NEW v \in Visits, NEW next \in VisitPCs, ClerkAnswers(v, next), row' = row, Aside,
         next \notin Holding \/ visit[v].pc \in Holding, next # "reread", visit[v].end = "none"
  PROVE  \E w \in Visit : VisitMoves(v, w)
  <1>1. PICK said \in Said : SetVisit(v, [visit[v] EXCEPT !.pc = next, !.said = said])
    <2>1. PICK g \in {FALSE, clerk.linked} :
            SetVisit(v, [visit[v] EXCEPT !.pc = next, !.said = [profile |-> TRUE, github |-> g]])
      BY Zenon DEF ClerkAnswers
    <2>2. g \in BOOLEAN
      BY DEF AccountsTypeOK
    <2>3. [profile |-> TRUE, github |-> g] \in Said
      BY <2>2 DEF Said
    <2> QED
      BY <2>1, <2>3
  <1> DEFINE w == [visit[v] EXCEPT !.pc = next, !.said = said]
  <1>2. visit[v] \in Visit
    BY DEF AccountsTypeOK
  <1>3. /\ w \in Visit /\ w.pc = next /\ w.id = visit[v].id /\ w.tries = visit[v].tries
        /\ w.end = visit[v].end /\ w.clash = visit[v].clash
    BY <1>2, Zenon DEF Visit
  <1>4. SetVisit(v, w)
    BY <1>1
  <1> HIDE DEF w
  <1>5. Served(visit[v], row) => Served(w, row')
    BY <1>3 DEF Served
  <1>6. Excused(w, blips) /\ Underway(w)
    BY <1>3 DEF Excused, Underway
  <1>7. VisitMoves(v, w)
    BY <1>3, <1>4, <1>5, <1>6, PlainMove
  <1> QED
    BY <1>3, <1>7

\* Whoever has come to work has the row that is there.
LEMMA WorkMoves ==
  ASSUME AccountsTypeOK, NEW v \in Visits, row'.there, row'.id \in 0..MaxRows, Aside, ToWork(v), visit[v].end = "none"
  PROVE  \E w \in Visit : VisitMoves(v, w)
  <1> DEFINE w == [visit[v] EXCEPT !.pc = "work", !.id = row'.id, !.said = Nothing, !.tries = 0, !.clash = FALSE]
  <1>1. visit[v] \in Visit
    BY DEF AccountsTypeOK
  <1>2. "work" \in VisitPCs /\ Nothing \in Said /\ 0 \in 0..2
    BY DEF VisitPCs, Nothing, Said
  <1>3. /\ w \in Visit /\ w.pc = "work" /\ w.id = row'.id /\ w.tries = 0
        /\ w.end = visit[v].end /\ w.clash = FALSE
    BY <1>1, <1>2, Zenon DEF Visit
  <1>4. SetVisit(v, w)
    BY DEF ToWork
  <1> HIDE DEF w
  <1>5. Served(w, row') /\ Excused(w, blips) /\ Underway(w)
    BY <1>3 DEF Served, Excused, Underway
  <1>6. VisitMoves(v, w)
    BY <1>3, <1>4, <1>5, PlainMove
  <1> QED
    BY <1>3, <1>6

\* An error of the database is one more try, and at the third a failure.
LEMMA BlipMoves ==
  ASSUME AccountsTypeOK, NEW v \in Visits, Blip(v), Underway(visit[v])
  PROVE  \E w \in Visit : VisitMoves(v, w)
  <1>0. /\ visit[v] \in Visit /\ visit[v].tries \in 0..2 /\ MaxBlips \in Nat
        /\ blips \in 0..MaxBlips /\ blips < MaxBlips /\ blips' = blips + 1
        /\ clerk' = clerk /\ hooks' = hooks /\ row' = row /\ rival' = rival
        /\ visit[v].end = "none"
    BY AccountAssumption DEF AccountsTypeOK, Visit, Blip, Underway
  <1>1. CASE visit[v].tries < 2
    <2> DEFINE w == [visit[v] EXCEPT !.tries = @ + 1]
    <2>1. visit[v].tries + 1 \in 0..2
      BY <1>0, <1>1
    <2>2. /\ w \in Visit /\ w.pc = visit[v].pc /\ w.id = visit[v].id /\ w.tries = visit[v].tries + 1
          /\ w.end = visit[v].end /\ w.clash = visit[v].clash
      BY <1>0, <2>1, Zenon DEF Visit
    <2>3. visit' = [visit EXCEPT ![v] = w]
      BY <1>1, Zenon DEF Blip, SetVisit
    <2> HIDE DEF w
    <2>4. Served(visit[v], row) => Served(w, row')
      BY <1>0, <2>2 DEF Served
    <2>5. Excused(w, blips') /\ Underway(w)
      BY <1>0, <2>2 DEF Excused, Underway
    <2>6. VisitMoves(v, w)
      BY <1>0, <2>2, <2>3, <2>4, <2>5 DEF VisitMoves
    <2> QED
      BY <2>2, <2>6
  <1>2. CASE ~(visit[v].tries < 2) /\ visit[v].pc = "save"
    <2>1. ServeSeen(v)
      BY <1>2, Zenon DEF Blip, VisitAt
    <2>2. PICK w \in Visit : /\ SetVisit(v, w) /\ w.pc = "work" /\ w.id = visit[v].id
                             /\ w.tries = 0 /\ w.end = visit[v].end /\ w.clash = visit[v].clash
      BY <2>1, ServeGives
    <2>3. Served(visit[v], row) => Served(w, row')
      BY <1>0, <1>2, <2>2 DEF Served, Holding
    <2>4. Excused(w, blips') /\ Underway(w)
      BY <1>0, <2>2 DEF Excused, Underway
    <2>5. VisitMoves(v, w)
      BY <1>0, <2>2, <2>3, <2>4 DEF VisitMoves, SetVisit
    <2> QED
      BY <2>5
  <1>3. CASE ~(visit[v].tries < 2) /\ visit[v].pc # "save"
    <2>1. PICK end \in {"turnedAway", "error"} : VisitFails(v, end, FALSE)
      BY <1>3, Zenon DEF Blip, VisitAt, VisitEnd
    <2>2. end \in VisitEnds
      BY DEF VisitEnds
    <2>3. PICK w \in Visit : SetVisit(v, w) /\ w.pc = "over" /\ w.tries = 0 /\ w.end = end /\ w.clash = FALSE
      BY <2>1, <2>2, EndGives
    <2>4. Served(w, row') /\ Underway(w)
      BY <2>3 DEF Served, Holding, Underway
    <2>5. visit[v].tries <= blips => Excused(w, blips')
      BY <1>0, <1>3 DEF Excused
    <2>6. VisitMoves(v, w)
      BY <1>0, <2>3, <2>4, <2>5 DEF VisitMoves, SetVisit
    <2> QED
      BY <2>6
  <1> QED
    BY <1>1, <1>2, <1>3

\* The first error of a query that is not tried again is a failure.
LEMMA UnretriedMoves ==
  ASSUME AccountsTypeOK, NEW v \in Visits, BlipUnretried(v)
  PROVE  \E w \in Visit : VisitMoves(v, w)
  <1>0. /\ visit[v].tries \in 0..2 /\ MaxBlips \in Nat
        /\ blips \in 0..MaxBlips /\ blips < MaxBlips /\ blips' = blips + 1
        /\ clerk' = clerk /\ hooks' = hooks /\ row' = row /\ rival' = rival
    BY AccountAssumption DEF AccountsTypeOK, Visit, BlipUnretried
  <1>1. VisitFails(v, "error", FALSE) /\ "error" \in VisitEnds
    BY DEF BlipUnretried, VisitEnd, VisitEnds
  <1>2. PICK w \in Visit : SetVisit(v, w) /\ w.pc = "over" /\ w.tries = 0 /\ w.end = "error" /\ w.clash = FALSE
    BY <1>1, EndGives
  <1>3. Served(w, row') /\ Underway(w) /\ Excused(w, blips')
    BY <1>0, <1>2 DEF Served, Holding, Underway, Excused
  <1>4. VisitMoves(v, w)
    BY <1>0, <1>2, <1>3 DEF VisitMoves, SetVisit
  <1> QED
    BY <1>4

LEMMA VisitStepMoves ==
  ASSUME AccountsTypeOK, NEW v \in Visits, Underway(visit[v]),
         VisitStep(v) \/ Blip(v) \/ BlipUnretried(v) \/ Arrive(v)
  PROVE  \E w \in Visit : VisitMoves(v, w)
  <1>0. /\ visit[v] \in Visit /\ row \in User /\ row.id \in 0..MaxRows /\ visit[v].said \in Said
        /\ visit[v].clash \in BOOLEAN /\ rival \in BOOLEAN
        /\ VisitPCs = {"find", "refresh", "save", "fetch", "mint", "reread", "work",
                       "owner", "token", "store", "repos", "overlay", "job", "over"}
        /\ VisitEnds = {"none", "served", "refused", "turnedAway", "error"}
    BY DEF AccountsTypeOK, Visit, User, VisitPCs, VisitEnds
  <1>1. CASE FindUser(v)
    <2> DEFINE w == [visit[v] EXCEPT !.tries = 0, !.id = IF row.there THEN row.id ELSE 0,
                                     !.pc = IF ~row.there THEN "fetch"
                                            ELSE IF row.stale THEN "refresh" ELSE "work"]
    <2>1. SetVisit(v, w) /\ row' = row /\ Aside /\ visit[v].end = "none"
      <3>1. visit[v].end = "none"
        BY <1>1 DEF FindUser, VisitAt, Underway
      <3> QED
        BY <1>1, <3>1, Zenon DEF FindUser, Aside, Outside
    <2>2. PICK id \in 0..MaxRows, pc \in {"fetch", "refresh", "work"} :
            /\ w = [visit[v] EXCEPT !.tries = 0, !.id = id, !.pc = pc]
            /\ pc # "fetch" => row.there /\ id = row.id
      <3>1. 0 \in 0..MaxRows
        BY AccountAssumption
      <3>2. CASE ~row.there
        BY <3>1, <3>2, Zenon
      <3>3. CASE row.there
        BY <1>0, <3>3, Zenon
      <3> QED
        BY <3>2, <3>3
    <2>3. pc \in VisitPCs /\ 0 \in 0..2
      BY <1>0
    <2>4. w \in Visit /\ w.pc = pc /\ w.id = id /\ w.tries = 0 /\ w.end = visit[v].end /\ w.clash = visit[v].clash
      BY <1>0, <2>2, <2>3, Zenon DEF Visit
    <2> HIDE DEF w
    <2>5. Served(w, row')
      BY <2>1, <2>2, <2>4 DEF Served, Holding
    <2>6. Excused(w, blips) /\ Underway(w)
      BY <2>1, <2>4 DEF Excused, Underway
    <2>7. VisitMoves(v, w)
      BY <2>1, <2>4, <2>5, <2>6, PlainMove
    <2> QED
      BY <2>4, <2>7
  <1>2. CASE Refresh(v)
    <2>1. visit[v].pc = "refresh" /\ row' = row /\ Aside /\ visit[v].end = "none"
      BY <1>2 DEF Refresh, VisitAt, Aside, Outside, Underway
    <2>2. CASE ClerkAnswers(v, "save")
      BY <1>0, <2>1, <2>2, ClerkMoves DEF Holding
    <2>3. CASE ServeSeen(v)
      BY <2>1, <2>3, ServeMoves DEF Holding
    <2> QED
      BY <1>2, <2>2, <2>3 DEF Refresh
  <1>3. CASE SaveRefreshed(v)
    <2>1. visit[v].pc = "save" /\ Aside /\ visit[v].end = "none"
      BY <1>3 DEF SaveRefreshed, VisitAt, Aside, Outside, Underway
    <2>2. CASE Upsert(visit[v].said) /\ ToWork(v)
      <3>1. row' \in User /\ row'.there
        BY <1>0, <2>2, UpsertGives
      <3>2. row'.id \in 0..MaxRows
        BY <3>1 DEF User
      <3> QED
        BY <2>1, <2>2, <3>1, <3>2, WorkMoves
    <2>3. CASE ServeSeen(v) /\ row' = row
      BY <2>1, <2>3, ServeMoves DEF Holding
    <2> QED
      BY <1>3, <2>2, <2>3 DEF SaveRefreshed
  <1>4. CASE FetchProfile(v)
    <2>1. visit[v].pc = "fetch" /\ row' = row /\ Aside /\ visit[v].end = "none"
      BY <1>4 DEF FetchProfile, VisitAt, Aside, Outside, Underway
    <2>2. CASE ClerkAnswers(v, "mint")
      BY <1>0, <2>1, <2>2, ClerkMoves DEF Holding
    <2>3. CASE VisitGoto(v, "mint")
      BY <1>0, <2>1, <2>3, GotoMoves DEF Holding
    <2> QED
      BY <1>4, <2>2, <2>3 DEF FetchProfile
  <1>5. CASE MintUser(v)
    <2>0. visit[v].pc = "mint" /\ Aside /\ visit[v].end = "none"
      BY <1>5 DEF MintUser, VisitAt, Aside, Outside, Underway
    <2>1. CASE Upsert(visit[v].said) /\ ToWork(v)
      <3>1. row' \in User /\ row'.there
        BY <1>0, <2>1, UpsertGives
      <3>2. row'.id \in 0..MaxRows
        BY <3>1 DEF User
      <3> QED
        BY <2>0, <2>1, <3>1, <3>2, WorkMoves
    <2>2. CASE row.there /\ VisitGoto(v, "reread") /\ row' = row
      BY <1>0, <2>0, <2>2, GotoMoves DEF Holding
    <2>3. CASE rival /\ SetVisit(v, [visit[v] EXCEPT !.pc = "reread", !.tries = 0, !.clash = TRUE])
      <3> DEFINE w == [visit[v] EXCEPT !.pc = "reread", !.tries = 0, !.clash = TRUE]
      <3>1. "reread" \in VisitPCs /\ 0 \in 0..2
        BY <1>0
      <3>2. w \in Visit /\ w.pc = "reread" /\ w.tries = 0 /\ w.end = visit[v].end /\ w.clash = TRUE
        BY <1>0, <3>1, Zenon DEF Visit
      <3>3. SetVisit(v, w)
        BY <2>3
      <3> HIDE DEF w
      <3>4. Served(w, row') /\ Excused(w, blips) /\ Underway(w)
        BY <2>0, <3>2 DEF Served, Holding, Excused, Underway
      <3>5. VisitMoves(v, w)
        BY <2>0, <2>3, <3>2, <3>3, <3>4, PlainMove
      <3> QED
        BY <3>2, <3>5
    <2> QED
      BY <1>5, <2>1, <2>2, <2>3 DEF MintUser, Clashes
  <1>6. CASE RereadWinner(v)
    <2>1. visit[v].pc = "reread" /\ row' = row /\ Aside /\ visit[v].end = "none"
      BY <1>6 DEF RereadWinner, VisitAt, Aside, Outside, Underway
    <2>2. CASE row.there
      BY <1>0, <1>6, <2>1, <2>2, WorkMoves DEF RereadWinner
    <2>3. CASE ~row.there
      <3>1. VisitFails(v, "turnedAway", visit[v].clash) /\ (Served(visit[v], row) => visit[v].clash)
        BY <1>6, <2>1, <2>3 DEF RereadWinner, Served
      <3> QED
        BY <1>0, <2>1, <3>1, FailMoves
    <2> QED
      BY <2>2, <2>3
  <1>7. ASSUME NEW wants \in {"list", "analyze"}, Work(v, wants)
        PROVE  \E w \in Visit : VisitMoves(v, w)
    <2>1. visit[v].pc = "work" /\ row' = row /\ Aside /\ visit[v].end = "none"
      BY <1>7 DEF Work, VisitAt, Aside, Outside, Underway
    <2>2. CASE VisitGoto(v, "overlay")
      BY <1>0, <2>1, <2>2, GotoMoves DEF Holding
    <2>3. CASE SetVisit(v, [visit[v] EXCEPT !.pc = "owner", !.wants = wants])
      <3> DEFINE w == [visit[v] EXCEPT !.pc = "owner", !.wants = wants]
      <3>1. "owner" \in VisitPCs /\ wants \in {"list", "analyze"}
        BY <1>0
      <3>2. /\ w \in Visit /\ w.pc = "owner" /\ w.id = visit[v].id /\ w.tries = visit[v].tries
            /\ w.end = visit[v].end /\ w.clash = visit[v].clash
        BY <1>0, <3>1, Zenon DEF Visit
      <3>3. SetVisit(v, w)
        BY <2>3
      <3> HIDE DEF w
      <3>4. Served(visit[v], row) => Served(w, row')
        BY <2>1, <3>2 DEF Served, Holding
      <3>5. Excused(w, blips) /\ Underway(w)
        BY <2>1, <3>2 DEF Excused, Underway
      <3>6. VisitMoves(v, w)
        BY <2>1, <3>2, <3>3, <3>4, <3>5, PlainMove
      <3> QED
        BY <3>2, <3>6
    <2> QED
      BY <1>7, <2>2, <2>3 DEF Work
  <1>8. CASE FindOwner(v)
    <2>1. visit[v].pc = "owner" /\ row' = row /\ Aside /\ visit[v].end = "none"
      BY <1>8 DEF FindOwner, VisitAt, Aside, Outside, Underway
    <2>2. CASE row.there /\ row.id = visit[v].id
      <3>1. VisitGoto(v, "token")
        BY <1>8, <2>2 DEF FindOwner
      <3> QED
        BY <1>0, <2>1, <2>2, <3>1, GotoMoves
    <2>3. CASE ~(row.there /\ row.id = visit[v].id)
      <3>1. VisitEnd(v, "error") /\ ~Served(visit[v], row)
        BY <1>8, <2>1, <2>3 DEF FindOwner, Served, Holding
      <3> QED
        BY <1>0, <2>1, <3>1, EndMoves
    <2> QED
      BY <2>2, <2>3
  <1>9. CASE GetToken(v)
    <2>1. visit[v].pc = "token" /\ row' = row /\ Aside /\ visit[v].end = "none"
      BY <1>9 DEF GetToken, VisitAt, Aside, Outside, Underway
    <2>2. VisitEnd(v, "refused") \/ \E pc \in {"store", "job"} : VisitGoto(v, pc)
      BY <1>9 DEF GetToken
    <2>3. ASSUME NEW pc \in {"store", "job"}, VisitGoto(v, pc) PROVE \E w \in Visit : VisitMoves(v, w)
      <3>1. pc \in VisitPCs /\ pc # "reread"
        BY <1>0
      <3>2. Served(visit[v], row) => row'.there /\ visit[v].id = row'.id
        BY <2>1 DEF Served, Holding
      <3> QED
        BY <2>1, <2>3, <3>1, <3>2, GotoMoves
    <2> QED
      BY <1>0, <2>1, <2>2, <2>3, EndMoves
  <1>10. CASE StoreToken(v)
    <2>1. visit[v].pc = "store" /\ Aside /\ visit[v].end = "none"
      BY <1>10 DEF StoreToken, VisitAt, Aside, Outside, Underway
    <2>2. CASE row.there /\ row.id = visit[v].id
      <3>1. \/ rival /\ VisitFails(v, "error", TRUE)
            \/ \E pc \in {"repos", "job"} : VisitGoto(v, pc)
        BY <1>10, <2>2, Zenon DEF StoreToken
      <3>2. row'.there /\ row'.id = row.id
        BY <1>10, <2>2, StoreGives DEF RowKept
      <3>3. ASSUME NEW pc \in {"repos", "job"}, VisitGoto(v, pc) PROVE \E w \in Visit : VisitMoves(v, w)
        <4>1. pc \in VisitPCs /\ pc # "reread"
          BY <1>0
        <4> QED
          BY <2>1, <2>2, <3>2, <3>3, <4>1, GotoMoves
      <3> QED
        BY <1>0, <2>1, <3>1, <3>3, FailMoves
    <2>3. CASE ~(row.there /\ row.id = visit[v].id)
      <3>1. VisitEnd(v, "error")
        BY <1>10, <2>3, Zenon DEF StoreToken
      <3>2. ~Served(visit[v], row)
        BY <2>1, <2>3 DEF Served, Holding
      <3> QED
        BY <1>0, <2>1, <3>1, <3>2, EndMoves
    <2> QED
      BY <2>2, <2>3
  <1>11. CASE FetchRepos(v)
    <2>1. visit[v].pc = "repos" /\ Aside /\ visit[v].end = "none"
      BY <1>11 DEF FetchRepos, VisitAt, Aside, Outside, Underway
    <2>2. VisitGoto(v, "overlay") \/ VisitEnd(v, "refused")
      BY <1>11 DEF FetchRepos
    <2>3. CASE VisitGoto(v, "overlay")
      BY <1>0, <2>1, <2>3, GotoMoves DEF Holding
    <2> QED
      BY <1>0, <2>1, <2>2, <2>3, EndMoves
  <1>12. CASE OverlayJobs(v)
    <2>1. VisitEnd(v, "served") /\ Aside
      BY <1>12 DEF OverlayJobs, Aside, Outside
    <2> QED
      BY <1>0, <2>1, EndMoves
  <1>13. CASE CreateJob(v)
    <2>1. visit[v].pc = "job" /\ row' = row /\ Aside
      BY <1>13 DEF CreateJob, VisitAt, Aside, Outside
    <2>2. CASE row.there /\ row.id = visit[v].id
      <3>1. VisitEnd(v, "served")
        BY <1>13, <2>2 DEF CreateJob
      <3> QED
        BY <1>0, <2>1, <3>1, EndMoves
    <2>3. CASE ~(row.there /\ row.id = visit[v].id)
      <3>1. VisitEnd(v, "error") /\ ~Served(visit[v], row)
        BY <1>13, <2>1, <2>3 DEF CreateJob, Served, Holding
      <3> QED
        BY <1>0, <2>1, <3>1, EndMoves
    <2> QED
      BY <2>2, <2>3
  <1>14. CASE Arrive(v)
    <2>1. SetVisit(v, [NewVisit EXCEPT !.pc = "find"]) /\ Aside
      BY <1>14 DEF Arrive, Aside, Outside
    <2> DEFINE w == [NewVisit EXCEPT !.pc = "find"]
    <2>2. w.pc = "find" /\ w.tries = 0 /\ w.end = "none" /\ w.clash = FALSE
      BY NewVisitType, Zenon DEF Visit
    <2>3. w \in Visit
      <3>1. "find" \in VisitPCs
        BY <1>0
      <3> QED
        BY NewVisitType, <3>1, Zenon DEF Visit
    <2>4. SetVisit(v, w)
      BY <2>1
    <2> HIDE DEF w
    <2>5. Served(w, row') /\ Excused(w, blips) /\ Underway(w)
      BY <2>2 DEF Served, Holding, Excused, Underway
    <2>6. VisitMoves(v, w)
      BY <2>1, <2>2, <2>3, <2>4, <2>5, PlainMove
    <2> QED
      BY <2>3, <2>6
  <1>15. CASE Blip(v)
    BY <1>15, BlipMoves
  <1>16. CASE BlipUnretried(v)
    BY <1>16, UnretriedMoves
  <1> QED
    BY <1>1, <1>2, <1>3, <1>4, <1>5, <1>6, <1>7, <1>8, <1>9, <1>10, <1>11, <1>12, <1>13, <1>14, <1>15, <1>16, Zenon
       DEF VisitStep

LEMMA AccountsKept == AccountsInv /\ [AccountsNext]_accountVars => AccountsInv'
  <1> SUFFICES ASSUME AccountsInv, [AccountsNext]_accountVars PROVE AccountsInv'
    OBVIOUS
  <1>0. /\ AccountsTypeOK /\ RowHeld /\ TriesAreBlips /\ EndsAtTheEnd /\ RivalShares /\ RequestsSurvive
        /\ clerk \in [linked : BOOLEAN, there : BOOLEAN] /\ hooks \subseteq Event /\ visit \in [Visits -> Visit]
        /\ blips \in 0..MaxBlips /\ rival \in BOOLEAN
    BY DEF AccountsInv, AccountsTypeOK
  <1>1. /\ row' \in User /\ (row'.token => row'.there)
        /\ RowKept \/ \E h \in hooks : h.kind = "delete" /\ ~row'.there
    BY <1>0, RowStep
  <1>2. ASSUME NEW v \in Visits, VisitStep(v) \/ Blip(v) \/ BlipUnretried(v) \/ Arrive(v)
        PROVE  AccountsInv'
    <2>1. PICK w \in Visit : VisitMoves(v, w)
      BY <1>0, <1>2, VisitStepMoves DEF EndsAtTheEnd
    <2> HIDE DEF AccountsNext
    <2>2. /\ visit' = [visit EXCEPT ![v] = w] /\ visit'[v] = w /\ \A u \in Visits \ {v} : visit'[u] = visit[u]
          /\ blips' \in 0..MaxBlips /\ blips' >= blips /\ hooks' = hooks /\ clerk' = clerk /\ rival' = rival
      BY <1>0, <2>1 DEF VisitMoves
    <2>4. AccountsTypeOK'
      <3>1. visit' \in [Visits -> Visit]
        BY <1>0, <2>2
      <3> QED
        BY <1>0, <1>1, <2>2, <3>1, Zenon DEF AccountsTypeOK
    <2>5. w.tries <= blips' /\ Underway(w) /\ (w.clash => visit[v].clash \/ rival)
      BY <1>0, <2>1 DEF VisitMoves, TriesAreBlips
    <2>6. TriesAreBlips' /\ EndsAtTheEnd' /\ RivalShares'
      <3>1. ASSUME NEW u \in Visits PROVE visit'[u].tries <= blips'
        <4>1. visit[u].tries \in Nat /\ visit[u].tries <= blips
          BY <1>0 DEF Visit, TriesAreBlips
        <4> QED
          BY <1>0, <2>2, <2>5, <4>1, AccountAssumption
      <3>2. ASSUME NEW u \in Visits PROVE Underway(visit'[u]) /\ (visit'[u].clash => "shared" \in Trouble)
        BY <1>0, <2>2, <2>5 DEF EndsAtTheEnd, RivalShares
      <3> QED
        BY <1>0, <2>2, <3>1, <3>2 DEF TriesAreBlips, EndsAtTheEnd, Underway, RivalShares
    <2>7. clerk.there => Served(w, row') /\ Excused(w, blips')
      BY <1>0, <2>1 DEF VisitMoves, TriesAreBlips, RowHeld
    <2>8. RowHeld'
      <3>1. ASSUME NEW u \in Visits, clerk.there PROVE Served(visit'[u], row')
        <4>1. RowKept
          BY <1>0, <1>1, <3>1 DEF RowHeld
        <4>2. Served(visit[u], row)
          BY <1>0, <3>1 DEF RowHeld
        <4>3. CASE u # v
          BY <2>2, <4>1, <4>2, <4>3 DEF Served, RowKept
        <4> QED
          BY <2>2, <2>7, <3>1, <4>3
      <3> QED
        BY <1>0, <2>2, <3>1 DEF RowHeld
    <2>9. RequestsSurvive'
      <3>1. ASSUME NEW u \in Visits, clerk.there PROVE Excused(visit'[u], blips')
        <4>1. CASE u # v
          <5>1. Excused(visit[u], blips)
            BY <1>0, <3>1 DEF RequestsSurvive, Excused
          <5> QED
            BY <1>0, <2>2, <4>1, <5>1, AccountAssumption DEF Excused
        <4> QED
          BY <2>2, <2>7, <3>1, <4>1
      <3> QED
        BY <2>2, <2>6, <3>1 DEF RequestsSurvive, Excused, RivalShares
    <2> QED
      BY <2>4, <2>6, <2>8, <2>9 DEF AccountsInv
  \* Whatever else happens leaves the requests alone.
  <1>3. ASSUME /\ visit' = visit /\ blips' = blips /\ rival' \in BOOLEAN /\ (rival' => "shared" \in Trouble)
               /\ clerk' \in [linked : BOOLEAN, there : BOOLEAN] /\ (clerk'.there => clerk.there)
               /\ hooks' \subseteq Event /\ (clerk'.there => \A h \in hooks' : h.kind = "sync")
        PROVE  AccountsInv'
    <2>1. AccountsTypeOK'
      BY <1>0, <1>1, <1>3, Zenon DEF AccountsTypeOK
    <2>2. TriesAreBlips' /\ EndsAtTheEnd' /\ RivalShares'
      BY <1>0, <1>3 DEF TriesAreBlips, EndsAtTheEnd, RivalShares
    <2>3. RowHeld'
      <3>1. ASSUME NEW v \in Visits, clerk'.there PROVE Served(visit[v], row')
        <4>1. RowKept
          BY <1>0, <1>1, <1>3, <3>1 DEF RowHeld
        <4>2. Served(visit[v], row)
          BY <1>0, <1>3, <3>1 DEF RowHeld
        <4> QED
          BY <4>1, <4>2 DEF Served, RowKept
      <3> QED
        BY <1>3, <3>1 DEF RowHeld
    <2>4. RequestsSurvive'
      BY <1>0, <1>3 DEF RequestsSurvive
    <2> QED
      BY <2>1, <2>2, <2>3, <2>4 DEF AccountsInv
  <1>4. clerk.there => \A h \in hooks : h.kind = "sync"
    BY <1>0 DEF RowHeld
  <1>5. rival \in BOOLEAN /\ (rival => "shared" \in Trouble)
    BY <1>0 DEF AccountsTypeOK, RivalShares
  <1>6. CASE EditAccount
    <2>1. PICK s \in Sayable : hooks' = hooks \cup {[kind |-> "sync", said |-> s]}
      BY <1>6 DEF EditAccount
    <2>2. /\ clerk' \in {clerk, [clerk EXCEPT !.linked = TRUE]} /\ visit' = visit /\ blips' = blips /\ rival' = rival
      BY <1>6 DEF EditAccount
    <2>3. clerk' \in [linked : BOOLEAN, there : BOOLEAN] /\ clerk'.there = clerk.there /\ clerk'.linked \in BOOLEAN
      BY <1>0, <2>2
    <2>4. s \in Said
      <3>1. PICK g \in {FALSE, clerk'.linked} : s = [profile |-> TRUE, github |-> g]
        BY Zenon DEF Sayable
      <3>2. g \in BOOLEAN
        BY <2>3
      <3> QED
        BY <3>1, <3>2 DEF Said
    <2>5. hooks' \subseteq Event /\ \A h \in hooks' : h \in hooks \/ h.kind = "sync"
      BY <1>0, <2>1, <2>4 DEF Event
    <2> QED
      BY <1>3, <1>4, <1>5, <2>2, <2>3, <2>5
  <1>7. CASE DeleteAccount
    <2>1. /\ clerk' = [clerk EXCEPT !.there = FALSE, !.linked = FALSE]
          /\ hooks' = hooks \cup {[kind |-> "delete", said |-> Nothing]}
          /\ visit' = visit /\ blips' = blips /\ rival' = rival
      BY <1>7 DEF DeleteAccount
    <2>2. clerk' \in [linked : BOOLEAN, there : BOOLEAN] /\ ~clerk'.there
      BY <1>0, <2>1
    <2>3. hooks' \subseteq Event
      <3>1. Nothing \in Said
        BY DEF Nothing, Said
      <3>2. [kind |-> "delete", said |-> Nothing] \in Event
        BY <3>1 DEF Event
      <3> QED
        BY <1>0, <2>1, <3>2
    <2> QED
      BY <1>3, <1>5, <2>1, <2>2, <2>3
  <1>8. ASSUME NEW h \in hooks, HookDelivered(h)
        PROVE  AccountsInv'
    <2>1. hooks' \subseteq hooks /\ clerk' = clerk /\ visit' = visit /\ blips' = blips /\ rival' = rival
      BY <1>8 DEF HookDelivered
    <2> QED
      BY <1>0, <1>3, <1>4, <1>5, <2>1
  <1>9. CASE HourPasses
    BY <1>0, <1>3, <1>4, <1>5, <1>9 DEF HourPasses
  <1>10. CASE OtherLinks
    BY <1>0, <1>3, <1>4, <1>5, <1>10 DEF OtherLinks
  <1>11. CASE UNCHANGED accountVars
    BY <1>0, <1>3, <1>4, <1>5, <1>11 DEF accountVars
  <1> QED
    BY <1>2, <1>6, <1>7, <1>8, <1>9, <1>10, <1>11, Zenon DEF AccountsNext

THEOREM AccountsInvariant == AccountsSpec => []AccountsInv
  BY AccountsStart, AccountsKept, PTL DEF AccountsSpec

\* The guard turns a request away only over a deleted account, three errors of the
\* database or a GitHub account that is another user's, and the handler fails only
\* over one error, or the same, for every number of requests racing with webhooks
\* in any order: withDbRetry, createUserSafely and the refresh that may fail.
THEOREM RequestsAlwaysSurvive == AccountsSpec => []RequestsSurvive
  <1>1. AccountsInv => RequestsSurvive
    BY DEF AccountsInv
  <1> QED
    BY AccountsInvariant, <1>1, PTL

\* No writer of the row, in whatever order they come, forgets what was known of
\* the user while the row lives.
THEOREM KnownStaysKnown == AccountsSpec => KnownIsKept
  <1>1. AccountsInv /\ [AccountsNext]_accountVars =>
          [row.there /\ row'.there /\ row'.id = row.id
             => /\ row.said.profile => row'.said.profile
                /\ row.said.github => row'.said.github]_accountVars
    BY RowStep DEF AccountsInv, RowKept
  <1> QED
    BY AccountsInvariant, <1>1, PTL DEF AccountsSpec, KnownIsKept

(***************************************************************************)
(* The types, and the services side by side                                *)
(***************************************************************************)
\* The newest of the live links is one of the links.
LEMMA LiveLinkExists ==
  ASSUME SharesTypeOK
  PROVE  LiveLink \in 0..MaxLinks
  <1>1. Links = 1..Len(share) /\ Len(share) \in Nat /\ Len(share) <= MaxLinks /\ MaxLinks \in Nat
    BY ShareAssumption DEF SharesTypeOK, Links
  <1>2. CASE Live = {}
    BY <1>1, <1>2 DEF LiveLink, NoLink
  <1>3. CASE Live # {}
    <2>1. Live \subseteq 0..MaxLinks
      BY <1>1 DEF Live
    <2>2. \E l \in Live : \A k \in Live : k <= l
      BY <1>1, <1>3, <2>1, GreatestNumber
    <2>3. LiveLink \in Live
      BY <1>3, <2>2 DEF LiveLink
    <2> QED
      BY <2>1, <2>3
  <1> QED
    BY <1>2, <1>3

LEMMA SharesTypeKept == SharesTypeOK /\ [SharesNext]_shareVars => SharesTypeOK'
  <1> SUFFICES ASSUME SharesTypeOK, [SharesNext]_shareVars PROVE SharesTypeOK'
    OBVIOUS
  <1> DEFINE Asked == [pc : {"find", "create", "over"}, link : 0..MaxLinks]
  <1>0. /\ share \in Seq({"live", "revoked"}) /\ Len(share) \in Nat /\ Len(share) <= MaxLinks
        /\ sharer \in [Sharers -> Asked] /\ MaxLinks \in Nat
    BY ShareAssumption DEF SharesTypeOK
  <1>1. ASSUME NEW s \in Sharers, NEW r \in Asked, sharer' = [sharer EXCEPT ![s] = r], UNCHANGED share
        PROVE  SharesTypeOK'
    BY <1>0, <1>1 DEF SharesTypeOK
  <1>2. ASSUME NEW s \in Sharers, FindLink(s) PROVE SharesTypeOK'
    <2>1. [pc |-> IF Live = {} THEN "create" ELSE "over", link |-> LiveLink] \in Asked
      BY LiveLinkExists
    <2> QED
      BY <1>1, <1>2, <2>1, Zenon DEF FindLink
  <1>3. ASSUME NEW s \in Sharers, CreateLink(s) PROVE SharesTypeOK'
    <2>1. share' = Append(share, "live") /\ Len(share) < MaxLinks
          /\ sharer' = [sharer EXCEPT ![s] = [pc |-> "over", link |-> Len(share) + 1]]
      BY <1>3 DEF CreateLink
    <2>2. share' \in Seq({"live", "revoked"}) /\ Len(share') = Len(share) + 1
      BY <1>0, <2>1
    <2>3. [pc |-> "over", link |-> Len(share) + 1] \in Asked
      BY <1>0, <2>1
    <2>4. sharer' \in [Sharers -> Asked]
      BY <1>0, <2>1, <2>3
    <2> QED
      BY <1>0, <2>1, <2>2, <2>4 DEF SharesTypeOK
  <1>4. ASSUME NEW s \in Sharers, ShareAgain(s) PROVE SharesTypeOK'
    <2>1. PICK seen \in {sharer[s].link, LiveLink} : sharer' = [sharer EXCEPT ![s] = [pc |-> "find", link |-> seen]]
      BY <1>4 DEF ShareAgain
    <2>2. [pc |-> "find", link |-> seen] \in Asked
      BY <1>0, LiveLinkExists
    <2> QED
      BY <1>1, <1>4, <2>1, <2>2 DEF ShareAgain
  <1>5. CASE RevokeLinks
    <2>1. share' = [l \in 1..Len(share) |-> "revoked"] /\ sharer' = sharer
      BY <1>0, <1>5 DEF RevokeLinks, Links
    <2>2. share' \in Seq({"live", "revoked"}) /\ Len(share') = Len(share)
      BY <1>0, <2>1
    <2> QED
      BY <1>0, <2>1, <2>2 DEF SharesTypeOK
  <1>6. CASE UNCHANGED shareVars
    BY <1>0, <1>6 DEF shareVars, SharesTypeOK
  <1> QED
    BY <1>2, <1>3, <1>4, <1>5, <1>6, Zenon DEF SharesNext

LEMMA SharesTypeStarts == SharesInit => SharesTypeOK
  BY ShareAssumption DEF SharesInit, SharesTypeOK, NoLink

\* Side by side, each service runs as it does alone.
LEMMA ServicesRunAlone == ServicesSpec => AccountsSpec /\ SharesSpec
  <1>1. ServicesInit => AccountsInit /\ SharesInit
    BY DEF ServicesInit
  <1>2. [ServicesNext]_serviceVars => [AccountsNext]_accountVars /\ [SharesNext]_shareVars
    BY Zenon DEF ServicesNext, serviceVars, AccountsMove, SharesMove, AlgorithmsMove
  <1> QED
    BY <1>1, <1>2, PTL DEF ServicesSpec, AccountsSpec, SharesSpec

\* The rows that the webhook, the guard, the refresh of the token and ShareService
\* write are what the schema allows, and a deleted user's keeps no token,
\* whatever races with what.
THEOREM ServicesTypeCorrect == ServicesSpec => []ServicesTypeOK
  <1>1. AccountsInv => AccountsTypeOK
    BY DEF AccountsInv
  <1>2. AccountsSpec => []AccountsTypeOK
    BY AccountsInvariant, <1>1, PTL
  <1>3. SharesSpec => []SharesTypeOK
    BY SharesTypeStarts, SharesTypeKept, PTL DEF SharesSpec
  <1>4. AccountsTypeOK /\ SharesTypeOK <=> ServicesTypeOK
    BY DEF ServicesTypeOK
  <1> QED
    BY ServicesRunAlone, <1>2, <1>3, <1>4, PTL

\* The composition computes nothing but results of inputs.
LEMMA ServicesFit == ServicesSpec => []ResultFits
  <1> DEFINE Inv == /\ service = "algorithms" => input \in Inputs
                    /\ service # "algorithms" => ~computed
                    /\ ResultFits
  <1>1. ServicesInit => Inv
    BY DEF ServicesInit, AlgorithmsInit, ResultFits
  <1>2. Inv /\ [ServicesNext]_serviceVars => Inv'
    <2> SUFFICES ASSUME Inv, [ServicesNext]_serviceVars PROVE Inv'
      OBVIOUS
    <2>1. CASE service = "algorithms" /\ Compute /\ service' = service
      BY <2>1 DEF Compute, ResultFits
    <2>2. CASE UNCHANGED <<service, algorithmVars>>
      BY <2>2 DEF algorithmVars, ResultFits
    <2>3. (service = "algorithms" /\ Compute /\ service' = service) \/ UNCHANGED <<service, algorithmVars>>
      BY Zenon DEF ServicesNext, serviceVars, AccountsMove, SharesMove, AlgorithmsMove, AlgorithmsNext
    <2> QED
      BY <2>1, <2>2, <2>3
  <1>3. Inv => ResultFits
    OBVIOUS
  <1> QED
    BY <1>1, <1>2, <1>3, PTL DEF ServicesSpec

\* What is proved of the computations holds in the composition that is checked, so
\* the runs and the theorems speak of the same invariants.
THEOREM ServicesComputeRight ==
  ServicesSpec => [](/\ FactsAreMeasured /\ CutsAreKnown /\ DiagramsHoldTogether
                     /\ ReportAgrees /\ RequestsAccepted /\ BoundsHold)
  BY ServicesFit, MeasuredFacts, KnownCuts, HeldDiagrams, AgreedReports, AcceptedRequests, HeldBounds, PTL
=============================================================================
