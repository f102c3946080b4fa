------------------------------ MODULE Accounts ------------------------------
(***************************************************************************)
(* The row of one user, which three writers keep in step with Clerk: the   *)
(* webhook, the guard of every request (AuthService.getOrCreateUser) and   *)
(* ensureGithubToken.                                                      *)
(*                                                                         *)
(* What a profile and a GitHub identity say is left out, only whether they *)
(* are known is kept, and any listing of the repositories may or may not   *)
(* find a cached one.  A row that was not written for REFRESH_TTL_MS is    *)
(* stale.  GitHub ids are unique over all users, so the row of another one *)
(* may hold the id of this user's GitHub account, and no write may then    *)
(* give it to this one.                                                    *)
(***************************************************************************)
EXTENDS Integers

CONSTANTS
    Visits,         \* concurrent requests of the user
    MaxRows,        \* bound on the rows the user has one after another
    MaxBlips,       \* bound on the database errors
    Trouble         \* of "repeated" webhooks, "clerk" and "github" errors, a "deleted" account,
                    \* a GitHub account "shared" with another user

ASSUME AccountAssumption ==
    /\ MaxRows \in Nat \ {0} /\ MaxBlips \in Nat
    /\ Trouble \subseteq {"repeated", "clerk", "github", "deleted", "shared"}

VARIABLES
    clerk,          \* the account as Clerk has it: there, and linked to GitHub
    hooks,          \* webhook events on their way, in no order; a lost one stays there
    row,            \* the row of users
    visit,          \* the requests
    rival,          \* the row of another user holds this user's GitHub id
    blips           \* database errors so far

accountVars == <<clerk, hooks, row, visit, rival, blips>>

\* What Clerk says of a user, by the fields that are there.
Said == [profile : BOOLEAN, github : BOOLEAN]
Nothing == [profile |-> FALSE, github |-> FALSE]
Event == [kind : {"sync", "delete"}, said : Said]

\* id counts the rows the user has had, 0 while there was none.
User == [id : 0..MaxRows, there : BOOLEAN, said : Said, token : BOOLEAN, stale : BOOLEAN]

VisitPCs == {"find", "refresh", "save", "fetch", "mint", "reread", "work",
             "owner", "token", "store", "repos", "overlay", "job", "over"}

\* clash: the write this request failed over was refused for the sake of rival.
VisitEnds == {"none", "served", "refused", "turnedAway", "error"}
Visit == [pc : VisitPCs, id : 0..MaxRows, said : Said, tries : 0..2, clash : BOOLEAN,
          wants : {"list", "analyze"}, end : VisitEnds]
NewVisit == [pc |-> "over", id |-> 0, said |-> Nothing, tries |-> 0, clash |-> FALSE,
             wants |-> "list", end |-> "none"]

AccountsTypeOK ==
    /\ clerk \in [linked : BOOLEAN, there : BOOLEAN]
    /\ hooks \subseteq Event
    /\ row \in User /\ (row.token => row.there)
    /\ visit \in [Visits -> Visit]
    /\ rival \in BOOLEAN
    /\ blips \in 0..MaxBlips

AccountsInit ==
    /\ clerk = [linked |-> FALSE, there |-> TRUE]
    /\ hooks = {[kind |-> "sync", said |-> [profile |-> TRUE, github |-> FALSE]]}
    /\ row = [id |-> 0, there |-> FALSE, said |-> Nothing, token |-> FALSE, stale |-> FALSE]
    /\ visit = [v \in Visits |-> NewVisit]
    /\ rival = FALSE
    /\ blips = 0

(***************************************************************************)
(* upsertUser                                                              *)
(***************************************************************************)
\* Mutant: an update writes what it was given, absent fields included.
UpsertAll(said) ==
    row' = IF row.there THEN [row EXCEPT !.said = said, !.stale = FALSE]
           ELSE [id |-> row.id + 1, there |-> TRUE, said |-> said, token |-> FALSE, stale |-> FALSE]

\* Only the fields that are there overwrite what the row has.  Whether an
\* update without any field touches updatedAt is up to Prisma.
Upsert(said) ==
    IF row.there
    THEN LET kept == [profile |-> said.profile \/ row.said.profile, github |-> said.github \/ row.said.github]
         IN \E stale \in {FALSE} \cup (IF said = Nothing THEN {row.stale} ELSE {}) :
               row' = [row EXCEPT !.said = kept, !.stale = stale]
    ELSE /\ row.id < MaxRows
         /\ row' = [id |-> row.id + 1, there |-> TRUE, said |-> said, token |-> FALSE, stale |-> FALSE]

\* P2002 on githubId: what is said would give this row an id another one holds.
Clashes(said) == rival /\ said.github

(***************************************************************************)
(* Clerk and its webhooks                                                  *)
(***************************************************************************)
\* Clerk leaves the GitHub fields of a custom connection empty.
Sayable == {[profile |-> TRUE, github |-> g] : g \in {FALSE, clerk'.linked}}

\* The user edits the profile, or links GitHub.
EditAccount ==
    /\ clerk.there
    /\ clerk' \in {clerk, [clerk EXCEPT !.linked = TRUE]}
    /\ \E s \in Sayable : hooks' = hooks \cup {[kind |-> "sync", said |-> s]}
    /\ UNCHANGED <<row, visit, rival, blips>>

DeleteAccount ==
    /\ "deleted" \in Trouble
    /\ clerk.there
    /\ clerk' = [clerk EXCEPT !.there = FALSE, !.linked = FALSE]
    /\ hooks' = hooks \cup {[kind |-> "delete", said |-> Nothing]}
    /\ UNCHANGED <<row, visit, rival, blips>>

\* Another user links the same GitHub account first, or is deleted.
OtherLinks ==
    /\ "shared" \in Trouble
    /\ ~(row.there /\ row.said.github)
    /\ rival' = ~rival
    /\ UNCHANGED <<clerk, hooks, row, visit, blips>>

\* The controller syncs or deletes.  An error, a clash too, is answered with a 500
\* and the event sent again, as one whose answer was lost is.
HookDelivered(h) ==
    /\ h \in hooks
    /\ \/ h.kind = "sync" /\ ~Clashes(h.said) /\ Upsert(h.said)
       \/ h.kind = "delete" /\ row' = [row EXCEPT !.there = FALSE, !.token = FALSE]
    /\ hooks' = hooks \ {h} \/ ("repeated" \in Trouble /\ UNCHANGED hooks)
    /\ UNCHANGED <<clerk, visit, rival, blips>>

\* REFRESH_TTL_MS passes.
HourPasses ==
    /\ row' = [row EXCEPT !.stale = row.there]
    /\ UNCHANGED <<clerk, hooks, visit, rival, blips>>

(***************************************************************************)
(* A request                                                               *)
(***************************************************************************)
VisitAt(v, pc) == visit[v].pc = pc
SetVisit(v, r) == visit' = [visit EXCEPT ![v] = r]
VisitGoto(v, pc) == SetVisit(v, [visit[v] EXCEPT !.pc = pc, !.tries = 0])
VisitFails(v, end, clash) == SetVisit(v, [NewVisit EXCEPT !.end = end, !.clash = clash])
VisitEnd(v, end) == VisitFails(v, end, FALSE)
ToWork(v) == SetVisit(v, [visit[v] EXCEPT !.pc = "work", !.id = row'.id, !.said = Nothing, !.tries = 0,
                                          !.clash = FALSE])
ServeSeen(v) == SetVisit(v, [visit[v] EXCEPT !.pc = "work", !.said = Nothing, !.tries = 0])
Outside == <<clerk, hooks, rival, blips>>

\* The guard has verified the session; a session outlives its account for a while.
Arrive(v) ==
    /\ VisitAt(v, "over")
    /\ SetVisit(v, [NewVisit EXCEPT !.pc = "find"])
    /\ UNCHANGED <<Outside, row>>

FindUser(v) ==
    /\ VisitAt(v, "find")
    /\ SetVisit(v, [visit[v] EXCEPT !.tries = 0, !.id = IF row.there THEN row.id ELSE 0,
                                    !.pc = IF ~row.there THEN "fetch"
                                           ELSE IF row.stale THEN "refresh" ELSE "work"])
    /\ UNCHANGED <<Outside, row>>

\* clerk.getUser: it answers, or throws; of a deleted user it throws.
ClerkAnswers(v, next) ==
    /\ clerk.there
    /\ \E g \in {FALSE, clerk.linked} :
          SetVisit(v, [visit[v] EXCEPT !.pc = next, !.said = [profile |-> TRUE, github |-> g]])

ClerkThrows == "clerk" \in Trouble \/ ~clerk.there

\* A stale row is refreshed, or served as it is.
Refresh(v) ==
    /\ VisitAt(v, "refresh")
    /\ ClerkAnswers(v, "save") \/ (ClerkThrows /\ ServeSeen(v))
    /\ UNCHANGED <<Outside, row>>

\* The refreshed row is the one of this Clerk id, created again if it has gone;
\* a clash is caught, and the row served as it was.
SaveRefreshed(v) ==
    /\ VisitAt(v, "save")
    /\ \/ ~Clashes(visit[v].said) /\ Upsert(visit[v].said) /\ ToWork(v)
       \/ Clashes(visit[v].said) /\ ServeSeen(v) /\ UNCHANGED row
    /\ UNCHANGED Outside

\* No row: mint one, of nothing when Clerk throws.
FetchProfile(v) ==
    /\ VisitAt(v, "fetch")
    /\ ClerkAnswers(v, "mint") \/ (ClerkThrows /\ VisitGoto(v, "mint"))
    /\ UNCHANGED <<Outside, row>>

\* createUserSafely: the upsert finds no row or the winner's, or is refused: it
\* clashes with the winner's, or with the row that holds the GitHub id.
MintUser(v) ==
    /\ VisitAt(v, "mint")
    /\ \/ ~Clashes(visit[v].said) /\ Upsert(visit[v].said) /\ ToWork(v)
       \/ row.there /\ VisitGoto(v, "reread") /\ UNCHANGED row
       \/ /\ Clashes(visit[v].said) /\ UNCHANGED row
          /\ SetVisit(v, [visit[v] EXCEPT !.pc = "reread", !.tries = 0, !.clash = TRUE])
    /\ UNCHANGED Outside

\* Mutant: the error is passed on without a look for the winner's row.
RethrowClash(v) ==
    /\ VisitAt(v, "reread")
    /\ VisitFails(v, "turnedAway", visit[v].clash)
    /\ UNCHANGED <<Outside, row>>

\* The winner's row is read by the Clerk id: there is none if it was the GitHub
\* id that clashed, and the error is thrown after all.
RereadWinner(v) ==
    /\ VisitAt(v, "reread")
    /\ UNCHANGED <<Outside, row>>
    /\ IF row.there THEN ToWork(v) ELSE VisitFails(v, "turnedAway", visit[v].clash)

\* The handler behind the guard: listRepos, with the cache if there is one and no
\* refresh is forced, or analyze, which has none.
Work(v, wants) ==
    /\ VisitAt(v, "work")
    /\ \/ wants = "list" /\ VisitGoto(v, "overlay")
       \/ SetVisit(v, [visit[v] EXCEPT !.pc = "owner", !.wants = wants])
    /\ UNCHANGED <<Outside, row>>

\* ensureGithubToken: findUniqueOrThrow by the id the guard saw.
FindOwner(v) ==
    /\ VisitAt(v, "owner")
    /\ IF row.there /\ row.id = visit[v].id THEN VisitGoto(v, "token") ELSE VisitEnd(v, "error")
    /\ UNCHANGED <<Outside, row>>

\* getGithubToken answers null for an error as for an account without a link;
\* a listing ends there, analyze goes on without a token.
GetToken(v) ==
    /\ VisitAt(v, "token")
    /\ \/ clerk.linked /\ VisitGoto(v, "store")
       \/ /\ ~clerk.linked \/ ClerkThrows
          /\ IF visit[v].wants = "list" THEN VisitEnd(v, "refused") ELSE VisitGoto(v, "job")
    /\ UNCHANGED <<Outside, row>>

\* Mutant: the token is written to whatever row the user has, or had.
StoreTokenBlindly(v) ==
    /\ VisitAt(v, "store")
    /\ row' = [row EXCEPT !.token = TRUE, !.stale = FALSE]
    /\ VisitGoto(v, IF visit[v].wants = "list" THEN "repos" ELSE "job")
    /\ UNCHANGED Outside

\* The token is stored, and the identity if GitHub gave one; update, so the row
\* has to be there, and both are refused if another row holds the identity.
StoreToken(v) ==
    /\ VisitAt(v, "store")
    /\ \/ /\ row.there /\ row.id = visit[v].id
          /\ \E identity \in (IF "github" \in Trouble THEN BOOLEAN ELSE {TRUE}) :
                IF rival /\ identity
                THEN VisitFails(v, "error", TRUE) /\ UNCHANGED row
                ELSE /\ row' = [row EXCEPT !.token = TRUE, !.stale = FALSE, !.said.github = @ \/ identity]
                     /\ VisitGoto(v, IF visit[v].wants = "list" THEN "repos" ELSE "job")
       \/ ~(row.there /\ row.id = visit[v].id) /\ VisitEnd(v, "error") /\ UNCHANGED row
    /\ UNCHANGED Outside

\* Every page is fetched or none is kept; the write of the cache is best effort.
FetchRepos(v) ==
    /\ VisitAt(v, "repos")
    /\ VisitGoto(v, "overlay") \/ ("github" \in Trouble /\ VisitEnd(v, "refused"))
    /\ UNCHANGED <<Outside, row>>

\* getLastJobsByRepo, of a cached listing too.
OverlayJobs(v) ==
    /\ VisitAt(v, "overlay")
    /\ VisitEnd(v, "served")
    /\ UNCHANGED <<Outside, row>>

\* The job row refers to the user's.
CreateJob(v) ==
    /\ VisitAt(v, "job")
    /\ VisitEnd(v, IF row.there /\ row.id = visit[v].id THEN "served" ELSE "error")
    /\ UNCHANGED <<Outside, row>>

\* withDbRetry: an operation the database was unreachable for is tried twice
\* more; the third error fails it, and the request unless it was a refresh.
Blip(v) ==
    /\ blips < MaxBlips
    /\ visit[v].pc \in {"find", "save", "mint", "reread", "owner", "store"}
    /\ blips' = blips + 1
    /\ IF visit[v].tries < 2 THEN SetVisit(v, [visit[v] EXCEPT !.tries = @ + 1])
       ELSE IF VisitAt(v, "save") THEN ServeSeen(v)
       ELSE VisitEnd(v, IF visit[v].pc \in {"owner", "store"} THEN "error" ELSE "turnedAway")
    /\ UNCHANGED <<clerk, hooks, row, rival>>

\* The read of the listing and the insert of the job are not tried again.
BlipUnretried(v) ==
    /\ blips < MaxBlips
    /\ visit[v].pc \in {"overlay", "job"}
    /\ blips' = blips + 1
    /\ VisitEnd(v, "error")
    /\ UNCHANGED <<clerk, hooks, row, rival>>

VisitStep(v) ==
    \/ FindUser(v) \/ Refresh(v) \/ SaveRefreshed(v)
    \/ FetchProfile(v) \/ MintUser(v) \/ RereadWinner(v)
    \/ \E wants \in {"list", "analyze"} : Work(v, wants)
    \/ FindOwner(v) \/ GetToken(v) \/ StoreToken(v) \/ FetchRepos(v)
    \/ OverlayJobs(v) \/ CreateJob(v)

AccountsNext ==
    \/ EditAccount \/ DeleteAccount \/ HourPasses \/ OtherLinks
    \/ \E h \in hooks : HookDelivered(h)
    \/ \E v \in Visits : VisitStep(v) \/ Blip(v) \/ BlipUnretried(v) \/ Arrive(v)

AccountsSpec == AccountsInit /\ [][AccountsNext]_accountVars

(***************************************************************************)
(* Properties                                                              *)
(***************************************************************************)
\* What is known of a user is not forgotten while the row lives: not by a
\* sparse or late webhook, nor by a first request that found Clerk down while
\* another minted the full row, nor by a token whose owner GitHub did not tell.
KnownIsKept ==
    [][row.there /\ row'.there /\ row'.id = row.id
          => /\ row.said.profile => row'.said.profile
             /\ row.said.github => row'.said.github]_accountVars

\* The guard turns no request away for Clerk's sake, over a race of first
\* requests or fewer than three blips: only if the account was deleted, the
\* database was unreachable three times, or the GitHub account is another user's.
\* The handler behind it may fail over one blip, of the two queries that are not
\* tried again, but for the rest over no more than the guard.  (Errors of GitHub
\* end a listing as "refused"; of Redis and RabbitMQ the model says nothing.)
RequestsSurvive ==
    \A v \in Visits : LET w == visit[v] IN
        /\ w.end = "turnedAway" => ~clerk.there \/ blips > 2 \/ w.clash
        /\ w.end = "error" => ~clerk.there \/ blips > 0 \/ w.clash
        /\ w.clash => "shared" \in Trouble
=============================================================================
