------------------------------ MODULE RepoChat ------------------------------
(***************************************************************************)
(* The questions a user asks about one analysed job, ChatService.ask, next *)
(* to the runs of the job and of other jobs that share its volume.         *)
(*                                                                         *)
(* A question needs the graph: the checkout that graph_path names when its *)
(* directory exists, else a rebuild under the key {job}-chat that          *)
(* questions share.  With a graph the model reads code for a bounded       *)
(* number of turns; without one the report is all it has.                  *)
(***************************************************************************)
EXTENDS GraphCache

CONSTANTS
    Questions,      \* concurrent questions about the job
    ChatBuilder,    \* the rebuild, doReindex; it may run again
    RunBuilders,    \* the runs of the job
    Gateway,        \* the process of the chat
    ChatTurns       \* MAX_TURNS

ASSUME ChatAssumption ==
    /\ ChatBuilder \in Builders \ RunBuilders /\ RunBuilders \subseteq Builders
    /\ Gateway \in Procs /\ ProcOf[ChatBuilder] = Gateway
    /\ ChatTurns \in Nat \ {0}

VARIABLES
    graphPath,      \* job:{id}:graph_path, NoPath if unset
    question,       \* the questions
    reindexing      \* the reindexing map has the job

chatVars == <<graphVars, graphPath, question, reindexing>>

NoPath == "none"
ChatKey == KeyOf[ChatBuilder]
QuestionPCs == {"idle", "path", "rebuild", "open", "turn", "final", "report", "over"}
Outcomes == {"none", "refused", "graph", "report", "error"}
Question == [pc : QuestionPCs, key : Keys \cup {NoPath}, turn : 0..ChatTurns, end : Outcomes]
Asked == [pc |-> "path", key |-> NoPath, turn |-> 0, end |-> "none"]

ChatTypeOK ==
    /\ CheckoutTypeOK /\ GraphTypeOK
    /\ graphPath \in Keys \cup {NoPath}
    /\ question \in [Questions -> Question]
    /\ reindexing \in BOOLEAN

ChatInit ==
    /\ CheckoutInit /\ GraphInit
    /\ graphPath = NoPath
    /\ question = [q \in Questions |-> [Asked EXCEPT !.pc = "idle"]]
    /\ reindexing = FALSE

Q(q, pc) == question[q].pc = pc
SetQuestion(q, r) == question' = [question EXCEPT ![q] = r]
QGoto(q, pc) == SetQuestion(q, [question[q] EXCEPT !.pc = pc])
QEnd(q, end) == SetQuestion(q, [question[q] EXCEPT !.pc = "over", !.end = end])

\* Questions waiting for the rebuild, or for the handle of k in the gateway.
AwaitRebuild == {q \in Questions : Q(q, "rebuild")}
AwaitHandle(k) == {q \in Questions : Q(q, "open") /\ question[q].key = k}

(***************************************************************************)
(* ask()                                                                   *)
(***************************************************************************)
\* The job has a report: one of its runs has got as far as its agents.  The
\* topic gate refuses, or lets through, its own failure included.
Ask(q) ==
    /\ Q(q, "idle")
    /\ \E b \in RunBuilders : At(b, "done")
    /\ SetQuestion(q, Asked) \/ QEnd(q, "refused")
    /\ UNCHANGED <<graphVars, graphPath, reindexing>>

\* openReadOnly, by the cached promise or a new one.
OpenReadOnly(q, k) ==
    LET h == graphs[Gateway][k] IN
    /\ SetQuestion(q, [question[q] EXCEPT !.key = k, !.pc = IF h = "open" THEN "turn" ELSE "open"])
    /\ IF h = Absent THEN SetHandle(Gateway, k, Opening) ELSE UNCHANGED graphs

\* ensureGraph with a checkout on the disk: GET graph_path, and existsSync says yes.
FindCheckout(q) ==
    /\ Q(q, "path")
    /\ graphPath # NoPath /\ There(graphPath)
    /\ OpenReadOnly(q, graphPath)
    /\ UNCHANGED <<checkoutVars, graphPath, reindexing>>

\* Mutant: the map of running rebuilds is not consulted.
RebuildAlways(q) ==
    /\ Q(q, "path")
    /\ graphPath = NoPath \/ ~There(graphPath)
    /\ QGoto(q, "rebuild")
    /\ reindexing' = TRUE
    /\ Goto(ChatBuilder, "idle")
    /\ UNCHANGED <<disk, byAge, archives, graphs, graphPath>>

\* ensureGraph without one: join the rebuild that runs, or start it.
Reindex(q) ==
    /\ Q(q, "path")
    /\ graphPath = NoPath \/ ~There(graphPath)
    /\ QGoto(q, "rebuild")
    /\ IF reindexing
       THEN UNCHANGED <<reindexing, builds>>
       ELSE /\ reindexing' = TRUE
            /\ Goto(ChatBuilder, "idle")
    /\ UNCHANGED <<disk, byAge, archives, graphs, graphPath>>

\* doReindex has settled: the map entry goes, and every question that waited
\* opens the new checkout, or has only the report.
RebuildSettles ==
    /\ reindexing
    /\ At(ChatBuilder, "done") \/ At(ChatBuilder, "failed")
    /\ reindexing' = FALSE
    /\ question' = [q \in Questions |->
          IF q \notin AwaitRebuild THEN question[q]
          ELSE IF At(ChatBuilder, "failed") THEN [question[q] EXCEPT !.pc = "report"]
          ELSE [question[q] EXCEPT !.key = ChatKey,
                                   !.pc = IF graphs[Gateway][ChatKey] = "open" THEN "turn" ELSE "open"]]
    /\ IF At(ChatBuilder, "done") /\ AwaitRebuild # {} /\ graphs[Gateway][ChatKey] = Absent
       THEN SetHandle(Gateway, ChatKey, Opening) ELSE UNCHANGED graphs
    /\ UNCHANGED <<checkoutVars, graphPath>>

\* Questions that await a handle go on when it lands, and fall back to the
\* report when it does not.
QuestionsResume(p, k, pc) ==
    question' = IF p = Gateway
                THEN [q \in Questions |-> IF q \in AwaitHandle(k) THEN [question[q] EXCEPT !.pc = pc]
                                                                  ELSE question[q]]
                ELSE question

(***************************************************************************)
(* answerWithLoop: the last turn offers no tools, and if no text came of   *)
(* it one more call asks for it.  Text ends it, tools and empty answers    *)
(* take a turn, a call that throws ends the question.                      *)
(***************************************************************************)
ChatTurn(q) ==
    /\ Q(q, "turn")
    /\ \/ QEnd(q, "graph")
       \/ question[q].turn = ChatTurns - 1 /\ QGoto(q, "final")
       \/ question[q].turn < ChatTurns - 1 /\ SetQuestion(q, [question[q] EXCEPT !.turn = @ + 1])
    /\ UNCHANGED <<graphVars, graphPath, reindexing>>

\* Mutant: the loop starts over when the forced answer is empty.
FinalAnswerRetries(q) ==
    /\ Q(q, "final")
    /\ QEnd(q, "graph") \/ SetQuestion(q, [question[q] EXCEPT !.pc = "turn", !.turn = 0])
    /\ UNCHANGED <<graphVars, graphPath, reindexing>>

\* The forced answer, text or the fixed apology.
FinalAnswer(q) ==
    /\ Q(q, "final") /\ QEnd(q, "graph")
    /\ UNCHANGED <<graphVars, graphPath, reindexing>>

ReportAnswer(q) ==
    /\ Q(q, "report") /\ QEnd(q, "report")
    /\ UNCHANGED <<graphVars, graphPath, reindexing>>

ChatThrows(q) ==
    /\ Q(q, "turn") \/ Q(q, "final") \/ Q(q, "report")
    /\ QEnd(q, "error")
    /\ UNCHANGED <<graphVars, graphPath, reindexing>>

(***************************************************************************)
(* The builders, of runs and of the chat                                   *)
(***************************************************************************)
\* SET graph_path: by the run of the job once it has indexed, by the rebuild.
Register(b) ==
    /\ At(b, "register")
    /\ graphPath' = IF b \in RunBuilders \cup {ChatBuilder} THEN Key(b) ELSE graphPath
    /\ Goto(b, "done")
    /\ UNCHANGED <<disk, byAge, archives, graphs, question, reindexing>>

\* The chat's builder runs when a question has asked for it.
MayBuild(b) == b = ChatBuilder => reindexing

BuildStep(b) ==
    \/ /\ MayBuild(b) /\ FetchStep(b)
       /\ UNCHANGED <<graphs, graphPath, question, reindexing>>
    \/ InitAndIndex(b) /\ UNCHANGED <<graphPath, question, reindexing>>
    \/ Register(b)

HandleStep(p, k) ==
    \/ Lands(p, k) /\ QuestionsResume(p, k, "turn") /\ UNCHANGED <<graphPath, reindexing>>
    \/ HandleRejects(p, k) /\ QuestionsResume(p, k, "report") /\ UNCHANGED <<graphPath, reindexing>>

QuestionStep(q) ==
    \/ FindCheckout(q) \/ Reindex(q)
    \/ ChatTurn(q) \/ FinalAnswer(q) \/ ReportAnswer(q)

ChatNext ==
    \/ \E b \in Builders : BuildStep(b)
    \/ \E b \in Builders : TooManyFiles(b) /\ UNCHANGED <<graphs, graphPath, question, reindexing>>
    \/ \E p \in Procs, k \in Keys : HandleStep(p, k)
    \/ \E q \in Questions : Ask(q) \/ QuestionStep(q) \/ ChatThrows(q)
    \/ RebuildSettles

ChatSpec == ChatInit /\ [][ChatNext]_chatVars

(***************************************************************************)
(* Properties                                                              *)
(***************************************************************************)
\* Two questions at a time share one rebuild, and one that comes after it has
\* ended finds its checkout or starts another.
OneRebuild ==
    [][/\ ChatBuilder \in Building => ~(builds'[ChatBuilder].pc = "idle")
       /\ AwaitRebuild' # {} => reindexing']_chatVars

\* Every question gets an answer, a refusal or an error, whatever becomes of
\* the checkouts and handles it waits for.
QuestionsAnswered == \A q \in Questions : Q(q, "path") ~> Q(q, "over")

(***************************************************************************)
(* What comments say and the code does not do                              *)
(***************************************************************************)
\* codegraph.service.ts on the cache key: the path is the identity of what is
\* opened, so a run never queries the index of an earlier checkout; not even
\* when no two builders ever overlap.
RegisteredIsFresh ==
    [][\A b \in Builders : At(b, "register") /\ Peak = 1 /\ builds'[b].pc = "done"
          => disk[Key(b)].index = "fresh"]_chatVars
=============================================================================
