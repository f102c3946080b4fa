----------------------------- MODULE GraphCache -----------------------------
(***************************************************************************)
(* CodeGraphService: each process keeps one handle per checkout path, as   *)
(* the promise of opening it.  Whoever asks while it is pending joins, who *)
(* asks later gets the handle that is there; a rejection is not kept.      *)
(* Nothing but close() evicts a handle, and close() is called by the       *)
(* agent-worker only.  The handles of the agent-worker are left out: it    *)
(* opens what the orchestrator has indexed, and closes it.                 *)
(***************************************************************************)
EXTENDS Checkouts

CONSTANTS
    Procs,          \* the processes that open graphs
    ProcOf          \* the process of each builder

ASSUME GraphAssumption == ProcOf \in [Builders -> Procs]

VARIABLE graphs     \* the handle cache of each process

graphVars == <<checkoutVars, graphs>>

\* A pending handle is being indexed or only opened.
Absent == "absent"
Indexing == "indexing"
Opening == "opening"
Handles == {Absent, Indexing, Opening, "open"}

GraphTypeOK == graphs \in [Procs -> [Keys -> Handles]]
GraphInit == graphs = [p \in Procs |-> [k \in Keys |-> Absent]]

Proc(b) == ProcOf[b]
SetHandle(p, k, h) == graphs' = [graphs EXCEPT ![p][k] = h]

\* initAndIndex: the promise that is cached, whatever it was opened on, or a
\* new one that indexes the checkout.
InitAndIndex(b) ==
    LET h == graphs[Proc(b)][Key(b)] IN
    /\ At(b, "index")
    /\ Goto(b, IF h = "open" THEN "register" ELSE "indexing")
    /\ IF h = Absent THEN SetHandle(Proc(b), Key(b), Indexing) ELSE UNCHANGED graphs
    /\ UNCHANGED <<disk, byAge, archives>>

\* Everybody who awaits the handle of key k in process p goes on: the builders
\* here, the questions in RepoChat.
BuildersResume(p, k, ok) ==
    builds' = [b \in Builders |->
                IF At(b, "indexing") /\ Proc(b) = p /\ Key(b) = k
                THEN [builds[b] EXCEPT !.pc = IF ok THEN "register" ELSE "failed"]
                ELSE builds[b]]

\* The index is written next to the files, as they are when it is finished.
IndexingLands(p, k) ==
    /\ graphs[p][k] = Indexing
    /\ There(k)
    /\ disk' = [disk EXCEPT ![k].index = "fresh"]
    /\ Touch(k)
    /\ SetHandle(p, k, "open")
    /\ BuildersResume(p, k, TRUE)
    /\ UNCHANGED <<archives>>

\* Opening finds the database an earlier indexing has written.
OpeningLands(p, k) ==
    /\ graphs[p][k] = Opening
    /\ disk[k].index # "none"
    /\ SetHandle(p, k, "open")
    /\ BuildersResume(p, k, TRUE)
    /\ UNCHANGED <<disk, byAge, archives>>

\* Opening a checkout that has no database.
Baseless(p, k) == graphs[p][k] = Opening /\ disk[k].index = "none"

\* Indexing may fail at any time, opening without a database does.
HandleRejects(p, k) ==
    /\ graphs[p][k] = Indexing \/ Baseless(p, k)
    /\ SetHandle(p, k, Absent)
    /\ BuildersResume(p, k, FALSE)
    /\ UNCHANGED <<disk, byAge, archives>>

Lands(p, k) == IndexingLands(p, k) \/ OpeningLands(p, k)
=============================================================================
