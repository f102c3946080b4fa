----------------------------- MODULE Checkouts -----------------------------
(***************************************************************************)
(* The checkouts on the volume /tmp/repos that orchestrator, agent-worker  *)
(* and api-gateway share: GithubTarballService.downloadAndExtract with its *)
(* pruning.  A checkout is a directory named by its run key, {job}-{epoch} *)
(* for a run and {job}-chat for the repository chat.                       *)
(*                                                                         *)
(* A builder is one call of downloadAndExtract and of the indexing that    *)
(* follows it.  Steps end where the code awaits the disk or the network.   *)
(* Builders of one key (a retry keeps the epoch, so two retries share the  *)
(* directory, the archive and the index) and of other keys run side by     *)
(* side and in several processes.                                          *)
(***************************************************************************)
EXTENDS Integers, FiniteSetsExt

CONSTANTS
    Keys,           \* run keys
    Builders,       \* calls of downloadAndExtract
    KeyOf,          \* the key each of them builds
    Keep            \* MAX_RETAINED_CHECKOUTS

ASSUME CheckoutAssumption ==
    /\ IsFiniteSet(Keys) /\ IsFiniteSet(Builders)
    /\ KeyOf \in [Builders -> Keys] /\ Keep \in Nat \ {0}

VARIABLES
    disk,           \* the directory of each key
    byAge,          \* the directories there are, each with those of a later mtime
    archives,       \* the keys whose .tar.gz is on the volume
    builds          \* the builders

checkoutVars == <<disk, byAge, archives, builds>>

\* files: an archive has been extracted; index: the CodeGraph database in the
\* directory, stale when the files were extracted after it was written.
NoDir == [files |-> FALSE, index |-> "none"]
BuildPCs == {"idle", "prune", "fetch", "extract", "cleanup", "index", "indexing", "register", "done", "failed"}

Dirs == DOMAIN byAge
There(k) == k \in Dirs

CheckoutTypeOK ==
    /\ disk \in [Keys -> [files : BOOLEAN, index : {"none", "stale", "fresh"}]]
    /\ Dirs \subseteq Keys /\ byAge \in [Dirs -> SUBSET Dirs]
    /\ \A k, j \in Dirs : j \in byAge[k] <=> k # j /\ k \notin byAge[j]
    /\ \A k \in Dirs : \A j \in byAge[k] : byAge[j] \subseteq byAge[k]
    /\ archives \subseteq Keys
    /\ builds \in [Builders -> [pc : BuildPCs, stale : SUBSET Keys, beside : 0..Cardinality(Builders)]]
    /\ \A k \in Keys : ~There(k) => disk[k] = NoDir

CheckoutInit ==
    /\ disk = [k \in Keys |-> NoDir]
    /\ byAge = [k \in {} |-> {}]
    /\ archives = {}
    /\ builds = [b \in Builders |-> [pc |-> "idle", stale |-> {}, beside |-> 0]]

Key(b) == KeyOf[b]
At(b, pc) == builds[b].pc = pc
Goto(b, pc) == builds' = [builds EXCEPT ![b].pc = pc, ![b].stale = {}]

\* The directories left in the order they had, and those of top the newest.
Arrange(left, top) ==
    byAge' = [k \in left \cup top |-> IF k \in top THEN {} ELSE (byAge[k] \cap left) \cup top]
Touch(k) == Arrange(Dirs, {k})

\* The builders at work, and the most that ever were: beside has how many there
\* were when b began, itself included.
Building == {b \in Builders : ~At(b, "idle") /\ ~At(b, "done") /\ ~At(b, "failed")}
Beside(b) == Max({builds[b].beside, Cardinality(Building) + 1})
Peak == Max({builds[b].beside : b \in Builders})

\* Mutant: the slot of the checkout about to be created is not reserved.
StaleAllButKeep(k) ==
    {d \in Dirs \ {k} : Cardinality(byAge[d] \ {k}) >= Keep}

\* What pruneOldCheckouts will delete: all but the newest Keep - 1 directories
\* of other keys.
StaleDirs(k) ==
    {d \in Dirs \ {k} : Cardinality(byAge[d] \ {k}) >= Keep - 1}

\* The listing: every archive found is swept, whoever is writing it.
ListCheckouts(b) ==
    /\ At(b, "idle")
    /\ builds' = [builds EXCEPT ![b] = [pc |-> "prune", stale |-> StaleDirs(Key(b)), beside |-> Beside(b)]]
    /\ archives' = {}
    /\ UNCHANGED <<disk, byAge>>

\* A listed directory is deleted, whatever has become of it since; the listed ones
\* go one by one, in an order the ages at the listing fixed.
DeleteStale(b) ==
    \E k \in builds[b].stale :
        /\ At(b, "prune")
        /\ disk' = [disk EXCEPT ![k] = NoDir]
        /\ Arrange(Dirs \ {k}, {})
        /\ builds' = [builds EXCEPT ![b].stale = @ \ {k}]
        /\ UNCHANGED archives

\* The own directory is there from now on, new or not.
Mkdir(b) ==
    /\ At(b, "prune") /\ builds[b].stale = {}
    /\ Arrange(Dirs, {Key(b)} \ Dirs)
    /\ Goto(b, "fetch")
    /\ UNCHANGED <<disk, archives>>

\* The archive is written, or GitHub refuses or a size limit strikes.
Download(b) ==
    /\ At(b, "fetch")
    /\ \/ archives' = archives \cup {Key(b)} /\ Goto(b, "extract")
       \/ Goto(b, "cleanup") /\ UNCHANGED archives
    /\ UNCHANGED <<disk, byAge>>

\* tar.extract over whatever the directory holds.  It fails when the archive or
\* the directory has gone.
Extract(b) ==
    /\ At(b, "extract")
    /\ IF Key(b) \in archives /\ There(Key(b))
       THEN /\ disk' = [disk EXCEPT ![Key(b)].files = TRUE,
                                    ![Key(b)].index = IF @ = "none" THEN @ ELSE "stale"]
            /\ Touch(Key(b))
            /\ archives' = archives \ {Key(b)}
            /\ Goto(b, "index")
       ELSE Goto(b, "cleanup") /\ UNCHANGED <<disk, byAge, archives>>

\* Too many files, found after the extraction.
TooManyFiles(b) ==
    /\ At(b, "index") /\ Goto(b, "cleanup")
    /\ UNCHANGED <<disk, byAge, archives>>

\* The catch and finally blocks: directory and archive are removed.
CleanUp(b) ==
    /\ At(b, "cleanup")
    /\ disk' = [disk EXCEPT ![Key(b)] = NoDir]
    /\ Arrange(Dirs \ {Key(b)}, {})
    /\ archives' = archives \ {Key(b)}
    /\ Goto(b, "failed")

FetchStep(b) ==
    ListCheckouts(b) \/ DeleteStale(b) \/ Mkdir(b) \/ Download(b) \/ Extract(b) \/ CleanUp(b)

(***************************************************************************)
(* Properties                                                              *)
(***************************************************************************)
\* The disk does not fill up: builders that list the volume before the others
\* have made their directories exceed the limit, but by no more than the most
\* that ever ran at once, however their listings and deletions interleave.
RetentionBounded == Peak > 0 => Cardinality(Dirs) <= Keep - 1 + Peak
=============================================================================
