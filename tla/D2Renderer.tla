----------------------------- MODULE D2Renderer -----------------------------
(***************************************************************************)
(* The diagram renderer of the synthesizer: D2Renderer with its lock, its  *)
(* watchdog and its WASM worker, and DiagramsService.buildAll, which       *)
(* renders the diagrams of one report in order and then recycles the       *)
(* worker.  Reports are built concurrently and share the one renderer.     *)
(*                                                                         *)
(* @terrastruct/d2 answers in the order of the messages, but remembers one *)
(* caller per instance: a reply resolves whoever called last.  A render is *)
(* two messages, compile and then render.                                  *)
(*                                                                         *)
(* onModuleDestroy is not a step: no application of the repository enables *)
(* Nest's shutdown hooks.                                                  *)
(***************************************************************************)
EXTENDS Integers, Sequences, FiniteSets

CONSTANTS
    Reports,        \* buildAll calls
    Diagrams        \* diagrams of each, rendered in order

ASSUME RendererAssumption == Diagrams \in Nat \ {0} /\ IsFiniteSet(Reports)

VARIABLES
    build,          \* the buildAll calls
    lockQueue,      \* the chain of serialize(), its head holds the lock
    holder,         \* what the head of the chain is doing
    instance,       \* this.instance, NoInstance if none
    booted,         \* the instances created so far
    alive,          \* those whose worker thread runs
    inbox,          \* the messages of each worker, in order
    resolver        \* currentResolve of each instance

rendererVars == <<build, lockQueue, holder, instance, booted, alive, inbox, resolver>>

NoInstance == 0
\* Every render may lose its instance, and every recycle does: no more are booted.
MaxInstances == (Diagrams + 1) * Cardinality(Reports)
Instances == 1..MaxInstances
\* A diagram, and a message about it.
Tasks == Reports \X (1..Diagrams)
Messages == Tasks \X {"compile", "render"}
NoCaller == <<>>

\* The outcome of a diagram: none yet, its own or another one's SVG, or a placeholder.
Pending == <<>>
Placeholder == <<"placeholder">>
Svg == Tasks

Build == [stage : {"start", "waiting", "over", "thrown"}, next : 1..(Diagrams + 1), got : [1..Diagrams -> Svg \cup {Pending, Placeholder}]]
Phases == {"free", "boot", "compile", "render", "terminate"}

RendererTypeOK ==
    /\ build \in [Reports -> Build]
    /\ lockQueue \in Seq(Reports)
    /\ holder \in Phases
    /\ instance \in Instances \cup {NoInstance}
    /\ booted \in 0..MaxInstances
    /\ alive \subseteq Instances
    /\ inbox \in [Instances -> Seq(Messages)]
    /\ resolver \in [Instances -> Messages \cup {NoCaller}]

RendererInit ==
    /\ build = [b \in Reports |-> [stage |-> "start", next |-> 1, got |-> [n \in 1..Diagrams |-> Pending]]]
    /\ lockQueue = <<>>
    /\ holder = "free"
    /\ instance = NoInstance
    /\ booted = 0
    /\ alive = {}
    /\ inbox = [i \in Instances |-> <<>>]
    /\ resolver = [i \in Instances |-> NoCaller]

Current == Head(lockQueue)
CurrentTask == <<Current, build[Current].next>>
Recycles(b) == build[b].next > Diagrams

(***************************************************************************)
(* buildAll                                                                *)
(***************************************************************************)
\* await renderer.render(...) of the next diagram, or recycle() after the last
\* one: either queues behind whoever holds or awaits the lock.
Enqueue(b) ==
    /\ build[b].stage = "start"
    /\ build' = [build EXCEPT ![b].stage = "waiting"]
    /\ lockQueue' = Append(lockQueue, b)
    /\ UNCHANGED <<holder, instance, booted, alive, inbox, resolver>>

\* A source over MAX_SOURCE_BYTES is a placeholder without taking the lock.
TooLarge(b) ==
    /\ build[b].stage = "start" /\ ~Recycles(b)
    /\ build' = [build EXCEPT ![b].got[build[b].next] = Placeholder, ![b].next = @ + 1]
    /\ UNCHANGED <<lockQueue, holder, instance, booted, alive, inbox, resolver>>

\* A builder of a diagram or of a chart throws over what an agent has written:
\* buildAll ends there, and its recycle, which is in no finally block, is skipped.
BuilderThrows(b) ==
    /\ build[b].stage = "start"
    /\ build' = [build EXCEPT ![b].stage = "thrown"]
    /\ UNCHANGED <<lockQueue, holder, instance, booted, alive, inbox, resolver>>

\* The report at the head once its render or recycle has settled.
Advanced(outcome) ==
    LET b == build[Current] IN
    IF Recycles(Current) THEN [b EXCEPT !.stage = "over"]
    ELSE [b EXCEPT !.stage = "start", !.next = b.next + 1, !.got = [b.got EXCEPT ![b.next] = outcome]]

\* The head of the chain settles with outcome; the next one may run.
Settled(outcome) ==
    /\ build' = [build EXCEPT ![Current] = Advanced(outcome)]
    /\ lockQueue' = Tail(lockQueue)
    /\ holder' = "free"

(***************************************************************************)
(* Under the lock                                                          *)
(***************************************************************************)
\* Mutant: a report with a placeholder is not followed by a recycle, its render
\* having thrown the instance away.
TakeLockUnlessDegraded ==
    /\ lockQueue # <<>> /\ holder = "free"
    /\ IF Recycles(Current) /\ \E n \in 1..Diagrams : build[Current].got[n] = Placeholder
       THEN Settled(Pending)
       ELSE /\ holder' = IF Recycles(Current) THEN "terminate" ELSE "boot"
            /\ UNCHANGED <<build, lockQueue>>
    /\ UNCHANGED <<instance, booted, alive, inbox, resolver>>

TakeLock ==
    /\ lockQueue # <<>> /\ holder = "free"
    /\ holder' = IF Recycles(Current) THEN "terminate" ELSE "boot"
    /\ UNCHANGED <<build, lockQueue, instance, booted, alive, inbox, resolver>>

\* One message to the worker of instance i; its caller is the one remembered.
Post(i, m) ==
    /\ inbox' = [inbox EXCEPT ![i] = Append(@, m)]
    /\ resolver' = [resolver EXCEPT ![i] = m]

\* getInstance: the instance there is, or a new one, and compile is sent to it.
GetInstance ==
    /\ holder = "boot"
    /\ IF instance # NoInstance
       THEN Post(instance, <<CurrentTask, "compile">>) /\ UNCHANGED <<instance, booted, alive>>
       ELSE /\ booted < MaxInstances
            /\ booted' = booted + 1
            /\ instance' = booted + 1
            /\ alive' = alive \cup {booted + 1}
            /\ Post(booted + 1, <<CurrentTask, "compile">>)
    /\ holder' = "compile"
    /\ UNCHANGED <<build, lockQueue>>

\* The import or the constructor throws; nothing is cached.
BootFails ==
    /\ holder = "boot" /\ instance = NoInstance
    /\ holder' = "terminate"
    /\ UNCHANGED <<build, lockQueue, instance, booted, alive, inbox, resolver>>

Answered(i) == Head(inbox[i])
\* Whose promise the reply of instance i resolves.
Resolved(i) == resolver[i]

\* The render that was asked for is still awaited, under the lock.
Awaited(m) == lockQueue # <<>> /\ m = <<CurrentTask, holder>>

\* The worker answers its oldest message, and the caller it remembers goes on:
\* from compile to render, from render to the end.  A caller that the watchdog
\* has given up still sends its render message.
Reply(i) ==
    /\ i \in alive /\ inbox[i] # <<>>
    /\ LET m == Resolved(i)
           rest == [inbox EXCEPT ![i] = Tail(@)]
       IN
       /\ m # NoCaller
       /\ \/ /\ m[2] = "compile"
             /\ inbox' = [rest EXCEPT ![i] = Append(@, <<m[1], "render">>)]
             /\ resolver' = [resolver EXCEPT ![i] = <<m[1], "render">>]
             /\ holder' = IF Awaited(m) THEN "render" ELSE holder
             /\ UNCHANGED <<build, lockQueue>>
          \/ /\ m[2] = "render"
             /\ inbox' = rest
             /\ resolver' = [resolver EXCEPT ![i] = NoCaller]
             /\ IF Awaited(m) THEN Settled(Answered(i)[1]) ELSE UNCHANGED <<build, lockQueue, holder>>
    /\ UNCHANGED <<instance, booted, alive>>

\* Mutant: the watchdog covers the compilation only.
FailsWhileCompiling ==
    /\ holder = "compile"
    /\ holder' = "terminate"
    /\ UNCHANGED <<build, lockQueue, instance, booted, alive, inbox, resolver>>

\* compile or render rejects, or the watchdog's 20 s are over: the instance is
\* thrown away before anybody else gets the lock.
RenderFails ==
    /\ holder \in {"compile", "render"}
    /\ holder' = "terminate"
    /\ UNCHANGED <<build, lockQueue, instance, booted, alive, inbox, resolver>>

\* Mutant: the watchdog gives up the diagram and keeps the instance.
KeepInstance ==
    /\ holder = "terminate"
    /\ IF Recycles(Current) THEN alive' = alive \ {instance} /\ instance' = NoInstance
                            ELSE UNCHANGED <<alive, instance>>
    /\ Settled(Placeholder)
    /\ UNCHANGED <<booted, inbox, resolver>>

\* Mutant: the instance is forgotten and its thread is not.
ForgetInstance ==
    /\ holder = "terminate"
    /\ instance' = NoInstance
    /\ Settled(Placeholder)
    /\ UNCHANGED <<alive, booted, inbox, resolver>>

\* terminate(): the fields are reset at once, the thread ends a little later;
\* until then the lock is held.
Terminate ==
    /\ holder = "terminate"
    /\ instance' = NoInstance
    /\ alive' = alive \ {instance}
    /\ Settled(Placeholder)
    /\ UNCHANGED <<booted, inbox, resolver>>

RendererNext ==
    \/ \E b \in Reports : Enqueue(b) \/ TooLarge(b) \/ BuilderThrows(b)
    \/ TakeLock \/ GetInstance \/ BootFails \/ RenderFails \/ Terminate
    \/ \E i \in Instances : Reply(i)

RendererSpec == RendererInit /\ [][RendererNext]_rendererVars

(***************************************************************************)
(* Properties                                                              *)
(***************************************************************************)
\* No report shows another diagram's drawing, whichever renders time out, and
\* however late the worker answers them.
OwnDiagram == \A b \in Reports, n \in 1..Diagrams : build[b].got[n] \in {Pending, Placeholder, <<b, n>>}

\* At most one worker thread lives; no instance is lost with its memory.
OneWorker == alive \subseteq {instance}

\* When every report was built to its end, no worker is kept.  A report whose
\* builder throws leaves the worker to the recycle of a later report.
QuietReclaims == (\A b \in Reports : build[b].stage = "over") => alive = {}

\* The memory of a worker, which never shrinks, is held once at a time, and given
\* back when the last report is built, however the reports and the timeouts
\* overlapped, as long as no builder throws.
WorkerReclaimed == OneWorker /\ QuietReclaims

\* A report comes to its end although the worker may hang at any message.
ReportsEnd == \A b \in Reports : build[b].stage = "waiting" ~> build[b].stage \in {"over", "thrown"}
=============================================================================
