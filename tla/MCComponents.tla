---------------------------- MODULE MCComponents ----------------------------
(***************************************************************************)
(* The components that wait for one another, each by itself: a behaviour   *)
(* picks one of them and runs it, the others rest in their initial states. *)
(***************************************************************************)
EXTENDS SlotGate, AgentLoop, D2Renderer, MCRepoChat, RateLimit

VARIABLE sys

gateVars == vars
componentVars == <<sys, gateVars, loopVars, rendererVars, chatVars, limitVars>>

ComponentsInit ==
    /\ sys \in {"gate", "loop", "renderer", "chat", "limit"}
    /\ Init /\ LoopInit /\ RendererInit /\ ChatInit /\ LimitInit

GateMoves == sys = "gate" /\ Next /\ UNCHANGED <<sys, loopVars, rendererVars, chatVars, limitVars>>
LoopMoves == sys = "loop" /\ LoopNext /\ UNCHANGED <<sys, gateVars, rendererVars, chatVars, limitVars>>
RendererMoves == sys = "renderer" /\ RendererNext /\ UNCHANGED <<sys, gateVars, loopVars, chatVars, limitVars>>
ChatMoves == sys = "chat" /\ ChatNext /\ UNCHANGED <<sys, gateVars, loopVars, rendererVars, limitVars>>
LimitMoves == sys = "limit" /\ LimitNext /\ UNCHANGED <<sys, gateVars, loopVars, rendererVars, chatVars>>

ComponentsNext == GateMoves \/ LoopMoves \/ RendererMoves \/ ChatMoves \/ LimitMoves

\* A slot's timer fires and every handler comes to its finally block.  A loop
\* goes on: the provider answers, or its client gives up.  The event loop of the
\* renderer runs and its timeouts fire, the worker may never answer.  Questions,
\* the rebuild they wait for and the opening of handles go on; runs need not
\* start.  The clock of the rate limit runs and Redis answers.
ComponentsFair ==
    /\ ComponentsInit /\ [][ComponentsNext]_componentVars
    /\ WF_vars(sys = "gate" /\ TimerFires)
    /\ \A h \in Handlers : WF_vars(sys = "gate" /\ ReleaseSlot(h))
    /\ \A a \in Runners : WF_loopVars(sys = "loop" /\ LoopStep(a))
    /\ \A b \in Reports : WF_rendererVars(sys = "renderer" /\ (Enqueue(b) \/ TooLarge(b)))
    /\ WF_rendererVars(sys = "renderer" /\ (TakeLock \/ GetInstance \/ Terminate))
    /\ WF_rendererVars(sys = "renderer" /\ RenderFails)
    /\ \A q \in Questions : WF_chatVars(sys = "chat" /\ QuestionStep(q))
    /\ WF_chatVars(sys = "chat" /\ BuildStep(ChatBuilder))
    /\ \A p \in Procs, k \in Keys : WF_chatVars(sys = "chat" /\ HandleStep(p, k))
    /\ WF_chatVars(sys = "chat" /\ RebuildSettles)
    /\ WF_limitVars(sys = "limit" /\ SecondsPass)
    /\ \A s \in Submitters : WF_limitVars(sys = "limit" /\ Expire(s))

\* Every component keeps to its types; a checkout that is not on the disk has
\* neither files nor index.
ComponentTypesOK == TypeOK /\ LoopTypeOK /\ RendererTypeOK /\ ChatTypeOK /\ LimitTypeOK
=============================================================================
