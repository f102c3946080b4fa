----------------------------- MODULE MCRepoChat -----------------------------
(***************************************************************************)
(* An instance of RepoChat: the job's runs share the directory job-0 (a    *)
(* retry keeps the epoch), the chat's rebuild has its own, and a run of    *)
(* another job competes for the volume.                                    *)
(***************************************************************************)
EXTENDS RepoChat

CONSTANTS chat, other               \* builders; the others are runs of the job

MCKeyOf == [b \in Builders |-> CASE b = chat -> "job-chat" [] b = other -> "other" [] OTHER -> "job-0"]
MCProcOf == [b \in Builders |-> IF b = chat THEN "gateway" ELSE "orchestrator"]
=============================================================================
