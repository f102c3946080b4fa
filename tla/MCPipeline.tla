----------------------------- MODULE MCPipeline -----------------------------
(***************************************************************************)
(* Small instances of the pipeline for TLC.  The sets of actors are model  *)
(* values given by each configuration.                                     *)
(***************************************************************************)
EXTENDS Pipeline, TLC

\* Agent types the selection treats alike are interchangeable in safety runs.
AgentSymmetry == Permutations(Always) \cup Permutations(Wakers)
=============================================================================
