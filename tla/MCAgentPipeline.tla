-------------------------- MODULE MCAgentPipeline --------------------------
(***************************************************************************)
(* Instance of AgentPipeline for TLC: two statements, up to two calls of   *)
(* the execute tools in a reply (one without a statement stands for any    *)
(* other tool), the answer forced in the third of four iterations, and     *)
(* personas that exclude nothing or inspection.                            *)
(***************************************************************************)
EXTENDS AgentPipeline

MCCallable == ExecuteTools
MCExclusions == {{}, {"inspect"}}
MCMaxIter == 4
MCForceAt == 2
MCMaxCalls == 2

=============================================================================
