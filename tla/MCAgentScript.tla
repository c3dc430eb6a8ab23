--------------------------- MODULE MCAgentScript ---------------------------
(* Instances of AgentScript for TLC. *)
EXTENDS AgentScript
=============================================================================
