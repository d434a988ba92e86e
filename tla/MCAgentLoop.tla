---------------------------- MODULE MCAgentLoop ----------------------------
(***************************************************************************)
(* Model-checking instances of AgentLoop.                                  *)
(***************************************************************************)
EXTENDS AgentLoop
=============================================================================
