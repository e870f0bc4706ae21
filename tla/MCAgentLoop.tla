---------------------------- MODULE MCAgentLoop ----------------------------
(* AgentLoop on a small instance: every configuration, two charged steps,  *)
(* turns of up to two calls, one free call.                                *)
EXTENDS AgentLoop

AllConfigs == [concurrent : BOOLEAN, token : BOOLEAN, reactive : BOOLEAN]
=============================================================================
