-------------------------- MODULE MCAgentRuntime --------------------------
(* AgentRuntime with two threads that call run() or start() and two that   *)
(* call close().                                                           *)
EXTENDS AgentRuntime
=============================================================================
