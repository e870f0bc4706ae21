------------------------ MODULE MCCheckpointRecovery ------------------------
(* CheckpointRecovery on a small instance: two processes, serial and       *)
(* concurrent dispatch.  The host hooks of AgentLoop that only stop a run   *)
(* and the token are left to MCAgentLoop; a crash can happen anywhere.     *)
EXTENDS CheckpointRecovery

BothDispatches == [concurrent : BOOLEAN, token : {FALSE}, reactive : {FALSE}]
NoStops == {}
=============================================================================
