-------------------------- MODULE DocumentedClaims --------------------------
(***************************************************************************)
(* What docstrings and docs say of a run, and the loop of AgentLoop does   *)
(* not keep: the run over this module checks the claim and finds the       *)
(* behaviour that breaks it.                                               *)
(***************************************************************************)
EXTENDS AgentLoop

OneReactiveRun == [concurrent : {FALSE}, token : {FALSE}, reactive : {TRUE}]

(* "After each strategy, rebuilds the prompt and retries the LLM call"     *)
(* (loop.py, _recovery_chain): the turn that a retry saved goes on to its  *)
(* tools, so the lifecycle lets it leave for dispatching or finalizing.    *)
RecoveredTurnProceeds ==
  /\ pc = "plan" /\ RegularCount(Admit(calls)) > 0 => CanMove("running", "dispatching")
  /\ pc = "gate" => CanMove("running", "finalizing")
=============================================================================
