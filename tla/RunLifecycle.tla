---------------------------- MODULE RunLifecycle ----------------------------
(***************************************************************************)
(* The run lifecycle vocabulary of looplet: statuses, phases, and the two  *)
(* transition tables that validate_run_transition consults before a loop   *)
(* changes either of them (types.py).                                      *)
(***************************************************************************)

RunStatuses == {"created", "running", "completed", "stopped", "failed", "cancelled"}

RunPhases == {"starting", "prompting", "llm", "dispatching", "finalizing",
              "stopping", "terminal"}

TerminalStatuses == {"completed", "stopped", "failed", "cancelled"}

StatusSuccessors ==
  [s \in RunStatuses |-> CASE s = "created" -> {"running"}
                           [] s = "running" -> TerminalStatuses
                           [] OTHER -> {}]

PhaseSuccessors ==
  [p \in RunPhases |->
     CASE p = "starting"    -> {"prompting", "stopping", "terminal"}
       [] p = "prompting"   -> {"llm", "stopping", "terminal"}
       [] p = "llm"         -> {"prompting", "dispatching", "finalizing",
                                "stopping", "terminal"}
       [] p = "dispatching" -> {"prompting", "finalizing", "stopping", "terminal"}
       [] p = "finalizing"  -> {"prompting", "stopping", "terminal"}
       [] p = "stopping"    -> {"terminal"}
       [] OTHER             -> {}]

(* validate_run_transition raises InvalidRunTransition exactly when this is FALSE. *)
LegalTransition(status, phase, status2, phase2) ==
  /\ status2 = status \/ status2 \in StatusSuccessors[status]
  /\ phase2 = phase \/ phase2 \in PhaseSuccessors[phase]
  /\ status2 \in TerminalStatuses <=> phase2 = "terminal"
=============================================================================
