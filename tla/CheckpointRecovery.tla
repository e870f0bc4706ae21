------------------------- MODULE CheckpointRecovery -------------------------
(***************************************************************************)
(* AgentLoop in a process that can die at any point and in a host that     *)
(* calls the loop again with the same checkpoint directory: the recovery   *)
(* half of checkpoint.py, and the resume prologue of loop.py.              *)
(*                                                                         *)
(* The host gives every logical task a directory of its own, as the docs   *)
(* ask, so it does not call the loop again once done() was accepted.       *)
(***************************************************************************)
EXTENDS AgentLoop

CONSTANT MaxLives  \* bound: processes that work on the task, one after another

ASSUME LivesAssumption == MaxLives \in Nat \ {0}

VARIABLE lives     \* processes started so far

recoveryVars == <<vars, lives>>

(* Everything the process held in memory starts over. *)
FreshProcess ==
  /\ pc' = "start"
  /\ ctx' = [status |-> "created", phase |-> "starting", reason |-> NoReason]
  /\ pub' = ctx'
  /\ stopReason' = "budget_exhausted"
  /\ hookStop' = FALSE /\ asked' = FALSE /\ llmFailed' = FALSE
  /\ llm' = "failed" /\ strategies' = 0 /\ parseFails' = 0
  /\ steps' = <<>>
  /\ stepNum' = 0 /\ calls' = <<>> /\ at' = 0 /\ batch' = <<>> /\ running' = {}
  /\ lateGroups' = 0
  /\ cancelled' = FALSE /\ late' = FALSE
  /\ hooksBound' = TRUE /\ loopEnds' = 0 /\ outcome' = "none"
  /\ lives' = lives + 1
  /\ UNCHANGED <<config, storeVars, effects>>

(* load_latest_for_resume: a terminal checkpoint is authoritative, else    *)
(* the checkpoint that _checkpoint_order puts last.                        *)
Terminal == \E key \in DOMAIN saved : key[1] = "done"

(* Mutant: step number alone decides, so a pending record can win a tie. *)
ToResumeMutant ==
  CHOOSE key \in DOMAIN saved : \A other \in DOMAIN saved : saved[other].n <= saved[key].n

ToResume == Newest

(* resume_loop_state raises UncertainToolEffect for pending calls. *)
Uncertain == saved[ToResume].kind = "pending"

(* DefaultState.budget_remaining's setter: the restored remainder becomes  *)
(* an offset, because the resumed state starts with no steps.              *)
RestoredOffsetMutant == 0
RestoredOffset ==
  IF MaxSteps > saved[ToResume].left THEN MaxSteps - saved[ToResume].left ELSE 0

(* step_offset: the resumed process numbers its steps on from here. *)
ResumedAtMutant == 0
ResumedAt == saved[ToResume].n

Stopped == pc \in {"ended", "crashed"} /\ lives < MaxLives /\ ~Terminal

(* The process dies.  What it had in memory is gone; files and effects stay. *)
Crash ==
  /\ pc \notin {"ended", "crashed", "refused"}
  /\ pc' = "crashed"
  /\ UNCHANGED <<config, ctx, pub, stopReason, hookStop, llmFailed, llm, strategies,
                 parseFails, steps, stepNum, calls, at, batch, running, offset, budgetOffset,
                 saved, clock, effects, cancelled, late, hooksBound, loopEnds, outcome,
                 asked, lateGroups, lives>>

RestartFresh ==
  /\ Stopped
  /\ saved = [key \in {} |-> {}]
  /\ FreshProcess
  /\ offset' = 0 /\ budgetOffset' = 0

Resume ==
  /\ Stopped
  /\ DOMAIN saved # {}
  /\ ~Uncertain
  /\ FreshProcess
  /\ offset' = ResumedAt
  /\ budgetOffset' = RestoredOffset

RefuseResume ==
  /\ Stopped
  /\ DOMAIN saved # {}
  /\ Uncertain
  /\ pc' = "refused"
  /\ lives' = lives + 1
  /\ UNCHANGED <<config, ctx, pub, stopReason, hookStop, llmFailed, llm, strategies,
                 parseFails, steps, stepNum, calls, at, batch, running, offset, budgetOffset,
                 saved, clock, effects, cancelled, late, hooksBound, loopEnds, outcome,
                 asked, lateGroups>>

RecoveryInit == Init /\ lives = 1

RecoveryNext ==
  \/ (LoopStep \/ HostStep) /\ UNCHANGED lives
  \/ Crash
  \/ RestartFresh
  \/ Resume
  \/ RefuseResume

RecoverySpec == RecoveryInit /\ [][RecoveryNext]_recoveryVars

-----------------------------------------------------------------------------
(* A tool about to run has not run before, in this process or an earlier   *)
(* one, under the same step number.                                        *)
AtMostOnce ==
  /\ pc = "execute" => \A i \in running : stepNum + at + i - 1 \notin effects
  /\ pc = "execute_done" => DoneStep \notin effects

(* Charged work that reached a checkpoint is never handed back by a crash  *)
(* and resume: along the step numbers of the finished checkpoints, whichever *)
(* process wrote them, the saved budget only falls.                        *)
Finished == {key \in DOMAIN saved : key[1] # "pending"}
SpendingKept ==
  \A k1, k2 \in Finished : saved[k1].n < saved[k2].n => saved[k2].left <= saved[k1].left

(* The calls whose outcome the newest checkpoint leaves open.              *)
InDoubt ==
  IF DOMAIN saved = {} \/ saved[Newest].kind # "pending" THEN {}
  ELSE {n \in 1..saved[Newest].n : ~Recorded(n)}

Ledger == INSTANCE EffectLedger WITH
            executed <- effects, inDoubt <- InDoubt, refused <- pc = "refused"

(* Loop, store, crash and resume together implement the effect ledger. *)
ImplementsLedger == Ledger!Spec
=============================================================================
