------------------------ MODULE RuntimeCheckpoints ------------------------
(***************************************************************************)
(* AgentRuntime's checkpoint hook (runtime.py, _RunStoreCheckpointHook)    *)
(* between the loop and a RunStore.  The hook is the loop's checkpoint     *)
(* store; it keeps only some of what the loop saves, remembers whether a   *)
(* dispatch is pending, and writes one more document when the loop ends.   *)
(* What the loop saves is `saved' of AgentLoop: the mirror directory.      *)
(***************************************************************************)
EXTENDS AgentLoop, FiniteSetsExt

CONSTANT Every  \* checkpoint_every_n_steps

ASSUME EveryAssumption == Every \in Nat \ {0}

VARIABLES
  store,    \* the run's checkpoints in the RunStore, by step number
  pending,  \* _pending_checkpoint is set
  warned    \* persistence_errors is not empty

runtimeVars == <<store, pending, warned>>

(* RunStore.save_checkpoint under the key of a step number: the newest     *)
(* document of a number wins.  An error is kept as a warning.              *)
StoreSave(n, doc) ==
  \/ /\ store' = [k \in DOMAIN store \cup {n} |-> IF k = n THEN doc ELSE store[k]]
     /\ UNCHANGED warned
  \/ warned' = TRUE /\ UNCHANGED store

(* The key of the checkpoint the loop saved in this step, and before it. *)
SavedNow == CHOOSE key \in DOMAIN saved' : saved'[key].at = clock'
LatestStep ==
  IF clock = 0 THEN 0 ELSE saved[CHOOSE key \in DOMAIN saved : saved[key].at = clock].n

(* Mutant: only every n-th acknowledgement is kept. *)
KeptMutant(kind, n) == kind \in {"pending", "done"} \/ n % Every = 0

(* Pending records, the first acknowledgement after one, terminal ones.    *)
Kept(kind, n) == kind \in {"pending", "done"} \/ pending \/ n % Every = 0

(* save: a pending record is remembered until a step is acknowledged. *)
HookSave ==
  LET kind == SavedNow[1]
      n == SavedNow[2]
  IN /\ pending' = (kind = "pending")
     /\ IF Kept(kind, n)
        THEN StoreSave(n, [pending |-> kind = "pending", terminal |-> kind = "done"])
        ELSE UNCHANGED <<store, warned>>

(* Mutant: the document written at the end forgets the pending calls. *)
TerminalSaveMutant ==
  /\ StoreSave(Max({LatestStep, IF steps = <<>> THEN 0 ELSE LastStep.n}),
               [pending |-> FALSE, terminal |-> TRUE])
  /\ UNCHANGED pending

(* on_loop_end: the highest step number the hook knows, the calls that are *)
(* still pending, and the terminal status.                                 *)
TerminalSave ==
  /\ StoreSave(Max({LatestStep, IF steps = <<>> THEN 0 ELSE LastStep.n}),
               [pending |-> pending, terminal |-> TRUE])
  /\ UNCHANGED pending

Hook ==
  IF clock' # clock THEN HookSave
  ELSE IF loopEnds' # loopEnds THEN TerminalSave
  ELSE UNCHANGED runtimeVars

RuntimeInit == Init /\ store = [n \in {} |-> {}] /\ pending = FALSE /\ warned = FALSE

(* AgentRuntime consumes the loop to its end: it never closes the stream. *)
RuntimeNext ==
  (LoopStep \/ HookRaises \/ DispatchRaises \/ CancelRun \/ DeadlinePasses \/ Ended) /\ Hook

RuntimeSpec == RuntimeInit /\ [][RuntimeNext]_<<vars, runtimeVars>>

-----------------------------------------------------------------------------
Latest == store[Max(DOMAIN store)]

(* Whatever the store dropped, a run that dies at any point, or ends       *)
(* without an accepted answer, leaves a newest document that resume        *)
(* refuses as long as some executed call has no recorded result.  (After   *)
(* a concurrent group was cut short only while the run is still alive; see *)
(* UnknownEffectsKept.)                                                    *)
StoreBlocksResume ==
  (~warned /\ (pc # "ended" \/ ~config.concurrent)) =>
    \A n \in effects : ~Recorded(n) => Latest.pending

(* The other way round, with serial dispatch: once the call's step is      *)
(* recorded the newest document no longer refuses a resume, although only   *)
(* every n-th step is kept.  (A concurrent group can leave its pending      *)
(* document as the newest one: its first acknowledgement counts for all.)  *)
StoreSettles ==
  ( /\ ~warned /\ ~config.concurrent /\ DOMAIN store # {}
    /\ pc \in {"after_step", "post_step", "top", "prompt", "finish"} )
  => ~Latest.pending

(* "runtime checkpoint keeps unknown effect until acknowledged"            *)
(* (tests/test_runtime.py): when the run has ended, the document written   *)
(* at its end still names as pending a call that was executed and never    *)
(* handed over.                                                            *)
UnknownEffectsKept ==
  (pc = "ended" /\ ~warned) =>
    \A n \in effects : n > Len(steps) + offset =>
      \A k \in DOMAIN store : store[k].terminal => store[k].pending
=============================================================================
