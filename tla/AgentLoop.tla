----------------------------- MODULE AgentLoop -----------------------------
(***************************************************************************)
(* One run of looplet's synchronous loop, _composable_loop_impl in         *)
(* loop.py, inside the frame composable_loop puts around it.  A program    *)
(* counter names the point the generator has reached; one action is the    *)
(* code between two points where somebody else can act: the model, a tool, *)
(* a host callback (hook), the consumer of the yielded steps, or another   *)
(* thread that cancels the token or lets the deadline pass.                *)
(*                                                                         *)
(* Hooks, the model and tools are nondeterministic.  The run has a         *)
(* checkpoint store, a DefaultState and no assistant-turn policy.          *)
(***************************************************************************)
EXTENDS RunLifecycle, Integers, Sequences, FiniteSets

CONSTANTS
  MaxSteps,          \* LoopConfig.max_steps: the charged-step budget of the run
  MaxCalls,          \* bound: tool calls the model proposes in one turn
  MaxFree,           \* bound: calls of free tools the model proposes in a run
  ParseRecoveryMax,  \* scaffolding.PARSE_RECOVERY_MAX
  HookReasons,       \* the reasons host hooks give when they ask for a stop
  Configs            \* the run configurations: [concurrent, token, reactive]

NoReason == "none"

ASSUME BudgetAssumption == MaxSteps \in Nat
ASSUME TurnAssumption == MaxCalls \in Nat \ {0} /\ MaxFree \in Nat
ASSUME RecoveryAssumption == ParseRecoveryMax \in Nat
ASSUME ReasonAssumption == HookReasons \subseteq STRING /\ NoReason \notin HookReasons
ASSUME ConfigAssumption ==
  Configs \subseteq [concurrent : BOOLEAN, token : BOOLEAN, reactive : BOOLEAN]

VARIABLES
  config,        \* the LoopConfig of this run
  pc,            \* where the generator is
  ctx,           \* LoopContext: status, phase, termination_reason
  pub,           \* the same three as the caller-owned state shows them
  stopReason,    \* stop_reason
  hookStop,      \* _hook_requested_stop
  llmFailed,     \* llm_failed
  llm,           \* llm_result: "ok", "overflow" or "failed"
  strategies,    \* how many of the recovery chain's strategies have fired
  parseFails,    \* consecutive_parse_failures, counted as far as it is compared
  steps,         \* state.steps
  stepNum,       \* step_num, set at the head of the loop
  calls,         \* the admitted calls of the turn
  at,            \* calls of the turn whose result has been collected
  batch,         \* results of the current group, not yet collected
  running,       \* positions of the group whose tool is still running
  offset,        \* _step_offset of a resumed run
  budgetOffset,  \* DefaultState._budget_offset
  saved,         \* the checkpoint files: key -> document
  clock,         \* the time of the last save
  effects,       \* step numbers whose tool was executed
  cancelled,     \* the CancelToken is set
  late,          \* the deadline has passed
  hooksBound,    \* the finalizer still holds the on_loop_end hooks
  loopEnds,      \* times on_loop_end ran
  outcome,       \* how the generator ended
  asked,         \* history: a hook asked for a stop in this turn
  lateGroups     \* history: groups handed to the tools after the token was set

lifecycleVars == <<ctx, pub>>
reasonVars    == <<stopReason, hookStop, llmFailed, asked>>
modelVars     == <<llm, strategies, parseFails>>
turnVars      == <<stepNum, calls, at, batch, running>>
storeVars     == <<saved, clock>>
toolVars      == <<effects, lateGroups>>
hostVars      == <<cancelled, late>>
endVars       == <<hooksBound, loopEnds, outcome>>
fixedVars     == <<config, offset, budgetOffset>>
vars == <<config, pc, ctx, pub, stopReason, hookStop, llmFailed, llm, strategies,
          parseFails, steps, stepNum, calls, at, batch, running, offset, budgetOffset,
          saved, clock, effects, cancelled, late, hooksBound, loopEnds, outcome,
          asked, lateGroups>>

Points ==
  {"start", "top", "prompt", "request", "await", "answered", "yield_failed", "parse",
   "unparsed", "yield_unparsed", "plan", "intercept", "execute", "collect",
   "yield_tool", "after_step", "dispatched", "gate", "yield_blocked", "execute_done",
   "judge_done", "yield_rejected", "yield_accepted", "accepted", "post_step",
   "finish", "finalize", "unwind", "ended"}

YieldPoints == {"yield_failed", "yield_unparsed", "yield_tool", "yield_blocked",
                "yield_rejected", "yield_accepted"}

(* LLMResult.failure_reason: "llm_error", or the reason a TerminalLLMError *)
(* carries (one of them stands for all).                                   *)
FailureReasons == {"llm_error", "output_truncated"}

Reasons == HookReasons \cup FailureReasons
             \cup {"budget_exhausted", "deadline_exceeded", "cancelled", "done"}

(***************************************************************************)
(* Data.  A call is named by what the loop does with it: an ordinary tool, *)
(* a tool declared free, a terminal tool, or an assistant message taken as *)
(* a completion (allow_text_completion).                                   *)
(***************************************************************************)
TerminalCalls == {"done", "text"}
Calls == {"tool", "free"} \cup TerminalCalls

(* What the response parser can return: calls in the model's order, or the *)
(* single synthetic call made from a plain assistant message.              *)
Proposals ==
  {<<"text">>} \cup UNION {[1..k -> Calls \ {"text"}] : k \in 1..MaxCalls}

StepKinds == {"tool", "llm_error", "parse_error", "blocked", "rejected", "accepted"}
StepRecord(n, kind, free) == [n |-> n, kind |-> kind, free |-> free]

Free(ss) == {i \in DOMAIN ss : ss[i].free}
Charged(ss) == Cardinality({i \in DOMAIN ss : ~ss[i].free})

(* DefaultState.budget_remaining *)
Remaining ==
  LET left == MaxSteps - budgetOffset - Charged(steps) IN IF left > 0 THEN left ELSE 0

(* _prepare_tool_turn: the calls the remaining budget admits, and the first *)
(* terminal call among them (0 when there is none).                         *)
AdmitMutant(proposed) == proposed  \* the turn is not cut to the budget

Admit(proposed) ==
  SubSeq(proposed, 1, IF Len(proposed) <= Remaining THEN Len(proposed) ELSE Remaining)

TerminalIndex(cs) ==
  IF \E i \in DOMAIN cs : cs[i] \in TerminalCalls
  THEN CHOOSE i \in DOMAIN cs :
         cs[i] \in TerminalCalls /\ \A j \in DOMAIN cs : cs[j] \in TerminalCalls => i <= j
  ELSE 0

RegularCount(cs) == IF TerminalIndex(cs) = 0 THEN Len(cs) ELSE TerminalIndex(cs) - 1

(* A group is dispatched together: every regular call of the turn under    *)
(* concurrent_dispatch, otherwise one call.                                *)
GroupSize == IF config.concurrent THEN RegularCount(calls) ELSE 1

(* The step number a pending checkpoint carries: that of the group's last  *)
(* call, so that it outranks the steps of the group recorded before it.    *)
GroupStepMutant == stepNum + at
GroupStep == stepNum + at + GroupSize - 1

(***************************************************************************)
(* Helpers that several handlers share.                                    *)
(***************************************************************************)
(* _set_run_lifecycle: refuses an illegal move, and mirrors a legal one    *)
(* onto the caller's state.                                                *)
CanMove(status, phase) == LegalTransition(ctx.status, ctx.phase, status, phase)

Move(status, phase, reason) ==
  /\ CanMove(status, phase)
  /\ ctx' = [status |-> status, phase |-> phase,
             reason |-> IF reason = NoReason THEN ctx.reason ELSE reason]
  /\ pub' = ctx'

StopWith(reason) == stopReason' = reason /\ pc' = "finish"

(* _deadline_expired when the deadline has passed, and the break after it. *)
DeadlineStop ==
  /\ late
  /\ Move("running", "stopping", "deadline_exceeded")
  /\ cancelled' = (cancelled \/ config.token)
  /\ StopWith("deadline_exceeded")

(* Mutant: a decision without a stop still assigns its empty reason. *)
HookDecidesMutant(point) ==
  /\ pc' = point
  /\ stopReason' \in HookReasons \cup {NoReason}
  /\ hookStop' = (stopReason' # NoReason)
  /\ asked' = hookStop'
  /\ UNCHANGED llmFailed

(* A model lifecycle event or post_dispatch hook may ask for a stop. *)
HookDecides(point) ==
  \/ /\ pc' = point
     /\ UNCHANGED reasonVars
  \/ \E reason \in HookReasons :
       /\ pc' = point
       /\ stopReason' = reason
       /\ hookStop' = TRUE
       /\ asked' = TRUE
       /\ UNCHANGED llmFailed

(* state.steps.append(step), followed by the yield of that step. *)
Yield(n, kind, free, point) ==
  /\ steps' = Append(steps, StepRecord(n, kind, free))
  /\ pc' = point

LastStep == steps[Len(steps)]

(* CheckpointStore.save: one document per key, the newest bytes win. *)
Save(kind, n) ==
  /\ clock' = clock + 1
  /\ saved' = [key \in DOMAIN saved \cup {<<kind, n>>} |->
                 IF key = <<kind, n>>
                 THEN [kind |-> kind, n |-> n, at |-> clock + 1, left |-> Remaining]
                 ELSE saved[key]]

(***************************************************************************)
(* The head of the loop.                                                   *)
(***************************************************************************)
(* RUNNING/STARTING, pre_loop hooks, SESSION_START. *)
Start ==
  /\ pc = "start"
  /\ Move("running", "starting", NoReason)
  /\ pc' = "top"
  /\ UNCHANGED <<reasonVars, modelVars, turnVars, storeVars, toolVars, hostVars,
                 endVars, fixedVars, steps>>

(* while budget_remaining > 0: the deadline, then the token, then a new turn. *)
LoopHead ==
  /\ pc = "top"
  /\ \/ /\ Remaining = 0
        /\ pc' = "finish"
        /\ UNCHANGED <<lifecycleVars, reasonVars, stepNum, hostVars>>
     \/ /\ Remaining > 0
        /\ DeadlineStop
        /\ stepNum' = Len(steps) + 1 + offset
        /\ UNCHANGED <<hookStop, llmFailed, asked, late>>
     \/ /\ Remaining > 0
        /\ ~late
        /\ Move("running", "prompting", NoReason)
        /\ stepNum' = Len(steps) + 1 + offset
        /\ hookStop' = FALSE
        /\ IF cancelled
           THEN StopWith("cancelled") /\ UNCHANGED asked
           ELSE pc' = "prompt" /\ asked' = FALSE /\ UNCHANGED stopReason
        /\ UNCHANGED <<llmFailed, hostVars>>
  /\ calls' = <<>> /\ at' = 0  \* the locals of the last turn are dead here
  /\ UNCHANGED <<modelVars, batch, running, storeVars, toolVars, endVars, fixedVars, steps>>

(***************************************************************************)
(* The model turn.                                                         *)
(***************************************************************************)
(* Briefing and prompt, PRE_LLM_CALL, then either the preflight block on an *)
(* oversized prompt or the LLM phase.                                      *)
Prompt ==
  /\ pc = "prompt"
  /\ \/ /\ HookDecides("request")
        /\ Move("running", "llm", NoReason)
        /\ UNCHANGED llm
     \/ /\ HookDecides("answered")
        /\ llm' = "overflow"
        /\ UNCHANGED lifecycleVars
  /\ UNCHANGED <<strategies, parseFails, turnVars, storeVars, toolVars, hostVars,
                 endVars, fixedVars, steps>>

(* The deadline is checked after every call, before its result is used. *)
CallReturned ==
  \/ DeadlineStop /\ UNCHANGED <<hookStop, llmFailed, asked, late>>
  \/ ~late /\ pc' = "answered" /\ UNCHANGED <<lifecycleVars, reasonVars, hostVars>>

(* llm_call_with_retry refuses to start once the token is set. *)
RequestModel ==
  /\ pc = "request"
  /\ \/ ~cancelled /\ pc' = "await" /\ UNCHANGED <<llm, lifecycleVars, reasonVars, hostVars>>
     \/ cancelled /\ llm' = "failed" /\ CallReturned
  /\ UNCHANGED <<strategies, parseFails, turnVars, storeVars, toolVars, endVars,
                 fixedVars, steps>>

ModelReturns ==
  /\ pc = "await"
  /\ llm' \in {"ok", "overflow", "failed"}
  /\ CallReturned
  /\ UNCHANGED <<strategies, parseFails, turnVars, storeVars, toolVars, endVars,
                 fixedVars, steps>>

(* _recovery_chain: the next unused strategy, then a retry of the model.   *)
(* The rebuilt prompt may still be too long, the token may be set, or a    *)
(* native continuation may see the deadline and end the truncated turn.    *)
Strategies == 3
Recoverable == llm = "overflow" /\ config.reactive /\ strategies < Strategies

RecoverOverflow ==
  /\ pc = "answered"
  /\ Recoverable
  /\ strategies' = strategies + 1
  /\ \/ llm' = "overflow" /\ UNCHANGED <<lifecycleVars, hostVars>>
     \/ cancelled /\ llm' = "failed" /\ UNCHANGED <<lifecycleVars, hostVars>>
     \/ ~cancelled /\ llm' \in {"ok", "failed"} /\ UNCHANGED <<lifecycleVars, hostVars>>
     \/ /\ ~cancelled
        /\ late
        /\ llm' = "failed"
        /\ Move("running", "stopping", "deadline_exceeded")
        /\ cancelled' = config.token
        /\ UNCHANGED late
  /\ UNCHANGED <<pc, reasonVars, parseFails, turnVars, storeVars, toolVars, endVars,
                 fixedVars, steps>>

(* POST_LLM_RESPONSE, then a failed request ends the run, quietly when the *)
(* token explains it and with a recorded step when it does not.            *)
ModelAnswered ==
  /\ pc = "answered"
  /\ ~Recoverable
  /\ \/ /\ llm = "ok"
        /\ HookDecides("parse")
        /\ UNCHANGED steps
     \/ /\ llm # "ok"
        /\ cancelled
        /\ StopWith("cancelled")
        /\ UNCHANGED <<hookStop, llmFailed, asked, steps>>
     \/ /\ llm # "ok"
        /\ ~cancelled
        /\ llmFailed' = TRUE
        /\ Yield(stepNum, "llm_error", FALSE, "yield_failed")
        /\ UNCHANGED <<stopReason, hookStop, asked>>
  /\ UNCHANGED <<lifecycleVars, modelVars, turnVars, storeVars, toolVars, hostVars,
                 endVars, fixedVars>>

RecordFailedStep ==
  /\ pc = "yield_failed"
  /\ \E reason \in FailureReasons : StopWith(reason)
  /\ UNCHANGED <<lifecycleVars, hookStop, llmFailed, asked, modelVars, turnVars,
                 storeVars, toolVars, hostVars, endVars, fixedVars, steps>>

(* The bound on free calls: only they do not consume the step budget. *)
Proposed(cs) ==
  Cardinality(Free(steps)) + Cardinality({i \in DOMAIN cs : cs[i] = "free"}) <= MaxFree

ParseResponse ==
  /\ pc = "parse"
  /\ \/ \E cs \in Proposals :
          /\ Proposed(cs)
          /\ calls' = cs
          /\ parseFails' = 0
          /\ pc' = "plan"
     \/ /\ parseFails' = (IF parseFails > ParseRecoveryMax THEN parseFails ELSE parseFails + 1)
        /\ pc' = "unparsed"
        /\ UNCHANGED calls
  /\ UNCHANGED <<lifecycleVars, reasonVars, llm, strategies, stepNum, at, batch, running,
                 storeVars, toolVars, hostVars, endVars, fixedVars, steps>>

(* One recovery request, unless a stop was requested or too many failed. *)
RecoverParse ==
  /\ pc = "unparsed"
  /\ ~hookStop
  /\ parseFails <= ParseRecoveryMax
  /\ ~cancelled
  /\ \E cs \in Proposals \ {<<"text">>} : Proposed(cs) /\ calls' = cs
  /\ pc' = "plan"
  /\ UNCHANGED <<lifecycleVars, reasonVars, modelVars, stepNum, at, batch, running,
                 storeVars, toolVars, hostVars, endVars, fixedVars, steps>>

(* Mutant: the synthetic step is yielded but not recorded, so not charged. *)
GiveUpParseMutant ==
  /\ pc = "unparsed"
  /\ pc' = "yield_unparsed"
  /\ UNCHANGED <<lifecycleVars, reasonVars, modelVars, turnVars, storeVars, toolVars,
                 hostVars, endVars, fixedVars, steps>>

GiveUpParse ==
  /\ pc = "unparsed"
  /\ Yield(stepNum, "parse_error", FALSE, "yield_unparsed")
  /\ UNCHANGED <<lifecycleVars, reasonVars, modelVars, turnVars, storeVars, toolVars,
                 hostVars, endVars, fixedVars>>

RecordUnparsedStep ==
  /\ pc = "yield_unparsed"
  /\ pc' = "post_step"
  /\ UNCHANGED <<lifecycleVars, reasonVars, modelVars, turnVars, storeVars, toolVars,
                 hostVars, endVars, fixedVars, steps>>

(***************************************************************************)
(* The tool turn.                                                          *)
(***************************************************************************)
(* _prepare_tool_turn, then the DISPATCHING phase when an ordinary call    *)
(* comes first.  InvalidRunTransition escapes when the move is illegal.    *)
PlanTurn ==
  /\ pc = "plan"
  /\ LET admitted == Admit(calls) IN
       /\ calls' = admitted
       /\ \/ /\ RegularCount(admitted) = 0
             /\ pc' = "dispatched"
             /\ UNCHANGED lifecycleVars
          \/ /\ RegularCount(admitted) > 0
             /\ Move("running", "dispatching", NoReason)
             /\ pc' = "intercept"
          \/ /\ RegularCount(admitted) > 0
             /\ ~CanMove("running", "dispatching")
             /\ pc' = "unwind"
             /\ UNCHANGED lifecycleVars
  /\ at' = 0
  /\ UNCHANGED <<reasonVars, modelVars, stepNum, batch, running, storeVars, toolVars,
                 hostVars, endVars, fixedVars, steps>>

(* _intercept_tool_calls decides which calls of the group run at all; the  *)
(* pending checkpoint is on disk before the first of them starts.          *)
Intercept ==
  /\ pc = "intercept"
  /\ \E started \in SUBSET (1..GroupSize) :
       /\ batch' = [i \in 1..GroupSize |-> [ran |-> i \in started, ok |-> FALSE]]
       /\ running' = started
       /\ \/ /\ started = {}
             /\ pc' = "collect"
             /\ UNCHANGED <<storeVars, lateGroups>>
          \/ /\ started # {}
             /\ Save("pending", GroupStep)
             /\ lateGroups' = lateGroups + (IF cancelled THEN 1 ELSE 0)
             /\ pc' = "execute"
  /\ UNCHANGED <<lifecycleVars, reasonVars, modelVars, stepNum, calls, at, effects,
                 hostVars, endVars, fixedVars, steps>>

(* tools.dispatch refuses a call once the token is set. *)
Dispatch(n) == effects' = (IF cancelled THEN effects ELSE effects \cup {n})

(* One call of the group is dispatched; concurrent ones in any order.  A   *)
(* post_dispatch hook may replace its result, so either outcome is open.   *)
RunTool ==
  /\ pc = "execute"
  /\ \E i \in running, ok \in BOOLEAN :
       /\ Dispatch(stepNum + at + i - 1)
       /\ batch' = [batch EXCEPT ![i].ok = ok]
       /\ running' = running \ {i}
  /\ pc' = (IF running' = {} THEN "collect" ELSE "execute")
  /\ UNCHANGED <<lifecycleVars, reasonVars, modelVars, stepNum, calls, at, storeVars,
                 lateGroups, hostVars, endVars, fixedVars, steps>>

(* post_dispatch hooks see the next result of the group, and its step is   *)
(* appended; a free tool's step is uncharged only if it ran and succeeded. *)
CollectResult ==
  /\ pc = "collect"
  /\ HookDecides("yield_tool")
  /\ steps' = Append(steps, StepRecord(stepNum + at, "tool",
                 calls[at + 1] = "free" /\ Head(batch).ran /\ Head(batch).ok))
  /\ at' = at + 1
  /\ batch' = Tail(batch)
  /\ UNCHANGED <<lifecycleVars, modelVars, stepNum, calls, running, storeVars, toolVars,
                 hostVars, endVars, fixedVars>>

(* History, post_step hooks, checkpoint: after the consumer took the step. *)
RecordToolStep ==
  /\ pc = "yield_tool"
  /\ Save("step", LastStep.n)
  /\ pc' = "after_step"
  /\ UNCHANGED <<lifecycleVars, reasonVars, modelVars, turnVars, toolVars, hostVars,
                 endVars, fixedVars, steps>>

MoreCalls == at < RegularCount(calls)
MoreWork == MoreCalls \/ TerminalIndex(calls) # 0

(* Mutant: the token is only looked at after the last call. *)
NextCallMutant ==
  \/ MoreWork /\ hookStop /\ StopWith(stopReason)
  \/ /\ ~(MoreWork /\ hookStop)
     /\ pc' = (IF MoreCalls THEN "intercept" ELSE "dispatched")
     /\ UNCHANGED stopReason

(* Serial dispatch looks at the deadline, the token and the hooks before   *)
(* each further call; a concurrent group is collected to its end.          *)
NextCall ==
  \/ cancelled /\ StopWith("cancelled")
  \/ ~cancelled /\ MoreWork /\ hookStop /\ StopWith(stopReason)
  \/ ~cancelled /\ MoreWork /\ ~hookStop /\ \E reason \in HookReasons : StopWith(reason)
  \/ /\ ~cancelled
     /\ ~(MoreWork /\ hookStop)
     /\ pc' = (IF MoreCalls THEN "intercept" ELSE "dispatched")
     /\ UNCHANGED stopReason

(* Mutant: a hook's stop request breaks out of a concurrent group. *)
AfterToolStepMutant ==
  /\ pc = "after_step"
  /\ \/ hookStop /\ StopWith(stopReason)
     \/ ~hookStop /\ UNCHANGED stopReason
                  /\ pc' = (IF batch # <<>> THEN "collect" ELSE "dispatched")
  /\ UNCHANGED <<lifecycleVars, hostVars, hookStop, llmFailed, asked, modelVars, turnVars,
                 storeVars, toolVars, endVars, fixedVars, steps>>

AfterToolStep ==
  /\ pc = "after_step"
  /\ \/ /\ config.concurrent
        /\ pc' = (IF batch # <<>> THEN "collect" ELSE "dispatched")
        /\ UNCHANGED <<lifecycleVars, stopReason, hostVars>>
     \/ /\ ~config.concurrent
        /\ \/ DeadlineStop /\ UNCHANGED late
           \/ ~late /\ NextCall /\ UNCHANGED <<lifecycleVars, hostVars>>
  /\ UNCHANGED <<hookStop, llmFailed, asked, modelVars, turnVars, storeVars, toolVars,
                 endVars, fixedVars, steps>>

(* After the ordinary calls: deadline, token, then the terminal call. *)
AfterDispatch ==
  /\ pc = "dispatched"
  /\ \/ DeadlineStop /\ UNCHANGED late
     \/ /\ ~late
        /\ IF cancelled THEN StopWith("cancelled")
           ELSE /\ pc' = (IF TerminalIndex(calls) # 0 THEN "gate" ELSE "post_step")
                /\ UNCHANGED stopReason
        /\ UNCHANGED <<lifecycleVars, hostVars>>
  /\ UNCHANGED <<hookStop, llmFailed, asked, modelVars, turnVars, storeVars, toolVars,
                 endVars, fixedVars, steps>>

(***************************************************************************)
(* The terminal call.                                                      *)
(***************************************************************************)
DoneStepMutant == stepNum + TerminalIndex(calls)  \* off by one
DoneStep == stepNum + TerminalIndex(calls) - 1

(* FINALIZING, check_done hooks (one that raises blocks) and the output    *)
(* schema.  A done() that passes has its pending checkpoint before it runs; *)
(* an assistant message has no tool body to run.                           *)
CheckDone ==
  /\ pc = "gate"
  /\ \/ /\ ~CanMove("running", "finalizing")
        /\ pc' = "unwind"
        /\ UNCHANGED <<lifecycleVars, steps, storeVars, lateGroups>>
     \/ /\ Move("running", "finalizing", NoReason)
        /\ Yield(DoneStep, "blocked", FALSE, "yield_blocked")
        /\ UNCHANGED <<storeVars, lateGroups>>
     \/ /\ Move("running", "finalizing", NoReason)
        /\ calls[TerminalIndex(calls)] = "done"
        /\ Save("pending", DoneStep)
        /\ lateGroups' = lateGroups + (IF cancelled THEN 1 ELSE 0)
        /\ pc' = "execute_done"
        /\ UNCHANGED steps
     \/ /\ Move("running", "finalizing", NoReason)
        /\ calls[TerminalIndex(calls)] = "text"
        /\ pc' = "judge_done"
        /\ UNCHANGED <<steps, storeVars, lateGroups>>
  /\ UNCHANGED <<reasonVars, modelVars, turnVars, effects, hostVars, endVars, fixedVars>>

ExecuteDone ==
  /\ pc = "execute_done"
  /\ Dispatch(DoneStep)
  /\ pc' = "judge_done"
  /\ UNCHANGED <<lifecycleVars, reasonVars, modelVars, turnVars, storeVars, lateGroups,
                 hostVars, endVars, fixedVars, steps>>

(* Mutant: the error of the terminal result is not looked at. *)
JudgeDoneMutant ==
  /\ pc = "judge_done"
  /\ \/ Yield(DoneStep, "rejected", FALSE, "yield_accepted")
     \/ Yield(DoneStep, "accepted", FALSE, "yield_accepted")
  /\ UNCHANGED <<lifecycleVars, reasonVars, modelVars, turnVars, storeVars, toolVars,
                 hostVars, endVars, fixedVars>>

(* post_dispatch hooks see the terminal result and may turn it into an     *)
(* error; a stop they ask for here is not read.                            *)
JudgeDone ==
  /\ pc = "judge_done"
  /\ \/ Yield(DoneStep, "rejected", FALSE, "yield_rejected")
     \/ Yield(DoneStep, "accepted", FALSE, "yield_accepted")
  /\ asked' \in {asked, TRUE}
  /\ UNCHANGED <<lifecycleVars, stopReason, hookStop, llmFailed, modelVars, turnVars,
                 storeVars, toolVars, hostVars, endVars, fixedVars>>

RecordBlockedStep ==
  /\ pc = "yield_blocked"
  /\ Save("step", LastStep.n)
  /\ pc' = "post_step"
  /\ UNCHANGED <<lifecycleVars, reasonVars, modelVars, turnVars, toolVars, hostVars,
                 endVars, fixedVars, steps>>

(* A rejected done() goes straight back to the head of the loop. *)
RecordRejectedStep ==
  /\ pc = "yield_rejected"
  /\ Save("step", LastStep.n)
  /\ pc' = "top"
  /\ UNCHANGED <<lifecycleVars, reasonVars, modelVars, turnVars, toolVars, hostVars,
                 endVars, fixedVars, steps>>

AcceptDone ==
  /\ pc = "yield_accepted"
  /\ Move("completed", "terminal", "done")
  /\ pc' = "accepted"
  /\ UNCHANGED <<reasonVars, modelVars, turnVars, storeVars, toolVars, hostVars, endVars,
                 fixedVars, steps>>

(* Mutant: done is not set, the turn goes on to the post-step check. *)
RecordAcceptedStepMutant ==
  /\ pc = "accepted"
  /\ Save("done", LastStep.n)
  /\ pc' = "post_step"
  /\ UNCHANGED <<lifecycleVars, reasonVars, modelVars, turnVars, toolVars, hostVars,
                 endVars, fixedVars, steps>>

RecordAcceptedStep ==
  /\ pc = "accepted"
  /\ Save("done", LastStep.n)
  /\ StopWith("done")
  /\ UNCHANGED <<lifecycleVars, hookStop, llmFailed, asked, modelVars, turnVars, toolVars,
                 hostVars, endVars, fixedVars, steps>>

(* Mutant: the requested reason is not passed on. *)
PostStepMutant ==
  /\ pc = "post_step"
  /\ \/ \E reason \in HookReasons : StopWith(reason)
     \/ pc' = "top" /\ UNCHANGED stopReason
  /\ UNCHANGED <<lifecycleVars, hookStop, llmFailed, asked, modelVars, turnVars, storeVars,
                 toolVars, hostVars, endVars, fixedVars, steps>>

(* _post_step_stop_reason: the stop a hook asked for during the turn, or   *)
(* what a should_stop hook answers now.                                    *)
PostStep ==
  /\ pc = "post_step"
  /\ \/ hookStop /\ StopWith(stopReason)
     \/ ~hookStop /\ \E reason \in HookReasons : StopWith(reason)
     \/ ~hookStop /\ pc' = "top" /\ UNCHANGED stopReason
  /\ UNCHANGED <<lifecycleVars, hookStop, llmFailed, asked, modelVars, turnVars, storeVars,
                 toolVars, hostVars, endVars, fixedVars, steps>>

(***************************************************************************)
(* The end of the run.                                                     *)
(***************************************************************************)
FinalStatus ==
  IF stopReason = "done" THEN "completed"
  ELSE IF stopReason \in {"cancelled", "deadline_exceeded"} THEN "cancelled"
  ELSE IF llmFailed \/ stopReason \in {"error", "llm_error"} THEN "failed"
  ELSE "stopped"

Finish ==
  /\ pc = "finish"
  /\ Move(FinalStatus, "terminal", stopReason)
  /\ pc' = "finalize"
  /\ UNCHANGED <<reasonVars, modelVars, turnVars, storeVars, toolVars, hostVars, endVars,
                 fixedVars, steps>>

(* Mutant: the finalizer keeps its hooks. *)
RunLoopEndHooksMutant == loopEnds' = loopEnds + 1 /\ UNCHANGED hooksBound

(* _LoopFinalizer._take_hooks: the hooks are taken before they run. *)
RunLoopEndHooks ==
  /\ hooksBound' = FALSE
  /\ loopEnds' = loopEnds + (IF hooksBound THEN 1 ELSE 0)

(* finalizer.finish() of the normal path: a hook error escapes, after all ran. *)
Finalize ==
  /\ pc = "finalize"
  /\ RunLoopEndHooks
  /\ \/ pc' = "ended" /\ outcome' = "returned"
     \/ pc' = "unwind" /\ UNCHANGED outcome
  /\ UNCHANGED <<lifecycleVars, reasonVars, modelVars, turnVars, storeVars, toolVars,
                 hostVars, fixedVars, steps>>

(* Host callbacks, and the checkpoint store, whose exceptions nobody       *)
(* catches inside the loop.                                                *)
RaisePoints ==
  {"start", "prompt", "plan", "intercept", "collect", "gate", "judge_done", "yield_failed",
   "yield_unparsed", "yield_tool", "yield_blocked", "yield_rejected", "accepted",
   "after_step", "post_step"}

HookRaises ==
  /\ pc \in RaisePoints
  /\ pc' = "unwind"
  /\ UNCHANGED <<lifecycleVars, reasonVars, modelVars, turnVars, storeVars, toolVars,
                 hostVars, endVars, fixedVars, steps>>

(* So may what is called to hand a call over: the context builder, the     *)
(* approval handler, the store a result is retained in.  A call of the     *)
(* group may have been executed by then.                                   *)
DispatchRaises ==
  /\ pc \in {"execute", "execute_done"}
  /\ pc' = "unwind"
  /\ UNCHANGED <<lifecycleVars, reasonVars, modelVars, turnVars, storeVars, toolVars,
                 hostVars, endVars, fixedVars, steps>>

(* composable_loop: except BaseException, and finally. *)
Unwind ==
  /\ pc = "unwind"
  /\ pub' = [status |-> "failed", phase |-> "terminal", reason |-> "error"]
  /\ RunLoopEndHooks
  /\ pc' = "ended"
  /\ outcome' = "raised"
  /\ UNCHANGED <<ctx, reasonVars, modelVars, turnVars, storeVars, toolVars, hostVars,
                 fixedVars, steps>>

(* The consumer closes the generator where it is suspended: GeneratorExit. *)
CloseStream ==
  /\ pc \in YieldPoints
  /\ pub' = [status |-> "stopped", phase |-> "terminal", reason |-> "stream_closed"]
  /\ RunLoopEndHooks
  /\ pc' = "ended"
  /\ outcome' = "closed"
  /\ UNCHANGED <<ctx, reasonVars, modelVars, turnVars, storeVars, toolVars, hostVars,
                 fixedVars, steps>>

(***************************************************************************)
(* The host: another thread sets the token, the clock passes the deadline. *)
(***************************************************************************)
CancelRun ==
  /\ pc # "ended"
  /\ config.token
  /\ ~cancelled
  /\ cancelled' = TRUE
  /\ UNCHANGED <<pc, lifecycleVars, reasonVars, modelVars, turnVars, storeVars, toolVars,
                 late, endVars, fixedVars, steps>>

DeadlinePasses ==
  /\ pc # "ended"
  /\ ~late
  /\ late' = TRUE
  /\ UNCHANGED <<pc, lifecycleVars, reasonVars, modelVars, turnVars, storeVars, toolVars,
                 cancelled, endVars, fixedVars, steps>>

Ended == pc = "ended" /\ UNCHANGED vars

Init ==
  /\ config \in Configs
  /\ pc = "start"
  /\ ctx = [status |-> "created", phase |-> "starting", reason |-> NoReason]
  /\ pub = ctx
  /\ stopReason = "budget_exhausted"
  /\ hookStop = FALSE /\ asked = FALSE /\ llmFailed = FALSE
  /\ llm = "failed" /\ strategies = 0 /\ parseFails = 0
  /\ steps = <<>>
  /\ stepNum = 0 /\ calls = <<>> /\ at = 0 /\ batch = <<>> /\ running = {}
  /\ offset = 0 /\ budgetOffset = 0
  /\ saved = [key \in {} |-> {}] /\ clock = 0
  /\ effects = {} /\ lateGroups = 0
  /\ cancelled = FALSE /\ late = FALSE
  /\ hooksBound = TRUE /\ loopEnds = 0 /\ outcome = "none"

LoopStep ==
  \/ Start \/ LoopHead \/ Prompt \/ RequestModel \/ ModelReturns \/ RecoverOverflow
  \/ ModelAnswered \/ RecordFailedStep \/ ParseResponse \/ RecoverParse \/ GiveUpParse
  \/ RecordUnparsedStep \/ PlanTurn \/ Intercept \/ RunTool \/ CollectResult
  \/ RecordToolStep \/ AfterToolStep \/ AfterDispatch \/ CheckDone \/ ExecuteDone
  \/ JudgeDone \/ RecordBlockedStep \/ RecordRejectedStep \/ AcceptDone
  \/ RecordAcceptedStep \/ PostStep \/ Finish \/ Finalize \/ Unwind

HostStep == HookRaises \/ DispatchRaises \/ CloseStream \/ CancelRun \/ DeadlinePasses

Next == LoopStep \/ HostStep \/ Ended

(* The generator runs on while its consumer keeps taking steps and while   *)
(* the model, the tools and the hooks return.                              *)
Spec == Init /\ [][Next]_vars /\ WF_vars(LoopStep)

-----------------------------------------------------------------------------
(***************************************************************************)
(* Properties.                                                             *)
(***************************************************************************)
Lifecycles == [status : RunStatuses, phase : RunPhases,
               reason : Reasons \cup {NoReason, "error", "stream_closed"}]
Keys == {"pending", "step", "done"} \X Nat
Documents == [kind : {"pending", "step", "done"}, n : Nat, at : Nat, left : Nat]

(* Every variable keeps to the values the code can give it. *)
TypeOK ==
  /\ config \in Configs
  /\ pc \in Points
  /\ ctx \in Lifecycles /\ pub \in Lifecycles
  /\ stopReason \in Reasons
  /\ hookStop \in BOOLEAN /\ llmFailed \in BOOLEAN /\ asked \in BOOLEAN
  /\ llm \in {"ok", "overflow", "failed"}
  /\ strategies \in 0..Strategies /\ parseFails \in 0..ParseRecoveryMax + 1
  /\ steps \in Seq([n : Nat, kind : StepKinds, free : BOOLEAN])
  /\ stepNum \in Nat /\ calls \in Seq(Calls) /\ at \in Nat
  /\ batch \in Seq([ran : BOOLEAN, ok : BOOLEAN]) /\ running \in SUBSET Nat
  /\ offset \in Nat /\ budgetOffset \in Nat
  /\ DOMAIN saved \subseteq Keys /\ \A key \in DOMAIN saved : saved[key] \in Documents
  /\ clock \in Nat
  /\ effects \in SUBSET Nat /\ lateGroups \in Nat
  /\ cancelled \in BOOLEAN /\ late \in BOOLEAN
  /\ hooksBound \in BOOLEAN /\ loopEnds \in Nat
  /\ outcome \in {"none", "returned", "raised", "closed"}

(* A run never charges more steps than max_steps, whatever mix of batches, *)
(* truncated turns, blocked and rejected terminal calls, unparsed answers  *)
(* and free calls it went through (types.py, DefaultState.budget_remaining; *)
(* _prepare_tool_turn admits a turn against the budget once, at its start). *)
BudgetRespected == Charged(steps) + budgetOffset <= MaxSteps

(* Recorded steps are numbered without gap or repetition from the resume   *)
(* offset, although numbers are computed from step_num plus a position in  *)
(* the turn, not from the list (checkpoint keys are built on them).        *)
StepsNumbered == \A i \in DOMAIN steps : steps[i].n = offset + i

(* The caller sees "completed" only when the last recorded step is a       *)
(* terminal call that passed its gates and its own result.                 *)
CompletedMeansAccepted ==
  pub.status = "completed" => steps # <<>> /\ LastStep.kind = "accepted"

(* The step writes no record of an announced group.                        *)
NoNewPending ==
  \A key \in DOMAIN saved' :
    saved'[key].kind = "pending" => key \in DOMAIN saved /\ saved'[key] = saved[key]

(* Nothing happens after an accepted terminal step: no further step, no    *)
(* tool execution, no group announced in the checkpoint store, no other    *)
(* reason for the end; though the consumer of the yielded step, the hooks, *)
(* the token and the deadline all still have their turn.                   *)
AcceptedIsFinal ==
  [][(steps # <<>> /\ LastStep.kind = "accepted")
       => /\ steps' = steps /\ effects' = effects
          /\ NoNewPending
          /\ stopReason' \in {stopReason, "done"}]_vars

(* on_loop_end runs exactly once on every exit path: return, an exception  *)
(* of a hook (also of on_loop_end itself), an illegal transition, close(). *)
CleanupOnce == loopEnds = (IF pc = "ended" \/ ~hooksBound THEN 1 ELSE 0)

(* After the token is set at most one more group is announced in the       *)
(* checkpoint store and handed to the tools: the one whose turn was already *)
(* past the loop's check.                                                  *)
LateWorkBounded == lateGroups <= 1

(* The next model turn does not begin once a hook asked for a stop in this *)
(* one, unless the turn ended in a rejected done(), whose `continue` skips *)
(* the post-step check.                                                    *)
StopHonoured ==
  [][(asked /\ pc = "top" /\ pc' = "prompt") => LastStep.kind = "rejected"]_vars

(* The checkpoint load_latest_for_resume would choose: the highest step    *)
(* number, then the newest.                                                *)
Newest == CHOOSE key \in DOMAIN saved :
            \A other \in DOMAIN saved :
              \/ saved[other].n < saved[key].n
              \/ saved[other].n = saved[key].n /\ saved[other].at <= saved[key].at

Recorded(n) == \E key \in DOMAIN saved : key[2] = n /\ key[1] # "pending"

(* At every instant a crash is safe: an executed tool call is either in a  *)
(* finished checkpoint, or the newest checkpoint is the pending one that   *)
(* makes resume refuse.                                                    *)
UncertainEffectsBlockResume ==
  \A n \in effects :
    Recorded(n) \/ (DOMAIN saved # {} /\ saved[Newest].kind = "pending" /\ saved[Newest].n >= n)

(* A run that returns has recorded and checkpointed every tool it executed. *)
ResultsRecorded == outcome = "returned" => \A n \in effects : Recorded(n)

(* With a consumer that keeps taking steps, every run ends. *)
Termination == <>(pc = "ended")
=============================================================================
