----------------------------- MODULE AsyncLoop -----------------------------
(***************************************************************************)
(* One run of the asynchronous loop, _async_composable_loop_impl, inside   *)
(* the frame async_composable_loop puts around it (async_loop.py).  The    *)
(* control of a turn is that of AgentLoop where the two files agree; what  *)
(* is new is that every await is a point where the task may be cancelled,  *)
(* that checkpoints are written by a worker thread, that a synchronous     *)
(* tool runs in a worker thread nobody can stop, and that a tool may ask   *)
(* the model while it runs (_NestedModelRequests).                         *)
(***************************************************************************)
EXTENDS AgentLoop

CONSTANTS
  Workers,     \* threads of the event loop's default executor
  Requests,    \* bound: the model requests tools may make in a run
  MaxCancels   \* bound: times the task is cancelled

ASSUME WorkerAssumption == Workers \in Nat \ {0}
ASSUME CancelAssumption == MaxCancels \in Nat

VARIABLES
  done,      \* done: a post_dispatch hook asked for a stop
  write,     \* the checkpoint being written, and where the loop goes on after it
  owed,      \* a cancellation held back until the worker thread is through
  begun,     \* position of the group -> how the body runs, once it does
  orphans,   \* step numbers whose worker thread outlived its call
  nested,    \* request -> [at, by]: its state, and the step whose tool made it
  closed,    \* _NestedModelRequests.closed
  original,  \* original_cancellation is set
  cancels    \* cancellations of the task so far

requestVars == <<nested, closed>>
wrapperVars == <<owed, original, cancels>>
threadVars  == <<begun, orphans>>
asyncVars   == <<done, write, owed, begun, orphans, nested, closed, original, cancels>>
allVars     == <<vars, asyncVars>>

(* What the actions that only move the loop forward leave alone. *)
Aside == UNCHANGED asyncVars

CleanupPoints == {"unwind", "returning", "drain", "loop_end", "persist", "ended"}

(* The awaits of the loop that a cancellation interrupts at once: hooks,   *)
(* events, the model and the tools.  After a yield these are the post_step *)
(* hooks.                                                                  *)
AwaitPoints ==
  {"start", "prompt", "await", "answered", "unparsed", "intercept", "collect", "gate",
   "judge_done", "accepted", "done_saved", "after_step", "post_step", "finalize",
   "yield_failed", "yield_unparsed", "yield_tool", "yield_blocked", "yield_rejected"}

-----------------------------------------------------------------------------
(***************************************************************************)
(* Worker threads and checkpoint writes.                                   *)
(***************************************************************************)
(* asyncio.to_thread and _run_persistence share the default executor.      *)
FreeWorkers ==
  Workers - Cardinality(orphans) - Cardinality({i \in DOMAIN begun : begun[i] = "thread"})

NoWrite == [kind |-> "none", n |-> 0, next |-> "none"]

(* await _run_persistence(store.save, ...) *)
Persist(kind, n, next) ==
  /\ write' = [kind |-> kind, n |-> n, next |-> next]
  /\ pc' = "saving"

(* The write ends, or the store raises.  It is shielded: a cancellation    *)
(* that came meanwhile is raised now, in place of an error too.            *)
WriteEnds ==
  /\ pc = "saving"
  /\ FreeWorkers > 0
  /\ \/ Save(write.kind, write.n) /\ pc' = (IF owed THEN "cancelled" ELSE write.next)
     \/ UNCHANGED storeVars /\ pc' = (IF owed THEN "cancelled" ELSE "unwind")
  /\ write' = NoWrite
  /\ owed' = FALSE
  /\ UNCHANGED <<lifecycleVars, reasonVars, modelVars, turnVars, toolVars, hostVars, endVars,
                 fixedVars, steps, done, threadVars, requestVars, original, cancels>>

-----------------------------------------------------------------------------
(***************************************************************************)
(* The turn, as far as it differs from the synchronous one.                *)
(***************************************************************************)
AsyncStart == Start /\ Aside

(* The loop is left at its head once a post_dispatch hook set `done'. *)
AsyncLoopHead ==
  \/ ~done /\ LoopHead /\ Aside
  \/ /\ pc = "top" /\ done
     /\ pc' = "finish"
     /\ calls' = <<>> /\ at' = 0
     /\ UNCHANGED <<lifecycleVars, reasonVars, modelVars, stepNum, batch, running,
                    storeVars, toolVars, hostVars, endVars, fixedVars, steps>>
     /\ Aside

(* Hooks, then the deadline, then the LLM phase whether or not the prompt  *)
(* fits: a blocked prompt is refused inside that phase.                    *)
AsyncPrompt ==
  /\ pc = "prompt"
  /\ \/ /\ DeadlineStop
        /\ UNCHANGED <<hookStop, llmFailed, asked, llm, late>>
     \/ /\ ~late
        /\ Move("running", "llm", NoReason)
        /\ \/ HookDecides("request") /\ UNCHANGED llm
           \/ HookDecides("answered") /\ llm' = "overflow"
        /\ UNCHANGED hostVars
  /\ UNCHANGED <<strategies, parseFails, turnVars, storeVars, toolVars, endVars, fixedVars,
                 steps>>
  /\ Aside

AsyncRequestModel == RequestModel /\ Aside
AsyncModelReturns == ModelReturns /\ Aside

(* _recover_prompt: one strategy and its retry.  A retry that succeeds     *)
(* makes every strategy available again (recovery_state.clear()).          *)
AsyncRecoverOverflow ==
  /\ pc = "answered"
  /\ Recoverable
  /\ \/ llm' = "overflow" /\ UNCHANGED <<lifecycleVars, hostVars>>
     \/ cancelled /\ llm' = "failed" /\ UNCHANGED <<lifecycleVars, hostVars>>
     \/ ~cancelled /\ llm' \in {"ok", "failed"} /\ UNCHANGED <<lifecycleVars, hostVars>>
     \/ /\ ~cancelled
        /\ late
        /\ llm' = "failed"
        /\ Move("running", "stopping", "deadline_exceeded")
        /\ cancelled' = config.token
        /\ UNCHANGED late
  /\ strategies' = (IF llm' = "ok" THEN 0 ELSE strategies + 1)
  /\ UNCHANGED <<pc, reasonVars, parseFails, turnVars, storeVars, toolVars, endVars,
                 fixedVars, steps>>
  /\ Aside

AsyncModelAnswered == ModelAnswered /\ Aside
AsyncRecordFailedStep == RecordFailedStep /\ Aside
AsyncParseResponse == ParseResponse /\ Aside
AsyncRecoverParse == RecoverParse /\ Aside
AsyncGiveUpParse == GiveUpParse /\ Aside

(* Unlike the synchronous loop this one checkpoints the synthetic step. *)
AsyncRecordUnparsedStep ==
  /\ pc = "yield_unparsed"
  /\ Persist("step", stepNum, "post_step")
  /\ UNCHANGED <<lifecycleVars, reasonVars, modelVars, turnVars, storeVars, toolVars,
                 hostVars, endVars, fixedVars, steps, done, wrapperVars, threadVars,
                 requestVars>>

AsyncPlanTurn == PlanTurn /\ Aside

(* Mutant: the write of the pending record is started but not awaited. *)
AsyncInterceptMutant ==
  /\ pc = "intercept"
  /\ \E started \in SUBSET (1..GroupSize) :
       /\ batch' = [i \in 1..GroupSize |-> [ran |-> i \in started, ok |-> FALSE]]
       /\ running' = started
       /\ pc' = (IF started = {} THEN "collect" ELSE "execute")
  /\ UNCHANGED <<lifecycleVars, reasonVars, modelVars, stepNum, calls, at, effects, storeVars,
                 lateGroups, hostVars, endVars, fixedVars, steps>>
  /\ Aside

(* _intercept_tool_calls_async, then the pending record. *)
AsyncIntercept ==
  /\ pc = "intercept"
  /\ \E started \in SUBSET (1..GroupSize) :
       /\ batch' = [i \in 1..GroupSize |-> [ran |-> i \in started, ok |-> FALSE]]
       /\ running' = started
       /\ IF started = {}
          THEN pc' = "collect" /\ UNCHANGED write
          ELSE Persist("pending", GroupStep, "execute")
  /\ UNCHANGED <<lifecycleVars, reasonVars, modelVars, stepNum, calls, at, effects, storeVars,
                 lateGroups, hostVars, endVars, fixedVars, steps, done, wrapperVars,
                 threadVars, requestVars>>

(* A stop asked for by post_dispatch sets `done', not the flag that the    *)
(* model events set.                                                       *)
AsyncCollectResult ==
  /\ pc = "collect"
  /\ pc' = "yield_tool"
  /\ \/ UNCHANGED <<stopReason, asked, done>>
     \/ \E reason \in HookReasons : stopReason' = reason /\ asked' = TRUE /\ done' = TRUE
  /\ steps' = Append(steps, StepRecord(stepNum + at, "tool",
                 calls[at + 1] = "free" /\ Head(batch).ran /\ Head(batch).ok))
  /\ at' = at + 1
  /\ batch' = Tail(batch)
  /\ UNCHANGED <<lifecycleVars, hookStop, llmFailed, modelVars, stepNum, calls, running,
                 storeVars, toolVars, hostVars, endVars, fixedVars, write, wrapperVars,
                 threadVars, requestVars>>

AsyncRecordToolStep ==
  /\ pc = "yield_tool"
  /\ Persist("step", LastStep.n, "after_step")
  /\ UNCHANGED <<lifecycleVars, reasonVars, modelVars, turnVars, storeVars, toolVars,
                 hostVars, endVars, fixedVars, steps, done, wrapperVars, threadVars,
                 requestVars>>

(* Serial dispatch looks at the deadline, the token, `done' and the        *)
(* should_stop hooks before each further call.  A stop that a model event  *)
(* asked for is not looked at here: it waits for the end of the turn.      *)
AsyncNextCall ==
  \/ cancelled /\ StopWith("cancelled")
  \/ ~cancelled /\ done /\ StopWith(stopReason)
  \/ ~cancelled /\ ~done /\ MoreWork /\ \E reason \in HookReasons : StopWith(reason)
  \/ /\ ~cancelled /\ ~done
     /\ pc' = (IF MoreCalls THEN "intercept" ELSE "dispatched")
     /\ UNCHANGED stopReason

AsyncAfterToolStep ==
  /\ pc = "after_step"
  /\ \/ /\ config.concurrent
        /\ pc' = (IF batch # <<>> THEN "collect" ELSE "dispatched")
        /\ UNCHANGED <<lifecycleVars, stopReason, hostVars>>
     \/ /\ ~config.concurrent
        /\ \/ DeadlineStop /\ UNCHANGED late
           \/ ~late /\ AsyncNextCall /\ UNCHANGED <<lifecycleVars, hostVars>>
  /\ UNCHANGED <<hookStop, llmFailed, asked, modelVars, turnVars, storeVars, toolVars,
                 endVars, fixedVars, steps>>
  /\ Aside

(* A turn without a terminal call goes back to the head when `done' is set *)
(* (`if done: continue'); a terminal call is carried out all the same.     *)
AfterTurn == IF done THEN "top" ELSE "post_step"

AsyncAfterDispatch ==
  /\ pc = "dispatched"
  /\ \/ DeadlineStop /\ UNCHANGED late
     \/ /\ ~late
        /\ IF cancelled THEN StopWith("cancelled")
           ELSE /\ pc' = (IF TerminalIndex(calls) # 0 THEN "gate" ELSE AfterTurn)
                /\ UNCHANGED stopReason
        /\ UNCHANGED <<lifecycleVars, hostVars>>
  /\ UNCHANGED <<hookStop, llmFailed, asked, modelVars, turnVars, storeVars, toolVars,
                 endVars, fixedVars, steps>>
  /\ Aside

AsyncCheckDone ==
  /\ pc = "gate"
  /\ Move("running", "finalizing", NoReason)
  /\ \/ /\ Yield(DoneStep, "blocked", FALSE, "yield_blocked")
        /\ UNCHANGED write
     \/ /\ calls[TerminalIndex(calls)] = "done"
        /\ Persist("pending", DoneStep, "execute_done")
        /\ UNCHANGED steps
     \/ /\ calls[TerminalIndex(calls)] = "text"
        /\ pc' = "judge_done"
        /\ UNCHANGED <<steps, write>>
  /\ UNCHANGED <<reasonVars, modelVars, turnVars, storeVars, toolVars, hostVars, endVars,
                 fixedVars, done, wrapperVars, threadVars, requestVars>>

AsyncJudgeDone == JudgeDone /\ Aside

(* The steps of a blocked and of a rejected done() differ in what follows. *)
AsyncRecordJudgedStep ==
  /\ pc \in {"yield_blocked", "yield_rejected"}
  /\ Persist("step", LastStep.n, IF pc = "yield_blocked" THEN AfterTurn ELSE "top")
  /\ UNCHANGED <<lifecycleVars, reasonVars, modelVars, turnVars, storeVars, toolVars,
                 hostVars, endVars, fixedVars, steps, done, wrapperVars, threadVars,
                 requestVars>>

AsyncAcceptDone == AcceptDone /\ Aside

AsyncRecordAcceptedStep ==
  /\ pc = "accepted"
  /\ Persist("done", LastStep.n, "done_saved")
  /\ UNCHANGED <<lifecycleVars, reasonVars, modelVars, turnVars, storeVars, toolVars,
                 hostVars, endVars, fixedVars, steps, done, wrapperVars, threadVars,
                 requestVars>>

(* DONE_ACCEPTED; the loop is left at its head. *)
AnnounceDone ==
  /\ pc = "done_saved"
  /\ StopWith("done")
  /\ UNCHANGED <<lifecycleVars, hookStop, llmFailed, asked, modelVars, turnVars, storeVars,
                 toolVars, hostVars, endVars, fixedVars, steps>>
  /\ Aside

AsyncPostStep == PostStep /\ Aside
AsyncFinish == Finish /\ Aside

(* STOP and the on_loop_end hooks of the normal path: the first error of   *)
(* theirs escapes once all have run.  So does a cancellation, unless a     *)
(* hook had failed before it.                                              *)
AsyncFinalize ==
  /\ pc = "finalize"
  /\ RunLoopEndHooks
  /\ \/ pc' \in {"returning", "unwind"} /\ UNCHANGED cancels
     \/ pc' \in {"cancelled", "unwind"} /\ cancels < MaxCancels /\ cancels' = cancels + 1
  /\ UNCHANGED <<lifecycleVars, reasonVars, modelVars, turnVars, storeVars, toolVars, hostVars,
                 outcome, fixedVars, steps, done, write, owed, original, threadVars,
                 requestVars>>

-----------------------------------------------------------------------------
(***************************************************************************)
(* Tools at work.                                                          *)
(***************************************************************************)
ToolPoints == {"execute", "execute_done"}
Active == IF pc = "execute_done" THEN {1} ELSE running
StepOf(i) == IF pc = "execute_done" THEN DoneStep ELSE stepNum + at + i - 1

(* Requests that are not settled yet, and the tools that wait for them. *)
Unsettled == {r \in Requests : nested[r].at \notin {"none", "settled"}}
Asking(n) == \E r \in Unsettled : nested[r].by = n

Result(i, ok) ==
  /\ begun' = [j \in DOMAIN begun \ {i} |-> begun[j]]
  /\ IF pc = "execute_done"
     THEN pc' = "judge_done" /\ UNCHANGED <<batch, running>>
     ELSE /\ batch' = [batch EXCEPT ![i].ok = ok]
          /\ running' = running \ {i}
          /\ pc' = (IF running' = {} THEN "collect" ELSE "execute")

(* async_dispatch: a coroutine runs on the loop, anything else needs a     *)
(* worker.                                                                 *)
BeginTool ==
  /\ pc \in ToolPoints
  /\ ~cancelled
  /\ \E i \in Active \ DOMAIN begun, how \in {"thread", "coroutine"} :
       /\ how = "thread" => FreeWorkers > 0
       /\ begun' = [j \in DOMAIN begun \cup {i} |-> IF j = i THEN how ELSE begun[j]]
  /\ UNCHANGED <<vars, done, write, wrapperVars, orphans, requestVars>>

(* Once the token is set no further call is started. *)
RefuseTool ==
  /\ pc \in ToolPoints
  /\ cancelled
  /\ \E i \in Active \ DOMAIN begun : Result(i, FALSE)
  /\ UNCHANGED <<lifecycleVars, reasonVars, modelVars, stepNum, calls, at, storeVars, toolVars,
                 hostVars, endVars, fixedVars, steps, done, write, wrapperVars, orphans,
                 requestVars>>

(* The body returns or raises; or it runs out of time, and then a thread   *)
(* goes on by itself while a coroutine is cancelled wherever it was.       *)
ToolEnds ==
  /\ pc \in ToolPoints
  /\ \E i \in DOMAIN begun, ok \in BOOLEAN :
       /\ Result(i, ok)
       /\ \/ /\ ~Asking(StepOf(i))
             /\ effects' = effects \cup {StepOf(i)}
             /\ UNCHANGED orphans
          \/ /\ begun[i] = "coroutine" /\ ~ok
             /\ ~Asking(StepOf(i))
             /\ UNCHANGED <<effects, orphans>>
          \/ /\ begun[i] = "thread" /\ ~ok
             /\ orphans' = orphans \cup {StepOf(i)}
             /\ UNCHANGED effects
  /\ UNCHANGED <<lifecycleVars, reasonVars, modelVars, stepNum, calls, at, storeVars,
                 lateGroups, hostVars, endVars, fixedVars, steps, done, write, wrapperVars,
                 requestVars>>

(* A thread that outlived its call finishes what it was doing. *)
OrphanEnds ==
  /\ \E n \in orphans :
       /\ ~Asking(n)
       /\ orphans' = orphans \ {n}
       /\ effects' \in {effects, effects \cup {n}}
  /\ UNCHANGED <<pc, lifecycleVars, reasonVars, modelVars, turnVars, storeVars, lateGroups,
                 hostVars, endVars, fixedVars, steps, done, write, wrapperVars, begun,
                 requestVars>>

-----------------------------------------------------------------------------
(***************************************************************************)
(* Model requests made by tools.                                           *)
(***************************************************************************)
Working(how) == {StepOf(i) : i \in {j \in DOMAIN begun : begun[j] = how}}
Threads == orphans \cup (IF pc \in ToolPoints THEN Working("thread") ELSE {})
Coroutines == IF pc \in ToolPoints THEN Working("coroutine") ELSE {}

RequestMoves(r, state) ==
  /\ nested' = [nested EXCEPT ![r].at = state]
  /\ UNCHANGED <<vars, done, write, wrapperVars, threadVars, closed>>

(* invoke from a thread calls the backend first; invoke_async from a       *)
(* coroutine has its task at once.  Neither starts once closed.            *)
MakeRequest ==
  /\ ~closed
  /\ \E r \in Requests :
       /\ nested[r].at = "none"
       /\ \/ \E n \in Threads :
               ~Asking(n) /\ nested' = [nested EXCEPT ![r] = [at |-> "generating", by |-> n]]
          \/ \E n \in Coroutines :
               ~Asking(n) /\ nested' = [nested EXCEPT ![r] = [at |-> "queued", by |-> n]]
  /\ UNCHANGED <<vars, done, write, wrapperVars, threadVars, closed>>

(* Mutant: a request that finds the run closed is not settled. *)
GenerateReturnsMutant ==
  \E r \in Requests :
    /\ nested[r].at = "generating"
    /\ ~closed
    /\ \E state \in {"settled", "queued"} : RequestMoves(r, state)

(* The backend answered at once or raised; or it returned an awaitable,    *)
(* which run() hands to the loop, or closes when the run is over.          *)
GenerateReturns ==
  \E r \in Requests :
    /\ nested[r].at = "generating"
    /\ \/ RequestMoves(r, "settled")
       \/ ~closed /\ RequestMoves(r, "queued")

(* resolve: on the event loop. *)
ResolveRequest == \E r \in Requests : nested[r].at = "queued" /\ RequestMoves(r, "answering")

(* _settle: the answer, an error, or the end of a cancelled request. *)
SettleRequest ==
  \E r \in Requests : nested[r].at \in {"answering", "cancelling"} /\ RequestMoves(r, "settled")

RequestStep == GenerateReturns \/ ResolveRequest \/ SettleRequest

(* cancel_pending, its critical section: what has a future is cancelled,   *)
(* what is still being generated is left to the closed flag.               *)
Cancelled(request) ==
  IF request.at \in {"queued", "answering"} THEN [request EXCEPT !.at = "cancelling"]
  ELSE request

(* Mutant: only requests that have a future are waited for. *)
CancelPendingMutant ==
  /\ closed' = TRUE
  /\ nested' = [r \in Requests |-> Cancelled(nested[r])]
  /\ pc' = (IF \E r \in Requests : nested[r].at \in {"queued", "answering"}
            THEN "drain" ELSE "loop_end")

CancelPending ==
  /\ closed' = TRUE
  /\ nested' = [r \in Requests |-> Cancelled(nested[r])]
  /\ pc' = (IF Unsettled = {} THEN "loop_end" ELSE "drain")

-----------------------------------------------------------------------------
(***************************************************************************)
(* The frame: async_composable_loop.                                       *)
(***************************************************************************)
(* except and finally: what the caller's state shows, then cancel_pending. *)
Leave(how, shown) ==
  /\ outcome' = how
  /\ pub' = shown
  /\ original' = (how = "cancelled")
  /\ CancelPending
  /\ UNCHANGED <<ctx, reasonVars, modelVars, turnVars, storeVars, toolVars, hostVars,
                 hooksBound, loopEnds, fixedVars, steps, done, write, owed, cancels,
                 threadVars>>

Shown(status, reason) == [status |-> status, phase |-> "terminal", reason |-> reason]

LeaveLoop ==
  \/ pc = "returning" /\ Leave("returned", pub)
  \/ pc = "unwind" /\ Leave("raised", Shown("failed", "error"))
  \/ pc = "cancelled" /\ Leave("cancelled", Shown("cancelled", "cancelled"))

AsyncCloseStream == pc \in YieldPoints /\ Leave("closed", Shown("stopped", "stream_closed"))

(* A cancellation of the cleanup itself replaces whatever was being raised, *)
(* unless the run is ending by a cancellation anyway.                      *)
Surface == IF owed /\ ~original THEN "cancelled" ELSE outcome

DrainEnds ==
  /\ pc = "drain"
  /\ Unsettled = {}
  /\ FreeWorkers > 0
  /\ outcome' = Surface
  /\ owed' = FALSE
  /\ pc' = "loop_end"
  /\ UNCHANGED <<lifecycleVars, reasonVars, modelVars, turnVars, storeVars, toolVars,
                 hostVars, hooksBound, loopEnds, fixedVars, steps, done, write, original,
                 cancels, threadVars, requestVars>>

(* finish_async(suppress_errors=True) *)
LoopEndCleanup ==
  /\ pc = "loop_end"
  /\ RunLoopEndHooks
  /\ pc' = "persist"
  /\ UNCHANGED <<lifecycleVars, reasonVars, modelVars, turnVars, storeVars, toolVars, hostVars,
                 outcome, fixedVars, steps>>
  /\ Aside

(* Mutant: an error of the last write is raised in any case. *)
PersistHarnessMutant ==
  /\ pc = "persist"
  /\ FreeWorkers > 0
  /\ outcome' \in {Surface, "raised"}
  /\ owed' = FALSE
  /\ pc' = "ended"
  /\ UNCHANGED <<lifecycleVars, reasonVars, modelVars, turnVars, storeVars, toolVars, hostVars,
                 hooksBound, loopEnds, fixedVars, steps, done, write, original, cancels,
                 threadVars, requestVars>>

(* _run_persistence(prepared.persist), then release: an error of it counts *)
(* only when no cancellation is being raised.                              *)
PersistHarness ==
  /\ pc = "persist"
  /\ FreeWorkers > 0
  /\ outcome' \in {Surface, IF owed \/ original THEN Surface ELSE "raised"}
  /\ owed' = FALSE
  /\ pc' = "ended"
  /\ UNCHANGED <<lifecycleVars, reasonVars, modelVars, turnVars, storeVars, toolVars, hostVars,
                 hooksBound, loopEnds, fixedVars, steps, done, write, original, cancels,
                 threadVars, requestVars>>

-----------------------------------------------------------------------------
(***************************************************************************)
(* Cancellation of the task.                                               *)
(***************************************************************************)
OnceMore == cancels < MaxCancels /\ cancels' = cancels + 1

CancelAtAwait ==
  /\ pc \in AwaitPoints
  /\ OnceMore
  /\ pc' = "cancelled"
  /\ UNCHANGED <<lifecycleVars, reasonVars, modelVars, turnVars, storeVars, toolVars, hostVars,
                 endVars, fixedVars, steps, done, write, owed, original, threadVars,
                 requestVars>>

(* The dispatch is cancelled: coroutines end where they are, with their    *)
(* requests; threads run on.                                               *)
CancelAtTools ==
  /\ pc \in ToolPoints
  /\ OnceMore
  /\ pc' = "cancelled"
  /\ orphans' = orphans \cup Working("thread")
  /\ \E late_effects \in SUBSET {n \in Coroutines : ~Asking(n)} :
       effects' = effects \cup late_effects
  /\ nested' = [r \in Requests |-> IF nested[r].by \in Coroutines THEN Cancelled(nested[r])
                                   ELSE nested[r]]
  /\ begun' = <<>> /\ running' = {}
  /\ UNCHANGED <<lifecycleVars, reasonVars, modelVars, stepNum, calls, at, batch, storeVars,
                 lateGroups, hostVars, endVars, fixedVars, steps, done, write, owed, original,
                 closed>>

(* Shielded work is not interrupted: the cancellation waits for its end. *)
CancelHeldBack ==
  /\ pc \in {"saving", "drain", "persist"}
  /\ OnceMore
  /\ owed' = TRUE
  /\ UNCHANGED <<vars, done, write, original, threadVars, requestVars>>

(* During the on_loop_end hooks of the cleanup it ends one hook and is     *)
(* then dropped like any error of a hook.                                  *)
CancelDropped ==
  /\ pc = "loop_end"
  /\ hooksBound
  /\ OnceMore
  /\ UNCHANGED <<vars, done, write, owed, original, threadVars, requestVars>>

CancelTask == CancelAtAwait \/ CancelAtTools \/ CancelHeldBack \/ CancelDropped

-----------------------------------------------------------------------------
AsyncInit ==
  /\ Init
  /\ done = FALSE /\ write = NoWrite /\ owed = FALSE
  /\ begun = <<>> /\ orphans = {}
  /\ nested = [r \in Requests |-> [at |-> "none", by |-> 0]]
  /\ closed = FALSE /\ original = FALSE /\ cancels = 0

AsyncLoopStep ==
  \/ AsyncStart \/ AsyncLoopHead \/ AsyncPrompt \/ AsyncRequestModel \/ AsyncModelReturns
  \/ AsyncRecoverOverflow \/ AsyncModelAnswered \/ AsyncRecordFailedStep
  \/ AsyncParseResponse \/ AsyncRecoverParse \/ AsyncGiveUpParse \/ AsyncRecordUnparsedStep
  \/ AsyncPlanTurn \/ AsyncIntercept \/ AsyncCollectResult \/ AsyncRecordToolStep
  \/ AsyncAfterToolStep \/ AsyncAfterDispatch \/ AsyncCheckDone \/ AsyncJudgeDone
  \/ AsyncRecordJudgedStep \/ AsyncAcceptDone \/ AsyncRecordAcceptedStep \/ AnnounceDone
  \/ AsyncPostStep \/ AsyncFinish \/ AsyncFinalize \/ WriteEnds
  \/ LeaveLoop \/ DrainEnds \/ LoopEndCleanup \/ PersistHarness

ToolStep == BeginTool \/ RefuseTool \/ ToolEnds

(* Hooks that raise, the token and the deadline, while the loop goes on. *)
AsyncHostStep ==
  /\ pc \notin CleanupPoints
  /\ HookRaises \/ CancelRun \/ DeadlinePasses
  /\ Aside

AsyncEnded == pc = "ended" /\ UNCHANGED allVars

AsyncNext ==
  \/ AsyncLoopStep \/ ToolStep \/ OrphanEnds \/ MakeRequest \/ RequestStep
  \/ AsyncHostStep \/ AsyncCloseStream \/ CancelTask \/ AsyncEnded

(* The event loop keeps running the task, its consumer keeps asking for    *)
(* steps, and model, hooks, tools and requests come to an end.             *)
AsyncSpec ==
  /\ AsyncInit /\ [][AsyncNext]_allVars
  /\ WF_allVars(AsyncLoopStep) /\ WF_allVars(ToolStep)
  /\ WF_allVars(OrphanEnds) /\ WF_allVars(RequestStep)

-----------------------------------------------------------------------------
(* A run never ends while a model request made by one of its tools is in   *)
(* flight, also one made by a thread nobody waits for any more, and none    *)
(* is sent after that: async_composable_loop drains them in its finally.   *)
NestedSettled == pc = "ended" => Unsettled = {}

(* A run that a cancellation made leave its frame ends by raising          *)
(* CancelledError with a state that says so, however often the task is     *)
(* cancelled then and whatever fails in its cleanup.  (A cancellation that *)
(* comes once a hook of the normal on_loop_end has failed does not make    *)
(* the run leave: finish_async raises the failure, see AsyncFinalize.)     *)
CancellationSurfaces ==
  (original /\ pc = "ended") => outcome = "cancelled" /\ pub.status = "cancelled"

=============================================================================
