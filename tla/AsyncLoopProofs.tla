--------------------------- MODULE AsyncLoopProofs ---------------------------
(***************************************************************************)
(* The asynchronous loop, for every budget, turn size, number of workers,  *)
(* requests and cancellations. First its frame: at the end of a run the    *)
(* requests of tools are settled, a cancellation comes out, and            *)
(* on_loop_end has run once. Then its turns: the budget, the step numbers  *)
(* and the checkpoint files, which a resume must be able to trust whatever *)
(* threads are left behind. Last what a caller is told: results,           *)
(* acceptance and stops.                                                   *)
(***************************************************************************)
EXTENDS AsyncLoop, AgentLoopProofs

(* The points of the cleanup after cancel_pending; at the last three the   *)
(* pending requests have been waited for.                                  *)
DrainedPoints == {"loop_end", "persist", "ended"}
ClosedPoints == {"drain"} \cup DrainedPoints

(* Once the frame is left the run is closed to requests, none is left once *)
(* they were drained, and a cancellation that ended the loop stays the     *)
(* outcome, whatever the cleanup meets.                                    *)
FrameInv ==
  /\ write.next \notin ClosedPoints
  /\ pc \in ClosedPoints => closed
  /\ pc \in DrainedPoints => Unsettled = {}
  /\ original => pc \in ClosedPoints /\ outcome = "cancelled" /\ pub.status = "cancelled"

LEMMA FrameInit == AsyncInit => FrameInv
  BY DEF AsyncInit, Init, FrameInv, ClosedPoints, DrainedPoints, NoWrite

(* The run before its cleanup: nothing of it reaches the points after it. *)
Inside(point) == point \notin ClosedPoints

(* A step that stays before the cleanup has nothing of FrameInv to show. *)
LEMMA InsideKeeps ==
  ASSUME FrameInv, Inside(pc), Inside(pc'), original' = original,
         write' = write \/ Inside(write'.next)
  PROVE  FrameInv'
  BY DEF FrameInv, Inside, ClosedPoints

(* Every action of the loop itself stays inside. *)
LEMMA LoopStaysInside ==
  ASSUME FrameInv, AsyncLoopStep
  PROVE  \/ LeaveLoop \/ DrainEnds \/ LoopEndCleanup \/ PersistHarness
         \/ /\ Inside(pc) /\ Inside(pc') /\ original' = original
            /\ write' = write \/ Inside(write'.next)
            /\ pc' = "returning" => AsyncFinalize \/ WriteEnds
<1> USE DEF Inside, ClosedPoints, DrainedPoints, Aside, asyncVars, wrapperVars
<1>1. CASE AsyncStart
  BY <1>1 DEF AsyncStart, Start
<1>2. CASE AsyncLoopHead
  BY <1>2 DEF AsyncLoopHead, LoopHead, DeadlineStop, StopWith
<1>3. CASE AsyncPrompt
  BY <1>3 DEF AsyncPrompt, DeadlineStop, StopWith, HookDecides
<1>4. CASE AsyncRequestModel
  BY <1>4 DEF AsyncRequestModel, RequestModel, CallReturned, DeadlineStop, StopWith
<1>5. CASE AsyncModelReturns
  BY <1>5 DEF AsyncModelReturns, ModelReturns, CallReturned, DeadlineStop, StopWith
<1>6. CASE AsyncRecoverOverflow
  BY <1>6 DEF AsyncRecoverOverflow
<1>7. CASE AsyncModelAnswered
  BY <1>7 DEF AsyncModelAnswered, ModelAnswered, HookDecides, StopWith, Yield
<1>8. CASE AsyncRecordFailedStep
  BY <1>8 DEF AsyncRecordFailedStep, RecordFailedStep, StopWith
<1>9. CASE AsyncParseResponse
  BY <1>9 DEF AsyncParseResponse, ParseResponse
<1>10. CASE AsyncRecoverParse
  BY <1>10 DEF AsyncRecoverParse, RecoverParse
<1>11. CASE AsyncGiveUpParse
  BY <1>11 DEF AsyncGiveUpParse, GiveUpParse, Yield
<1>12. CASE AsyncRecordUnparsedStep
  BY <1>12 DEF AsyncRecordUnparsedStep, Persist
<1>13. CASE AsyncPlanTurn
  BY <1>13 DEF AsyncPlanTurn, PlanTurn
<1>14. CASE AsyncIntercept
  BY <1>14 DEF AsyncIntercept, Persist
<1>15. CASE AsyncCollectResult
  BY <1>15 DEF AsyncCollectResult
<1>16. CASE AsyncRecordToolStep
  BY <1>16 DEF AsyncRecordToolStep, Persist
<1>17. CASE AsyncAfterToolStep
  BY <1>17 DEF AsyncAfterToolStep, AsyncNextCall, DeadlineStop, StopWith
<1>18. CASE AsyncAfterDispatch
  BY <1>18 DEF AsyncAfterDispatch, AfterTurn, DeadlineStop, StopWith
<1>19. CASE AsyncCheckDone
  <2>1. CASE Yield(DoneStep, "blocked", FALSE, "yield_blocked") /\ UNCHANGED write
    BY <1>19, <2>1 DEF AsyncCheckDone, Yield
  <2>2. CASE Persist("pending", DoneStep, "execute_done")
    BY <1>19, <2>2 DEF AsyncCheckDone, Persist
  <2>3. CASE pc' = "judge_done" /\ UNCHANGED write
    BY <1>19, <2>3 DEF AsyncCheckDone
  <2> QED
    BY <1>19, <2>1, <2>2, <2>3 DEF AsyncCheckDone
<1>20. CASE AsyncJudgeDone
  BY <1>20 DEF AsyncJudgeDone, JudgeDone, Yield
<1>21. CASE AsyncRecordJudgedStep
  BY <1>21 DEF AsyncRecordJudgedStep, Persist, AfterTurn
<1>22. CASE AsyncAcceptDone
  BY <1>22 DEF AsyncAcceptDone, AcceptDone
<1>23. CASE AsyncRecordAcceptedStep
  BY <1>23 DEF AsyncRecordAcceptedStep, Persist
<1>24. CASE AnnounceDone
  BY <1>24 DEF AnnounceDone, StopWith
<1>25. CASE AsyncPostStep
  BY <1>25 DEF AsyncPostStep, PostStep, StopWith
<1>26. CASE AsyncFinish
  BY <1>26 DEF AsyncFinish, Finish
<1>27. CASE AsyncFinalize
  BY <1>27 DEF AsyncFinalize
<1>28. CASE WriteEnds
  BY <1>28 DEF WriteEnds, NoWrite, FrameInv
<1> QED
  BY <1>1, <1>2, <1>3, <1>4, <1>5, <1>6, <1>7, <1>8, <1>9, <1>10, <1>11, <1>12, <1>13,
     <1>14, <1>15, <1>16, <1>17, <1>18, <1>19, <1>20, <1>21, <1>22, <1>23, <1>24, <1>25,
     <1>26, <1>27, <1>28 DEF AsyncLoopStep

(* The frame: what is pending is settled before the hooks of the end run,  *)
(* and neither an error nor another cancellation replaces the first one.   *)
LEMMA FrameKeeps ==
  ASSUME FrameInv, LeaveLoop \/ AsyncCloseStream \/ DrainEnds \/ LoopEndCleanup \/ PersistHarness
  PROVE  FrameInv'
<1> USE DEF FrameInv, ClosedPoints, DrainedPoints
<1>1. ASSUME NEW how, NEW shown, Leave(how, shown), how = "cancelled" => shown.status =
   "cancelled"
      PROVE  FrameInv'
  <2>1. closed' = TRUE /\ write' = write /\ outcome' = how /\ pub' = shown
        /\ original' = (how = "cancelled")
        /\ pc' = (IF Unsettled = {} THEN "loop_end" ELSE "drain")
        /\ nested' = [r \in Requests |-> Cancelled(nested[r])]
    BY <1>1 DEF Leave, CancelPending
  <2>2. Unsettled = {} => Unsettled' = {}
    BY <2>1 DEF Unsettled, Cancelled
  <2>3. pc' \in ClosedPoints /\ (pc' \in DrainedPoints => Unsettled = {})
    BY <2>1
  <2>4. original' => outcome' = "cancelled" /\ pub'.status = "cancelled"
    BY <1>1, <2>1
  <2> QED
    BY <2>1, <2>2, <2>3, <2>4
<1>2. CASE LeaveLoop
  <2>1. CASE Leave("returned", pub)
    BY <1>1, <2>1
  <2>2. CASE Leave("raised", Shown("failed", "error"))
    BY <1>1, <2>2
  <2>3. CASE Leave("cancelled", Shown("cancelled", "cancelled"))
    BY <1>1, <2>3 DEF Shown
  <2> QED
    BY <1>2, <2>1, <2>2, <2>3 DEF LeaveLoop
<1>3. CASE AsyncCloseStream
  BY <1>1, <1>3 DEF AsyncCloseStream
<1>4. CASE DrainEnds
  BY <1>4 DEF DrainEnds, Surface, requestVars, lifecycleVars, Unsettled
<1>5. CASE LoopEndCleanup
  BY <1>5 DEF LoopEndCleanup, Aside, asyncVars, lifecycleVars, Unsettled
<1>6. CASE PersistHarness
  BY <1>6 DEF PersistHarness, Surface, requestVars, lifecycleVars, Unsettled
<1> QED
  BY <1>2, <1>3, <1>4, <1>5, <1>6

(* The requests that tools make: none begins once the run is closed, and   *)
(* one that is settled stays settled.                                      *)
LEMMA RequestsKeep ==
  ASSUME FrameInv, MakeRequest \/ RequestStep
  PROVE  FrameInv'
<1>1. UNCHANGED <<pc, write, closed, outcome, pub, original>>
  BY DEF MakeRequest, RequestStep, GenerateReturns, ResolveRequest, SettleRequest, RequestMoves,
         vars, wrapperVars
<1>2. CASE MakeRequest
  <2>1. pc \notin ClosedPoints
    BY <1>2 DEF MakeRequest, FrameInv
  <2> QED
    BY <1>1, <2>1 DEF FrameInv, ClosedPoints
<1>3. CASE RequestStep
  <2>1. Unsettled # {}
    BY <1>3 DEF RequestStep, GenerateReturns, ResolveRequest, SettleRequest, Unsettled
  <2> QED
    BY <1>1, <2>1 DEF FrameInv
<1> QED
  BY <1>2, <1>3

(* Tools, the threads they leave behind, the host, and the cancellations   *)
(* of the task.                                                            *)
LEMMA OthersKeep ==
  ASSUME FrameInv, ToolStep \/ OrphanEnds \/ AsyncHostStep \/ CancelTask \/ UNCHANGED allVars
  PROVE  FrameInv'
<1> USE DEF ClosedPoints, DrainedPoints
<1>1. ASSUME UNCHANGED <<pc, write, nested, closed, outcome, pub, original>> PROVE FrameInv'
  BY <1>1 DEF FrameInv, Unsettled
<1>2. CASE BeginTool
  BY <1>1, <1>2 DEF BeginTool, vars, wrapperVars, requestVars
<1>3. CASE RefuseTool \/ ToolEnds
  BY <1>3, InsideKeeps DEF RefuseTool, ToolEnds, Result, ToolPoints, wrapperVars, Inside
<1>4. CASE OrphanEnds
  BY <1>1, <1>4 DEF OrphanEnds, lifecycleVars, endVars, wrapperVars, requestVars
<1>5. CASE AsyncHostStep
  <2>1. CASE HookRaises
    BY <1>5, <2>1, InsideKeeps DEF AsyncHostStep, HookRaises, RaisePoints, Aside, asyncVars,
                                   Inside
  <2>2. CASE CancelRun \/ DeadlinePasses
    BY <1>5, <2>2, <1>1 DEF AsyncHostStep, CancelRun, DeadlinePasses, Aside, asyncVars,
                            lifecycleVars, endVars
  <2> QED
    BY <1>5, <2>1, <2>2 DEF AsyncHostStep
<1>6. CASE CancelAtAwait
  BY <1>6, InsideKeeps DEF CancelAtAwait, AwaitPoints, Inside
<1>7. CASE CancelAtTools
  BY <1>7, InsideKeeps DEF CancelAtTools, ToolPoints, Inside
<1>8. CASE CancelHeldBack \/ CancelDropped
  BY <1>1, <1>8 DEF CancelHeldBack, CancelDropped, vars, requestVars
<1>9. CASE UNCHANGED allVars
  BY <1>1, <1>9 DEF allVars, vars, asyncVars
<1> QED
  BY <1>2, <1>3, <1>4, <1>5, <1>6, <1>7, <1>8, <1>9 DEF ToolStep, CancelTask

(* The frame keeps its promise in every reachable state. *)
THEOREM FrameInvariant == AsyncSpec => []FrameInv
<1>1. FrameInv /\ [AsyncNext]_allVars => FrameInv'
  <2> SUFFICES ASSUME FrameInv, [AsyncNext]_allVars PROVE FrameInv'
    OBVIOUS
  <2>1. CASE AsyncLoopStep
    BY <2>1, LoopStaysInside, InsideKeeps, FrameKeeps
  <2>2. CASE AsyncCloseStream
    BY <2>2, FrameKeeps
  <2>3. CASE MakeRequest \/ RequestStep
    BY <2>3, RequestsKeep
  <2>4. CASE ToolStep \/ OrphanEnds \/ AsyncHostStep \/ CancelTask \/ UNCHANGED allVars
    BY <2>4, OthersKeep
  <2> QED
    BY <2>1, <2>2, <2>3, <2>4 DEF AsyncNext, AsyncEnded
<1> QED
  BY FrameInit, <1>1, PTL DEF AsyncSpec

(* No run ends while a request of one of its tools is unsettled, however   *)
(* many tools ask and however often the task is cancelled.                 *)
THEOREM NestedSafe == AsyncSpec => []NestedSettled
<1>1. FrameInv => NestedSettled
  BY DEF FrameInv, NestedSettled, DrainedPoints
<1> QED
  BY <1>1, FrameInvariant, PTL

(* A run that was interrupted ends by raising CancelledError, with a state *)
(* that says so, whatever its cleanup meets.                               *)
THEOREM CancellationSafe == AsyncSpec => []CancellationSurfaces
<1>1. FrameInv => CancellationSurfaces
  BY DEF FrameInv, CancellationSurfaces
<1> QED
  BY <1>1, FrameInvariant, PTL

-----------------------------------------------------------------------------
(* The hooks of the end have not run as long as the finalizer holds them,  *)
(* and it holds none past the frame's cleanup.                             *)
HooksInv ==
  /\ hooksBound \in BOOLEAN
  /\ loopEnds = (IF hooksBound THEN 0 ELSE 1)
  /\ pc \in {"persist", "ended"} => ~hooksBound

Bound == <<hooksBound, loopEnds>>

LEMMA HooksRun ==
  ASSUME HooksInv, RunLoopEndHooks
  PROVE  HooksInv'
<1>1. loopEnds' = 1
  <2>1. loopEnds' = loopEnds + (IF hooksBound THEN 1 ELSE 0)
    BY DEF RunLoopEndHooks
  <2>2. CASE hooksBound
    BY <2>1, <2>2 DEF HooksInv
  <2>3. CASE ~hooksBound
    BY <2>1, <2>3 DEF HooksInv
  <2> QED
    BY <2>2, <2>3
<1>2. hooksBound' = FALSE
  BY DEF RunLoopEndHooks
<1>3. ~hooksBound' /\ hooksBound' \in BOOLEAN
  BY <1>2
<1>4. loopEnds' = (IF hooksBound' THEN 0 ELSE 1)
  BY <1>1, <1>3
<1> QED
  BY <1>3, <1>4, Zenon DEF HooksInv

(* The loop itself runs them at the end of its normal path only. *)
LEMMA LoopKeepsHooks ==
  ASSUME AsyncLoopStep
  PROVE  \/ LeaveLoop \/ DrainEnds \/ LoopEndCleanup \/ PersistHarness
         \/ outcome' = outcome /\ (AsyncFinalize \/ UNCHANGED Bound)
<1> USE DEF Bound
<1>1. CASE AsyncStart
  BY <1>1 DEF AsyncStart, Start, endVars
<1>2. CASE AsyncLoopHead
  BY <1>2 DEF AsyncLoopHead, LoopHead, endVars
<1>3. CASE AsyncPrompt
  BY <1>3 DEF AsyncPrompt, endVars
<1>4. CASE AsyncRequestModel
  BY <1>4 DEF AsyncRequestModel, RequestModel, endVars
<1>5. CASE AsyncModelReturns
  BY <1>5 DEF AsyncModelReturns, ModelReturns, endVars
<1>6. CASE AsyncRecoverOverflow
  BY <1>6 DEF AsyncRecoverOverflow, endVars
<1>7. CASE AsyncModelAnswered
  BY <1>7 DEF AsyncModelAnswered, ModelAnswered, endVars
<1>8. CASE AsyncRecordFailedStep
  BY <1>8 DEF AsyncRecordFailedStep, RecordFailedStep, endVars
<1>9. CASE AsyncParseResponse
  BY <1>9 DEF AsyncParseResponse, ParseResponse, endVars
<1>10. CASE AsyncRecoverParse
  BY <1>10 DEF AsyncRecoverParse, RecoverParse, endVars
<1>11. CASE AsyncGiveUpParse
  BY <1>11 DEF AsyncGiveUpParse, GiveUpParse, endVars
<1>12. CASE AsyncRecordUnparsedStep
  BY <1>12 DEF AsyncRecordUnparsedStep, endVars
<1>13. CASE AsyncPlanTurn
  BY <1>13 DEF AsyncPlanTurn, PlanTurn, endVars
<1>14. CASE AsyncIntercept
  BY <1>14 DEF AsyncIntercept, endVars
<1>15. CASE AsyncCollectResult
  BY <1>15 DEF AsyncCollectResult, endVars
<1>16. CASE AsyncRecordToolStep
  BY <1>16 DEF AsyncRecordToolStep, endVars
<1>17. CASE AsyncAfterToolStep
  BY <1>17 DEF AsyncAfterToolStep, endVars
<1>18. CASE AsyncAfterDispatch
  BY <1>18 DEF AsyncAfterDispatch, endVars
<1>19. CASE AsyncCheckDone
  BY <1>19 DEF AsyncCheckDone, endVars
<1>20. CASE AsyncJudgeDone
  BY <1>20 DEF AsyncJudgeDone, JudgeDone, endVars
<1>21. CASE AsyncRecordJudgedStep
  BY <1>21 DEF AsyncRecordJudgedStep, endVars
<1>22. CASE AsyncAcceptDone
  BY <1>22 DEF AsyncAcceptDone, AcceptDone, endVars
<1>23. CASE AsyncRecordAcceptedStep
  BY <1>23 DEF AsyncRecordAcceptedStep, endVars
<1>24. CASE AnnounceDone
  BY <1>24 DEF AnnounceDone, endVars
<1>25. CASE AsyncPostStep
  BY <1>25 DEF AsyncPostStep, PostStep, endVars
<1>26. CASE AsyncFinish
  BY <1>26 DEF AsyncFinish, Finish, endVars
<1>27. CASE WriteEnds
  BY <1>27 DEF WriteEnds, endVars
<1>28. CASE AsyncFinalize
  BY <1>28 DEF AsyncFinalize
<1> QED
  BY <1>1, <1>2, <1>3, <1>4, <1>5, <1>6, <1>7, <1>8, <1>9, <1>10, <1>11, <1>12, <1>13, <1>14,
     <1>15, <1>16, <1>17, <1>18, <1>19, <1>20, <1>21, <1>22, <1>23, <1>24, <1>25, <1>26, <1>27, <1>28 DEF AsyncLoopStep

LEMMA HooksStep ==
  ASSUME FrameInv, HooksInv, [AsyncNext]_allVars
  PROVE  HooksInv'
<1>1. ASSUME UNCHANGED Bound, pc' \notin {"persist", "ended"} \/ pc' = pc PROVE HooksInv'
  BY <1>1 DEF HooksInv, Bound
<1>2. CASE AsyncLoopStep
  <2>1. CASE LeaveLoop \/ DrainEnds
    BY <2>1, <1>1 DEF LeaveLoop, Leave, CancelPending, DrainEnds, Bound
  <2>2. CASE LoopEndCleanup \/ AsyncFinalize
    BY <2>2, HooksRun DEF LoopEndCleanup, AsyncFinalize
  <2>3. CASE PersistHarness
    BY <2>3 DEF PersistHarness, HooksInv
  <2>4. CASE /\ ~(LeaveLoop \/ DrainEnds \/ LoopEndCleanup \/ AsyncFinalize \/ PersistHarness)
             /\ UNCHANGED Bound
    <3>1. Inside(pc')
      BY <1>2, <2>4, LoopStaysInside
    <3> QED
      BY <2>4, <3>1, <1>1 DEF Inside, ClosedPoints, DrainedPoints
  <2> QED
    BY <1>2, <2>1, <2>2, <2>3, <2>4, LoopKeepsHooks
<1>3. CASE AsyncCloseStream
  BY <1>3, <1>1 DEF AsyncCloseStream, Leave, CancelPending, Bound
<1>4. CASE MakeRequest \/ RequestStep
  BY <1>4, <1>1 DEF MakeRequest, RequestStep, GenerateReturns, ResolveRequest, SettleRequest,
     RequestMoves, vars, endVars, Bound
<1>5. CASE ToolStep
  BY <1>5, <1>1 DEF ToolStep, BeginTool, RefuseTool, ToolEnds, Result, vars, endVars, Bound
<1>6. CASE OrphanEnds
  BY <1>6, <1>1 DEF OrphanEnds, endVars, Bound
<1>7. CASE AsyncHostStep
  BY <1>7, <1>1 DEF AsyncHostStep, HookRaises, CancelRun, DeadlinePasses, endVars, Bound
<1>8. CASE CancelTask
  BY <1>8, <1>1 DEF CancelTask, CancelAtAwait, CancelAtTools, CancelHeldBack, CancelDropped,
     vars, endVars, Bound
<1>9. CASE UNCHANGED allVars
  BY <1>9, <1>1 DEF allVars, vars, endVars, Bound
<1> QED
  BY <1>2, <1>3, <1>4, <1>5, <1>6, <1>7, <1>8, <1>9 DEF AsyncNext, AsyncEnded

(* on_loop_end runs exactly once, whatever ends the asynchronous run, and  *)
(* also when the task is cancelled in the middle of these hooks.           *)
THEOREM AsyncCleanupSafe == AsyncSpec => []CleanupOnce
<1>1. AsyncInit => HooksInv
  BY DEF AsyncInit, Init, HooksInv
<1>2. FrameInv /\ HooksInv /\ [AsyncNext]_allVars => HooksInv'
  BY HooksStep
<1>3. HooksInv => CleanupOnce
  BY DEF HooksInv, CleanupOnce
<1> QED
  BY <1>1, <1>2, <1>3, FrameInvariant, PTL DEF AsyncSpec

-----------------------------------------------------------------------------
(***************************************************************************)
(* The turn of the asynchronous loop.  What AgentLoopProofs says of a turn *)
(* (DataInv) holds here as well; new are the points where a checkpoint is  *)
(* being written and the bodies that are at work.                          *)
(***************************************************************************)
(* A turn under way: at which of its calls it is, what of the budget is    *)
(* left for the rest, and that position against the steps recorded.        *)
InTurn ==
  /\ stepNum + at = Len(steps) + 1 + offset
  /\ Charged(steps) + budgetOffset + (Len(calls) - at) <= MaxSteps
  /\ at <= RegularCount(calls)

(* Where the turn stands while a document is written, by what it is: the    *)
(* pending record of a group or of the terminal call, the step of a call,  *)
(* or the last step of the turn.                                           *)
WritingGroup ==
  /\ write.next = "execute" /\ write.kind = "pending" /\ write.n = Last + Len(batch)
  /\ InTurn /\ at < RegularCount(calls) /\ running \subseteq 1..Len(batch)
  /\ Len(batch) = IF config.concurrent THEN RegularCount(calls) - at ELSE 1
WritingDone ==
  /\ write.next = "execute_done" /\ write.kind = "pending" /\ write.n = Last + 1
  /\ InTurn /\ at = RegularCount(calls) /\ TerminalIndex(calls) # 0
WritingStep ==
  write.kind \in {"step", "done"} /\ write.n = Last /\ steps # <<>>
WritingToolStep ==
  /\ write.next = "after_step" /\ WritingStep /\ InTurn
  /\ Len(batch) = IF config.concurrent THEN RegularCount(calls) - at ELSE 0
WritingLastStep ==
  write.next \in {"post_step", "top", "done_saved"} /\ WritingStep

Writing ==
  pc = "saving" => WritingGroup \/ WritingDone \/ WritingToolStep \/ WritingLastStep

(* A serial group is used up once its one result was collected. *)
SerialGroup == pc \in {"yield_tool", "after_step"} /\ ~config.concurrent => Len(batch) = 0

(* Bodies are at work at the two points where the loop waits for them; a   *)
(* thread left behind had a step number.                                   *)
Bodies ==
  /\ orphans \in SUBSET Nat
  /\ DOMAIN begun \subseteq (IF pc \in ToolPoints THEN Active ELSE {})

(* A synthetic step is recorded under the number of the turn. *)
Unparsed == pc = "yield_unparsed" => stepNum = Last

TurnInv == DataInv /\ Writing /\ SerialGroup /\ Bodies /\ Unparsed

LEMMA TurnInit == AsyncInit => TurnInv
<1> SUFFICES ASSUME AsyncInit PROVE TurnInv
  OBVIOUS
<1>1. DataInv
  BY LoopInvInit DEF AsyncInit, LoopInv
<1>2. pc = "start" /\ begun = <<>> /\ orphans = {}
  BY DEF AsyncInit, Init
<1>3. DOMAIN begun = {}
  BY <1>2
<1> QED
  BY <1>1, <1>2, <1>3 DEF TurnInv, Writing, SerialGroup, Bodies, Unparsed

(* The loop moves on, with no body at work and nothing to write. *)
LEMMA MovesOn ==
  ASSUME TurnInv, DataInv', UNCHANGED threadVars, pc \notin ToolPoints,
         pc' \notin ToolPoints \cup {"saving", "yield_tool", "after_step"},
         pc' = "yield_unparsed" => stepNum' = Last'
  PROVE  TurnInv'
BY DEF TurnInv, Writing, SerialGroup, Bodies, Unparsed, threadVars

(* Somebody else does something, or nobody. *)
LEMMA LoopWaits ==
  ASSUME TurnInv, UNCHANGED dataVars, UNCHANGED <<pc, write, threadVars>>
  PROVE  TurnInv'
<1>1. DataInv'
  BY QuietStep DEF TurnInv
<1>2. Last' = Last
  BY DEF Last, dataVars, fixedVars
<1>3. Writing'
  BY <1>2 DEF TurnInv, Writing, WritingGroup, WritingDone, WritingToolStep, WritingLastStep,
         WritingStep, InTurn, dataVars, turnVars, fixedVars
<1>4. SerialGroup' /\ Bodies' /\ Unparsed'
  BY <1>2 DEF TurnInv, SerialGroup, Bodies, Active, Unparsed, threadVars, dataVars, turnVars,
         fixedVars
<1> QED
  BY <1>1, <1>3, <1>4 DEF TurnInv

(* The actions of AgentLoop that the asynchronous loop takes over. *)
Shared ==
  \/ Start \/ LoopHead \/ RequestModel \/ ModelReturns \/ ModelAnswered \/ RecordFailedStep
  \/ ParseResponse \/ RecoverParse \/ GiveUpParse \/ PlanTurn \/ JudgeDone \/ AcceptDone
  \/ PostStep \/ Finish \/ HookRaises

(* The actions of AgentLoop that are taken over keep the invariant of the  *)
(* turn.                                                                   *)
LEMMA SharedMoves ==
  ASSUME TurnInv, Shared, Aside
  PROVE  TurnInv'
<1>1. DataInv'
  BY DataStep DEF TurnInv, Shared, Next, LoopStep, HostStep
<1>2. UNCHANGED threadVars
  BY DEF Aside, asyncVars, threadVars
<1> DEFINE Apart == /\ pc \notin ToolPoints
                    /\ pc' \notin ToolPoints \cup {"saving", "yield_tool", "after_step"}
<1>3. Apart
  <2> USE DEF ToolPoints
  <2>1. CASE Start \/ LoopHead
    BY <2>1 DEF Start, LoopHead, DeadlineStop, StopWith
  <2>2. CASE RequestModel \/ ModelReturns
    BY <2>2 DEF RequestModel, ModelReturns, CallReturned, DeadlineStop, StopWith
  <2>3. CASE ModelAnswered
    BY <2>3 DEF ModelAnswered, HookDecides, StopWith, Yield
  <2>4. CASE RecordFailedStep \/ PostStep \/ Finish
    BY <2>4 DEF RecordFailedStep, PostStep, Finish, StopWith
  <2>5. CASE ParseResponse \/ RecoverParse \/ GiveUpParse \/ PlanTurn
    BY <2>5 DEF ParseResponse, RecoverParse, GiveUpParse, PlanTurn, Yield
  <2>6. CASE JudgeDone \/ AcceptDone
    BY <2>6 DEF JudgeDone, AcceptDone, Yield
  <2>7. CASE HookRaises
    BY <2>7 DEF HookRaises, RaisePoints
  <2> QED
    BY <2>1, <2>2, <2>3, <2>4, <2>5, <2>6, <2>7 DEF Shared
<1>4. pc' = "yield_unparsed" => stepNum' = Last'
  <2>1. CASE GiveUpParse
    <3>1. stepNum = Len(steps) + 1 + offset
      BY <2>1 DEF GiveUpParse, TurnInv, DataInv, Position, Deciding
    <3>2. steps' = Append(steps, StepRecord(stepNum, "parse_error", FALSE))
          /\ UNCHANGED <<stepNum, offset>>
      BY <2>1 DEF GiveUpParse, Yield, turnVars, fixedVars
    <3>3. steps \in Seq(Step) /\ Len(steps) \in Nat /\ offset \in Nat
      BY DEF TurnInv, DataInv, DataType
    <3>4. Len(steps') = Len(steps) + 1
      BY <3>2, <3>3
    <3> QED
      BY <3>1, <3>2, <3>3, <3>4 DEF Last
  <2>2. CASE ~GiveUpParse
    <3>1. CASE Start \/ LoopHead \/ RequestModel \/ ModelReturns \/ ModelAnswered
      BY <3>1 DEF Start, LoopHead, RequestModel, ModelReturns, CallReturned, ModelAnswered,
                  HookDecides, Yield, DeadlineStop, StopWith
    <3>2. CASE RecordFailedStep \/ ParseResponse \/ RecoverParse \/ PlanTurn \/ JudgeDone
      BY <3>2 DEF RecordFailedStep, ParseResponse, RecoverParse, PlanTurn, JudgeDone, Yield,
                  StopWith
    <3>3. CASE AcceptDone \/ PostStep \/ Finish \/ HookRaises
      BY <3>3 DEF AcceptDone, PostStep, Finish, HookRaises, StopWith
    <3> QED
      BY <2>2, <3>1, <3>2, <3>3 DEF Shared
  <2> QED
    BY <2>1, <2>2
<1> QED
  BY <1>1, <1>2, <1>3, <1>4, MovesOn

(* The actions that only move the loop forward, or out of it. *)
Forward ==
  \/ AsyncPrompt \/ AsyncRecoverOverflow \/ AnnounceDone \/ AsyncFinalize
  \/ LeaveLoop \/ AsyncCloseStream \/ DrainEnds \/ LoopEndCleanup \/ PersistHarness
  \/ CancelAtAwait

(* So do those that only move the turn forward. *)
LEMMA ForwardMoves ==
  ASSUME TurnInv, Forward
  PROVE  TurnInv'
<1> DEFINE Moved ==
      /\ UNCHANGED dataVars /\ UNCHANGED storeVars /\ UNCHANGED threadVars
      /\ pc' \in Deciding => pc \in Deciding
      /\ pc' \notin Dispatching \cup Completing \cup {"accepted"} \cup YieldPoints
      /\ pc \notin ToolPoints
      /\ pc' \notin ToolPoints \cup {"saving", "yield_tool", "after_step"}
<1> USE DEF dataVars, turnVars, fixedVars, threadVars, storeVars, toolVars, Deciding, Dispatching,
            Running, Completing, YieldPoints, ToolPoints, Aside, asyncVars
<1>1. Moved
  <2>1. CASE AsyncPrompt
    BY <2>1 DEF AsyncPrompt, HookDecides, DeadlineStop, StopWith
  <2>2. CASE AsyncRecoverOverflow
    BY <2>2 DEF AsyncRecoverOverflow
  <2>3. CASE AnnounceDone
    BY <2>3 DEF AnnounceDone, StopWith
  <2>4. CASE AsyncFinalize
    BY <2>4 DEF AsyncFinalize
  <2>5. CASE LeaveLoop \/ AsyncCloseStream
    BY <2>5 DEF LeaveLoop, AsyncCloseStream, Leave, CancelPending
  <2>6. CASE DrainEnds \/ LoopEndCleanup \/ PersistHarness
    BY <2>6 DEF DrainEnds, LoopEndCleanup, PersistHarness
  <2>7. CASE CancelAtAwait
    BY <2>7 DEF CancelAtAwait, AwaitPoints
  <2> QED
    BY <2>1, <2>2, <2>3, <2>4, <2>5, <2>6, <2>7 DEF Forward
<1>2. DataInv'
  BY <1>1, QuietStep DEF TurnInv
<1> QED
  BY <1>1, <1>2, MovesOn

(* The loop stops at its head with the flag of post_dispatch set. *)
LEMMA HeadMoves ==
  ASSUME TurnInv, AsyncLoopHead
  PROVE  TurnInv'
<1>1. CASE LoopHead /\ Aside
  BY <1>1, SharedMoves DEF Shared
<1>2. CASE /\ pc = "top" /\ pc' = "finish" /\ calls' = <<>> /\ at' = 0
           /\ UNCHANGED <<stepNum, batch, running, effects, config, offset, budgetOffset, steps>>
           /\ Aside
  <2>1. DataType'
    BY <1>2, EmptySeq DEF TurnInv, DataInv, DataType
  <2>2. StepsNumbered' /\ BudgetRespected'
    BY <1>2 DEF TurnInv, DataInv, StepsNumbered, BudgetRespected
  <2>3. Position' /\ GroupInv'
    BY <1>2 DEF Position, GroupInv, Deciding, Dispatching, Running, Completing, YieldPoints
  <2> QED
    BY <1>2, <2>1, <2>2, <2>3, MovesOn DEF DataInv, ToolPoints, Aside, asyncVars, threadVars
<1> QED
  BY <1>1, <1>2 DEF AsyncLoopHead, toolVars, fixedVars

(* A write begins. *)
LEMMA WriteBegins ==
  ASSUME TurnInv, UNCHANGED dataVars, UNCHANGED threadVars, pc \notin ToolPoints,
         NEW kind, NEW n, NEW next, Persist(kind, n, next),
         \/ /\ next = "execute_done" /\ kind = "pending" /\ n = Last + 1
            /\ InTurn /\ at = RegularCount(calls) /\ TerminalIndex(calls) # 0
         \/ /\ next = "after_step" /\ kind \in {"step", "done"} /\ n = Last /\ steps # <<>>
            /\ InTurn /\ Len(batch) = IF config.concurrent THEN RegularCount(calls) - at ELSE 0
         \/ /\ next \in {"post_step", "top", "done_saved"}
            /\ kind \in {"step", "done"} /\ n = Last /\ steps # <<>>
  PROVE  TurnInv'
<1>1. pc' = "saving" /\ write'.kind = kind /\ write'.n = n /\ write'.next = next
  BY DEF Persist
<1>2. DataInv'
  BY <1>1, QuietStep
  DEF TurnInv, Deciding, Dispatching, Running, Completing, YieldPoints
<1>3. Last' = Last /\ (InTurn' <=> InTurn)
      /\ UNCHANGED <<steps, calls, at, batch, config>>
  BY DEF Last, InTurn, dataVars, turnVars, fixedVars
<1>4. WritingDone' \/ WritingToolStep' \/ WritingLastStep'
  BY <1>1, <1>3 DEF WritingDone, WritingToolStep, WritingLastStep, WritingStep
<1>5. SerialGroup' /\ Bodies' /\ Unparsed'
  BY <1>1 DEF TurnInv, SerialGroup, Bodies, Unparsed, ToolPoints, threadVars
<1> QED
  BY <1>2, <1>4, <1>5 DEF TurnInv, Writing

(* The step of a call, and the last step of the turn. *)
Records ==
  \/ AsyncRecordUnparsedStep \/ AsyncRecordToolStep \/ AsyncRecordJudgedStep
  \/ AsyncRecordAcceptedStep

(* So does the start of a write for a recorded step. *)
LEMMA RecordsWrite ==
  ASSUME TurnInv, Records
  PROVE  TurnInv'
<1>1. UNCHANGED dataVars /\ UNCHANGED threadVars /\ pc \notin ToolPoints
  BY DEF Records, AsyncRecordUnparsedStep, AsyncRecordToolStep, AsyncRecordJudgedStep,
         AsyncRecordAcceptedStep, dataVars, toolVars, ToolPoints
<1>2. pc \in YieldPoints \cup {"accepted"} => LastStep.n = Last /\ steps # <<>>
  BY TurnNumbers DEF TurnInv, DataInv, Position
<1>3. CASE AsyncRecordUnparsedStep
  <2>1. pc = "yield_unparsed"
    BY <1>3 DEF AsyncRecordUnparsedStep
  <2>2. stepNum = Last
    BY <2>1 DEF TurnInv, Unparsed
  <2> QED
    BY <1>1, <1>2, <1>3, <2>1, <2>2, WriteBegins DEF AsyncRecordUnparsedStep, YieldPoints
<1>4. CASE AsyncRecordToolStep
  <2>1. pc = "yield_tool"
    BY <1>4 DEF AsyncRecordToolStep
  <2>2. InTurn /\ Len(batch) = IF config.concurrent THEN RegularCount(calls) - at ELSE 0
    BY <2>1 DEF TurnInv, DataInv, Position, GroupInv, SerialGroup, InTurn, Dispatching
  <2>3. LastStep.n = Last /\ steps # <<>>
    BY <1>2, <2>1 DEF YieldPoints
  <2>4. Persist("step", LastStep.n, "after_step")
    BY <1>4 DEF AsyncRecordToolStep
  <2> QED
    BY <1>1, <2>2, <2>3, <2>4, WriteBegins
<1>5. CASE AsyncRecordJudgedStep
  <2>1. LastStep.n = Last /\ steps # <<>>
    BY <1>2, <1>5 DEF AsyncRecordJudgedStep, YieldPoints
  <2>2. PICK next \in {"post_step", "top"} : Persist("step", LastStep.n, next)
    BY <1>5 DEF AsyncRecordJudgedStep, AfterTurn
  <2> QED
    BY <1>1, <2>1, <2>2, WriteBegins
<1>6. CASE AsyncRecordAcceptedStep
  <2>1. LastStep.n = Last /\ steps # <<>>
    BY <1>2, <1>6 DEF AsyncRecordAcceptedStep
  <2>2. Persist("done", LastStep.n, "done_saved")
    BY <1>6 DEF AsyncRecordAcceptedStep
  <2> QED
    BY <1>1, <2>1, <2>2, WriteBegins
<1> QED
  BY <1>3, <1>4, <1>5, <1>6 DEF Records

(* A group is decided on; when a call of it is to run its record is written. *)
LEMMA InterceptWrites ==
  ASSUME TurnInv, AsyncIntercept
  PROVE  TurnInv'
<1>1. /\ pc = "intercept" /\ UNCHANGED threadVars
      /\ UNCHANGED <<steps, stepNum, calls, at, effects, offset, budgetOffset, config>>
  BY DEF AsyncIntercept, fixedVars
<1>2. DataInv
  BY DEF TurnInv
<1>3. PICK started \in SUBSET (1..GroupSize) :
        /\ batch' = [i \in 1..GroupSize |-> [ran |-> i \in started, ok |-> FALSE]]
        /\ running' = started
        /\ IF started = {} THEN pc' = "collect" ELSE Persist("pending", GroupStep, "execute")
  BY DEF AsyncIntercept
<1>4. /\ GroupSize \in Nat \ {0}
      /\ GroupSize = IF config.concurrent THEN RegularCount(calls) - at ELSE 1
      /\ GroupStep = Len(steps) + offset + GroupSize
      /\ batch' \in Seq([ran : BOOLEAN, ok : BOOLEAN]) /\ Len(batch') = GroupSize
      /\ running' \in SUBSET Nat /\ running' \subseteq 1..Len(batch')
  BY <1>1, <1>2, <1>3, GroupFacts
<1>5. InTurn /\ at < RegularCount(calls)
  BY <1>1, <1>2 DEF DataInv, Position, InTurn, Dispatching, Running
<1>6. pc' \in {"collect", "saving"}
  BY <1>3 DEF Persist
<1>7. DataInv'
  <2>1. DataType'
    BY <1>1, <1>2, <1>4 DEF DataInv, DataType
  <2>2. StepsNumbered' /\ BudgetRespected'
    BY <1>1, <1>2 DEF DataInv, StepsNumbered, BudgetRespected
  <2>3. Position'
    BY <1>1, <1>5, <1>6
    DEF Position, InTurn, Deciding, Dispatching, Running, Completing, YieldPoints
  <2>4. GroupInv'
    BY <1>1, <1>4, <1>6 DEF GroupInv
  <2> QED
    BY <2>1, <2>2, <2>3, <2>4 DEF DataInv
<1>8. SerialGroup' /\ Bodies' /\ Unparsed'
  BY <1>1, <1>6 DEF TurnInv, SerialGroup, Bodies, Unparsed, ToolPoints, threadVars
<1>9. Writing'
  <2>1. CASE pc' = "saving"
    <3>1. /\ write'.next = "execute" /\ write'.kind = "pending" /\ write'.n = GroupStep
      BY <1>3, <2>1 DEF Persist
    <3>2. GroupStep = Last' + Len(batch')
      BY <1>1, <1>2, <1>4 DEF Last, DataInv, DataType
    <3>3. InTurn' /\ (at < RegularCount(calls))'
      BY <1>1, <1>5 DEF InTurn
    <3>4. Len(batch') = IF config'.concurrent THEN RegularCount(calls') - at' ELSE 1
      BY <1>1, <1>4
    <3>5. WritingGroup'
      BY <3>1, <3>2, <3>3, <3>4, <1>4 DEF WritingGroup
    <3> QED
      BY <3>5 DEF Writing
  <2>2. CASE pc' = "collect"
    BY <2>2 DEF Writing
  <2> QED
    BY <1>6, <2>1, <2>2
<1> QED
  BY <1>7, <1>8, <1>9 DEF TurnInv

(* The next result of the group is handed to the hooks and the consumer. *)
LEMMA CollectMoves ==
  ASSUME TurnInv, AsyncCollectResult
  PROVE  /\ TurnInv' /\ Last' = Last + 1
         /\ Len(batch) \in Nat \ {0} /\ Len(batch') = Len(batch) - 1
<1>1. /\ pc = "collect" /\ pc' = "yield_tool" /\ UNCHANGED threadVars
      /\ UNCHANGED <<stepNum, calls, running, effects, offset, budgetOffset, config>>
      /\ at' = at + 1 /\ batch' = Tail(batch)
      /\ steps' = Append(steps, StepRecord(stepNum + at, "tool",
                    calls[at + 1] = "free" /\ Head(batch).ran /\ Head(batch).ok))
  BY DEF AsyncCollectResult, toolVars, fixedVars
<1>2. DataInv
  BY DEF TurnInv
<1>3. /\ DataInv' /\ Len(steps') = Len(steps) + 1
      /\ Len(batch) \in Nat \ {0} /\ Len(batch') = Len(batch) - 1
      /\ ~config.concurrent => Len(batch) = 1
  BY <1>1, <1>2, CollectData
<1>4. SerialGroup'
  BY <1>1, <1>3 DEF SerialGroup
<1>5. Writing' /\ Bodies' /\ Unparsed'
  BY <1>1 DEF TurnInv, Writing, Bodies, Unparsed, ToolPoints, threadVars
<1>6. Last' = Last + 1
  BY <1>1, <1>2, <1>3 DEF Last, DataInv, DataType
<1> QED
  BY <1>3, <1>4, <1>5, <1>6 DEF TurnInv

(* On to the next result or call, or past them. *)
LEMMA AfterToolMoves ==
  ASSUME TurnInv, AsyncAfterToolStep
  PROVE  TurnInv'
<1>1. /\ pc = "after_step" /\ UNCHANGED dataVars /\ UNCHANGED threadVars
      /\ pc' \in {"collect", "dispatched", "intercept", "finish"}
  BY DEF AsyncAfterToolStep, AsyncNextCall, DeadlineStop, StopWith, dataVars, toolVars, Aside,
         asyncVars, threadVars
<1>2. /\ pc' = "collect" => config.concurrent /\ batch # <<>>
      /\ pc' = "intercept" => ~config.concurrent /\ MoreCalls
      /\ pc' = "dispatched" => \/ config.concurrent /\ batch = <<>>
                               \/ ~config.concurrent /\ ~MoreCalls
  BY DEF AsyncAfterToolStep, AsyncNextCall, DeadlineStop, StopWith
<1>3. DataInv'
  BY <1>1, <1>2, NextCallData DEF TurnInv
<1> QED
  BY <1>1, <1>3, MovesOn DEF ToolPoints

(* The terminal call, when there is one. *)
LEMMA AfterDispatchMoves ==
  ASSUME TurnInv, AsyncAfterDispatch
  PROVE  TurnInv'
<1>1. /\ pc = "dispatched" /\ UNCHANGED dataVars /\ UNCHANGED threadVars
      /\ pc' \in {"gate", "top", "post_step", "finish"}
      /\ pc' = "gate" => TerminalIndex(calls) # 0
  BY DEF AsyncAfterDispatch, AfterTurn, DeadlineStop, StopWith, dataVars, toolVars, Aside,
         asyncVars, threadVars
<1>2. DataInv'
  BY <1>1 DEF TurnInv, DataInv, DataType, StepsNumbered, BudgetRespected, Position, GroupInv,
              dataVars, turnVars, fixedVars, Deciding, Dispatching, Running, Completing,
              YieldPoints
<1> QED
  BY <1>1, <1>2, MovesOn DEF ToolPoints

(* The gate of the terminal call: blocked, it is recorded under the next   *)
(* number; admitted, it is announced under it.                             *)
LEMMA GateMoves ==
  ASSUME TurnInv, AsyncCheckDone
  PROVE  TurnInv'
<1>1. pc = "gate" /\ UNCHANGED threadVars
  BY DEF AsyncCheckDone
<1>2. CASE CheckDone
  <2>1. DataInv'
    BY <1>2, DataStep DEF TurnInv, Next, LoopStep
  <2>2. pc' \in {"unwind", "yield_blocked", "execute_done", "judge_done", "saving"}
    BY <1>2 DEF CheckDone, Yield
  <2>3. pc' # "execute_done" /\ pc' # "saving"
    BY <1>2 DEF AsyncCheckDone, CheckDone, Yield, Persist
  <2> QED
    BY <1>1, <2>1, <2>2, <2>3, MovesOn DEF ToolPoints
<1>3. CASE Persist("pending", DoneStep, "execute_done") /\ UNCHANGED steps
  <2>1. UNCHANGED dataVars
    BY <1>3 DEF AsyncCheckDone, dataVars, toolVars
  <2>2. InTurn /\ at = RegularCount(calls) /\ TerminalIndex(calls) # 0
    BY <1>1 DEF TurnInv, DataInv, Position, InTurn, Completing
  <2>3. DoneStep = Last + 1
    <3>1. RegularCount(calls) = TerminalIndex(calls) - 1 /\ TerminalIndex(calls) \in Nat
      BY <2>2, TerminalFacts DEF TurnInv, DataInv, DataType
    <3>2. Len(steps) \in Nat /\ stepNum \in Nat /\ offset \in Nat
      BY DEF TurnInv, DataInv, DataType
    <3> QED
      BY <2>2, <3>1, <3>2 DEF InTurn, DoneStep, Last
  <2> QED
    BY <1>1, <1>3, <2>1, <2>2, <2>3, WriteBegins DEF ToolPoints
<1> QED
  BY <1>2, <1>3 DEF AsyncCheckDone, CheckDone, toolVars

(* The write ends: the loop goes on where it was to go on, or leaves. *)
LEMMA WriteReturns ==
  ASSUME TurnInv, WriteEnds
  PROVE  TurnInv'
<1>1. /\ pc = "saving" /\ UNCHANGED dataVars /\ UNCHANGED threadVars
      /\ pc' \in {"cancelled", "unwind", write.next}
  BY DEF WriteEnds, dataVars, toolVars
<1>2. Last' = Last /\ (InTurn' <=> InTurn)
      /\ UNCHANGED <<steps, stepNum, calls, at, batch, running, config>>
  BY <1>1 DEF Last, InTurn, dataVars, turnVars, fixedVars
<1>3. DataType' /\ StepsNumbered' /\ BudgetRespected'
  BY <1>1 DEF TurnInv, DataInv, DataType, StepsNumbered, BudgetRespected, dataVars, turnVars,
              fixedVars
<1>4. DOMAIN begun = {}
  BY <1>1 DEF TurnInv, Bodies, ToolPoints
<1>5. CASE pc' \in {"cancelled", "unwind", "post_step", "top", "done_saved"}
  <2>1. Position' /\ GroupInv'
    BY <1>5 DEF Position, GroupInv, Deciding, Dispatching, Running, Completing, YieldPoints
  <2> QED
    BY <1>1, <1>3, <1>5, <2>1, MovesOn DEF DataInv, ToolPoints
<1>6. CASE WritingGroup /\ pc' = "execute"
  <2>1. Position'
    BY <1>2, <1>6
    DEF WritingGroup, InTurn, Position, Deciding, Dispatching, Running, Completing, YieldPoints
  <2>2. GroupInv'
    BY <1>2, <1>6 DEF WritingGroup, GroupInv
  <2>3. Writing' /\ SerialGroup' /\ Unparsed'
    BY <1>6 DEF Writing, SerialGroup, Unparsed
  <2>4. Bodies'
    BY <1>1, <1>4 DEF TurnInv, Bodies, threadVars
  <2> QED
    BY <1>3, <2>1, <2>2, <2>3, <2>4 DEF TurnInv, DataInv
<1>7. CASE WritingDone /\ pc' = "execute_done"
  <2>1. Position' /\ GroupInv'
    BY <1>2, <1>7
    DEF WritingDone, InTurn, Position, GroupInv, Deciding, Dispatching, Running, Completing,
        YieldPoints
  <2>2. Writing' /\ SerialGroup' /\ Unparsed'
    BY <1>7 DEF Writing, SerialGroup, Unparsed
  <2>3. Bodies'
    BY <1>1, <1>4 DEF TurnInv, Bodies, threadVars
  <2> QED
    BY <1>3, <2>1, <2>2, <2>3 DEF TurnInv, DataInv
<1>8. CASE WritingToolStep /\ pc' = "after_step"
  <2>1. Position' /\ GroupInv'
    BY <1>2, <1>8
    DEF WritingToolStep, WritingStep, InTurn, Position, GroupInv, Deciding, Dispatching, Running,
        Completing, YieldPoints
  <2>2. Writing' /\ SerialGroup' /\ Unparsed'
    BY <1>2, <1>8 DEF WritingToolStep, Writing, SerialGroup, Unparsed
  <2>3. Bodies'
    BY <1>1, <1>4, <1>8 DEF TurnInv, Bodies, ToolPoints, threadVars
  <2> QED
    BY <1>3, <2>1, <2>2, <2>3 DEF TurnInv, DataInv
<1>9. WritingGroup \/ WritingDone \/ WritingToolStep \/ WritingLastStep
  BY <1>1 DEF TurnInv, Writing
<1> QED
  BY <1>1, <1>5, <1>6, <1>7, <1>8, <1>9
  DEF WritingGroup, WritingDone, WritingToolStep, WritingLastStep

-----------------------------------------------------------------------------
(* The step numbers under which bodies are at work. *)
LEMMA BodyNumbers ==
  ASSUME TurnInv, pc \in ToolPoints
  PROVE  \A i \in Active : /\ StepOf(i) = Last + i /\ StepOf(i) \in Nat /\ i \in Nat \ {0}
                           /\ pc = "execute" => i <= Len(batch)
<1>1. Last \in Nat /\ Len(batch) \in Nat /\ stepNum + at = Last + 1
  BY TurnNumbers DEF TurnInv, ToolPoints, Dispatching, Running, Completing
<1>2. CASE pc = "execute"
  <2>1. Active = running /\ running \subseteq 1..Len(batch)
    BY <1>2 DEF Active, TurnInv, DataInv, GroupInv
  <2>2. stepNum \in Nat /\ at \in Nat
    BY DEF TurnInv, DataInv, DataType
  <2>3. ASSUME NEW i \in 1..Len(batch)
        PROVE  StepOf(i) = Last + i
    BY <1>1, <1>2, <2>2, <2>3 DEF StepOf
  <2> QED
    BY <1>1, <2>1, <2>3
<1>3. CASE pc = "execute_done"
  <2>1. Active = {1}
    BY <1>3 DEF Active
  <2>2. /\ RegularCount(calls) = TerminalIndex(calls) - 1 /\ TerminalIndex(calls) \in Nat
        /\ at = RegularCount(calls) /\ stepNum \in Nat
    BY <1>3, TerminalFacts DEF TurnInv, DataInv, DataType, Position, Completing
  <2>3. StepOf(1) = Last + 1
    BY <1>1, <1>3, <2>2 DEF StepOf, DoneStep
  <2> QED
    BY <1>1, <1>3, <2>1, <2>3
<1> QED
  BY <1>2, <1>3 DEF ToolPoints

(* The steps whose bodies are at work, on the loop or in a thread. *)
AtWork == {StepOf(i) : i \in DOMAIN begun}

(* The bodies at work have step numbers; coroutines and threads are among  *)
(* them.                                                                   *)
LEMMA AtWorkNumbers ==
  ASSUME TurnInv
  PROVE  /\ AtWork \in SUBSET Nat
         /\ Coroutines \subseteq AtWork
         /\ pc \in ToolPoints => Working("thread") \subseteq AtWork
<1>1. CASE pc \in ToolPoints
  <2>1. DOMAIN begun \subseteq Active
    BY <1>1 DEF TurnInv, Bodies
  <2> QED
    BY <1>1, <2>1, BodyNumbers DEF AtWork, Coroutines, Working
<1>2. CASE pc \notin ToolPoints
  BY <1>2 DEF TurnInv, Bodies, AtWork, Coroutines
<1> QED
  BY <1>1, <1>2

(* A body begins. *)
LEMMA ToolBegins ==
  ASSUME TurnInv, BeginTool
  PROVE  TurnInv'
<1>1. UNCHANGED dataVars /\ UNCHANGED <<pc, write, orphans>> /\ pc \in ToolPoints
  BY DEF BeginTool, vars, dataVars, turnVars, fixedVars
<1>2. DOMAIN begun' \subseteq Active
  <2>1. PICK i \in Active \ DOMAIN begun, how \in {"thread", "coroutine"} :
          begun' = [j \in DOMAIN begun \cup {i} |-> IF j = i THEN how ELSE begun[j]]
    BY DEF BeginTool
  <2>2. DOMAIN begun' = DOMAIN begun \cup {i}
    BY <2>1
  <2> QED
    BY <1>1, <2>1, <2>2 DEF TurnInv, Bodies
<1>3. DataInv'
  BY <1>1, QuietStep DEF TurnInv
<1>4. Bodies'
  BY <1>1, <1>2 DEF TurnInv, Bodies, Active, dataVars, turnVars
<1>5. Writing' /\ SerialGroup' /\ Unparsed'
  BY <1>1 DEF TurnInv, Writing, SerialGroup, Unparsed, ToolPoints
<1> QED
  BY <1>3, <1>4, <1>5 DEF TurnInv

(* Its result comes, or it is refused. *)
LEMMA ResultMoves ==
  ASSUME TurnInv, pc \in ToolPoints, NEW i \in Active, NEW ok \in BOOLEAN, Result(i, ok),
         UNCHANGED <<steps, stepNum, calls, at, fixedVars, write>>,
         effects' \in SUBSET Nat, orphans' \in SUBSET Nat
  PROVE  /\ TurnInv' /\ pc' \in {"execute", "collect", "judge_done"}
         /\ Len(batch') = Len(batch)
         /\ DOMAIN begun' = DOMAIN begun \ {i}
         /\ pc' = "execute" => pc = "execute"
         /\ pc' = "collect" => pc = "execute" /\ DOMAIN begun' = {}
         /\ pc' = "judge_done" => pc = "execute_done" /\ DOMAIN begun' = {}
<1>1. DOMAIN begun' = DOMAIN begun \ {i} /\ DOMAIN begun \subseteq Active
  BY DEF Result, TurnInv, Bodies
<1>2. CASE pc = "execute"
  <2>1. /\ batch' = [batch EXCEPT ![i].ok = ok] /\ running' = running \ {i}
        /\ pc' = (IF running' = {} THEN "collect" ELSE "execute")
        /\ Active = running
    BY <1>2 DEF Result, Active
  <2>2. UNCHANGED <<steps, stepNum, calls, at, offset, budgetOffset, config>>
    BY DEF fixedVars
  <2>3. DataInv' /\ Len(batch') = Len(batch)
    BY <1>2, <2>1, <2>2, ResultData DEF TurnInv
  <2>4. Bodies' /\ (pc' = "collect" => DOMAIN begun' = {})
    BY <1>1, <2>1 DEF Bodies, Active, ToolPoints
  <2>5. Writing' /\ SerialGroup' /\ Unparsed'
    BY <2>1 DEF Writing, SerialGroup, Unparsed
  <2> QED
    BY <1>1, <1>2, <2>1, <2>3, <2>4, <2>5 DEF TurnInv
<1>3. CASE pc = "execute_done"
  <2>1. pc' = "judge_done" /\ UNCHANGED <<batch, running>> /\ Active = {1}
    BY <1>3 DEF Result, Active
  <2>2. DOMAIN begun' = {}
    BY <1>1, <2>1
  <2>3. DataInv'
    BY <1>3, <2>1 DEF TurnInv, DataInv, DataType, StepsNumbered, BudgetRespected, Position,
                      GroupInv, fixedVars, Deciding, Dispatching, Running, Completing,
                      YieldPoints
  <2>4. Writing' /\ SerialGroup' /\ Unparsed' /\ Bodies'
    BY <2>1, <2>2 DEF Writing, SerialGroup, Unparsed, Bodies, ToolPoints
  <2> QED
    BY <1>1, <1>3, <2>1, <2>2, <2>3, <2>4 DEF TurnInv
<1> QED
  BY <1>2, <1>3 DEF ToolPoints

(* Bodies that are at work end, are refused, or are left behind. *)
LEMMA ToolsMove ==
  ASSUME TurnInv, RefuseTool \/ ToolEnds \/ OrphanEnds \/ CancelAtTools
  PROVE  TurnInv'
<1>1. effects \in SUBSET Nat /\ orphans \in SUBSET Nat
  BY DEF TurnInv, DataInv, DataType, Bodies
<1>2. CASE RefuseTool
  <2>1. PICK i \in Active \ DOMAIN begun : Result(i, FALSE)
    BY <1>2 DEF RefuseTool
  <2>2. /\ pc \in ToolPoints /\ effects' = effects /\ orphans' = orphans
        /\ UNCHANGED <<steps, stepNum, calls, at, fixedVars, write>>
    BY <1>2 DEF RefuseTool, toolVars
  <2> QED
    BY <1>1, <2>1, <2>2, ResultMoves
<1>3. CASE ToolEnds
  <2>1. PICK i \in DOMAIN begun, ok \in BOOLEAN :
          /\ Result(i, ok)
          /\ effects' \in {effects, effects \cup {StepOf(i)}}
          /\ orphans' \in {orphans, orphans \cup {StepOf(i)}}
    BY <1>3 DEF ToolEnds
  <2>2. pc \in ToolPoints /\ UNCHANGED <<steps, stepNum, calls, at, fixedVars, write>>
    BY <1>3 DEF ToolEnds
  <2>3. i \in Active /\ StepOf(i) \in Nat
    BY <2>2, BodyNumbers DEF TurnInv, Bodies
  <2> QED
    BY <1>1, <2>1, <2>2, <2>3, ResultMoves
<1>4. CASE OrphanEnds
  <2>1. /\ effects' \in SUBSET Nat /\ orphans' \in SUBSET Nat
        /\ UNCHANGED <<pc, write, begun, steps, turnVars, fixedVars>>
    BY <1>1, <1>4 DEF OrphanEnds
  <2>2. DataInv'
    BY <2>1 DEF TurnInv, DataInv, DataType, StepsNumbered, BudgetRespected, Position, GroupInv,
                turnVars, fixedVars
  <2>3. Last' = Last
    BY <2>1 DEF Last, fixedVars
  <2>4. Writing'
    BY <2>1, <2>3 DEF TurnInv, Writing, WritingGroup, WritingDone, WritingToolStep,
         WritingLastStep, WritingStep, InTurn, turnVars, fixedVars
  <2>5. SerialGroup' /\ Bodies' /\ Unparsed'
    BY <2>1, <2>3 DEF TurnInv, SerialGroup, Bodies, Active, Unparsed, turnVars, fixedVars
  <2> QED
    BY <2>2, <2>4, <2>5 DEF TurnInv
<1>5. CASE CancelAtTools
  <2>1. /\ pc \in ToolPoints /\ pc' = "cancelled" /\ begun' = <<>> /\ running' = {}
        /\ orphans' = orphans \cup Working("thread")
        /\ UNCHANGED <<steps, stepNum, calls, at, batch, fixedVars>>
    BY <1>5 DEF CancelAtTools
  <2>2. PICK late_effects \in SUBSET Coroutines : effects' = effects \cup late_effects
    BY <1>5 DEF CancelAtTools
  <2>3. effects' \in SUBSET Nat /\ orphans' \in SUBSET Nat
    BY <1>1, <2>1, <2>2, AtWorkNumbers
  <2>4. DOMAIN begun' = {}
    BY <2>1
  <2>5. DataInv'
    BY <2>1, <2>3 DEF TurnInv, DataInv, DataType, StepsNumbered, BudgetRespected, Position,
                      GroupInv, fixedVars, Deciding, Dispatching, Running, Completing,
                      YieldPoints
  <2>6. Writing' /\ SerialGroup' /\ Bodies' /\ Unparsed'
    BY <2>1, <2>3, <2>4 DEF Writing, SerialGroup, Bodies, Unparsed
  <2> QED
    BY <2>5, <2>6 DEF TurnInv
<1> QED
  BY <1>2, <1>3, <1>4, <1>5

(* Requests, the host, and the cancellations that are held back. *)
LEMMA OthersMove ==
  ASSUME TurnInv,
         \/ MakeRequest \/ RequestStep \/ AsyncHostStep \/ CancelHeldBack \/ CancelDropped
         \/ UNCHANGED allVars
  PROVE  TurnInv'
<1>1. CASE HookRaises /\ Aside
  BY <1>1, SharedMoves DEF Shared
<1>2. CASE (CancelRun \/ DeadlinePasses) /\ Aside
  BY <1>2, LoopWaits DEF CancelRun, DeadlinePasses, Aside, asyncVars, threadVars, dataVars,
                         toolVars
<1>3. CASE MakeRequest \/ RequestStep
  BY <1>3, LoopWaits DEF MakeRequest, RequestStep, GenerateReturns, ResolveRequest,
     SettleRequest, RequestMoves, vars, dataVars, turnVars, fixedVars
<1>4. CASE CancelHeldBack \/ CancelDropped \/ UNCHANGED allVars
  BY <1>4, LoopWaits DEF CancelHeldBack, CancelDropped, allVars, asyncVars, threadVars, vars,
                         dataVars, turnVars, fixedVars
<1> QED
  BY <1>1, <1>2, <1>3, <1>4 DEF AsyncHostStep

(* Every step keeps the invariant of the turn. *)
LEMMA TurnStep ==
  ASSUME TurnInv, [AsyncNext]_allVars
  PROVE  TurnInv'
<1>1. CASE AsyncLoopStep
  <2>1. CASE Shared /\ Aside
    BY <2>1, SharedMoves
  <2>2. CASE Forward
    BY <2>2, ForwardMoves
  <2>3. CASE Records
    BY <2>3, RecordsWrite
  <2>4. CASE AsyncLoopHead \/ AsyncIntercept \/ AsyncCollectResult \/ AsyncAfterToolStep
    BY <2>4, HeadMoves, InterceptWrites, CollectMoves, AfterToolMoves
  <2>5. CASE AsyncAfterDispatch \/ AsyncCheckDone \/ WriteEnds
    BY <2>5, AfterDispatchMoves, GateMoves, WriteReturns
  <2>6. \/ (Shared /\ Aside) \/ Forward \/ Records \/ AsyncLoopHead \/ AsyncIntercept
        \/ AsyncCollectResult \/ AsyncAfterToolStep \/ AsyncAfterDispatch \/ AsyncCheckDone
        \/ WriteEnds
    BY <1>1 DEF AsyncLoopStep, Shared, Forward, Records, AsyncStart, AsyncRequestModel,
       AsyncModelReturns, AsyncModelAnswered, AsyncRecordFailedStep, AsyncParseResponse,
       AsyncRecoverParse, AsyncGiveUpParse, AsyncPlanTurn, AsyncJudgeDone, AsyncAcceptDone,
       AsyncPostStep, AsyncFinish
  <2> QED
    BY <2>1, <2>2, <2>3, <2>4, <2>5, <2>6
<1>2. CASE AsyncCloseStream \/ CancelAtAwait
  BY <1>2, ForwardMoves DEF Forward
<1>3. CASE ToolStep \/ OrphanEnds \/ CancelAtTools
  BY <1>3, ToolBegins, ToolsMove DEF ToolStep
<1>4. CASE \/ MakeRequest \/ RequestStep \/ AsyncHostStep \/ CancelHeldBack \/ CancelDropped
           \/ UNCHANGED allVars
  BY <1>4, OthersMove
<1> QED
  BY <1>1, <1>2, <1>3, <1>4 DEF AsyncNext, CancelTask, AsyncEnded

(* Where a turn stands in its group and in the step list, at every await   *)
(* and while a worker thread writes a document.                            *)
THEOREM TurnInvariant == AsyncSpec => []TurnInv
<1>1. TurnInv /\ [AsyncNext]_allVars => TurnInv'
  BY TurnStep
<1> QED
  BY TurnInit, <1>1, PTL DEF AsyncSpec

(* The asynchronous loop charges no more steps than max_steps either,      *)
(* wherever its task is cancelled.                                         *)
THEOREM AsyncBudgetSafe == AsyncSpec => []BudgetRespected
<1>1. TurnInv => BudgetRespected
  BY DEF TurnInv, DataInv
<1> QED
  BY <1>1, TurnInvariant, PTL

(* Its steps are numbered without gap or repetition.                       *)
THEOREM AsyncNumberingSafe == AsyncSpec => []StepsNumbered
<1>1. TurnInv => StepsNumbered
  BY DEF TurnInv, DataInv
<1> QED
  BY <1>1, TurnInvariant, PTL

-----------------------------------------------------------------------------
(***************************************************************************)
(* The checkpoint files and the effects they have to answer for.  A step   *)
(* number is in doubt once its body has begun: the effect may have         *)
(* happened, may be about to, or a thread that nobody waits for may still  *)
(* bring it about.                                                         *)
(***************************************************************************)
Doubted == effects \cup orphans \cup AtWork

AllKnown == \A n \in Doubted : Recorded(n)

(* A resume is refused for whatever is in doubt and not recorded. *)
Covered ==
  \A n \in Doubted :
    \/ Recorded(n)
    \/ \E key \in DOMAIN saved : IsNewest(key) /\ key[1] = "pending" /\ n <= key[2]

(* The points past the loop, where no document is written any more. *)
Leaving == {"unwind", "cancelled", "returning"} \cup ClosedPoints

(* The rest of the loop, by what the turn still has to record: nothing,    *)
(* the calls of a group, the call just collected as well, the terminal     *)
(* call, or the last step of the turn.                                     *)
SettledPoints ==
  {"start", "top", "prompt", "request", "await", "answered", "yield_failed", "parse",
   "unparsed", "yield_unparsed", "plan", "intercept", "dispatched", "gate",
   "yield_blocked", "post_step", "finish", "finalize", "done_saved"}
AtSettled == pc \in SettledPoints \/ (pc = "saving" /\ write.kind = "pending")
AtGroup == pc \in {"execute", "collect", "after_step"}
AtGroupStep == pc = "yield_tool" \/ (pc = "saving" /\ write.next = "after_step")
AtDone == pc \in {"execute_done", "judge_done"}

(* The step numbers that may be in doubt lie between these two, and no     *)
(* document is beyond the second.                                          *)
Low == IF AtGroup \/ AtDone THEN Last + 1 ELSE Last
High == Last + (IF AtGroup \/ AtGroupStep THEN Len(batch) ELSE IF AtDone THEN 1 ELSE 0)

Bounded ==
  pc \notin Leaving =>
    /\ \A key \in DOMAIN saved : key[2] <= High
    /\ \A n \in Doubted : Recorded(n) \/ (Low <= n /\ n <= High)
    /\ AtSettled => AllKnown

(* Bodies begin after the pending record of their group or call. *)
Announced == pc \in ToolPoints => PendingTop(High)

DoubtInv == StoreInv /\ Covered /\ Bounded /\ Announced

(* The bounds are numbers, not below the last recorded step. *)
LEMMA BoundNumbers ==
  ASSUME TurnInv
  PROVE  /\ Low \in Nat /\ High \in Nat /\ Last \in Nat /\ Len(batch) \in Nat
         /\ Doubted \in SUBSET Nat
         /\ Last <= Low /\ Last <= High
<1>1. Last \in Nat /\ Len(batch) \in Nat
  BY TurnNumbers DEF TurnInv
<1>2. Doubted \in SUBSET Nat
  BY AtWorkNumbers DEF TurnInv, DataInv, DataType, Bodies, Doubted
<1> QED
  BY <1>1, <1>2 DEF Low, High

(* The same after a step. *)
LEMMA NextBounds ==
  ASSUME TurnInv'
  PROVE  /\ Low' \in Nat /\ High' \in Nat /\ Last' \in Nat /\ Len(batch') \in Nat
         /\ Last' <= Low' /\ Last' <= High'
<1>1. Len(steps') \in Nat /\ offset' \in Nat /\ Len(batch') \in Nat
  BY DEF TurnInv, DataInv, DataType
<1>2. Last' \in Nat
  BY <1>1 DEF Last
<1>3. Low' \in {Last', Last' + 1} /\ High' \in {Last' + Len(batch'), Last' + 1, Last' + 0}
  BY DEF Low, High
<1>4. ASSUME NEW a \in Nat, NEW b \in Nat,
             NEW l \in {a, a + 1}, NEW h \in {a + b, a + 1, a + 0}
      PROVE  l \in Nat /\ h \in Nat /\ a <= l /\ a <= h
  OBVIOUS
<1> QED
  BY <1>1, <1>2, <1>3, <1>4

LEMMA DoubtInit == AsyncInit => DoubtInv
<1> SUFFICES ASSUME AsyncInit PROVE DoubtInv
  OBVIOUS
<1>1. DataInv
  BY TurnInit DEF TurnInv
<1>2. /\ pc = "start" /\ DOMAIN saved = {} /\ effects = {} /\ orphans = {} /\ begun = <<>>
      /\ config \in Configs /\ clock = 0
  BY DEF AsyncInit, Init
<1>3. DOMAIN begun = {}
  BY <1>2
<1>4. Doubted = {}
  BY <1>2, <1>3 DEF Doubted, AtWork
<1>5. StoreInv
  BY <1>1, <1>2 DEF StoreInv, Filed, Keyed, Ordered, StoreType
<1> QED
  BY <1>2, <1>4, <1>5 DEF DoubtInv, Covered, Bounded, AllKnown, Announced, ToolPoints

(* Nothing is written and nothing new is in doubt: what was covered stays  *)
(* covered, and the bounds hold as long as they do not narrow.             *)
LEMMA DoubtKeeps ==
  ASSUME TurnInv, TurnInv', DoubtInv, UNCHANGED storeVars, config' = config,
         Doubted' \subseteq Doubted,
         \/ pc' \in Leaving
         \/ /\ pc \notin Leaving /\ High <= High'
            /\ AllKnown \/ (Low' <= Low /\ ~AtSettled'),
         pc' \in ToolPoints => pc \in ToolPoints /\ High' = High
  PROVE  DoubtInv'
<1>1. saved' = saved /\ clock' = clock
  BY DEF storeVars
<1>2. \A n : Recorded(n)' <=> Recorded(n)
  BY <1>1 DEF Recorded
<1>3. \A key : IsNewest(key)' <=> IsNewest(key)
  BY <1>1 DEF IsNewest
<1>4. StoreInv'
  <2>1. effects' \in SUBSET Nat
    BY DEF TurnInv, DataInv, DataType
  <2> QED
    BY <1>1, <1>3, <2>1 DEF DoubtInv, StoreInv, Filed, Keyed, Ordered, StoreType
<1>5. Covered'
  BY <1>1, <1>2, <1>3 DEF DoubtInv, Covered
<1>6. Bounded'
  <2> SUFFICES ASSUME pc' \notin Leaving PROVE Bounded'
    BY DEF Bounded
  <2>1. /\ Low \in Nat /\ High \in Nat /\ Low' \in Nat /\ High' \in Nat
        /\ Doubted \in SUBSET Nat
    BY BoundNumbers, NextBounds
  <2>2. \A key \in DOMAIN saved : key[2] <= High /\ key[2] \in Nat
    BY DEF DoubtInv, Bounded, StoreInv, Filed, StoreType, Keys
  <2>3. \A key \in DOMAIN saved' : key[2] <= High'
    <3>1. High <= High'
      OBVIOUS
    <3> QED
      BY <1>1, <2>1, <2>2, <3>1
  <2>4. CASE AllKnown
    <3>1. \A n \in Doubted' : Recorded(n)'
      BY <1>2, <2>4 DEF AllKnown
    <3> QED
      BY <2>3, <3>1 DEF Bounded, AllKnown
  <2>5. CASE Low' <= Low /\ ~AtSettled'
    <3>1. \A n \in Doubted' : n \in Nat /\ (Recorded(n) \/ (Low <= n /\ n <= High))
      BY <2>1 DEF DoubtInv, Bounded
    <3>2. High <= High' /\ Low' <= Low
      BY <2>5
    <3>3. ASSUME NEW n \in Doubted', Low <= n, n <= High
          PROVE  Low' <= n /\ n <= High'
      BY <2>1, <3>1, <3>2, <3>3
    <3>4. \A n \in Doubted' : Recorded(n)' \/ (Low' <= n /\ n <= High')
      BY <1>2, <3>1, <3>3
    <3> QED
      BY <2>3, <2>5, <3>4 DEF Bounded
  <2> QED
    BY <2>4, <2>5
<1>7. Announced'
  BY <1>3 DEF DoubtInv, Announced, PendingTop
<1> QED
  BY <1>4, <1>5, <1>6, <1>7 DEF DoubtInv

(* While no body is at work, only the effects and the threads left behind  *)
(* are in doubt.                                                           *)
LEMMA IdleDoubt ==
  ASSUME TurnInv, pc \notin ToolPoints, UNCHANGED <<effects, threadVars>>
  PROVE  Doubted' = Doubted
<1>1. DOMAIN begun = {}
  BY DEF TurnInv, Bodies
<1>2. begun' = begun /\ orphans' = orphans /\ effects' = effects
  BY DEF threadVars
<1>3. AtWork = {} /\ AtWork' = {}
  BY <1>1, <1>2 DEF AtWork
<1> QED
  BY <1>2, <1>3 DEF Doubted

(* From a point where all is recorded the loop goes anywhere but to tools. *)
LEMMA SettledMoves ==
  ASSUME TurnInv, TurnInv', DoubtInv, pc \in SettledPoints, pc' \notin ToolPoints,
         UNCHANGED <<storeVars, effects, threadVars, config>>,
         steps' = steps \/ (\E step \in Step : steps' = Append(steps, step)),
         offset' = offset
  PROVE  DoubtInv'
<1>1. pc \notin ToolPoints \cup Leaving /\ AtSettled
      /\ ~AtGroup /\ ~AtGroupStep /\ ~AtDone
  BY DEF SettledPoints, ToolPoints, Leaving, ClosedPoints, DrainedPoints, AtSettled, AtGroup,
         AtGroupStep, AtDone
<1>2. AllKnown
  BY <1>1 DEF DoubtInv, Bounded
<1>3. Doubted' = Doubted
  BY <1>1, IdleDoubt
<1>4. Last <= Last'
  <2>1. steps \in Seq(Step) /\ Len(steps) \in Nat /\ offset \in Nat
    BY DEF TurnInv, DataInv, DataType
  <2>2. Len(steps') \in {Len(steps), Len(steps) + 1}
    BY <2>1
  <2> QED
    BY <2>1, <2>2 DEF Last
<1>5. High <= High'
  <2>1. High = Last + 0
    BY <1>1 DEF High
  <2>2. Last \in Nat /\ Last' \in Nat /\ High' \in Nat /\ Last' <= High'
    BY BoundNumbers, NextBounds
  <2> QED
    BY <1>4, <2>1, <2>2
<1> QED
  BY <1>1, <1>2, <1>3, <1>5, DoubtKeeps

(* The loop waits while somebody else does something. *)
LEMMA WaitMoves ==
  ASSUME TurnInv, TurnInv', DoubtInv, UNCHANGED <<pc, write, storeVars, batch, config, steps, offset>>,
         Doubted' \subseteq Doubted
  PROVE  DoubtInv'
<1>1. Last' = Last
  BY DEF Last
<1>2. Low' = Low /\ High' = High /\ AtSettled' = AtSettled
  BY <1>1 DEF Low, High, AtGroup, AtGroupStep, AtDone, AtSettled
<1>3. High <= High' /\ Low' <= Low
  BY <1>2, BoundNumbers
<1>4. pc \notin Leaving => AllKnown \/ ~AtSettled'
  BY <1>2 DEF DoubtInv, Bounded
<1> QED
  BY <1>2, <1>3, <1>4, DoubtKeeps

(* The frame's cleanup and everything that leads to it. *)
LEMMA LeavingMoves ==
  ASSUME TurnInv, TurnInv', DoubtInv, pc' \in Leaving, UNCHANGED <<storeVars, config>>,
         Doubted' \subseteq Doubted
  PROVE  DoubtInv'
BY DoubtKeeps DEF Leaving, ClosedPoints, DrainedPoints, ToolPoints

(* The actions that neither run tools nor record their results. *)
Settled ==
  \/ AsyncStart \/ AsyncLoopHead \/ AsyncPrompt \/ AsyncRequestModel \/ AsyncModelReturns
  \/ AsyncRecoverOverflow \/ AsyncModelAnswered \/ AsyncRecordFailedStep
  \/ AsyncParseResponse \/ AsyncRecoverParse \/ AsyncGiveUpParse \/ AsyncRecordUnparsedStep
  \/ AsyncPlanTurn \/ AsyncIntercept \/ AsyncAfterDispatch \/ AsyncCheckDone
  \/ AnnounceDone \/ AsyncPostStep \/ AsyncFinish \/ AsyncFinalize

(* The steps between settled points: nothing is in doubt, before or after. *)
LEMMA SettledSteps ==
  ASSUME TurnInv, TurnInv', DoubtInv, Settled
  PROVE  DoubtInv'
<1> DEFINE Goes == /\ pc \in SettledPoints /\ pc' \notin ToolPoints
                   /\ UNCHANGED <<storeVars, effects, threadVars, config, offset>>
<1> USE DEF SettledPoints, ToolPoints, Aside, asyncVars, threadVars, toolVars, fixedVars
<1>1. CASE AsyncStart \/ AsyncLoopHead \/ AsyncRequestModel \/ AsyncModelReturns
  <2>1. Goes /\ steps' = steps
    BY <1>1 DEF AsyncStart, Start, AsyncLoopHead, LoopHead, AsyncRequestModel, RequestModel,
       AsyncModelReturns, ModelReturns, CallReturned, DeadlineStop, StopWith
  <2> QED
    BY <2>1, SettledMoves
<1>2. CASE AsyncPrompt \/ AsyncRecoverOverflow \/ AsyncRecordFailedStep
  <2>1. Goes /\ steps' = steps
    BY <1>2 DEF AsyncPrompt, AsyncRecoverOverflow, AsyncRecordFailedStep, RecordFailedStep,
       HookDecides, DeadlineStop, StopWith
  <2> QED
    BY <2>1, SettledMoves
<1>3. CASE AsyncParseResponse \/ AsyncRecoverParse \/ AsyncRecordUnparsedStep \/ AsyncPlanTurn
  <2>1. Goes /\ steps' = steps
    BY <1>3 DEF AsyncParseResponse, ParseResponse, AsyncRecoverParse, RecoverParse,
       AsyncRecordUnparsedStep, Persist, AsyncPlanTurn, PlanTurn
  <2> QED
    BY <2>1, SettledMoves
<1>4. CASE AsyncIntercept \/ AsyncAfterDispatch
  <2>1. Goes /\ steps' = steps
    BY <1>4 DEF AsyncIntercept, Persist, AsyncAfterDispatch, AfterTurn, DeadlineStop, StopWith
  <2> QED
    BY <2>1, SettledMoves
<1>5. CASE AnnounceDone \/ AsyncPostStep \/ AsyncFinish \/ AsyncFinalize
  <2>1. Goes /\ steps' = steps
    BY <1>5 DEF AnnounceDone, AsyncPostStep, PostStep, AsyncFinish, Finish, AsyncFinalize,
       StopWith
  <2> QED
    BY <2>1, SettledMoves
<1>6. ASSUME NEW n \in Nat, NEW kind \in {"llm_error", "parse_error", "blocked"}
      PROVE  StepRecord(n, kind, FALSE) \in Step
  BY DEF StepRecord, Step, StepKinds
<1>7. stepNum \in Nat
  BY DEF TurnInv, DataInv, DataType
<1>8. CASE AsyncModelAnswered
  <2>1. Goes /\ (steps' = steps \/ steps' = Append(steps, StepRecord(stepNum, "llm_error", FALSE)))
    BY <1>8 DEF AsyncModelAnswered, ModelAnswered, HookDecides, StopWith, Yield
  <2> QED
    BY <1>6, <1>7, <2>1, SettledMoves
<1>9. CASE AsyncGiveUpParse
  <2>1. Goes /\ steps' = Append(steps, StepRecord(stepNum, "parse_error", FALSE))
    BY <1>9 DEF AsyncGiveUpParse, GiveUpParse, Yield
  <2> QED
    BY <1>6, <1>7, <2>1, SettledMoves
<1>10. CASE AsyncCheckDone
  <2>1. Goes /\ (steps' = steps \/ steps' = Append(steps, StepRecord(DoneStep, "blocked", FALSE)))
    BY <1>10 DEF AsyncCheckDone, Yield, Persist
  <2>2. DoneStep \in Nat
    <3>1. RegularCount(calls) = TerminalIndex(calls) - 1 /\ TerminalIndex(calls) \in Nat \ {0}
      BY <1>10, TerminalFacts DEF AsyncCheckDone, TurnInv, DataInv, DataType, Position,
         Completing
    <3> QED
      BY <1>7, <3>1 DEF DoneStep
  <2> QED
    BY <1>6, <2>1, <2>2, SettledMoves
<1> QED
  BY <1>1, <1>2, <1>3, <1>4, <1>5, <1>8, <1>9, <1>10 DEF Settled

(* The loop records the calls of a group and the last step of a turn. *)
LEMMA TurnMoves ==
  ASSUME TurnInv, TurnInv', DoubtInv, pc \notin ToolPoints \cup Leaving, pc' \notin ToolPoints,
         UNCHANGED <<storeVars, effects, threadVars, config>>,
         High <= High', AllKnown \/ (Low' <= Low /\ ~AtSettled')
  PROVE  DoubtInv'
BY IdleDoubt, DoubtKeeps

(* The results of a group are collected, and their steps handed to the     *)
(* writer, one after the other.                                            *)
LEMMA GroupSteps ==
  ASSUME TurnInv, TurnInv', DoubtInv,
         AsyncCollectResult \/ AsyncRecordToolStep \/ AsyncAfterToolStep
  PROVE  DoubtInv'
<1> USE DEF ToolPoints, Leaving, ClosedPoints, DrainedPoints
<1>1. CASE AsyncCollectResult
  <2>1. /\ pc = "collect" /\ pc' = "yield_tool"
        /\ UNCHANGED <<storeVars, effects, threadVars, config>>
    BY <1>1 DEF AsyncCollectResult, toolVars, fixedVars
  <2>2. Last' = Last + 1 /\ Len(batch) \in Nat \ {0} /\ Len(batch') = Len(batch) - 1
    BY <1>1, CollectMoves
  <2>3. AtGroup /\ AtGroupStep' /\ ~AtGroup' /\ ~AtDone' /\ ~AtSettled'
    BY <2>1 DEF AtGroup, AtGroupStep, AtDone, AtSettled, SettledPoints
  <2>4. /\ Low = Last + 1 /\ High = Last + Len(batch)
        /\ Low' = Last' /\ High' = Last' + Len(batch')
    BY <2>3 DEF Low, High
  <2>5. ASSUME NEW last \in Nat, NEW last1, NEW size \in Nat \ {0}, NEW size1,
               last1 = last + 1, size1 = size - 1
        PROVE  last + size <= last1 + size1 /\ last1 <= last + 1
    BY <2>5
  <2>6. High <= High' /\ Low' <= Low
    BY <2>2, <2>4, <2>5, BoundNumbers
  <2> QED
    BY <2>1, <2>3, <2>6, TurnMoves
<1>2. CASE AsyncRecordToolStep
  <2>1. /\ pc = "yield_tool" /\ pc' = "saving"
        /\ write'.kind = "step" /\ write'.next = "after_step"
        /\ UNCHANGED <<storeVars, effects, threadVars, config, steps, offset, batch>>
    BY <1>2 DEF AsyncRecordToolStep, Persist, toolVars, fixedVars, turnVars
  <2>2. AtGroupStep /\ ~AtGroup /\ ~AtDone /\ AtGroupStep' /\ ~AtGroup' /\ ~AtDone' /\ ~AtSettled'
    BY <2>1 DEF AtGroup, AtGroupStep, AtDone, AtSettled, SettledPoints
  <2>3. Low' = Low /\ High' = High
    BY <2>1, <2>2 DEF Low, High, Last
  <2>4. High <= High' /\ Low' <= Low
    BY <2>3, BoundNumbers
  <2> QED
    BY <2>1, <2>2, <2>4, TurnMoves
<1>3. CASE AsyncAfterToolStep
  <2>1. /\ pc = "after_step"
        /\ UNCHANGED <<storeVars, effects, threadVars, config, steps, offset, batch>>
        /\ pc' \in {"collect", "dispatched", "intercept", "finish"}
        /\ pc' = "collect" \/ ~config.concurrent \/ batch = <<>>
    BY <1>3 DEF AsyncAfterToolStep, AsyncNextCall, DeadlineStop, StopWith, toolVars, fixedVars,
                turnVars, Aside, asyncVars, threadVars
  <2>2. AtGroup /\ Low = Last + 1 /\ High = Last + Len(batch) /\ Last' = Last
    BY <2>1 DEF AtGroup, Low, High, Last
  <2>3. CASE pc' = "collect"
    <3>1. AtGroup' /\ ~AtSettled'
      BY <2>3 DEF AtGroup, AtSettled, SettledPoints
    <3>2. Low' = Low /\ High' = High
      BY <2>1, <2>2, <3>1 DEF Low, High
    <3>3. High <= High' /\ Low' <= Low
      BY <3>2, BoundNumbers
    <3> QED
      BY <2>1, <2>3, <3>1, <3>3, TurnMoves
  <2>4. CASE pc' # "collect"
    <3>1. Len(batch) = 0
      BY <2>1, <2>4 DEF TurnInv, SerialGroup
    <3>2. \A n \in Doubted : n \in Nat /\ (Recorded(n) \/ (Low <= n /\ n <= High))
      BY <2>1, BoundNumbers DEF DoubtInv, Bounded
    <3>3. AllKnown
      <4>1. ASSUME NEW n \in Nat, Low <= n, n <= High PROVE FALSE
        BY <2>2, <3>1, <4>1, BoundNumbers
      <4> QED
        BY <3>2, <4>1 DEF AllKnown
    <3>4. ~AtGroup' /\ ~AtGroupStep' /\ ~AtDone'
      BY <2>1, <2>4 DEF AtGroup, AtGroupStep, AtDone
    <3>5. High' = Last' + 0
      BY <3>4 DEF High
    <3>6. High <= High'
      BY <2>2, <3>1, <3>5, BoundNumbers
    <3> QED
      BY <2>1, <3>3, <3>6, TurnMoves
  <2> QED
    BY <2>3, <2>4
<1> QED
  BY <1>1, <1>2, <1>3

(* The same for the terminal call and the last step of a turn. *)
LEMMA LastSteps ==
  ASSUME TurnInv, TurnInv', DoubtInv,
         AsyncJudgeDone \/ AsyncAcceptDone \/ AsyncRecordJudgedStep \/ AsyncRecordAcceptedStep
  PROVE  DoubtInv'
<1> USE DEF ToolPoints, Leaving, ClosedPoints, DrainedPoints
<1>1. CASE AsyncJudgeDone
  <2>1. /\ pc = "judge_done" /\ pc' \in {"yield_rejected", "yield_accepted"}
        /\ UNCHANGED <<storeVars, effects, threadVars, config, offset>>
        /\ \E step : steps' = Append(steps, step)
    BY <1>1 DEF AsyncJudgeDone, JudgeDone, Yield, toolVars, fixedVars, Aside, asyncVars,
                threadVars
  <2>2. Last' = Last + 1
    <3>1. steps \in Seq(Step) /\ Len(steps) \in Nat /\ offset \in Nat
      BY DEF TurnInv, DataInv, DataType
    <3>2. Len(steps') = Len(steps) + 1
      BY <2>1, <3>1
    <3> QED
      BY <2>1, <3>1, <3>2 DEF Last
  <2>3. /\ AtDone /\ ~AtGroup /\ ~AtGroupStep
        /\ ~AtGroup' /\ ~AtGroupStep' /\ ~AtDone' /\ ~AtSettled'
    BY <2>1 DEF AtGroup, AtGroupStep, AtDone, AtSettled, SettledPoints
  <2>4. Low = Last + 1 /\ High = Last + 1 /\ Low' = Last' /\ High' = Last' + 0
    BY <2>3 DEF Low, High
  <2>5. High <= High' /\ Low' <= Low
    BY <2>2, <2>4, BoundNumbers
  <2> QED
    BY <2>1, <2>3, <2>5, TurnMoves
<1>2. CASE AsyncAcceptDone \/ AsyncRecordAcceptedStep \/ (AsyncRecordJudgedStep /\ pc # "yield_blocked")
  <2>1. /\ pc \in {"yield_accepted", "accepted", "yield_rejected"}
        /\ UNCHANGED <<storeVars, effects, threadVars, config, steps, offset>>
        /\ \/ pc' = "accepted"
           \/ pc' = "saving" /\ write'.kind # "pending" /\ write'.next # "after_step"
    BY <1>2 DEF AsyncAcceptDone, AcceptDone, AsyncRecordAcceptedStep, AsyncRecordJudgedStep,
                Persist, toolVars, fixedVars, Aside, asyncVars, threadVars
  <2>2. /\ ~AtDone /\ ~AtGroup /\ ~AtGroupStep
        /\ ~AtGroup' /\ ~AtGroupStep' /\ ~AtDone' /\ ~AtSettled'
    BY <2>1 DEF AtGroup, AtGroupStep, AtDone, AtSettled, SettledPoints
  <2>3. Low' = Low /\ High' = High
    BY <2>1, <2>2 DEF Low, High, Last
  <2>4. High <= High' /\ Low' <= Low
    BY <2>3, BoundNumbers
  <2> QED
    BY <2>1, <2>2, <2>4, TurnMoves
<1>3. CASE AsyncRecordJudgedStep /\ pc = "yield_blocked"
  BY <1>3, SettledMoves DEF AsyncRecordJudgedStep, Persist, SettledPoints, toolVars, fixedVars
<1> QED
  BY <1>1, <1>2, <1>3

(* A body ends, is refused, or goes on by itself: its step was in doubt    *)
(* before, and is no more so than it was.                                  *)
LEMMA ResultSteps ==
  ASSUME TurnInv, TurnInv', DoubtInv, RefuseTool \/ ToolEnds
  PROVE  DoubtInv'
<1>1. /\ pc \in ToolPoints
      /\ UNCHANGED <<storeVars, config, steps, stepNum, calls, at, fixedVars, write>>
  BY DEF RefuseTool, ToolEnds, fixedVars
<1>2. PICK i \in Active, ok \in BOOLEAN :
        /\ Result(i, ok)
        /\ effects' \cup orphans' \subseteq effects \cup orphans \cup AtWork
  <2>1. CASE RefuseTool
    BY <2>1 DEF RefuseTool, toolVars
  <2>2. CASE ToolEnds
    <3>1. PICK i \in DOMAIN begun, ok \in BOOLEAN :
            /\ Result(i, ok)
            /\ effects' \in {effects, effects \cup {StepOf(i)}}
            /\ orphans' \in {orphans, orphans \cup {StepOf(i)}}
      BY <2>2 DEF ToolEnds
    <3>2. i \in Active /\ StepOf(i) \in AtWork
      BY <1>1 DEF TurnInv, Bodies, AtWork
    <3> QED
      BY <3>1, <3>2
  <2> QED
    BY <2>1, <2>2
<1>3. effects' \in SUBSET Nat /\ orphans' \in SUBSET Nat
  BY DEF TurnInv, DataInv, DataType, Bodies
<1>4. /\ pc' \in {"execute", "collect", "judge_done"}
      /\ Len(batch') = Len(batch)
      /\ DOMAIN begun' = DOMAIN begun \ {i}
      /\ pc' = "execute" => pc = "execute"
      /\ pc' = "collect" => pc = "execute" /\ DOMAIN begun' = {}
      /\ pc' = "judge_done" => pc = "execute_done" /\ DOMAIN begun' = {}
  BY <1>1, <1>2, <1>3, ResultMoves
<1>5. Doubted' \subseteq Doubted
  <2>1. AtWork' \subseteq AtWork
    <3>1. CASE pc' = "execute"
      <4>1. \A j : StepOf(j)' = StepOf(j)
        BY <1>1, <1>4, <3>1 DEF StepOf
      <4> QED
        BY <1>4, <4>1 DEF AtWork
    <3>2. CASE pc' # "execute"
      BY <1>4, <3>2 DEF AtWork
    <3> QED
      BY <3>1, <3>2
  <2> QED
    BY <1>2, <2>1 DEF Doubted
<1>6. Last' = Last
  BY <1>1 DEF Last, fixedVars
<1>7. /\ ~AtSettled' /\ ~AtGroupStep /\ ~AtGroupStep'
      /\ AtGroup' = AtGroup /\ AtDone' = AtDone
  BY <1>1, <1>4 DEF AtSettled, SettledPoints, AtGroup, AtGroupStep, AtDone, ToolPoints
<1>8. Low' = Low /\ High' = High
  BY <1>4, <1>6, <1>7 DEF Low, High
<1>9. High <= High' /\ Low' <= Low
  BY <1>8, BoundNumbers
<1>10. pc \notin Leaving
  BY <1>1 DEF ToolPoints, Leaving, ClosedPoints, DrainedPoints
<1> QED
  BY <1>1, <1>5, <1>7, <1>8, <1>9, <1>10, DoubtKeeps

(* The threads that are left behind, and the cancellation that leaves them. *)
LEMMA ThreadSteps ==
  ASSUME TurnInv, TurnInv', DoubtInv, OrphanEnds \/ CancelAtTools
  PROVE  DoubtInv'
<1>1. CASE OrphanEnds
  <2>1. /\ UNCHANGED <<pc, write, storeVars, batch, config, steps, offset, stepNum, at, calls, begun>>
        /\ effects' \cup orphans' \subseteq effects \cup orphans
    BY <1>1 DEF OrphanEnds, turnVars, fixedVars
  <2>2. AtWork' = AtWork
    BY <2>1 DEF AtWork, StepOf, DoneStep
  <2> QED
    BY <2>1, <2>2, WaitMoves DEF Doubted
<1>2. CASE CancelAtTools
  <2>1. /\ pc \in ToolPoints /\ pc' = "cancelled" /\ begun' = <<>>
        /\ orphans' = orphans \cup Working("thread")
        /\ UNCHANGED <<storeVars, config>>
    BY <1>2 DEF CancelAtTools, fixedVars
  <2>2. PICK late_effects \in SUBSET Coroutines : effects' = effects \cup late_effects
    BY <1>2 DEF CancelAtTools
  <2>3. DOMAIN begun' = {}
    BY <2>1
  <2>4. AtWork' = {}
    BY <2>3 DEF AtWork
  <2>5. Doubted' \subseteq Doubted
    BY <2>1, <2>2, <2>4, AtWorkNumbers DEF Doubted
  <2> QED
    BY <2>1, <2>5, LeavingMoves DEF Leaving
<1> QED
  BY <1>1, <1>2

(* A body begins under the pending record of its group or call. *)
LEMMA BeginSteps ==
  ASSUME TurnInv, TurnInv', DoubtInv, BeginTool
  PROVE  DoubtInv'
<1>1. /\ pc \in ToolPoints /\ UNCHANGED <<vars, write, orphans>>
  BY DEF BeginTool
<1>2. PICK i \in Active : DOMAIN begun' = DOMAIN begun \cup {i}
  <2>1. PICK i \in Active \ DOMAIN begun, how \in {"thread", "coroutine"} :
          begun' = [j \in DOMAIN begun \cup {i} |-> IF j = i THEN how ELSE begun[j]]
    BY DEF BeginTool
  <2> QED
    BY <2>1
<1>3. /\ saved' = saved /\ clock' = clock /\ config' = config /\ effects' = effects
      /\ UNCHANGED <<pc, steps, offset, stepNum, at, calls, batch>>
  BY <1>1 DEF vars
<1>4. /\ Last' = Last /\ AtSettled' = AtSettled /\ Low' = Low /\ High' = High
      /\ \A j : StepOf(j)' = StepOf(j)
  BY <1>1, <1>3 DEF Last, AtSettled, Low, High, AtGroup, AtGroupStep, AtDone, StepOf, DoneStep
<1>5. Doubted' \subseteq Doubted \cup {StepOf(i)}
  BY <1>1, <1>2, <1>3, <1>4 DEF Doubted, AtWork
<1>6. StepOf(i) \in Nat /\ Low <= StepOf(i) /\ StepOf(i) <= High
  <2>1. /\ StepOf(i) = Last + i /\ i \in Nat \ {0}
        /\ pc = "execute" => i <= Len(batch)
    BY <1>1, BodyNumbers
  <2>2. Last \in Nat /\ Len(batch) \in Nat
    BY BoundNumbers
  <2>3. CASE pc = "execute"
    <3>1. Low = Last + 1 /\ High = Last + Len(batch)
      BY <2>3 DEF Low, High, AtGroup
    <3> QED
      BY <2>1, <2>2, <2>3, <3>1
  <2>4. CASE pc = "execute_done"
    <3>1. Low = Last + 1 /\ High = Last + 1
      BY <2>4 DEF Low, High, AtGroup, AtGroupStep, AtDone
    <3>2. i = 1
      BY <2>4 DEF Active
    <3> QED
      BY <2>1, <2>2, <3>1, <3>2
  <2> QED
    BY <1>1, <2>3, <2>4 DEF ToolPoints
<1>7. \A n : Recorded(n)' <=> Recorded(n)
  BY <1>3 DEF Recorded
<1>8. \A key : IsNewest(key)' <=> IsNewest(key)
  BY <1>3 DEF IsNewest
<1>9. StoreInv'
  BY <1>3, <1>8 DEF DoubtInv, StoreInv, Filed, Keyed, Ordered, StoreType
<1>10. PendingTop(High)
  BY <1>1 DEF DoubtInv, Announced
<1>11. Announced'
  BY <1>4, <1>8, <1>10 DEF Announced, PendingTop
<1>12. Covered'
  <2>1. IsNewest(<<"pending", High>>) /\ <<"pending", High>> \in DOMAIN saved
    BY <1>10 DEF PendingTop, IsNewest
  <2>2. \E key \in DOMAIN saved : IsNewest(key) /\ key[1] = "pending" /\ StepOf(i) <= key[2]
    BY <1>6, <2>1
  <2> QED
    BY <1>3, <1>5, <1>7, <1>8, <2>2 DEF DoubtInv, Covered
<1>13. Bounded'
  <2>1. ~AtSettled' /\ pc \notin Leaving
    BY <1>1, <1>4 DEF AtSettled, SettledPoints, ToolPoints, Leaving, ClosedPoints, DrainedPoints
  <2>2. \A n \in Doubted' : Recorded(n)' \/ (Low' <= n /\ n <= High')
    BY <1>4, <1>5, <1>6, <1>7, <2>1 DEF DoubtInv, Bounded
  <2>3. \A key \in DOMAIN saved' : key[2] <= High'
    BY <1>3, <1>4, <2>1 DEF DoubtInv, Bounded
  <2> QED
    BY <2>1, <2>2, <2>3 DEF Bounded
<1> QED
  BY <1>9, <1>11, <1>12, <1>13 DEF DoubtInv

(* A document is on disk.  A pending record is the newest document from    *)
(* now on; the document of a step answers for that step, and leaves a      *)
(* pending record of later steps the newest.                               *)
LEMMA WriteSteps ==
  ASSUME TurnInv, TurnInv', DoubtInv, WriteEnds
  PROVE  DoubtInv'
<1>1. /\ pc = "saving" /\ UNCHANGED <<effects, threadVars, config, steps, offset, batch>>
      /\ \/ UNCHANGED storeVars /\ pc' \in {"cancelled", "unwind"}
         \/ Save(write.kind, write.n) /\ pc' \in {"cancelled", write.next}
  BY DEF WriteEnds, toolVars, fixedVars, turnVars
<1>2. Doubted' = Doubted
  BY <1>1, IdleDoubt DEF ToolPoints
<1>3. CASE UNCHANGED storeVars /\ pc' \in {"cancelled", "unwind"}
  BY <1>1, <1>2, <1>3, LeavingMoves DEF Leaving
<1>4. CASE Save(write.kind, write.n) /\ pc' \in {"cancelled", write.next}
  <2>0. PICK kind, m : kind = write.kind /\ m = write.n
    OBVIOUS
  <2> DEFINE new == <<kind, m>>
  <2>1. /\ Last \in Nat /\ Len(batch) \in Nat /\ Doubted \in SUBSET Nat
        /\ Last' = Last /\ Remaining \in Nat
    BY <1>1, BoundNumbers, TurnNumbers DEF Last, TurnInv
  <2>2. WritingGroup \/ WritingDone \/ WritingToolStep \/ WritingLastStep
    BY <1>1 DEF TurnInv, Writing
  <2>3. kind \in {"pending", "step", "done"} /\ m \in Nat
    BY <2>0, <2>1, <2>2 DEF WritingGroup, WritingDone, WritingToolStep, WritingLastStep, WritingStep
  <2>4. config' \in Configs /\ effects' \in SUBSET Nat /\ StoreInv
    BY <1>1 DEF DoubtInv, StoreInv, Filed
  <2>5. Save(kind, m)
    BY <1>4, <2>0
  <2>6. /\ StoreInv'
        /\ DOMAIN saved' = DOMAIN saved \cup {new}
        /\ (\A key \in DOMAIN saved : key[2] <= m) => IsNewest(new)'
        /\ \A key \in DOMAIN saved : m < key[2] /\ IsNewest(key) => IsNewest(key)'
    BY <2>1, <2>3, <2>4, <2>5, SaveFacts
  <2>7. \A n : Recorded(n)' <=> Recorded(n) \/ (kind # "pending" /\ n = m)
    BY <2>3, <2>6, SaveRecords
  <2>8. /\ pc \notin Leaving /\ ~AtGroup /\ ~AtDone /\ Low = Last
        /\ AtGroupStep <=> write.next = "after_step"
        /\ High = Last + (IF AtGroupStep THEN Len(batch) ELSE 0)
    BY <1>1 DEF Leaving, ClosedPoints, DrainedPoints, AtGroup, AtDone, AtGroupStep, Low, High
  <2>9. /\ \A key \in DOMAIN saved : key[2] <= High /\ key[2] \in Nat
        /\ \A n \in Doubted : n \in Nat /\ (Recorded(n) \/ (Last <= n /\ n <= High))
        /\ AtSettled => AllKnown
    BY <2>1, <2>8 DEF DoubtInv, Bounded, StoreInv, Filed, StoreType, Keys
  <2>10. new[1] = kind /\ new[2] = m
    OBVIOUS
  <2>11. AllKnown' => Covered'
    BY DEF AllKnown, Covered
  <2>12. ASSUME kind = "pending", m \in {Last + Len(batch), Last + 1},
                write.next \in {"execute", "execute_done"},
                pc' # "cancelled" => High' = m
         PROVE  DoubtInv'
    <3>1. AllKnown'
      BY <1>1, <1>2, <2>0, <2>7, <2>9, <2>12 DEF AtSettled, AllKnown
    <3>2. High = Last + 0 /\ Last + 0 <= m
      BY <2>1, <2>8, <2>12
    <3>3. \A key \in DOMAIN saved' : key[2] <= m
      BY <2>1, <2>3, <2>6, <2>9, <2>10, <3>2
    <3>4. IsNewest(new)'
      BY <2>6, <3>3
    <3>5. pc' = "cancelled" \/ High' = m
      BY <2>12
    <3>6. pc' = "cancelled" => pc' \in Leaving /\ pc' \notin ToolPoints
      BY DEF Leaving, ToolPoints
    <3>7. Bounded'
      BY <3>1, <3>3, <3>5, <3>6 DEF Bounded, AllKnown
    <3>8. Announced'
      BY <2>12, <3>4, <3>5, <3>6 DEF Announced, PendingTop
    <3> QED
      BY <2>6, <2>11, <3>1, <3>7, <3>8 DEF DoubtInv
  <2>13. CASE WritingGroup \/ WritingDone
    <3>1. /\ kind = "pending" /\ m \in {Last + Len(batch), Last + 1}
          /\ write.next \in {"execute", "execute_done"}
      BY <2>0, <2>13 DEF WritingGroup, WritingDone
    <3>2. pc' # "cancelled" => High' = m
      <4>1. CASE WritingGroup /\ pc' = "execute"
        <5>1. High' = Last' + Len(batch') /\ m = Last + Len(batch)
          BY <2>0, <4>1 DEF High, AtGroup, WritingGroup
        <5> QED
          BY <1>1, <2>1, <5>1
      <4>2. CASE WritingDone /\ pc' = "execute_done"
        <5>1. High' = Last' + 1 /\ m = Last + 1
          BY <2>0, <4>2 DEF High, AtGroup, AtGroupStep, AtDone, WritingDone
        <5> QED
          BY <2>1, <5>1
      <4> QED
        BY <1>4, <2>13, <4>1, <4>2 DEF WritingGroup, WritingDone
    <3> QED
      BY <2>12, <3>1, <3>2
  <2>14. CASE WritingToolStep \/ WritingLastStep
    <3>1. kind # "pending" /\ m = Last
          /\ write.next \in {"after_step", "post_step", "top", "done_saved"}
      BY <2>0, <2>14 DEF WritingToolStep, WritingLastStep, WritingStep
    <3>2. pc' \notin ToolPoints
      BY <1>4, <3>1 DEF ToolPoints
    <3>3. Last <= High
      BY BoundNumbers
    <3>4. \A key \in DOMAIN saved' : key[2] <= High
      BY <2>6, <2>9, <2>10, <3>1, <3>3
    <3>5. ASSUME NEW n \in Doubted, ~Recorded(n)'
          PROVE  n \in Nat /\ Last + 1 <= n /\ n <= High /\ ~Recorded(n)
      <4>1. ~Recorded(n) /\ n # Last
        BY <2>7, <3>1, <3>5
      <4>2. n \in Nat /\ Last <= n /\ n <= High
        BY <2>9, <4>1
      <4> QED
        BY <2>1, <4>1, <4>2
    <3>6. Covered'
      <4>1. ASSUME NEW n \in Doubted, ~Recorded(n)'
            PROVE  \E key \in DOMAIN saved' : IsNewest(key)' /\ key[1] = "pending" /\ n <= key[2]
        <5>1. n \in Nat /\ Last + 1 <= n /\ ~Recorded(n)
          BY <3>5, <4>1
        <5>2. PICK key \in DOMAIN saved : IsNewest(key) /\ key[1] = "pending" /\ n <= key[2]
          BY <5>1 DEF DoubtInv, Covered
        <5>3. m < key[2]
          BY <2>1, <2>9, <3>1, <5>1, <5>2
        <5> QED
          BY <2>6, <5>2, <5>3
      <4> QED
        BY <1>2, <4>1 DEF Covered
    <3>7. Bounded'
      <4>1. CASE pc' = "cancelled"
        BY <4>1 DEF Bounded, Leaving
      <4>2. CASE pc' = "after_step"
        <5>1. write.next = "after_step"
          BY <1>4, <4>2
        <5>2. High = Last + Len(batch)
          BY <2>8, <5>1
        <5>3. AtGroup' /\ ~AtSettled'
          BY <4>2 DEF AtGroup, AtSettled, SettledPoints
        <5>4. Low' = Last' + 1 /\ High' = Last' + Len(batch')
          BY <5>3 DEF Low, High
        <5>5. Low' = Last + 1 /\ High' = High
          BY <1>1, <2>1, <5>2, <5>4
        <5> QED
          BY <1>2, <3>4, <3>5, <5>3, <5>5 DEF Bounded
      <4>3. CASE pc' \in {"post_step", "top", "done_saved"}
        <5>1. ~AtGroupStep
          BY <1>4, <2>8, <4>3
        <5>2. High = Last + 0
          BY <2>8, <5>1
        <5>3. AllKnown'
          <6>1. ASSUME NEW n \in Doubted PROVE Recorded(n)'
            <7>1. ~(n \in Nat /\ Last + 1 <= n /\ n <= High)
              BY <2>1, <5>2
            <7> QED
              BY <3>5, <7>1
          <6> QED
            BY <1>2, <6>1 DEF AllKnown
        <5>4. High' = Last' + 0
          BY <4>3 DEF High, AtGroup, AtGroupStep, AtDone
        <5>5. High' = High
          BY <2>1, <5>2, <5>4
        <5> QED
          BY <3>4, <5>3, <5>5 DEF Bounded, AllKnown
      <4> QED
        BY <1>4, <3>1, <4>1, <4>2, <4>3
    <3>8. Announced'
      BY <3>2 DEF Announced
    <3> QED
      BY <2>6, <3>6, <3>7, <3>8 DEF DoubtInv
  <2> QED
    BY <2>2, <2>13, <2>14
<1> QED
  BY <1>1, <1>3, <1>4

(* The run leaves the loop, or is held up at an await. *)
LEMMA ExitSteps ==
  ASSUME TurnInv, TurnInv', DoubtInv,
         \/ LeaveLoop \/ AsyncCloseStream \/ DrainEnds \/ LoopEndCleanup \/ PersistHarness
         \/ CancelAtAwait \/ (HookRaises /\ Aside)
  PROVE  DoubtInv'
<1>1. /\ pc \notin ToolPoints /\ pc' \in Leaving
      /\ UNCHANGED <<storeVars, effects, threadVars, config>>
  <2> USE DEF ToolPoints, Leaving, ClosedPoints, DrainedPoints, toolVars, fixedVars
  <2>1. CASE LeaveLoop \/ AsyncCloseStream
    BY <2>1 DEF LeaveLoop, AsyncCloseStream, Leave, CancelPending, YieldPoints
  <2>2. CASE DrainEnds \/ LoopEndCleanup \/ PersistHarness
    BY <2>2 DEF DrainEnds, LoopEndCleanup, PersistHarness, Aside, asyncVars, threadVars
  <2>3. CASE CancelAtAwait
    BY <2>3 DEF CancelAtAwait, AwaitPoints
  <2>4. CASE HookRaises /\ Aside
    BY <2>4 DEF HookRaises, RaisePoints, Aside, asyncVars, threadVars
  <2> QED
    BY <2>1, <2>2, <2>3, <2>4
<1> QED
  BY <1>1, IdleDoubt, LeavingMoves

(* Requests, the host, and the cancellations that are held back. *)
LEMMA QuietSteps ==
  ASSUME TurnInv, TurnInv', DoubtInv,
         \/ MakeRequest \/ RequestStep \/ ((CancelRun \/ DeadlinePasses) /\ Aside)
         \/ CancelHeldBack \/ CancelDropped \/ UNCHANGED allVars
  PROVE  DoubtInv'
<1>1. /\ UNCHANGED <<pc, write, storeVars, batch, config, steps, offset>>
      /\ UNCHANGED <<stepNum, at, calls, begun, effects, orphans>>
  <2> USE DEF vars, storeVars, threadVars
  <2>1. CASE MakeRequest \/ RequestStep
    BY <2>1 DEF MakeRequest, RequestStep, GenerateReturns, ResolveRequest, SettleRequest,
                RequestMoves
  <2>2. CASE (CancelRun \/ DeadlinePasses) /\ Aside
    BY <2>2 DEF CancelRun, DeadlinePasses, Aside, asyncVars, turnVars, toolVars, fixedVars
  <2>3. CASE CancelHeldBack \/ CancelDropped \/ UNCHANGED allVars
    BY <2>3 DEF CancelHeldBack, CancelDropped, allVars, asyncVars
  <2> QED
    BY <2>1, <2>2, <2>3
<1>2. AtWork' = AtWork
  BY <1>1 DEF AtWork, StepOf, DoneStep
<1> QED
  BY <1>1, <1>2, WaitMoves DEF Doubted

(* Every step of the asynchronous run keeps DoubtInv. *)
LEMMA DoubtStep ==
  ASSUME TurnInv, DoubtInv, [AsyncNext]_allVars
  PROVE  DoubtInv'
<1>1. TurnInv'
  BY TurnStep
<1>2. CASE AsyncLoopStep
  <2>1. CASE Settled
    BY <1>1, <2>1, SettledSteps
  <2>2. CASE AsyncCollectResult \/ AsyncRecordToolStep \/ AsyncAfterToolStep
    BY <1>1, <2>2, GroupSteps
  <2>3. CASE AsyncJudgeDone \/ AsyncAcceptDone \/ AsyncRecordJudgedStep \/ AsyncRecordAcceptedStep
    BY <1>1, <2>3, LastSteps
  <2>4. CASE WriteEnds
    BY <1>1, <2>4, WriteSteps
  <2>5. CASE LeaveLoop \/ DrainEnds \/ LoopEndCleanup \/ PersistHarness
    BY <1>1, <2>5, ExitSteps
  <2> QED
    BY <1>2, <2>1, <2>2, <2>3, <2>4, <2>5 DEF AsyncLoopStep, Settled
<1>3. CASE ToolStep \/ OrphanEnds \/ CancelAtTools
  BY <1>1, <1>3, BeginSteps, ResultSteps, ThreadSteps DEF ToolStep
<1>4. CASE AsyncCloseStream \/ CancelAtAwait \/ (HookRaises /\ Aside)
  BY <1>1, <1>4, ExitSteps
<1>5. CASE \/ MakeRequest \/ RequestStep \/ ((CancelRun \/ DeadlinePasses) /\ Aside)
           \/ CancelHeldBack \/ CancelDropped \/ UNCHANGED allVars
  BY <1>1, <1>5, QuietSteps
<1>6. CASE AsyncHostStep
  BY <1>4, <1>5, <1>6 DEF AsyncHostStep
<1>7. CASE CancelTask
  BY <1>3, <1>4, <1>5, <1>7 DEF CancelTask
<1>8. CASE AsyncEnded
  BY <1>5, <1>8 DEF AsyncEnded
<1> QED
  BY <1>2, <1>3, <1>4, <1>5, <1>6, <1>7, <1>8 DEF AsyncNext

(* At every instant of the asynchronous run the checkpoint files answer    *)
(* for whatever may have happened or may still happen: for an effect, for  *)
(* a body at work, and for a thread left behind by a timeout or by the     *)
(* cancellation of the task.                                               *)
THEOREM DoubtInvariant == AsyncSpec => [](TurnInv /\ DoubtInv)
<1>1. AsyncInit => TurnInv /\ DoubtInv
  BY TurnInit, DoubtInit
<1>2. TurnInv /\ DoubtInv /\ [AsyncNext]_allVars => TurnInv' /\ DoubtInv'
  BY TurnStep, DoubtStep
<1> QED
  BY <1>1, <1>2, PTL DEF AsyncSpec

(* A crash of the asynchronous loop is safe at every instant: an executed  *)
(* call is in a finished checkpoint, or the newest checkpoint is the       *)
(* pending one that makes resume refuse; also while a write is under way   *)
(* and when a thread nobody waits for brings its effect about.             *)
THEOREM AsyncUncertainSafe == AsyncSpec => []UncertainEffectsBlockResume
<1>1. DoubtInv => UncertainEffectsBlockResume
  <2> SUFFICES ASSUME DoubtInv, NEW n \in effects, ~Recorded(n)
               PROVE  DOMAIN saved # {} /\ saved[Newest].kind = "pending" /\ saved[Newest].n >= n
    BY DEF UncertainEffectsBlockResume
  <2>1. PICK key \in DOMAIN saved : IsNewest(key) /\ key[1] = "pending" /\ n <= key[2]
    BY DEF DoubtInv, Covered, Doubted
  <2>2. Newest = key
    BY <2>1, NewestFacts DEF DoubtInv
  <2>3. saved[key].kind = key[1] /\ saved[key].n = key[2]
    BY <2>1 DEF DoubtInv, StoreInv, Keyed
  <2>4. n \in Nat /\ saved[key].n \in Nat
    BY <2>1 DEF DoubtInv, StoreInv, Filed, StoreType, Documents
  <2> QED
    BY <2>1, <2>2, <2>3, <2>4
<1> QED
  BY <1>1, DoubtInvariant, PTL

-----------------------------------------------------------------------------
(* A run that returns, also one whose cleanup is cancelled afterwards, has *)
(* nothing left in doubt.                                                  *)
ReturnInv ==
  /\ pc = "returning" => AllKnown
  /\ outcome = "returned" => pc \in ClosedPoints /\ AllKnown

(* Every step keeps ReturnInv: only AsyncFinalize and a write lead to the  *)
(* return.                                                                 *)
LEMMA ReturnStep ==
  ASSUME FrameInv, TurnInv, DoubtInv, ReturnInv, [AsyncNext]_allVars
  PROVE  ReturnInv'
<1>1. ASSUME outcome' = outcome, pc \notin ClosedPoints, pc' # "returning"
      PROVE  ReturnInv'
  BY <1>1 DEF ReturnInv
<1>2. ASSUME outcome' # "returned" \/ outcome' = outcome \/ pc = "returning",
             pc \in {"returning"} \cup ClosedPoints => pc' \in ClosedPoints,
             pc' # "returning", UNCHANGED storeVars, Doubted' \subseteq Doubted
      PROVE  ReturnInv'
  <2>1. AllKnown => AllKnown'
    BY <1>2 DEF AllKnown, Recorded, storeVars
  <2> QED
    BY <1>2, <2>1 DEF ReturnInv
<1>3. CASE LeaveLoop \/ DrainEnds \/ LoopEndCleanup \/ PersistHarness \/ AsyncCloseStream
  <2>1. /\ pc \notin ToolPoints
        /\ UNCHANGED <<storeVars, effects, threadVars>>
        /\ pc' \in ClosedPoints
    BY <1>3 DEF LeaveLoop, AsyncCloseStream, Leave, CancelPending, DrainEnds, LoopEndCleanup,
       PersistHarness, Aside, asyncVars, threadVars, toolVars, ToolPoints, YieldPoints,
       ClosedPoints, DrainedPoints
  <2>2. outcome' # "returned" \/ outcome' = outcome \/ pc = "returning"
    BY <1>3 DEF LeaveLoop, AsyncCloseStream, Leave, DrainEnds, LoopEndCleanup, PersistHarness,
                Surface
  <2>3. pc' # "returning"
    BY <2>1 DEF ClosedPoints, DrainedPoints
  <2> QED
    BY <1>2, <2>1, <2>2, <2>3, IdleDoubt
<1>4. CASE AsyncFinalize
  <2>1. /\ pc = "finalize" /\ outcome' = outcome
        /\ UNCHANGED <<storeVars, effects, threadVars>>
    BY <1>4 DEF AsyncFinalize, toolVars, threadVars
  <2>2. AllKnown
    BY <2>1 DEF DoubtInv, Bounded, Leaving, ClosedPoints, DrainedPoints, AtSettled, SettledPoints
  <2>3. Doubted' = Doubted
    BY <2>1, IdleDoubt DEF ToolPoints
  <2>4. AllKnown'
    BY <2>1, <2>2, <2>3 DEF AllKnown, Recorded, storeVars
  <2>5. outcome' # "returned"
    BY <2>1 DEF ReturnInv, ClosedPoints, DrainedPoints
  <2> QED
    BY <2>4, <2>5 DEF ReturnInv
<1>5. CASE /\ AsyncLoopStep
           /\ ~(LeaveLoop \/ DrainEnds \/ LoopEndCleanup \/ PersistHarness \/ AsyncFinalize)
  <2>1. /\ outcome' = outcome /\ pc \notin ClosedPoints
        /\ pc' = "returning" => WriteEnds
    BY <1>5, LoopStaysInside, LoopKeepsHooks DEF Inside
  <2>2. CASE WriteEnds
    <3>1. pc' \in {"cancelled", "unwind", write.next} /\ pc = "saving"
      BY <2>2 DEF WriteEnds
    <3>2. pc' # "returning"
      BY <3>1 DEF TurnInv, Writing, WritingGroup, WritingDone, WritingToolStep, WritingLastStep
    <3> QED
      BY <2>1, <3>2, <1>1
  <2> QED
    BY <1>1, <2>1, <2>2
<1>6. CASE ToolStep \/ CancelTask \/ AsyncHostStep
  <2>1. CASE ToolStep \/ CancelAtAwait \/ CancelAtTools
    <3>1. outcome' = outcome /\ pc \notin ClosedPoints /\ pc' # "returning"
      BY <2>1 DEF ToolStep, BeginTool, RefuseTool, ToolEnds, Result, CancelAtAwait, AwaitPoints,
         CancelAtTools, ToolPoints, ClosedPoints, DrainedPoints, endVars, vars
    <3> QED
      BY <3>1, <1>1
  <2>2. CASE HookRaises
    <3>1. outcome' = outcome /\ pc \notin ClosedPoints /\ pc' # "returning"
      BY <2>2 DEF HookRaises, RaisePoints, ClosedPoints, DrainedPoints, endVars
    <3> QED
      BY <3>1, <1>1
  <2>3. CASE CancelHeldBack \/ CancelDropped \/ ((CancelRun \/ DeadlinePasses) /\ Aside)
    <3>1. /\ UNCHANGED <<pc, outcome, saved, clock>>
          /\ UNCHANGED <<stepNum, at, calls, begun, effects, orphans>>
      BY <2>3 DEF CancelHeldBack, CancelDropped, CancelRun, DeadlinePasses, Aside, asyncVars,
                  vars, threadVars, endVars, turnVars, storeVars, toolVars
    <3>2. AtWork' = AtWork
      BY <3>1 DEF AtWork, StepOf, DoneStep
    <3>3. AllKnown' <=> AllKnown
      BY <3>1, <3>2 DEF AllKnown, Doubted, Recorded
    <3> QED
      BY <3>1, <3>3 DEF ReturnInv
  <2> QED
    BY <1>6, <2>1, <2>2, <2>3 DEF CancelTask, AsyncHostStep
<1>7. CASE MakeRequest \/ RequestStep \/ OrphanEnds \/ UNCHANGED allVars
  <2>1. /\ UNCHANGED <<pc, outcome, saved, clock, stepNum, at, calls, begun>>
        /\ effects' \cup orphans' \subseteq effects \cup orphans
    BY <1>7 DEF MakeRequest, RequestStep, GenerateReturns, ResolveRequest, SettleRequest,
       RequestMoves, OrphanEnds, allVars, asyncVars, vars, threadVars, endVars, turnVars,
       storeVars
  <2>2. AtWork' = AtWork
    BY <2>1 DEF AtWork, StepOf, DoneStep
  <2>3. AllKnown => AllKnown'
    BY <2>1, <2>2 DEF AllKnown, Doubted, Recorded
  <2> QED
    BY <2>1, <2>3 DEF ReturnInv
<1> QED
  BY <1>3, <1>4, <1>5, <1>6, <1>7 DEF AsyncNext, AsyncEnded

(* A run that returns has recorded every tool it executed, and no thread   *)
(* it left behind can still bring about an effect that is not recorded:    *)
(* such a call was recorded as timed out before the run went on.           *)
THEOREM AsyncResultsSafe == AsyncSpec => []ResultsRecorded
<1>1. AsyncInit => ReturnInv
  BY DEF AsyncInit, Init, ReturnInv
<1>2. FrameInv /\ TurnInv /\ DoubtInv /\ ReturnInv /\ [AsyncNext]_allVars => ReturnInv'
  BY ReturnStep
<1>3. ReturnInv => ResultsRecorded
  BY DEF ReturnInv, AllKnown, Doubted, ResultsRecorded
<1> QED
  BY <1>1, <1>2, <1>3, FrameInvariant, DoubtInvariant, PTL DEF AsyncSpec

-----------------------------------------------------------------------------
(* What an accepted terminal call means to the caller of the asynchronous  *)
(* loop.                                                                   *)
Finishing ==
  \/ pc \in {"yield_accepted", "accepted", "done_saved"}
  \/ pc = "saving" /\ write.next = "done_saved"
AtAccepted ==
  Finishing \/ pc \in AcceptedPoints \cup {"cancelled", "returning"} \cup ClosedPoints

(* An accepted step is the last one; only after it is a run completed. *)
AsyncAcceptInv ==
  /\ Finishing => Accepted
  /\ stopReason = "done" => Accepted
  /\ pub.status = "completed" => Accepted
  /\ Accepted => AtAccepted

(* Steps that append nothing, and give neither the reason nor the status of*)
(* an accepted run, keep the invariant.                                    *)
LEMMA AcceptKept ==
  ASSUME AsyncAcceptInv, UNCHANGED steps,
         stopReason' # "done" \/ stopReason' = stopReason \/ Accepted,
         pub'.status # "completed" \/ pub' = pub,
         Finishing' => Accepted, AtAccepted => AtAccepted'
  PROVE  AsyncAcceptInv'
BY AcceptedSame DEF AsyncAcceptInv

(* The actions of AgentLoop that the asynchronous loop takes over. *)
LEMMA SharedAccepts ==
  ASSUME "done" \notin HookReasons, TurnInv, AsyncAcceptInv, Shared
  PROVE  AsyncAcceptInv'
<1> DEFINE Elsewhere == {"saving", "done_saved", "cancelled", "returning", "drain", "loop_end",
                         "persist"}
<1>1. pc \notin Elsewhere /\ pc' \notin Elsewhere
  <2>1. CASE Start \/ LoopHead \/ RequestModel \/ ModelReturns
    BY <2>1 DEF Start, LoopHead, RequestModel, ModelReturns, CallReturned, DeadlineStop, StopWith
  <2>2. CASE ModelAnswered \/ RecordFailedStep \/ PostStep \/ Finish
    BY <2>2 DEF ModelAnswered, HookDecides, StopWith, Yield, RecordFailedStep, PostStep, Finish
  <2>3. CASE ParseResponse \/ RecoverParse \/ GiveUpParse \/ PlanTurn
    BY <2>3 DEF ParseResponse, RecoverParse, GiveUpParse, PlanTurn, Yield
  <2>4. CASE JudgeDone \/ AcceptDone \/ HookRaises
    BY <2>4 DEF JudgeDone, AcceptDone, Yield, HookRaises, RaisePoints
  <2> QED
    BY <2>1, <2>2, <2>3, <2>4 DEF Shared
<1>2. AcceptInv
  BY <1>1 DEF AsyncAcceptInv, AcceptInv, AtAccepted, Finishing, AcceptedPoints, ClosedPoints,
              DrainedPoints
<1>3. AcceptInv'
  BY <1>2, AcceptStep DEF Shared, Next, LoopStep, HostStep, TurnInv, DataInv, DataType
<1> QED
  BY <1>1, <1>3 DEF AsyncAcceptInv, AcceptInv, AtAccepted, Finishing

(* What is new in the asynchronous turn. *)
LEMMA LoopAccepts ==
  ASSUME "done" \notin HookReasons, TurnInv, AsyncAcceptInv,
         \/ AsyncLoopHead \/ AsyncPrompt \/ AsyncRecoverOverflow \/ AsyncRecordUnparsedStep
         \/ AsyncIntercept \/ AsyncCollectResult \/ AsyncRecordToolStep \/ AsyncAfterToolStep
         \/ AsyncAfterDispatch \/ AsyncCheckDone \/ AsyncRecordJudgedStep
         \/ AsyncRecordAcceptedStep \/ AnnounceDone \/ AsyncFinalize \/ WriteEnds
  PROVE  AsyncAcceptInv'
<1> DEFINE Before == pc \notin AcceptedPoints \cup {"cancelled", "returning"} \cup ClosedPoints
                     /\ ~Finishing
<1>1. ASSUME Before, UNCHANGED steps, stopReason' # "done" \/ stopReason' = stopReason,
             pub'.status # "completed" \/ pub' = pub, ~Finishing'
      PROVE  AsyncAcceptInv'
  BY <1>1, AcceptKept DEF AtAccepted
<1> USE DEF AcceptedPoints, ClosedPoints, DrainedPoints, Finishing
<1>2. CASE AsyncLoopHead
  <2>1. CASE LoopHead
    BY <2>1, SharedAccepts DEF Shared
  <2>2. CASE ~LoopHead
    BY <1>2, <2>2, <1>1 DEF AsyncLoopHead, lifecycleVars, reasonVars
  <2> QED
    BY <2>1, <2>2
<1>3. CASE AsyncPrompt
  <2>1. \A reason \in HookReasons : reason # "done"
    OBVIOUS
  <2>2. stopReason' # "done" \/ stopReason' = stopReason
    BY <1>3, <2>1, DeadlineShows DEF AsyncPrompt, HookDecides, reasonVars
  <2>3. pub'.status # "completed" \/ pub' = pub
    BY <1>3, DeadlineShows, MoveShows DEF AsyncPrompt
  <2>4. /\ pc = "prompt" /\ pc' \in {"finish", "request", "answered"}
        /\ UNCHANGED steps
    BY <1>3, DeadlineShows DEF AsyncPrompt, HookDecides
  <2> QED
    BY <1>1, <2>2, <2>3, <2>4
<1>4. CASE AsyncRecoverOverflow
  BY <1>4, <1>1, MoveShows DEF AsyncRecoverOverflow, lifecycleVars, reasonVars
<1>5. CASE AsyncRecordUnparsedStep \/ AsyncRecordToolStep
  BY <1>5, <1>1 DEF AsyncRecordUnparsedStep, AsyncRecordToolStep, Persist, lifecycleVars,
                    reasonVars
<1>6. CASE AsyncIntercept
  BY <1>6, <1>1 DEF AsyncIntercept, Persist, lifecycleVars, reasonVars
<1>7. CASE AsyncCollectResult
  <2>1. /\ pc = "collect" /\ pc' = "yield_tool" /\ pub' = pub
        /\ stopReason' = stopReason \/ stopReason' # "done"
    BY <1>7 DEF AsyncCollectResult, lifecycleVars
  <2>2. PICK free : Yield(stepNum + at, "tool", free, "yield_tool")
    BY <1>7 DEF AsyncCollectResult, Yield
  <2>3. ~Accepted /\ ~Accepted'
    BY <2>1, <2>2, YieldAccepted DEF AsyncAcceptInv, AtAccepted, TurnInv, DataInv, DataType
  <2> QED
    BY <2>1, <2>3 DEF AsyncAcceptInv
<1>8. CASE AsyncAfterToolStep
  <2>1. \A reason \in HookReasons : reason # "done"
    OBVIOUS
  <2>2. /\ pc = "after_step" /\ pc' \in {"collect", "dispatched", "finish", "intercept"}
        /\ UNCHANGED steps
    BY <1>8, DeadlineShows DEF AsyncAfterToolStep, AsyncNextCall, StopWith
  <2>3. stopReason' # "done" \/ stopReason' = stopReason
    BY <1>8, <2>1, DeadlineShows DEF AsyncAfterToolStep, AsyncNextCall, StopWith
  <2>4. pub'.status # "completed" \/ pub' = pub
    BY <1>8, DeadlineShows DEF AsyncAfterToolStep, lifecycleVars
  <2> QED
    BY <1>1, <2>2, <2>3, <2>4
<1>9. CASE AsyncAfterDispatch
  BY <1>9, <1>1, DeadlineShows DEF AsyncAfterDispatch, AfterTurn, StopWith, lifecycleVars
<1>10. CASE AsyncCheckDone
  <2>1. pc = "gate" /\ stopReason' = stopReason /\ pub'.status = "running"
    BY <1>10, MoveShows DEF AsyncCheckDone, reasonVars
  <2>2. CASE UNCHANGED steps
    <3>1. \/ pc' \in {"yield_blocked", "judge_done"}
          \/ pc' = "saving" /\ write'.next = "execute_done"
      <4>1. CASE Persist("pending", DoneStep, "execute_done")
        BY <4>1 DEF Persist
      <4>2. CASE ~Persist("pending", DoneStep, "execute_done")
        BY <1>10, <4>2 DEF AsyncCheckDone, Yield
      <4> QED
        BY <4>1, <4>2
    <3> QED
      BY <2>1, <2>2, <3>1, <1>1
  <2>3. CASE Yield(DoneStep, "blocked", FALSE, "yield_blocked")
    <3>1. ~Accepted
      BY <2>1 DEF AsyncAcceptInv, AtAccepted
    <3>2. ~Accepted'
      <4>1. PICK free : Yield(DoneStep, "blocked", free, "yield_blocked")
        BY <2>3, Zenon
      <4> QED
        BY <4>1, YieldAccepted DEF TurnInv, DataInv, DataType
    <3>3. ~Finishing'
      BY <2>3 DEF Yield
    <3> QED
      BY <2>1, <3>1, <3>2, <3>3 DEF AsyncAcceptInv
  <2> QED
    BY <1>10, <2>2, <2>3 DEF AsyncCheckDone
<1>11. CASE AsyncRecordJudgedStep
  BY <1>11, <1>1 DEF AsyncRecordJudgedStep, Persist, AfterTurn, lifecycleVars, reasonVars
<1>12. CASE AsyncRecordAcceptedStep
  <2>1. /\ pc = "accepted" /\ UNCHANGED <<steps, stopReason, pub>>
        /\ pc' = "saving" /\ write'.next = "done_saved"
    BY <1>12 DEF AsyncRecordAcceptedStep, Persist, lifecycleVars, reasonVars
  <2> QED
    BY <2>1, AcceptKept DEF AsyncAcceptInv, AtAccepted
<1>13. CASE AnnounceDone
  <2>1. pc = "done_saved" /\ pc' = "finish" /\ UNCHANGED <<steps, pub>>
    BY <1>13 DEF AnnounceDone, StopWith, lifecycleVars
  <2> QED
    BY <2>1, AcceptKept DEF AsyncAcceptInv, AtAccepted
<1>14. CASE AsyncFinalize
  <2>1. /\ pc = "finalize" /\ pc' \in {"returning", "unwind", "cancelled"}
        /\ UNCHANGED <<steps, stopReason, pub>>
    BY <1>14 DEF AsyncFinalize, lifecycleVars, reasonVars
  <2> QED
    BY <2>1, AcceptKept DEF AtAccepted
<1>15. CASE WriteEnds
  <2>1. /\ pc = "saving" /\ pc' \in {"cancelled", "unwind", write.next}
        /\ UNCHANGED <<steps, stopReason, pub>>
    BY <1>15 DEF WriteEnds, lifecycleVars, reasonVars
  <2>2. write.next \in {"execute", "execute_done", "after_step", "post_step", "top", "done_saved"}
    BY <2>1 DEF TurnInv, Writing, WritingGroup, WritingDone, WritingToolStep, WritingLastStep
  <2>3. Finishing' => Finishing
    BY <2>1, <2>2
  <2>4. AtAccepted => AtAccepted'
    BY <2>1 DEF AtAccepted
  <2> QED
    BY <2>1, <2>3, <2>4, AcceptKept DEF AsyncAcceptInv
<1> QED
  BY <1>2, <1>3, <1>4, <1>5, <1>6, <1>7, <1>8, <1>9, <1>10, <1>11, <1>12, <1>13, <1>14, <1>15

(* The frame, the tools, the requests and the host: nothing of theirs is   *)
(* an acceptance, and an interrupted run shows another status.             *)
LEMMA FrameAccepts ==
  ASSUME "done" \notin HookReasons, TurnInv, AsyncAcceptInv,
         \/ LeaveLoop \/ AsyncCloseStream \/ DrainEnds \/ LoopEndCleanup \/ PersistHarness
         \/ ToolStep \/ OrphanEnds \/ MakeRequest \/ RequestStep \/ AsyncHostStep \/ CancelTask
         \/ UNCHANGED allVars
  PROVE  AsyncAcceptInv'
<1> USE DEF AcceptedPoints, ClosedPoints, DrainedPoints, Finishing, AtAccepted
<1>1. CASE LeaveLoop \/ AsyncCloseStream
  <2>1. /\ UNCHANGED <<steps, stopReason>>
        /\ pc' \in ClosedPoints
        /\ pub' = pub \/ pub'.status \in {"failed", "cancelled", "stopped"}
    BY <1>1 DEF LeaveLoop, AsyncCloseStream, Leave, Shown, CancelPending, reasonVars
  <2> QED
    BY <2>1, AcceptKept
<1>2. CASE DrainEnds \/ LoopEndCleanup \/ PersistHarness
  <2>1. UNCHANGED <<steps, stopReason, pub>> /\ pc' \in ClosedPoints
    BY <1>2 DEF DrainEnds, LoopEndCleanup, PersistHarness, lifecycleVars, reasonVars
  <2> QED
    BY <2>1, AcceptKept
<1>3. CASE ToolStep
  <2>1. /\ UNCHANGED <<steps, stopReason, pub>> /\ pc \in ToolPoints
        /\ pc' \in {"execute", "execute_done", "collect", "judge_done"}
    BY <1>3 DEF ToolStep, BeginTool, RefuseTool, ToolEnds, Result, ToolPoints, lifecycleVars,
                reasonVars, vars
  <2> QED
    BY <2>1, AcceptKept DEF ToolPoints
<1>4. CASE CancelAtAwait \/ CancelAtTools \/ HookRaises
  <2>1. UNCHANGED <<steps, stopReason, pub>> /\ pc' \in {"cancelled", "unwind"}
    BY <1>4 DEF CancelAtAwait, CancelAtTools, HookRaises, lifecycleVars, reasonVars
  <2> QED
    BY <2>1, AcceptKept
<1>5. CASE OrphanEnds \/ MakeRequest \/ RequestStep
  <2>1. UNCHANGED <<steps, stopReason, pub, pc, write>>
    BY <1>5 DEF OrphanEnds, MakeRequest, RequestStep, GenerateReturns, ResolveRequest,
                SettleRequest, RequestMoves, lifecycleVars, reasonVars, vars
  <2> QED
    BY <2>1, AcceptKept DEF AsyncAcceptInv
<1>6. CASE CancelHeldBack \/ CancelDropped \/ UNCHANGED allVars
  <2>1. UNCHANGED <<steps, stopReason, pub, pc, write>>
    BY <1>6 DEF CancelHeldBack, CancelDropped, allVars, asyncVars, vars
  <2> QED
    BY <2>1, AcceptKept DEF AsyncAcceptInv
<1>7. CASE (CancelRun \/ DeadlinePasses) /\ Aside
  <2>1. UNCHANGED <<steps, stopReason, pub, pc, write>>
    BY <1>7 DEF CancelRun, DeadlinePasses, Aside, asyncVars, lifecycleVars, reasonVars
  <2> QED
    BY <2>1, AcceptKept DEF AsyncAcceptInv
<1> QED
  BY <1>1, <1>2, <1>3, <1>4, <1>5, <1>6, <1>7 DEF AsyncHostStep, CancelTask

(* Every step keeps AsyncAcceptInv, if no hook gives the reason "done". *)
LEMMA AsyncAcceptStep ==
  ASSUME "done" \notin HookReasons, TurnInv, AsyncAcceptInv, [AsyncNext]_allVars
  PROVE  AsyncAcceptInv'
<1>1. CASE Shared
  BY <1>1, SharedAccepts
<1>2. CASE AsyncLoopStep /\ ~Shared /\ ~(LeaveLoop \/ DrainEnds \/ LoopEndCleanup \/ PersistHarness)
  BY <1>2, LoopAccepts
  DEF AsyncLoopStep, Shared, AsyncStart, AsyncRequestModel, AsyncModelReturns,
      AsyncModelAnswered, AsyncRecordFailedStep, AsyncParseResponse, AsyncRecoverParse,
      AsyncGiveUpParse, AsyncPlanTurn, AsyncJudgeDone, AsyncAcceptDone, AsyncPostStep,
      AsyncFinish
<1>3. CASE LeaveLoop \/ AsyncCloseStream \/ DrainEnds \/ LoopEndCleanup \/ PersistHarness
  BY <1>3, FrameAccepts
<1>4. CASE \/ ToolStep \/ OrphanEnds \/ MakeRequest \/ RequestStep \/ AsyncHostStep
           \/ CancelTask \/ UNCHANGED allVars
  BY <1>4, FrameAccepts
<1> QED
  BY <1>1, <1>2, <1>3, <1>4 DEF AsyncNext, AsyncEnded

(* The caller of the asynchronous loop sees "completed" only after a       *)
(* terminal call that passed its gates and its own result, also when the   *)
(* task is cancelled while the last document is written; unless a host     *)
(* hook gives "done" as its reason for a stop.                             *)
THEOREM AsyncCompletedSafe ==
  ASSUME "done" \notin HookReasons
  PROVE  AsyncSpec => []CompletedMeansAccepted
<1>1. AsyncInit => AsyncAcceptInv
  <2> SUFFICES ASSUME AsyncInit PROVE AsyncAcceptInv
    OBVIOUS
  <2>1. pc = "start" /\ stopReason = "budget_exhausted" /\ pub.status = "created" /\ steps = <<>>
    BY DEF AsyncInit, Init
  <2> QED
    BY <2>1 DEF AsyncAcceptInv, Finishing, Accepted
<1>2. TurnInv /\ AsyncAcceptInv /\ [AsyncNext]_allVars => AsyncAcceptInv'
  BY AsyncAcceptStep
<1>3. AsyncAcceptInv => CompletedMeansAccepted
  BY DEF AsyncAcceptInv, Accepted, CompletedMeansAccepted
<1> QED
  BY <1>1, <1>2, <1>3, TurnInvariant, PTL DEF AsyncSpec

-----------------------------------------------------------------------------
(* Where the loop is, or goes on once the checkpoint is written. *)
Ahead == IF pc = "saving" THEN write.next ELSE pc

(* The points at which the loop looks at no stop any more, as in           *)
(* UnreadPoints, with those of the frame.                                  *)
AsyncUnreadPoints ==
  UnreadPoints \cup CleanupPoints \cup {"cancelled", "done_saved"}

(* A stop that was asked for is on record in one of the two flags, up to   *)
(* where the turn reads it; the head of the loop reads `done' alone, and a *)
(* rejected done() goes there without having read the other one.           *)
AsyncStopInv ==
  /\ asked \in BOOLEAN /\ hookStop \in BOOLEAN /\ done \in BOOLEAN
  /\ Ahead = "start" => ~asked
  /\ asked => hookStop \/ done \/ Ahead \in AsyncUnreadPoints
  /\ Ahead = "yield_rejected" => LastStep.kind = "rejected"
  /\ asked /\ Ahead = "top" => done \/ LastStep.kind = "rejected"

(* The loop goes on to a point that is none of the three special ones, and *)
(* asks for nothing.                                                       *)
LEMMA StopPasses ==
  ASSUME AsyncStopInv, UNCHANGED <<asked, hookStop, done>>,
         Ahead' \notin {"start", "yield_rejected", "top"},
         Ahead \in AsyncUnreadPoints => Ahead' \in AsyncUnreadPoints
  PROVE  AsyncStopInv'
BY DEF AsyncStopInv

(* Nothing of it changes, or the loop waits where it is. *)
LEMMA StopWaits ==
  ASSUME AsyncStopInv, UNCHANGED <<asked, hookStop, done, steps, pc, write>>
  PROVE  AsyncStopInv'
BY DEF AsyncStopInv, Ahead, LastStep

(* A model event or the check of the prompt asks for a stop, or not. *)
LEMMA StopDecided ==
  ASSUME AsyncStopInv, UNCHANGED done, pc \in {"prompt", "answered", "judge_done"},
         NEW point \in {"request", "answered", "parse", "yield_tool"}, HookDecides(point)
  PROVE  AsyncStopInv'
<1>1. pc' \in {"finish", point}
  BY DEF HookDecides
<1>2. \/ UNCHANGED <<asked, hookStop>>
      \/ asked' = TRUE /\ hookStop' = TRUE
  BY DEF HookDecides, reasonVars
<1>3. Ahead' \notin {"start", "yield_rejected", "top"}
  BY <1>1 DEF Ahead
<1>4. Ahead \notin AsyncUnreadPoints
  BY DEF Ahead, AsyncUnreadPoints, UnreadPoints, CleanupPoints
<1>5. CASE UNCHANGED <<asked, hookStop>>
  BY <1>3, <1>4, <1>5, StopPasses
<1>6. CASE asked' = TRUE /\ hookStop' = TRUE
  BY <1>3, <1>6 DEF AsyncStopInv
<1> QED
  BY <1>2, <1>5, <1>6

(* The actions taken over from AgentLoop. *)
LEMMA SharedStops ==
  ASSUME steps \in Seq(Step), AsyncStopInv, Shared, Aside
  PROVE  AsyncStopInv'
<1> USE DEF Ahead, AsyncUnreadPoints, UnreadPoints, CleanupPoints, Aside, asyncVars
<1>1. CASE Start
  BY <1>1 DEF Start, AsyncStopInv, reasonVars
<1>2. CASE LoopHead
  <2>1. pc = "top" /\ pc' \in {"finish", "prompt"} /\ hookStop' \in {hookStop, FALSE}
        /\ UNCHANGED done
    BY <1>2, DeadlineShows DEF LoopHead, StopWith, reasonVars
  <2>2. CASE pc' = "finish"
    <3>1. UNCHANGED asked
      BY <1>2, <2>2, DeadlineShows DEF LoopHead, reasonVars
    <3> QED
      BY <2>1, <2>2, <3>1 DEF AsyncStopInv
  <2>3. CASE pc' = "prompt"
    <3>1. asked' = FALSE
      BY <1>2, <2>3, DeadlineShows DEF LoopHead, StopWith
    <3> QED
      BY <2>1, <2>3, <3>1 DEF AsyncStopInv
  <2> QED
    BY <2>1, <2>2, <2>3
<1>3. CASE RequestModel \/ ModelReturns
  <2>1. UNCHANGED <<asked, hookStop>> /\ pc' \in {"finish", "await", "answered"}
        /\ pc \in {"request", "await"}
    BY <1>3, DeadlineShows DEF RequestModel, ModelReturns, CallReturned, reasonVars
  <2> QED
    BY <2>1, StopPasses
<1>4. CASE ModelAnswered
  BY <1>4, StopPasses, StopDecided DEF ModelAnswered, StopWith, Yield
<1>5. CASE RecordFailedStep \/ ParseResponse \/ RecoverParse \/ GiveUpParse \/ PlanTurn
  BY <1>5, StopPasses
  DEF RecordFailedStep, ParseResponse, RecoverParse, GiveUpParse, PlanTurn, StopWith, Yield,
      reasonVars
<1>6. CASE JudgeDone
  <2>1. asked' \in BOOLEAN /\ UNCHANGED <<hookStop, done>>
    BY <1>6 DEF JudgeDone, AsyncStopInv
  <2>2. CASE Yield(DoneStep, "rejected", FALSE, "yield_rejected")
    <3>1. LastStep'.kind = "rejected" /\ pc' = "yield_rejected"
      BY <2>2, YieldKind DEF Yield
    <3> QED
      BY <2>1, <3>1 DEF AsyncStopInv
  <2>3. CASE Yield(DoneStep, "accepted", FALSE, "yield_accepted")
    BY <2>1, <2>3 DEF AsyncStopInv, Yield
  <2> QED
    BY <1>6, <2>2, <2>3 DEF JudgeDone
<1>7. CASE PostStep
  <2>1. pc = "post_step" /\ UNCHANGED <<asked, hookStop, done>>
    BY <1>7 DEF PostStep
  <2>2. CASE pc' = "finish"
    BY <2>1, <2>2, StopPasses
  <2>3. CASE ~hookStop /\ pc' = "top"
    BY <2>1, <2>3 DEF AsyncStopInv
  <2> QED
    BY <1>7, <2>2, <2>3 DEF PostStep, StopWith
<1>8. CASE AcceptDone \/ Finish \/ HookRaises
  BY <1>8, StopPasses DEF AcceptDone, Finish, HookRaises, reasonVars
<1> QED
  BY <1>1, <1>2, <1>3, <1>4, <1>5, <1>6, <1>7, <1>8 DEF Shared

(* The actions of a turn that are the asynchronous loop's own. *)
LEMMA LoopStops ==
  ASSUME TurnInv, AsyncStopInv,
         \/ AsyncLoopHead \/ AsyncPrompt \/ AsyncRecoverOverflow \/ AsyncRecordUnparsedStep
         \/ AsyncIntercept \/ AsyncCollectResult \/ AsyncRecordToolStep \/ AsyncAfterToolStep
         \/ AsyncAfterDispatch \/ AsyncCheckDone \/ AsyncRecordJudgedStep
         \/ AsyncRecordAcceptedStep \/ AnnounceDone \/ AsyncFinalize \/ WriteEnds
  PROVE  AsyncStopInv'
<1>1. steps \in Seq(Step)
  BY DEF TurnInv, DataInv, DataType
<1> USE DEF Ahead, AsyncUnreadPoints, UnreadPoints, CleanupPoints, Aside, asyncVars
<1>2. CASE AsyncLoopHead
  <2>1. CASE LoopHead /\ Aside
    BY <1>1, <2>1, SharedStops DEF Shared
  <2>2. CASE ~(LoopHead /\ Aside)
    BY <1>2, <2>2, StopPasses DEF AsyncLoopHead, reasonVars
  <2> QED
    BY <2>1, <2>2
<1>3. CASE AsyncPrompt
  <2>1. UNCHANGED done /\ pc = "prompt"
    BY <1>3 DEF AsyncPrompt
  <2>2. CASE DeadlineStop /\ UNCHANGED <<hookStop, asked>>
    BY <2>1, <2>2, DeadlineShows, StopPasses
  <2> QED
    BY <1>3, <2>1, <2>2, StopDecided DEF AsyncPrompt
<1>4. CASE AsyncRecoverOverflow \/ AsyncRecordUnparsedStep \/ AsyncRecordToolStep
  BY <1>4, StopPasses
  DEF AsyncRecoverOverflow, AsyncRecordUnparsedStep, AsyncRecordToolStep, Persist, reasonVars
<1>5. CASE AsyncIntercept
  BY <1>5, StopPasses DEF AsyncIntercept, Persist, reasonVars
<1>6. CASE AsyncCollectResult
  <2>1. /\ pc = "collect" /\ pc' = "yield_tool" /\ UNCHANGED hookStop
    BY <1>6 DEF AsyncCollectResult
  <2>2. CASE UNCHANGED <<asked, done>>
    BY <2>1, <2>2, StopPasses
  <2>3. CASE asked' = TRUE /\ done' = TRUE
    BY <2>1, <2>3 DEF AsyncStopInv
  <2> QED
    BY <1>6, <2>2, <2>3 DEF AsyncCollectResult
<1>7. CASE AsyncAfterToolStep
  <2>1. /\ UNCHANGED <<asked, hookStop, done>> /\ pc = "after_step"
        /\ pc' \in {"collect", "dispatched", "finish", "intercept"}
    BY <1>7, DeadlineShows DEF AsyncAfterToolStep, AsyncNextCall, StopWith
  <2> QED
    BY <2>1, StopPasses
<1>8. CASE AsyncAfterDispatch
  <2>1. /\ UNCHANGED <<asked, hookStop, done>> /\ pc = "dispatched"
        /\ pc' \in {"finish", "gate", AfterTurn}
    BY <1>8, DeadlineShows DEF AsyncAfterDispatch, StopWith
  <2> QED
    BY <2>1 DEF AsyncStopInv, AfterTurn
<1>9. CASE AsyncCheckDone
  <2>1. UNCHANGED <<asked, hookStop, done>> /\ pc = "gate"
    BY <1>9 DEF AsyncCheckDone, reasonVars
  <2>2. \/ pc' \in {"yield_blocked", "judge_done"}
        \/ pc' = "saving" /\ write'.next = "execute_done"
    <3>1. CASE Persist("pending", DoneStep, "execute_done")
      BY <3>1 DEF Persist
    <3>2. CASE ~Persist("pending", DoneStep, "execute_done")
      BY <1>9, <3>2 DEF AsyncCheckDone, Yield
    <3> QED
      BY <3>1, <3>2
  <2> QED
    BY <2>1, <2>2, StopPasses
<1>10. CASE AsyncRecordJudgedStep
  <2>1. /\ pc \in {"yield_blocked", "yield_rejected"} /\ pc' = "saving"
        /\ write'.next = (IF pc = "yield_blocked" THEN AfterTurn ELSE "top")
        /\ UNCHANGED <<asked, hookStop, done, steps>>
    BY <1>10 DEF AsyncRecordJudgedStep, Persist, reasonVars
  <2>2. LastStep' = LastStep
    BY <2>1 DEF LastStep
  <2> QED
    BY <2>1, <2>2 DEF AsyncStopInv, AfterTurn
<1>11. CASE AsyncRecordAcceptedStep
  BY <1>11, StopPasses DEF AsyncRecordAcceptedStep, Persist, reasonVars
<1>12. CASE AnnounceDone \/ AsyncFinalize
  BY <1>12, StopPasses DEF AnnounceDone, StopWith, AsyncFinalize, reasonVars
<1>13. CASE WriteEnds
  <2>1. /\ pc = "saving" /\ pc' \in {"cancelled", "unwind", write.next}
        /\ UNCHANGED <<asked, hookStop, done, steps>>
    BY <1>13 DEF WriteEnds, reasonVars
  <2>2. write.next \in {"execute", "execute_done", "after_step", "post_step", "top", "done_saved"}
    BY <2>1 DEF TurnInv, Writing, WritingGroup, WritingDone, WritingToolStep, WritingLastStep
  <2>3. LastStep' = LastStep
    BY <2>1 DEF LastStep
  <2> QED
    BY <2>1, <2>2, <2>3 DEF AsyncStopInv
<1> QED
  BY <1>2, <1>3, <1>4, <1>5, <1>6, <1>7, <1>8, <1>9, <1>10, <1>11, <1>12, <1>13

(* The frame, the tools, the requests and the host. *)
LEMMA FrameStops ==
  ASSUME AsyncStopInv,
         \/ LeaveLoop \/ AsyncCloseStream \/ DrainEnds \/ LoopEndCleanup \/ PersistHarness
         \/ ToolStep \/ OrphanEnds \/ MakeRequest \/ RequestStep
         \/ (CancelRun \/ DeadlinePasses) /\ Aside
         \/ CancelTask \/ UNCHANGED allVars
  PROVE  AsyncStopInv'
<1> USE DEF Ahead, AsyncUnreadPoints, UnreadPoints, CleanupPoints
<1>1. CASE LeaveLoop \/ AsyncCloseStream
  BY <1>1, StopPasses DEF LeaveLoop, AsyncCloseStream, Leave, CancelPending, reasonVars
<1>2. CASE DrainEnds \/ LoopEndCleanup \/ PersistHarness
  BY <1>2, StopPasses DEF DrainEnds, LoopEndCleanup, PersistHarness, Aside, asyncVars, reasonVars
<1>3. CASE ToolStep
  <2>1. /\ UNCHANGED <<asked, hookStop, done>> /\ pc \in ToolPoints
        /\ pc' \in {"execute", "execute_done", "collect", "judge_done"}
    BY <1>3 DEF ToolStep, BeginTool, RefuseTool, ToolEnds, Result, ToolPoints, reasonVars, vars
  <2> QED
    BY <2>1, StopPasses DEF ToolPoints
<1>4. CASE CancelAtAwait \/ CancelAtTools
  BY <1>4, StopPasses DEF CancelAtAwait, CancelAtTools, reasonVars
<1>5. CASE OrphanEnds \/ MakeRequest \/ RequestStep
  BY <1>5, StopWaits
  DEF OrphanEnds, MakeRequest, RequestStep, GenerateReturns, ResolveRequest, SettleRequest,
      RequestMoves, reasonVars, vars
<1>6. CASE CancelHeldBack \/ CancelDropped \/ UNCHANGED allVars
  BY <1>6, StopWaits DEF CancelHeldBack, CancelDropped, allVars, asyncVars, vars
<1>7. CASE (CancelRun \/ DeadlinePasses) /\ Aside
  BY <1>7, StopWaits DEF CancelRun, DeadlinePasses, Aside, asyncVars, reasonVars
<1> QED
  BY <1>1, <1>2, <1>3, <1>4, <1>5, <1>6, <1>7 DEF CancelTask

(* Every step of the asynchronous run keeps AsyncStopInv. *)
LEMMA AsyncStopStep ==
  ASSUME TurnInv, AsyncStopInv, [AsyncNext]_allVars
  PROVE  AsyncStopInv'
<1>1. steps \in Seq(Step)
  BY DEF TurnInv, DataInv, DataType
<1>2. CASE Shared /\ Aside
  BY <1>1, <1>2, SharedStops
<1>3. CASE AsyncLoopStep /\ ~(Shared /\ Aside)
  BY <1>3, LoopStops, FrameStops
  DEF AsyncLoopStep, Shared, AsyncStart, AsyncRequestModel, AsyncModelReturns,
      AsyncModelAnswered, AsyncRecordFailedStep, AsyncParseResponse, AsyncRecoverParse,
      AsyncGiveUpParse, AsyncPlanTurn, AsyncJudgeDone, AsyncAcceptDone, AsyncPostStep,
      AsyncFinish
<1>4. CASE AsyncHostStep
  BY <1>1, <1>4, SharedStops, FrameStops DEF AsyncHostStep, Shared
<1>5. CASE \/ ToolStep \/ OrphanEnds \/ MakeRequest \/ RequestStep \/ AsyncCloseStream
           \/ CancelTask \/ UNCHANGED allVars
  BY <1>5, FrameStops
<1> QED
  BY <1>2, <1>3, <1>4, <1>5 DEF AsyncNext, AsyncEnded

(* From the head of the loop only LoopHead reaches a turn, and only while   *)
(* `done' is not set.                                                      *)
LEMMA TopLeft ==
  ASSUME [AsyncNext]_allVars, pc = "top", pc' = "prompt"
  PROVE  ~done
<1>1. ~(ToolStep \/ OrphanEnds \/ MakeRequest \/ RequestStep \/ AsyncCloseStream
        \/ AsyncHostStep \/ CancelTask \/ UNCHANGED allVars)
  BY DEF ToolStep, BeginTool, RefuseTool, ToolEnds, ToolPoints, OrphanEnds, MakeRequest,
         RequestStep, GenerateReturns, ResolveRequest, SettleRequest, RequestMoves,
         AsyncCloseStream, YieldPoints, AsyncHostStep, HookRaises, CancelRun, DeadlinePasses,
         CancelTask, CancelAtAwait, CancelAtTools, CancelHeldBack, CancelDropped, AwaitPoints,
         allVars, asyncVars, vars
<1>2. AsyncLoopStep
  BY <1>1 DEF AsyncNext, AsyncEnded
<1>3. AsyncLoopHead
  BY <1>2
  DEF AsyncLoopStep, AsyncStart, Start, AsyncPrompt, AsyncRequestModel, RequestModel,
      AsyncModelReturns, ModelReturns, AsyncRecoverOverflow, AsyncModelAnswered, ModelAnswered,
      AsyncRecordFailedStep, RecordFailedStep, AsyncParseResponse, ParseResponse,
      AsyncRecoverParse, RecoverParse, AsyncGiveUpParse, GiveUpParse, AsyncRecordUnparsedStep,
      AsyncPlanTurn, PlanTurn, AsyncIntercept, AsyncCollectResult, AsyncRecordToolStep,
      AsyncAfterToolStep, AsyncAfterDispatch, AsyncCheckDone, AsyncJudgeDone, JudgeDone,
      AsyncRecordJudgedStep, AsyncAcceptDone, AcceptDone, AsyncRecordAcceptedStep, AnnounceDone,
      AsyncPostStep, PostStep, AsyncFinish, Finish, AsyncFinalize, WriteEnds, LeaveLoop,
      DrainEnds, LoopEndCleanup, PersistHarness
<1> QED
  BY <1>3 DEF AsyncLoopHead

(* A stop that a hook asks for keeps the next turn of the asynchronous     *)
(* loop from beginning, whichever of its two flags it was put into, unless *)
(* the turn ended in a rejected done().                                    *)
THEOREM AsyncStopHonoured == AsyncSpec => StopHonoured
<1>1. AsyncInit => AsyncStopInv
  BY DEF AsyncInit, Init, AsyncStopInv, Ahead
<1>2. TurnInv /\ AsyncStopInv /\ [AsyncNext]_allVars => AsyncStopInv'
  BY AsyncStopStep
<1>3. TurnInv /\ AsyncStopInv /\ [AsyncNext]_allVars
      => [(asked /\ pc = "top" /\ pc' = "prompt") => LastStep.kind = "rejected"]_vars
  <2> SUFFICES ASSUME AsyncStopInv, [AsyncNext]_allVars, asked, pc = "top", pc' = "prompt"
               PROVE  ~done
    BY DEF AsyncStopInv, Ahead
  <2> QED
    BY TopLeft
<1> QED
  BY <1>1, <1>2, <1>3, TurnInvariant, PTL DEF AsyncSpec, StopHonoured
=============================================================================
