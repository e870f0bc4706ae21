-------------------------- MODULE AgentLoopProofs --------------------------
(***************************************************************************)
(* Proofs about AgentLoop for every budget, turn size, set of stop reasons *)
(* and configuration.                                                      *)
(***************************************************************************)
EXTENDS AgentLoop, FiniteSetTheorems, SequenceTheorems, WellFoundedInduction, TLAPS

-----------------------------------------------------------------------------
(* The finalizer holds its hooks exactly as long as they have not run. *)
CleanupInv ==
  /\ hooksBound \in BOOLEAN
  /\ hooksBound => loopEnds = 0
  /\ ~hooksBound => loopEnds = 1
  /\ pc = "ended" => ~hooksBound

(* on_loop_end runs exactly once, on every way out of a run. *)
THEOREM CleanupSafe == Spec => []CleanupOnce
<1>1. Init => CleanupInv
  BY DEF Init, CleanupInv
<1>2. CleanupInv /\ [Next]_vars => CleanupInv'
  <2> SUFFICES ASSUME CleanupInv, [Next]_vars PROVE CleanupInv'
    OBVIOUS
  <2>0. ASSUME RunLoopEndHooks PROVE CleanupInv'
    <3>1. hooksBound' = FALSE
      BY <2>0 DEF RunLoopEndHooks
    <3>2. CASE hooksBound
      <4>1. loopEnds' = loopEnds + 1
        BY <3>2, <2>0 DEF RunLoopEndHooks
      <4>2. loopEnds = 0
        BY <3>2 DEF CleanupInv
      <4>3. loopEnds' = 1
        BY <4>1, <4>2
      <4> QED
        BY <3>1, <4>3 DEF CleanupInv
    <3>3. CASE ~hooksBound
      <4>1. loopEnds' = loopEnds + 0
        BY <3>3, <2>0 DEF RunLoopEndHooks
      <4>2. loopEnds = 1
        BY <3>3 DEF CleanupInv
      <4>3. loopEnds' = 1
        BY <4>1, <4>2
      <4> QED
        BY <3>1, <4>3 DEF CleanupInv
    <3> QED
      BY <3>2, <3>3
  <2>1. CASE Finalize
    BY <2>1, <2>0 DEF Finalize
  <2>2. CASE Unwind
    BY <2>2, <2>0 DEF Unwind
  <2>3. CASE CloseStream
    BY <2>3, <2>0 DEF CloseStream
  <2>4. CASE UNCHANGED vars
    BY <2>4 DEF CleanupInv, vars
  <2>5. CASE Ended
    BY <2>5 DEF Ended, CleanupInv, vars
  <2>6. ASSUME UNCHANGED endVars, pc' # "ended" PROVE CleanupInv'
    BY <2>6 DEF CleanupInv, endVars
  <2>7. CASE Start BY <2>7, <2>6 DEF Start
  <2>8. CASE LoopHead BY <2>8, <2>6 DEF LoopHead, DeadlineStop, StopWith
  <2>9. CASE Prompt BY <2>9, <2>6 DEF Prompt, HookDecides
  <2>10. CASE RequestModel BY <2>10, <2>6 DEF RequestModel, CallReturned, DeadlineStop, StopWith
  <2>11. CASE ModelReturns BY <2>11, <2>6 DEF ModelReturns, CallReturned, DeadlineStop, StopWith
  <2>12. CASE RecoverOverflow BY <2>12, <2>6 DEF RecoverOverflow
  <2>13. CASE ModelAnswered BY <2>13, <2>6 DEF ModelAnswered, HookDecides, StopWith, Yield
  <2>14. CASE RecordFailedStep BY <2>14, <2>6 DEF RecordFailedStep, StopWith
  <2>15. CASE ParseResponse BY <2>15, <2>6 DEF ParseResponse
  <2>16. CASE RecoverParse BY <2>16, <2>6 DEF RecoverParse
  <2>17. CASE GiveUpParse BY <2>17, <2>6 DEF GiveUpParse, Yield
  <2>18. CASE RecordUnparsedStep BY <2>18, <2>6 DEF RecordUnparsedStep
  <2>19. CASE PlanTurn BY <2>19, <2>6 DEF PlanTurn
  <2>20. CASE Intercept BY <2>20, <2>6 DEF Intercept
  <2>21. CASE RunTool BY <2>21, <2>6 DEF RunTool
  <2>22. CASE CollectResult BY <2>22, <2>6 DEF CollectResult, HookDecides
  <2>23. CASE RecordToolStep BY <2>23, <2>6 DEF RecordToolStep
  <2>24. CASE AfterToolStep BY <2>24, <2>6 DEF AfterToolStep, DeadlineStop, NextCall, StopWith
  <2>25. CASE AfterDispatch BY <2>25, <2>6 DEF AfterDispatch, DeadlineStop, StopWith
  <2>26. CASE CheckDone BY <2>26, <2>6 DEF CheckDone, Yield
  <2>27. CASE ExecuteDone BY <2>27, <2>6 DEF ExecuteDone
  <2>28. CASE JudgeDone BY <2>28, <2>6 DEF JudgeDone, Yield
  <2>29. CASE RecordBlockedStep BY <2>29, <2>6 DEF RecordBlockedStep
  <2>30. CASE RecordRejectedStep BY <2>30, <2>6 DEF RecordRejectedStep
  <2>31. CASE AcceptDone BY <2>31, <2>6 DEF AcceptDone
  <2>32. CASE RecordAcceptedStep BY <2>32, <2>6 DEF RecordAcceptedStep, StopWith
  <2>33. CASE PostStep BY <2>33, <2>6 DEF PostStep, StopWith
  <2>34. CASE Finish BY <2>34, <2>6 DEF Finish
  <2>35. CASE HookRaises \/ DispatchRaises BY <2>35, <2>6 DEF HookRaises, DispatchRaises
  <2>36. CASE CancelRun
    BY <2>36 DEF CancelRun, CleanupInv, endVars
  <2>37. CASE DeadlinePasses
    BY <2>37 DEF DeadlinePasses, CleanupInv, endVars
  <2> QED
    BY <2>1, <2>2, <2>3, <2>4, <2>5, <2>7, <2>8, <2>9, <2>10, <2>11, <2>12, <2>13, <2>14,
       <2>15, <2>16, <2>17, <2>18, <2>19, <2>20, <2>21, <2>22, <2>23, <2>24, <2>25, <2>26,
       <2>27, <2>28, <2>29, <2>30, <2>31, <2>32, <2>33, <2>34, <2>35, <2>36, <2>37
    DEF Next, LoopStep, HostStep
<1>3. CleanupInv => CleanupOnce
  BY DEF CleanupInv, CleanupOnce
<1> QED
  BY <1>1, <1>2, <1>3, PTL DEF Spec

-----------------------------------------------------------------------------
(* The conjuncts of TypeOK about control; they do not depend on the data. *)
ControlType ==
  /\ config \in Configs
  /\ pc \in Points
  /\ ctx \in Lifecycles /\ pub \in Lifecycles
  /\ stopReason \in Reasons
  /\ hookStop \in BOOLEAN /\ llmFailed \in BOOLEAN /\ asked \in BOOLEAN
  /\ llm \in {"ok", "overflow", "failed"}
  /\ strategies \in 0..Strategies /\ parseFails \in 0..ParseRecoveryMax + 1
  /\ clock \in Nat /\ lateGroups \in Nat
  /\ cancelled \in BOOLEAN /\ late \in BOOLEAN
  /\ hooksBound \in BOOLEAN /\ loopEnds \in Nat
  /\ outcome \in {"none", "returned", "raised", "closed"}

(* A legal move leads to a status and a phase of the lifecycle. *)
LEMMA MoveType ==
  ASSUME ctx \in Lifecycles, NEW s \in RunStatuses, NEW p \in RunPhases,
         NEW r \in Reasons \cup {NoReason}, Move(s, p, r)
  PROVE  ctx' \in Lifecycles /\ pub' \in Lifecycles
BY DEF Move, Lifecycles

(* The break on an expired deadline leaves control well typed. *)
LEMMA DeadlineStopType ==
  ASSUME ControlType, DeadlineStop
  PROVE  /\ ctx' \in Lifecycles /\ pub' \in Lifecycles
         /\ cancelled' \in BOOLEAN
         /\ stopReason' \in Reasons /\ pc' = "finish"
<1>1. ctx' \in Lifecycles /\ pub' \in Lifecycles
  BY MoveType DEF ControlType, DeadlineStop, RunStatuses, RunPhases, Reasons
<1>2. cancelled' \in BOOLEAN
  BY DEF DeadlineStop
<1>3. stopReason' \in Reasons /\ pc' = "finish"
  BY DEF DeadlineStop, StopWith, Reasons
<1> QED
  BY <1>1, <1>2, <1>3

(* So does a hook's decision, with or without a stop. *)
LEMMA HookDecidesType ==
  ASSUME ControlType, NEW point \in Points, HookDecides(point)
  PROVE  /\ pc' \in Points
         /\ stopReason' \in Reasons
         /\ hookStop' \in BOOLEAN /\ llmFailed' \in BOOLEAN /\ asked' \in BOOLEAN
BY DEF ControlType, HookDecides, reasonVars, Reasons

(* And the finalizer, whether or not it still holds its hooks. *)
LEMMA RunLoopEndHooksType ==
  ASSUME ControlType, RunLoopEndHooks
  PROVE  hooksBound' \in BOOLEAN /\ loopEnds' \in Nat
<1>1. (IF hooksBound THEN 1 ELSE 0) \in Nat
  OBVIOUS
<1>2. loopEnds' \in Nat
  BY <1>1 DEF ControlType, RunLoopEndHooks
<1> QED
  BY <1>2 DEF RunLoopEndHooks

(* Every step of the run keeps them. *)
LEMMA ControlStep ==
  ASSUME ControlType, [Next]_vars
  PROVE  ControlType'
<1> USE DEF ControlType, Points, lifecycleVars, reasonVars, modelVars, storeVars, toolVars,
            hostVars, endVars, fixedVars
<1>1. CASE Start
  BY <1>1, MoveType DEF Start, RunStatuses, RunPhases
<1>2. CASE LoopHead
  <2>1. CASE Remaining = 0
    BY <1>2, <2>1 DEF LoopHead
  <2>2. CASE DeadlineStop
    BY <1>2, <2>2, DeadlineStopType DEF LoopHead, DeadlineStop
  <2>3. CASE ~late /\ Move("running", "prompting", NoReason)
    <3>1. ctx' \in Lifecycles /\ pub' \in Lifecycles
      BY <2>3, MoveType DEF RunStatuses, RunPhases
    <3>2. /\ pc' \in Points /\ stopReason' \in Reasons
          /\ hookStop' \in BOOLEAN /\ asked' \in BOOLEAN
          /\ UNCHANGED <<llmFailed, hostVars>>
      BY <1>2, <2>3 DEF LoopHead, StopWith, Reasons, DeadlineStop
    <3> QED
      BY <1>2, <3>1, <3>2 DEF LoopHead
  <2> QED
    BY <1>2, <2>1, <2>2, <2>3 DEF LoopHead
<1>3. CASE Prompt
  BY <1>3, MoveType, HookDecidesType DEF Prompt, RunStatuses, RunPhases
<1>4. CASE RequestModel
  BY <1>4, DeadlineStopType DEF RequestModel, CallReturned
<1>5. CASE ModelReturns
  BY <1>5, DeadlineStopType DEF ModelReturns, CallReturned
<1>6. CASE RecoverOverflow
  <2>1. ctx' \in Lifecycles /\ pub' \in Lifecycles
    BY <1>6, MoveType DEF RecoverOverflow, RunStatuses, RunPhases, Reasons
  <2>2. cancelled' \in BOOLEAN /\ late' \in BOOLEAN
    BY <1>6, ConfigAssumption DEF RecoverOverflow
  <2>3. strategies' \in 0..Strategies
    BY <1>6 DEF RecoverOverflow, Recoverable, Strategies
  <2>4. llm' \in {"ok", "overflow", "failed"}
    BY <1>6 DEF RecoverOverflow
  <2> QED
    BY <1>6, <2>1, <2>2, <2>3, <2>4 DEF RecoverOverflow
<1>7. CASE ModelAnswered
  <2>1. /\ pc' \in Points /\ stopReason' \in Reasons
        /\ hookStop' \in BOOLEAN /\ llmFailed' \in BOOLEAN /\ asked' \in BOOLEAN
    <3>1. CASE HookDecides("parse")
      BY <3>1, HookDecidesType
    <3>2. CASE StopWith("cancelled") /\ UNCHANGED <<hookStop, llmFailed, asked>>
      BY <3>2 DEF StopWith, Reasons
    <3>3. CASE /\ llmFailed' = TRUE /\ Yield(stepNum, "llm_error", FALSE, "yield_failed")
               /\ UNCHANGED <<stopReason, hookStop, asked>>
      BY <3>3 DEF Yield
    <3> QED
      BY <1>7, <3>1, <3>2, <3>3 DEF ModelAnswered
  <2> QED
    BY <1>7, <2>1 DEF ModelAnswered
<1>8. CASE RecordFailedStep
  BY <1>8 DEF RecordFailedStep, StopWith, Reasons, FailureReasons
<1>9. CASE ParseResponse
  BY <1>9, RecoveryAssumption DEF ParseResponse
<1>10. CASE RecoverParse
  BY <1>10 DEF RecoverParse
<1>11. CASE GiveUpParse
  BY <1>11 DEF GiveUpParse, Yield
<1>12. CASE RecordUnparsedStep
  BY <1>12 DEF RecordUnparsedStep
<1>13. CASE PlanTurn
  BY <1>13, MoveType DEF PlanTurn, RunStatuses, RunPhases
<1>14. CASE Intercept
  BY <1>14 DEF Intercept, Save
<1>15. CASE RunTool
  BY <1>15 DEF RunTool
<1>16. CASE CollectResult
  BY <1>16, HookDecidesType DEF CollectResult
<1>17. CASE RecordToolStep
  BY <1>17 DEF RecordToolStep, Save
<1>18. CASE AfterToolStep
  BY <1>18, DeadlineStopType DEF AfterToolStep, NextCall, StopWith, Reasons
<1>19. CASE AfterDispatch
  BY <1>19, DeadlineStopType DEF AfterDispatch, StopWith, Reasons
<1>20. CASE CheckDone
  <2>1. ctx' \in Lifecycles /\ pub' \in Lifecycles
    BY <1>20, MoveType DEF CheckDone, RunStatuses, RunPhases
  <2>2. pc' \in Points
    BY <1>20 DEF CheckDone, Yield
  <2>3. clock' \in Nat
    <3>1. clock' = clock \/ clock' = clock + 1
      BY <1>20, Zenon DEF CheckDone, Save
    <3> QED
      BY <3>1
  <2>4. lateGroups' \in Nat
    <3>1. \/ lateGroups' = lateGroups
          \/ lateGroups' = lateGroups + (IF cancelled THEN 1 ELSE 0)
      BY <1>20, Zenon DEF CheckDone
    <3> QED
      BY <3>1
  <2> QED
    BY <1>20, <2>1, <2>2, <2>3, <2>4 DEF CheckDone
<1>21. CASE ExecuteDone
  BY <1>21 DEF ExecuteDone
<1>22. CASE JudgeDone
  <2>1. asked' \in BOOLEAN
    BY <1>22, Zenon DEF JudgeDone
  <2> QED
    BY <1>22, <2>1 DEF JudgeDone, Yield
<1>23. CASE RecordBlockedStep
  BY <1>23 DEF RecordBlockedStep, Save
<1>24. CASE RecordRejectedStep
  BY <1>24 DEF RecordRejectedStep, Save
<1>25. CASE AcceptDone
  BY <1>25, MoveType DEF AcceptDone, RunStatuses, RunPhases, Reasons
<1>26. CASE RecordAcceptedStep
  BY <1>26 DEF RecordAcceptedStep, Save, StopWith, Reasons
<1>27. CASE PostStep
  BY <1>27 DEF PostStep, StopWith, Reasons
<1>28. CASE Finish
  BY <1>28, MoveType DEF Finish, FinalStatus, RunStatuses, RunPhases
<1>29. CASE Finalize
  BY <1>29, RunLoopEndHooksType DEF Finalize
<1>30. CASE Unwind
  <2>1. pub' \in Lifecycles
    BY <1>30 DEF Unwind, Lifecycles, RunStatuses, RunPhases
  <2> QED
    BY <1>30, <2>1, RunLoopEndHooksType DEF Unwind
<1>31. CASE HookRaises \/ DispatchRaises
  BY <1>31 DEF HookRaises, DispatchRaises
<1>32. CASE CloseStream
  <2>1. pub' \in Lifecycles
    BY <1>32 DEF CloseStream, Lifecycles, RunStatuses, RunPhases
  <2> QED
    BY <1>32, <2>1, RunLoopEndHooksType DEF CloseStream
<1>33. CASE CancelRun
  BY <1>33 DEF CancelRun
<1>34. CASE DeadlinePasses
  BY <1>34 DEF DeadlinePasses
<1>35. CASE Ended \/ UNCHANGED vars
  BY <1>35 DEF Ended, vars
<1> QED
  BY <1>1, <1>2, <1>3, <1>4, <1>5, <1>6, <1>7, <1>8, <1>9, <1>10, <1>11, <1>12, <1>13,
     <1>14, <1>15, <1>16, <1>17, <1>18, <1>19, <1>20, <1>21, <1>22, <1>23, <1>24, <1>25,
     <1>26, <1>27, <1>28, <1>29, <1>30, <1>31, <1>32, <1>33, <1>34, <1>35
  DEF Next, LoopStep, HostStep

-----------------------------------------------------------------------------
(* Facts about the data.                                                   *)

(* Every nonempty set of numbers has a least element. *)
LEMMA LeastNumber ==
  ASSUME NEW S \in SUBSET Nat, S # {}
  PROVE  \E n \in S : \A m \in S : n <= m
<1>1. \E x \in S : \A y \in S : <<y, x>> \notin OpToRel(<, Nat)
  BY NatLessThanWellFounded, WFMin, Zenon
<1>2. OpToRel(<, Nat) = {ss \in Nat \X Nat : ss[1] < ss[2]}
  BY Zenon DEF OpToRel
<1>3. \A x, y \in Nat : y < x => <<y, x>> \in {ss \in Nat \X Nat : ss[1] < ss[2]}
  OBVIOUS
<1>4. \A x, y \in Nat : y < x => <<y, x>> \in OpToRel(<, Nat)
  BY <1>2, <1>3, Zenon
<1>5. PICK x \in S : \A y \in S : ~(y < x)
  BY <1>1, <1>4, Zenon
<1> QED
  BY <1>5

(* A function on 1..k is a sequence of length k. *)
LEMMA FunctionIsSeq ==
  ASSUME NEW S, NEW n \in Nat, NEW f \in [1..n -> S]
  PROVE  f \in Seq(S) /\ Len(f) = n
OBVIOUS

(* The first terminal call of a turn is one of its calls; the ordinary     *)
(* calls are those before it.                                              *)
LEMMA TerminalFacts ==
  ASSUME NEW cs \in Seq(Calls)
  PROVE  /\ TerminalIndex(cs) \in 0..Len(cs)
         /\ RegularCount(cs) \in 0..Len(cs)
         /\ TerminalIndex(cs) # 0 => RegularCount(cs) = TerminalIndex(cs) - 1
<1> DEFINE T == {i \in DOMAIN cs : cs[i] \in TerminalCalls}
<1>1. CASE T = {}
  <2>1. TerminalIndex(cs) = 0
    BY <1>1 DEF TerminalIndex
  <2> QED
    BY <2>1 DEF RegularCount
<1>2. CASE T # {}
  <2>1. DOMAIN cs = 1..Len(cs)
    OBVIOUS
  <2>2. PICK i \in T : \A j \in T : i <= j
    <3>1. T \in SUBSET Nat
      BY <2>1
    <3> HIDE DEF T
    <3> QED
      BY <1>2, <3>1, LeastNumber, Zenon
  <2>3. \E k \in DOMAIN cs :
          cs[k] \in TerminalCalls /\ \A j \in DOMAIN cs : cs[j] \in TerminalCalls => k <= j
    BY <2>2
  <2>4. TerminalIndex(cs) \in DOMAIN cs
    BY <1>2, <2>3, Zenon DEF TerminalIndex
  <2> QED
    BY <2>1, <2>4 DEF RegularCount
<1> QED
  BY <1>1, <1>2

(* What the parser returns is a turn. *)
LEMMA ProposalFacts ==
  ASSUME NEW cs \in Proposals
  PROVE  cs \in Seq(Calls)
<1> DEFINE U == UNION {[1..k -> Calls \ {"text"}] : k \in 1..MaxCalls}
           t == <<"text">>
<1>1. cs \in U \cup {t}
  BY DEF Proposals
<1>2. t \in Seq(Calls)
  BY DEF Calls, TerminalCalls
<1>3. ASSUME NEW k \in 1..MaxCalls, cs \in [1..k -> Calls \ {"text"}]
      PROVE  cs \in Seq(Calls)
  <2>1. k \in Nat /\ cs \in [1..k -> Calls]
    BY <1>3, TurnAssumption
  <2> QED
    BY <2>1, FunctionIsSeq, Zenon
<1>4. CASE cs \in U
  BY <1>3, <1>4, Zenon
<1> HIDE DEF U, t
<1> QED
  BY <1>1, <1>2, <1>4

Step == [n : Nat, kind : StepKinds, free : BOOLEAN]

(* One more step charges at most one. *)
LEMMA ChargedFacts ==
  ASSUME NEW ss \in Seq(Step)
  PROVE  /\ Charged(ss) \in Nat
         /\ \A s \in Step : /\ Charged(Append(ss, s)) \in Nat
                            /\ Charged(Append(ss, s)) <= Charged(ss) + 1
<1> DEFINE C(zs) == {i \in DOMAIN zs : ~zs[i].free}
<1>1. IsFiniteSet(C(ss)) /\ Cardinality(C(ss)) \in Nat
  <2>1. IsFiniteSet(1..Len(ss))
    BY FS_Interval
  <2>2. C(ss) \in SUBSET (1..Len(ss))
    OBVIOUS
  <2> QED
    BY <2>1, <2>2, FS_Subset, FS_CardinalityType
<1>2. ASSUME NEW s \in Step
      PROVE  /\ Cardinality(C(Append(ss, s))) \in Nat
             /\ Cardinality(C(Append(ss, s))) <= Cardinality(C(ss)) + 1
  <2> DEFINE A == C(ss)
             B == A \cup {Len(ss) + 1}
             D == C(Append(ss, s))
  <2>1. D \in SUBSET B
    OBVIOUS
  <2>2. IsFiniteSet(A) /\ Cardinality(A) \in Nat
    BY <1>1
  <2> HIDE DEF A, D
  <2>3. IsFiniteSet(B) /\ (Cardinality(B) = Cardinality(A) \/ Cardinality(B) = Cardinality(A) + 1)
    <3>1. Cardinality(B) = IF Len(ss) + 1 \in A THEN Cardinality(A) ELSE Cardinality(A) + 1
      BY <2>2, FS_AddElement, Zenon
    <3>2. IsFiniteSet(B)
      BY <2>2, FS_AddElement, Zenon
    <3> QED
      BY <3>1, <3>2, Zenon
  <2> HIDE DEF B
  <2>4. IsFiniteSet(D) /\ Cardinality(D) <= Cardinality(B)
    BY <2>1, <2>3, FS_Subset
  <2>5. Cardinality(D) \in Nat
    BY <2>4, FS_CardinalityType
  <2>6. Cardinality(D) <= Cardinality(A) + 1
    BY <2>2, <2>3, <2>4, <2>5
  <2> QED
    BY <2>5, <2>6 DEF A, D
<1> QED
  BY <1>1, <1>2 DEF Charged

(* A turn is cut to what the budget admits. *)
LEMMA AdmitFacts ==
  ASSUME NEW cs \in Seq(Calls), Remaining \in Nat
  PROVE  Admit(cs) \in Seq(Calls) /\ Len(Admit(cs)) <= Remaining
<1> DEFINE k == IF Len(cs) <= Remaining THEN Len(cs) ELSE Remaining
<1>1. k \in 0..Len(cs) /\ k <= Remaining
  OBVIOUS
<1>2. Admit(cs) = SubSeq(cs, 1, k)
  BY DEF Admit
<1>3. SubSeq(cs, 1, k) \in Seq(Calls) /\ Len(SubSeq(cs, 1, k)) = k
  <2>1. \A i \in 1..k : cs[i] \in Calls
    BY <1>1, ElementOfSeq
  <2> HIDE DEF k
  <2> QED
    BY <1>1, <2>1, SubSeqProperties
<1> QED
  BY <1>1, <1>2, <1>3

-----------------------------------------------------------------------------
(* Where the turn stands: what the numbers computed from step_num and the  *)
(* position in the turn, and the budget checked once per turn, rely on.    *)
Deciding == {"prompt", "request", "await", "answered", "parse", "unparsed", "plan"}
Running == {"intercept", "execute", "collect"}
Dispatching == Running \cup {"yield_tool", "after_step", "dispatched"}
Completing == {"gate", "execute_done", "judge_done"}

DataType ==
  /\ steps \in Seq(Step)
  /\ stepNum \in Nat /\ calls \in Seq(Calls) /\ at \in Nat
  /\ batch \in Seq([ran : BOOLEAN, ok : BOOLEAN]) /\ running \in SUBSET Nat
  /\ offset \in Nat /\ budgetOffset \in Nat
  /\ effects \in SUBSET Nat

Position ==
  /\ pc \in Deciding => /\ stepNum = Len(steps) + 1 + offset
                        /\ Charged(steps) + budgetOffset < MaxSteps
  /\ pc \in Dispatching \cup Completing =>
       /\ stepNum + at = Len(steps) + 1 + offset
       /\ Charged(steps) + budgetOffset + (Len(calls) - at) <= MaxSteps
       /\ at <= RegularCount(calls)
  /\ pc \in Running => at < RegularCount(calls)
  /\ pc = "dispatched" => at = RegularCount(calls)
  /\ pc \in Completing => at = RegularCount(calls) /\ TerminalIndex(calls) # 0
  /\ pc \in YieldPoints \cup {"after_step", "accepted"} => steps # <<>>

(* The results a group still has to hand over. *)
GroupInv ==
  /\ pc = "intercept" /\ config.concurrent => at = 0
  /\ pc \in {"execute", "collect", "yield_tool", "after_step"} /\ config.concurrent
       => Len(batch) = RegularCount(calls) - at
  /\ pc \in {"execute", "collect"} /\ ~config.concurrent => Len(batch) = 1
  /\ pc = "execute" => running \subseteq 1..Len(batch)

DataInv == DataType /\ Position /\ GroupInv /\ StepsNumbered /\ BudgetRespected

(* Recording one step with the next number. *)
LEMMA AppendStep ==
  ASSUME DataType, StepsNumbered, offset' = offset,
         NEW n \in Nat, n = Len(steps) + 1 + offset,
         NEW kind \in StepKinds, NEW free \in BOOLEAN,
         steps' = Append(steps, StepRecord(n, kind, free))
  PROVE  /\ steps' \in Seq(Step) /\ steps' # <<>> /\ Len(steps') = Len(steps) + 1
         /\ StepsNumbered'
         /\ Charged(steps') \in Nat /\ Charged(steps') <= Charged(steps) + 1
<1> DEFINE s == StepRecord(n, kind, free)
<1>1. s \in Step /\ s.n = n
  BY DEF StepRecord, Step
<1> HIDE DEF s
<1>2. steps \in Seq(Step) /\ steps' = Append(steps, s)
  BY DEF DataType, s
<1>3. /\ steps' \in Seq(Step) /\ steps' # <<>> /\ Len(steps') = Len(steps) + 1
      /\ \A i \in 1..Len(steps) : steps'[i] = steps[i]
      /\ steps'[Len(steps) + 1] = s
  BY <1>1, <1>2, AppendProperties
<1>4. StepsNumbered'
  <2>1. DOMAIN steps' = 1..Len(steps) + 1 /\ DOMAIN steps = 1..Len(steps)
    BY <1>2, <1>3
  <2>2. \A i \in 1..Len(steps) : steps'[i].n = offset + i
    BY <1>3, <2>1 DEF StepsNumbered
  <2>3. steps'[Len(steps) + 1].n = offset + (Len(steps) + 1)
    BY <1>1, <1>3 DEF DataType
  <2>4. \A i \in 1..Len(steps) + 1 : i \in 1..Len(steps) \/ i = Len(steps) + 1
    BY <1>2
  <2>5. \A i \in DOMAIN steps' : steps'[i].n = offset' + i
    BY <2>1, <2>2, <2>3, <2>4
  <2> QED
    BY <2>5 DEF StepsNumbered
<1>5. Charged(steps') \in Nat /\ Charged(steps') <= Charged(steps) + 1
  BY <1>1, <1>2, ChargedFacts
<1> QED
  BY <1>3, <1>4, <1>5

(* The remaining budget is a number, and is the uncharged part of max_steps. *)
LEMMA RemainingFacts ==
  ASSUME DataType, BudgetRespected
  PROVE  /\ Charged(steps) \in Nat
         /\ Remaining = MaxSteps - budgetOffset - Charged(steps)
         /\ Remaining \in Nat
<1>1. Charged(steps) \in Nat
  BY ChargedFacts DEF DataType
<1> QED
  BY <1>1, BudgetAssumption DEF DataType, BudgetRespected, Remaining

dataVars == <<steps, turnVars, fixedVars, effects>>

(* A step that records nothing and stays at, or moves to, a point that     *)
(* promises no more.                                                       *)
LEMMA QuietStep ==
  ASSUME DataInv, UNCHANGED dataVars,
         pc' \in Deciding => pc \in Deciding,
         pc' \notin Dispatching \cup Completing \cup {"accepted"} \cup YieldPoints \/ pc' = pc
  PROVE  DataInv'
<1> USE DEF DataInv, dataVars, turnVars, fixedVars
<1>1. DataType'
  BY DEF DataType
<1>2. StepsNumbered' /\ BudgetRespected'
  BY DEF StepsNumbered, BudgetRespected
<1>3. Position'
  BY DEF Position, Deciding, Dispatching, Running, Completing, YieldPoints
<1>4. GroupInv'
  BY DEF GroupInv, Dispatching, Running, YieldPoints
<1> QED
  BY <1>1, <1>2, <1>3, <1>4

(* A group is at least one call, and has a place for the result of each. *)
LEMMA GroupFacts ==
  ASSUME DataInv, pc = "intercept"
  PROVE  /\ GroupSize \in Nat \ {0}
         /\ GroupSize = IF config.concurrent THEN RegularCount(calls) - at ELSE 1
         /\ GroupStep = Len(steps) + offset + GroupSize
         /\ \A started \in SUBSET (1..GroupSize) :
              LET results == [i \in 1..GroupSize |-> [ran |-> i \in started, ok |-> FALSE]] IN
                /\ results \in Seq([ran : BOOLEAN, ok : BOOLEAN])
                /\ Len(results) = GroupSize
                /\ started \in SUBSET Nat /\ started \subseteq 1..Len(results)
<1>1. /\ RegularCount(calls) \in Nat
      /\ at < RegularCount(calls) /\ (config.concurrent => at = 0)
      /\ stepNum + at = Len(steps) + 1 + offset
  <2>1. RegularCount(calls) \in Nat
    BY TerminalFacts DEF DataInv, DataType
  <2> QED
    BY <2>1 DEF DataInv, Position, GroupInv, Running, Dispatching
<1>2. /\ Len(steps) \in Nat /\ stepNum \in Nat /\ at \in Nat /\ offset \in Nat
  BY DEF DataInv, DataType
<1>3. /\ GroupSize \in Nat \ {0}
      /\ GroupSize = IF config.concurrent THEN RegularCount(calls) - at ELSE 1
  BY <1>1, <1>2 DEF GroupSize
<1>4. GroupStep = Len(steps) + offset + GroupSize
  BY <1>1, <1>2, <1>3 DEF GroupStep
<1>5. ASSUME NEW started \in SUBSET (1..GroupSize), NEW results,
             results = [i \in 1..GroupSize |-> [ran |-> i \in started, ok |-> FALSE]]
      PROVE  /\ results \in Seq([ran : BOOLEAN, ok : BOOLEAN])
             /\ Len(results) = GroupSize
             /\ started \in SUBSET Nat /\ started \subseteq 1..Len(results)
  <2>1. \A i \in 1..GroupSize :
          [ran |-> i \in started, ok |-> FALSE] \in [ran : BOOLEAN, ok : BOOLEAN]
    OBVIOUS
  <2>2. results \in [1..GroupSize -> [ran : BOOLEAN, ok : BOOLEAN]]
    BY <1>5, <2>1
  <2>3. GroupSize \in Nat
    BY <1>3
  <2>4. results \in Seq([ran : BOOLEAN, ok : BOOLEAN]) /\ Len(results) = GroupSize
    BY <2>2, <2>3, FunctionIsSeq, Zenon
  <2> QED
    BY <2>3, <2>4
<1> QED
  BY <1>3, <1>4, <1>5, Zenon

(* The result of one call of the group. *)
LEMMA ResultData ==
  ASSUME DataInv, pc = "execute", pc' \in {"execute", "collect"},
         UNCHANGED <<steps, stepNum, calls, at, offset, budgetOffset, config>>,
         NEW i \in running, NEW ok \in BOOLEAN,
         batch' = [batch EXCEPT ![i].ok = ok], running' = running \ {i},
         effects' \in SUBSET Nat
  PROVE  DataInv' /\ Len(batch') = Len(batch)
<1> USE DEF DataInv
<1>1. i \in 1..Len(batch)
  BY DEF GroupInv
<1>2. batch' \in Seq([ran : BOOLEAN, ok : BOOLEAN]) /\ Len(batch') = Len(batch)
  <2>1. batch[i] \in [ran : BOOLEAN, ok : BOOLEAN]
    BY <1>1, ElementOfSeq DEF DataType
  <2>2. [batch[i] EXCEPT !.ok = ok] \in [ran : BOOLEAN, ok : BOOLEAN]
    BY <2>1
  <2>3. batch' = [batch EXCEPT ![i] = [batch[i] EXCEPT !.ok = ok]]
    OBVIOUS
  <2> QED
    BY <1>1, <2>2, <2>3, ExceptSeq DEF DataType
<1>3. DataType'
  BY <1>2 DEF DataType
<1>4. StepsNumbered' /\ BudgetRespected'
  BY DEF StepsNumbered, BudgetRespected
<1>5. Position'
  BY DEF Position, Dispatching, Running, Completing, Deciding, YieldPoints
<1>6. GroupInv'
  BY <1>2 DEF GroupInv
<1> QED
  BY <1>2, <1>3, <1>4, <1>5, <1>6

(* The next result of the group becomes a step. *)
LEMMA CollectData ==
  ASSUME DataInv, pc = "collect", pc' = "yield_tool",
         UNCHANGED <<stepNum, calls, running, effects, offset, budgetOffset, config>>,
         at' = at + 1, batch' = Tail(batch),
         steps' = Append(steps, StepRecord(stepNum + at, "tool",
                    calls[at + 1] = "free" /\ Head(batch).ran /\ Head(batch).ok))
  PROVE  /\ DataInv'
         /\ Len(steps') = Len(steps) + 1
         /\ Len(batch) \in Nat \ {0} /\ Len(batch') = Len(batch) - 1
         /\ ~config.concurrent => Len(batch) = 1
<1> USE DEF DataInv, Deciding, Dispatching, Running, Completing, YieldPoints
<1>c. Charged(steps) \in Nat
  BY RemainingFacts
<1>t. RegularCount(calls) \in 0..Len(calls)
  BY TerminalFacts DEF DataType
<1>1. /\ stepNum + at = Len(steps) + 1 + offset
      /\ Charged(steps) + budgetOffset + (Len(calls) - at) <= MaxSteps
      /\ at < RegularCount(calls)
  BY DEF Position
<1>2. /\ Len(batch) \in Nat \ {0} /\ Len(batch') = Len(batch) - 1
      /\ batch' \in Seq([ran : BOOLEAN, ok : BOOLEAN])
      /\ ~config.concurrent => Len(batch) = 1
  <2>1. Len(batch) \in Nat /\ Len(batch) > 0
    BY <1>1, <1>t DEF GroupInv, DataType
  <2>2. batch # <<>>
    BY <2>1 DEF DataType
  <2>3. Len(batch') = Len(batch) - 1 /\ batch' \in Seq([ran : BOOLEAN, ok : BOOLEAN])
    BY <2>2, HeadTailProperties DEF DataType
  <2>4. ~config.concurrent => Len(batch) = 1
    BY DEF GroupInv
  <2> QED
    BY <2>1, <2>3, <2>4
<1>3. PICK free \in BOOLEAN : steps' = Append(steps, StepRecord(stepNum + at, "tool", free))
  <2>1. (calls[at + 1] = "free" /\ Head(batch).ran /\ Head(batch).ok) \in BOOLEAN
    OBVIOUS
  <2> QED
    BY <2>1, Zenon
<1>4. /\ steps' \in Seq(Step) /\ steps' # <<>> /\ Len(steps') = Len(steps) + 1
      /\ StepsNumbered'
      /\ Charged(steps') \in Nat /\ Charged(steps') <= Charged(steps) + 1
  <2>1. stepNum + at \in Nat
    BY DEF DataType
  <2>2. "tool" \in StepKinds
    BY DEF StepKinds
  <2> QED
    BY <1>1, <1>3, <2>1, <2>2, AppendStep
<1>5. DataType'
  BY <1>2, <1>4 DEF DataType
<1>6. /\ Charged(steps') + budgetOffset <= MaxSteps
      /\ Charged(steps') + budgetOffset + (Len(calls) - (at + 1)) <= MaxSteps
  <2>1. /\ Len(calls) \in Nat /\ at \in Nat /\ budgetOffset \in Nat
        /\ at + 1 <= Len(calls)
    BY <1>1, <1>t DEF DataType
  <2>2. /\ Charged(steps') \in Nat /\ Charged(steps) \in Nat /\ MaxSteps \in Nat
        /\ Charged(steps') <= Charged(steps) + 1
        /\ Charged(steps) + budgetOffset + (Len(calls) - at) <= MaxSteps
    BY <1>1, <1>4, <1>c, BudgetAssumption
  <2> HIDE DEF Charged
  <2> QED
    BY <2>1, <2>2
<1>7. stepNum + (at + 1) = Len(steps') + 1 + offset
  <2>1. Len(steps) \in Nat /\ stepNum \in Nat /\ at \in Nat /\ offset \in Nat
    BY DEF DataType
  <2>2. stepNum + (at + 1) = (stepNum + at) + 1
    BY <2>1
  <2>3. Len(steps') + 1 + offset = (Len(steps) + 1 + offset) + 1
    BY <1>4, <2>1
  <2> QED
    BY <1>1, <2>2, <2>3
<1>8. at + 1 <= RegularCount(calls)
  BY <1>1, <1>t DEF DataType
<1>9. BudgetRespected'
  BY <1>6 DEF BudgetRespected
<1>10. Position'
  BY <1>4, <1>6, <1>7, <1>8 DEF Position
<1>11. GroupInv'
  <2>1. config.concurrent => Len(batch') = RegularCount(calls) - (at + 1)
    <3>1. config.concurrent => Len(batch) = RegularCount(calls) - at
      BY DEF GroupInv
    <3>2. RegularCount(calls) \in Nat /\ at \in Nat
      BY <1>t DEF DataType
    <3> QED
      BY <1>2, <3>1, <3>2
  <2> QED
    BY <2>1 DEF GroupInv
<1> QED
  BY <1>2, <1>4, <1>5, <1>9, <1>10, <1>11

(* After a step was recorded: on to the next result, call, or past them. *)
LEMMA NextCallData ==
  ASSUME DataInv, pc = "after_step", UNCHANGED dataVars,
         pc' \in {"collect", "dispatched", "intercept", "finish"},
         pc' = "collect" => config.concurrent /\ batch # <<>>,
         pc' = "intercept" => ~config.concurrent /\ MoreCalls,
         pc' = "dispatched" => \/ config.concurrent /\ batch = <<>>
                               \/ ~config.concurrent /\ ~MoreCalls
  PROVE  DataInv'
<1> USE DEF DataInv, dataVars, turnVars, fixedVars, Deciding, Dispatching, Running, Completing,
            YieldPoints
<1>t. RegularCount(calls) \in 0..Len(calls)
  BY TerminalFacts DEF DataType
<1>1. DataType' /\ StepsNumbered' /\ BudgetRespected'
  BY DEF DataType, StepsNumbered, BudgetRespected
<1>2. batch = <<>> <=> Len(batch) = 0
  BY EmptySeq DEF DataType
<1>3. Position'
  BY <1>2, <1>t DEF Position, GroupInv, DataType, MoreCalls
<1>4. GroupInv'
  BY DEF GroupInv
<1> QED
  BY <1>1, <1>3, <1>4

(* Every step of the run keeps the turn, the steps and the budget in order. *)
LEMMA DataStep ==
  ASSUME DataInv, [Next]_vars
  PROVE  DataInv'
<1> DEFINE NoPromise == Dispatching \cup Completing \cup {"accepted"} \cup YieldPoints
<1> USE DEF dataVars, turnVars, fixedVars, storeVars, toolVars, Deciding, Dispatching, Running,
            Completing, YieldPoints
<1>1. CASE Start
  BY <1>1, QuietStep DEF Start
<1>2. CASE Prompt
  BY <1>2, QuietStep DEF Prompt, HookDecides
<1>3. CASE RequestModel
  BY <1>3, QuietStep DEF RequestModel, CallReturned, DeadlineStop, StopWith
<1>4. CASE ModelReturns
  BY <1>4, QuietStep DEF ModelReturns, CallReturned, DeadlineStop, StopWith
<1>5. CASE RecoverOverflow
  BY <1>5, QuietStep DEF RecoverOverflow
<1>6. CASE RecordFailedStep
  BY <1>6, QuietStep DEF RecordFailedStep, StopWith
<1>7. CASE RecordUnparsedStep
  BY <1>7, QuietStep DEF RecordUnparsedStep
<1>8. CASE RecordBlockedStep
  BY <1>8, QuietStep DEF RecordBlockedStep
<1>9. CASE RecordRejectedStep
  BY <1>9, QuietStep DEF RecordRejectedStep
<1>10. CASE RecordAcceptedStep
  BY <1>10, QuietStep DEF RecordAcceptedStep, StopWith
<1>11. CASE PostStep
  BY <1>11, QuietStep DEF PostStep, StopWith
<1>12. CASE Finish
  BY <1>12, QuietStep DEF Finish
<1>13. CASE Finalize
  BY <1>13, QuietStep DEF Finalize
<1>14. CASE Unwind
  BY <1>14, QuietStep DEF Unwind
<1>15. CASE HookRaises \/ DispatchRaises
  BY <1>15, QuietStep DEF HookRaises, DispatchRaises, RaisePoints
<1>16. CASE CloseStream
  BY <1>16, QuietStep DEF CloseStream
<1>17. CASE CancelRun
  BY <1>17, QuietStep DEF CancelRun
<1>18. CASE DeadlinePasses
  BY <1>18, QuietStep DEF DeadlinePasses
<1> USE DEF DataInv
<1>c. /\ Charged(steps) \in Nat
      /\ Remaining = MaxSteps - budgetOffset - Charged(steps)
      /\ Remaining \in Nat
  BY RemainingFacts
<1>t. /\ TerminalIndex(calls) \in 0..Len(calls)
      /\ RegularCount(calls) \in 0..Len(calls)
      /\ TerminalIndex(calls) # 0 => RegularCount(calls) = TerminalIndex(calls) - 1
  BY TerminalFacts DEF DataType
<1>u. ASSUME UNCHANGED <<steps, offset, budgetOffset>>
      PROVE  StepsNumbered' /\ BudgetRespected'
  BY <1>u DEF StepsNumbered, BudgetRespected
<1>p. ASSUME NEW cs \in Proposals PROVE cs \in Seq(Calls)
  BY ProposalFacts
<1>19. CASE LoopHead
  <2>1. DataType'
    BY <1>19, EmptySeq DEF LoopHead, DataType
  <2>2. StepsNumbered' /\ BudgetRespected'
    BY <1>19, <1>u DEF LoopHead
  <2>3. Position' /\ GroupInv'
    BY <1>19, <1>c, BudgetAssumption
    DEF LoopHead, DeadlineStop, StopWith, DataType, Position, GroupInv
  <2> QED
    BY <2>1, <2>2, <2>3
<1>20. CASE ModelAnswered
  <2>1. CASE UNCHANGED steps /\ pc' \in {"parse", "finish"}
    BY <1>20, <2>1, QuietStep DEF ModelAnswered
  <2>2. CASE Yield(stepNum, "llm_error", FALSE, "yield_failed")
    <3>1. stepNum = Len(steps) + 1 + offset /\ Charged(steps) + budgetOffset < MaxSteps
      BY <1>20 DEF ModelAnswered, Position
    <3>2. /\ steps' \in Seq(Step) /\ steps' # <<>> /\ StepsNumbered'
          /\ Charged(steps') \in Nat /\ Charged(steps') <= Charged(steps) + 1
      BY <1>20, <2>2, <3>1, AppendStep DEF ModelAnswered, Yield, StepKinds, DataType
    <3>3. DataType'
      BY <1>20, <3>2 DEF ModelAnswered, DataType
    <3>4. BudgetRespected'
      BY <1>20, <3>1, <3>2, <1>c, BudgetAssumption DEF ModelAnswered, DataType, BudgetRespected
    <3>5. Position' /\ GroupInv'
      BY <2>2, <3>2 DEF Yield, Position, GroupInv
    <3> QED
      BY <3>2, <3>3, <3>4, <3>5
  <2> QED
    BY <1>20, <2>1, <2>2 DEF ModelAnswered, HookDecides, StopWith
<1>21. CASE ParseResponse
  <2>1. calls' \in Seq(Calls)
    BY <1>21, <1>p DEF ParseResponse, DataType
  <2>2. StepsNumbered' /\ BudgetRespected'
    BY <1>21, <1>u DEF ParseResponse
  <2> QED
    BY <1>21, <2>1, <2>2 DEF ParseResponse, DataType, Position, GroupInv
<1>22. CASE RecoverParse
  <2>1. calls' \in Seq(Calls)
    BY <1>22, <1>p DEF RecoverParse
  <2>2. StepsNumbered' /\ BudgetRespected'
    BY <1>22, <1>u DEF RecoverParse
  <2> QED
    BY <1>22, <2>1, <2>2 DEF RecoverParse, DataType, Position, GroupInv
<1>23. CASE GiveUpParse
  <2>1. stepNum = Len(steps) + 1 + offset /\ Charged(steps) + budgetOffset < MaxSteps
    BY <1>23 DEF GiveUpParse, Position
  <2>2. /\ steps' \in Seq(Step) /\ steps' # <<>> /\ StepsNumbered'
        /\ Charged(steps') \in Nat /\ Charged(steps') <= Charged(steps) + 1
    BY <1>23, <2>1, AppendStep DEF GiveUpParse, Yield, StepKinds, DataType
  <2>3. DataType'
    BY <1>23, <2>2 DEF GiveUpParse, DataType
  <2>4. BudgetRespected'
    BY <1>23, <2>1, <2>2, <1>c, BudgetAssumption DEF GiveUpParse, DataType, BudgetRespected
  <2>5. Position' /\ GroupInv'
    BY <1>23, <2>2 DEF GiveUpParse, Yield, Position, GroupInv
  <2> QED
    BY <2>2, <2>3, <2>4, <2>5
<1>24. CASE PlanTurn
  <2>1. calls' = Admit(calls) /\ at' = 0 /\ UNCHANGED <<steps, stepNum, batch, running, effects,
                                                       offset, budgetOffset, config>>
    BY <1>24 DEF PlanTurn
  <2>2. Admit(calls) \in Seq(Calls) /\ Len(Admit(calls)) <= Remaining
    BY <1>c, AdmitFacts DEF DataType
  <2>3. /\ TerminalIndex(calls') \in 0..Len(calls')
        /\ RegularCount(calls') \in 0..Len(calls')
    BY <2>1, <2>2, TerminalFacts
  <2>4. StepsNumbered' /\ BudgetRespected'
    BY <2>1, <1>u
  <2>5. DataType'
    BY <2>1, <2>2 DEF DataType
  <2>6. /\ stepNum = Len(steps) + 1 + offset
        /\ pc' \in {"dispatched", "intercept", "unwind"}
        /\ pc' = "dispatched" => RegularCount(calls') = 0
        /\ pc' = "intercept" => RegularCount(calls') > 0
    BY <1>24, <2>1 DEF PlanTurn, Position
  <2>7. Position'
    BY <2>1, <2>2, <2>3, <2>6, <1>c, BudgetAssumption DEF DataType, Position
  <2>8. GroupInv'
    BY <2>1, <2>6 DEF GroupInv
  <2> QED
    BY <2>4, <2>5, <2>7, <2>8
<1>25. CASE Intercept
  <2>1. PICK started \in SUBSET (1..GroupSize) :
          /\ batch' = [i \in 1..GroupSize |-> [ran |-> i \in started, ok |-> FALSE]]
          /\ running' = started
    BY <1>25 DEF Intercept
  <2>2. /\ GroupSize \in Nat \ {0}
        /\ GroupSize = IF config.concurrent THEN RegularCount(calls) - at ELSE 1
        /\ batch' \in Seq([ran : BOOLEAN, ok : BOOLEAN]) /\ Len(batch') = GroupSize
        /\ running' \in SUBSET Nat /\ running' \subseteq 1..Len(batch')
    BY <1>25, <2>1, GroupFacts DEF Intercept
  <2>3. UNCHANGED <<steps, stepNum, calls, at, effects, offset, budgetOffset, config>>
    BY <1>25 DEF Intercept
  <2>4. DataType'
    BY <2>2, <2>3 DEF DataType
  <2>5. StepsNumbered' /\ BudgetRespected'
    BY <2>3, <1>u
  <2>6. pc = "intercept" /\ pc' \in {"execute", "collect"}
    BY <1>25 DEF Intercept
  <2>7. Position'
    BY <2>3, <2>6 DEF Position
  <2>8. GroupInv'
    BY <2>2, <2>3, <2>6 DEF GroupInv, DataType
  <2> QED
    BY <2>4, <2>5, <2>7, <2>8
<1>26. CASE RunTool
  <2>1. /\ UNCHANGED <<steps, stepNum, calls, at, offset, budgetOffset, config>>
        /\ pc = "execute" /\ pc' \in {"execute", "collect"}
    BY <1>26 DEF RunTool
  <2>2. PICK i \in running, ok \in BOOLEAN :
          /\ Dispatch(stepNum + at + i - 1)
          /\ batch' = [batch EXCEPT ![i].ok = ok]
          /\ running' = running \ {i}
    BY <1>26 DEF RunTool
  <2>3. effects' \in SUBSET Nat
    BY <2>1, <2>2 DEF DataType, Dispatch, GroupInv
  <2> QED
    BY <2>1, <2>2, <2>3, ResultData
<1>27. CASE CollectResult
  BY <1>27, CollectData DEF CollectResult, HookDecides
<1>28. CASE RecordToolStep
  <2>1. pc = "yield_tool" /\ pc' = "after_step" /\ UNCHANGED dataVars
    BY <1>28 DEF RecordToolStep
  <2> QED
    BY <2>1 DEF DataType, StepsNumbered, BudgetRespected, Position, GroupInv
<1>29. CASE AfterToolStep
  <2>1. /\ pc = "after_step" /\ UNCHANGED dataVars
        /\ pc' \in {"collect", "dispatched", "intercept", "finish"}
    BY <1>29 DEF AfterToolStep, DeadlineStop, NextCall, StopWith
  <2>2. /\ pc' = "collect" => config.concurrent /\ batch # <<>>
        /\ pc' = "intercept" => ~config.concurrent /\ MoreCalls
        /\ pc' = "dispatched" => \/ config.concurrent /\ batch = <<>>
                                 \/ ~config.concurrent /\ ~MoreCalls
    BY <1>29 DEF AfterToolStep, DeadlineStop, NextCall, StopWith
  <2> QED
    BY <2>1, <2>2, NextCallData
<1>30. CASE AfterDispatch
  <2>1. /\ pc = "dispatched" /\ UNCHANGED dataVars
        /\ pc' \in {"gate", "post_step", "finish"}
        /\ pc' = "gate" => TerminalIndex(calls) # 0
    BY <1>30 DEF AfterDispatch, DeadlineStop, StopWith
  <2> QED
    BY <2>1 DEF DataType, StepsNumbered, BudgetRespected, Position, GroupInv
<1>d. ASSUME pc \in Completing
      PROVE  /\ DoneStep \in Nat /\ DoneStep = Len(steps) + 1 + offset
             /\ Charged(steps) + budgetOffset < MaxSteps
  <2>1. /\ stepNum + at = Len(steps) + 1 + offset
        /\ Charged(steps) + budgetOffset + (Len(calls) - at) <= MaxSteps
        /\ at = TerminalIndex(calls) - 1 /\ TerminalIndex(calls) \in 1..Len(calls)
    BY <1>d, <1>t DEF Position
  <2>2. /\ Len(steps) \in Nat /\ Len(calls) \in Nat /\ stepNum \in Nat
        /\ offset \in Nat /\ budgetOffset \in Nat
    BY DEF DataType
  <2>3. Charged(steps) \in Nat /\ MaxSteps \in Nat
    BY <1>c, BudgetAssumption
  <2>4. DoneStep = stepNum + TerminalIndex(calls) - 1
    BY DEF DoneStep
  <2>5. DoneStep \in Nat /\ DoneStep = Len(steps) + 1 + offset
    BY <2>1, <2>2, <2>4
  <2>6. Charged(steps) + budgetOffset < MaxSteps
    BY <2>1, <2>2, <2>3
  <2> QED
    BY <2>5, <2>6
<1>y. ASSUME pc \in Completing, NEW kind \in StepKinds,
             UNCHANGED <<turnVars, fixedVars, effects>>,
             NEW point \in YieldPoints \ {"yield_tool"}, Yield(DoneStep, kind, FALSE, point)
      PROVE  DataInv'
  <2>1. /\ steps' \in Seq(Step) /\ steps' # <<>> /\ StepsNumbered'
        /\ Charged(steps') \in Nat /\ Charged(steps') <= Charged(steps) + 1
    BY <1>y, <1>d, AppendStep DEF Yield
  <2>2. DataType'
    BY <1>y, <2>1 DEF DataType
  <2>3. BudgetRespected'
    BY <1>y, <2>1, <1>c, <1>d, BudgetAssumption DEF BudgetRespected, DataType
  <2>6. pc' \in YieldPoints \ {"yield_tool"}
    BY <1>y DEF Yield
  <2>4. Position'
    BY <2>1, <2>6 DEF Position
  <2>5. GroupInv'
    BY <1>y, <2>6 DEF GroupInv
  <2> QED
    BY <2>1, <2>2, <2>3, <2>4, <2>5
<1>31. CASE CheckDone
  <2>1. CASE pc' \in {"execute_done", "judge_done", "unwind"} /\ UNCHANGED dataVars
    BY <1>31, <2>1
    DEF CheckDone, DataType, StepsNumbered, BudgetRespected, Position, GroupInv
  <2>2. CASE Yield(DoneStep, "blocked", FALSE, "yield_blocked")
    BY <1>31, <2>2, <1>y DEF CheckDone, StepKinds
  <2> QED
    BY <1>31, <2>1, <2>2 DEF CheckDone
<1>32. CASE ExecuteDone
  <2>1. effects' \in SUBSET Nat
    BY <1>32, <1>d DEF ExecuteDone, Dispatch, DataType
  <2>2. /\ pc = "execute_done" /\ pc' = "judge_done"
        /\ UNCHANGED <<steps, turnVars, fixedVars>>
    BY <1>32 DEF ExecuteDone
  <2> QED
    BY <2>1, <2>2 DEF DataType, StepsNumbered, BudgetRespected, Position, GroupInv
<1>33. CASE JudgeDone
  BY <1>33, <1>y DEF JudgeDone, StepKinds
<1>34. CASE AcceptDone
  <2>1. pc = "yield_accepted" /\ pc' = "accepted" /\ UNCHANGED dataVars
    BY <1>34 DEF AcceptDone
  <2> QED
    BY <2>1 DEF DataType, StepsNumbered, BudgetRespected, Position, GroupInv
<1>35. CASE Ended \/ UNCHANGED vars
  <2>1. UNCHANGED vars
    BY <1>35 DEF Ended
  <2> QED
    BY <2>1, QuietStep DEF vars
<1> QED
  BY <1>1, <1>2, <1>3, <1>4, <1>5, <1>6, <1>7, <1>8, <1>9, <1>10, <1>11, <1>12, <1>13, <1>14,
     <1>15, <1>16, <1>17, <1>18, <1>19, <1>20, <1>21, <1>22, <1>23, <1>24, <1>25, <1>26,
     <1>27, <1>28, <1>29, <1>30, <1>31, <1>32, <1>33, <1>34, <1>35
  DEF Next, LoopStep, HostStep

-----------------------------------------------------------------------------
StoreType ==
  DOMAIN saved \subseteq Keys /\ \A key \in DOMAIN saved : saved[key] \in Documents

(* A checkpoint with a numbered key is a document under a key. *)
LEMMA SaveType ==
  ASSUME StoreType, clock \in Nat, Remaining \in Nat,
         NEW kind \in {"pending", "step", "done"}, NEW n \in Nat, Save(kind, n)
  PROVE  StoreType'
<1>1. DOMAIN saved' = DOMAIN saved \cup {<<kind, n>>}
  BY DEF Save
<1>2. <<kind, n>> \in Keys
  BY DEF Keys
<1>3. [kind |-> kind, n |-> n, at |-> clock + 1, left |-> Remaining] \in Documents
  BY DEF Documents
<1>4. ASSUME NEW key \in DOMAIN saved' PROVE saved'[key] \in Documents
  <2>1. CASE key = <<kind, n>>
    BY <1>3, <2>1, <1>4 DEF Save
  <2>2. CASE key # <<kind, n>>
    BY <1>1, <2>2, <1>4 DEF Save, StoreType
  <2> QED
    BY <2>1, <2>2
<1> QED
  BY <1>1, <1>2, <1>4 DEF StoreType

(* The last recorded step, when there is one, has a number. *)
LEMMA LastStepNumber ==
  ASSUME DataInv, pc \in YieldPoints \cup {"accepted"}
  PROVE  LastStep.n \in Nat
<1>1. steps \in Seq(Step) /\ steps # <<>>
  BY DEF DataInv, DataType, Position
<1>2. Len(steps) \in 1..Len(steps)
  BY <1>1, EmptySeq
<1>3. LastStep \in Step
  BY <1>1, <1>2, ElementOfSeq DEF LastStep
<1> QED
  BY <1>3 DEF Step

(* Every step of the run keeps the checkpoint files well formed. *)
LEMMA StoreStep ==
  ASSUME ControlType, DataInv, StoreType, [Next]_vars
  PROVE  StoreType'
<1>r. Remaining \in Nat /\ clock \in Nat
  BY RemainingFacts DEF DataInv, ControlType
<1>s. ASSUME UNCHANGED storeVars PROVE StoreType'
  BY <1>s DEF storeVars, StoreType
<1>1. CASE Intercept
  <2>1. GroupStep \in Nat
    <3>1. at < RegularCount(calls)
      BY <1>1 DEF Intercept, DataInv, Position, Running
    <3>2. stepNum \in Nat /\ at \in Nat /\ RegularCount(calls) \in Nat
      BY TerminalFacts DEF DataInv, DataType
    <3> QED
      BY <3>1, <3>2 DEF GroupStep, GroupSize
  <2> QED
    BY <1>1, <2>1, <1>r, <1>s, SaveType DEF Intercept
<1>2. CASE CheckDone
  <2>1. DoneStep \in Nat
    <3>1. TerminalIndex(calls) # 0
      BY <1>2 DEF CheckDone, DataInv, Position, Completing
    <3>2. stepNum \in Nat /\ TerminalIndex(calls) \in Nat
      BY TerminalFacts DEF DataInv, DataType
    <3> QED
      BY <3>1, <3>2 DEF DoneStep
  <2> QED
    BY <1>2, <2>1, <1>r, <1>s, SaveType DEF CheckDone
<1>3. CASE RecordToolStep
  BY <1>3, <1>r, LastStepNumber, SaveType DEF RecordToolStep, YieldPoints
<1>4. CASE RecordBlockedStep
  BY <1>4, <1>r, LastStepNumber, SaveType DEF RecordBlockedStep, YieldPoints
<1>5. CASE RecordRejectedStep
  BY <1>5, <1>r, LastStepNumber, SaveType DEF RecordRejectedStep, YieldPoints
<1>6. CASE RecordAcceptedStep
  BY <1>6, <1>r, LastStepNumber, SaveType DEF RecordAcceptedStep, YieldPoints
<1>7. CASE Start
  BY <1>7, <1>s DEF Start
<1>8. CASE LoopHead
  BY <1>8, <1>s DEF LoopHead
<1>9. CASE Prompt
  BY <1>9, <1>s DEF Prompt
<1>10. CASE RequestModel
  BY <1>10, <1>s DEF RequestModel
<1>11. CASE ModelReturns
  BY <1>11, <1>s DEF ModelReturns
<1>12. CASE RecoverOverflow
  BY <1>12, <1>s DEF RecoverOverflow
<1>13. CASE ModelAnswered
  BY <1>13, <1>s DEF ModelAnswered
<1>14. CASE RecordFailedStep
  BY <1>14, <1>s DEF RecordFailedStep
<1>15. CASE ParseResponse
  BY <1>15, <1>s DEF ParseResponse
<1>16. CASE RecoverParse
  BY <1>16, <1>s DEF RecoverParse
<1>17. CASE GiveUpParse
  BY <1>17, <1>s DEF GiveUpParse
<1>18. CASE RecordUnparsedStep
  BY <1>18, <1>s DEF RecordUnparsedStep
<1>19. CASE PlanTurn
  BY <1>19, <1>s DEF PlanTurn
<1>20. CASE RunTool
  BY <1>20, <1>s DEF RunTool
<1>21. CASE CollectResult
  BY <1>21, <1>s DEF CollectResult
<1>22. CASE AfterToolStep
  BY <1>22, <1>s DEF AfterToolStep
<1>23. CASE AfterDispatch
  BY <1>23, <1>s DEF AfterDispatch
<1>24. CASE ExecuteDone
  BY <1>24, <1>s DEF ExecuteDone
<1>25. CASE JudgeDone
  BY <1>25, <1>s DEF JudgeDone
<1>26. CASE AcceptDone
  BY <1>26, <1>s DEF AcceptDone
<1>27. CASE PostStep
  BY <1>27, <1>s DEF PostStep
<1>28. CASE Finish
  BY <1>28, <1>s DEF Finish
<1>29. CASE Finalize
  BY <1>29, <1>s DEF Finalize
<1>30. CASE Unwind
  BY <1>30, <1>s DEF Unwind
<1>31. CASE HookRaises \/ DispatchRaises
  BY <1>31, <1>s DEF HookRaises, DispatchRaises
<1>32. CASE CloseStream
  BY <1>32, <1>s DEF CloseStream
<1>33. CASE CancelRun
  BY <1>33, <1>s DEF CancelRun
<1>34. CASE DeadlinePasses
  BY <1>34, <1>s DEF DeadlinePasses
<1>35. CASE Ended \/ UNCHANGED vars
  BY <1>35, <1>s DEF Ended, vars, storeVars
<1> QED
  BY <1>1, <1>2, <1>3, <1>4, <1>5, <1>6, <1>7, <1>8, <1>9, <1>10, <1>11, <1>12, <1>13,
     <1>14, <1>15, <1>16, <1>17, <1>18, <1>19, <1>20, <1>21, <1>22, <1>23, <1>24, <1>25,
     <1>26, <1>27, <1>28, <1>29, <1>30, <1>31, <1>32, <1>33, <1>34, <1>35
  DEF Next, LoopStep, HostStep

-----------------------------------------------------------------------------
(* The inductive invariant. *)
LoopInv == ControlType /\ DataInv /\ StoreType

(* A run starts in the inductive invariant. *)
LEMMA LoopInvInit == Init => LoopInv
<1> SUFFICES ASSUME Init PROVE LoopInv
  OBVIOUS
<1>1. ControlType
  <2>1. ctx \in Lifecycles /\ pub \in Lifecycles
    BY DEF Init, Lifecycles, RunStatuses, RunPhases
  <2>2. strategies \in 0..Strategies /\ parseFails \in 0..ParseRecoveryMax + 1
    BY RecoveryAssumption DEF Init, Strategies
  <2>3. pc \in Points /\ stopReason \in Reasons
    BY DEF Init, Points, Reasons
  <2> QED
    BY <2>1, <2>2, <2>3 DEF Init, ControlType
<1>2. DataType
  BY EmptySeq DEF Init, DataType
<1>3. Charged(steps) = 0
  <2>1. {i \in DOMAIN steps : ~steps[i].free} = {}
    BY DEF Init
  <2> QED
    BY <2>1, FS_EmptySet DEF Charged
<1>4. StepsNumbered /\ BudgetRespected
  BY <1>3, BudgetAssumption DEF Init, StepsNumbered, BudgetRespected
<1>5. Position /\ GroupInv
  BY DEF Init, Position, GroupInv, Deciding, Running, Dispatching, Completing, YieldPoints
<1>6. StoreType
  BY DEF Init, StoreType
<1> QED
  BY <1>1, <1>2, <1>4, <1>5, <1>6 DEF LoopInv, DataInv

(* And no step leaves it. *)
LEMMA LoopInvStep == LoopInv /\ [Next]_vars => LoopInv'
BY ControlStep, DataStep, StoreStep DEF LoopInv

(* Every reachable state of a run is well typed, at a point of the turn that
   fits the recorded steps, with a budget that covers what is still to come. *)
THEOREM LoopInvariant == Spec => []LoopInv
BY LoopInvInit, LoopInvStep, PTL DEF Spec

(* Every variable of a run keeps to its type. *)
THEOREM TypeCorrect == Spec => []TypeOK
<1>1. LoopInv => TypeOK
  BY DEF LoopInv, ControlType, DataInv, DataType, StoreType, TypeOK, Step
<1> QED
  BY <1>1, LoopInvariant, PTL

(* A run charges no more steps than max_steps, for every budget, every     *)
(* turn size and every pattern of free, rejected and unparsed turns.       *)
THEOREM BudgetSafe == Spec => []BudgetRespected
<1>1. LoopInv => BudgetRespected
  BY DEF LoopInv, DataInv
<1> QED
  BY <1>1, LoopInvariant, PTL

(* Steps are numbered without gap or repetition. *)
THEOREM NumberingSafe == Spec => []StepsNumbered
<1>1. LoopInv => StepsNumbered
  BY DEF LoopInv, DataInv
<1> QED
  BY <1>1, LoopInvariant, PTL

-----------------------------------------------------------------------------
(***************************************************************************)
(* How a run of AgentLoop comes to its end: what an accepted terminal call *)
(* means to the caller, that it is final, how much work is still started   *)
(* once the token is set, and that a stop asked for is honoured; for every *)
(* budget, turn size and set of hook reasons.                              *)
(***************************************************************************)
Accepted == steps # <<>> /\ LastStep.kind = "accepted"

AcceptedPoints == {"yield_accepted", "accepted", "finish", "finalize", "unwind", "ended"}

(* An accepted step is the last one; only after it is a run completed. *)
AcceptInv ==
  /\ pc \in {"yield_accepted", "accepted"} => Accepted
  /\ stopReason = "done" => Accepted
  /\ pub.status = "completed" => Accepted
  /\ Accepted => pc \in AcceptedPoints

(* A step that was just yielded is accepted if and only if its kind says so. *)
LEMMA YieldAccepted ==
  ASSUME steps \in Seq(Step), NEW n, NEW kind, NEW free, NEW point, Yield(n, kind, free, point)
  PROVE  Accepted' <=> kind = "accepted"
<1>1. steps' = Append(steps, StepRecord(n, kind, free))
  BY DEF Yield
<1>2. /\ Len(steps') = Len(steps) + 1 /\ Len(steps) \in Nat
      /\ steps'[Len(steps) + 1] = StepRecord(n, kind, free)
      /\ steps' # <<>>
  BY <1>1
<1>3. LastStep' = StepRecord(n, kind, free)
  BY <1>2 DEF LastStep
<1> QED
  BY <1>2, <1>3 DEF Accepted, StepRecord

LEMMA AcceptedSame == ASSUME steps' = steps PROVE Accepted' <=> Accepted
  BY DEF Accepted, LastStep

LEMMA MoveShows ==
  ASSUME NEW status, NEW phase, NEW reason, Move(status, phase, reason)
  PROVE  pub'.status = status
  BY DEF Move

LEMMA DeadlineShows ==
  ASSUME DeadlineStop
  PROVE  pub'.status = "running" /\ pc' = "finish" /\ stopReason' = "deadline_exceeded"
  BY MoveShows DEF DeadlineStop, StopWith

(* Every step keeps AcceptInv, if no hook gives the reason "done". *)
LEMMA AcceptStep ==
  ASSUME "done" \notin HookReasons, steps \in Seq(Step), AcceptInv, [Next]_vars
  PROVE  AcceptInv'
<1>1. ASSUME UNCHANGED steps,
             stopReason' # "done" \/ stopReason' = stopReason,
             pub'.status # "completed" \/ pub' = pub,
             pc' \notin {"yield_accepted", "accepted"},
             pc \in AcceptedPoints => pc' \in AcceptedPoints
      PROVE  AcceptInv'
  BY <1>1, AcceptedSame DEF AcceptInv
<1>2. ASSUME UNCHANGED <<stopReason, pub>>, pc \notin AcceptedPoints,
             pc' \notin {"yield_accepted", "accepted"},
             NEW n, NEW kind, kind # "accepted", NEW free, NEW point, Yield(n, kind, free, point)
      PROVE  AcceptInv'
  <2>1. ~Accepted /\ ~Accepted'
    BY <1>2, YieldAccepted DEF AcceptInv
  <2> QED
    BY <1>2, <2>1 DEF AcceptInv
<1>3. \A reason \in HookReasons \cup FailureReasons : reason # "done"
  BY DEF FailureReasons
<1> USE DEF AcceptedPoints
<1>4. CASE Start
  BY <1>4, <1>1, MoveShows DEF Start, reasonVars
<1>5. CASE LoopHead
  BY <1>5, <1>1, MoveShows, DeadlineShows DEF LoopHead, StopWith, lifecycleVars, reasonVars
<1>6. CASE Prompt
  BY <1>6, <1>1, <1>3, MoveShows DEF Prompt, HookDecides, lifecycleVars, reasonVars
<1>7. CASE RequestModel
  BY <1>7, <1>1, DeadlineShows DEF RequestModel, CallReturned, lifecycleVars, reasonVars
<1>8. CASE ModelReturns
  BY <1>8, <1>1, DeadlineShows DEF ModelReturns, CallReturned, lifecycleVars, reasonVars
<1>9. CASE RecoverOverflow
  BY <1>9, <1>1, MoveShows DEF RecoverOverflow, lifecycleVars, reasonVars
<1>10. CASE ModelAnswered
  <2>1. CASE UNCHANGED steps
    BY <1>10, <2>1, <1>1, <1>3, AcceptedSame DEF ModelAnswered, HookDecides, StopWith,
       Yield, lifecycleVars, reasonVars
  <2>2. CASE Yield(stepNum, "llm_error", FALSE, "yield_failed")
    <3>1. /\ pc = "answered" /\ pc' = "yield_failed"
          /\ UNCHANGED pub /\ stopReason' \in {stopReason, "cancelled"}
      BY <1>10, <2>2 DEF ModelAnswered, Yield, HookDecides, StopWith, lifecycleVars
    <3>2. PICK free : Yield(stepNum, "llm_error", free, "yield_failed")
      BY <2>2, Zenon
    <3>4. ~Accepted'
      BY <3>2, YieldAccepted
    <3>3. ~Accepted
      BY <3>1 DEF AcceptInv
    <3> QED
      BY <3>1, <3>3, <3>4 DEF AcceptInv
  <2> QED
    BY <1>10, <2>1, <2>2 DEF ModelAnswered
<1>11. CASE RecordFailedStep
  BY <1>11, <1>1, <1>3 DEF RecordFailedStep, StopWith, lifecycleVars
<1>12. CASE ParseResponse
  BY <1>12, <1>1 DEF ParseResponse, lifecycleVars, reasonVars
<1>13. CASE RecoverParse
  BY <1>13, <1>1 DEF RecoverParse, lifecycleVars, reasonVars
<1>14. CASE GiveUpParse
  BY <1>14, <1>2 DEF GiveUpParse, Yield, lifecycleVars, reasonVars
<1>15. CASE RecordUnparsedStep
  BY <1>15, <1>1 DEF RecordUnparsedStep, lifecycleVars, reasonVars
<1>16. CASE PlanTurn
  BY <1>16, <1>1, MoveShows DEF PlanTurn, lifecycleVars, reasonVars
<1>17. CASE Intercept
  BY <1>17, <1>1 DEF Intercept, lifecycleVars, reasonVars
<1>18. CASE RunTool
  BY <1>18, <1>1 DEF RunTool, lifecycleVars, reasonVars
<1>19. CASE CollectResult
  <2>1. PICK free : Yield(stepNum + at, "tool", free, "yield_tool")
    BY <1>19 DEF CollectResult, HookDecides, Yield
  <2>2. pc = "collect" /\ pc' = "yield_tool" /\ pub' = pub /\ (stopReason' = stopReason \/
     stopReason' # "done")
    BY <1>19, <1>3 DEF CollectResult, HookDecides, lifecycleVars, reasonVars
  <2>3. ~Accepted /\ ~Accepted'
    BY <2>1, <2>2, YieldAccepted DEF AcceptInv
  <2> QED
    BY <2>2, <2>3 DEF AcceptInv
<1>20. CASE RecordToolStep
  BY <1>20, <1>1 DEF RecordToolStep, lifecycleVars, reasonVars
<1>21. CASE AfterToolStep
  BY <1>21, <1>1, <1>3, DeadlineShows DEF AfterToolStep, NextCall, StopWith, lifecycleVars
<1>22. CASE AfterDispatch
  BY <1>22, <1>1, DeadlineShows DEF AfterDispatch, StopWith, lifecycleVars
<1>23. CASE CheckDone
  <2>1. pc = "gate" /\ stopReason' = stopReason /\ (pub' = pub \/ pub'.status = "running")
        /\ pc' \notin {"yield_accepted", "accepted"}
    BY <1>23, MoveShows DEF CheckDone, Yield, lifecycleVars, reasonVars
  <2>2. CASE steps' = steps
    BY <2>1, <2>2, <1>1
  <2>3. CASE Yield(DoneStep, "blocked", FALSE, "yield_blocked")
    <3>1. PICK free : Yield(DoneStep, "blocked", free, "yield_blocked")
      BY <2>3, Zenon
    <3>2. ~Accepted /\ ~Accepted'
      BY <2>1, <3>1, YieldAccepted DEF AcceptInv
    <3> QED
      BY <2>1, <3>2 DEF AcceptInv
  <2> QED
    BY <1>23, <2>2, <2>3 DEF CheckDone
<1>24. CASE ExecuteDone
  BY <1>24, <1>1 DEF ExecuteDone, lifecycleVars, reasonVars
<1>25. CASE JudgeDone
  <2>1. pc = "judge_done" /\ UNCHANGED <<stopReason, pub>>
    BY <1>25 DEF JudgeDone, lifecycleVars
  <2>2. CASE Yield(DoneStep, "rejected", FALSE, "yield_rejected")
    BY <2>1, <2>2, <1>2 DEF Yield
  <2>3. CASE Yield(DoneStep, "accepted", FALSE, "yield_accepted")
    <3>1. Accepted' /\ pc' = "yield_accepted"
      BY <2>3, YieldAccepted DEF Yield
    <3> QED
      BY <3>1 DEF AcceptInv
  <2> QED
    BY <1>25, <2>2, <2>3 DEF JudgeDone
<1>26. CASE RecordBlockedStep
  BY <1>26, <1>1 DEF RecordBlockedStep, lifecycleVars, reasonVars
<1>27. CASE RecordRejectedStep
  BY <1>27, <1>1 DEF RecordRejectedStep, lifecycleVars, reasonVars
<1>28. CASE AcceptDone
  <2>1. pc = "yield_accepted" /\ pc' = "accepted" /\ steps' = steps /\ stopReason' = stopReason
    BY <1>28 DEF AcceptDone, reasonVars
  <2> QED
    BY <2>1, AcceptedSame DEF AcceptInv
<1>29. CASE RecordAcceptedStep
  <2>1. pc = "accepted" /\ pc' = "finish" /\ steps' = steps
    BY <1>29 DEF RecordAcceptedStep, StopWith
  <2> QED
    BY <2>1, AcceptedSame DEF AcceptInv
<1>30. CASE PostStep
  BY <1>30, <1>1, <1>3 DEF PostStep, StopWith, lifecycleVars
<1>31. CASE Finish
  <2>1. pc = "finish" /\ pc' = "finalize" /\ steps' = steps /\ stopReason' = stopReason
        /\ pub'.status = FinalStatus
    BY <1>31, MoveShows DEF Finish, reasonVars
  <2>2. FinalStatus = "completed" => stopReason = "done"
    BY DEF FinalStatus
  <2> QED
    BY <2>1, <2>2, AcceptedSame DEF AcceptInv
<1>32. CASE Finalize
  BY <1>32, <1>1 DEF Finalize, lifecycleVars, reasonVars
<1>33. CASE Unwind
  BY <1>33, <1>1 DEF Unwind, reasonVars
<1>34. CASE HookRaises \/ DispatchRaises
  BY <1>34, <1>1 DEF HookRaises, DispatchRaises, lifecycleVars, reasonVars
<1>35. CASE CloseStream
  BY <1>35, <1>1 DEF CloseStream, reasonVars
<1>36. CASE CancelRun \/ DeadlinePasses \/ Ended \/ UNCHANGED vars
  <2>1. UNCHANGED <<steps, stopReason, pub, pc>>
    BY <1>36 DEF CancelRun, DeadlinePasses, Ended, vars, lifecycleVars, reasonVars
  <2> QED
    BY <2>1, AcceptedSame DEF AcceptInv
<1> QED
  BY <1>4, <1>5, <1>6, <1>7, <1>8, <1>9, <1>10, <1>11, <1>12, <1>13, <1>14, <1>15, <1>16,
     <1>17, <1>18, <1>19, <1>20, <1>21, <1>22, <1>23, <1>24, <1>25, <1>26, <1>27, <1>28,
     <1>29, <1>30, <1>31, <1>32, <1>33, <1>34, <1>35, <1>36
  DEF Next, LoopStep, HostStep

LEMMA AcceptInvariant ==
  ASSUME "done" \notin HookReasons
  PROVE  Spec => []AcceptInv
<1>1. Init => AcceptInv
  BY DEF Init, AcceptInv, Accepted
<1>2. LoopInv /\ AcceptInv /\ [Next]_vars => AcceptInv'
  BY AcceptStep DEF LoopInv, DataInv, DataType, Step
<1> QED
  BY <1>1, <1>2, LoopInvariant, PTL DEF Spec

(* The caller sees "completed" only after a terminal call that passed its  *)
(* gates and its own result; unless a host hook gives "done" as its reason *)
(* for a stop, which the loop cannot tell from an accepted completion.     *)
THEOREM CompletedSafe ==
  ASSUME "done" \notin HookReasons
  PROVE  Spec => []CompletedMeansAccepted
<1>1. Init => AcceptInv
  BY DEF Init, AcceptInv, Accepted
<1>2. LoopInv /\ AcceptInv /\ [Next]_vars => AcceptInv'
  BY AcceptStep DEF LoopInv, DataInv, DataType, Step
<1>3. AcceptInv => CompletedMeansAccepted
  BY DEF AcceptInv, Accepted, CompletedMeansAccepted
<1> QED
  BY <1>1, <1>2, <1>3, LoopInvariant, PTL DEF Spec

(* After an accepted step nothing is recorded or executed any more: only   *)
(* the end of the run is left.                                             *)
LEMMA AcceptedStaysLast ==
  ASSUME AcceptInv, Accepted, [Next]_vars
  PROVE  /\ steps' = steps /\ effects' = effects
         /\ NoNewPending
         /\ stopReason' \in {stopReason, "done"}
<1>0. ASSUME UNCHANGED storeVars PROVE NoNewPending
  BY <1>0 DEF NoNewPending, storeVars
<1>1. pc \in AcceptedPoints
  BY DEF AcceptInv
<1> USE DEF AcceptedPoints
<1>2. ~Start
  BY <1>1 DEF Start
<1>3. ~LoopHead
  BY <1>1 DEF LoopHead
<1>4. ~Prompt
  BY <1>1 DEF Prompt
<1>5. ~RequestModel
  BY <1>1 DEF RequestModel
<1>6. ~ModelReturns
  BY <1>1 DEF ModelReturns
<1>7. ~RecoverOverflow
  BY <1>1 DEF RecoverOverflow
<1>8. ~ModelAnswered
  BY <1>1 DEF ModelAnswered
<1>9. ~RecordFailedStep
  BY <1>1 DEF RecordFailedStep
<1>10. ~ParseResponse
  BY <1>1 DEF ParseResponse
<1>11. ~RecoverParse
  BY <1>1 DEF RecoverParse
<1>12. ~GiveUpParse
  BY <1>1 DEF GiveUpParse
<1>13. ~RecordUnparsedStep
  BY <1>1 DEF RecordUnparsedStep
<1>14. ~PlanTurn
  BY <1>1 DEF PlanTurn
<1>15. ~Intercept
  BY <1>1 DEF Intercept
<1>16. ~RunTool
  BY <1>1 DEF RunTool
<1>17. ~CollectResult
  BY <1>1 DEF CollectResult
<1>18. ~RecordToolStep
  BY <1>1 DEF RecordToolStep
<1>19. ~AfterToolStep
  BY <1>1 DEF AfterToolStep
<1>20. ~AfterDispatch
  BY <1>1 DEF AfterDispatch
<1>21. ~CheckDone
  BY <1>1 DEF CheckDone
<1>22. ~ExecuteDone
  BY <1>1 DEF ExecuteDone
<1>23. ~JudgeDone
  BY <1>1 DEF JudgeDone
<1>24. ~RecordBlockedStep
  BY <1>1 DEF RecordBlockedStep
<1>25. ~RecordRejectedStep
  BY <1>1 DEF RecordRejectedStep
<1>26. ~PostStep
  BY <1>1 DEF PostStep
<1>27. CASE AcceptDone
  BY <1>0, <1>27 DEF AcceptDone, reasonVars, toolVars
<1>28. CASE RecordAcceptedStep
  <2>1. Save("done", LastStep.n)
    BY <1>28 DEF RecordAcceptedStep
  <2>2. NoNewPending
    BY <2>1 DEF Save, NoNewPending
  <2> QED
    BY <1>28, <2>2 DEF RecordAcceptedStep, StopWith, toolVars
<1>29. CASE Finish
  BY <1>0, <1>29 DEF Finish, reasonVars, toolVars
<1>30. CASE Finalize
  BY <1>0, <1>30 DEF Finalize, reasonVars, toolVars
<1>31. CASE Unwind
  BY <1>0, <1>31 DEF Unwind, reasonVars, toolVars
<1>32. CASE HookRaises \/ DispatchRaises
  BY <1>0, <1>32 DEF HookRaises, DispatchRaises, reasonVars, toolVars
<1>33. CASE CloseStream
  BY <1>0, <1>33 DEF CloseStream, reasonVars, toolVars
<1>34. CASE CancelRun \/ DeadlinePasses \/ Ended \/ UNCHANGED vars
  BY <1>0, <1>34 DEF CancelRun, DeadlinePasses, Ended, vars, reasonVars, toolVars, storeVars
<1> QED
  BY <1>2, <1>3, <1>4, <1>5, <1>6, <1>7, <1>8, <1>9, <1>10, <1>11, <1>12, <1>13, <1>14,
     <1>15, <1>16, <1>17, <1>18, <1>19, <1>20, <1>21, <1>22, <1>23, <1>24, <1>25, <1>26,
     <1>27, <1>28, <1>29, <1>30, <1>31, <1>32, <1>33, <1>34
  DEF Next, LoopStep, HostStep

(* An accepted terminal call is final.                                     *)
THEOREM AcceptedIsFinalSafe ==
  ASSUME "done" \notin HookReasons
  PROVE  Spec => AcceptedIsFinal
<1>1. Spec => []AcceptInv
  BY AcceptInvariant
<1>2. AcceptInv /\ [Next]_vars =>
        [(steps # <<>> /\ LastStep.kind = "accepted")
           => /\ steps' = steps /\ effects' = effects
              /\ NoNewPending
              /\ stopReason' \in {stopReason, "done"}]_vars
  BY AcceptedStaysLast DEF Accepted
<1> QED
  BY <1>1, <1>2, PTL DEF Spec, AcceptedIsFinal

-----------------------------------------------------------------------------
(* Where the loop can be between a late hand-over to the tools and its next *)
(* look at the token.                                                      *)
DispatchedPoints ==
  {"execute", "collect", "yield_tool", "after_step", "dispatched", "execute_done", "judge_done",
   "yield_rejected", "yield_accepted", "accepted", "top", "finish", "finalize", "unwind", "ended"}

(* The token stays set, and after one late hand-over no other can follow:  *)
(* the loop looks at the token before it comes to the next.                *)
LateInv ==
  /\ config \in Configs /\ lateGroups \in {0, 1}
  /\ cancelled \in BOOLEAN
  /\ cancelled => config.token
  /\ lateGroups = 1 => cancelled /\ pc \in DispatchedPoints

LEMMA LateStep ==
  ASSUME LateInv, [Next]_vars
  PROVE  LateInv'
<1>1. ASSUME UNCHANGED <<lateGroups, config, cancelled>>,
             cancelled /\ pc \in DispatchedPoints => pc' \in DispatchedPoints
      PROVE  LateInv'
  BY <1>1 DEF LateInv
<1>2. ASSUME UNCHANGED <<lateGroups, config>>, cancelled' = (cancelled \/ config.token),
             pc' \in DispatchedPoints
      PROVE  LateInv'
  BY <1>2, ConfigAssumption DEF LateInv
<1>3. ASSUME UNCHANGED lateGroups, UNCHANGED config, DeadlineStop PROVE LateInv'
  BY <1>2, <1>3 DEF DeadlineStop, StopWith, DispatchedPoints
<1> USE DEF DispatchedPoints
<1>4. CASE Start
  BY <1>4, <1>1 DEF Start, toolVars, fixedVars, hostVars
<1>5. CASE LoopHead
  <2>1. CASE DeadlineStop
    BY <1>5, <2>1, <1>3 DEF LoopHead, toolVars, fixedVars, hostVars
  <2>2. CASE ~DeadlineStop
    BY <1>5, <2>2, <1>1 DEF LoopHead, StopWith, toolVars, fixedVars, hostVars
  <2> QED
    BY <2>1, <2>2
<1>6. CASE Prompt
  BY <1>6, <1>1 DEF Prompt, HookDecides, toolVars, fixedVars, hostVars
<1>7. CASE RequestModel
  <2>1. CASE DeadlineStop
    BY <1>7, <2>1, <1>3 DEF RequestModel, toolVars, fixedVars, hostVars
  <2>2. CASE ~DeadlineStop
    BY <1>7, <2>2, <1>1 DEF RequestModel, CallReturned, toolVars, fixedVars, hostVars
  <2> QED
    BY <2>1, <2>2
<1>8. CASE ModelReturns
  <2>1. CASE DeadlineStop
    BY <1>8, <2>1, <1>3 DEF ModelReturns, toolVars, fixedVars, hostVars
  <2>2. CASE ~DeadlineStop
    BY <1>8, <2>2, <1>1 DEF ModelReturns, CallReturned, toolVars, fixedVars, hostVars
  <2> QED
    BY <2>1, <2>2
<1>9. CASE RecoverOverflow
  <2>1. pc = "answered" /\ UNCHANGED <<lateGroups, config>>
        /\ (cancelled' = cancelled \/ cancelled' = config.token)
    BY <1>9 DEF RecoverOverflow, toolVars, fixedVars, hostVars
  <2>2. lateGroups = 0
    BY <2>1 DEF LateInv
  <2>3. config.token \in BOOLEAN
    BY ConfigAssumption DEF LateInv
  <2> QED
    BY <2>1, <2>2, <2>3 DEF LateInv
<1>10. CASE ModelAnswered
  BY <1>10, <1>1 DEF ModelAnswered, HookDecides, StopWith, Yield, toolVars, fixedVars, hostVars
<1>11. CASE RecordFailedStep
  BY <1>11, <1>1 DEF RecordFailedStep, StopWith, toolVars, fixedVars, hostVars
<1>12. CASE ParseResponse
  BY <1>12, <1>1 DEF ParseResponse, toolVars, fixedVars, hostVars
<1>13. CASE RecoverParse
  BY <1>13, <1>1 DEF RecoverParse, toolVars, fixedVars, hostVars
<1>14. CASE GiveUpParse
  BY <1>14, <1>1 DEF GiveUpParse, Yield, toolVars, fixedVars, hostVars
<1>15. CASE RecordUnparsedStep
  BY <1>15, <1>1 DEF RecordUnparsedStep, toolVars, fixedVars, hostVars
<1>16. CASE PlanTurn
  BY <1>16, <1>1 DEF PlanTurn, toolVars, fixedVars, hostVars
<1>17. CASE Intercept
  <2>1. pc = "intercept" /\ UNCHANGED <<config, cancelled>>
        /\ (lateGroups' = lateGroups \/ (lateGroups' = lateGroups + (IF cancelled THEN 1 ELSE 0)
                                          /\ pc' \in DispatchedPoints))
    BY <1>17 DEF Intercept, Yield, toolVars, fixedVars, hostVars
  <2>2. lateGroups = 0
    BY <2>1 DEF LateInv
  <2> QED
    BY <2>1, <2>2 DEF LateInv
<1>18. CASE RunTool
  BY <1>18, <1>1 DEF RunTool, toolVars, fixedVars, hostVars
<1>19. CASE CollectResult
  BY <1>19, <1>1 DEF CollectResult, HookDecides, toolVars, fixedVars, hostVars
<1>20. CASE RecordToolStep
  BY <1>20, <1>1 DEF RecordToolStep, toolVars, fixedVars, hostVars
<1>21. CASE AfterToolStep
  <2>1. CASE DeadlineStop
    BY <1>21, <2>1, <1>3 DEF AfterToolStep, toolVars, fixedVars, hostVars
  <2>2. CASE ~DeadlineStop
    BY <1>21, <2>2, <1>1 DEF AfterToolStep, NextCall, StopWith, toolVars, fixedVars, hostVars
  <2> QED
    BY <2>1, <2>2
<1>22. CASE AfterDispatch
  <2>1. CASE DeadlineStop
    BY <1>22, <2>1, <1>3 DEF AfterDispatch, toolVars, fixedVars, hostVars
  <2>2. CASE ~DeadlineStop
    BY <1>22, <2>2, <1>1 DEF AfterDispatch, StopWith, toolVars, fixedVars, hostVars
  <2> QED
    BY <2>1, <2>2
<1>23. CASE CheckDone
  <2>1. pc = "gate" /\ UNCHANGED <<config, cancelled>>
        /\ (lateGroups' = lateGroups \/ (lateGroups' = lateGroups + (IF cancelled THEN 1 ELSE 0)
                                          /\ pc' \in DispatchedPoints))
    BY <1>23 DEF CheckDone, Yield, toolVars, fixedVars, hostVars
  <2>2. lateGroups = 0
    BY <2>1 DEF LateInv
  <2> QED
    BY <2>1, <2>2 DEF LateInv
<1>24. CASE ExecuteDone
  BY <1>24, <1>1 DEF ExecuteDone, toolVars, fixedVars, hostVars
<1>25. CASE JudgeDone
  BY <1>25, <1>1 DEF JudgeDone, Yield, toolVars, fixedVars, hostVars
<1>26. CASE RecordBlockedStep
  BY <1>26, <1>1 DEF RecordBlockedStep, toolVars, fixedVars, hostVars
<1>27. CASE RecordRejectedStep
  BY <1>27, <1>1 DEF RecordRejectedStep, toolVars, fixedVars, hostVars
<1>28. CASE AcceptDone
  BY <1>28, <1>1 DEF AcceptDone, toolVars, fixedVars, hostVars
<1>29. CASE RecordAcceptedStep
  BY <1>29, <1>1 DEF RecordAcceptedStep, StopWith, toolVars, fixedVars, hostVars
<1>30. CASE PostStep
  BY <1>30, <1>1 DEF PostStep, StopWith, toolVars, fixedVars, hostVars
<1>31. CASE Finish
  BY <1>31, <1>1 DEF Finish, toolVars, fixedVars, hostVars
<1>32. CASE Finalize
  BY <1>32, <1>1 DEF Finalize, toolVars, fixedVars, hostVars
<1>33. CASE Unwind
  BY <1>33, <1>1 DEF Unwind, toolVars, fixedVars, hostVars
<1>34. CASE HookRaises \/ DispatchRaises
  BY <1>34, <1>1 DEF HookRaises, DispatchRaises, toolVars, fixedVars, hostVars
<1>35. CASE CloseStream
  BY <1>35, <1>1 DEF CloseStream, YieldPoints, toolVars, fixedVars, hostVars
<1>36. CASE CancelRun
  BY <1>36 DEF CancelRun, LateInv, toolVars, fixedVars
<1>37. CASE DeadlinePasses \/ Ended \/ UNCHANGED vars
  BY <1>37, <1>1 DEF DeadlinePasses, Ended, vars, toolVars, fixedVars
<1> QED
  BY <1>4, <1>5, <1>6, <1>7, <1>8, <1>9, <1>10, <1>11, <1>12, <1>13, <1>14, <1>15, <1>16,
     <1>17, <1>18, <1>19, <1>20, <1>21, <1>22, <1>23, <1>24, <1>25, <1>26, <1>27, <1>28,
     <1>29, <1>30, <1>31, <1>32, <1>33, <1>34, <1>35, <1>36, <1>37
  DEF Next, LoopStep, HostStep

(* After the token is set at most one more group is handed to the tools,   *)
(* for serial and concurrent dispatch, with and without a deadline.        *)
THEOREM LateWorkSafe == Spec => []LateWorkBounded
<1>1. Init => LateInv
  <2> SUFFICES ASSUME Init PROVE LateInv
    OBVIOUS
  <2>1. config \in Configs /\ lateGroups = 0 /\ cancelled = FALSE
    BY DEF Init
  <2>2. lateGroups \in {0, 1} /\ lateGroups # 1
    BY <2>1
  <2> QED
    BY <2>1, <2>2, Zenon DEF LateInv
<1>2. LateInv => LateWorkBounded
  BY DEF LateInv, LateWorkBounded
<1> QED
  BY <1>1, <1>2, LateStep, PTL DEF Spec

-----------------------------------------------------------------------------
(* Where a stop can have been asked for that the turn does not read any    *)
(* more: past the terminal call, and at the end of the run.                *)
UnreadPoints ==
  {"yield_rejected", "yield_accepted", "accepted", "top", "finish", "finalize", "unwind",
   "ended"}

(* A stop that was asked for is still on record up to the post-step check; *)
(* the head of the loop is reached with one only from a rejected done().   *)
StopInv ==
  /\ asked \in BOOLEAN /\ hookStop \in BOOLEAN
  /\ pc = "start" => ~asked
  /\ asked => hookStop \/ pc \in UnreadPoints
  /\ pc = "yield_rejected" => LastStep.kind = "rejected"
  /\ asked /\ pc = "top" => LastStep.kind = "rejected"

LEMMA YieldKind ==
  ASSUME steps \in Seq(Step), NEW n, NEW kind, NEW free, NEW point, Yield(n, kind, free, point)
  PROVE  LastStep'.kind = kind
<1>1. steps' = Append(steps, StepRecord(n, kind, free))
  BY DEF Yield
<1>2. Len(steps') = Len(steps) + 1 /\ Len(steps) \in Nat
      /\ steps'[Len(steps) + 1] = StepRecord(n, kind, free)
  BY <1>1
<1>3. LastStep' = StepRecord(n, kind, free)
  BY <1>2 DEF LastStep
<1> QED
  BY <1>3 DEF StepRecord

LEMMA StopStep ==
  ASSUME steps \in Seq(Step), StopInv, [Next]_vars
  PROVE  StopInv'
<1>1. ASSUME UNCHANGED <<asked, hookStop>>, pc' \notin {"start", "yield_rejected", "top"},
             pc \in UnreadPoints => pc' \in UnreadPoints
      PROVE  StopInv'
  BY <1>1 DEF StopInv
<1>2. ASSUME NEW point \in {"request", "answered", "parse", "yield_tool"}, HookDecides(point),
             pc \notin UnreadPoints
      PROVE  StopInv'
  <2>1. pc' \notin {"start", "yield_rejected", "top"}
    BY <1>2 DEF HookDecides
  <2>2. \/ UNCHANGED <<asked, hookStop>>
        \/ asked' = TRUE /\ hookStop' = TRUE
    BY <1>2 DEF HookDecides, reasonVars
  <2>3. CASE UNCHANGED <<asked, hookStop>>
    BY <1>1, <1>2, <2>1, <2>3
  <2>4. CASE asked' = TRUE /\ hookStop' = TRUE
    BY <2>1, <2>4 DEF StopInv
  <2> QED
    BY <2>2, <2>3, <2>4
<1>3. ASSUME DeadlineStop, UNCHANGED <<asked, hookStop>> PROVE StopInv'
  BY <1>3, <1>1, DeadlineShows DEF UnreadPoints
<1> USE DEF UnreadPoints
<1>4. CASE Start
  BY <1>4 DEF Start, StopInv, reasonVars
<1>5. CASE LoopHead
  <2>1. CASE UNCHANGED <<asked, hookStop>> /\ pc' = "finish"
    BY <2>1, <1>1
  <2>2. CASE DeadlineStop
    <3>1. UNCHANGED <<asked, hookStop>>
      BY <1>5, <2>2 DEF LoopHead, DeadlineStop, reasonVars
    <3> QED
      BY <2>2, <3>1, <1>3
  <2>3. CASE pc' = "finish" /\ hookStop' = FALSE /\ asked' = asked
    BY <2>3 DEF StopInv
  <2>4. CASE pc' = "prompt" /\ hookStop' = FALSE /\ asked' = FALSE
    BY <2>4 DEF StopInv
  <2> QED
    BY <1>5, <2>1, <2>2, <2>3, <2>4 DEF LoopHead, StopWith, reasonVars
<1>6. CASE Prompt
  BY <1>6, <1>2 DEF Prompt
<1>7. CASE RequestModel
  BY <1>7, <1>1, <1>3 DEF RequestModel, CallReturned, reasonVars
<1>8. CASE ModelReturns
  BY <1>8, <1>1, <1>3 DEF ModelReturns, CallReturned, reasonVars
<1>9. CASE RecoverOverflow
  BY <1>9, <1>1 DEF RecoverOverflow, reasonVars
<1>10. CASE ModelAnswered
  BY <1>10, <1>1, <1>2 DEF ModelAnswered, StopWith, Yield
<1>11. CASE RecordFailedStep
  BY <1>11, <1>1 DEF RecordFailedStep, StopWith
<1>12. CASE ParseResponse
  BY <1>12, <1>1 DEF ParseResponse, reasonVars
<1>13. CASE RecoverParse
  BY <1>13, <1>1 DEF RecoverParse, reasonVars
<1>14. CASE GiveUpParse
  BY <1>14, <1>1 DEF GiveUpParse, Yield, reasonVars
<1>15. CASE RecordUnparsedStep
  BY <1>15, <1>1 DEF RecordUnparsedStep, reasonVars
<1>16. CASE PlanTurn
  BY <1>16, <1>1 DEF PlanTurn, reasonVars
<1>17. CASE Intercept
  BY <1>17, <1>1 DEF Intercept, reasonVars
<1>18. CASE RunTool
  BY <1>18, <1>1 DEF RunTool, reasonVars
<1>19. CASE CollectResult
  BY <1>19, <1>2 DEF CollectResult
<1>20. CASE RecordToolStep
  BY <1>20, <1>1 DEF RecordToolStep, reasonVars
<1>21. CASE AfterToolStep
  BY <1>21, <1>1, <1>3 DEF AfterToolStep, NextCall, StopWith
<1>22. CASE AfterDispatch
  BY <1>22, <1>1, <1>3 DEF AfterDispatch, StopWith
<1>23. CASE CheckDone
  BY <1>23, <1>1 DEF CheckDone, Yield, reasonVars
<1>24. CASE ExecuteDone
  BY <1>24, <1>1 DEF ExecuteDone, reasonVars
<1>25. CASE JudgeDone
  <2>1. asked' \in BOOLEAN /\ UNCHANGED hookStop
    BY <1>25 DEF JudgeDone, StopInv
  <2>2. CASE Yield(DoneStep, "rejected", FALSE, "yield_rejected")
    <3>1. LastStep'.kind = "rejected" /\ pc' = "yield_rejected"
      BY <2>2, YieldKind DEF Yield
    <3> QED
      BY <2>1, <3>1 DEF StopInv
  <2>3. CASE Yield(DoneStep, "accepted", FALSE, "yield_accepted")
    BY <2>1, <2>3 DEF StopInv, Yield
  <2> QED
    BY <1>25, <2>2, <2>3 DEF JudgeDone
<1>26. CASE RecordBlockedStep
  BY <1>26, <1>1 DEF RecordBlockedStep, reasonVars
<1>27. CASE RecordRejectedStep
  <2>1. pc = "yield_rejected" /\ pc' = "top" /\ UNCHANGED <<asked, hookStop, steps>>
    BY <1>27 DEF RecordRejectedStep, reasonVars
  <2>2. LastStep'.kind = "rejected"
    BY <2>1 DEF StopInv, LastStep
  <2> QED
    BY <2>1, <2>2 DEF StopInv
<1>28. CASE AcceptDone
  BY <1>28, <1>1 DEF AcceptDone, reasonVars
<1>29. CASE RecordAcceptedStep
  BY <1>29, <1>1 DEF RecordAcceptedStep, StopWith
<1>30. CASE PostStep
  <2>1. CASE pc' = "finish"
    BY <1>30, <2>1, <1>1 DEF PostStep
  <2>2. CASE ~hookStop /\ pc' = "top"
    BY <1>30, <2>2 DEF PostStep, StopInv
  <2> QED
    BY <1>30, <2>1, <2>2 DEF PostStep, StopWith
<1>31. CASE Finish
  BY <1>31, <1>1 DEF Finish, reasonVars
<1>32. CASE Finalize
  BY <1>32, <1>1 DEF Finalize, reasonVars
<1>33. CASE Unwind
  BY <1>33, <1>1 DEF Unwind, reasonVars
<1>34. CASE HookRaises \/ DispatchRaises
  BY <1>34, <1>1 DEF HookRaises, DispatchRaises, reasonVars
<1>35. CASE CloseStream
  BY <1>35, <1>1 DEF CloseStream, reasonVars
<1>36. CASE CancelRun \/ DeadlinePasses \/ Ended \/ UNCHANGED vars
  <2>1. UNCHANGED <<asked, hookStop, steps, pc>>
    BY <1>36 DEF CancelRun, DeadlinePasses, Ended, vars, reasonVars
  <2> QED
    BY <2>1 DEF StopInv, LastStep
<1> QED
  BY <1>4, <1>5, <1>6, <1>7, <1>8, <1>9, <1>10, <1>11, <1>12, <1>13, <1>14, <1>15, <1>16,
     <1>17, <1>18, <1>19, <1>20, <1>21, <1>22, <1>23, <1>24, <1>25, <1>26, <1>27, <1>28,
     <1>29, <1>30, <1>31, <1>32, <1>33, <1>34, <1>35, <1>36
  DEF Next, LoopStep, HostStep

(* A stop that a hook asks for during a turn keeps the next turn from      *)
(* beginning, unless the turn ended in a rejected done().                  *)
THEOREM StopHonouredSafe == Spec => StopHonoured
<1>1. Init => StopInv
  BY DEF Init, StopInv
<1>2. LoopInv /\ StopInv /\ [Next]_vars => StopInv'
  BY StopStep DEF LoopInv, DataInv, DataType, Step
<1>3. StopInv => [(asked /\ pc = "top" /\ pc' = "prompt") => LastStep.kind = "rejected"]_vars
  BY DEF StopInv
<1> QED
  BY <1>1, <1>2, <1>3, LoopInvariant, PTL DEF Spec, StopHonoured

-----------------------------------------------------------------------------
(***************************************************************************)
(* The checkpoint files, whoever writes them.                              *)
(***************************************************************************)
(* The number of the last step the process holds. *)
Last == offset + Len(steps)

(* The document a resume would choose. *)
IsNewest(key) ==
  /\ key \in DOMAIN saved
  /\ \A other \in DOMAIN saved :
       \/ saved[other].n < saved[key].n
       \/ saved[other].n = saved[key].n /\ saved[other].at <= saved[key].at

(* What the turn says about its numbers. *)
LEMMA TurnNumbers ==
  ASSUME DataInv
  PROVE  /\ Last \in Nat /\ Remaining \in Nat /\ Len(steps) \in Nat /\ offset \in Nat
         /\ Len(batch) \in Nat
         /\ pc \in Dispatching \cup Completing => stepNum + at = Last + 1
         /\ pc \in YieldPoints \cup {"accepted"} => LastStep.n = Last /\ Len(steps) > 0
<1>1. /\ Len(steps) \in Nat /\ offset \in Nat /\ Len(batch) \in Nat
      /\ steps \in Seq(Step)
  BY DEF DataInv, DataType
<1>2. Remaining \in Nat
  BY RemainingFacts DEF DataInv
<1>3. Last \in Nat
  BY <1>1 DEF Last
<1>4. pc \in Dispatching \cup Completing => stepNum + at = Last + 1
  BY <1>1 DEF DataInv, Position, Last
<1>5. ASSUME pc \in YieldPoints \cup {"accepted"}
      PROVE  LastStep.n = Last /\ Len(steps) > 0
  <2>1. steps # <<>>
    BY <1>5 DEF DataInv, Position
  <2>2. Len(steps) > 0
    BY <1>1, <2>1, EmptySeq
  <2>3. Len(steps) \in DOMAIN steps
    BY <1>1, <2>2
  <2> QED
    BY <2>2, <2>3 DEF DataInv, StepsNumbered, LastStep, Last
<1> QED
  BY <1>1, <1>2, <1>3, <1>4, <1>5

(* What is on disk, whoever works on the task: documents under their keys, *)
(* saved at different times, one of them the newest.                       *)
Filed ==
  /\ config \in Configs /\ clock \in Nat /\ effects \in SUBSET Nat
  /\ StoreType
Keyed ==
  \A key \in DOMAIN saved :
    /\ saved[key].kind = key[1] /\ saved[key].n = key[2]
    /\ saved[key].at <= clock
Ordered ==
  /\ \A k1, k2 \in DOMAIN saved : saved[k1].at = saved[k2].at => k1 = k2
  /\ DOMAIN saved # {} => \E key \in DOMAIN saved : IsNewest(key)
StoreInv == Filed /\ Keyed /\ Ordered

(* The pending document of step p is the one a resume would choose. *)
PendingTop(p) == IsNewest(<<"pending", p>>)

(* A resume chooses the newest document, and there is only one. *)
LEMMA NewestFacts ==
  ASSUME StoreInv
  PROVE  /\ \A k1, k2 \in DOMAIN saved : IsNewest(k1) /\ IsNewest(k2) => k1 = k2
         /\ \A key \in DOMAIN saved : IsNewest(key) => Newest = key
         /\ DOMAIN saved # {} => Newest \in DOMAIN saved /\ IsNewest(Newest)
<1>1. \A key \in DOMAIN saved : saved[key].n \in Nat /\ saved[key].at \in Nat
  BY DEF StoreInv, Filed, StoreType, Documents
<1>2. ASSUME NEW k1 \in DOMAIN saved, NEW k2 \in DOMAIN saved, IsNewest(k1), IsNewest(k2)
      PROVE  k1 = k2
  <2>1. saved[k1].at = saved[k2].at
    BY <1>1, <1>2 DEF IsNewest
  <2> QED
    BY <1>2, <2>1 DEF StoreInv, Ordered
<1>3. Newest = CHOOSE key \in DOMAIN saved : IsNewest(key)
  <2>1. \A key \in DOMAIN saved :
          IsNewest(key) <=> \A other \in DOMAIN saved :
                              \/ saved[other].n < saved[key].n
                              \/ saved[other].n = saved[key].n /\ saved[other].at <= saved[key].at
    BY DEF IsNewest
  <2> QED
    BY <2>1, Zenon DEF Newest
<1>4. ASSUME NEW key \in DOMAIN saved, IsNewest(key)
      PROVE  Newest \in DOMAIN saved /\ IsNewest(Newest)
  BY <1>3, <1>4, Zenon
<1> QED
  BY <1>2, <1>4, Zenon DEF StoreInv, Ordered

(* What one more document changes. *)
LEMMA SaveFacts ==
  ASSUME StoreInv, Remaining \in Nat, config' \in Configs, effects' \in SUBSET Nat,
         NEW kind \in {"pending", "step", "done"}, NEW m \in Nat, Save(kind, m)
  PROVE  /\ StoreInv'
         /\ DOMAIN saved' = DOMAIN saved \cup {<<kind, m>>}
         /\ saved'[<<kind, m>>].left = Remaining
         /\ \A key \in DOMAIN saved : key # <<kind, m>> => saved'[key] = saved[key]
         /\ (\A key \in DOMAIN saved : key[2] <= m) => IsNewest(<<kind, m>>)'
         /\ \A key \in DOMAIN saved : m < key[2] /\ IsNewest(key) => IsNewest(key)'
         /\ \A key \in DOMAIN saved' :
              key # <<kind, m>> /\ IsNewest(key)' => key \in DOMAIN saved /\ IsNewest(key) /\ m < key[2]
<1> DEFINE new == <<kind, m>>
<1>1. /\ DOMAIN saved' = DOMAIN saved \cup {new}
      /\ saved'[new] = [kind |-> kind, n |-> m, at |-> clock + 1, left |-> Remaining]
      /\ \A key \in DOMAIN saved : key # new => saved'[key] = saved[key]
      /\ clock' = clock + 1
  BY DEF Save
<1>2. saved'[new].n = m /\ saved'[new].at = clock + 1 /\ saved'[new].left = Remaining
      /\ saved'[new].kind = kind
  BY <1>1
<1>3. new[1] = kind /\ new[2] = m
  OBVIOUS
<1>4. /\ clock \in Nat /\ StoreType
      /\ \A key \in DOMAIN saved : /\ saved[key].n \in Nat /\ saved[key].at \in Nat
                                   /\ saved[key].kind = key[1] /\ saved[key].n = key[2]
                                   /\ saved[key].at <= clock
  BY DEF StoreInv, Filed, Keyed, StoreType, Documents
<1>5. StoreType'
  BY <1>4, SaveType
<1> HIDE DEF new
<1>6. Filed'
  BY <1>1, <1>4, <1>5 DEF Filed
<1>7. Keyed'
  BY <1>1, <1>2, <1>3, <1>4 DEF Keyed
<1>8. \A k1, k2 \in DOMAIN saved' : saved'[k1].at = saved'[k2].at => k1 = k2
  <2>1. \A k1 \in DOMAIN saved : k1 # new => saved'[k1].at # clock + 1
    BY <1>1, <1>4
  <2>2. \A k1, k2 \in DOMAIN saved : saved[k1].at = saved[k2].at => k1 = k2
    BY DEF StoreInv, Ordered
  <2> QED
    BY <1>1, <1>2, <2>1, <2>2
<1>9. (\A key \in DOMAIN saved : key[2] <= m) => IsNewest(new)'
  <2> SUFFICES ASSUME \A key \in DOMAIN saved : key[2] <= m PROVE IsNewest(new)'
    OBVIOUS
  <2>1. ASSUME NEW other \in DOMAIN saved'
        PROVE  \/ saved'[other].n < saved'[new].n
               \/ saved'[other].n = saved'[new].n /\ saved'[other].at <= saved'[new].at
    <3>1. CASE other = new
      BY <3>1, <1>2, <1>4
    <3>2. CASE other # new
      BY <3>2, <2>1, <1>1, <1>2, <1>4
    <3> QED
      BY <3>1, <3>2
  <2> QED
    BY <2>1, <1>1 DEF IsNewest
<1>10. ASSUME NEW key \in DOMAIN saved, m < key[2], IsNewest(key)
       PROVE  IsNewest(key)'
  <2>1. key # new
    BY <1>3, <1>10
  <2>2. saved'[key] = saved[key] /\ key \in DOMAIN saved'
    BY <2>1, <1>1
  <2>3. ASSUME NEW other \in DOMAIN saved'
        PROVE  \/ saved'[other].n < saved'[key].n
               \/ saved'[other].n = saved'[key].n /\ saved'[other].at <= saved'[key].at
    <3>1. CASE other = new
      BY <3>1, <2>2, <1>2, <1>4, <1>10
    <3>2. CASE other # new
      BY <3>2, <2>2, <2>3, <1>1, <1>10 DEF IsNewest
    <3> QED
      BY <3>1, <3>2
  <2> QED
    BY <2>2, <2>3 DEF IsNewest
<1>11. ASSUME NEW key \in DOMAIN saved', key # new, IsNewest(key)'
       PROVE  key \in DOMAIN saved /\ IsNewest(key) /\ m < key[2]
  <2>1. key \in DOMAIN saved /\ saved'[key] = saved[key]
    BY <1>1, <1>11
  <2>2. \/ m < key[2]
        \/ m = key[2] /\ clock + 1 <= saved[key].at
    BY <1>1, <1>2, <1>4, <1>11, <2>1 DEF IsNewest
  <2>3. m < key[2]
    BY <2>1, <2>2, <1>4
  <2>4. ASSUME NEW other \in DOMAIN saved
        PROVE  \/ saved[other].n < saved[key].n
               \/ saved[other].n = saved[key].n /\ saved[other].at <= saved[key].at
    <3>1. CASE other = new
      BY <3>1, <2>1, <2>3, <2>4, <1>3, <1>4
    <3>2. CASE other # new
      BY <3>2, <2>1, <2>4, <1>1, <1>11 DEF IsNewest
    <3> QED
      BY <3>1, <3>2
  <2> QED
    BY <2>1, <2>3, <2>4 DEF IsNewest
<1>12. DOMAIN saved' # {} => \E key \in DOMAIN saved' : IsNewest(key)'
  <2>1. CASE \A key \in DOMAIN saved : key[2] <= m
    BY <2>1, <1>1, <1>9
  <2>2. CASE \E key \in DOMAIN saved : ~(key[2] <= m)
    <3>1. PICK k1 \in DOMAIN saved : ~(k1[2] <= m)
      BY <2>2
    <3>2. PICK k2 \in DOMAIN saved : IsNewest(k2)
      BY <3>1 DEF StoreInv, Ordered
    <3>3. k1[2] <= k2[2]
      BY <3>1, <3>2, <1>4 DEF IsNewest
    <3>4. m < k2[2]
      BY <3>1, <3>2, <3>3, <1>4
    <3> QED
      BY <3>2, <3>4, <1>1, <1>10
  <2> QED
    BY <2>1, <2>2
<1>13. StoreInv'
  BY <1>6, <1>7, <1>8, <1>12 DEF StoreInv, Ordered
<1> QED
  BY <1>1, <1>2, <1>9, <1>10, <1>11, <1>13 DEF new

(* A finished document records its step, a pending one nothing. *)
LEMMA SaveRecords ==
  ASSUME NEW kind \in {"pending", "step", "done"}, NEW m,
         DOMAIN saved' = DOMAIN saved \cup {<<kind, m>>}, NEW x
  PROVE  Recorded(x)' <=> Recorded(x) \/ (kind # "pending" /\ x = m)
<1>1. <<kind, m>>[1] = kind /\ <<kind, m>>[2] = m
  OBVIOUS
<1> DEFINE new == <<kind, m>>
<1>2. new[1] = kind /\ new[2] = m /\ DOMAIN saved' = DOMAIN saved \cup {new}
  BY <1>1
<1> HIDE DEF new
<1>3. Recorded(x)' <=> \E key \in DOMAIN saved' : key[2] = x /\ key[1] # "pending"
  BY DEF Recorded
<1>4. Recorded(x) <=> \E key \in DOMAIN saved : key[2] = x /\ key[1] # "pending"
  BY DEF Recorded
<1> QED
  BY <1>2, <1>3, <1>4, Zenon
=============================================================================
