---------------------- MODULE RuntimeCheckpointsProofs ----------------------
(***************************************************************************)
(* Proofs about the runtime's checkpoint hook for every budget, turn size, *)
(* configuration and checkpoint interval: the hook thins out what the loop *)
(* saves, and a resume from what is left is refused exactly when it has to *)
(* be.                                                                     *)
(*                                                                         *)
(* The loop's own files are what RecoveryProofs describes: RecoveryInv is  *)
(* an invariant of every step of AgentLoop, so also of the steps the       *)
(* runtime lets it take.  (The number of processes, `lives', is no part of *)
(* RecoveryInv nor of RuntimeSpec.)  HookInv relates the hook's store to   *)
(* them by the newest document of each side alone.                         *)
(***************************************************************************)
EXTENDS RuntimeCheckpoints, RecoveryProofs

-----------------------------------------------------------------------------
(* The number a resume from the hook's store would choose. *)
TopNumber(t) == t \in DOMAIN store /\ \A k \in DOMAIN store : k <= t

HookType ==
  /\ pending \in BOOLEAN /\ warned \in BOOLEAN
  /\ DOMAIN store \subseteq Nat
  /\ DOMAIN store # {} => \E t \in Nat : TopNumber(t)

(* The clock points at the document the loop saved last. *)
Clocked == clock > 0 => \E key \in DOMAIN saved : saved[key].at = clock

(* Until the loop ends the hook only stores under numbers the loop used. *)
Numbered ==
  pc \in Working => \A k \in DOMAIN store : \E key \in DOMAIN saved : key[2] = k

(* While the loop's newest document is pending, so is the hook's, under the *)
(* same number; the document written at the end of a serial run may have a *)
(* higher number, and is pending too.                                      *)
Refusing ==
  /\ ~warned /\ pc # "ended" =>
       \A m \in Nat : PendingTop(m) => TopNumber(m) /\ store[m].pending
  /\ ~warned /\ pc = "ended" /\ ~config.concurrent =>
       \A m \in Nat : PendingTop(m) =>
         \E t \in Nat : TopNumber(t) /\ store[t].pending

(* With serial dispatch the hook remembers it until the end is written. *)
Remembered ==
  ~config.concurrent /\ pc # "ended" => \A m \in Nat : PendingTop(m) => pending

(* And with serial dispatch it is pending only then. *)
Settling ==
  ~config.concurrent /\ ~warned /\ pc \in Working =>
    \A t \in Nat : TopNumber(t) /\ store[t].pending => PendingTop(t)

HookInv == HookType /\ Clocked /\ Numbered /\ Refusing /\ Remembered /\ Settling

-----------------------------------------------------------------------------
(* Numbers.                                                                *)

LEMMA MaxOfTwo ==
  ASSUME NEW a \in Nat, NEW b \in Nat
  PROVE  Max({a, b}) \in Nat
<1>1. \E x \in {a, b} : \A y \in {a, b} : x >= y
  <2>1. CASE a >= b
    BY <2>1
  <2>2. CASE ~(a >= b)
    BY <2>2
  <2> QED
    BY <2>1, <2>2
<1>2. Max({a, b}) \in {a, b}
  BY <1>1, Zenon DEF Max
<1> QED
  BY <1>2

(* The newest document of the store is the one under its highest number. *)
LEMMA TopIsMax ==
  ASSUME DOMAIN store \subseteq Nat, NEW t \in Nat, TopNumber(t)
  PROVE  Max(DOMAIN store) = t
<1>1. t \in DOMAIN store /\ \A y \in DOMAIN store : t >= y
  BY DEF TopNumber
<1>2. \A x \in DOMAIN store : (\A y \in DOMAIN store : x >= y) => x = t
  BY <1>1
<1>3. Max(DOMAIN store) \in DOMAIN store /\ \A y \in DOMAIN store : Max(DOMAIN store) >= y
  BY <1>1, Zenon DEF Max
<1> QED
  BY <1>2, <1>3

(* One more document in the store. *)
LEMMA StoredFacts ==
  ASSUME DOMAIN store \subseteq Nat, DOMAIN store # {} => \E t \in Nat : TopNumber(t),
         NEW n \in Nat, NEW doc,
         store' = [k \in DOMAIN store \cup {n} |-> IF k = n THEN doc ELSE store[k]]
  PROVE  /\ DOMAIN store' = DOMAIN store \cup {n}
         /\ store'[n] = doc
         /\ \A k \in DOMAIN store : k # n => store'[k] = store[k]
         /\ \E t \in Nat : TopNumber(t)'
         /\ (\A k \in DOMAIN store : k <= n) =>
              TopNumber(n)' /\ \A t \in Nat : TopNumber(t)' => t = n
         /\ \A t \in Nat : TopNumber(t) /\ n < t => TopNumber(t)'
         /\ \A t \in Nat : TopNumber(t) /\ t <= n => TopNumber(n)'
<1>1. /\ DOMAIN store' = DOMAIN store \cup {n}
      /\ store'[n] = doc
      /\ \A k \in DOMAIN store : k # n => store'[k] = store[k]
  OBVIOUS
<1>2. (\A k \in DOMAIN store : k <= n) => TopNumber(n)' /\ \A t \in Nat : TopNumber(t)' => t = n
  BY <1>1 DEF TopNumber
<1>3. \A t \in Nat : TopNumber(t) /\ n < t => TopNumber(t)'
  BY <1>1 DEF TopNumber
<1>4. \A t \in Nat : TopNumber(t) /\ t <= n => TopNumber(n)'
  BY <1>1 DEF TopNumber
<1>5. \E t \in Nat : TopNumber(t)'
  <2>1. CASE DOMAIN store = {}
    BY <2>1, <1>2
  <2>2. CASE DOMAIN store # {}
    <3>1. PICK t \in Nat : TopNumber(t)
      BY <2>2
    <3> QED
      BY <3>1, <1>3, <1>4
  <2> QED
    BY <2>1, <2>2
<1> QED
  BY <1>1, <1>2, <1>3, <1>4, <1>5

-----------------------------------------------------------------------------
(* What the hook sees of a step of the loop.                               *)

RuntimeStep == LoopStep \/ HookRaises \/ DispatchRaises \/ CancelRun \/ DeadlinePasses \/ Ended

(* The loop saves nothing: it goes on, or comes to its end. *)
Unsaved ==
  /\ UNCHANGED <<saved, clock>>
  /\ pc' \in Working => pc \in Working
  /\ pc = "ended" => pc' = "ended"
  /\ loopEnds' # loopEnds => \/ pc = "finalize" /\ pc' \in {"unwind", "ended"}
                             \/ pc = "unwind" /\ pc' = "ended"

(* It announces a group or a terminal call, above all it saved before. *)
Announcing ==
  \E m \in Nat : Save("pending", m) /\ \A key \in DOMAIN saved : key[2] <= m

(* It records its last step. *)
RecordingPoints == {"yield_tool", "yield_blocked", "yield_rejected", "accepted"}
Recording ==
  pc \in RecordingPoints /\ \E kind \in {"step", "done"}, m \in Nat : m = Last /\ Save(kind, m)

LEMMA WorkingPoints == Points = Working \cup {"unwind", "ended"}
  BY DEF Points, Working, Settled, Grouped, Judged, Answering

LEMMA HookSees ==
  ASSUME RecoveryInv, RuntimeStep
  PROVE  /\ config' = config
         /\ \/ Unsaved
            \/ /\ pc \in Working /\ pc' \in Working
               /\ UNCHANGED <<effects, steps, offset, budgetOffset, loopEnds>>
               /\ Announcing \/ Recording
<1>c. config' = config
  BY DEF RuntimeStep, LoopStep, fixedVars, vars, Ended,
     Start, LoopHead, Prompt, RequestModel, ModelReturns, RecoverOverflow,
     ModelAnswered, RecordFailedStep, ParseResponse, RecoverParse, GiveUpParse,
     RecordUnparsedStep, PlanTurn, Intercept, RunTool, CollectResult,
     RecordToolStep, AfterToolStep, AfterDispatch, CheckDone, ExecuteDone,
     JudgeDone, RecordBlockedStep, RecordRejectedStep, AcceptDone,
     RecordAcceptedStep, PostStep, Finish, Finalize, Unwind,
     HookRaises, DispatchRaises, CancelRun, DeadlinePasses
<1> USE DEF Unsaved, storeVars, endVars, Working, Settled, Grouped, Judged, Answering
<1>1. CASE Start \/ LoopHead \/ Prompt \/ RequestModel \/ ModelReturns \/ RecoverOverflow
  BY <1>1, <1>c DEF Start, LoopHead, Prompt, RequestModel, ModelReturns, RecoverOverflow
<1>2. CASE ModelAnswered \/ RecordFailedStep \/ ParseResponse \/ RecoverParse \/ GiveUpParse
  BY <1>2, <1>c DEF ModelAnswered, RecordFailedStep, ParseResponse, RecoverParse, GiveUpParse
<1>3. CASE RecordUnparsedStep \/ PlanTurn \/ CollectResult \/ AfterToolStep \/ AfterDispatch
  BY <1>3, <1>c DEF RecordUnparsedStep, PlanTurn, CollectResult, AfterToolStep, AfterDispatch
<1>4. CASE JudgeDone \/ AcceptDone \/ PostStep \/ Finish \/ RunTool \/ ExecuteDone
  BY <1>4, <1>c DEF JudgeDone, AcceptDone, PostStep, Finish, RunTool, ExecuteDone
<1>5. CASE Finalize \/ Unwind \/ HookRaises \/ DispatchRaises
  BY <1>5, <1>c DEF Finalize, Unwind, HookRaises, DispatchRaises, RaisePoints
<1>6. CASE CancelRun \/ DeadlinePasses \/ Ended
  BY <1>6, <1>c DEF CancelRun, DeadlinePasses, Ended, vars
<1>7. CASE Intercept
  <2>1. pc = "intercept" /\ UNCHANGED <<effects, steps, offset, budgetOffset, loopEnds>>
    BY <1>7 DEF Intercept, fixedVars
  <2>2. CASE UNCHANGED storeVars
    BY <1>7, <2>1, <2>2, <1>c
  <2>3. CASE Save("pending", GroupStep) /\ pc' = "execute"
    <3>1. pc \in Settled /\ pc \in Working /\ pc' \in Working
      BY <2>1, <2>3
    <3>2. Last \in Nat /\ GroupSize \in Nat /\ GroupStep = Last + GroupSize
      BY <2>1, <3>1, SavingFacts, GroupNumbers
    <3>3. PICK m \in Nat : m = GroupStep /\ Last <= m
      BY <3>2
    <3>4. \A key \in DOMAIN saved : key[2] <= Last /\ key[2] \in Nat
      BY <3>1, SavingFacts DEF RecoveryInv, ProcessInv, SettledInv
    <3>5. \A key \in DOMAIN saved : key[2] <= m
      BY <3>2, <3>3, <3>4
    <3>6. Announcing
      BY <2>3, <3>3, <3>5 DEF Announcing
    <3> QED
      BY <2>1, <3>1, <3>6, <1>c
  <2> QED
    BY <1>7, <2>2, <2>3 DEF Intercept
<1>8. CASE CheckDone
  <2>1. pc = "gate" /\ UNCHANGED <<effects, offset, budgetOffset, loopEnds>>
    BY <1>8 DEF CheckDone, fixedVars
  <2>2. CASE UNCHANGED storeVars
    BY <1>8, <2>1, <2>2, <1>c
  <2>3. CASE Save("pending", DoneStep) /\ pc' = "execute_done" /\ UNCHANGED steps
    <3>1. pc \in Settled /\ pc \in Working /\ pc' \in Working
      BY <2>1, <2>3
    <3>2. Last \in Nat /\ DoneStep = Last + 1
      BY <2>1, <3>1, SavingFacts, DoneNumber DEF Completing
    <3>3. PICK m \in Nat : m = DoneStep /\ Last <= m
      BY <3>2
    <3>4. \A key \in DOMAIN saved : key[2] <= Last /\ key[2] \in Nat
      BY <3>1, SavingFacts DEF RecoveryInv, ProcessInv, SettledInv
    <3>5. \A key \in DOMAIN saved : key[2] <= m
      BY <3>2, <3>3, <3>4
    <3>6. Announcing
      BY <2>3, <3>3, <3>5 DEF Announcing
    <3> QED
      BY <2>1, <2>3, <3>1, <3>6, <1>c
  <2> QED
    BY <1>8, <2>2, <2>3 DEF CheckDone
<1>9. CASE RecordToolStep \/ RecordBlockedStep \/ RecordRejectedStep \/ RecordAcceptedStep
  <2>1. /\ pc \in RecordingPoints /\ pc' \in Working
        /\ UNCHANGED <<effects, steps, offset, budgetOffset, loopEnds>>
        /\ \E kind \in {"step", "done"} : Save(kind, LastStep.n)
    BY <1>9 DEF RecordToolStep, RecordBlockedStep, RecordRejectedStep, RecordAcceptedStep,
                fixedVars, toolVars, StopWith, RecordingPoints
  <2>2. pc \in Working
    BY <2>1 DEF RecordingPoints
  <2>3. LastStep.n = Last /\ Last \in Nat
    BY <2>1, <2>2, SavingFacts, Numbers DEF YieldPoints, RecordingPoints
  <2>4. Recording
    BY <2>1, <2>3 DEF Recording
  <2> QED
    BY <2>1, <2>2, <2>4, <1>c
<1> QED
  BY <1>1, <1>2, <1>3, <1>4, <1>5, <1>6, <1>7, <1>8, <1>9 DEF RuntimeStep, LoopStep

-----------------------------------------------------------------------------
(* The hook's half of a step.                                              *)

(* The document the loop saved in this step is the one the hook looks at. *)
LEMMA SavedFacts ==
  ASSUME RecoveryInv, pc \in Working, UNCHANGED <<config, effects>>,
         NEW kind \in {"pending", "step", "done"}, NEW m \in Nat, Save(kind, m)
  PROVE  SavedNow = <<kind, m>> /\ Clocked' /\ clock' # clock
<1> DEFINE new == <<kind, m>>
<1>1. /\ clock' = clock + 1 /\ clock \in Nat
      /\ new \in DOMAIN saved' /\ saved'[new].at = clock + 1
      /\ \A key \in DOMAIN saved' : key = new \/ (key \in DOMAIN saved /\ saved'[key] = saved[key])
  BY DEF Save, RecoveryInv, DurableInv, StoreInv, Filed
<1>2. \A key \in DOMAIN saved : saved[key].at <= clock /\ saved[key].at \in Nat
  BY DEF RecoveryInv, DurableInv, StoreInv, Filed, Keyed, StoreType, Documents
<1> HIDE DEF new
<1>3. \A key \in DOMAIN saved' : saved'[key].at = clock' <=> key = new
  BY <1>1, <1>2
<1>4. SavedNow = new
  BY <1>1, <1>3 DEF SavedNow
<1>5. Clocked' /\ clock' # clock
  BY <1>1 DEF Clocked
<1> QED
  BY <1>4, <1>5 DEF new

(* Nothing saved, nothing kept. *)
LEMMA IdleKeeps ==
  ASSUME HookInv, UNCHANGED <<saved, clock, config, store, pending, warned>>,
         pc' \in Working => pc \in Working, pc = "ended" => pc' = "ended"
  PROVE  HookInv'
<1>1. \A m : PendingTop(m)' <=> PendingTop(m)
  BY DEF PendingTop, IsNewest
<1>2. \A t : TopNumber(t)' <=> TopNumber(t)
  BY DEF TopNumber
<1>3. HookType' /\ Clocked'
  BY <1>2 DEF HookInv, HookType, Clocked
<1>4. Numbered'
  BY DEF HookInv, Numbered
<1>5. Refusing'
  <2>1. CASE pc = "ended"
    BY <2>1, <1>1, <1>2 DEF HookInv, Refusing
  <2>2. CASE pc # "ended" /\ pc' # "ended"
    BY <2>2, <1>1, <1>2 DEF HookInv, Refusing
  <2>3. CASE pc # "ended" /\ pc' = "ended"
    BY <2>3, <1>1, <1>2 DEF HookInv, Refusing
  <2> QED
    BY <2>1, <2>2, <2>3
<1>6. Remembered'
  BY <1>1 DEF HookInv, Remembered
<1>7. Settling'
  BY <1>1, <1>2 DEF HookInv, Settling
<1> QED
  BY <1>3, <1>4, <1>5, <1>6, <1>7 DEF HookInv

(* A pending record is always kept, and is the newest document there is. *)
LEMMA AnnouncingKeeps ==
  ASSUME RecoveryInv, HookInv, pc \in Working, pc' \in Working,
         UNCHANGED <<config, effects>>, Announcing, Hook
  PROVE  HookInv'
<1>1. PICK m \in Nat : Save("pending", m) /\ \A key \in DOMAIN saved : key[2] <= m
  BY DEF Announcing
<1> DEFINE new == <<"pending", m>>
            doc == [pending |-> TRUE, terminal |-> FALSE]
<1>2. SavedNow = <<"pending", m>> /\ Clocked' /\ clock' # clock
  BY <1>1, SavedFacts
<1>3. SavedNow[1] = "pending" /\ SavedNow[2] = m
  BY <1>2
<1>4. pending' = TRUE /\ StoreSave(m, doc)
  BY <1>2, <1>3 DEF Hook, HookSave, Kept
<1>5. /\ DOMAIN saved' = DOMAIN saved \cup {new}
      /\ IsNewest(new)'
      /\ \A key \in DOMAIN saved' :
           key # new /\ IsNewest(key)' => key \in DOMAIN saved /\ m < key[2]
  <2>1. StoreInv /\ Remaining \in Nat /\ config' \in Configs /\ effects' \in SUBSET Nat
    BY SavingFacts
  <2> QED
    BY <2>1, <1>1, SaveFacts
<1>6. \A x \in Nat : PendingTop(x)' <=> x = m
  <2>1. PendingTop(m)'
    BY <1>5 DEF PendingTop
  <2>2. ASSUME NEW x \in Nat, PendingTop(x)', x # m PROVE FALSE
    <3>1. <<"pending", x>> \in DOMAIN saved' /\ IsNewest(<<"pending", x>>)'
      BY <2>2 DEF PendingTop, IsNewest
    <3>2. <<"pending", x>> # new /\ <<"pending", x>>[2] = x
      BY <2>2
    <3>3. x <= m /\ m < x
      BY <3>1, <3>2, <1>1, <1>5
    <3> QED
      BY <3>3
  <2> QED
    BY <2>1, <2>2
<1>7. \A k \in DOMAIN store : k <= m
  BY <1>1 DEF HookInv, Numbered
<1>8. Remembered' /\ pc' # "ended"
  BY <1>4 DEF Remembered, Working, Settled, Grouped, Judged, Answering
<1>9. \A k \in DOMAIN store : \E key \in DOMAIN saved' : key[2] = k
  BY <1>5 DEF HookInv, Numbered
<1>10. CASE warned' = TRUE /\ UNCHANGED store
  <2>1. HookType' /\ Numbered'
    BY <1>4, <1>9, <1>10 DEF HookInv, HookType, Numbered, TopNumber
  <2>2. Refusing' /\ Settling'
    BY <1>10 DEF Refusing, Settling
  <2> QED
    BY <2>1, <2>2, <1>2, <1>8 DEF HookInv
<1>11. CASE /\ store' = [k \in DOMAIN store \cup {m} |-> IF k = m THEN doc ELSE store[k]]
            /\ UNCHANGED warned
  <2>1. /\ DOMAIN store' = DOMAIN store \cup {m} /\ store'[m] = doc
        /\ \E t \in Nat : TopNumber(t)'
        /\ TopNumber(m)' /\ \A t \in Nat : TopNumber(t)' => t = m
    BY <1>7, <1>11, StoredFacts DEF HookInv, HookType
  <2>2. store'[m].pending
    BY <2>1
  <2>3. HookType'
    BY <2>1, <1>4, <1>11 DEF HookInv, HookType
  <2>4. Numbered'
    <3>1. new \in DOMAIN saved' /\ new[2] = m
      BY <1>5
    <3> QED
      BY <3>1, <2>1, <1>9 DEF Numbered
  <2>5. Refusing'
    BY <2>1, <2>2, <1>6, <1>8 DEF Refusing
  <2>6. Settling'
    BY <2>1, <1>6 DEF Settling
  <2> QED
    BY <2>3, <2>4, <2>5, <2>6, <1>2, <1>8 DEF HookInv
<1> QED
  BY <1>4, <1>10, <1>11 DEF StoreSave

(* With serial dispatch no document has a higher number than the step that *)
(* is recorded.                                                            *)
LEMMA SerialTop ==
  ASSUME RecoveryInv, ~config.concurrent, pc \in RecordingPoints
  PROVE  \A key \in DOMAIN saved : key[2] <= Last
<1>1. pc \in Working
  BY DEF RecordingPoints, Working, Settled, Grouped, Judged, Answering
<1>2. CASE pc = "yield_tool"
  <2>1. /\ \A key \in DOMAIN saved : key[2] <= Last + Len(batch)
        /\ Len(batch) = 0
    BY <1>2 DEF RecoveryInv, ProcessInv, GroupedInv, Grouped
  <2> QED
    BY <2>1, <1>1, SavingFacts
<1>3. CASE pc = "yield_blocked"
  BY <1>3 DEF RecoveryInv, ProcessInv, SettledInv, Settled
<1>4. CASE pc \in {"yield_rejected", "accepted"}
  BY <1>4 DEF RecoveryInv, ProcessInv, JudgedInv, Answering
<1> QED
  BY <1>2, <1>3, <1>4 DEF RecordingPoints

(* The first acknowledgement after a pending record is always kept, so the *)
(* others may be dropped.                                                  *)
LEMMA RecordingKeeps ==
  ASSUME RecoveryInv, HookInv, pc \in Working, pc' \in Working,
         UNCHANGED <<config, effects>>, Recording, Hook
  PROVE  HookInv'
<1>1. PICK kind \in {"step", "done"}, m \in Nat : m = Last /\ Save(kind, m)
  BY DEF Recording
<1> DEFINE new == <<kind, m>>
            doc == [pending |-> kind = "pending", terminal |-> kind = "done"]
<1>2. SavedNow = <<kind, m>> /\ Clocked' /\ clock' # clock
  BY <1>1, SavedFacts
<1>3. SavedNow[1] = kind /\ SavedNow[2] = m
  BY <1>2
<1>4. /\ pending' = FALSE
      /\ \/ Kept(kind, m) /\ StoreSave(m, doc)
         \/ ~Kept(kind, m) /\ UNCHANGED <<store, warned>>
  BY <1>1, <1>2, <1>3 DEF Hook, HookSave
<1>d. doc.pending = FALSE
  BY <1>1, Zenon
<1> HIDE DEF doc
<1>5. /\ DOMAIN saved' = DOMAIN saved \cup {new}
      /\ \A key \in DOMAIN saved' :
           key # new /\ IsNewest(key)' => key \in DOMAIN saved /\ IsNewest(key) /\ m < key[2]
  <2>1. StoreInv /\ Remaining \in Nat /\ config' \in Configs /\ effects' \in SUBSET Nat
    BY SavingFacts
  <2> QED
    BY <2>1, <1>1, SaveFacts
<1>6. \A x \in Nat : PendingTop(x)' => PendingTop(x) /\ m < x
  <2>1. ASSUME NEW x \in Nat, PendingTop(x)' PROVE PendingTop(x) /\ m < x
    <3>1. <<"pending", x>> \in DOMAIN saved' /\ IsNewest(<<"pending", x>>)'
      BY <2>1 DEF PendingTop, IsNewest
    <3>2. <<"pending", x>> # new /\ <<"pending", x>>[2] = x
      BY <1>1
    <3> QED
      BY <3>1, <3>2, <1>5 DEF PendingTop
  <2> QED
    BY <2>1
<1>7. ~config.concurrent => \A key \in DOMAIN saved : key[2] <= m
  BY <1>1, SerialTop DEF Recording
<1>8. ~config.concurrent => \A x \in Nat : ~PendingTop(x)'
  <2>1. ASSUME ~config.concurrent, NEW x \in Nat, PendingTop(x)' PROVE FALSE
    <3>1. <<"pending", x>> \in DOMAIN saved /\ <<"pending", x>>[2] = x /\ m < x
      BY <2>1, <1>6 DEF PendingTop, IsNewest
    <3>2. x <= m
      BY <3>1, <2>1, <1>7
    <3> QED
      BY <3>1, <3>2
  <2> QED
    BY <2>1
<1>9. Remembered' /\ pc' # "ended" /\ pc # "ended"
  BY <1>8 DEF Remembered, Working, Settled, Grouped, Judged, Answering
<1>10. \A k \in DOMAIN store : \E key \in DOMAIN saved' : key[2] = k
  BY <1>5 DEF HookInv, Numbered
<1>11. CASE warned' = TRUE /\ UNCHANGED store
  <2>1. HookType' /\ Numbered'
    BY <1>4, <1>10, <1>11 DEF HookInv, HookType, Numbered, TopNumber
  <2>2. Refusing' /\ Settling'
    BY <1>11 DEF Refusing, Settling
  <2> QED
    BY <2>1, <2>2, <1>2, <1>9 DEF HookInv
<1>12. CASE /\ store' = [k \in DOMAIN store \cup {m} |-> IF k = m THEN doc ELSE store[k]]
            /\ UNCHANGED warned
  <2>1. /\ DOMAIN store' = DOMAIN store \cup {m} /\ store'[m] = doc
        /\ \A k \in DOMAIN store : k # m => store'[k] = store[k]
        /\ \E t \in Nat : TopNumber(t)'
        /\ (\A k \in DOMAIN store : k <= m) =>
             TopNumber(m)' /\ \A t \in Nat : TopNumber(t)' => t = m
        /\ \A t \in Nat : TopNumber(t) /\ m < t => TopNumber(t)'
    BY <1>12, StoredFacts DEF HookInv, HookType
  <2>2. ~store'[m].pending
    BY <2>1, <1>d
  <2>3. HookType'
    <3>1. pending' \in BOOLEAN /\ warned' \in BOOLEAN
      BY <1>4, <1>12, Zenon DEF HookInv, HookType
    <3> QED
      BY <3>1, <2>1 DEF HookInv, HookType
  <2>4. Numbered'
    <3>1. new \in DOMAIN saved' /\ new[2] = m
      BY <1>5
    <3> QED
      BY <3>1, <2>1, <1>10 DEF Numbered
  <2>5. Refusing'
    <3>1. ASSUME ~warned, NEW x \in Nat, PendingTop(x)'
          PROVE  TopNumber(x)' /\ store'[x].pending
      <4>1. m < x /\ TopNumber(x) /\ store[x].pending
        BY <3>1, <1>6, <1>9 DEF HookInv, Refusing
      <4>2. x \in DOMAIN store /\ x # m
        BY <4>1 DEF TopNumber
      <4> QED
        BY <4>1, <4>2, <2>1
    <3> QED
      BY <3>1, <1>9, <1>12 DEF Refusing
  <2>6. Settling'
    <3>1. ~config.concurrent => \A t \in Nat : TopNumber(t)' => t = m
      BY <2>1, <1>7 DEF HookInv, Numbered
    <3> QED
      BY <3>1, <2>2 DEF Settling
  <2> QED
    BY <2>3, <2>4, <2>5, <2>6, <1>2, <1>9 DEF HookInv
<1>13. CASE ~Kept(kind, m) /\ UNCHANGED <<store, warned>>
  <2>1. \A t : TopNumber(t)' <=> TopNumber(t)
    BY <1>13 DEF TopNumber
  <2>2. HookType' /\ Numbered'
    BY <2>1, <1>4, <1>10, <1>13 DEF HookInv, HookType, Numbered
  <2>3. Refusing'
    BY <2>1, <1>6, <1>9, <1>13 DEF HookInv, Refusing
  <2>4. Settling'
    <3>1. ~pending
      BY <1>13 DEF Kept
    <3>2. ~config.concurrent => \A x \in Nat : ~PendingTop(x)
      BY <3>1, <1>9 DEF HookInv, Remembered
    <3> QED
      BY <3>2, <2>1, <1>13 DEF HookInv, Settling
  <2> QED
    BY <2>2, <2>3, <2>4, <1>2, <1>9 DEF HookInv
<1> QED
  BY <1>4, <1>11, <1>12, <1>13 DEF StoreSave

(* The number of the last document and of the last step. *)
LEMMA EndNumber ==
  ASSUME RecoveryInv, HookInv, pc \in Points
  PROVE  Max({LatestStep, IF steps = <<>> THEN 0 ELSE LastStep.n}) \in Nat
<1>1. LatestStep \in Nat
  <2>1. CASE clock = 0
    BY <2>1 DEF LatestStep
  <2>2. CASE clock # 0
    <3>1. clock > 0
      BY <2>2 DEF RecoveryInv, DurableInv, StoreInv, Filed
    <3>2. \E key \in DOMAIN saved : saved[key].at = clock
      BY <3>1 DEF HookInv, Clocked
    <3>3. (CHOOSE key \in DOMAIN saved : saved[key].at = clock) \in DOMAIN saved
      BY <3>2, Zenon
    <3>4. \A key \in DOMAIN saved : saved[key].n \in Nat
      BY DEF RecoveryInv, DurableInv, StoreInv, Filed, StoreType, Documents
    <3> QED
      BY <2>2, <3>3, <3>4 DEF LatestStep
  <2> QED
    BY <2>1, <2>2
<1>2. (IF steps = <<>> THEN 0 ELSE LastStep.n) \in Nat
  <2>1. steps \in Seq(Step)
    BY DEF RecoveryInv, ProcessInv, LoopInv, DataInv, DataType
  <2>2. ASSUME steps # <<>> PROVE LastStep.n \in Nat
    <3>1. Len(steps) \in 1..Len(steps)
      BY <2>1, <2>2, EmptySeq
    <3>2. LastStep \in Step
      BY <2>1, <3>1, ElementOfSeq DEF LastStep
    <3> QED
      BY <3>2 DEF Step
  <2> QED
    BY <2>2
<1> QED
  BY <1>1, <1>2, MaxOfTwo

(* The document written at the end is pending if the loop's newest one is: *)
(* after a return nothing is open, and a serial run that was cut short has *)
(* remembered what is.                                                     *)
LEMMA EndingKeeps ==
  ASSUME RecoveryInv, HookInv, UNCHANGED <<saved, clock, config>>,
         \/ pc = "finalize" /\ pc' \in {"unwind", "ended"}
         \/ pc = "unwind" /\ pc' = "ended",
         loopEnds' # loopEnds, Hook
  PROVE  HookInv'
<1> DEFINE top == Max({LatestStep, IF steps = <<>> THEN 0 ELSE LastStep.n})
            doc == [pending |-> pending, terminal |-> TRUE]
<1>1. StoreSave(top, doc) /\ pending' = pending
  BY DEF Hook, TerminalSave
<1>2. PICK n \in Nat : n = top
  BY EndNumber DEF Points
<1> HIDE DEF top
<1>3. \A m : PendingTop(m)' <=> PendingTop(m)
  BY DEF PendingTop, IsNewest
<1>4. pc = "finalize" => \A m \in Nat : ~PendingTop(m)
  <2>1. ASSUME pc = "finalize", NEW m \in Nat, PendingTop(m) PROVE FALSE
    <3>1. <<"pending", m>> \in DOMAIN saved /\ <<"pending", m>>[1] = "pending"
      BY <2>1 DEF PendingTop, IsNewest
    <3> QED
      BY <2>1, <3>1 DEF PendingTop, RecoveryInv, ProcessInv, SettledInv, Settled
  <2> QED
    BY <2>1
<1>5. Clocked' /\ Numbered' /\ Settling'
  BY DEF HookInv, Clocked, Numbered, Settling, Working, Settled, Grouped, Judged, Answering
<1>6. Remembered'
  BY <1>1, <1>3, <1>4 DEF HookInv, Remembered
<1>7. CASE warned' = TRUE /\ UNCHANGED store
  <2>1. HookType'
    BY <1>1, <1>7 DEF HookInv, HookType, TopNumber
  <2>2. Refusing'
    BY <1>7 DEF Refusing
  <2> QED
    BY <2>1, <2>2, <1>5, <1>6 DEF HookInv
<1>8. CASE /\ store' = [k \in DOMAIN store \cup {n} |-> IF k = n THEN doc ELSE store[k]]
           /\ UNCHANGED warned
  <2>1. /\ DOMAIN store' = DOMAIN store \cup {n} /\ store'[n] = doc
        /\ \A k \in DOMAIN store : k # n => store'[k] = store[k]
        /\ \E t \in Nat : TopNumber(t)'
        /\ \A t \in Nat : TopNumber(t) /\ n < t => TopNumber(t)'
        /\ \A t \in Nat : TopNumber(t) /\ t <= n => TopNumber(n)'
    BY <1>8, StoredFacts DEF HookInv, HookType
  <2>2. HookType'
    BY <2>1, <1>1, <1>8 DEF HookInv, HookType
  <2>3. ASSUME ~warned, ~config.concurrent, NEW m \in Nat, PendingTop(m)
        PROVE  \E t \in Nat : TopNumber(t)' /\ store'[t].pending
    <3>1. pc # "ended"
      OBVIOUS
    <3>2. pending /\ TopNumber(m) /\ store[m].pending
      BY <2>3, <3>1 DEF HookInv, Remembered, Refusing
    <3>3. CASE m <= n
      <4>1. store'[n].pending
        BY <3>2, <2>1
      <4> QED
        BY <3>2, <3>3, <4>1, <2>1
    <3>4. CASE n < m
      <4>1. m \in DOMAIN store /\ m # n
        BY <3>2, <3>4 DEF TopNumber
      <4> QED
        BY <3>2, <3>4, <4>1, <2>1
    <3> QED
      BY <3>3, <3>4
  <2>4. Refusing'
    BY <2>3, <1>3, <1>4, <1>8 DEF Refusing
  <2> QED
    BY <2>2, <2>4, <1>5, <1>6 DEF HookInv
<1> QED
  BY <1>1, <1>2, <1>7, <1>8 DEF StoreSave

-----------------------------------------------------------------------------
(* The invariant, and what it means for a resume.                          *)

LEMMA HookInit == RuntimeInit => RecoveryInv /\ HookInv
<1> SUFFICES ASSUME RuntimeInit PROVE RecoveryInv /\ HookInv
  OBVIOUS
<1>1. RecoveryInv
  BY RecoveryInvInit DEF RuntimeInit
<1>2. /\ DOMAIN saved = {} /\ DOMAIN store = {} /\ clock = 0
      /\ pending = FALSE /\ warned = FALSE
  BY DEF RuntimeInit, Init
<1>3. HookType
  <2>1. pending \in BOOLEAN /\ warned \in BOOLEAN
    BY <1>2, Zenon
  <2> QED
    BY <1>2, <2>1 DEF HookType
<1>5. Clocked /\ Numbered
  BY <1>2 DEF Clocked, Numbered
<1>4. Refusing /\ Remembered /\ Settling
  BY <1>2 DEF Refusing, Remembered, Settling, PendingTop, IsNewest, TopNumber
<1> QED
  BY <1>1, <1>3, <1>4, <1>5 DEF HookInv

LEMMA HookStep ==
  ASSUME RecoveryInv, HookInv, [RuntimeNext]_<<vars, runtimeVars>>
  PROVE  RecoveryInv' /\ HookInv'
<1>1. RecoveryInv'
  <2>1. [Next]_vars
    BY DEF RuntimeNext, Next, HostStep
  <2> QED
    BY <2>1, RecoveryStep
<1>2. CASE UNCHANGED <<vars, runtimeVars>>
  BY <1>1, <1>2, IdleKeeps DEF vars, runtimeVars
<1>3. CASE RuntimeStep /\ Hook
  <2>1. config' = config
    BY <1>3, HookSees
  <2>2. CASE Unsaved
    <3>1. CASE loopEnds' = loopEnds
      <4>1. UNCHANGED <<store, pending, warned>>
        BY <1>3, <2>2, <3>1 DEF Hook, Unsaved, runtimeVars
      <4> QED
        BY <1>1, <2>1, <2>2, <4>1, IdleKeeps DEF Unsaved
    <3>2. CASE loopEnds' # loopEnds
      BY <1>1, <1>3, <2>1, <2>2, <3>2, EndingKeeps DEF Unsaved
    <3> QED
      BY <3>1, <3>2
  <2>3. CASE pc \in Working /\ pc' \in Working /\ UNCHANGED effects /\ Announcing
    BY <1>1, <1>3, <2>1, <2>3, AnnouncingKeeps
  <2>4. CASE pc \in Working /\ pc' \in Working /\ UNCHANGED effects /\ Recording
    BY <1>1, <1>3, <2>1, <2>4, RecordingKeeps
  <2> QED
    BY <1>3, <2>2, <2>3, <2>4, HookSees
<1> QED
  BY <1>2, <1>3 DEF RuntimeNext, RuntimeStep

(* At every instant of a run under the runtime, with any checkpoint        *)
(* interval, the loop's files and the hook's store stand to each other as  *)
(* HookInv says: whatever save dropped, the newest document of one side    *)
(* tells what the newest of the other does.                                *)
THEOREM HookInvariant == RuntimeSpec => [](RecoveryInv /\ HookInv)
BY HookInit, HookStep, PTL DEF RuntimeSpec

(* A process that dies leaves a store whose newest document makes resume   *)
(* refuse, as long as an executed call has no recorded result: at every    *)
(* instant of a run, and also after the end of one with serial dispatch;   *)
(* for every checkpoint interval.                                          *)
THEOREM StoreRefuses == RuntimeSpec => []StoreBlocksResume
<1>1. ASSUME RecoveryInv, HookInv PROVE StoreBlocksResume
  <2>1. ASSUME ~warned, pc # "ended" \/ ~config.concurrent, NEW n \in effects, ~Recorded(n)
        PROVE  Latest.pending
    <3>1. PICK key \in DOMAIN saved : IsNewest(key) /\ key[1] = "pending"
      BY <1>1, <2>1 DEF RecoveryInv, DurableInv, CoveredInv
    <3>2. PICK m \in Nat : key = <<"pending", m>>
      BY <1>1, <3>1 DEF RecoveryInv, DurableInv, StoreInv, Filed, StoreType, Keys
    <3>3. PendingTop(m)
      BY <3>1, <3>2 DEF PendingTop
    <3>4. PICK t \in Nat : TopNumber(t) /\ store[t].pending
      BY <1>1, <2>1, <3>3 DEF HookInv, Refusing
    <3>5. Latest = store[t]
      BY <1>1, <3>4, TopIsMax DEF HookInv, HookType, Latest
    <3> QED
      BY <3>4, <3>5
  <2> QED
    BY <2>1 DEF StoreBlocksResume
<1> QED
  BY <1>1, HookInvariant, PTL

(* With serial dispatch the newest document refuses a resume no longer     *)
(* than it has to: never between one recorded step and the next.           *)
THEOREM StoreAccepts == RuntimeSpec => []StoreSettles
<1>1. ASSUME RecoveryInv, HookInv PROVE StoreSettles
  <2>1. ASSUME ~warned, ~config.concurrent, DOMAIN store # {},
               pc \in {"after_step", "post_step", "top", "prompt", "finish"}
        PROVE  ~Latest.pending
    <3>1. pc \in Working
      BY <2>1 DEF Working, Settled, Grouped
    <3>2. PICK t \in Nat : TopNumber(t)
      BY <1>1, <2>1 DEF HookInv, HookType
    <3>3. Latest = store[t]
      BY <1>1, <3>2, TopIsMax DEF HookInv, HookType, Latest
    <3>4. ~PendingTop(t)
      <4>1. ASSUME PendingTop(t) PROVE FALSE
        <5>1. /\ <<"pending", t>> \in DOMAIN saved /\ IsNewest(<<"pending", t>>)
              /\ <<"pending", t>>[1] = "pending" /\ <<"pending", t>>[2] = t
          BY <4>1 DEF PendingTop, IsNewest
        <5>2. CASE pc = "after_step"
          <6>1. /\ Last < t /\ t <= Last + Len(batch) /\ Len(batch) = 0
            BY <1>1, <2>1, <5>1, <5>2 DEF RecoveryInv, ProcessInv, GroupedInv, Grouped
          <6> QED
            BY <1>1, <3>1, <6>1, SavingFacts
        <5>3. CASE pc \in Settled
          BY <1>1, <5>1, <5>3 DEF RecoveryInv, ProcessInv, SettledInv
        <5> QED
          BY <2>1, <5>2, <5>3 DEF Settled
      <4> QED
        BY <4>1
    <3> QED
      BY <1>1, <2>1, <3>1, <3>2, <3>3, <3>4 DEF HookInv, Settling
  <2> QED
    BY <2>1 DEF StoreSettles
<1> QED
  BY <1>1, HookInvariant, PTL
=============================================================================
