--------------------------- MODULE RecoveryProofs ---------------------------
(***************************************************************************)
(* Proofs that crashes and resumes neither repeat nor forget an effect, for *)
(* every budget, turn size and number of processes, and that AgentLoop     *)
(* with CheckpointRecovery implements EffectLedger.                        *)
(*                                                                         *)
(* One invariant serves the loop alone and the loop with crashes: its      *)
(* durable half is about the files and holds at every instant, its other   *)
(* half says at each point of a turn how far the files are behind.         *)
(***************************************************************************)
EXTENDS CheckpointRecovery, AgentLoopProofs

-----------------------------------------------------------------------------
(* Which points a process can be at, by what may be unrecorded there:       *)
(* nothing, calls of the group under way, or the terminal call.             *)
Settled ==
  {"start", "top", "prompt", "request", "await", "answered", "yield_failed", "parse",
   "unparsed", "yield_unparsed", "plan", "intercept", "dispatched", "gate",
   "yield_blocked", "post_step", "finish", "finalize"}
Grouped == {"execute", "collect", "yield_tool", "after_step"}
Answering == {"yield_rejected", "yield_accepted", "accepted"}
Judged == {"execute_done", "judge_done"} \cup Answering
Working == Settled \cup Grouped \cup Judged

(* An effect that is not recorded is covered by the newest document, and a *)
(* pending document that is the newest names a step nobody has recorded.   *)
CoveredInv ==
  /\ \A n \in effects :
       \/ Recorded(n)
       \/ \E key \in DOMAIN saved : IsNewest(key) /\ key[1] = "pending" /\ n <= key[2]
  /\ \A key \in DOMAIN saved :
       IsNewest(key) /\ key[1] = "pending" => ~Recorded(key[2]) /\ key[2] > 0

AllRecorded == \A n \in effects : Recorded(n)

(* Where the documents and the effects stand against the steps in memory. *)
SettledInv ==
  pc \in Settled =>
    /\ AllRecorded
    /\ \A key \in DOMAIN saved :
         key[2] <= Last /\ ~(IsNewest(key) /\ key[1] = "pending")

GroupedInv ==
  /\ pc \in Grouped =>
       /\ \A key \in DOMAIN saved : key[2] <= Last + Len(batch)
       /\ \A n \in effects :
            \/ Recorded(n)
            \/ /\ (IF pc = "yield_tool" THEN Last ELSE Last + 1) <= n
               /\ n <= Last + Len(batch)
       /\ AllRecorded \/ PendingTop(Last + Len(batch))
  /\ pc = "execute" => /\ PendingTop(Last + Len(batch))
                       /\ \A i \in running : Last + i \notin effects
  /\ pc = "after_step" =>
       \A key \in DOMAIN saved : IsNewest(key) /\ key[1] = "pending" => Last < key[2]
  /\ pc \in {"yield_tool", "after_step"} /\ ~config.concurrent => Len(batch) = 0

JudgedInv ==
  /\ pc \in {"execute_done", "judge_done"} =>
       \A key \in DOMAIN saved : key[2] <= Last + 1
  /\ pc = "execute_done" => AllRecorded /\ PendingTop(Last + 1) /\ Last + 1 \notin effects
  /\ pc = "judge_done" => \A n \in effects : Recorded(n) \/ n = Last + 1
  /\ pc \in Answering => /\ \A key \in DOMAIN saved : key[2] <= Last
                         /\ \A n \in effects : Recorded(n) \/ n = Last

(* Finished documents are about steps in memory, with no less budget left. *)
FinishedInv ==
  pc \in Working =>
    \A key \in Finished : key[2] <= Last /\ Remaining <= saved[key].left

ReturnedInv == outcome = "returned" => pc \in {"ended", "refused"} /\ AllRecorded

DurableInv == StoreInv /\ CoveredInv /\ SpendingKept /\ ReturnedInv
ProcessInv ==
  /\ pc \in Points \cup {"crashed", "refused"}
  /\ pc \in Points => LoopInv
  /\ SettledInv /\ GroupedInv /\ JudgedInv /\ FinishedInv

RecoveryInv == DurableInv /\ ProcessInv

-----------------------------------------------------------------------------
(* The process against the files.                                          *)

(* The invariant of the loop, as far as it is about numbers. *)
LEMMA Numbers ==
  ASSUME LoopInv
  PROVE  /\ Last \in Nat /\ Remaining \in Nat /\ Len(steps) \in Nat /\ offset \in Nat
         /\ Len(batch) \in Nat
         /\ pc \in Dispatching \cup Completing => stepNum + at = Last + 1
         /\ pc \in YieldPoints \cup {"accepted"} => LastStep.n = Last /\ Len(steps) > 0
BY TurnNumbers DEF LoopInv

(* A further step gives no budget back. *)
LEMMA RemainingFalls ==
  ASSUME LoopInv, LoopInv', UNCHANGED budgetOffset,
         NEW s, steps' = Append(steps, s)
  PROVE  Remaining' <= Remaining /\ Last' = Last + (offset' - offset) + 1
<1> DEFINE C == {i \in DOMAIN steps : ~steps[i].free}
           D == {i \in DOMAIN steps' : ~steps'[i].free}
<1>1. steps \in Seq(Step) /\ steps' \in Seq(Step) /\ offset \in Nat /\ offset' \in Nat
  BY DEF LoopInv, DataInv, DataType
<1>2. /\ Len(steps') = Len(steps) + 1
      /\ \A i \in 1..Len(steps) : steps'[i] = steps[i]
  BY <1>1
<1>3. IsFiniteSet(D)
  <2>1. IsFiniteSet(1..Len(steps')) /\ D \in SUBSET (1..Len(steps'))
    BY <1>1, FS_Interval
  <2> QED
    BY <2>1, FS_Subset
<1>4. C \in SUBSET D
  <2>1. DOMAIN steps = 1..Len(steps) /\ DOMAIN steps' = 1..Len(steps) + 1 /\ Len(steps) \in Nat
    BY <1>1, <1>2
  <2> QED
    BY <1>2, <2>1
<1>5. Charged(steps) = Cardinality(C) /\ Charged(steps') = Cardinality(D)
  BY DEF Charged
<1> HIDE DEF C, D
<1>6. Charged(steps) <= Charged(steps')
  BY <1>3, <1>4, <1>5, FS_Subset
<1>7. /\ Charged(steps) \in Nat /\ Remaining = MaxSteps - budgetOffset - Charged(steps)
  BY RemainingFacts DEF LoopInv, DataInv
<1>8. /\ Charged(steps') \in Nat /\ Remaining' = MaxSteps - budgetOffset' - Charged(steps')
  <2>1. DataType' /\ BudgetRespected'
    BY DEF LoopInv, DataInv
  <2>2. Charged(steps') \in Nat
    BY <1>1, ChargedFacts
  <2> QED
    BY <2>1, <2>2, BudgetAssumption DEF DataType, BudgetRespected, Remaining
<1>9. budgetOffset \in Nat
  BY DEF LoopInv, DataInv, DataType
<1>10. Remaining' <= Remaining
  BY <1>6, <1>7, <1>8, <1>9, BudgetAssumption
<1>11. Last' = Last + (offset' - offset) + 1
  BY <1>1, <1>2 DEF Last
<1> QED
  BY <1>10, <1>11

(* A step that leaves files and effects alone keeps what is said of them. *)
LEMMA FilesSame ==
  ASSUME DurableInv, UNCHANGED <<saved, clock, effects>>, config' \in Configs
  PROVE  /\ StoreInv' /\ CoveredInv' /\ SpendingKept'
         /\ AllRecorded' <=> AllRecorded
         /\ Finished' = Finished
         /\ \A n : Recorded(n)' <=> Recorded(n)
         /\ \A key : IsNewest(key)' <=> IsNewest(key)
<1>1. \A key : IsNewest(key)' <=> IsNewest(key)
  BY DEF IsNewest
<1>2. \A n : Recorded(n)' <=> Recorded(n)
  BY DEF Recorded
<1>3. StoreInv'
  BY <1>1 DEF DurableInv, StoreInv, Filed, Keyed, Ordered, StoreType
<1>4. CoveredInv'
  BY <1>1, <1>2 DEF DurableInv, CoveredInv
<1>5. SpendingKept' /\ Finished' = Finished
  BY DEF DurableInv, SpendingKept, Finished
<1>6. AllRecorded' <=> AllRecorded
  BY <1>2 DEF AllRecorded
<1> QED
  BY <1>1, <1>2, <1>3, <1>4, <1>5, <1>6

(* The process stops working, files and effects as they are. *)
LEMMA ExitStep ==
  ASSUME RecoveryInv, UNCHANGED <<saved, clock, effects>>, config' \in Configs,
         pc' \in {"unwind", "ended", "crashed", "refused"},
         pc' \in Points => LoopInv',
         outcome' = "returned" => pc' \in {"ended", "refused"} /\ AllRecorded
  PROVE  RecoveryInv'
<1>1. DurableInv'
  BY FilesSame DEF RecoveryInv, DurableInv, ReturnedInv
<1>2. ProcessInv'
  BY DEF RecoveryInv, ProcessInv, SettledInv, GroupedInv, JudgedInv, FinishedInv, Points,
         Settled, Grouped, Answering, Judged, Working
<1> QED
  BY <1>1, <1>2 DEF RecoveryInv

(* With everything recorded, the process goes on without touching files. *)
LEMMA SettledStep ==
  ASSUME RecoveryInv, LoopInv', UNCHANGED <<saved, clock, effects>>, config' \in Configs,
         pc \in Settled, pc' \in Settled, outcome' # "returned",
         Last <= Last', Remaining' <= Remaining
  PROVE  RecoveryInv'
<1>1. DurableInv'
  BY FilesSame DEF RecoveryInv, DurableInv, ReturnedInv
<1>2. LoopInv /\ pc' \in Points
  BY DEF RecoveryInv, ProcessInv, Settled, Points
<1>3. Last \in Nat /\ Last' \in Nat /\ Remaining \in Nat /\ Remaining' \in Nat
  <2>1. Last' \in Nat /\ Remaining' \in Nat
    <3>1. /\ Len(steps') \in Nat /\ offset' \in Nat
      BY DEF LoopInv, DataInv, DataType
    <3>2. Charged(steps') \in Nat
      BY ChargedFacts DEF LoopInv, DataInv, DataType
    <3>3. BudgetRespected' /\ budgetOffset' \in Nat
      BY DEF LoopInv, DataInv, DataType
    <3> QED
      BY <3>1, <3>2, <3>3, BudgetAssumption DEF Last, Remaining, BudgetRespected
  <2> QED
    BY <1>2, <2>1, Numbers
<1>k. /\ \A key \in DOMAIN saved : key[2] \in Nat
      /\ \A key \in Finished : key \in DOMAIN saved /\ saved[key].left \in Nat
  BY DEF RecoveryInv, DurableInv, StoreInv, Filed, Keyed, StoreType, Documents, Keys, Finished
<1>4. SettledInv'
  <2>1. AllRecorded'
    BY FilesSame DEF RecoveryInv, ProcessInv, SettledInv
  <2>2. ASSUME NEW key \in DOMAIN saved PROVE key[2] <= Last'
    <3>1. key[2] <= Last
      BY DEF RecoveryInv, ProcessInv, SettledInv
    <3> QED
      BY <3>1, <1>3, <1>k
  <2>3. \A key \in DOMAIN saved' : ~(IsNewest(key)' /\ key[1] = "pending")
    BY FilesSame DEF RecoveryInv, ProcessInv, SettledInv
  <2> QED
    BY <2>1, <2>2, <2>3 DEF SettledInv
<1>5. FinishedInv'
  <2>1. ASSUME NEW key \in Finished'
        PROVE  key[2] <= Last' /\ Remaining' <= saved'[key].left
    <3>1. key \in Finished /\ saved'[key] = saved[key]
      BY <2>1, FilesSame DEF RecoveryInv
    <3>2. key[2] <= Last /\ Remaining <= saved[key].left
      BY <3>1 DEF RecoveryInv, ProcessInv, FinishedInv, Working
    <3> QED
      BY <3>1, <3>2, <1>3, <1>k
  <2> QED
    BY <2>1 DEF FinishedInv
<1>6. GroupedInv' /\ JudgedInv'
  BY DEF Settled, Grouped, Answering, GroupedInv, JudgedInv
<1> QED
  BY <1>1, <1>2, <1>4, <1>5, <1>6 DEF RecoveryInv, ProcessInv

(* A step of the host, or of nobody. *)
LEMMA HostsStep ==
  ASSUME RecoveryInv,
         UNCHANGED <<pc, saved, clock, effects, config, steps, offset, budgetOffset, batch,
                     running, outcome>>,
         pc \in Points => LoopInv'
  PROVE  RecoveryInv'
<1>1. config' \in Configs
  BY DEF RecoveryInv, DurableInv, StoreInv, Filed
<1>2. DurableInv'
  BY <1>1, FilesSame DEF RecoveryInv, DurableInv, ReturnedInv
<1>3. Last' = Last /\ Remaining' = Remaining
  BY DEF Last, Remaining
<1>4. \A p : PendingTop(p)' <=> PendingTop(p)
  BY <1>1, FilesSame DEF RecoveryInv, PendingTop
<1>5. SettledInv' /\ FinishedInv'
  BY <1>1, <1>3, FilesSame DEF RecoveryInv, ProcessInv, SettledInv, FinishedInv
<1>6. GroupedInv'
  BY <1>1, <1>3, <1>4, FilesSame DEF RecoveryInv, ProcessInv, GroupedInv
<1>7. JudgedInv'
  BY <1>1, <1>3, <1>4, FilesSame DEF RecoveryInv, ProcessInv, JudgedInv
<1> QED
  BY <1>2, <1>5, <1>6, <1>7 DEF RecoveryInv, ProcessInv

(* The numbers of the next state. *)
LEMMA NumbersNext ==
  ASSUME LoopInv'
  PROVE  Last' \in Nat /\ Remaining' \in Nat /\ Len(batch') \in Nat
<1>1. Len(steps') \in Nat /\ offset' \in Nat /\ Len(batch') \in Nat
  BY DEF LoopInv, DataInv, DataType
<1>2. Charged(steps') \in Nat
  BY ChargedFacts DEF LoopInv, DataInv, DataType
<1>3. BudgetRespected' /\ budgetOffset' \in Nat
  BY DEF LoopInv, DataInv, DataType
<1> QED
  BY <1>1, <1>2, <1>3, BudgetAssumption DEF Last, Remaining, BudgetRespected

(* What is known of the documents and of the process that saves the next. *)
LEMMA SavingFacts ==
  ASSUME RecoveryInv, pc \in Working
  PROVE  /\ pc \in Points /\ LoopInv /\ StoreInv /\ CoveredInv /\ outcome # "returned"
         /\ Last \in Nat /\ Remaining \in Nat /\ Len(batch) \in Nat
         /\ config \in Configs /\ effects \in SUBSET Nat
         /\ \A key \in DOMAIN saved : key[2] \in Nat /\ saved[key].n = key[2]
                                      /\ saved[key].left \in Nat
<1>1. pc \in Points /\ LoopInv /\ outcome # "returned"
  BY DEF RecoveryInv, DurableInv, ProcessInv, ReturnedInv, Working, Settled, Grouped, Judged,
         Answering, Points
<1>2. StoreInv /\ CoveredInv /\ config \in Configs /\ effects \in SUBSET Nat
  BY DEF RecoveryInv, DurableInv, StoreInv, Filed
<1>3. \A key \in DOMAIN saved : key[2] \in Nat /\ saved[key].n = key[2]
                                /\ saved[key].left \in Nat
  BY DEF RecoveryInv, DurableInv, StoreInv, Filed, Keyed, StoreType, Documents, Keys
<1> QED
  BY <1>1, <1>2, <1>3, Numbers

(* A finished document of the last step keeps the budgets in order. *)
LEMMA FinishedStep ==
  ASSUME RecoveryInv, pc \in Working,
         NEW kind \in {"step", "done"}, NEW m \in Nat, m = Last, Save(kind, m),
         UNCHANGED <<effects, config, steps, offset, budgetOffset>>
  PROVE  SpendingKept' /\ \A key \in Finished' : key[2] <= Last' /\ Remaining' <= saved'[key].left
<1> DEFINE new == <<kind, m>>
<1>1. /\ DOMAIN saved' = DOMAIN saved \cup {new}
      /\ saved'[new].left = Remaining
      /\ \A key \in DOMAIN saved : key # new => saved'[key] = saved[key]
      /\ StoreInv'
  <2>1. /\ StoreInv /\ Remaining \in Nat /\ config' \in Configs /\ effects' \in SUBSET Nat
        /\ kind \in {"pending", "step", "done"}
    BY SavingFacts
  <2> QED
    BY <2>1, SaveFacts
<1>2. new[1] # "pending" /\ new[2] = m
  OBVIOUS
<1> HIDE DEF new
<1>3. Last' = Last /\ Remaining' = Remaining
  BY DEF Last, Remaining
<1>4. \A key \in Finished : key[2] <= Last /\ Remaining <= saved[key].left
  BY DEF RecoveryInv, ProcessInv, FinishedInv
<1>5. Finished' = Finished \cup {new}
  BY <1>1, <1>2 DEF Finished
<1>6. \A key \in Finished' : key[2] <= Last' /\ Remaining' <= saved'[key].left
  BY <1>1, <1>2, <1>3, <1>4, <1>5, SavingFacts DEF Finished
<1>7. \A key \in Finished' : saved'[key].n = key[2]
  BY <1>1 DEF StoreInv, Keyed, Finished
<1>8. ASSUME NEW k1 \in Finished', NEW k2 \in Finished', saved'[k1].n < saved'[k2].n
      PROVE  saved'[k2].left <= saved'[k1].left
  <2>1. k1[2] < k2[2]
    BY <1>7, <1>8
  <2>2. k1 # new
    BY <2>1, <1>2, <1>3, <1>5, <1>6, SavingFacts DEF Finished
  <2>3. k1 \in Finished /\ saved'[k1] = saved[k1]
    BY <2>2, <1>1, <1>5 DEF Finished
  <2>4. CASE k2 = new
    BY <2>3, <2>4, <1>1, <1>4
  <2>5. CASE k2 # new
    <3>1. k2 \in Finished /\ saved'[k2] = saved[k2]
      BY <2>5, <1>1, <1>5 DEF Finished
    <3> QED
      BY <2>3, <3>1, <1>8 DEF RecoveryInv, DurableInv, SpendingKept
  <2> QED
    BY <2>4, <2>5
<1> QED
  BY <1>6, <1>8 DEF SpendingKept

(* A pending document is not finished. *)
LEMMA PendingStep ==
  ASSUME RecoveryInv, pc \in Working, NEW m \in Nat, Save("pending", m),
         UNCHANGED <<effects, config, steps, offset, budgetOffset>>
  PROVE  /\ SpendingKept'
         /\ \A key \in Finished' : key[2] <= Last' /\ Remaining' <= saved'[key].left
         /\ \A n : Recorded(n)' <=> Recorded(n)
<1> DEFINE new == <<"pending", m>>
<1>1. /\ DOMAIN saved' = DOMAIN saved \cup {new}
      /\ \A key \in DOMAIN saved : key # new => saved'[key] = saved[key]
  BY SavingFacts, SaveFacts
<1>2. new[1] = "pending"
  OBVIOUS
<1> HIDE DEF new
<1>3. Last' = Last /\ Remaining' = Remaining
  BY DEF Last, Remaining
<1>4. Finished' = Finished /\ \A key \in Finished : saved'[key] = saved[key]
  BY <1>1, <1>2 DEF Finished
<1>5. SpendingKept'
  BY <1>4 DEF RecoveryInv, DurableInv, SpendingKept
<1>6. \A key \in Finished : key[2] <= Last /\ Remaining <= saved[key].left
  BY DEF RecoveryInv, ProcessInv, FinishedInv
<1>7. \A n : Recorded(n)' <=> Recorded(n)
  BY <1>1, <1>2 DEF Recorded
<1> QED
  BY <1>3, <1>4, <1>5, <1>6, <1>7

(* The step of a terminal call is recorded: nothing is open any more. *)
LEMMA AnswerRecorded ==
  ASSUME RecoveryInv, LoopInv', pc \in Answering \cup {"yield_blocked"},
         NEW kind \in {"step", "done"}, NEW m \in Nat, m = Last, Save(kind, m),
         UNCHANGED <<effects, config, steps, offset, budgetOffset>>,
         pc' \in Settled, outcome' # "returned"
  PROVE  RecoveryInv'
<1> DEFINE new == <<kind, m>>
<1>w. pc \in Working
  BY DEF Working, Judged, Settled
<1>1. /\ \A key \in DOMAIN saved : key[2] <= Last
      /\ \A n \in effects : Recorded(n) \/ n = Last
  BY DEF RecoveryInv, ProcessInv, SettledInv, JudgedInv, Settled, AllRecorded
<1>2. /\ StoreInv' /\ DOMAIN saved' = DOMAIN saved \cup {new}
      /\ \A key \in DOMAIN saved' :
           key # new /\ IsNewest(key)' => key \in DOMAIN saved /\ m < key[2]
  BY <1>w, SavingFacts, SaveFacts
<1>3. \A x : Recorded(x)' <=> Recorded(x) \/ x = m
  BY <1>2, SaveRecords
<1>4. new[1] # "pending" /\ new[2] = m
  OBVIOUS
<1> HIDE DEF new
<1>5. AllRecorded'
  BY <1>1, <1>3 DEF AllRecorded
<1>6. \A key \in DOMAIN saved' : ~(IsNewest(key)' /\ key[1] = "pending")
  BY <1>1, <1>2, <1>4, <1>w, SavingFacts
<1>7. Last' = Last
  BY DEF Last
<1>8. \A key \in DOMAIN saved' : key[2] <= Last'
  BY <1>1, <1>2, <1>4, <1>7, <1>w, SavingFacts
<1>9. CoveredInv'
  BY <1>5, <1>6 DEF CoveredInv, AllRecorded
<1>10. DurableInv'
  BY <1>2, <1>9, <1>w, FinishedStep DEF DurableInv, ReturnedInv
<1>11. SettledInv'
  BY <1>5, <1>6, <1>8 DEF SettledInv
<1>12. FinishedInv'
  BY <1>w, FinishedStep DEF FinishedInv
<1>13. GroupedInv' /\ JudgedInv' /\ pc' \in Points
  BY DEF Settled, Grouped, Answering, GroupedInv, JudgedInv, Points
<1> QED
  BY <1>10, <1>11, <1>12, <1>13 DEF RecoveryInv, ProcessInv

(* With everything recorded, a group or a terminal call is announced. *)
LEMMA Announced ==
  ASSUME RecoveryInv, pc \in Settled, NEW m \in Nat, Last < m, Save("pending", m),
         UNCHANGED <<effects, config, steps, offset, budgetOffset>>
  PROVE  /\ StoreInv' /\ CoveredInv' /\ SpendingKept' /\ AllRecorded'
         /\ IsNewest(<<"pending", m>>)'
         /\ \A key \in DOMAIN saved' : key[2] <= m
         /\ \A key \in Finished' : key[2] <= Last' /\ Remaining' <= saved'[key].left
         /\ \A n \in effects : n <= Last
<1> DEFINE new == <<"pending", m>>
<1>w. pc \in Working
  BY DEF Working
<1>1. /\ \A key \in DOMAIN saved : key[2] <= Last
      /\ AllRecorded
  BY DEF RecoveryInv, ProcessInv, SettledInv
<1>2. \A key \in DOMAIN saved : key[2] <= m
  BY <1>1, <1>w, SavingFacts
<1>3. /\ StoreInv' /\ DOMAIN saved' = DOMAIN saved \cup {new}
      /\ IsNewest(new)'
      /\ \A key \in DOMAIN saved' :
           key # new /\ IsNewest(key)' => key \in DOMAIN saved /\ m < key[2]
  BY <1>2, <1>w, SavingFacts, SaveFacts
<1>4. \A n : Recorded(n)' <=> Recorded(n)
  BY <1>w, PendingStep
<1>5. new[1] = "pending" /\ new[2] = m
  OBVIOUS
<1> HIDE DEF new
<1>6. AllRecorded'
  BY <1>1, <1>4 DEF AllRecorded
<1>7. \A n : Recorded(n) => n <= Last
  BY <1>1 DEF Recorded
<1>8. ~Recorded(m)
  BY <1>7, <1>w, SavingFacts
<1>9. CoveredInv'
  <2>1. ASSUME NEW key \in DOMAIN saved', IsNewest(key)' PROVE key = new
    BY <2>1, <1>2, <1>3, <1>w, SavingFacts
  <2>2. m > 0
    BY <1>w, SavingFacts
  <2> QED
    BY <1>4, <1>5, <1>6, <1>8, <2>1, <2>2 DEF CoveredInv, AllRecorded
<1>10. \A key \in DOMAIN saved' : key[2] <= m
  BY <1>2, <1>3, <1>5
<1>11. \A n \in effects : n <= Last
  BY <1>1, <1>7 DEF AllRecorded
<1> QED
  BY <1>3, <1>6, <1>9, <1>10, <1>11, <1>w, PendingStep DEF new

-----------------------------------------------------------------------------
(* The steps of the loop, one lemma for each that meets the files.         *)

(* The three ways to do without them. *)
LEMMA SettledSame ==
  ASSUME RecoveryInv, LoopInv',
         UNCHANGED <<steps, saved, clock, effects, config, offset, budgetOffset, outcome>>,
         pc \in Settled, pc' \in Settled
  PROVE  RecoveryInv'
<1>1. Last' = Last /\ Remaining' = Remaining
  BY DEF Last, Remaining
<1>2. pc \in Working
  BY DEF Working
<1>3. Last <= Last' /\ Remaining' <= Remaining /\ config' \in Configs /\ outcome' # "returned"
  BY <1>1, <1>2, SavingFacts
<1> QED
  BY <1>3, SettledStep

LEMMA SettledAppend ==
  ASSUME RecoveryInv, LoopInv', NEW s, steps' = Append(steps, s),
         UNCHANGED <<saved, clock, effects, config, offset, budgetOffset, outcome>>,
         pc \in Settled, pc' \in Settled
  PROVE  RecoveryInv'
<1>1. pc \in Working
  BY DEF Working
<1>2. LoopInv /\ Last \in Nat /\ offset \in Nat /\ config' \in Configs /\ outcome' # "returned"
  BY <1>1, SavingFacts DEF LoopInv, DataInv, DataType
<1>3. Last <= Last' /\ Remaining' <= Remaining
  BY <1>2, RemainingFalls
<1> QED
  BY <1>2, <1>3, SettledStep

LEMMA ExitSame ==
  ASSUME RecoveryInv, LoopInv', UNCHANGED <<saved, clock, effects, config>>,
         pc' \in {"unwind", "ended"}, outcome' # "returned"
  PROVE  RecoveryInv'
<1>1. config' \in Configs
  BY DEF RecoveryInv, DurableInv, StoreInv, Filed
<1> QED
  BY <1>1, ExitStep

(* Numbers of a group, as the code computes them and as the steps give them. *)
LEMMA GroupNumbers ==
  ASSUME LoopInv, pc = "intercept"
  PROVE  GroupSize \in Nat \ {0} /\ GroupStep = Last + GroupSize
<1>1. stepNum + at = Last + 1 /\ Last \in Nat /\ stepNum \in Nat /\ at \in Nat
  BY Numbers DEF LoopInv, DataInv, DataType, Dispatching, Running
<1>2. RegularCount(calls) \in Nat /\ at < RegularCount(calls)
  BY TerminalFacts DEF LoopInv, DataInv, DataType, Position, Running
<1>3. GroupSize \in Nat \ {0}
  BY <1>1, <1>2 DEF GroupSize
<1> QED
  BY <1>1, <1>3 DEF GroupStep

LEMMA InterceptStep ==
  ASSUME RecoveryInv, LoopInv', Intercept
  PROVE  RecoveryInv'
<1>1. /\ pc = "intercept"
      /\ UNCHANGED <<steps, offset, budgetOffset, config, effects, outcome>>
  BY DEF Intercept, fixedVars, endVars
<1>2. pc \in Settled /\ pc \in Working
  BY <1>1 DEF Settled, Working
<1>3. LoopInv /\ Last \in Nat /\ Last' = Last /\ Remaining' = Remaining
  BY <1>1, <1>2, SavingFacts DEF Last, Remaining
<1>4. GroupSize \in Nat \ {0} /\ GroupStep = Last + GroupSize
  BY <1>1, <1>3, GroupNumbers
<1>5. PICK started \in SUBSET (1..GroupSize) :
        /\ batch' = [i \in 1..GroupSize |-> [ran |-> i \in started, ok |-> FALSE]]
        /\ running' = started
        /\ \/ started = {} /\ pc' = "collect" /\ UNCHANGED storeVars
           \/ started # {} /\ Save("pending", GroupStep) /\ pc' = "execute"
  BY DEF Intercept
<1>6. Len(batch') = GroupSize
  <2>1. batch' \in [1..GroupSize -> [ran : BOOLEAN, ok : BOOLEAN]]
    <3>1. \A i \in 1..GroupSize :
            [ran |-> i \in started, ok |-> FALSE] \in [ran : BOOLEAN, ok : BOOLEAN]
      OBVIOUS
    <3> QED
      BY <1>5, <3>1
  <2> QED
    BY <1>4, <2>1, FunctionIsSeq, Zenon
<1>7. pc' \in Points /\ config' \in Configs /\ outcome' # "returned"
  BY <1>1, <1>2, <1>5, SavingFacts DEF Points
<1>8. CASE started = {} /\ pc' = "collect" /\ UNCHANGED storeVars
  <2>1. UNCHANGED <<saved, clock, effects>>
    BY <1>1, <1>8 DEF storeVars
  <2>2. /\ StoreInv' /\ CoveredInv' /\ SpendingKept' /\ Finished' = Finished
        /\ AllRecorded' <=> AllRecorded
    BY <2>1, <1>7, FilesSame DEF RecoveryInv
  <2>3. AllRecorded /\ \A key \in DOMAIN saved : key[2] <= Last
    BY <1>2 DEF RecoveryInv, ProcessInv, SettledInv
  <2>4. AllRecorded' /\ \A key \in DOMAIN saved' : key[2] <= Last' + Len(batch')
    BY <2>1, <2>2, <2>3, <1>2, <1>3, <1>4, <1>6, SavingFacts
  <2>5. GroupedInv'
    BY <2>4, <1>8 DEF GroupedInv, AllRecorded
  <2>6. FinishedInv'
    BY <2>1, <2>2, <1>2, <1>3 DEF RecoveryInv, ProcessInv, FinishedInv
  <2>7. SettledInv' /\ JudgedInv'
    BY <1>8 DEF SettledInv, JudgedInv, Settled, Answering
  <2> QED
    BY <2>2, <2>5, <2>6, <2>7, <1>7 DEF RecoveryInv, DurableInv, ProcessInv, ReturnedInv
<1>9. CASE Save("pending", GroupStep) /\ pc' = "execute"
  <2>1. PICK m \in Nat : m = GroupStep
    BY <1>3, <1>4
  <2>2. m = Last' + Len(batch') /\ Last < m
    BY <2>1, <1>3, <1>4, <1>6
  <2>3. Save("pending", m)
    BY <2>1, <1>9
  <2>4. /\ StoreInv' /\ CoveredInv' /\ SpendingKept' /\ AllRecorded'
        /\ IsNewest(<<"pending", m>>)'
        /\ \A key \in DOMAIN saved' : key[2] <= m
        /\ \A key \in Finished' : key[2] <= Last' /\ Remaining' <= saved'[key].left
        /\ \A n \in effects : n <= Last
    BY <2>2, <2>3, <1>1, <1>2, Announced
  <2>5. PendingTop(Last + Len(batch))'
    BY <2>2, <2>4 DEF PendingTop, IsNewest
  <2>6. \A i \in running' : Last' + i \notin effects'
    BY <2>4, <1>1, <1>2, <1>3, <1>4, <1>5, SavingFacts
  <2>7. GroupedInv'
    BY <2>2, <2>4, <2>5, <2>6, <1>9 DEF GroupedInv, AllRecorded
  <2>8. SettledInv' /\ JudgedInv' /\ FinishedInv'
    BY <2>4, <1>9 DEF SettledInv, JudgedInv, FinishedInv, Settled, Answering
  <2> QED
    BY <2>4, <2>7, <2>8, <1>7 DEF RecoveryInv, DurableInv, ProcessInv, ReturnedInv
<1> QED
  BY <1>5, <1>8, <1>9

(* One more effect, under the newest document: the files are as they were. *)
LEMMA EffectFacts ==
  ASSUME RecoveryInv, pc \in Working, UNCHANGED <<saved, clock, config>>,
         NEW n \in Nat, effects' = effects \/ effects' = effects \cup {n},
         NEW p \in Nat, PendingTop(p), n <= p
  PROVE  /\ StoreInv' /\ CoveredInv' /\ SpendingKept'
         /\ Finished' = Finished
         /\ \A x : Recorded(x)' <=> Recorded(x)
         /\ \A key : IsNewest(key)' <=> IsNewest(key)
<1>1. \A key : IsNewest(key)' <=> IsNewest(key)
  BY DEF IsNewest
<1>2. \A x : Recorded(x)' <=> Recorded(x)
  BY DEF Recorded
<1>3. StoreInv'
  BY <1>1, SavingFacts DEF StoreInv, Filed, Keyed, Ordered, StoreType
<1>4. CoveredInv'
  <2>1. <<"pending", p>> \in DOMAIN saved /\ IsNewest(<<"pending", p>>)
    BY DEF PendingTop, IsNewest
  <2>2. PICK key \in DOMAIN saved : IsNewest(key) /\ key[1] = "pending" /\ n <= key[2]
    BY <2>1
  <2>3. CoveredInv
    BY SavingFacts
  <2> QED
    BY <1>1, <1>2, <2>2, <2>3 DEF CoveredInv
<1>5. SpendingKept' /\ Finished' = Finished
  BY DEF RecoveryInv, DurableInv, SpendingKept, Finished
<1> QED
  BY <1>1, <1>2, <1>3, <1>4, <1>5

LEMMA RunToolStep ==
  ASSUME RecoveryInv, LoopInv', RunTool
  PROVE  RecoveryInv'
<1>1. /\ pc = "execute" /\ pc' \in {"execute", "collect"}
      /\ UNCHANGED <<steps, offset, budgetOffset, config, saved, clock, outcome, stepNum, at>>
  BY DEF RunTool, fixedVars, endVars, storeVars
<1>2. pc \in Working
  BY <1>1 DEF Grouped, Working
<1>3. LoopInv /\ Last \in Nat /\ Last' = Last /\ Remaining' = Remaining /\ Len(batch) \in Nat
  BY <1>1, <1>2, SavingFacts DEF Last, Remaining
<1>4. PICK i \in running, ok \in BOOLEAN :
        /\ Dispatch(stepNum + at + i - 1)
        /\ batch' = [batch EXCEPT ![i].ok = ok]
        /\ running' = running \ {i}
  BY DEF RunTool
<1>5. i \in 1..Len(batch)
  BY <1>1, <1>3, <1>4 DEF LoopInv, DataInv, GroupInv
<1>6. PICK n \in Nat : n = Last + i
  BY <1>3, <1>5
<1>7. stepNum + at = Last + 1 /\ stepNum \in Nat /\ at \in Nat
  BY <1>1, <1>3, Numbers DEF LoopInv, DataInv, DataType, Dispatching, Running
<1>8. effects' = effects \/ effects' = effects \cup {n}
  <2>1. stepNum + at + i - 1 = n
    BY <1>3, <1>5, <1>6, <1>7
  <2> QED
    BY <1>4, <2>1 DEF Dispatch
<1>9. Len(batch') = Len(batch)
  <2>1. batch \in Seq([ran : BOOLEAN, ok : BOOLEAN])
    BY <1>3 DEF LoopInv, DataInv, DataType
  <2>2. batch' \in Seq([ran : BOOLEAN, ok : BOOLEAN])
    BY DEF LoopInv, DataInv, DataType
  <2>3. DOMAIN batch' = DOMAIN batch
    BY <1>4
  <2> QED
    BY <2>1, <2>2, <2>3
<1>10. PICK p \in Nat : p = Last + Len(batch)
  BY <1>3
<1>11. PendingTop(p) /\ n <= p
  BY <1>1, <1>3, <1>5, <1>6, <1>10 DEF RecoveryInv, ProcessInv, GroupedInv
<1>12. /\ StoreInv' /\ CoveredInv' /\ SpendingKept' /\ Finished' = Finished
       /\ \A x : Recorded(x)' <=> Recorded(x)
       /\ \A key : IsNewest(key)' <=> IsNewest(key)
  BY <1>1, <1>2, <1>8, <1>11, EffectFacts
<1>13. PendingTop(Last + Len(batch))'
  BY <1>3, <1>9, <1>10, <1>11, <1>12 DEF PendingTop
<1>14. \A x \in effects' : \/ Recorded(x)'
                           \/ Last' + 1 <= x /\ x <= Last' + Len(batch')
  <2>1. \A x \in effects : \/ Recorded(x)
                           \/ Last + 1 <= x /\ x <= Last + Len(batch)
    BY <1>1 DEF RecoveryInv, ProcessInv, GroupedInv, Grouped
  <2>2. Last + 1 <= n /\ n <= Last + Len(batch)
    BY <1>3, <1>5, <1>6
  <2> QED
    BY <2>1, <2>2, <1>3, <1>8, <1>9, <1>12
<1>15. \A j \in running' : Last' + j \notin effects'
  <2>1. \A j \in running : Last + j \notin effects
    BY <1>1 DEF RecoveryInv, ProcessInv, GroupedInv
  <2>2. running \subseteq Nat
    BY <1>1, <1>3 DEF LoopInv, DataInv, DataType
  <2> QED
    BY <2>1, <2>2, <1>3, <1>4, <1>5, <1>6, <1>8
<1>16. GroupedInv'
  <2>1. \A key \in DOMAIN saved : key[2] <= Last + Len(batch)
    BY <1>1 DEF RecoveryInv, ProcessInv, GroupedInv, Grouped
  <2> QED
    BY <2>1, <1>1, <1>3, <1>9, <1>13, <1>14, <1>15 DEF GroupedInv
<1>17. FinishedInv'
  BY <1>1, <1>2, <1>3, <1>12 DEF RecoveryInv, ProcessInv, FinishedInv
<1>18. SettledInv' /\ JudgedInv' /\ pc' \in Points /\ outcome' # "returned"
  BY <1>1, <1>2, SavingFacts DEF SettledInv, JudgedInv, Settled, Answering, Points
<1> QED
  BY <1>12, <1>16, <1>17, <1>18 DEF RecoveryInv, DurableInv, ProcessInv, ReturnedInv

LEMMA CollectStep ==
  ASSUME RecoveryInv, LoopInv', CollectResult
  PROVE  RecoveryInv'
<1>1. /\ pc = "collect" /\ pc' = "yield_tool" /\ batch' = Tail(batch)
      /\ UNCHANGED <<offset, budgetOffset, config, saved, clock, effects, outcome>>
  BY DEF CollectResult, HookDecides, fixedVars, endVars, storeVars, toolVars
<1>2. pc \in Working
  BY <1>1 DEF Grouped, Working
<1>3. LoopInv /\ Last \in Nat /\ Len(batch) \in Nat /\ config' \in Configs
  BY <1>1, <1>2, SavingFacts
<1>4. Len(batch') = Len(batch) - 1 /\ (~config.concurrent => Len(batch) = 1)
  <2>1. ~config.concurrent => Len(batch) = 1
    BY <1>1, <1>3 DEF LoopInv, DataInv, GroupInv
  <2>2. config.concurrent => Len(batch) > 0
    <3>1. at < RegularCount(calls) /\ at \in Nat /\ RegularCount(calls) \in Nat
      BY <1>1, <1>3, TerminalFacts DEF LoopInv, DataInv, DataType, Position, Running
    <3>2. config.concurrent => Len(batch) = RegularCount(calls) - at
      BY <1>1, <1>3 DEF LoopInv, DataInv, GroupInv
    <3> QED
      BY <3>1, <3>2
  <2>3. batch \in Seq([ran : BOOLEAN, ok : BOOLEAN]) /\ batch # <<>>
    <3>1. Len(batch) > 0
      <4>1. CASE config.concurrent
        BY <4>1, <2>2
      <4>2. CASE ~config.concurrent
        BY <4>2, <2>1
      <4> QED
        BY <4>1, <4>2
    <3>2. batch \in Seq([ran : BOOLEAN, ok : BOOLEAN])
      BY <1>3 DEF LoopInv, DataInv, DataType
    <3> QED
      BY <3>1, <3>2
  <2> QED
    BY <1>1, <2>1, <2>3, HeadTailProperties
<1>5. Last' = Last + 1 /\ Remaining' <= Remaining
  <2>1. PICK s : steps' = Append(steps, s)
    BY Zenon DEF CollectResult
  <2> QED
    BY <2>1, <1>1, <1>3, RemainingFalls DEF LoopInv, DataInv, DataType
<1>6. /\ StoreInv' /\ CoveredInv' /\ SpendingKept' /\ Finished' = Finished
      /\ AllRecorded' <=> AllRecorded
      /\ \A n : Recorded(n)' <=> Recorded(n)
      /\ \A key : IsNewest(key)' <=> IsNewest(key)
  BY <1>1, <1>3, FilesSame DEF RecoveryInv
<1>7. GroupedInv'
  <2>1. Last' + Len(batch') = Last + Len(batch)
    BY <1>3, <1>4, <1>5
  <2>2. /\ \A key \in DOMAIN saved : key[2] <= Last + Len(batch)
        /\ \A n \in effects : Recorded(n) \/ (Last + 1 <= n /\ n <= Last + Len(batch))
        /\ AllRecorded \/ PendingTop(Last + Len(batch))
    BY <1>1 DEF RecoveryInv, ProcessInv, GroupedInv, Grouped
  <2>3. AllRecorded' \/ PendingTop(Last + Len(batch))'
    BY <2>1, <2>2, <1>6 DEF PendingTop
  <2>4. ~config'.concurrent => Len(batch') = 0
    BY <1>1, <1>4
  <2> QED
    BY <2>1, <2>2, <2>3, <2>4, <1>1, <1>5, <1>6 DEF GroupedInv
<1>8. FinishedInv'
  <2>1. \A key \in Finished : /\ key[2] <= Last /\ Remaining <= saved[key].left
                              /\ key[2] \in Nat /\ saved[key].left \in Nat
    BY <1>2, SavingFacts DEF RecoveryInv, ProcessInv, FinishedInv, Finished
  <2>2. Remaining \in Nat /\ Remaining' \in Nat
    BY <1>2, SavingFacts, NumbersNext
  <2> QED
    BY <2>1, <2>2, <1>1, <1>3, <1>5, <1>6 DEF FinishedInv
<1>9. SettledInv' /\ JudgedInv' /\ pc' \in Points /\ outcome' # "returned"
  BY <1>1, <1>2, SavingFacts DEF SettledInv, JudgedInv, Settled, Answering, Points
<1> QED
  BY <1>6, <1>7, <1>8, <1>9 DEF RecoveryInv, DurableInv, ProcessInv, ReturnedInv

LEMMA RecordToolStepKeeps ==
  ASSUME RecoveryInv, LoopInv', RecordToolStep
  PROVE  RecoveryInv'
<1>1. /\ pc = "yield_tool" /\ pc' = "after_step"
      /\ UNCHANGED <<steps, offset, budgetOffset, config, effects, outcome, batch>>
      /\ Save("step", LastStep.n)
  BY DEF RecordToolStep, fixedVars, endVars, turnVars, toolVars
<1>2. pc \in Working
  BY <1>1 DEF Grouped, Working
<1>3. LoopInv /\ Last \in Nat /\ Len(batch) \in Nat /\ config' \in Configs /\ Last' = Last
  BY <1>1, <1>2, SavingFacts DEF Last
<1>4. PICK m \in Nat : m = Last
  BY <1>3
<1>5. Save("step", m)
  BY <1>1, <1>3, <1>4, Numbers DEF YieldPoints
<1> DEFINE new == <<"step", m>>
<1>6. /\ StoreInv' /\ DOMAIN saved' = DOMAIN saved \cup {new}
      /\ \A key \in DOMAIN saved : m < key[2] /\ IsNewest(key) => IsNewest(key)'
      /\ \A key \in DOMAIN saved' :
           key # new /\ IsNewest(key)' => key \in DOMAIN saved /\ IsNewest(key) /\ m < key[2]
  <2>1. /\ StoreInv /\ Remaining \in Nat /\ config' \in Configs /\ effects' \in SUBSET Nat
    BY <1>1, <1>2, SavingFacts
  <2> QED
    BY <2>1, <1>5, SaveFacts
<1>7. \A x : Recorded(x)' <=> Recorded(x) \/ x = m
  BY <1>6, SaveRecords
<1>8. new[1] # "pending" /\ new[2] = m
  OBVIOUS
<1> HIDE DEF new
<1>9. /\ \A key \in DOMAIN saved : key[2] <= Last + Len(batch)
      /\ \A n \in effects : Recorded(n) \/ (Last <= n /\ n <= Last + Len(batch))
      /\ AllRecorded \/ PendingTop(Last + Len(batch))
      /\ ~config.concurrent => Len(batch) = 0
  BY <1>1 DEF RecoveryInv, ProcessInv, GroupedInv, Grouped
<1>10. SpendingKept' /\ FinishedInv'
  BY <1>1, <1>2, <1>4, <1>5, FinishedStep DEF FinishedInv
<1>11. \A n \in effects : Recorded(n)' \/ (Last + 1 <= n /\ n <= Last + Len(batch))
  BY <1>2, <1>3, <1>4, <1>7, <1>9, SavingFacts
<1>12. AllRecorded' \/ PendingTop(Last + Len(batch))'
  <2>1. CASE AllRecorded
    BY <2>1, <1>1, <1>7 DEF AllRecorded
  <2>2. CASE PendingTop(Last + Len(batch)) /\ Len(batch) > 0
    <3>1. PICK p \in Nat : p = Last + Len(batch)
      BY <1>3
    <3>2. <<"pending", p>> \in DOMAIN saved /\ IsNewest(<<"pending", p>>)
      BY <2>2, <3>1 DEF PendingTop, IsNewest
    <3>3. IsNewest(<<"pending", p>>)'
      BY <2>2, <3>1, <3>2, <1>3, <1>4, <1>6
    <3>4. p = Last' + Len(batch')
      BY <3>1, <1>1, <1>3
    <3> QED
      BY <3>3, <3>4 DEF PendingTop
  <2>3. CASE Len(batch) = 0
    BY <2>3, <1>1, <1>2, <1>3, <1>11, SavingFacts DEF AllRecorded
  <2> QED
    BY <2>1, <2>2, <2>3, <1>3, <1>9
<1>13. CoveredInv'
  <2>1. ASSUME NEW n \in effects', ~Recorded(n)'
        PROVE  \E key \in DOMAIN saved' : IsNewest(key)' /\ key[1] = "pending" /\ n <= key[2]
    <3>1. n <= Last + Len(batch)
      BY <2>1, <1>1, <1>11
    <3>2. PendingTop(Last + Len(batch))'
      BY <2>1, <1>12 DEF AllRecorded
    <3>3. PICK p \in Nat : p = Last + Len(batch)
      BY <1>3
    <3>4. p = Last' + Len(batch')
      BY <3>3, <1>1, <1>3
    <3>5. IsNewest(<<"pending", p>>)' /\ <<"pending", p>> \in DOMAIN saved'
      BY <3>2, <3>4 DEF PendingTop, IsNewest
    <3> QED
      BY <3>1, <3>3, <3>5
  <2>2. ASSUME NEW key \in DOMAIN saved', IsNewest(key)', key[1] = "pending"
        PROVE  ~Recorded(key[2])' /\ key[2] > 0
    <3>1. key \in DOMAIN saved /\ IsNewest(key) /\ m < key[2]
      BY <2>2, <1>6, <1>8
    <3>2. ~Recorded(key[2]) /\ key[2] > 0
      BY <2>2, <3>1, <1>2, SavingFacts DEF CoveredInv
    <3>3. key[2] # m
      BY <3>1, <1>2, SavingFacts
    <3> QED
      BY <3>2, <3>3, <1>7
  <2> QED
    BY <2>1, <2>2 DEF CoveredInv
<1>14. GroupedInv'
  <2>1. \A key \in DOMAIN saved' : key[2] <= Last' + Len(batch')
    BY <1>1, <1>3, <1>4, <1>6, <1>8, <1>9
  <2>2. \A key \in DOMAIN saved' : IsNewest(key)' /\ key[1] = "pending" => Last' < key[2]
    BY <1>3, <1>4, <1>6, <1>8
  <2> QED
    BY <2>1, <2>2, <1>1, <1>3, <1>9, <1>11, <1>12 DEF GroupedInv
<1>15. SettledInv' /\ JudgedInv' /\ pc' \in Points /\ outcome' # "returned"
  BY <1>1, <1>2, SavingFacts DEF SettledInv, JudgedInv, Settled, Answering, Points
<1> QED
  BY <1>6, <1>10, <1>13, <1>14, <1>15 DEF RecoveryInv, DurableInv, ProcessInv, ReturnedInv

LEMMA AfterToolStepKeeps ==
  ASSUME RecoveryInv, LoopInv', AfterToolStep
  PROVE  RecoveryInv'
<1>1. /\ pc = "after_step" /\ pc' \in {"collect", "dispatched", "intercept", "finish"}
      /\ UNCHANGED <<steps, offset, budgetOffset, config, saved, clock, effects, outcome, batch,
                     running>>
  BY DEF AfterToolStep, DeadlineStop, NextCall, StopWith, fixedVars, endVars, turnVars, toolVars,
         storeVars
<1>2. pc \in Working
  BY <1>1 DEF Grouped, Working
<1>3. /\ LoopInv /\ Last \in Nat /\ Len(batch) \in Nat /\ config' \in Configs
      /\ Last' = Last /\ Remaining' = Remaining
  BY <1>1, <1>2, SavingFacts DEF Last, Remaining
<1>4. /\ StoreInv' /\ CoveredInv' /\ SpendingKept' /\ Finished' = Finished
      /\ AllRecorded' <=> AllRecorded
      /\ \A n : Recorded(n)' <=> Recorded(n)
      /\ \A key : IsNewest(key)' <=> IsNewest(key)
  BY <1>1, <1>3, FilesSame DEF RecoveryInv
<1>5. /\ \A key \in DOMAIN saved : key[2] <= Last + Len(batch)
      /\ \A n \in effects : Recorded(n) \/ (Last + 1 <= n /\ n <= Last + Len(batch))
      /\ AllRecorded \/ PendingTop(Last + Len(batch))
      /\ \A key \in DOMAIN saved : IsNewest(key) /\ key[1] = "pending" => Last < key[2]
      /\ ~config.concurrent => Len(batch) = 0
  BY <1>1 DEF RecoveryInv, ProcessInv, GroupedInv, Grouped
<1>6. FinishedInv'
  BY <1>1, <1>2, <1>3, <1>4 DEF RecoveryInv, ProcessInv, FinishedInv
<1>7. JudgedInv' /\ pc' \in Points /\ outcome' # "returned"
  BY <1>1, <1>2, SavingFacts DEF JudgedInv, Answering, Points
<1>8. CASE pc' = "collect"
  <2>1. AllRecorded' \/ PendingTop(Last + Len(batch))'
    BY <1>1, <1>3, <1>4, <1>5 DEF PendingTop
  <2>2. GroupedInv'
    BY <2>1, <1>1, <1>3, <1>4, <1>5, <1>8 DEF GroupedInv
  <2>3. SettledInv'
    BY <1>8 DEF SettledInv, Settled
  <2> QED
    BY <2>2, <2>3, <1>4, <1>6, <1>7 DEF RecoveryInv, DurableInv, ProcessInv, ReturnedInv
<1>9. CASE pc' # "collect"
  <2>1. Len(batch) = 0
    <3>1. config.concurrent => batch = <<>>
      BY <1>9 DEF AfterToolStep
    <3> QED
      BY <3>1, <1>5
  <2>2. AllRecorded
    BY <2>1, <1>2, <1>3, <1>5, SavingFacts DEF AllRecorded
  <2>3. \A key \in DOMAIN saved : key[2] <= Last /\ ~(IsNewest(key) /\ key[1] = "pending")
    BY <2>1, <1>2, <1>3, <1>5, SavingFacts
  <2>4. SettledInv'
    BY <2>2, <2>3, <1>1, <1>3, <1>4 DEF SettledInv
  <2>5. GroupedInv'
    BY <1>1, <1>9 DEF GroupedInv, Grouped
  <2> QED
    BY <2>4, <2>5, <1>4, <1>6, <1>7 DEF RecoveryInv, DurableInv, ProcessInv, ReturnedInv
<1> QED
  BY <1>8, <1>9

(* The number of the terminal call, as the code computes it. *)
LEMMA DoneNumber ==
  ASSUME LoopInv, pc \in Completing
  PROVE  DoneStep = Last + 1
<1>1. stepNum + at = Last + 1 /\ Last \in Nat /\ stepNum \in Nat /\ at \in Nat
  BY Numbers DEF LoopInv, DataInv, DataType
<1>2. at = RegularCount(calls) /\ TerminalIndex(calls) # 0
  BY DEF LoopInv, DataInv, Position
<1>3. TerminalIndex(calls) \in Nat /\ RegularCount(calls) = TerminalIndex(calls) - 1
  BY <1>2, TerminalFacts DEF LoopInv, DataInv, DataType
<1> QED
  BY <1>1, <1>2, <1>3 DEF DoneStep

LEMMA CheckDoneKeeps ==
  ASSUME RecoveryInv, LoopInv', CheckDone
  PROVE  RecoveryInv'
<1>1. /\ pc = "gate" /\ UNCHANGED <<offset, budgetOffset, config, effects, outcome>>
  BY DEF CheckDone, fixedVars, endVars
<1>2. pc \in Settled /\ pc \in Working
  BY <1>1 DEF Settled, Working
<1>3. /\ LoopInv /\ Last \in Nat /\ config' \in Configs /\ outcome' # "returned"
      /\ DoneStep = Last + 1
  BY <1>1, <1>2, SavingFacts, DoneNumber DEF Completing
<1>4. CASE pc' = "unwind" /\ UNCHANGED storeVars
  BY <1>1, <1>3, <1>4, ExitSame DEF storeVars
<1>5. CASE Yield(DoneStep, "blocked", FALSE, "yield_blocked") /\ UNCHANGED storeVars
  BY <1>1, <1>2, <1>5, SettledAppend DEF Yield, storeVars, Settled
<1>6. CASE Save("pending", DoneStep) /\ pc' = "execute_done" /\ UNCHANGED steps
  <2>1. Last' = Last
    BY <1>1, <1>6 DEF Last
  <2>2. PICK m \in Nat : m = Last + 1
    BY <1>3
  <2>3. /\ StoreInv' /\ CoveredInv' /\ SpendingKept' /\ AllRecorded'
        /\ IsNewest(<<"pending", m>>)'
        /\ \A key \in DOMAIN saved' : key[2] <= m
        /\ \A key \in Finished' : key[2] <= Last' /\ Remaining' <= saved'[key].left
        /\ \A n \in effects : n <= Last
    BY <2>2, <1>1, <1>2, <1>3, <1>6, Announced
  <2>4. PendingTop(Last + 1)'
    BY <2>1, <2>2, <2>3 DEF PendingTop, IsNewest
  <2>5. Last' + 1 \notin effects'
    BY <2>1, <2>3, <1>1, <1>2, <1>3, SavingFacts
  <2>6. JudgedInv'
    BY <2>1, <2>2, <2>3, <2>4, <2>5, <1>6 DEF JudgedInv, Answering
  <2>7. SettledInv' /\ GroupedInv' /\ FinishedInv' /\ pc' \in Points
    BY <2>3, <1>6 DEF SettledInv, GroupedInv, FinishedInv, Settled, Grouped, Points
  <2> QED
    BY <2>3, <2>6, <2>7, <1>3 DEF RecoveryInv, DurableInv, ProcessInv, ReturnedInv
<1>7. CASE pc' = "judge_done" /\ UNCHANGED <<steps, storeVars>>
  <2>1. UNCHANGED <<saved, clock, effects>> /\ Last' = Last /\ Remaining' = Remaining
    BY <1>1, <1>7 DEF storeVars, Last, Remaining
  <2>2. /\ StoreInv' /\ CoveredInv' /\ SpendingKept' /\ Finished' = Finished
        /\ \A n : Recorded(n)' <=> Recorded(n)
    BY <2>1, <1>3, FilesSame DEF RecoveryInv
  <2>3. AllRecorded /\ \A key \in DOMAIN saved : key[2] <= Last
    BY <1>2 DEF RecoveryInv, ProcessInv, SettledInv
  <2>4. \A key \in DOMAIN saved : key[2] <= Last + 1
    BY <2>3, <1>2, <1>3, SavingFacts
  <2>5. JudgedInv'
    BY <2>1, <2>2, <2>3, <2>4, <1>7 DEF JudgedInv, Answering, AllRecorded
  <2>6. FinishedInv'
    BY <2>1, <2>2, <1>2 DEF RecoveryInv, ProcessInv, FinishedInv
  <2>7. SettledInv' /\ GroupedInv' /\ pc' \in Points
    BY <1>7 DEF SettledInv, GroupedInv, Settled, Grouped, Points
  <2> QED
    BY <2>2, <2>5, <2>6, <2>7, <1>3 DEF RecoveryInv, DurableInv, ProcessInv, ReturnedInv
<1> QED
  BY <1>4, <1>5, <1>6, <1>7 DEF CheckDone

LEMMA ExecuteDoneKeeps ==
  ASSUME RecoveryInv, LoopInv', ExecuteDone
  PROVE  RecoveryInv'
<1>1. /\ pc = "execute_done" /\ pc' = "judge_done" /\ Dispatch(DoneStep)
      /\ UNCHANGED <<steps, offset, budgetOffset, config, saved, clock, outcome>>
  BY DEF ExecuteDone, fixedVars, endVars, storeVars
<1>2. pc \in Working
  BY <1>1 DEF Judged, Working
<1>3. /\ LoopInv /\ Last \in Nat /\ DoneStep = Last + 1
      /\ Last' = Last /\ Remaining' = Remaining
  BY <1>1, <1>2, SavingFacts, DoneNumber DEF Completing, Last, Remaining
<1>4. PICK n \in Nat : n = Last + 1
  BY <1>3
<1>5. /\ PendingTop(n) /\ AllRecorded
      /\ \A key \in DOMAIN saved : key[2] <= Last + 1
  BY <1>1, <1>4 DEF RecoveryInv, ProcessInv, JudgedInv
<1>6. effects' = effects \/ effects' = effects \cup {n}
  BY <1>1, <1>3, <1>4 DEF Dispatch
<1>7. /\ StoreInv' /\ CoveredInv' /\ SpendingKept' /\ Finished' = Finished
      /\ \A x : Recorded(x)' <=> Recorded(x)
  BY <1>1, <1>2, <1>5, <1>6, EffectFacts
<1>8. JudgedInv'
  <2>1. \A x \in effects' : Recorded(x)' \/ x = Last' + 1
    BY <1>3, <1>4, <1>5, <1>6, <1>7 DEF AllRecorded
  <2> QED
    BY <2>1, <1>1, <1>3, <1>5 DEF JudgedInv, Answering
<1>9. FinishedInv'
  BY <1>1, <1>2, <1>3, <1>7 DEF RecoveryInv, ProcessInv, FinishedInv
<1>10. SettledInv' /\ GroupedInv' /\ pc' \in Points /\ outcome' # "returned"
  BY <1>1, <1>2, SavingFacts DEF SettledInv, GroupedInv, Settled, Grouped, Points
<1> QED
  BY <1>7, <1>8, <1>9, <1>10 DEF RecoveryInv, DurableInv, ProcessInv, ReturnedInv

LEMMA JudgeDoneKeeps ==
  ASSUME RecoveryInv, LoopInv', JudgeDone
  PROVE  RecoveryInv'
<1>1. /\ pc = "judge_done" /\ pc' \in {"yield_rejected", "yield_accepted"}
      /\ UNCHANGED <<offset, budgetOffset, config, saved, clock, effects, outcome>>
  BY DEF JudgeDone, Yield, fixedVars, endVars, storeVars, toolVars
<1>2. pc \in Working
  BY <1>1 DEF Judged, Working
<1>3. /\ LoopInv /\ Last \in Nat /\ config' \in Configs
  BY <1>1, <1>2, SavingFacts
<1>4. Last' = Last + 1 /\ Remaining' <= Remaining
  <2>1. PICK s : steps' = Append(steps, s)
    BY Zenon DEF JudgeDone, Yield
  <2> QED
    BY <2>1, <1>1, <1>3, RemainingFalls DEF LoopInv, DataInv, DataType
<1>5. /\ StoreInv' /\ CoveredInv' /\ SpendingKept' /\ Finished' = Finished
      /\ \A n : Recorded(n)' <=> Recorded(n)
  BY <1>1, <1>3, FilesSame DEF RecoveryInv
<1>6. /\ \A n \in effects : Recorded(n) \/ n = Last + 1
      /\ \A key \in DOMAIN saved : key[2] <= Last + 1
  BY <1>1 DEF RecoveryInv, ProcessInv, JudgedInv
<1>7. JudgedInv'
  BY <1>1, <1>4, <1>5, <1>6 DEF JudgedInv
<1>8. FinishedInv'
  <2>1. \A key \in Finished : /\ key[2] <= Last /\ Remaining <= saved[key].left
                              /\ key[2] \in Nat /\ saved[key].left \in Nat
    BY <1>2, SavingFacts DEF RecoveryInv, ProcessInv, FinishedInv, Finished
  <2>2. Remaining \in Nat /\ Remaining' \in Nat
    BY <1>2, SavingFacts, NumbersNext
  <2> QED
    BY <2>1, <2>2, <1>1, <1>3, <1>4, <1>5 DEF FinishedInv
<1>9. SettledInv' /\ GroupedInv' /\ pc' \in Points /\ outcome' # "returned"
  BY <1>1, <1>2, SavingFacts DEF SettledInv, GroupedInv, Settled, Grouped, Points
<1> QED
  BY <1>5, <1>7, <1>8, <1>9 DEF RecoveryInv, DurableInv, ProcessInv, ReturnedInv

LEMMA AcceptDoneKeeps ==
  ASSUME RecoveryInv, LoopInv', AcceptDone
  PROVE  RecoveryInv'
<1>1. /\ pc = "yield_accepted" /\ pc' = "accepted"
      /\ UNCHANGED <<steps, offset, budgetOffset, config, saved, clock, effects, outcome>>
  BY DEF AcceptDone, fixedVars, endVars, storeVars, toolVars
<1>2. pc \in Working
  BY <1>1 DEF Judged, Answering, Working
<1>3. Last' = Last /\ Remaining' = Remaining /\ config' \in Configs /\ outcome' # "returned"
  BY <1>1, <1>2, SavingFacts DEF Last, Remaining
<1>4. /\ StoreInv' /\ CoveredInv' /\ SpendingKept' /\ Finished' = Finished
      /\ \A n : Recorded(n)' <=> Recorded(n)
  BY <1>1, <1>3, FilesSame DEF RecoveryInv
<1>5. JudgedInv'
  BY <1>1, <1>3, <1>4 DEF RecoveryInv, ProcessInv, JudgedInv, Answering
<1>6. FinishedInv'
  BY <1>1, <1>2, <1>3, <1>4 DEF RecoveryInv, ProcessInv, FinishedInv
<1>7. SettledInv' /\ GroupedInv' /\ pc' \in Points
  BY <1>1 DEF SettledInv, GroupedInv, Settled, Grouped, Points
<1> QED
  BY <1>3, <1>4, <1>5, <1>6, <1>7 DEF RecoveryInv, DurableInv, ProcessInv, ReturnedInv

(* A terminal call that was blocked, rejected or accepted. *)
LEMMA AnsweredKeeps ==
  ASSUME RecoveryInv, LoopInv',
         RecordBlockedStep \/ RecordRejectedStep \/ RecordAcceptedStep
  PROVE  RecoveryInv'
<1>1. /\ pc \in {"yield_blocked", "yield_rejected", "accepted"}
      /\ pc' \in {"post_step", "top", "finish"}
      /\ UNCHANGED <<steps, offset, budgetOffset, config, effects, outcome>>
      /\ \E kind \in {"step", "done"} : Save(kind, LastStep.n)
  BY DEF RecordBlockedStep, RecordRejectedStep, RecordAcceptedStep, StopWith, fixedVars,
         endVars, toolVars
<1>2. pc \in Working /\ pc \in Answering \cup {"yield_blocked"} /\ pc' \in Settled
  BY <1>1 DEF Judged, Answering, Settled, Working
<1>3. LoopInv /\ Last \in Nat /\ outcome' # "returned"
  BY <1>1, <1>2, SavingFacts
<1>4. LastStep.n = Last
  BY <1>1, <1>3, Numbers DEF YieldPoints
<1>5. PICK m \in Nat : m = Last
  BY <1>3
<1>6. PICK kind \in {"step", "done"} : Save(kind, m)
  BY <1>1, <1>4, <1>5
<1> QED
  BY <1>1, <1>2, <1>3, <1>5, <1>6, AnswerRecorded

(* Only a process at a point of the loop takes a step of its own. *)
LEMMA LoopPoints ==
  ASSUME LoopStep \/ HookRaises \/ DispatchRaises \/ CloseStream
  PROVE  pc \in Points
<1> USE DEF Points
<1>1. CASE Start \/ LoopHead \/ Prompt \/ RequestModel \/ ModelReturns \/ RecoverOverflow
  BY <1>1 DEF Start, LoopHead, Prompt, RequestModel, ModelReturns, RecoverOverflow
<1>2. CASE ModelAnswered \/ RecordFailedStep \/ ParseResponse \/ RecoverParse \/ GiveUpParse
  BY <1>2 DEF ModelAnswered, RecordFailedStep, ParseResponse, RecoverParse, GiveUpParse
<1>3. CASE RecordUnparsedStep \/ PlanTurn \/ Intercept \/ RunTool \/ CollectResult
  BY <1>3 DEF RecordUnparsedStep, PlanTurn, Intercept, RunTool, CollectResult
<1>4. CASE RecordToolStep \/ AfterToolStep \/ AfterDispatch \/ CheckDone \/ ExecuteDone
  BY <1>4 DEF RecordToolStep, AfterToolStep, AfterDispatch, CheckDone, ExecuteDone
<1>5. CASE JudgeDone \/ RecordBlockedStep \/ RecordRejectedStep \/ AcceptDone
  BY <1>5 DEF JudgeDone, RecordBlockedStep, RecordRejectedStep, AcceptDone
<1>6. CASE RecordAcceptedStep \/ PostStep \/ Finish \/ Finalize \/ Unwind
  BY <1>6 DEF RecordAcceptedStep, PostStep, Finish, Finalize, Unwind
<1>7. CASE HookRaises \/ DispatchRaises \/ CloseStream
  BY <1>7 DEF HookRaises, DispatchRaises, CloseStream, RaisePoints, YieldPoints
<1> QED
  BY <1>1, <1>2, <1>3, <1>4, <1>5, <1>6, <1>7 DEF LoopStep

(* Every step of the loop and of its host keeps the invariant. *)
LEMMA RecoveryStep ==
  ASSUME RecoveryInv, [Next]_vars
  PROVE  RecoveryInv'
<1>l. pc \in Points => LoopInv'
  BY LoopInvStep DEF RecoveryInv, ProcessInv
<1>h. ASSUME UNCHANGED <<pc, saved, clock, effects, config, steps, offset, budgetOffset, batch,
                         running, outcome>>
      PROVE  RecoveryInv'
  BY <1>h, <1>l, HostsStep
<1>1. CASE CancelRun \/ DeadlinePasses \/ Ended \/ UNCHANGED vars
  BY <1>1, <1>h DEF CancelRun, DeadlinePasses, Ended, vars, storeVars, toolVars, turnVars,
                    fixedVars, endVars
<1> SUFFICES ASSUME LoopStep \/ HookRaises \/ DispatchRaises \/ CloseStream PROVE RecoveryInv'
  BY <1>1 DEF Next, HostStep
<1>i. pc \in Points /\ LoopInv'
  BY <1>l, LoopPoints
<1>s. ASSUME UNCHANGED <<steps, storeVars, toolVars, fixedVars, endVars>>,
             pc \in Settled, pc' \in Settled
      PROVE  RecoveryInv'
  BY <1>s, <1>i, SettledSame DEF storeVars, toolVars, fixedVars, endVars
<1>a. ASSUME UNCHANGED <<storeVars, toolVars, fixedVars, endVars>>, NEW s,
             steps' = Append(steps, s), pc \in Settled, pc' \in Settled
      PROVE  RecoveryInv'
  BY <1>a, <1>i, SettledAppend DEF storeVars, toolVars, fixedVars, endVars
<1>e. ASSUME UNCHANGED <<storeVars, toolVars, fixedVars>>, pc' \in {"unwind", "ended"},
             outcome' # "returned"
      PROVE  RecoveryInv'
  BY <1>e, <1>i, ExitSame DEF storeVars, toolVars, fixedVars
<1> USE DEF Settled
<1>2. CASE Start
  BY <1>2, <1>s DEF Start
<1>3. CASE LoopHead
  BY <1>3, <1>s DEF LoopHead, DeadlineStop, StopWith
<1>4. CASE Prompt
  BY <1>4, <1>s DEF Prompt, HookDecides
<1>5. CASE RequestModel
  BY <1>5, <1>s DEF RequestModel, CallReturned, DeadlineStop, StopWith
<1>6. CASE ModelReturns
  BY <1>6, <1>s DEF ModelReturns, CallReturned, DeadlineStop, StopWith
<1>7. CASE RecoverOverflow
  BY <1>7, <1>s DEF RecoverOverflow
<1>8. CASE ModelAnswered
  <2>1. CASE UNCHANGED steps /\ pc' \in {"parse", "finish"}
    BY <1>8, <2>1, <1>s DEF ModelAnswered
  <2>2. CASE Yield(stepNum, "llm_error", FALSE, "yield_failed")
    BY <1>8, <2>2, <1>a DEF ModelAnswered, Yield
  <2> QED
    BY <1>8, <2>1, <2>2 DEF ModelAnswered, HookDecides, StopWith
<1>9. CASE RecordFailedStep
  BY <1>9, <1>s DEF RecordFailedStep, StopWith
<1>10. CASE ParseResponse
  BY <1>10, <1>s DEF ParseResponse
<1>11. CASE RecoverParse
  BY <1>11, <1>s DEF RecoverParse
<1>12. CASE GiveUpParse
  BY <1>12, <1>a DEF GiveUpParse, Yield
<1>13. CASE RecordUnparsedStep
  BY <1>13, <1>s DEF RecordUnparsedStep
<1>o. outcome # "returned" \/ pc = "ended"
  BY <1>i DEF RecoveryInv, DurableInv, ReturnedInv, Points
<1>14. CASE PlanTurn
  <2>1. CASE pc' = "unwind"
    BY <1>14, <2>1, <1>e, <1>o DEF PlanTurn, endVars
  <2>2. CASE pc' \in {"dispatched", "intercept"}
    BY <1>14, <2>2, <1>s DEF PlanTurn
  <2> QED
    BY <1>14, <2>1, <2>2 DEF PlanTurn
<1>15. CASE AfterDispatch
  BY <1>15, <1>s DEF AfterDispatch, DeadlineStop, StopWith
<1>16. CASE PostStep
  BY <1>16, <1>s DEF PostStep, StopWith
<1>17. CASE Finish
  BY <1>17, <1>s DEF Finish
<1>18. CASE Finalize
  <2>1. UNCHANGED <<saved, clock, effects, config>> /\ pc' \in {"unwind", "ended"}
    BY <1>18 DEF Finalize, storeVars, toolVars, fixedVars
  <2>2. AllRecorded
    BY <1>18 DEF Finalize, RecoveryInv, ProcessInv, SettledInv
  <2>3. outcome' = "returned" => pc' = "ended"
    BY <1>18, <1>o DEF Finalize
  <2>4. config' \in Configs
    BY <2>1 DEF RecoveryInv, DurableInv, StoreInv, Filed
  <2> QED
    BY <2>1, <2>2, <2>3, <2>4, <1>i, ExitStep
<1>19. CASE Unwind
  BY <1>19, <1>e DEF Unwind
<1>20. CASE HookRaises \/ DispatchRaises
  BY <1>20, <1>e, <1>o DEF HookRaises, DispatchRaises, endVars, RaisePoints
<1>21. CASE CloseStream
  BY <1>21, <1>e DEF CloseStream
<1> QED
  BY <1>i, <1>2, <1>3, <1>4, <1>5, <1>6, <1>7, <1>8, <1>9, <1>10, <1>11, <1>12, <1>13, <1>14,
     <1>15, <1>16, <1>17, <1>18, <1>19, <1>20, <1>21, InterceptStep, RunToolStep, CollectStep,
     RecordToolStepKeeps, AfterToolStepKeeps, CheckDoneKeeps, ExecuteDoneKeeps, JudgeDoneKeeps,
     AcceptDoneKeeps, AnsweredKeeps
  DEF LoopStep

(* A run starts in it. *)
LEMMA RecoveryInvInit == Init => RecoveryInv
<1> SUFFICES ASSUME Init PROVE RecoveryInv
  OBVIOUS
<1>1. LoopInv /\ pc = "start" /\ outcome = "none" /\ DOMAIN saved = {} /\ effects = {}
  BY LoopInvInit DEF Init
<1>2. StoreInv
  BY <1>1 DEF Init, StoreInv, Filed, Keyed, Ordered, StoreType
<1>3. CoveredInv /\ SpendingKept /\ ReturnedInv
  BY <1>1 DEF CoveredInv, SpendingKept, Finished, ReturnedInv
<1>4. SettledInv /\ GroupedInv /\ JudgedInv /\ FinishedInv /\ pc \in Points
  BY <1>1 DEF SettledInv, GroupedInv, JudgedInv, FinishedInv, AllRecorded, Finished, Grouped,
              Answering, Points
<1> QED
  BY <1>1, <1>2, <1>3, <1>4 DEF RecoveryInv, DurableInv, ProcessInv

(* What the invariant says of the properties. *)
LEMMA RecoveryInvMeans ==
  ASSUME RecoveryInv
  PROVE  UncertainEffectsBlockResume /\ ResultsRecorded /\ SpendingKept /\ AtMostOnce
<1>1. UncertainEffectsBlockResume
  <2>1. ASSUME NEW n \in effects, ~Recorded(n)
        PROVE  DOMAIN saved # {} /\ saved[Newest].kind = "pending" /\ saved[Newest].n >= n
    <3>1. PICK key \in DOMAIN saved : IsNewest(key) /\ key[1] = "pending" /\ n <= key[2]
      BY <2>1 DEF RecoveryInv, DurableInv, CoveredInv
    <3>2. Newest = key
      BY <3>1, NewestFacts DEF RecoveryInv, DurableInv
    <3>3. saved[key].kind = key[1] /\ saved[key].n = key[2]
      BY DEF RecoveryInv, DurableInv, StoreInv, Keyed
    <3>4. n \in Nat /\ saved[key].n \in Nat
      BY DEF RecoveryInv, DurableInv, StoreInv, Filed, StoreType, Documents
    <3> QED
      BY <3>1, <3>2, <3>3, <3>4
  <2> QED
    BY <2>1 DEF UncertainEffectsBlockResume
<1>2. ResultsRecorded
  BY DEF RecoveryInv, DurableInv, ReturnedInv, AllRecorded, ResultsRecorded
<1>3. SpendingKept
  BY DEF RecoveryInv, DurableInv
<1>4. AtMostOnce
  <2>1. ASSUME pc = "execute", NEW i \in running
        PROVE  stepNum + at + i - 1 \notin effects
    <3>1. LoopInv
      BY <2>1 DEF RecoveryInv, ProcessInv, Points
    <3>2. stepNum + at = Last + 1 /\ Last \in Nat /\ stepNum \in Nat /\ at \in Nat /\ i \in Nat
      BY <2>1, <3>1, Numbers DEF LoopInv, DataInv, DataType, Dispatching, Running
    <3>3. Last + i \notin effects
      BY <2>1 DEF RecoveryInv, ProcessInv, GroupedInv
    <3> QED
      BY <3>2, <3>3
  <2>2. ASSUME pc = "execute_done" PROVE DoneStep \notin effects
    <3>1. LoopInv
      BY <2>2 DEF RecoveryInv, ProcessInv, Points
    <3>2. DoneStep = Last + 1
      BY <2>2, <3>1, DoneNumber DEF Completing
    <3> QED
      BY <2>2, <3>2 DEF RecoveryInv, ProcessInv, JudgedInv
  <2> QED
    BY <2>1, <2>2 DEF AtMostOnce
<1> QED
  BY <1>1, <1>2, <1>3, <1>4

(* At every instant of a run a crash is safe: a tool call that was executed *)
(* is in a finished checkpoint, or the newest one makes resume refuse.     *)
THEOREM UncertainSafe == Spec => []UncertainEffectsBlockResume
BY RecoveryInvInit, RecoveryStep, RecoveryInvMeans, PTL DEF Spec

(* A run that returns has recorded every tool call it executed. *)
THEOREM ResultsSafe == Spec => []ResultsRecorded
BY RecoveryInvInit, RecoveryStep, RecoveryInvMeans, PTL DEF Spec

-----------------------------------------------------------------------------
(* Crashes and resumes.                                                    *)

(* A process that starts again, with an offset and a budget that fit the   *)
(* bounds of the task, starts in the invariant of the loop.                *)
LEMMA FreshLoop ==
  ASSUME DurableInv, FreshProcess,
         NEW n \in Nat, offset' = n, NEW b \in 0..MaxSteps, budgetOffset' = b
  PROVE  LoopInv' /\ Last' = n /\ Remaining' = MaxSteps - b
<1>1. /\ pc' = "start" /\ steps' = <<>> /\ calls' = <<>> /\ batch' = <<>> /\ running' = {}
      /\ stepNum' = 0 /\ at' = 0
      /\ UNCHANGED <<config, saved, clock, effects>>
  BY DEF FreshProcess, storeVars
<1>2. ControlType'
  <2>1. ctx' \in Lifecycles /\ pub' \in Lifecycles
    BY DEF FreshProcess, Lifecycles, RunStatuses, RunPhases
  <2>2. strategies' \in 0..Strategies /\ parseFails' \in 0..ParseRecoveryMax + 1
    BY RecoveryAssumption DEF FreshProcess, Strategies
  <2>3. pc' \in Points /\ stopReason' \in Reasons
    BY DEF FreshProcess, Points, Reasons
  <2>4. /\ hookStop' \in BOOLEAN /\ llmFailed' \in BOOLEAN /\ asked' \in BOOLEAN
        /\ llm' \in {"ok", "overflow", "failed"}
        /\ cancelled' \in BOOLEAN /\ late' \in BOOLEAN /\ hooksBound' \in BOOLEAN
        /\ loopEnds' \in Nat /\ lateGroups' \in Nat
        /\ outcome' \in {"none", "returned", "raised", "closed"}
    BY DEF FreshProcess
  <2>5. config' \in Configs /\ clock' \in Nat
    BY <1>1 DEF DurableInv, StoreInv, Filed
  <2> QED
    BY <2>1, <2>2, <2>3, <2>4, <2>5 DEF ControlType
<1>3. DataType'
  BY <1>1, EmptySeq DEF DataType, DurableInv, StoreInv, Filed
<1>4. Charged(steps') = 0
  <2>1. {i \in DOMAIN steps' : ~steps'[i].free} = {}
    BY <1>1
  <2> QED
    BY <2>1, FS_EmptySet DEF Charged
<1>5. StepsNumbered' /\ BudgetRespected'
  BY <1>1, <1>4, BudgetAssumption DEF StepsNumbered, BudgetRespected
<1>6. Position' /\ GroupInv'
  BY <1>1 DEF Position, GroupInv, Deciding, Running, Dispatching, Completing, YieldPoints
<1>7. StoreType'
  BY <1>1 DEF DurableInv, StoreInv, Filed, StoreType
<1>8. Last' = n
  <2>1. Len(steps') = 0
    BY <1>1, EmptySeq
  <2> QED
    BY <2>1 DEF Last
<1>9. Remaining' = MaxSteps - b
  BY <1>4, BudgetAssumption DEF Remaining
<1> QED
  BY <1>2, <1>3, <1>5, <1>6, <1>7, <1>8, <1>9 DEF LoopInv, DataInv

(* It starts in the whole invariant when the files are not ahead of it. *)
LEMMA FreshStep ==
  ASSUME RecoveryInv, FreshProcess,
         NEW n \in Nat, offset' = n, NEW b \in 0..MaxSteps, budgetOffset' = b,
         AllRecorded,
         \A key \in DOMAIN saved : key[2] <= n /\ ~(IsNewest(key) /\ key[1] = "pending"),
         \A key \in Finished : MaxSteps - b <= saved[key].left
  PROVE  RecoveryInv'
<1>1. /\ pc' = "start" /\ outcome' = "none"
      /\ UNCHANGED <<config, saved, clock, effects>>
  BY DEF FreshProcess, storeVars
<1>2. LoopInv' /\ Last' = n /\ Remaining' = MaxSteps - b
  BY FreshLoop DEF RecoveryInv
<1>3. config' \in Configs
  BY <1>1 DEF RecoveryInv, DurableInv, StoreInv, Filed
<1>4. /\ StoreInv' /\ CoveredInv' /\ SpendingKept' /\ Finished' = Finished
      /\ AllRecorded' <=> AllRecorded
      /\ \A key : IsNewest(key)' <=> IsNewest(key)
  BY <1>1, <1>3, FilesSame DEF RecoveryInv
<1>5. SettledInv'
  BY <1>1, <1>2, <1>4 DEF SettledInv
<1>6. FinishedInv'
  <2>1. ASSUME NEW key \in Finished' PROVE key[2] <= Last' /\ Remaining' <= saved'[key].left
    BY <2>1, <1>1, <1>2, <1>4 DEF Finished
  <2> QED
    BY <2>1 DEF FinishedInv
<1>7. GroupedInv' /\ JudgedInv' /\ pc' \in Points /\ ReturnedInv'
  BY <1>1 DEF GroupedInv, JudgedInv, Grouped, Answering, Points, ReturnedInv
<1> QED
  BY <1>2, <1>4, <1>5, <1>6, <1>7 DEF RecoveryInv, DurableInv, ProcessInv

LEMMA ResumeStep ==
  ASSUME RecoveryInv, Resume
  PROVE  RecoveryInv'
<1>1. /\ DOMAIN saved # {} /\ saved[Newest].kind # "pending" /\ ~Terminal
      /\ FreshProcess /\ offset' = saved[Newest].n
      /\ budgetOffset' = IF MaxSteps > saved[Newest].left
                         THEN MaxSteps - saved[Newest].left ELSE 0
  BY DEF Resume, Stopped, Uncertain, ToResume, ResumedAt, RestoredOffset
<1>2. /\ Newest \in DOMAIN saved /\ IsNewest(Newest)
      /\ \A key \in DOMAIN saved : IsNewest(key) => key = Newest
  BY <1>1, NewestFacts DEF RecoveryInv, DurableInv
<1>3. \A key \in DOMAIN saved :
        /\ key \in Keys
        /\ saved[key].kind = key[1] /\ saved[key].n = key[2]
        /\ saved[key].n \in Nat /\ saved[key].left \in Nat
  BY DEF RecoveryInv, DurableInv, StoreInv, Filed, Keyed, StoreType, Documents
<1> DEFINE top == Newest
<1> HIDE DEF top
<1>4. Newest = top
  BY DEF top
<1>5. /\ top \in DOMAIN saved /\ top[1] # "pending" /\ offset' = top[2]
      /\ \A key \in DOMAIN saved : IsNewest(key) => key = top
  BY <1>1, <1>2, <1>3, <1>4
<1>6. \A key \in DOMAIN saved : key[2] <= top[2]
  BY <1>2, <1>3, <1>4 DEF IsNewest
<1>7. AllRecorded
  BY <1>5 DEF RecoveryInv, DurableInv, CoveredInv, AllRecorded
<1>8. \A key \in DOMAIN saved : key[2] <= top[2] /\ ~(IsNewest(key) /\ key[1] = "pending")
  BY <1>5, <1>6
<1>9. ASSUME NEW key \in Finished PROVE saved[top].left <= saved[key].left
  <2>1. key \in DOMAIN saved /\ key[1] # "pending"
    BY <1>9 DEF Finished
  <2>2. CASE saved[key].n < saved[top].n
    BY <2>2, <1>5, <1>9 DEF RecoveryInv, DurableInv, SpendingKept, Finished
  <2>3. CASE saved[key].n = saved[top].n
    <3>1. key[1] # "done" /\ top[1] # "done"
      BY <1>1, <1>5, <2>1 DEF Terminal
    <3>2. key = top
      BY <3>1, <2>1, <2>3, <1>3, <1>5 DEF Keys
    <3> QED
      BY <3>2, <1>3, <1>5
  <2> QED
    BY <2>1, <2>2, <2>3, <1>3, <1>5, <1>6
<1>10. PICK b \in 0..MaxSteps : budgetOffset' = b /\ MaxSteps - b <= saved[top].left
  <2>1. saved[top].left \in Nat
    BY <1>3, <1>5
  <2> QED
    BY <2>1, <1>1, <1>4, BudgetAssumption
<1>11. \A key \in Finished : MaxSteps - b <= saved[key].left
  BY <1>3, <1>5, <1>9, <1>10, BudgetAssumption DEF Finished
<1>12. top[2] \in Nat /\ offset' = top[2]
  BY <1>3, <1>5
<1> QED
  BY <1>1, <1>7, <1>8, <1>10, <1>11, <1>12, FreshStep

(* No crash, restart, resume or refusal leaves the invariant. *)
LEMMA RecoveryNextStep ==
  ASSUME RecoveryInv, [RecoveryNext]_recoveryVars
  PROVE  RecoveryInv'
<1>1. CASE LoopStep \/ HostStep
  BY <1>1, RecoveryStep DEF Next
<1>2. CASE UNCHANGED recoveryVars
  BY <1>2, RecoveryStep DEF recoveryVars
<1>c. config \in Configs /\ ReturnedInv
  BY DEF RecoveryInv, DurableInv, StoreInv, Filed
<1>3. CASE Crash
  <2>1. /\ pc \notin {"ended", "crashed", "refused"} /\ pc' = "crashed"
        /\ UNCHANGED <<saved, clock, effects, config, outcome>>
    BY <1>3 DEF Crash
  <2> QED
    BY <2>1, <1>c, ExitStep DEF Points, ReturnedInv
<1>4. CASE RefuseResume
  <2>1. /\ pc' = "refused"
        /\ UNCHANGED <<saved, clock, effects, config, outcome>>
    BY <1>4 DEF RefuseResume
  <2> QED
    BY <2>1, <1>c, ExitStep DEF Points, ReturnedInv
<1>5. CASE RestartFresh
  <2>1. /\ DOMAIN saved = {} /\ FreshProcess /\ offset' = 0 /\ budgetOffset' = 0
    BY <1>5 DEF RestartFresh
  <2>2. AllRecorded
    BY <2>1 DEF RecoveryInv, DurableInv, CoveredInv, AllRecorded
  <2>3. Finished = {}
    BY <2>1 DEF Finished
  <2> QED
    BY <2>1, <2>2, <2>3, BudgetAssumption, FreshStep
<1>6. CASE Resume
  BY <1>6, ResumeStep
<1> QED
  BY <1>1, <1>2, <1>3, <1>4, <1>5, <1>6 DEF RecoveryNext

(* Over all processes that work on a task, the files never fall behind the *)
(* effects by more than the newest of them says.                           *)
THEOREM RecoveryInvariant == RecoverySpec => []RecoveryInv
<1>1. RecoveryInit => RecoveryInv
  BY RecoveryInvInit DEF RecoveryInit
<1> QED
  BY <1>1, RecoveryNextStep, PTL DEF RecoverySpec

(* No tool is executed twice under one step number, by whichever process.  *)
THEOREM AtMostOnceSafe == RecoverySpec => []AtMostOnce
BY RecoveryInvariant, RecoveryInvMeans, PTL

(* A crash and a resume give no budget back. *)
THEOREM SpendingSafe == RecoverySpec => []SpendingKept
BY RecoveryInvariant, RecoveryInvMeans, PTL

-----------------------------------------------------------------------------
(* The refinement.                                                         *)

(* The calls in doubt are the unrecorded ones under a pending newest       *)
(* document, and there are none without one.                               *)
DoubtFacts ==
  /\ \A key \in DOMAIN saved :
       IsNewest(key) /\ key[1] = "pending" => InDoubt = {n \in 1..key[2] : ~Recorded(n)}
  /\ (\A key \in DOMAIN saved : ~(IsNewest(key) /\ key[1] = "pending")) => InDoubt = {}
  /\ InDoubt \subseteq {n \in Nat : ~Recorded(n)}

LEMMA InDoubtFacts == RecoveryInv => DoubtFacts
<1> SUFFICES ASSUME RecoveryInv PROVE DoubtFacts
  OBVIOUS
<1>1. /\ \A key \in DOMAIN saved : IsNewest(key) => Newest = key
      /\ DOMAIN saved # {} => Newest \in DOMAIN saved /\ IsNewest(Newest)
  BY NewestFacts DEF RecoveryInv, DurableInv
<1>2. \A key \in DOMAIN saved : saved[key].kind = key[1] /\ saved[key].n = key[2] /\ key[2] \in Nat
  BY DEF RecoveryInv, DurableInv, StoreInv, Filed, Keyed, StoreType, Documents
<1>3. ASSUME NEW key \in DOMAIN saved, IsNewest(key), key[1] = "pending"
      PROVE  InDoubt = {n \in 1..key[2] : ~Recorded(n)}
  <2>1. Newest = key /\ saved[Newest].kind = "pending" /\ saved[Newest].n = key[2]
    BY <1>1, <1>2, <1>3
  <2> QED
    BY <2>1, <1>3 DEF InDoubt
<1>4. ASSUME \A key \in DOMAIN saved : ~(IsNewest(key) /\ key[1] = "pending")
      PROVE  InDoubt = {}
  <2>1. DOMAIN saved = {} \/ saved[Newest].kind # "pending"
    BY <1>1, <1>2, <1>4
  <2> QED
    BY <2>1 DEF InDoubt
<1>5. InDoubt \subseteq {n \in Nat : ~Recorded(n)}
  <2>1. CASE \E key \in DOMAIN saved : IsNewest(key) /\ key[1] = "pending"
    BY <2>1, <1>2, <1>3
  <2> QED
    BY <2>1, <1>4
<1> QED
  BY <1>3, <1>4, <1>5 DEF DoubtFacts

LEMMA InDoubtNext == RecoveryInv' => DoubtFacts'
BY InDoubtFacts, PTL

(* Nothing is in doubt at a settled point. *)
LEMMA SettledDoubt ==
  ASSUME RecoveryInv, pc \in Settled
  PROVE  InDoubt = {}
<1>1. \A key \in DOMAIN saved : ~(IsNewest(key) /\ key[1] = "pending")
  BY DEF RecoveryInv, ProcessInv, SettledInv
<1>2. DoubtFacts
  BY InDoubtFacts
<1> QED
  BY <1>1, <1>2 DEF DoubtFacts

(* Files that stay as they are leave the same calls in doubt. *)
LEMMA SameDoubt ==
  ASSUME RecoveryInv, RecoveryInv', saved' = saved
  PROVE  InDoubt' = InDoubt
<1>1. /\ \A key : IsNewest(key)' <=> IsNewest(key)
      /\ \A n : Recorded(n)' <=> Recorded(n)
  BY DEF IsNewest, Recorded
<1>2. DoubtFacts /\ DoubtFacts'
  BY InDoubtFacts, InDoubtNext
<1>3. CASE \E key \in DOMAIN saved : IsNewest(key) /\ key[1] = "pending"
  <2>1. PICK key \in DOMAIN saved : IsNewest(key) /\ key[1] = "pending"
    BY <1>3
  <2>2. InDoubt = {n \in 1..key[2] : ~Recorded(n)}
    BY <2>1, <1>2 DEF DoubtFacts
  <2>3. InDoubt' = {n \in 1..key[2] : ~Recorded(n)'}
    BY <2>1, <1>1, <1>2 DEF DoubtFacts
  <2> QED
    BY <2>2, <2>3, <1>1
<1>4. CASE \A key \in DOMAIN saved : ~(IsNewest(key) /\ key[1] = "pending")
  BY <1>1, <1>2, <1>4 DEF DoubtFacts
<1> QED
  BY <1>3, <1>4

(* Each of the ledger's steps, and the pieces of code that take it. *)
LEMMA LedgerStutter ==
  ASSUME RecoveryInv, RecoveryInv', UNCHANGED <<saved, effects>>,
         (pc' = "refused") <=> (pc = "refused")
  PROVE  UNCHANGED Ledger!ledgerVars
BY SameDoubt DEF Ledger!ledgerVars

LEMMA LedgerAnnounce ==
  ASSUME RecoveryInv, RecoveryInv', pc \in Settled, pc' \in Points,
         NEW m \in Nat, Save("pending", m),
         UNCHANGED <<effects, config, steps, offset, budgetOffset>>
  PROVE  Ledger!Announce
<1>1. AllRecorded
  BY DEF RecoveryInv, ProcessInv, SettledInv
<1>2. \A n : Recorded(n)' <=> Recorded(n)
  BY PendingStep DEF Working
<1>3. InDoubt' \subseteq {n \in Nat : ~Recorded(n)'}
  BY InDoubtNext DEF DoubtFacts
<1>4. InDoubt' \subseteq Nat /\ InDoubt' \cap effects = {}
  BY <1>1, <1>2, <1>3 DEF AllRecorded
<1>5. pc # "refused" /\ pc' # "refused"
  BY DEF Settled, Points
<1> QED
  BY <1>4, <1>5, SettledDoubt DEF Ledger!Announce

LEMMA LedgerPerform ==
  ASSUME RecoveryInv, RecoveryInv', pc \in Working, pc' \in Points, UNCHANGED saved,
         NEW p \in Nat, PendingTop(p),
         NEW n \in Nat, Last < n, n <= p, n \notin effects, Dispatch(n)
  PROVE  [Ledger!Next]_(Ledger!ledgerVars)
<1>1. pc # "refused" /\ pc' # "refused" /\ InDoubt' = InDoubt
  BY SameDoubt DEF Working, Settled, Grouped, Judged, Answering, Points
<1>2. CASE effects' = effects
  BY <1>2, <1>1, LedgerStutter
<1>3. CASE effects' = effects \cup {n}
  <2>1. <<"pending", p>> \in DOMAIN saved /\ IsNewest(<<"pending", p>>)
    BY DEF PendingTop, IsNewest
  <2>2. DoubtFacts
    BY InDoubtFacts
  <2>3. InDoubt = {x \in 1..p : ~Recorded(x)}
    BY <2>1, <2>2 DEF DoubtFacts
  <2>4. ~Recorded(n)
    <3>1. \A key \in Finished : key[2] <= Last
      BY DEF RecoveryInv, ProcessInv, FinishedInv
    <3> QED
      BY <3>1, SavingFacts DEF Recorded, Finished
  <2>5. n \in InDoubt \ effects
    BY <2>3, <2>4, SavingFacts
  <2> QED
    BY <1>1, <1>3, <2>5 DEF Ledger!Next, Ledger!Perform
<1> QED
  BY <1>2, <1>3 DEF Dispatch

LEMMA LedgerSettle ==
  ASSUME RecoveryInv, RecoveryInv', pc \in Working, pc' \in Points,
         NEW kind \in {"step", "done"}, NEW m \in Nat, Save(kind, m),
         UNCHANGED <<effects, config>>
  PROVE  Ledger!Settle
<1> DEFINE new == <<kind, m>>
<1>1. /\ DOMAIN saved' = DOMAIN saved \cup {new}
      /\ \A key \in DOMAIN saved' :
           key # new /\ IsNewest(key)' => key \in DOMAIN saved /\ IsNewest(key)
  <2>1. /\ StoreInv /\ Remaining \in Nat /\ config' \in Configs /\ effects' \in SUBSET Nat
        /\ kind \in {"pending", "step", "done"}
    BY SavingFacts
  <2> QED
    BY <2>1, SaveFacts
<1>2. \A x : Recorded(x) => Recorded(x)'
  BY <1>1 DEF Recorded
<1>3. new[1] # "pending"
  OBVIOUS
<1> HIDE DEF new
<1>4. DoubtFacts /\ DoubtFacts'
  BY InDoubtFacts, InDoubtNext
<1>5. InDoubt' \subseteq InDoubt
  <2>1. CASE \A key \in DOMAIN saved' : ~(IsNewest(key)' /\ key[1] = "pending")
    BY <2>1, <1>4 DEF DoubtFacts
  <2>2. CASE \E key \in DOMAIN saved' : IsNewest(key)' /\ key[1] = "pending"
    <3>1. PICK key \in DOMAIN saved' : IsNewest(key)' /\ key[1] = "pending"
      BY <2>2
    <3>2. key \in DOMAIN saved /\ IsNewest(key)
      BY <3>1, <1>1, <1>3
    <3>3. InDoubt' = {n \in 1..key[2] : ~Recorded(n)'}
      BY <3>1, <1>4 DEF DoubtFacts
    <3>4. InDoubt = {n \in 1..key[2] : ~Recorded(n)}
      BY <3>1, <3>2, <1>4 DEF DoubtFacts
    <3> QED
      BY <3>3, <3>4, <1>2
  <2> QED
    BY <2>1, <2>2
<1>6. pc # "refused" /\ pc' # "refused"
  BY DEF Working, Settled, Grouped, Judged, Answering, Points
<1> QED
  BY <1>5, <1>6 DEF Ledger!Settle

LEMMA LedgerRefuse ==
  ASSUME RecoveryInv, RecoveryInv', RefuseResume
  PROVE  Ledger!Refuse
<1>1. /\ DOMAIN saved # {} /\ saved[Newest].kind = "pending"
      /\ pc' = "refused" /\ UNCHANGED <<saved, effects>>
  BY DEF RefuseResume, Uncertain, ToResume
<1>2. Newest \in DOMAIN saved /\ IsNewest(Newest)
  BY <1>1, NewestFacts DEF RecoveryInv, DurableInv
<1>3. PICK key \in DOMAIN saved : key = Newest
  BY <1>2
<1>4. IsNewest(key) /\ key[1] = "pending" /\ key[2] \in Nat
  BY <1>1, <1>2, <1>3 DEF RecoveryInv, DurableInv, StoreInv, Filed, Keyed, StoreType, Documents
<1>5. ~Recorded(key[2]) /\ key[2] > 0
  BY <1>4 DEF RecoveryInv, DurableInv, CoveredInv
<1>6. DoubtFacts
  BY InDoubtFacts
<1>7. InDoubt = {n \in 1..key[2] : ~Recorded(n)}
  BY <1>4, <1>6 DEF DoubtFacts
<1>8. key[2] \in InDoubt
  BY <1>4, <1>5, <1>7
<1>9. InDoubt' = InDoubt
  BY <1>1, SameDoubt
<1> QED
  BY <1>1, <1>8, <1>9 DEF Ledger!Refuse

(* The steps of the loop that leave files and effects alone. *)
Noted ==
  \/ Intercept \/ RunTool \/ RecordToolStep \/ CheckDone \/ ExecuteDone
  \/ RecordBlockedStep \/ RecordRejectedStep \/ RecordAcceptedStep

LEMMA QuietSteps ==
  ASSUME LoopStep \/ HostStep, ~Noted
  PROVE  UNCHANGED <<saved, effects>>
<1> USE DEF storeVars, toolVars
<1>1. CASE Start \/ LoopHead \/ Prompt \/ RequestModel \/ ModelReturns \/ RecoverOverflow
  BY <1>1 DEF Start, LoopHead, Prompt, RequestModel, ModelReturns, RecoverOverflow
<1>2. CASE ModelAnswered \/ RecordFailedStep \/ ParseResponse \/ RecoverParse \/ GiveUpParse
  BY <1>2 DEF ModelAnswered, RecordFailedStep, ParseResponse, RecoverParse, GiveUpParse
<1>3. CASE RecordUnparsedStep \/ PlanTurn \/ CollectResult \/ AfterToolStep \/ AfterDispatch
  BY <1>3 DEF RecordUnparsedStep, PlanTurn, CollectResult, AfterToolStep, AfterDispatch
<1>4. CASE JudgeDone \/ AcceptDone \/ PostStep \/ Finish \/ Finalize \/ Unwind
  BY <1>4 DEF JudgeDone, AcceptDone, PostStep, Finish, Finalize, Unwind
<1>5. CASE HostStep
  BY <1>5 DEF HostStep, HookRaises, DispatchRaises, CloseStream, CancelRun, DeadlinePasses
<1> QED
  BY <1>1, <1>2, <1>3, <1>4, <1>5 DEF LoopStep, Noted

(* The steps that do not. *)
LEMMA NotedSteps ==
  ASSUME RecoveryInv, RecoveryInv', pc' \in Points, Noted
  PROVE  [Ledger!Next]_(Ledger!ledgerVars)
<1>1. CASE Intercept
  <2>1. /\ pc = "intercept" /\ UNCHANGED <<effects, config, steps, offset, budgetOffset>>
    BY <1>1 DEF Intercept, fixedVars
  <2>2. CASE UNCHANGED storeVars
    BY <2>1, <2>2, LedgerStutter DEF storeVars, Points
  <2>3. CASE Save("pending", GroupStep)
    <3>1. pc \in Settled /\ pc \in Working
      BY <2>1 DEF Settled, Working
    <3>2. PICK m \in Nat : m = GroupStep
      BY <2>1, <3>1, SavingFacts, GroupNumbers
    <3> QED
      BY <2>1, <2>3, <3>1, <3>2, LedgerAnnounce DEF Ledger!Next
  <2> QED
    BY <1>1, <2>2, <2>3 DEF Intercept
<1>2. CASE RunTool
  <2>1. /\ pc = "execute" /\ UNCHANGED <<saved, clock>>
        /\ \E i \in running : Dispatch(stepNum + at + i - 1)
    BY <1>2 DEF RunTool, storeVars
  <2>2. pc \in Working
    BY <2>1 DEF Grouped, Working
  <2>3. LoopInv /\ Last \in Nat /\ Len(batch) \in Nat
    BY <2>2, SavingFacts
  <2>4. PICK i \in running : Dispatch(stepNum + at + i - 1)
    BY <2>1
  <2>5. i \in 1..Len(batch)
    BY <2>1, <2>3 DEF LoopInv, DataInv, GroupInv
  <2>6. stepNum + at = Last + 1 /\ stepNum \in Nat /\ at \in Nat
    BY <2>1, <2>3, Numbers DEF LoopInv, DataInv, DataType, Dispatching, Running
  <2>7. PICK n \in Nat, p \in Nat : n = Last + i /\ p = Last + Len(batch)
    <3>1. Last + i \in Nat /\ Last + Len(batch) \in Nat
      BY <2>3, <2>5
    <3> QED
      BY <3>1, Zenon
  <2>8. n = stepNum + at + i - 1 /\ Last < n /\ n <= p
    BY <2>3, <2>5, <2>6, <2>7
  <2>9. PendingTop(p) /\ n \notin effects
    BY <2>1, <2>7 DEF RecoveryInv, ProcessInv, GroupedInv
  <2> QED
    BY <2>1, <2>2, <2>4, <2>8, <2>9, LedgerPerform
<1>3. CASE RecordToolStep \/ RecordBlockedStep \/ RecordRejectedStep \/ RecordAcceptedStep
  <2>1. /\ pc \in {"yield_tool", "yield_blocked", "yield_rejected", "accepted"}
        /\ UNCHANGED <<effects, config>>
        /\ \E kind \in {"step", "done"} : Save(kind, LastStep.n)
    BY <1>3 DEF RecordToolStep, RecordBlockedStep, RecordRejectedStep, RecordAcceptedStep,
                fixedVars, toolVars
  <2>2. pc \in Working
    BY <2>1 DEF Settled, Grouped, Judged, Answering, Working
  <2>3. LoopInv /\ Last \in Nat
    BY <2>2, SavingFacts
  <2>4. LastStep.n = Last
    BY <2>1, <2>3, Numbers DEF YieldPoints
  <2>5. PICK kind \in {"step", "done"}, m \in Nat : Save(kind, m)
    BY <2>1, <2>3, <2>4
  <2> QED
    BY <2>1, <2>2, <2>5, LedgerSettle DEF Ledger!Next
<1>4. CASE CheckDone
  <2>1. /\ pc = "gate" /\ UNCHANGED <<effects, config, offset, budgetOffset>>
    BY <1>4 DEF CheckDone, fixedVars
  <2>2. CASE UNCHANGED storeVars
    BY <2>1, <2>2, LedgerStutter DEF storeVars, Points
  <2>3. CASE Save("pending", DoneStep) /\ UNCHANGED steps
    <3>1. pc \in Settled /\ pc \in Working
      BY <2>1 DEF Settled, Working
    <3>2. DoneStep = Last + 1 /\ Last \in Nat
      BY <2>1, <3>1, SavingFacts, DoneNumber DEF Completing
    <3>3. PICK m \in Nat : m = DoneStep
      BY <3>2
    <3> QED
      BY <2>1, <2>3, <3>1, <3>3, LedgerAnnounce DEF Ledger!Next
  <2> QED
    BY <1>4, <2>2, <2>3 DEF CheckDone
<1>5. CASE ExecuteDone
  <2>1. pc = "execute_done" /\ Dispatch(DoneStep) /\ UNCHANGED <<saved, clock>>
    BY <1>5 DEF ExecuteDone, storeVars
  <2>2. pc \in Working
    BY <2>1 DEF Judged, Working
  <2>3. DoneStep = Last + 1 /\ Last \in Nat
    BY <2>1, <2>2, SavingFacts, DoneNumber DEF Completing
  <2>4. PICK n \in Nat : n = Last + 1
    BY <2>3
  <2>5. PendingTop(n) /\ n \notin effects
    BY <2>1, <2>4 DEF RecoveryInv, ProcessInv, JudgedInv
  <2> QED
    BY <2>1, <2>2, <2>3, <2>4, <2>5, LedgerPerform
<1> QED
  BY <1>1, <1>2, <1>3, <1>4, <1>5 DEF Noted

LEMMA LedgerStep ==
  RecoveryInv /\ RecoveryInv' /\ [RecoveryNext]_recoveryVars
    => [Ledger!Next]_(Ledger!ledgerVars)
<1> SUFFICES ASSUME RecoveryInv, RecoveryInv', [RecoveryNext]_recoveryVars
             PROVE  [Ledger!Next]_(Ledger!ledgerVars)
  OBVIOUS
<1>1. CASE UNCHANGED recoveryVars
  BY <1>1, LedgerStutter DEF recoveryVars, vars
<1>2. CASE CancelRun \/ DeadlinePasses
  BY <1>2, LedgerStutter DEF CancelRun, DeadlinePasses, storeVars, toolVars
<1>3. CASE LoopStep \/ HookRaises \/ DispatchRaises \/ CloseStream
  <2>1. pc \in Points
    BY <1>3, LoopPoints
  <2>2. LoopInv'
    BY <1>3, <2>1, LoopInvStep DEF RecoveryInv, ProcessInv, Next, HostStep
  <2>3. pc' \in Points
    BY <2>2 DEF LoopInv, ControlType
  <2>4. CASE Noted
    BY <2>3, <2>4, NotedSteps
  <2>5. CASE ~Noted
    BY <1>3, <2>1, <2>3, <2>5, QuietSteps, LedgerStutter DEF HostStep, Points
  <2> QED
    BY <2>4, <2>5
<1>4. CASE Crash
  BY <1>4, LedgerStutter DEF Crash
<1>5. CASE RestartFresh \/ Resume
  BY <1>5, LedgerStutter DEF RestartFresh, Resume, Stopped, FreshProcess, storeVars
<1>6. CASE RefuseResume
  BY <1>6, LedgerRefuse DEF Ledger!Next
<1> QED
  BY <1>1, <1>2, <1>3, <1>4, <1>5, <1>6 DEF RecoveryNext, HostStep

(* Loop, store, crashes and resumes implement the effect ledger: an effect *)
(* is announced durably before it is performed, performed at most once, and *)
(* never passed over by a process that goes on.                            *)
THEOREM LedgerImplemented == RecoverySpec => ImplementsLedger
<1>1. RecoveryInit => Ledger!Init
  BY DEF RecoveryInit, Init, Ledger!Init, InDoubt
<1> QED
  BY <1>1, RecoveryInvariant, LedgerStep, PTL DEF RecoverySpec, ImplementsLedger, Ledger!Spec
=============================================================================
