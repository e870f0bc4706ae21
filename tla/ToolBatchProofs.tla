--------------------------- MODULE ToolBatchProofs ---------------------------
(***************************************************************************)
(* The safety properties of ToolBatch for every batch size and any number  *)
(* of cancellations.  Drained is not inductive: the batch only waits for   *)
(* `pending', so the first invariant carries that whatever is at work is   *)
(* in `pending' (WorkIsPending).  The others need to know how far the      *)
(* batch has come: pending calls belong to the current group, everything   *)
(* before it has a result, and a cancellation lets no later group begin.   *)
(***************************************************************************)
EXTENDS ToolBatch, FiniteSetTheorems, WellFoundedInduction, TLAPS

PhasesTyped == phase \in [Index -> Phases]
WorkIsPending == \A i \in Index : phase[i] \in Live => i \in pending
GroupOver == pc \in {"group_done", "returned"} => pending = {}
NoneLeft == pc = "raised" => \A i \in pending : phase[i] \in Settled

BatchInv == PhasesTyped /\ WorkIsPending /\ GroupOver /\ NoneLeft

(* A batch starts with every call queued and nothing pending. *)
LEMMA BatchInit == Init => BatchInv
  BY DEF Init, BatchInv, PhasesTyped, WorkIsPending, GroupOver, NoneLeft, Phases, Live, Settled, Index

(* Every step of the batch's own task keeps the invariant. *)
LEMMA BatchTaskKeeps == BatchInv /\ BatchStep => BatchInv'
<1> SUFFICES ASSUME BatchInv, BatchStep PROVE BatchInv'
  OBVIOUS
<1> USE DEF BatchInv, PhasesTyped, WorkIsPending, GroupOver, NoneLeft
<1>1. CASE FillSlots
  BY <1>1 DEF FillSlots, Phases, Live, Settled
<1>2. CASE NextGroup
  BY <1>2 DEF NextGroup
<1>3. CASE Collect
  <2>1. \A i \in Completed : phase[i] \notin Live
    BY DEF Completed, Settled, Live
  <2> QED
    BY <1>3, <2>1 DEF Collect, Completed
<1>4. CASE CancelPending
  <2>1. PhasesTyped'
    BY <1>4 DEF CancelPending, CancelAll, Hit, Phases, Live, Settled
  <2>2. \A i \in Index : phase'[i] \in Live => phase[i] \in Live
    BY <1>4 DEF CancelPending, CancelAll, InCleanup, Hit, Live, Phases, Settled
  <2> QED
    BY <1>4, <2>1, <2>2 DEF CancelPending
<1>5. CASE EndDrain
  BY <1>5 DEF EndDrain, Draining
<1> QED
  BY <1>1, <1>2, <1>3, <1>4, <1>5 DEF BatchStep

(* A cancellation by the caller keeps it: it starts no call, and the tasks *)
(* it reaches stay pending.                                                *)
LEMMA CancelKeeps == BatchInv /\ CancelBatch => BatchInv'
<1> SUFFICES ASSUME BatchInv, CancelBatch PROVE BatchInv'
  OBVIOUS
<1> USE DEF BatchInv, PhasesTyped, WorkIsPending, GroupOver, NoneLeft
<1>1. CASE CancelWait
  BY <1>1 DEF CancelWait
<1>2. CASE CancelDrain
  BY <1>2 DEF CancelDrain
<1>3. CASE CancelSerial
  <2>1. PhasesTyped'
    BY <1>3 DEF CancelSerial, CancelAll, Hit, Phases, Live, Settled
  <2>2. \A i \in Index : phase'[i] \in Live => phase[i] \in Live
    BY <1>3 DEF CancelSerial, CancelAll, InCleanup, Hit, Live, Phases, Settled
  <2> QED
    BY <1>3, <2>1, <2>2 DEF CancelSerial, Waiting
<1> QED
  BY <1>1, <1>2, <1>3 DEF CancelBatch

(* So does a dispatch: it moves only from a live phase, of a pending call. *)
LEMMA DispatchKeeps ==
  ASSUME NEW i \in Index, BatchInv, DispatchStep(i)
  PROVE  BatchInv'
<1> USE DEF BatchInv, PhasesTyped, WorkIsPending, GroupOver, NoneLeft
<1>1. PICK from \in Live, to \in Phases : Becomes(i, from, to)
  BY DEF DispatchStep, Begin, StartThread, Finish, TimeOut, Retain, CleanUp, Becomes, Live, Phases, Settled
<1>2. pending' = pending /\ pc' = pc
  BY DEF DispatchStep, Begin, StartThread, Finish, TimeOut, Retain, CleanUp
<1>3. i \in pending /\ phase[i] \notin Settled
  BY <1>1 DEF Becomes, Live, Settled
<1>4. PhasesTyped' /\ WorkIsPending'
  BY <1>1, <1>2, <1>3 DEF Becomes
<1>5. pc # "raised"
  BY <1>3
<1> QED
  BY <1>2, <1>4, <1>5

(* The invariant holds in every reachable state. *)
THEOREM BatchInvariant == Spec => []BatchInv
<1>1. BatchInv /\ [Next]_vars => BatchInv'
  <2> SUFFICES ASSUME BatchInv, [Next]_vars PROVE BatchInv'
    OBVIOUS
  <2>1. CASE BatchStep
    BY <2>1, BatchTaskKeeps
  <2>2. CASE CancelBatch
    BY <2>2, CancelKeeps
  <2>3. CASE SetToken
    BY <2>3 DEF SetToken, BatchInv, PhasesTyped, WorkIsPending, GroupOver, NoneLeft
  <2>4. ASSUME NEW i \in Index, DispatchStep(i) PROVE BatchInv'
    BY <2>4, DispatchKeeps
  <2>5. ASSUME NEW i \in Index, OrphanEnds(i) PROVE BatchInv'
    BY <2>5 DEF OrphanEnds, BatchInv, PhasesTyped, WorkIsPending, GroupOver, NoneLeft
  <2>6. CASE UNCHANGED vars
    BY <2>6 DEF vars, batchVars, BatchInv, PhasesTyped, WorkIsPending, GroupOver, NoneLeft
  <2> QED
    BY <2>1, <2>2, <2>3, <2>4, <2>5, <2>6 DEF Next
<1> QED
  BY BatchInit, <1>1, PTL DEF Spec

(* No batch ends while a dispatch it started is at work, whatever the      *)
(* number of calls, their grouping and the cancellations.                  *)
THEOREM DrainedSafe == Spec => []Drained
<1>1. BatchInv => Drained
  BY DEF BatchInv, WorkIsPending, GroupOver, NoneLeft, Drained, Ended, Active, Live, Settled
<1> QED
  BY BatchInvariant, <1>1, PTL

-----------------------------------------------------------------------------
(***************************************************************************)
(* How far the batch has come.                                             *)
(***************************************************************************)
OnItsWay == {"fill", "wait", "group_done", "returned"}
BetweenWaits == {"fill", "group_done", "returned"}
Lost == {i \in Index : phase[i] \in {"failed", "dropped"}}

PlacesTyped ==
  /\ safe \subseteq Index /\ limit \in Index
  /\ pc \in OnItsWay \cup {"cancel_pending", "drain", "raised"}
  /\ first \in Index /\ next \in 1..(Size + 1)
  /\ cancels \in Nat /\ kept \in Nat

(* The current group begins at `first', and only its calls are pending. *)
GroupBegins == first = 1 \/ first \notin safe \/ first - 1 \notin safe
InGroupOnly ==
  /\ first <= next /\ next <= LastOf(first) + 1
  /\ pending \subseteq first..(next - 1)
SlotsKept == Cardinality(pending) <= limit

(* Every call before `next' has its result or is pending. *)
ResultsSoFar ==
  /\ pc \in OnItsWay => results = (1..(next - 1)) \ pending
  /\ pc = "group_done" => next = LastOf(first) + 1
  /\ pc = "returned" => next = Size + 1
  /\ pc = "wait" => pending # {}

(* Whatever went wrong is pending, or has ended the normal course. *)
NothingWrongBehind ==
  /\ pc \in BetweenWaits => cancels = 0 /\ Lost = {}
  /\ pc = "wait" => Lost \subseteq pending
  /\ pc = "wait" /\ cancels > 0 =>
       Serial /\ pending = {first} /\ phase[first] \in {"cleaning", "retaining", "dropped"}

FirstKept ==
  /\ kept = 0 <=> cancels = 0
  /\ ~Serial /\ cancels > 0 => kept = 1
  /\ pc = "raised" => raised = kept

CleanupsOfGroup ==
  /\ ~Serial /\ pc \notin {"drain", "raised"} => \A i \in Index : phase[i] # "cleaning"
  /\ CleanupUninterrupted

CourseInv ==
  /\ PlacesTyped /\ GroupBegins /\ InGroupOnly /\ SlotsKept /\ ResultsSoFar
  /\ NothingWrongBehind /\ FirstKept /\ CleanupsOfGroup

(* A group ends inside the batch; one of several calls is all safe, and    *)
(* the call after it is not.  The last call of the group is the least one  *)
(* whose successor is not safe.                                            *)
LEMMA LastOfGroup ==
  ASSUME safe \subseteq Index, NEW lo \in Index
  PROVE  /\ LastOf(lo) \in lo..Size
         /\ lo \notin safe => LastOf(lo) = lo
         /\ lo \in safe => lo..LastOf(lo) \subseteq safe /\ LastOf(lo) + 1 \notin safe
<1>1. CASE lo \notin safe
  BY <1>1, SizeAssumption DEF LastOf, Index
<1>2. CASE lo \in safe
  <2> DEFINE ends == {h \in lo..Size : h + 1 \notin safe}
  <2>1. Size \in ends
    BY SizeAssumption DEF Index
  <2>2. PICK hi \in ends : \A h \in ends : ~(h < hi)
    <3>1. ends \subseteq Nat /\ ends # {}
      BY <2>1 DEF Index
    <3>2. PICK hi \in ends : \A h \in ends : <<h, hi>> \notin OpToRel(<, Nat)
      BY <3>1, WFMin, NatLessThanWellFounded, Zenon
    <3> QED
      BY <3>1, <3>2 DEF OpToRel
  <2>3. lo..hi \subseteq safe
    <3> SUFFICES ASSUME NEW j \in lo..hi, j \notin safe PROVE FALSE
      OBVIOUS
    <3>1. j - 1 \in ends
      BY <1>2, SizeAssumption DEF Index
    <3> QED
      BY <2>2, <3>1 DEF Index
  <2>4. /\ LastOf(lo) \in lo..Size
        /\ lo..LastOf(lo) \subseteq safe
        /\ LastOf(lo) + 1 \notin safe
    BY <1>2, <2>2, <2>3 DEF LastOf
  <2> QED
    BY <1>2, <2>4
<1> QED
  BY <1>1, <1>2

(* The grouping is fixed for the whole batch. *)
LEMMA GroupingFixed ==
  ASSUME safe' = safe
  PROVE  /\ \A lo : LastOf(lo)' = LastOf(lo)
         /\ \A i : InGroup(i)' <=> InGroup(i)
         /\ LastOf(first') = LastOf(first)'
  BY DEF LastOf, InGroup

(* A call awaited in place belongs to no group of several calls: a larger  *)
(* group that held it would have begun before it, on a safe call.          *)
LEMMA SerialIsAlone ==
  ASSUME PlacesTyped, GroupBegins, Serial
  PROVE  ~InGroup(first)
<1> USE DEF PlacesTyped, Index
<1> SUFFICES ASSUME NEW lo \in Index, LastOf(lo) > lo, first \in lo..LastOf(lo) PROVE FALSE
  BY DEF InGroup
<1>1. lo \in safe /\ lo..LastOf(lo) \subseteq safe /\ LastOf(lo) \in lo..Size
  BY LastOfGroup, SizeAssumption
<1>2. first \in safe /\ first + 1 \notin safe
  BY <1>1, LastOfGroup DEF Serial
<1>3. CASE first = lo
  BY <1>3 DEF Serial
<1>4. CASE first # lo
  <2>1. first - 1 \in lo..LastOf(lo) /\ first # 1
    BY <1>1, <1>4, SizeAssumption
  <2> QED
    BY <1>1, <1>2, <2>1 DEF GroupBegins
<1> QED
  BY <1>3, <1>4

(* The calls of the batch are finitely many, and so are those pending. *)
LEMMA IndexFinite == IsFiniteSet(Index) /\ \A S \in SUBSET Index : IsFiniteSet(S)
<1>1. IsFiniteSet(1..Size)
  BY FS_Interval, SizeAssumption
<1> QED
  BY <1>1, FS_Subset DEF Index

LEMMA CourseInit == Init => CourseInv
<1> SUFFICES ASSUME Init PROVE CourseInv
  OBVIOUS
<1> USE DEF Init
<1>1. safe \subseteq Index /\ 1 \in Index /\ LastOf(1) \in 1..Size
  BY LastOfGroup, SizeAssumption DEF Index
<1>2. PlacesTyped /\ GroupBegins
  BY <1>1, SizeAssumption DEF PlacesTyped, GroupBegins, OnItsWay, Index
<1>3. InGroupOnly
  BY <1>1, SizeAssumption DEF InGroupOnly
<1>4. SlotsKept
  BY FS_EmptySet DEF SlotsKept, Index
<1>5. ResultsSoFar /\ NothingWrongBehind
  BY DEF ResultsSoFar, NothingWrongBehind, BetweenWaits, Lost, OnItsWay
<1>6. FirstKept /\ CleanupsOfGroup
  BY DEF FirstKept, CleanupsOfGroup, CleanupUninterrupted
<1> QED
  BY <1>2, <1>3, <1>4, <1>5, <1>6 DEF CourseInv

(* Filling: the slots that are free are given to the next calls of the     *)
(* group, never more of them, and nothing is filled only when none is left. *)
LEMMA FillCourse == CourseInv /\ FillSlots => CourseInv'
<1> SUFFICES ASSUME CourseInv, FillSlots PROVE CourseInv'
  OBVIOUS
<1> DEFINE stop == IF next + FreeSlots <= LastOf(first) + 1 THEN next + FreeSlots ELSE LastOf(first) + 1
           filled == next..(stop - 1)
<1>1. /\ PlacesTyped /\ GroupBegins /\ InGroupOnly /\ SlotsKept /\ ResultsSoFar
      /\ NothingWrongBehind /\ FirstKept /\ CleanupsOfGroup
  BY DEF CourseInv
<1>2. LastOf(first) \in first..Size /\ first \in 1..Size /\ next \in first..(LastOf(first) + 1)
      /\ Size \in Nat
  BY <1>1, LastOfGroup, SizeAssumption DEF PlacesTyped, InGroupOnly, Index
<1>3. /\ pc = "fill" /\ safe' = safe /\ limit' = limit /\ first' = first /\ results' = results
      /\ cancels' = cancels /\ kept' = kept /\ raised' = raised /\ struck' = struck
      /\ pending' = pending \cup filled /\ next' = stop
      /\ pc' = (IF pending' = {} THEN "group_done" ELSE "wait")
      /\ phase' = [i \in Index |-> IF i \in filled THEN "ready" ELSE phase[i]]
  BY DEF FillSlots, batchVars
<1>4. LastOf(first)' = LastOf(first) /\ (\A i : InGroup(i)' <=> InGroup(i)) /\ (Serial' <=> Serial)
  BY <1>3, GroupingFixed DEF Serial
<1>5. IsFiniteSet(pending) /\ Cardinality(pending) \in 0..limit /\ limit \in 1..Size
  <2>1. pending \subseteq Index
    BY <1>1, <1>2 DEF InGroupOnly, Index
  <2>2. IsFiniteSet(pending) /\ Cardinality(pending) \in Nat
    BY <2>1, IndexFinite, FS_CardinalityType
  <2> QED
    BY <1>1, <2>2 DEF SlotsKept, PlacesTyped, Index
<1>6. /\ FreeSlots \in Nat
      /\ Serial => FreeSlots = 1
      /\ ~Serial => FreeSlots = limit - Cardinality(pending)
  BY <1>5 DEF FreeSlots
<1>7. /\ stop \in next..(LastOf(first) + 1)
      /\ stop <= next + FreeSlots
  <2> QED
    BY <1>2, <1>6
<1>8. PlacesTyped' /\ GroupBegins'
  <2> HIDE DEF stop, filled
  <2> QED
    BY <1>1, <1>2, <1>3, <1>7 DEF PlacesTyped, GroupBegins, OnItsWay, Index
<1>9. InGroupOnly'
  <2> HIDE DEF stop
  <2> QED
    BY <1>1, <1>2, <1>3, <1>4, <1>7 DEF InGroupOnly
<1>10. SlotsKept'
  <2>1. CASE Serial
    <3>1. pending' \subseteq {first}
      BY <1>2, <1>3, <1>9, <1>7, <1>4, <2>1 DEF InGroupOnly, Serial
    <3>2. IsFiniteSet({first}) /\ Cardinality({first}) = 1
      BY FS_Singleton
    <3>3. Cardinality(pending') <= 1
      BY <3>1, <3>2, FS_Subset
    <3>4. Cardinality(pending') \in Nat
      BY <3>1, <3>2, FS_Subset, FS_CardinalityType
    <3> QED
      BY <1>3, <1>5, <3>3, <3>4 DEF SlotsKept
  <2>2. CASE ~Serial
    <3>1. IsFiniteSet(filled) /\ Cardinality(filled) = stop - next
      <4> HIDE DEF stop
      <4>1. stop \in Nat /\ next \in Nat /\ next <= stop
        BY <1>2, <1>7
      <4>2. next \in Int /\ stop - 1 \in Int
        BY <4>1
      <4>3. /\ IsFiniteSet(next..(stop - 1))
            /\ Cardinality(next..(stop - 1))
                 = IF next > stop - 1 THEN 0 ELSE (stop - 1) - next + 1
        BY ONLY <4>2, FS_Interval
      <4>4. Cardinality(next..(stop - 1)) = stop - next
        BY <4>1, <4>3
      <4> QED
        BY <4>3, <4>4
    <3>2. Cardinality(pending \cup filled) <= Cardinality(pending) + Cardinality(filled)
      <4> HIDE DEF filled
      <4>1. /\ IsFiniteSet(pending \cap filled)
            /\ Cardinality(pending \cup filled)
                 = Cardinality(pending) + Cardinality(filled) - Cardinality(pending \cap filled)
        BY <1>5, <3>1, FS_Union, FS_Intersection
      <4>2. /\ Cardinality(pending) \in Nat /\ Cardinality(filled) \in Nat
            /\ Cardinality(pending \cap filled) \in Nat
        BY <4>1, <1>5, <3>1, FS_CardinalityType
      <4> QED
        BY <4>1, <4>2
    <3>3. Cardinality(pending \cup filled) \in Nat
      BY <1>5, <3>1, FS_Union, FS_CardinalityType
    <3> HIDE DEF filled, stop
    <3> QED
      BY <1>2, <1>3, <1>5, <1>6, <1>7, <2>2, <3>1, <3>2, <3>3 DEF SlotsKept
  <2> QED
    BY <2>1, <2>2
<1>11. ResultsSoFar'
  <2>1. pending' = {} => next' = LastOf(first) + 1
    <3> SUFFICES ASSUME pending' = {} PROVE stop = LastOf(first) + 1
      BY <1>3
    <3>1. pending = {} /\ filled = {}
      BY <1>3
    <3>2. Cardinality(pending) = 0
      BY <3>1, FS_EmptySet
    <3>3. FreeSlots >= 1
      BY <1>5, <1>6, <3>2
    <3>4. stop = next
      <4> QED
        BY <1>2, <1>6, <1>7, <3>1
    <3> QED
      BY <1>2, <1>6, <3>3, <3>4
  <2>2. results' = (1..(next' - 1)) \ pending'
    <3> HIDE DEF stop
    <3> QED
      BY <1>1, <1>2, <1>3, <1>7 DEF ResultsSoFar, InGroupOnly, OnItsWay
  <2> QED
    BY <1>3, <1>4, <2>1, <2>2 DEF ResultsSoFar
<1>12. NothingWrongBehind'
  <2>1. Lost' = {} /\ cancels' = 0
    BY <1>1, <1>3 DEF NothingWrongBehind, BetweenWaits, Lost
  <2> QED
    BY <2>1 DEF NothingWrongBehind
<1>13. FirstKept' /\ CleanupsOfGroup'
  <2>1. FirstKept'
    BY <1>1, <1>3, <1>4 DEF FirstKept
  <2>2. CleanupUninterrupted'
    BY <1>1, <1>3, <1>4 DEF CleanupsOfGroup, CleanupUninterrupted
  <2> QED
    BY <1>1, <1>3, <1>4, <2>1, <2>2 DEF CleanupsOfGroup
<1> QED
  BY <1>8, <1>9, <1>10, <1>11, <1>12, <1>13 DEF CourseInv

(* A group is over once all its calls have their results: the next one     *)
(* begins after it, or the batch returns.                                  *)
LEMMA NextGroupCourse == BatchInv /\ CourseInv /\ NextGroup => CourseInv'
<1> SUFFICES ASSUME BatchInv, CourseInv, NextGroup PROVE CourseInv'
  OBVIOUS
<1>1. /\ PlacesTyped /\ GroupBegins /\ InGroupOnly /\ SlotsKept /\ ResultsSoFar
      /\ NothingWrongBehind /\ FirstKept /\ CleanupsOfGroup
  BY DEF CourseInv
<1>2. /\ LastOf(first) \in first..Size /\ first \in 1..Size /\ Size \in Nat
      /\ first \in safe => LastOf(first) + 1 \notin safe
  BY <1>1, LastOfGroup, SizeAssumption DEF PlacesTyped, Index
<1>3. /\ pc = "group_done" /\ safe' = safe /\ limit' = limit /\ results' = results
      /\ cancels' = cancels /\ kept' = kept /\ raised' = raised /\ struck' = struck
      /\ pending' = pending /\ phase' = phase
  BY DEF NextGroup, batchVars
<1>5. \A i : InGroup(i)' <=> InGroup(i)
  BY <1>3, GroupingFixed
<1>6. pending = {} /\ next = LastOf(first) + 1 /\ cancels = 0 /\ kept = 0 /\ Lost = {}
  BY <1>1, <1>3 DEF BatchInv, GroupOver, ResultsSoFar, NothingWrongBehind, BetweenWaits,
                    FirstKept
<1>7. \A i \in Index : phase[i] # "cleaning"
  BY <1>6 DEF BatchInv, WorkIsPending, Live
<1>8. /\ SlotsKept' /\ NothingWrongBehind' /\ FirstKept' /\ CleanupsOfGroup'
  <2>1. SlotsKept'
    BY <1>1, <1>3 DEF SlotsKept
  <2>2. pc' \in BetweenWaits
    BY DEF NextGroup, BetweenWaits
  <2>3. NothingWrongBehind'
    BY <1>3, <1>6, <2>2 DEF NothingWrongBehind, BetweenWaits, Lost
  <2>4. FirstKept'
    BY <1>3, <1>6, <2>2 DEF FirstKept, BetweenWaits
  <2>5. CleanupsOfGroup'
    BY <1>1, <1>3, <1>5, <1>7 DEF CleanupsOfGroup, CleanupUninterrupted
  <2> QED
    BY <2>1, <2>3, <2>4, <2>5
<1>9. CASE LastOf(first) = Size
  <2>1. pc' = "returned" /\ first' = first /\ next' = next
    BY <1>9 DEF NextGroup
  <2>2. PlacesTyped' /\ GroupBegins'
    BY <1>1, <1>3, <2>1 DEF PlacesTyped, GroupBegins, OnItsWay
  <2>3. LastOf(first)' = LastOf(first)
    BY <1>3, <2>1, GroupingFixed
  <2>4. InGroupOnly'
    BY <1>1, <1>3, <2>1, <2>3 DEF InGroupOnly
  <2>5. ResultsSoFar'
    BY <1>1, <1>3, <1>6, <1>9, <2>1 DEF ResultsSoFar, OnItsWay
  <2> QED
    BY <1>8, <2>2, <2>4, <2>5 DEF CourseInv
<1>10. CASE LastOf(first) # Size
  <2>1. pc' = "fill" /\ first' = LastOf(first) + 1 /\ next' = first'
    BY <1>10 DEF NextGroup
  <2>2. first' \in 1..Size /\ first' - 1 = LastOf(first)
    BY <1>2, <1>10, <2>1
  <2>3. PlacesTyped'
    BY <1>1, <1>2, <1>3, <2>1, <2>2 DEF PlacesTyped, OnItsWay, Index
  <2>4. GroupBegins'
    <3>1. CASE first \in safe
      BY <1>2, <1>3, <2>1, <3>1 DEF GroupBegins
    <3>2. CASE first \notin safe
      <4>1. LastOf(first) = first
        BY <1>1, <3>2, LastOfGroup DEF PlacesTyped
      <4> QED
        BY <1>2, <1>3, <2>1, <2>2, <3>2, <4>1 DEF GroupBegins
    <3> QED
      BY <3>1, <3>2
  <2>5. LastOf(first') \in first'..Size
    BY <1>1, <2>2, LastOfGroup DEF PlacesTyped, Index
  <2>6. LastOf(first)' = LastOf(first')
    BY <1>3, GroupingFixed
  <2>7. InGroupOnly'
    BY <1>2, <1>3, <1>6, <2>1, <2>2, <2>5, <2>6 DEF InGroupOnly
  <2>8. ResultsSoFar'
    BY <1>1, <1>3, <1>6, <2>1 DEF ResultsSoFar, OnItsWay
  <2> QED
    BY <1>8, <2>3, <2>4, <2>7, <2>8 DEF CourseInv
<1> QED
  BY <1>9, <1>10

(* The steps that leave the batch's place in its calls alone keep what     *)
(* depends on that place only.                                             *)
LEMMA SamePlace ==
  ASSUME CourseInv, UNCHANGED <<safe, limit, first, next>>, pending' \subseteq pending
  PROVE  GroupBegins' /\ InGroupOnly' /\ SlotsKept' /\ (Serial' <=> Serial)
         /\ (\A i : InGroup(i)' <=> InGroup(i)) /\ LastOf(first)' = LastOf(first)
<1>1. /\ PlacesTyped /\ GroupBegins /\ InGroupOnly /\ SlotsKept
  BY DEF CourseInv
<1>2. LastOf(first)' = LastOf(first) /\ (\A i : InGroup(i)' <=> InGroup(i))
  BY GroupingFixed
<1>3. GroupBegins' /\ InGroupOnly' /\ (Serial' <=> Serial)
  BY <1>1, <1>2 DEF GroupBegins, InGroupOnly, Serial
<1>4. LastOf(first) \in 1..Size /\ next \in Nat
  BY <1>1, LastOfGroup, SizeAssumption DEF PlacesTyped, Index
<1>5. pending \subseteq Index
  BY <1>1, <1>4, SizeAssumption DEF PlacesTyped, InGroupOnly, Index
<1>6. /\ Cardinality(pending') <= Cardinality(pending)
      /\ Cardinality(pending') \in Nat /\ Cardinality(pending) \in Nat
  BY <1>5, IndexFinite, FS_Subset, FS_CardinalityType
<1>7. SlotsKept'
  BY <1>1, <1>6 DEF SlotsKept, PlacesTyped, Index
<1> QED
  BY <1>2, <1>3, <1>7

(* Collecting: results join those before them; after a failure the normal  *)
(* course is over.  A cancelled call awaited in place has no result.       *)
LEMMA CollectCourse == BatchInv /\ CourseInv /\ Collect => CourseInv'
<1> SUFFICES ASSUME BatchInv, CourseInv, Collect PROVE CourseInv'
  OBVIOUS
<1>1. /\ PlacesTyped /\ GroupBegins /\ InGroupOnly /\ SlotsKept /\ ResultsSoFar
      /\ NothingWrongBehind /\ FirstKept /\ CleanupsOfGroup
  BY DEF CourseInv
<1>2. /\ pc = "wait" /\ UNCHANGED <<safe, limit, first, next, struck, cancels, kept, raised>>
      /\ phase' = phase /\ pending' \subseteq pending
  BY DEF Collect, Waiting, batchVars
<1>3. /\ GroupBegins' /\ InGroupOnly' /\ SlotsKept' /\ (Serial' <=> Serial)
      /\ (\A i : InGroup(i)' <=> InGroup(i))
  BY <1>2, SamePlace
<1>4. PlacesTyped'
  BY <1>1, <1>2 DEF PlacesTyped, Collect, OnItsWay
<1>5. FirstKept' /\ CleanupsOfGroup'
  <2>1. pc' \in {"fill", "cancel_pending"}
    BY DEF Collect
  <2> QED
    BY <1>1, <1>2, <1>3, <2>1 DEF FirstKept, CleanupsOfGroup, CleanupUninterrupted
<1>6. CASE pc' = "fill"
  <2>1. /\ \A i \in Completed : phase[i] = "done"
        /\ results' = results \cup Completed /\ pending' = pending \ Completed
        /\ Completed # {}
    BY <1>6 DEF Collect
  <2>2. cancels = 0
    <3> SUFFICES ASSUME cancels > 0 PROVE FALSE
      BY <1>1 DEF PlacesTyped
    <3>1. pending = {first} /\ phase[first] # "done"
      BY <1>1, <1>2 DEF NothingWrongBehind
    <3> QED
      BY <2>1, <3>1 DEF Completed
  <2>3. Lost' = {}
    <3>1. \A i \in Lost : i \in Completed
      BY <1>1, <1>2 DEF NothingWrongBehind, Lost, Completed, Settled
    <3> QED
      BY <1>2, <2>1, <3>1 DEF Lost
  <2>4. NothingWrongBehind'
    BY <1>2, <1>6, <2>2, <2>3 DEF NothingWrongBehind
  <2>5. results = (1..(next - 1)) \ pending /\ pending \subseteq 1..(next - 1)
    BY <1>1, <1>2, SizeAssumption DEF ResultsSoFar, OnItsWay, InGroupOnly, PlacesTyped, Index
  <2>6. results' = (1..(next' - 1)) \ pending'
    BY <1>2, <2>1, <2>5 DEF Completed
  <2>7. ResultsSoFar'
    BY <1>6, <2>6 DEF ResultsSoFar
  <2> QED
    BY <1>3, <1>4, <1>5, <2>4, <2>7 DEF CourseInv
<1>7. CASE pc' = "cancel_pending"
  <2>1. NothingWrongBehind' /\ ResultsSoFar'
    BY <1>7 DEF NothingWrongBehind, BetweenWaits, ResultsSoFar, OnItsWay
  <2> QED
    BY <1>3, <1>4, <1>5, <2>1 DEF CourseInv
<1> QED
  BY <1>6, <1>7 DEF Collect

(* The cancellation of the pending tasks cuts no cleanup of a group short: *)
(* none of its calls was cleaning up, for none was cancelled before.       *)
LEMMA CancelPendingCourse == CourseInv /\ CancelPending => CourseInv'
<1> SUFFICES ASSUME CourseInv, CancelPending PROVE CourseInv'
  OBVIOUS
<1>1. /\ PlacesTyped /\ GroupBegins /\ InGroupOnly /\ SlotsKept /\ ResultsSoFar
      /\ NothingWrongBehind /\ FirstKept /\ CleanupsOfGroup
  BY DEF CourseInv
<1>2. /\ pc = "cancel_pending" /\ pc' = "drain"
      /\ UNCHANGED <<safe, limit, first, next, pending, cancels, kept, raised>>
      /\ \A hit \in struck' : hit \in struck \/ \E i \in pending : hit = <<i, phase[i]>>
  BY DEF CancelPending, CancelAll, InCleanup, batchVars
<1>3. /\ GroupBegins' /\ InGroupOnly' /\ SlotsKept' /\ (Serial' <=> Serial)
      /\ (\A i : InGroup(i)' <=> InGroup(i))
  BY <1>2, SamePlace
<1>4. PlacesTyped' /\ ResultsSoFar' /\ NothingWrongBehind' /\ FirstKept'
  BY <1>1, <1>2, <1>3 DEF PlacesTyped, OnItsWay, ResultsSoFar, NothingWrongBehind,
                          BetweenWaits, FirstKept
<1>5. \A i \in pending : phase[i] = "cleaning" => ~InGroup(i)
  <2>1. LastOf(first) \in 1..Size /\ first \in 1..Size /\ next \in Nat /\ Size \in Nat
    BY <1>1, LastOfGroup, SizeAssumption DEF PlacesTyped, Index
  <2>2. CASE Serial
    <3>1. pending \subseteq {first}
      BY <1>1, <2>1, <2>2, SizeAssumption DEF InGroupOnly, Serial
    <3> QED
      BY <1>1, <2>2, <3>1, SerialIsAlone
  <2>3. CASE ~Serial
    <3>1. pending \subseteq Index
      BY <1>1, <2>1, SizeAssumption DEF InGroupOnly, Index
    <3> QED
      BY <1>1, <1>2, <2>3, <3>1 DEF CleanupsOfGroup
  <2> QED
    BY <2>2, <2>3
<1>6. \A i \in Index : <<i, "cleaning">> \in struck' => ~InGroup(i)
  BY <1>1, <1>2, <1>5 DEF CleanupsOfGroup, CleanupUninterrupted
<1>7. CleanupsOfGroup'
  BY <1>2, <1>3, <1>6 DEF CleanupsOfGroup, CleanupUninterrupted
<1> QED
  BY <1>3, <1>4, <1>7 DEF CourseInv

LEMMA EndDrainCourse == CourseInv /\ EndDrain => CourseInv'
<1> SUFFICES ASSUME CourseInv, EndDrain PROVE CourseInv'
  OBVIOUS
<1>1. /\ PlacesTyped /\ GroupBegins /\ InGroupOnly /\ SlotsKept /\ ResultsSoFar
      /\ NothingWrongBehind /\ FirstKept /\ CleanupsOfGroup
  BY DEF CourseInv
<1>2. /\ pc = "drain" /\ pc' = "raised" /\ raised' = kept
      /\ UNCHANGED <<safe, limit, first, next, pending, phase, struck, cancels, kept>>
  BY DEF EndDrain, Draining, batchVars
<1>3. /\ GroupBegins' /\ InGroupOnly' /\ SlotsKept' /\ (Serial' <=> Serial)
      /\ (\A i : InGroup(i)' <=> InGroup(i))
  BY <1>2, SamePlace
<1> QED
  BY <1>1, <1>2, <1>3 DEF CourseInv, PlacesTyped, OnItsWay, ResultsSoFar, NothingWrongBehind,
     BetweenWaits, FirstKept, CleanupsOfGroup, CleanupUninterrupted

(* A cancellation by the caller: the first one is kept, and one delivered  *)
(* to a call awaited in place leaves that call without a result.           *)
LEMMA CancelCourse == CourseInv /\ CancelBatch => CourseInv'
<1> SUFFICES ASSUME CourseInv, CancelBatch PROVE CourseInv'
  OBVIOUS
<1>1. /\ PlacesTyped /\ GroupBegins /\ InGroupOnly /\ SlotsKept /\ ResultsSoFar
      /\ NothingWrongBehind /\ FirstKept /\ CleanupsOfGroup
  BY DEF CourseInv
<1>2. /\ UNCHANGED <<safe, limit, first, next, pending, results, raised>>
      /\ cancels' = cancels + 1 /\ cancels \in Nat /\ kept \in Nat
  BY <1>1 DEF CancelBatch, CancelWait, CancelDrain, CancelSerial, Cancelled, batchVars,
              PlacesTyped
<1>3. /\ GroupBegins' /\ InGroupOnly' /\ SlotsKept' /\ (Serial' <=> Serial)
      /\ (\A i : InGroup(i)' <=> InGroup(i))
  BY <1>2, SamePlace
<1>4. CASE CancelWait
  <2>1. pc = "wait" /\ ~Serial /\ pc' = "cancel_pending" /\ phase' = phase /\ struck' = struck
    BY <1>4 DEF CancelWait, Waiting
  <2>2. cancels = 0 /\ kept = 0
    BY <1>1, <1>2, <2>1 DEF NothingWrongBehind, FirstKept
  <2>3. cancels' = 1 /\ kept' = 1
    BY <1>2, <1>4, <2>2 DEF CancelWait, Keep
  <2>4. PlacesTyped' /\ ResultsSoFar' /\ NothingWrongBehind' /\ FirstKept'
    BY <1>1, <1>2, <2>1, <2>3 DEF PlacesTyped, OnItsWay, ResultsSoFar, NothingWrongBehind,
                                  BetweenWaits, FirstKept
  <2>5. CleanupsOfGroup'
    BY <1>1, <1>3, <2>1 DEF CleanupsOfGroup, CleanupUninterrupted
  <2> QED
    BY <1>3, <2>4, <2>5 DEF CourseInv
<1>5. CASE CancelDrain
  <2>1. pc = "drain" /\ ~Serial /\ pc' = "drain" /\ struck' = struck
    BY <1>5 DEF CancelDrain, Draining
  <2>2. kept' = 1
    BY <1>1, <1>2, <1>5, <2>1 DEF CancelDrain, Keep, FirstKept
  <2>3. PlacesTyped' /\ ResultsSoFar' /\ NothingWrongBehind' /\ FirstKept'
    BY <1>1, <1>2, <2>1, <2>2 DEF PlacesTyped, OnItsWay, ResultsSoFar, NothingWrongBehind,
                                  BetweenWaits, FirstKept
  <2>4. CleanupsOfGroup'
    BY <1>1, <1>3, <2>1 DEF CleanupsOfGroup, CleanupUninterrupted
  <2> QED
    BY <1>3, <2>3, <2>4 DEF CourseInv
<1>6. CASE CancelSerial
  <2>1. /\ pc = "wait" /\ Serial /\ pc' = "wait" /\ CancelAll(pending)
        /\ \A i \in pending : phase[i] \in Live \ {"ready"}
    BY <1>6 DEF CancelSerial, Waiting
  <2>2. pending = {first} /\ first \in Index
    <3>1. first \in Nat /\ next \in Nat /\ pending # {} /\ first \in Index
      BY <1>1, <2>1, SizeAssumption DEF PlacesTyped, Index, ResultsSoFar
    <3>2. pending \subseteq {first}
      BY <1>1, <2>1, <3>1 DEF InGroupOnly, Serial
    <3> QED
      BY <3>1, <3>2
  <2>3. kept' # 0 /\ kept' \in Nat
    BY <1>2, <1>6 DEF CancelSerial, Keep
  <2>4. /\ phase'[first] \in {"cleaning", "retaining", "dropped"}
        /\ \A i \in Index \ {first} : phase'[i] = phase[i]
    BY <2>1, <2>2 DEF CancelAll, InCleanup, Hit, Live
  <2>5. PlacesTyped' /\ ResultsSoFar'
    BY <1>1, <1>2, <1>3, <2>1, <2>3 DEF PlacesTyped, OnItsWay, ResultsSoFar
  <2>6. NothingWrongBehind'
    <3>1. Lost' \subseteq pending'
      BY <1>1, <1>2, <2>1, <2>2, <2>4 DEF NothingWrongBehind, Lost
    <3> QED
      BY <1>2, <1>3, <2>1, <2>2, <2>4, <3>1 DEF NothingWrongBehind, BetweenWaits
  <2>7. FirstKept'
    BY <1>2, <1>3, <2>1, <2>3 DEF FirstKept
  <2>8. CleanupsOfGroup'
    <3>1. \A i \in Index : <<i, "cleaning">> \in struck' => <<i, "cleaning">> \in struck \/ i = first
      BY <2>1, <2>2 DEF CancelAll, InCleanup
    <3>2. ~InGroup(first)
      BY <1>1, <2>1, SerialIsAlone
    <3> QED
      BY <1>1, <1>3, <2>1, <3>1, <3>2 DEF CleanupsOfGroup, CleanupUninterrupted
  <2> QED
    BY <1>3, <2>5, <2>6, <2>7, <2>8 DEF CourseInv
<1> QED
  BY <1>4, <1>5, <1>6 DEF CancelBatch

(* A dispatch moves a pending call, and once it was cancelled where it is  *)
(* awaited in place it can only end without a result.                      *)
LEMMA DispatchCourse ==
  ASSUME NEW i \in Index, BatchInv, CourseInv, DispatchStep(i)
  PROVE  CourseInv'
<1>1. /\ PlacesTyped /\ GroupBegins /\ InGroupOnly /\ SlotsKept /\ ResultsSoFar
      /\ NothingWrongBehind /\ FirstKept /\ CleanupsOfGroup
  BY DEF CourseInv
<1>2. /\ UNCHANGED <<safe, limit, pc, first, next, pending, struck, results, cancels, kept, raised>>
      /\ LoopFree \/ StartThread(i)
  BY DEF DispatchStep, Begin, StartThread, Finish, TimeOut, Retain, CleanUp, batchVars
<1>3. PICK from \in Live, to \in Phases \ {"cleaning"} : Becomes(i, from, to)
  BY DEF DispatchStep, Begin, StartThread, Finish, TimeOut, Retain, CleanUp, Becomes, Live, Phases, Settled
<1>4. /\ i \in pending /\ phase[i] \in Live /\ phase'[i] # "cleaning"
      /\ \A j \in Index \ {i} : phase'[j] = phase[j]
  BY <1>3 DEF Becomes, BatchInv, WorkIsPending, PhasesTyped
<1>5. pc \in BetweenWaits => phase'[i] = "running"
  BY <1>2, <1>3 DEF LoopFree, BetweenWaits, BatchInv, PhasesTyped, WorkIsPending, GroupOver,
                    StartThread, Becomes, Live
<1>6. /\ GroupBegins' /\ InGroupOnly' /\ SlotsKept' /\ (Serial' <=> Serial)
      /\ (\A j : InGroup(j)' <=> InGroup(j)) /\ LastOf(first)' = LastOf(first)
  BY <1>2, SamePlace
<1>7. PlacesTyped' /\ ResultsSoFar' /\ FirstKept'
  BY <1>1, <1>2, <1>6 DEF PlacesTyped, OnItsWay, ResultsSoFar, FirstKept
<1>8. NothingWrongBehind'
  <2>1. pc' \in BetweenWaits => cancels' = 0 /\ Lost' = {}
    BY <1>1, <1>2, <1>4, <1>5 DEF NothingWrongBehind, Lost
  <2>2. pc' = "wait" => Lost' \subseteq pending'
    BY <1>1, <1>2, <1>4 DEF NothingWrongBehind, Lost
  <2>3. ASSUME pc' = "wait", cancels' > 0
        PROVE  /\ Serial' /\ pending' = {first'}
               /\ phase'[first'] \in {"cleaning", "retaining", "dropped"}
    <3>1. /\ Serial /\ pending = {first} /\ phase[first] \in {"cleaning", "retaining", "dropped"}
          /\ pc = "wait" /\ kept # 0
      BY <1>1, <1>2, <2>3 DEF NothingWrongBehind, FirstKept, PlacesTyped
    <3>2. i = first /\ Reached(i) /\ phase[i] \in {"cleaning", "retaining"}
      BY <1>4, <3>1 DEF Reached, Live
    <3>3. phase'[i] = "dropped"
      BY <3>2, <1>4 DEF DispatchStep, Begin, StartThread, Finish, TimeOut, Retain, CleanUp,
                        Becomes, BatchInv, PhasesTyped
    <3> QED
      BY <1>2, <1>6, <3>1, <3>2, <3>3
  <2> QED
    BY <2>1, <2>2, <2>3 DEF NothingWrongBehind
<1>9. CleanupsOfGroup'
  BY <1>1, <1>2, <1>4, <1>6 DEF CleanupsOfGroup, CleanupUninterrupted
<1> QED
  BY <1>6, <1>7, <1>8, <1>9 DEF CourseInv

(* The steps that touch neither the batch's place nor any dispatch. *)
LEMMA AsideCourse ==
  ASSUME CourseInv,
         UNCHANGED <<safe, limit, pc, first, next, pending, phase, struck, results, cancels,
                     kept, raised>>
  PROVE  CourseInv'
<1>1. /\ GroupBegins' /\ InGroupOnly' /\ SlotsKept' /\ (Serial' <=> Serial)
      /\ (\A i : InGroup(i)' <=> InGroup(i)) /\ LastOf(first)' = LastOf(first)
  BY SamePlace
<1> QED
  BY <1>1 DEF CourseInv, PlacesTyped, ResultsSoFar, NothingWrongBehind, Lost, FirstKept,
              CleanupsOfGroup, CleanupUninterrupted

(* Every step keeps the course of the batch. *)
LEMMA CourseStep == BatchInv /\ CourseInv /\ [Next]_vars => CourseInv'
<1> SUFFICES ASSUME BatchInv, CourseInv, [Next]_vars PROVE CourseInv'
  OBVIOUS
<1>1. CASE BatchStep
  BY <1>1, FillCourse, NextGroupCourse, CollectCourse, CancelPendingCourse, EndDrainCourse
     DEF BatchStep
<1>2. CASE CancelBatch
  BY <1>2, CancelCourse
<1>3. CASE SetToken
  BY <1>3, AsideCourse DEF SetToken, batchVars
<1>4. ASSUME NEW i \in Index, DispatchStep(i) PROVE CourseInv'
  BY <1>4, DispatchCourse
<1>5. ASSUME NEW i \in Index, OrphanEnds(i) PROVE CourseInv'
  BY <1>5, AsideCourse DEF OrphanEnds, batchVars
<1>6. CASE UNCHANGED vars
  BY <1>6, AsideCourse DEF vars, batchVars
<1> QED
  BY <1>1, <1>2, <1>3, <1>4, <1>5, <1>6 DEF Next

(* Both invariants hold in every reachable state, for every size, limit,   *)
(* grouping and number of cancellations.                                   *)
THEOREM CourseInvariant == Spec => [](BatchInv /\ CourseInv)
<1>1. Spec => []BatchInv
  BY BatchInvariant
<1>2. BatchInv /\ CourseInv /\ [Next]_vars => CourseInv'
  BY CourseStep
<1> QED
  BY CourseInit, <1>1, <1>2, PTL DEF Spec

-----------------------------------------------------------------------------
(***************************************************************************)
(* What follows from the course of the batch.                              *)
(***************************************************************************)
(* However often the caller cancels, the cleanup that a cancellation began *)
(* in a call of a group of several is not cut short, whatever the batch,   *)
(* the executor and the number of cancellations.                           *)
THEOREM CleanupSafe == Spec => []CleanupUninterrupted
<1>1. CourseInv => CleanupUninterrupted
  BY DEF CourseInv, CleanupsOfGroup
<1> QED
  BY CourseInvariant, <1>1, PTL

(* A batch that returns has every result and no cancellation behind it;    *)
(* one whose last group was concurrent raises the first cancellation.      *)
THEOREM NothingSwallowedSafe == Spec => []NothingSwallowed
<1>1. BatchInv /\ CourseInv => NothingSwallowed
  <2> SUFFICES ASSUME BatchInv, CourseInv PROVE NothingSwallowed
    OBVIOUS
  <2>1. PlacesTyped /\ ResultsSoFar /\ NothingWrongBehind /\ FirstKept
    BY DEF CourseInv
  <2>2. pc = "returned" => results = Index /\ cancels = 0
    <3> SUFFICES ASSUME pc = "returned" PROVE results = Index /\ cancels = 0
      OBVIOUS
    <3>1. pending = {} /\ next - 1 = Size
      BY <2>1, SizeAssumption DEF BatchInv, GroupOver, ResultsSoFar
    <3>2. results = 1..(next - 1)
      BY <2>1, <3>1 DEF ResultsSoFar, OnItsWay
    <3>3. cancels = 0
      BY <2>1 DEF NothingWrongBehind, BetweenWaits
    <3> QED
      BY <3>1, <3>2, <3>3 DEF Index
  <2>3. pc = "raised" /\ ~Serial => raised = (IF cancels = 0 THEN 0 ELSE 1)
    BY <2>1 DEF FirstKept, PlacesTyped
  <2> QED
    BY <2>2, <2>3 DEF NothingSwallowed
<1> QED
  BY CourseInvariant, <1>1, PTL

(* Calls that are not concurrent-safe are alone, and no more calls are at  *)
(* work than max_concurrent: all that is at work is pending, and pending   *)
(* is part of one group and never larger than the limit.                   *)
THEOREM OverlapSafe == Spec => []OverlapBounded
<1>1. BatchInv /\ CourseInv => OverlapBounded
  <2> SUFFICES ASSUME BatchInv, CourseInv PROVE OverlapBounded
    OBVIOUS
  <2>1. PlacesTyped /\ InGroupOnly /\ SlotsKept
    BY DEF CourseInv
  <2>2. Active \subseteq pending
    BY DEF Active, BatchInv, WorkIsPending
  <2>3. /\ LastOf(first) \in first..Size /\ first \in 1..Size /\ next \in Nat /\ Size \in Nat
        /\ first \notin safe => LastOf(first) = first
        /\ first \in safe => first..LastOf(first) \subseteq safe
    BY <2>1, LastOfGroup, SizeAssumption DEF PlacesTyped, Index
  <2>4. pending \subseteq first..LastOf(first) /\ pending \subseteq Index
    BY <2>1, <2>3 DEF InGroupOnly, Index
  <2>5. Cardinality(Active) <= limit
    <3>1. /\ Cardinality(Active) <= Cardinality(pending)
          /\ Cardinality(Active) \in Nat /\ Cardinality(pending) \in Nat
      BY <2>2, <2>4, IndexFinite, FS_Subset, FS_CardinalityType
    <3> QED
      BY <2>1, <3>1 DEF SlotsKept, PlacesTyped, Index
  <2>6. \A i \in Active \ safe : Active = {i}
    <3> SUFFICES ASSUME NEW i \in Active, i \notin safe PROVE Active = {i}
      OBVIOUS
    <3>1. first \notin safe
      BY <2>2, <2>3, <2>4
    <3>2. pending \subseteq {first}
      BY <2>3, <2>4, <3>1
    <3> QED
      BY <2>2, <3>2
  <2> QED
    BY <2>5, <2>6 DEF OverlapBounded
<1> QED
  BY CourseInvariant, <1>1, PTL

(* Only filling starts a queued call, and the batch fills slots only while *)
(* nothing has failed and nobody has cancelled it.                         *)
THEOREM QueuedStayQueuedSafe == Spec => QueuedStayQueued
<1>1. ASSUME BatchInv, CourseInv, [Next]_vars, NEW i \in Index,
             phase[i] = "queued", phase'[i] # "queued"
      PROVE  kept = 0 /\ \A j \in Index : phase[j] # "failed"
  <2>1. FillSlots
    <3>1. ~\E j \in Index : DispatchStep(j)
      BY <1>1 DEF DispatchStep, Begin, StartThread, Finish, TimeOut, Retain, CleanUp, Becomes,
                  BatchInv, PhasesTyped
    <3>2. ~CancelPending /\ ~CancelSerial
      BY <1>1 DEF CancelPending, CancelSerial, CancelAll, InCleanup, Hit
    <3>3. phase' # phase
      BY <1>1
    <3> QED
      BY <1>1, <3>1, <3>2, <3>3 DEF Next, BatchStep, CancelBatch, NextGroup, Collect, EndDrain,
         CancelWait, CancelDrain, SetToken, OrphanEnds, vars
  <2>2. pc = "fill"
    BY <2>1 DEF FillSlots
  <2>3. NothingWrongBehind /\ FirstKept
    BY <1>1 DEF CourseInv
  <2>4. kept = 0 /\ Lost = {}
    BY <2>2, <2>3 DEF NothingWrongBehind, FirstKept, BetweenWaits
  <2> QED
    BY <2>4 DEF Lost
<1>2. BatchInv /\ CourseInv /\ [Next]_vars =>
        [\A i \in Index :
           phase[i] = "queued" /\ phase'[i] # "queued"
             => kept = 0 /\ \A j \in Index : phase[j] # "failed"]_vars
  BY <1>1
<1> QED
  BY CourseInvariant, <1>2, PTL DEF Spec, QueuedStayQueued
=============================================================================
