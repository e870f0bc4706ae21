------------------------------ MODULE ToolBatch ------------------------------
(***************************************************************************)
(* BaseToolRegistry.async_dispatch_batch (tools.py): the scheduler of one  *)
(* batch of tool calls on an event loop.  The batch's own task fills slots *)
(* and waits; every concurrent call is a task of its own; a synchronous    *)
(* tool body runs in a worker of the loop's default executor, where no     *)
(* cancellation reaches it and where the writes of an external result      *)
(* store run too.  Callers may cancel the batch again and again, and set   *)
(* the cooperative CancelToken.  The event loop is cooperative: while the  *)
(* batch's task runs, nothing else of the loop does.  wait_for is that of  *)
(* every supported Python: up to 3.11 the body it times is a task of its   *)
(* own that a later cancellation abandons, from 3.12 it is awaited in      *)
(* place.  Tools that swallow a CancelledError are left out.               *)
(***************************************************************************)
EXTENDS Naturals, FiniteSets

CONSTANTS
  Size,        \* number of calls in the batch
  Workers,     \* threads of the default executor that this batch may use
  MaxCancels   \* bound: times the caller cancels the batch's task

ASSUME SizeAssumption == Size \in Nat \ {0}
ASSUME WorkersAssumption == Workers \in Nat \ {0}
ASSUME CancelsAssumption == MaxCancels \in Nat

Index == 1..Size

VARIABLES
  safe,      \* calls whose tool is concurrent_safe
  threads,   \* calls whose tool body is synchronous
  limit,     \* max_concurrent
  pc,        \* where the batch's task is
  first,     \* the first call of the current group
  next,      \* the next call of the group that was not started
  pending,   \* calls of the group whose task is in `pending'
  phase,     \* call -> what its dispatch is doing
  orphans,   \* calls whose body, thread or coroutine, runs on with nobody waiting
  struck,    \* <<call, phase>>: a cancellation cut its cleanup in that phase short
  results,   \* calls whose result is recorded
  cancels,   \* cancellations delivered to the batch so far
  kept,      \* `cancelled': which of them is kept, 0 for None
  raised,    \* which of them left the batch, 0 for none
  token      \* the CancelToken is set

batchVars == <<safe, threads, limit>>
vars == <<batchVars, pc, first, next, pending, phase, orphans, struck, results, cancels,
          kept, raised, token>>

Live == {"ready", "submitted", "running", "expiring", "cleaning", "retaining"}
Settled == {"done", "failed", "dropped"}
Phases == {"queued"} \cup Live \cup Settled

(* _partition_calls: consecutive safe calls form one group, any other call *)
(* is a group of its own.  Groups of one call are awaited in place.        *)
LastOf(lo) ==
  IF lo \notin safe THEN lo
  ELSE CHOOSE hi \in lo..Size :
         /\ lo..hi \subseteq safe
         /\ hi + 1 \notin safe

Serial == LastOf(first) = first
Waiting == pc = "wait"
Draining == pc = "drain"

(* The batch's task awaits or has ended: the event loop may run others. *)
LoopFree == pc \notin {"fill", "group_done", "cancel_pending"}

(***************************************************************************)
(* The batch's task.                                                       *)
(***************************************************************************)
(* Mutant: one slot too many. *)
FreeSlotsMutant == limit + 1 - Cardinality(pending)
FreeSlots == IF Serial THEN 1 ELSE limit - Cardinality(pending)

(* Free slots are filled before the task awaits anything. *)
FillSlots ==
  /\ pc = "fill"
  /\ LET stop == IF next + FreeSlots <= LastOf(first) + 1 THEN next + FreeSlots
                 ELSE LastOf(first) + 1
         filled == next..(stop - 1)
     IN /\ pending' = pending \cup filled
        /\ phase' = [i \in Index |-> IF i \in filled THEN "ready" ELSE phase[i]]
        /\ next' = stop
        /\ pc' = (IF pending' = {} THEN "group_done" ELSE "wait")
  /\ UNCHANGED <<batchVars, first, orphans, struck, results, cancels, kept, raised, token>>

NextGroup ==
  /\ pc = "group_done"
  /\ IF LastOf(first) = Size
     THEN pc' = "returned" /\ UNCHANGED <<first, next>>
     ELSE /\ first' = LastOf(first) + 1
          /\ next' = first'
          /\ pc' = "fill"
  /\ UNCHANGED <<batchVars, pending, phase, orphans, struck, results, cancels, kept, raised, token>>

Completed == {i \in pending : phase[i] \in Settled}

(* Mutant: a failed dispatch is collected like a result. *)
CollectMutant ==
  /\ Waiting
  /\ Completed # {}
  /\ results' = results \cup Completed
  /\ pending' = pending \ Completed
  /\ pc' = "fill"
  /\ UNCHANGED <<batchVars, first, next, phase, orphans, struck, cancels, kept, raised, token>>

(* asyncio.wait returned: results go to their slots; an unexpected failure *)
(* of a dispatch leaves the loop with the others still pending.            *)
Collect ==
  /\ Waiting
  /\ Completed # {}
  /\ \/ /\ \A i \in Completed : phase[i] = "done"
        /\ results' = results \cup Completed
        /\ pending' = pending \ Completed
        /\ pc' = "fill"
        /\ UNCHANGED phase
     \/ \E bad \in Completed :
          /\ phase[bad] # "done"
          /\ \E got \in SUBSET {i \in Completed : phase[i] = "done"} :
               results' = results \cup got /\ pending' = pending \ got
          /\ pc' = "cancel_pending"
          /\ UNCHANGED phase
  /\ UNCHANGED <<batchVars, first, next, orphans, struck, cancels, kept, raised, token>>

(* A coroutine sees the cancellation and cleans up; a task or a body that  *)
(* has not begun never begins; a running thread is left alone and its task *)
(* ends at once; a retention write is waited for (_run_persistence).       *)
Hit(i) ==
  IF phase[i] \in {"ready", "submitted"} \/ (phase[i] = "running" /\ i \in threads)
  THEN "dropped"
  ELSE IF phase[i] \in {"running", "expiring"} THEN "cleaning"
  ELSE phase[i]

InCleanup(set) == {i \in set : phase[i] \in {"expiring", "cleaning"}}

(* A call that already cleans up, after its timeout or a cancellation, is  *)
(* struck in its cleanup (Python 3.12 and later, and any call without a    *)
(* timeout), or its dispatch ends at once and the cleanup goes on by       *)
(* itself (Python 3.11, whose wait_for stops waiting for its task).        *)
CancelAll(set) ==
  \E abandoned \in SUBSET InCleanup(set) :
    /\ phase' = [i \in Index |-> IF i \in abandoned THEN "dropped"
                                 ELSE IF i \in set THEN Hit(i) ELSE phase[i]]
    /\ orphans' = orphans \cup abandoned \cup {i \in set \cap threads : phase[i] = "running"}
    /\ struck' = struck \cup {<<i, phase[i]>> : i \in InCleanup(set) \ abandoned}

(* Mutant: the pending tasks are gathered without being cancelled. *)
CancelPendingMutant ==
  /\ pc = "cancel_pending"
  /\ pc' = "drain"
  /\ UNCHANGED <<batchVars, first, next, pending, phase, orphans, struck, results, cancels,
                 kept, raised, token>>

(* finally: every pending task is cancelled once, then gathered. *)
CancelPending ==
  /\ pc = "cancel_pending"
  /\ CancelAll(pending)
  /\ pc' = "drain"
  /\ UNCHANGED <<batchVars, first, next, pending, results, cancels, kept, raised, token>>

(* Mutant: one more cancellation ends the wait for the gathered tasks. *)
EndDrainMutant ==
  /\ Draining
  /\ kept # cancels \/ \A i \in pending : phase[i] \in Settled
  /\ pc' = "raised"
  /\ raised' = kept
  /\ UNCHANGED <<batchVars, first, next, pending, phase, orphans, struck, results, cancels,
                 kept, token>>

(* The gathered tasks have ended: the kept cancellation is raised, or else *)
(* the failure (0) that left the loop.                                     *)
EndDrain ==
  /\ Draining
  /\ \A i \in pending : phase[i] \in Settled
  /\ pc' = "raised"
  /\ raised' = kept
  /\ UNCHANGED <<batchVars, first, next, pending, phase, orphans, struck, results, cancels,
                 kept, token>>

(***************************************************************************)
(* The caller cancels the batch's task where it awaits.                    *)
(***************************************************************************)
(* Mutant: the latest cancellation replaces the one already kept. *)
KeepMutant == kept' = cancels'
Keep == kept' = IF kept = 0 THEN cancels' ELSE kept

Cancelled ==
  /\ cancels < MaxCancels
  /\ cancels' = cancels + 1

CancelWait ==
  /\ Cancelled
  /\ Waiting /\ ~Serial
  /\ Keep
  /\ pc' = "cancel_pending"
  /\ UNCHANGED <<batchVars, first, next, pending, phase, orphans, struck, results, raised, token>>

(* Mutant: the gathered tasks are awaited without a shield. *)
CancelDrainMutant ==
  /\ Cancelled
  /\ Draining /\ ~Serial /\ pending # {}
  /\ Keep
  /\ CancelAll(pending)
  /\ UNCHANGED <<batchVars, pc, first, next, pending, results, raised, token>>

CancelDrain ==
  /\ Cancelled
  /\ Draining /\ ~Serial /\ pending # {}
  /\ Keep
  /\ UNCHANGED <<batchVars, pc, first, next, pending, phase, orphans, struck, results, raised,
                 token>>

(* A serial call is awaited in place: the cancellation reaches its body,   *)
(* and one that cuts a cleanup short replaces the one before it.           *)
CancelSerial ==
  /\ Cancelled
  /\ Waiting /\ Serial
  /\ \A i \in pending : phase[i] \in Live \ {"ready"}
  /\ IF \E i \in pending : phase[i] = "cleaning" THEN kept' = cancels' ELSE Keep
  /\ CancelAll(pending)
  /\ UNCHANGED <<batchVars, pc, first, next, pending, results, raised, token>>

(***************************************************************************)
(* One dispatch (async_dispatch).                                          *)
(***************************************************************************)
Becomes(i, from, to) == phase[i] = from /\ phase' = [phase EXCEPT ![i] = to]

(* Workers of the default executor that run no body. *)
FreeWorkers == Workers - Cardinality({i \in threads : phase[i] = "running"} \cup (orphans \cap threads))

(* _prepare_dispatch refuses a set token and an invalid call with a result; *)
(* a synchronous body is submitted to the executor (to_thread).            *)
Begin(i) ==
  /\ LoopFree
  /\ \/ Becomes(i, "ready", "done")
     \/ ~token /\ Becomes(i, "ready", IF i \in threads THEN "submitted" ELSE "running")
  /\ UNCHANGED <<batchVars, pc, first, next, pending, orphans, struck, results, cancels,
                 kept, raised, token>>

(* A worker takes the body, whatever the event loop does meanwhile. *)
StartThread(i) ==
  /\ FreeWorkers > 0
  /\ Becomes(i, "submitted", "running")
  /\ UNCHANGED <<batchVars, pc, first, next, pending, orphans, struck, results, cancels,
                 kept, raised, token>>

(* The body returns, or its exception becomes an ordinary error result; an *)
(* in-memory result is retained at once, which may fail.                   *)
Finish(i) ==
  /\ LoopFree
  /\ \E result \in {"retaining", "done", "failed"} : Becomes(i, "running", result)
  /\ UNCHANGED <<batchVars, pc, first, next, pending, orphans, struck, results, cancels,
                 kept, raised, token>>

(* wait_for: a coroutine is cancelled and cleans up before its timeout is  *)
(* a result; the timeout of a synchronous body is a result at once: one    *)
(* not yet started never starts, a running thread runs on.                 *)
TimeOut(i) ==
  /\ LoopFree
  /\ \/ /\ Becomes(i, "submitted", "done")
        /\ UNCHANGED orphans
     \/ /\ i \in threads
        /\ Becomes(i, "running", "done")
        /\ orphans' = orphans \cup {i}
     \/ /\ i \notin threads
        /\ Becomes(i, "running", "expiring")
        /\ UNCHANGED orphans
  /\ UNCHANGED <<batchVars, pc, first, next, pending, struck, results, cancels, kept, raised,
                 token>>

(* A cancellation has reached the dispatch: the batch cancelled its tasks, *)
(* or was itself cancelled while it awaited this call in place.            *)
Reached(i) == Draining \/ (Serial /\ kept # 0)

(* An external store keeps the result, in a worker of the same executor    *)
(* (_run_persistence); an OSError is a warning, any other error escapes.   *)
(* A cancellation is raised once the write has ended.                      *)
Retain(i) ==
  /\ LoopFree
  /\ FreeWorkers > 0
  /\ IF Reached(i) THEN Becomes(i, "retaining", "dropped")
     ELSE \E result \in {"done", "failed"} : Becomes(i, "retaining", result)
  /\ UNCHANGED <<batchVars, pc, first, next, pending, orphans, struck, results, cancels,
                 kept, raised, token>>

CleanUp(i) ==
  /\ LoopFree
  /\ Becomes(i, "cleaning", "dropped") \/ Becomes(i, "expiring", "done")
  /\ UNCHANGED <<batchVars, pc, first, next, pending, orphans, struck, results, cancels,
                 kept, raised, token>>

OrphanEnds(i) ==
  /\ i \in orphans
  /\ orphans' = orphans \ {i}
  /\ UNCHANGED <<batchVars, pc, first, next, pending, phase, struck, results, cancels, kept,
                 raised, token>>

SetToken ==
  /\ ~token
  /\ token' = TRUE
  /\ UNCHANGED <<batchVars, pc, first, next, pending, phase, orphans, struck, results, cancels,
                 kept, raised>>

Init ==
  /\ safe \in SUBSET Index /\ threads \in SUBSET Index /\ limit \in Index
  /\ pc = "fill" /\ first = 1 /\ next = 1 /\ pending = {}
  /\ phase = [i \in Index |-> "queued"]
  /\ orphans = {} /\ struck = {} /\ results = {}
  /\ cancels = 0 /\ kept = 0 /\ raised = 0 /\ token = FALSE

BatchStep == FillSlots \/ NextGroup \/ Collect \/ CancelPending \/ EndDrain

CancelBatch == CancelWait \/ CancelDrain \/ CancelSerial

DispatchStep(i) ==
  Begin(i) \/ StartThread(i) \/ Finish(i) \/ TimeOut(i) \/ Retain(i) \/ CleanUp(i)

Next ==
  \/ BatchStep \/ CancelBatch \/ SetToken
  \/ \E i \in Index : DispatchStep(i) \/ OrphanEnds(i)

(* The event loop runs whatever is ready; cleanups end, and so does the    *)
(* write of a result as long as a worker is free for it.  No tool body     *)
(* need ever return, and no timeout need be configured.                    *)
Fairness ==
  /\ WF_vars(BatchStep)
  /\ \A i \in Index : WF_vars(Begin(i)) /\ WF_vars(Retain(i)) /\ WF_vars(CleanUp(i))

Spec == Init /\ [][Next]_vars /\ Fairness

Ended == pc \in {"returned", "raised"}
Active == {i \in Index : phase[i] \in Live}
InGroup(i) == \E lo \in Index : LastOf(lo) > lo /\ i \in lo..LastOf(lo)

TypeOK ==
  /\ safe \subseteq Index /\ threads \subseteq Index /\ limit \in Index
  /\ pc \in {"fill", "wait", "group_done", "cancel_pending", "drain", "returned", "raised"}
  /\ first \in Index /\ next \in 1..(Size + 1)
  /\ pending \subseteq Index /\ phase \in [Index -> Phases]
  /\ orphans \subseteq Index /\ results \subseteq Index
  /\ struck \subseteq Index \X {"expiring", "cleaning"}
  /\ cancels \in 0..MaxCancels /\ kept \in 0..MaxCancels /\ raised \in 0..MaxCancels
  /\ token \in BOOLEAN

(***************************************************************************)
(* Properties.                                                             *)
(***************************************************************************)
(* The batch never ends, by a result, a failure or a cancellation, while a *)
(* dispatch it started is still at work: `finally' gathers them all again  *)
(* after every cancellation (tools.py:1507-1517).                          *)
Drained == Ended => Active = {}

(* However often the caller cancels, the cleanup that a cancellation began *)
(* in a call of a concurrent group is not cut short: the batch cancels     *)
(* each task once and shields the gathered tasks (tools.py:1507-1515;      *)
(* docs/api.md:165).  That one cancellation may well cut short the cleanup *)
(* that a call's own timeout began (recorded as "expiring").               *)
CleanupUninterrupted == \A i \in Index : <<i, "cleaning">> \in struck => ~InGroup(i)

(* A batch that returns lost nothing: every call has its result and no     *)
(* cancellation was swallowed.  One that raises tells the caller of the    *)
(* first cancellation delivered, even when a dispatch failed before it.    *)
NothingSwallowed ==
  /\ pc = "returned" => results = Index /\ cancels = 0
  /\ pc = "raised" /\ ~Serial => raised = (IF cancels = 0 THEN 0 ELSE 1)

(* Calls that are not concurrent-safe are barriers, and never more calls   *)
(* are active than max_concurrent allows.                                  *)
OverlapBounded ==
  /\ Cardinality(Active) <= limit
  /\ \A i \in Active \ safe : Active = {i}

(* Once a dispatch has failed or the batch was cancelled, no call still    *)
(* queued is started.                                                      *)
QueuedStayQueued ==
  [][\A i \in Index :
       phase[i] = "queued" /\ phase'[i] # "queued"
         => kept = 0 /\ \A j \in Index : phase[j] # "failed"]_vars

(* A cancelled batch ends even when its tool bodies never return, for      *)
(* coroutines are cancelled and threads are left behind (tools.py:1507-    *)
(* 1517), unless such threads hold every worker of the executor for good   *)
(* while a result still has to be written there: the batch then waits for  *)
(* that write for ever (tools.py:1419, checkpoint.py:778-788).             *)
WriteStarved == FreeWorkers = 0 /\ \E i \in Index : phase[i] = "retaining"
CancelledBatchEnds == cancels > 0 ~> (Ended \/ []WriteStarved)
=============================================================================
