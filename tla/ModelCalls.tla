---------------------------- MODULE ModelCalls ----------------------------
(***************************************************************************)
(* Model calls under a ceiling (assistant_turns.py, max_model_calls): the   *)
(* loop and any helpers that share its backend (tools, also those left      *)
(* behind by a timeout) have each request admitted, written to the          *)
(* checkpoint store as pending, sent, and acknowledged.  Around it the      *)
(* turns of the loop as far as they touch the same counters and files:      *)
(* assistant turns and their decisions, tool turns, the end of the run; and *)
(* a process that may die and be started again.                             *)
(***************************************************************************)
EXTENDS Integers, FiniteSets

CONSTANTS
  Helpers,            \* callers other than the loop
  MaxModelCalls,      \* config.max_model_calls
  MaxAssistantTurns,  \* config.max_assistant_turns
  MaxAttempts,        \* bound: requests of one turn (retries, recovery, continuations)
  MaxLives            \* bound: processes that work on the run, one after another

Loop == "loop"
Users == Helpers \cup {Loop}
NoOne == "no one"

ASSUME UserAssumption == IsFiniteSet(Helpers) /\ Loop \notin Helpers /\ NoOne \notin Users
ASSUME CeilingAssumption == {MaxModelCalls, MaxAssistantTurns, MaxAttempts, MaxLives} \subseteq Nat \ {0}

VARIABLES
  config,     \* async: which loop; exclusive: native tools or a stateful backend
  pc,         \* point the loop has reached
  turn, calls, streak,  \* turn_count, model_calls, consecutive_assistant_turns
  stepCount,  \* number of the last step
  attempts,   \* requests of this turn so far
  pend, active, safe,   \* _pending_calls, _active_calls, _overlap_safe_calls
  req,        \* user -> its request: where it is, number, document, may it overlap
  lock,       \* who holds admission_lock across a write
  held,       \* the document the loop itself is writing
  over,       \* the lifecycle is terminal
  cancelled,  \* cancel_token.is_cancelled
  uncertain,  \* a tool was handed to and its step is not written yet
  toolRan,    \* a tool was handed to in this process: it may have left a helper behind
  turnFile,   \* the checkpoint under the key "model_turn"
  stepFile,   \* the last of those under the keys of steps
  sent,       \* requests the backend received, over all processes
  overtaken,  \* turnFile is older than the one it replaced, and names no pending call
  forgotten,  \* a process was resumed from such a file
  lives       \* processes started so far

counters  == <<turn, calls, streak, stepCount>>
admission == <<pend, active, safe, lock>>
files     == <<turnFile, stepFile, overtaken>>
process   == <<config, forgotten, lives>>
work      == <<uncertain, toolRan>>
vars == <<config, pc, turn, calls, streak, stepCount, attempts, pend, active, safe, req, lock,
          held, over, cancelled, uncertain, toolRan, turnFile, stepFile, sent, overtaken,
          forgotten, lives>>

Alive == pc \notin {"crashed", "refused"}

-----------------------------------------------------------------------------
(***************************************************************************)
(* Documents.                                                              *)
(***************************************************************************)
(* What a checkpoint keeps of the counters, and whether it names a model   *)
(* call or a tool call as pending.                                         *)
NoDoc == [turn |-> -1, calls |-> 0, streak |-> 0, step |-> 0,
          asked |-> FALSE, effect |-> FALSE, over |-> FALSE]

Captured ==
  [turn |-> turn, calls |-> calls, streak |-> streak, step |-> stepCount,
   asked |-> pend # {}, effect |-> FALSE, over |-> over]

(* _checkpoint_order: b does not come before a. *)
UpTo(a, b) ==
  \/ a.turn < b.turn
  \/ a.turn = b.turn /\ a.calls < b.calls
  \/ a.turn = b.turn /\ a.calls = b.calls /\ a.step <= b.step

(* save(..., "model_turn") replaces the file, whatever it holds. *)
WriteTurn(doc) ==
  /\ turnFile' = doc
  /\ overtaken' = (~doc.asked /\ ~UpTo(turnFile, doc))
  /\ UNCHANGED stepFile

(* Steps have keys of their own: an older one stays behind the newest. *)
WriteStep(doc) ==
  /\ stepFile' = (IF UpTo(stepFile, doc) THEN doc ELSE stepFile)
  /\ UNCHANGED <<turnFile, overtaken>>

(* load_latest_for_resume.  Two documents of one order are told apart by   *)
(* their time; then the one of the step is the later.                      *)
Newest == IF UpTo(turnFile, stepFile) THEN stepFile ELSE turnFile
Terminal == turnFile.over \/ stepFile.over

(* resume_loop_state raises, or the run counts as over. *)
Blocked == Terminal \/ Newest.asked \/ Newest.effect

-----------------------------------------------------------------------------
(***************************************************************************)
(* Admission.                                                              *)
(***************************************************************************)
(* Mutant: whatever is in flight, a call that may overlap is let in. *)
AdmissibleMutant(overlaps) ==
  /\ pend = {} \/ (overlaps /\ active # {} /\ active = pend)
  /\ ~cancelled
  /\ calls < MaxModelCalls

(* check_admission: next to a pending call only if all of them are in      *)
(* flight, here and now, and may overlap.                                  *)
Admissible(overlaps) ==
  /\ pend = {} \/ (overlaps /\ active # {} /\ active = pend /\ active = safe)
  /\ ~cancelled
  /\ calls < MaxModelCalls

(* admit, and the capture of the document that names the call: one step,   *)
(* under the lock or on the event loop.  The synchronous loop keeps the    *)
(* lock until the document is written.                                     *)
Admit(u, overlaps) ==
  LET n == calls + 1
  IN /\ lock = NoOne
     /\ Admissible(overlaps)
     /\ calls' = n
     /\ pend' = pend \cup {n}
     /\ active' = active \cup {n}
     /\ safe' = (IF overlaps THEN safe \cup {n} ELSE safe)
     /\ req' = [req EXCEPT ![u] =
          [at |-> "saving", n |-> n, overlaps |-> overlaps,
           doc |-> [Captured EXCEPT !.calls = n, !.asked = TRUE]]]
     /\ lock' = (IF config.async THEN NoOne ELSE u)

Idle == [at |-> "idle", n |-> 0, overlaps |-> FALSE, doc |-> NoDoc]

Unlock(u) == lock' = (IF lock = u THEN NoOne ELSE lock)

(* After an error the loop asks again while it may, or gives the turn up.  *)
LoopError(u) ==
  IF u # Loop THEN UNCHANGED pc
  ELSE pc' \in {"finish"} \cup (IF attempts < MaxAttempts THEN {"ask"} ELSE {})

(* The document is on disk: the request is sent. *)
Send(u) ==
  /\ req[u].at = "saving"
  /\ WriteTurn(req[u].doc)
  /\ req' = [req EXCEPT ![u].at = "sent"]
  /\ sent' = sent + 1
  /\ Unlock(u)
  /\ UNCHANGED <<process, pc, counters, attempts, pend, active, safe, held, over, cancelled,
                 work>>

(* abandon: the write failed or was interrupted.  The call stays pending   *)
(* and no longer is in flight, so nothing is admitted any more.            *)
Abandon(u) ==
  /\ req[u].at = "saving"
  /\ WriteTurn(req[u].doc) \/ UNCHANGED files
  /\ active' = active \ {req[u].n}
  /\ safe' = safe \ {req[u].n}
  /\ req' = [req EXCEPT ![u] = Idle]
  /\ Unlock(u)
  /\ LoopError(u)
  /\ UNCHANGED <<process, counters, attempts, pend, held, over, cancelled, work, sent>>

(* acknowledge, under the lock: answered, failed, timed out or cancelled.  *)
(* Nothing is written.                                                     *)
Acknowledge(u) ==
  /\ req[u].at = "sent"
  /\ lock = NoOne
  /\ active' = active \ {req[u].n}
  /\ safe' = safe \ {req[u].n}
  /\ pend' = pend \ {req[u].n}
  /\ req' = [req EXCEPT ![u] = Idle]
  /\ (u = Loop /\ pc' = "answered") \/ LoopError(u)
  /\ UNCHANGED <<process, counters, attempts, lock, held, over, cancelled, work, sent>>

(* Mutant: the acknowledgement is written, like the admission. *)
AnswerMutant(u) ==
  /\ Acknowledge(u)
  /\ WriteTurn([Captured EXCEPT !.asked = pend' # {}])

Answer(u) == Acknowledge(u) /\ UNCHANGED files

(* A tool asks, or a thread it left behind; once an asynchronous run has   *)
(* ended it is turned away.                                                *)
HelperAsks(h) ==
  /\ Alive
  /\ toolRan
  /\ ~(config.async /\ pc = "ended")
  /\ req[h].at = "idle"
  /\ Admit(h, TRUE)
  /\ UNCHANGED <<process, pc, turn, streak, stepCount, attempts, held, over, cancelled,
                 work, files, sent>>

-----------------------------------------------------------------------------
(***************************************************************************)
(* The loop.                                                               *)
(***************************************************************************)
(* The head: stop_reason, then begin_turn. *)
BeginTurn ==
  /\ pc = "head"
  /\ IF cancelled \/ calls >= MaxModelCalls \/ streak >= MaxAssistantTurns
     THEN pc' = "finish" /\ UNCHANGED <<turn, attempts>>
     ELSE pc' = "ask" /\ turn' = turn + 1 /\ attempts' = 0
  /\ UNCHANGED <<process, calls, streak, stepCount, admission, req, held, over, cancelled,
                 work, files, sent>>

(* One attempt; a refusal ends the run. *)
AskModel ==
  /\ pc = "ask"
  /\ \/ /\ Admit(Loop, ~config.exclusive)
        /\ pc' = "asking"
        /\ attempts' = attempts + 1
     \/ /\ lock = NoOne /\ ~Admissible(~config.exclusive)
        /\ pc' = "finish"
        /\ UNCHANGED <<calls, attempts, admission, req>>
  /\ UNCHANGED <<process, turn, streak, stepCount, held, over, cancelled, work, files,
                 sent>>

NoHeld == [key |-> "none", doc |-> NoDoc, next |-> "none"]

(* The loop captures a document and starts to write it, without the lock. *)
Hold(key, doc, next) ==
  /\ held' = [key |-> key, doc |-> doc, next |-> next]
  /\ pc' = "saving"

(* The token ends the turn.  Else: assistant text, on which the policy     *)
(* decides or raises; tools, announced by a pending record; or an answer   *)
(* that is neither, a step that only the asynchronous loop checkpoints.    *)
ReadAnswer ==
  /\ pc = "answered"
  /\ \/ /\ cancelled
        /\ pc' = "finish"
        /\ UNCHANGED <<streak, stepCount, held>>
     \/ /\ ~cancelled
        /\ streak' = streak + 1
        /\ \/ pc' = "finish" /\ UNCHANGED held
           \/ \E next \in {"head", "finish", "propose"} :
                Hold("turn", [Captured EXCEPT !.streak = streak'], next)
        /\ UNCHANGED stepCount
     \/ /\ ~cancelled
        /\ streak' = 0
        /\ Hold("step", [Captured EXCEPT !.streak = 0, !.step = @ + 1, !.effect = TRUE], "tool")
        /\ UNCHANGED stepCount
     \/ /\ ~cancelled
        /\ stepCount' = stepCount + 1
        /\ pc' = (IF config.async THEN "record" ELSE "head")
        /\ UNCHANGED <<streak, held>>
  /\ UNCHANGED <<process, turn, calls, attempts, admission, req, over, cancelled, work,
                 files, sent>>

(* The loop's document is on disk.  A token set meanwhile ends the run     *)
(* before text is proposed as the completion.                              *)
Saved ==
  /\ pc = "saving"
  /\ IF held.key = "turn" THEN WriteTurn(held.doc) ELSE WriteStep(held.doc)
  /\ pc' = (IF held.next = "propose" /\ cancelled THEN "finish" ELSE held.next)
  /\ uncertain' = (IF held.key = "step" THEN held.next = "tool" ELSE uncertain)
  /\ toolRan' = (toolRan \/ held.next = "tool")
  /\ held' = NoHeld
  /\ UNCHANGED <<process, counters, attempts, admission, req, over, cancelled, sent>>

(* The store raises: the error leaves the loop, and no terminal document   *)
(* is written.                                                             *)
SaveRaises ==
  /\ pc = "saving"
  /\ pc' = "ended"
  /\ held' = NoHeld
  /\ UNCHANGED <<process, counters, attempts, admission, req, over, cancelled, work,
                 files, sent>>

(* A tool returns, or text goes through the gates; either may be the       *)
(* accepted completion.                                                    *)
StepDone ==
  /\ pc \in {"tool", "propose"}
  /\ stepCount' = stepCount + 1
  /\ over' \in BOOLEAN
  /\ pc' = "record"
  /\ UNCHANGED <<process, turn, calls, streak, attempts, admission, req, held, cancelled,
                 work, files, sent>>

RecordStep ==
  /\ pc = "record"
  /\ Hold("step", Captured, IF over THEN "finish" ELSE "head")
  /\ UNCHANGED <<process, counters, attempts, admission, req, over, cancelled, work,
                 files, sent>>

(* The end of the run is written before on_loop_end, after it, and after   *)
(* the trace.                                                              *)
Ending == [finish |-> "loop_end", loop_end |-> "trace", trace |-> "ended"]

Finish ==
  /\ pc \in DOMAIN Ending
  /\ over' = TRUE
  /\ Hold("turn", [Captured EXCEPT !.over = TRUE], Ending[pc])
  /\ UNCHANGED <<process, counters, attempts, admission, req, cancelled, work, files, sent>>

CancelRun ==
  /\ Alive
  /\ ~cancelled
  /\ cancelled' = TRUE
  /\ UNCHANGED <<process, pc, counters, attempts, admission, req, held, over, work,
                 files, sent>>

-----------------------------------------------------------------------------
(***************************************************************************)
(* The process dies, and a later one resumes the run.                      *)
(***************************************************************************)
Crash ==
  /\ Alive
  /\ pc' = "crashed"
  /\ req' = [u \in Users |-> Idle] /\ lock' = NoOne /\ held' = NoHeld
  /\ pend' = {} /\ active' = {} /\ safe' = {}
  /\ attempts' = 0 /\ over' = FALSE /\ cancelled' = FALSE
  /\ uncertain' = FALSE /\ toolRan' = FALSE
  /\ UNCHANGED <<process, counters, files, sent>>

(* Mutant: the count starts over. *)
RestoredMutant(doc) ==
  /\ calls' = 0
  /\ turn' = doc.turn /\ streak' = doc.streak /\ stepCount' = doc.step

(* restore_assistant_checkpoint *)
Restored(doc) ==
  /\ calls' = doc.calls
  /\ turn' = doc.turn /\ streak' = doc.streak /\ stepCount' = doc.step

Restart ==
  /\ pc = "crashed"
  /\ lives < MaxLives
  /\ lives' = lives + 1
  /\ \/ /\ turnFile = NoDoc /\ stepFile = NoDoc
        /\ turn' = 0 /\ calls' = 0 /\ streak' = 0 /\ stepCount' = 0
        /\ pc' = "head"
     \/ /\ turnFile # NoDoc \/ stepFile # NoDoc
        /\ ~Blocked
        /\ Restored(Newest)
        /\ pc' = "head"
     \/ /\ Blocked
        /\ pc' = "refused"
        /\ UNCHANGED counters
  /\ forgotten' = (forgotten \/ (pc' = "head" /\ overtaken))
  /\ UNCHANGED <<config, attempts, admission, req, held, over, cancelled, work, files,
                 sent>>

-----------------------------------------------------------------------------
Init ==
  /\ config \in [async : BOOLEAN, exclusive : BOOLEAN]
  /\ pc = "head"
  /\ turn = 0 /\ calls = 0 /\ streak = 0 /\ stepCount = 0 /\ attempts = 0
  /\ pend = {} /\ active = {} /\ safe = {}
  /\ req = [u \in Users |-> Idle] /\ lock = NoOne /\ held = NoHeld
  /\ over = FALSE /\ cancelled = FALSE /\ uncertain = FALSE /\ toolRan = FALSE
  /\ turnFile = NoDoc /\ stepFile = NoDoc
  /\ sent = 0 /\ overtaken = FALSE /\ forgotten = FALSE /\ lives = 1

Next ==
  \/ BeginTurn \/ AskModel \/ ReadAnswer \/ Saved \/ SaveRaises \/ StepDone \/ RecordStep
  \/ Finish
  \/ \E u \in Users : Send(u) \/ Abandon(u) \/ Answer(u)
  \/ \E h \in Helpers : HelperAsks(h)
  \/ CancelRun \/ Crash \/ Restart

Spec == Init /\ [][Next]_vars

-----------------------------------------------------------------------------
InFlight == {u \in Users : req[u].at = "sent"}

(* Over all processes that work on a run, its backend receives no more     *)
(* requests than max_model_calls, retries and helpers included: a crash    *)
(* gives no request back.  (Unless one resumed from an overtaken file.)    *)
CeilingKept == ~forgotten => sent <= MaxModelCalls

(* At every instant a crash is safe: while a request is in flight or the   *)
(* outcome of a tool is not on disk, the newest document makes resume      *)
(* refuse.  Documents of concurrent helpers may be written in any order    *)
(* and may stand before the record of the tool that asked.                 *)
UncertainWorkBlocksResume ==
  (Alive /\ ~overtaken /\ (InFlight # {} \/ uncertain)) => Blocked

(* A request that must not overlap has the backend for itself. *)
ExclusiveAlone ==
  \A u, v \in InFlight : u # v => req[u].overlaps /\ req[v].overlaps

(* "An uncertain admitted request is not retried implicitly after restart" *)
(* and "Resumed pending requests require reconciliation before inference"  *)
(* (docs/api.md): a crash while a request is in flight leaves files that   *)
(* do not let a run resume.                                                *)
UncertainRequestBlocksResume == (Alive /\ InFlight # {}) => Blocked
=============================================================================
