# looplet in TLA+

Specifications of the parts of looplet where several actors meet: the agent
loop and its host hooks, the same loop under asyncio where any await may be
cancelled, the checkpoints that make a crashed task resumable, the admission of
model calls by the loop and its helpers, the runtime that hosts run from several
threads, the scheduler of concurrent tool calls, and the server that takes
commands while a run is going on.  TLC checks each on small instances, and TLAPS
proves every safety property that the passing runs check, for every value of the
constants (section 5 names the hypotheses).

Paths below are relative to `src/looplet/` of the repository.

## 1. The system

looplet runs a tool-calling agent.  A host builds a `LoopConfig`, tools and
hooks, and iterates a generator, `composable_loop`, that yields one `Step` at a
time.  `AgentRuntime` wraps one such loop for hosts that want runs, handles and
a store.

| Part | State it keeps | Operations | Talks to | What is hard | What makes it correct |
|---|---|---|---|---|---|
| Run lifecycle (`types.py`) | status, phase | `validate_run_transition` | every part of the loop | a table checked at run time, far from the code that moves | no legal run meets an illegal move |
| Loop kernel (`loop.py`) | steps, budget, flags of the current turn, lifecycle | prompt, model call, recovery, parse, dispatch, done gates, finish | model, tools, hooks, consumer, checkpoint store, cancel token | hooks that stop or raise anywhere; a consumer that closes the stream; stop, token and deadline in the middle of a turn | budget, step numbers, completion only after an accepted result, cleanup once, termination |
| Checkpoints (`checkpoint.py`, `harness.py`) | one document per key | save, pending record, choose, restore | loop, a later process | a crash between an effect and its record | an effect is never repeated and never forgotten |
| Runtime checkpoint hook (`runtime.py`) | pending flag, latest documents | save, on_loop_end | loop, `RunStore` | it drops most saves | the store refuses a resume whenever the directory would |
| `AgentRuntime` (`runtime.py`, `presets.py`, `execution_session.py`) | closed, started, tokens, handles, the preset's config | run, start, cancel, close | host threads, executor, store | close against start against a finishing worker | no resource is closed under a run |
| Tool dispatch (`tools.py`) | tasks of the batch, results | dispatch, batches, retention | loop, tool bodies, threads | repeated cancellation, failures, timeouts | the batch drains, keeps order and barriers, loses no cancellation |
| Run stores (`run_store.py`) | run record, event log, checkpoints | create, append, save, complete | runtime | several files per operation, crashes | a record that can be read back |
| Async loop (`async_loop.py`) | as the loop, the write under way, nested model requests, threads left behind | as the loop; drain and cleanup | event loop, worker threads | a cancellation at any await, also during the cleanup; writes and tools share one pool of threads | as the loop; requests of tools settled, a cancellation raised |
| Assistant turns (`assistant_turns.py`) | counters, pending, active and overlap-safe calls, the lock of admissions | admit, abandon, acknowledge, begin, capture, save | loop, helpers (tools and threads they left behind), checkpoints | admitted, written, sent and answered are separate steps of several callers; a crash between them | no more requests than the ceiling over all processes; uncertain work refuses a resume |
| Model calls (`scaffolding.py`, `resilient.py`, `router.py`, `cache.py`, `recovery.py`) | attempts, health, cache | retry, route, cache | backends | a local timeout abandons a worker | bounded attempts |
| RPC server (`rpc.py`) | inbox, deferred lines, active request | read, dispatch, cancel | a client on stdio | reader, watcher and dispatcher threads | requests in order, cancellation reaches the right one |
| Services (`mcp.py`, `lep.py`, `state_service.py`, `model_gateway.py`) | a child process, next id | call, timeout, close | a child on a pipe | late answers, dead children | an answer goes to its own request |
| Result storage (`result_store.py`, `_storage.py`) | files, quota, rows | put, get, append | tools, checkpoints | crash, quota at its limit | what a reference names exists |
| Context (`compact.py`, `context*.py`, `conversation.py`, `budget.py`) | messages | plan, compact, project | loop | pure functions | a call and its result stay together |
| Sessions (`session*.py`, `subagent.py`) | log, branches, nested runs | fork, record, spawn | loop | nesting | a child's end is the parent's step |
| Host controls (`approval.py`, `steering.py`, `permissions.py`, `stagnation.py`, `limits.py`) | queues, files, windows | the hook protocol | loop, host | messages drained but not sent | a decision takes effect once |
| Cartridges (`cartridge/`, `bundles.py`, `blueprints.py`, `skills.py`) | files on disk | load, save, watch | host | the hot-reload poll | an edit is noticed |
| Observation, command line | none that the loop reads | record, print | host | nothing | nothing here |

## 2. Modules

| Module | Models | State and actions in terms of the code |
|---|---|---|
| `RunLifecycle` | the tables of `types.py:57-77, 312-372` | `LegalTransition` is `validate_run_transition`. No variables. |
| `AgentLoop` | one run of `_composable_loop_impl` inside `composable_loop` (`loop.py`) | `pc` is the point the generator has reached. One action is the code between two points at which somebody else acts: model, tool, hook, consumer, another thread. `steps`, `stopReason`, `hookStop`, `calls`, ... are the locals of the same (snake-case) name; `ctx` and `pub` are the lifecycle on `LoopContext` and on the caller's state; `saved` is the checkpoint directory. |
| `AsyncLoop` | `_async_composable_loop_impl` inside `async_composable_loop`, `_NestedModelRequests` (`async_loop.py`), the writes of `checkpoint.py:760-800` | extends `AgentLoop`: where the two files agree an `Async...` action conjoins the synchronous one, elsewhere it has a body of its own.  `write` is the checkpoint a worker thread is writing and the point the loop goes on from, `owed` the cancellation held back for it, `begun` and `orphans` the tool threads, `nested` the requests tools make, `original` the cancellation that left the frame |
| `ModelCalls` | `_AssistantTurns`, `_AdmissionBackend` (`assistant_turns.py`), the turns of the loop around them, `load_latest_for_resume` | `req[u]` is the request of the loop or of a helper; `pend`, `active`, `safe`, `lock` are the fields of the controller; `turnFile` is the document under the key `model_turn`, `stepFile` the newest of the steps'; `held` is the document the loop has captured and not yet written |
| `EffectLedger` | nothing in particular: what checkpointed execution promises | announced, performed, settled, refused |
| `CheckpointRecovery` | `AgentLoop` in processes that die and are started again on the same directory (`checkpoint.py:556-604, 910-985`, `harness.py:219-243`, `loop.py:2937-2981`) | `Crash` at any point, `RestartFresh`, `Resume`, `RefuseResume` |
| `RuntimeCheckpoints` | `_RunStoreCheckpointHook` (`runtime.py:80-265`) joined to the steps of `AgentLoop` | whenever the loop saves, the hook's `save` runs in the same step; whenever on_loop_end runs, its `on_loop_end` does |
| `AgentRuntime` | `AgentRuntime`, `RunHandle` (`runtime.py:268-588`), the claim and close of `AgentPreset`, `ExecutionSession` | `caller[r]` and `worker[r]` are the threads of one `run()`/`start()`, `closer[c]` a thread in `close()`; the code under the lock is one action |
| `ToolBatch` | `async_dispatch` and `async_dispatch_batch` (`tools.py:1360-1526, 1757-1771`) | `pc` is the batch's own task, `phase[i]` the task of call i (`submitted`: its body waits for a worker of the executor; `expiring`, `cleaning`: it cleans up after its timeout, after a cancellation), `orphans` the bodies nobody waits for, `struck` the cleanups a cancellation cut short |
| `RpcServer` | the threads of `RPCServer` (`rpc.py:354-383, 566-611, 645-879`) | `pc` is the dispatcher, `watcher` the cancel watcher of the run in flight; `inbox` and `deferred` are `_inbox` and `_deferred`; a line is its number in the input; `token` is the token of the run, minted for it or brought by its preset, and `tokens` which cancel set which token |
| `DocumentedClaims` | statements of docstrings and docs about the loop | no state of its own |
| `AgentLoopProofs`, `RecoveryProofs`, `RuntimeCheckpointsProofs`, `AsyncLoopProofs`, `ModelCallsProofs`, `AgentRuntimeProofs`, `ToolBatchProofs`, `RpcServerProofs` | theorems | section 5 |

`MC*` modules only give the constants their values.

What the abstraction keeps and drops.  A tool call is one of four kinds (an
ordinary tool, a tool declared free, a terminal tool, an assistant message taken
as the completion); a step is its number, its kind and whether it was free; a
checkpoint is its kind, step number, time of writing and remaining budget.
Prompts, arguments, results and logs are gone.  Hooks, the model and tools are
nondeterministic: they return whatever the loop distinguishes, and hooks raise
where the loop does not catch (`RaisePoints`); so may what is called to hand a call
over, the context builder or the store of its result (`DispatchRaises`, in the
synchronous loop).  A `HookDecides` disjunct stands
for every stop-carrying decision of that event.

`AgentLoop` assumes a checkpoint store, a `DefaultState` and no assistant-turn
policy; what that policy does to counters and files is `ModelCalls`.  In `CheckpointRecovery` the host gives each task a directory of its own,
as the docs ask, and so does not call the loop again after an accepted done().

Where the asynchronous loop differs from the synchronous one, `AsyncLoop` follows
it: the recovery strategies count anew after a success; the LLM phase is entered
before the preflight block, so finding 1 does not exist there; a step that could
not be parsed is checkpointed; a stop asked for by a model event is not looked at
between serial calls; a post_dispatch stop sets `done`, which ends the run even
after a rejected done(); a cancellation that arrives while `on_loop_end` hooks run
with errors suppressed is swallowed (`CancelDropped`), the one before it is not; and in
the `on_loop_end` hooks of the normal path the first failure wins, so that a
cancellation after a hook's error raises that error (`AsyncFinalize`).

`ToolBatch` knows the executor.  A synchronous body is submitted and begins when one
of `Workers` threads is free; a body that was cancelled or timed out before that never
begins, one that runs keeps its thread; and the write of a result to an external store
goes through the same pool (`checkpoint.py:778-781`).  It also knows both forms of
`asyncio.wait_for` that the supported Pythons have.  A cancellation that meets a call
in its cleanup (`InCleanup`) either cuts that cleanup short, which `struck` records
with the phase it was in, or, up to Python 3.11 and under a timeout, leaves the body
behind to clean up with nobody waiting, and then it is one of the `orphans`.

In `RpcServer` a run reuses the token that its preset brings and mints one otherwise
(`rpc.py:577-588`).  Two tokens are enough: the minted one is fresh for each run, and
`preset` is the one that several presets of a `preset_factory` share.  `inherited`
remembers what had set the token before the run began.

In `ModelCalls` a document carries what `_checkpoint_order` compares (turn, model
calls, step) and whether it names a call as pending.  That order is what saves the
files from most races: the document of a tool captured before a helper's admission
sorts before it, and two helpers that overtake each other each name a call of their
own.  An admission whose write fails leaves its call pending, so everything after it
is refused.  A request that was timed out or cancelled locally is acknowledged even
though the provider may still be working on it.  An acknowledgement is not written,
and must not be: `AnswerMutant`, which writes it, breaks
`UncertainWorkBlocksResume`.  A main request that must be alone is refused while a
helper is in flight, and the run stops there.  A new process begins only after the
old one is dead.

## 3. Runs

| Run | Bounds | Distinct states | What it shows |
|---|---|---|---|
| `agent_loop` | 2 charged steps, turns of up to 2 calls, 1 free call, 1 parse recovery, all 8 configurations | 2.0 million | the eleven properties of one run |
| `async_loop` | 2 charged steps, turns of up to 2 calls, 1 worker thread, 1 request by a tool, 2 cancellations, concurrent and serial dispatch | 1.6 million | the run ends, its cleanup runs once, effects are announced, requests settled and cancellations raised |
| `recovery` | 3 charged steps, turns of up to 2, 1 free call, 2 processes, no hook stops, no token | 1.6 million | the loop with crashes implements `EffectLedger` |
| `runtime_checkpoints` | 3 charged steps, every 2nd checkpoint kept, a token | 1.0 million | the sparse copy refuses and allows a resume at the same points |
| `model_calls` | 2 helpers (symmetric), 4 model calls, 2 assistant turns in a row, 2 requests per turn, 2 processes, both loops, with and without exclusive requests | 1.2 million | the ceiling over crashes, uncertain work, overlap |
| `runtime` | 2 threads in run()/start(), 2 in close() | 448 000 | close, start and a finishing worker in every order |
| `tool_batch` | 3 calls, every grouping, limit and mix of thread and coroutine tools, 2 workers, 2 cancellations | 172 000 | drain, cancellation, barriers, slots, the executor |
| `rpc_server` | 5 lines, every mix of run, cancel, quit and other commands, tokens of the run and of the preset | 1.1 million | nothing lost or repeated, order, cancellation, the end of input |
| `recovered_turn`, `unknown_effect`, `deferred_order`, `stale_admission` | the smallest that shows it | | the findings of section 6 |

`agent_loop` starts at step offset 0, with nothing restored; runs that start from a
checkpoint are those of `recovery`.

Why the bounds are enough.  The loop's decisions compare the remaining budget
with the length of one turn, so a budget of two and turns of two reach: a turn
that fits, one that is cut, one that ends in a terminal call, a second turn after
a blocked, rejected, unparsed or failed one.  Recovery needs a third step so that
a group of two can follow a recorded step.  A crash matters by what is on disk, so
two processes show every pair of a dead one and its successor; a third only
repeats.  In the runtime at most one run is ever admitted; the second shows every
refusal, and two closers are needed to make one reopen what the other is closing.
A batch of three has a barrier before, between and after a group, and a call that
is still queued while two run; the second cancellation is the one the shield is
for, and two workers are the fewest that two bodies can exhaust while the third call
has a result to write.  In the asynchronous loop one worker thread is the case in which a write, a tool and a
thread left behind compete, and the second cancellation is the one that meets the
cleanup of the first.  Two helpers overtake each other, four calls let both helpers
and the loop ask and one of them be refused.  Five lines of input are a run, two lines that its watcher defers, a cancel and one
more that arrives while the deferred ones are put back.

Fairness.  `AgentLoop` has weak fairness on the loop's own step and on nothing
that hosts do: `Termination` says that a run whose consumer keeps taking steps,
and whose model, tools and hooks return, ends.  It needs the bound `MaxFree`: a
step of a free tool is not charged, so a model that calls free tools for ever is
never stopped by the budget, and the code means it so.  `AsyncLoop` has weak fairness on
the task (`AsyncLoopStep`, which includes the worker that writes a checkpoint), on
tools (`ToolStep`), on the model that answers a tool's request (`RequestStep`) and on
threads left behind (`OrphanEnds`).  The last is an assumption about tool bodies, not
a promise of the code: with bodies that never return, and as many as there are
workers, the next checkpoint write waits for ever, and so does its run.
`AgentRuntime` has weak
fairness on threads that are on their way, and on a loop leaving once its token is
set; a loop nobody cancels may run for ever.  `ToolBatch` has weak fairness on the
batch's task, on tasks the event loop has ready, on cleanups, and on retention writes
as long as a worker is free for them (`Retain` is not enabled otherwise).  Tool bodies
need never return, and still a cancelled batch ends, with the one exception that
`CancelledBatchEnds` names: bodies that hold every worker for good while a result
waits to be written (`WriteStarved`).  Without that exception TLC refutes it.
`RpcServer` has weak fairness on its dispatcher and watcher and on a run leaving
once its token is set; the client need not send anything and a run nobody cancels
may go on, which `ServedToTheEnd` names as its exception.
`CheckpointRecovery`, `RuntimeCheckpoints` and `ModelCalls` check safety only.

Deadlock is checked in `agent_loop`, `async_loop` and `runtime_checkpoints`, whose last state
stutters explicitly; the others stop when every thread has returned.

## 4. Properties

Loop: `BudgetRespected`, `StepsNumbered`, `CompletedMeansAccepted`,
`AcceptedIsFinal`, `CleanupOnce`, `LateWorkBounded`, `StopHonoured`,
`ResultsRecorded`, `UncertainEffectsBlockResume`, `Termination`.  The last but one
is the invariant recovery rests on: at every instant, a tool call that was
executed is in a finished checkpoint or the newest checkpoint is a pending one,
which makes resume refuse.  `StopHonoured` has the exception the code makes;
without it the claim of `loop.py:1971`, "Apply post-step stopping to ordinary,
rejected, and synthetic turns" (and of `docs/api.md:584`, "Both loops permit a stop
after normal steps, rejected completion, and parse errors"), is false: a done() that ran and was rejected leaves
through `continue` (`loop.py:4283-4286`), past the post-step check, and the head of
the loop clears the request, so a stop that a model event or post_dispatch hook asked
for in that turn is lost and the model is asked again.  (The done() that its gate
blocks does reach the check, and the asynchronous loop keeps a post_dispatch stop.)
`CompletedMeansAccepted` is checked for hooks that do not give "done" as the reason
of a stop: `loop.py:4330-4338` turns that very string into COMPLETED whoever said it.

Asynchronous loop: `CleanupOnce`, `UncertainEffectsBlockResume` and `Termination` again,
now with a cancellation at every await; `NestedSettled` (no run ends with a tool's
model request open, also not one made by a thread nobody waits for) and
`CancellationSurfaces` (whatever the cleanup meets, a run that was interrupted raises
CancelledError and says so in its state).

Model calls: `CeilingKept`, `UncertainWorkBlocksResume`, `ExclusiveAlone`.  The first
two make an exception for files in which an older decision replaced a newer admission
(`overtaken`, `forgotten`); that is finding 4.

Recovery: `AtMostOnce` (a step number's tool is executed once over all
processes), `SpendingKept` (a crash gives no budget back), and the refinement
`ImplementsLedger`.

Runtime hook: `StoreBlocksResume`, `StoreSettles`.  Both are stated for where they
hold.  With concurrent groups the hook forgets a pending group at its first
acknowledgement (finding 2), and can also leave the pending document newest when
the later acknowledgements fall between kept checkpoints: such a run cannot be
resumed although nothing is uncertain.

Runtime: `PresetKept`, `ConfigRestored`, `CleanCloseMeansSettled`,
`HandlesForgotten`, `CloseStopsRun`.  `close()` sets `closed` back when a run did
not end in time; what keeps a second `run()` out then is `started`, and
`UsedUp` in the proof says so.

Batch: `Drained`, `CleanupUninterrupted`, `NothingSwallowed`, `OverlapBounded`,
`QueuedStayQueued`, `CancelledBatchEnds`.  The second and the third are about
concurrent groups.  A call in a group of its own is awaited in place, so there a
second cancellation does reach its cleanup.  `CleanupUninterrupted` is about the
cleanups that a cancellation began: the batch cancels each task once.  It makes no
promise for a call that is cleaning up after its own timeout when the batch is
cancelled; that one cancellation goes straight into the cleanup (Python 3.12 and
later) or abandons it (3.11).

Server: `EachLineOnce`, `OrderKept`, `CancelStopsItsRun`, `CancelEndsRun`,
`ServedToTheEnd`.  `OrderKept` and the two about a cancel are stated for runs in which nothing
is read while deferred lines are put back (`overtaken`); without that they are false
(finding 3).  The model takes `watcher.join(timeout=2.0)` to succeed: the watcher
polls every 50 ms and does nothing that blocks.

`CancelStopsItsRun` has one more exception, and the code makes it on purpose: a token
that the preset brings is reused, not replaced (`rpc.py:577-584`).  When the presets of
a factory share one, a cancel stops the run in flight and every later run that brings
the same token.  For a token minted by the server there is no exception.
`ServedToTheEnd` says that after the end of input every line that was read is carried
out, up to a quit, and the server stops; where the end of input itself was read
while lines were put back (`endAhead`) it promises only that the server stops.

Every property of a passing run has a mutant, a plausible slip in one definition
(written above it as `...Mutant`) under which TLC finds that property violated.

## 5. Proofs

All proofs use the named assumptions on the constants of their modules
(`BudgetAssumption`, `CeilingAssumption`, ...), which TLC evaluates in every run, and
nothing else, except where a hypothesis is named below.

`AgentLoopProofs`, for every budget, turn size, set of hook reasons and set of
configurations: `TypeCorrect`, `BudgetSafe`, `NumberingSafe`, `CleanupSafe`.
Neither `BudgetRespected` nor `StepsNumbered` is inductive.  A
turn is admitted once, so at every later point of that turn the calls still to be
recorded must fit into what is left of the budget; and step numbers are computed
from `step_num` and a position, so at every point that position must agree with
the number of steps recorded in the turn.  `LoopInvariant` states both, point by
point, together with `TypeOK`.  `CleanupSafe` has a small invariant of its own: the
finalizer holds its hooks exactly as long as they have not run.

The second half of `AgentLoopProofs`: `CompletedSafe`, `AcceptedIsFinalSafe`,
`LateWorkSafe`, `StopHonouredSafe`.  The first two have the hypothesis `"done" \notin HookReasons`,
without which they are false (section 4).  `AcceptInv` says which points an accepted
step leaves open, and that the reason "done" stands for one; from those points no step
is recorded, no tool executed and no pending document saved.  `LateInv` says that after
one late hand-over no other can follow: the loop looks at the token before it comes to
the next group.
`StopInv` says that a request for a stop is on record until the post-step check,
except past the terminal call, from where only a rejected done() leads back to the
head of the loop.

`RecoveryProofs`, over any number of processes: `UncertainSafe`, `ResultsSafe`,
`AtMostOnceSafe`, `SpendingSafe`, and `LedgerImplemented`, the refinement of
`EffectLedger`.  `RecoveryInv` has a half about the files and a half about the
process.  The files: documents lie under their keys, no two have the same time, one
is the newest; an effect that no finished document records is covered by the newest
document, which then is pending and names a step nobody recorded.  The process: at
each point of a turn, what may be missing from the files: nothing (`SettledInv`), steps
of the group under way (`GroupedInv`), or the terminal call (`JudgedInv`).
`UncertainEffectsBlockResume` alone is not inductive: saving a step of a group must
not make the pending document lose its place, which is why a pending record carries
the number of the group's last call.  The refinement then takes one lemma for each
step of the ledger: an announcement needs a settled point, a performed effect is
above every finished document and at most at the pending one, and a document saved
for a step only takes calls out of doubt.

`RuntimeCheckpointsProofs`, for every checkpoint interval: `StoreRefuses`,
`StoreAccepts`.  The steps of a run under the runtime are steps of `AgentLoop`, so
`RecoveryInv` holds there as well, and only the store is new.  `HookInv` does not
follow each document into it: a resume reads the newest one, and what the store's
newest says must agree with what the loop's newest says.  Two facts make that
inductive.  A document the hook keeps lies under a number the loop used
(`Numbered`), so the next announcement is above everything stored; and while the
loop's newest is pending the hook remembers it (`Remembered`), so that the document it
writes at the end of the run refuses too.  The second needs serial dispatch: after a
concurrent group the hook forgets at the first acknowledgement (finding 2), and there
the theorem speaks of the run while it lives.

`AsyncLoopProofs`, for any number of workers, requests and cancellations:
`NestedSafe`, `CancellationSafe`, `AsyncCleanupSafe` about its frame, and
`AsyncBudgetSafe`, `AsyncNumberingSafe`, `AsyncUncertainSafe`, `AsyncResultsSafe`,
`AsyncCompletedSafe`, `AsyncStopHonoured` about its turns.  `FrameInv` follows
`async_composable_loop`: once it is left the run is closed to requests, once they were
drained none is open, and the cancellation that left it stays the outcome.
`TurnInv` is the invariant of the synchronous turn with two additions: what is being
written, and where the loop goes on from there (`Writing`), and which bodies may be at
work (`Bodies`).  `DoubtInv` is the one for the files.  An effect may come long after
its call was given up, from a thread nobody waits for, so the invariant cannot speak of
effects alone: a step number is in doubt (`Doubted`) as soon as its body has begun, and
stays so while its thread lives.  A number in doubt is recorded, or the newest document
is a pending one that reaches it; before the cleanup it lies between `Low` and `High`,
and no document is above `High`; and the pending record that names `High` is newest
before any body begins (`Announced`), which is what awaiting its write buys.  From the
moment the frame is left nothing is written, so a late effect changes nothing.
`AsyncResultsSafe` follows the two ways to the normal return with nothing in doubt
(`ReturnInv`); `AsyncCompletedSafe` has the hypothesis `"done" \notin HookReasons`
again; `AsyncStopInv` follows a stop through both flags of this loop, of which its head
reads only `done`.
Five of these properties are not in the run `async_loop`, which leaves them to
`agent_loop`: the budget, the numbers, results, acceptance and stops.

`ModelCallsProofs`, for any set of helpers, ceiling and number of processes:
`ExclusiveSafe`, `CeilingSafe`, `UncertainSafe`.  `BaseInv` ties the three sets of the
controller to the requests under way, and numbers them.  `SafeInv` is about what a
later process would count from (`Restorable`).  It rests on two facts about the
document the loop has captured and is still writing: it is newer than what is on disk
unless an admission came in between (`HeldNewer`), and an admission's document is
newer than any of the loop's that does not know of a pending call (`AdmissionsAfter`).

`AgentRuntimeProofs`, for any sets of runs and closers: `PresetSafe`,
`ConfigSafe`, `SettledSafe`, `HandlesSafe` and the type invariant.  The invariant
has one part per shared resource: who holds a token (`TokenHeld`), the config
(`ConfigOwned`), an open record (`RecordOwned`), a registered handle
(`HandleOwned`), and `UsedUp`, which says that once any close() has begun the
runtime is closed or used up for good.

`ToolBatchProofs`, for every batch size, grouping, limit and number of cancellations:
`DrainedSafe`, `CleanupSafe`, `NothingSwallowedSafe`, `OverlapSafe`,
`QueuedStayQueuedSafe`.  The batch only waits for `pending`, so `BatchInv` carries that
whatever is at work is in `pending`.  `CourseInv` says how far the batch has come:
pending calls belong to the current group and fit into its slots, every call before
the window has its result, and a cancellation lets no later call begin.  For
`CleanupSafe` it says that no call cleans up after a cancellation before the batch
comes to cancel its tasks, which it does once, so what that cancellation strikes can
only be a cleanup that a timeout began.

`RpcServerProofs`, for any number of lines: `LinesSafe`, `OrderSafe`, `CancelSafe`.
The first counts the copies of each line over the four places, with a lemma each for
putting and taking.  A new run begins with no deferred lines, and the invariant shows
that none are left by then: the watcher has been joined (`WatcherInRun`) before they
are put back (`DeferredInRun`).  For the other two, `Waiting` is the order in which the
dispatcher will come to the lines: deferred, remaining, inbox, and while lines are put
back inbox, deferred, remaining.  As long as nothing overtakes, every step leaves
`Waiting` as it is, appends to it or takes one line from it; its lines rise, the end of
input comes last, and all of them come after the run in flight and after the orders
carried out (`LinedUp`).  That the end of input finds every line carried out then
follows from the counting.

Model-checked only: the liveness properties (`Termination`, `CloseStopsRun`,
`CancelledBatchEnds`, `CancelEndsRun`, `ServedToTheEnd`; liveness under fairness is
outside the prover's reach).  Every safety property of every passing run is stated by
a theorem.

## 6. Where the code and its documentation disagree

1. `recovered_turn`.  An oversized prompt is blocked before the request
   (`loop.py:3358-3375`) without entering the LLM phase.  When recovery then
   succeeds, the turn cannot move from PROMPTING to DISPATCHING or FINALIZING:
   `InvalidRunTransition`.
2. `unknown_effect`.  One pending record stands for a concurrent group, and
   `runtime.py:152-153` forgets it at the first acknowledgement.  A hook that
   raises after it leaves a terminal checkpoint without the executed, never
   acknowledged second call.
3. `deferred_order`.  "Return watcher-pulled non-cancel lines to the inbox, preserving
   order ahead of anything the reader queued after them" (`rpc.py:803-804`): the inbox
   is emptied first and refilled line by line while the reader goes on, so a line read
   in between comes ahead of lines sent before it.  The end of input can overtake in
   the same way; the server then returns and the deferred commands are never carried out
   (`endAhead`).
4. `stale_admission`.  The document of an admission and the loop's decision share the
   key `model_turn`.  An admission is captured and written under `admission_lock`, the
   decision is captured and written without it (`loop.py:3699-3700`).  A helper left
   behind by a timed-out tool can be admitted, written and sent in between; then the
   older document, which names no pending call and counts one less, replaces the
   helper's, and a crash leaves files that a resume accepts.  "An uncertain admitted
   request is not retried implicitly after restart" (`docs/api.md:280`).

## 7. Not modelled

- Backends, providers, tool bodies and hooks of the host: outside the repository.  They
  are the nondeterminism of the models.
- Prompts, parsing, result formatting, conversation projection, compaction and
  budgets of text: functions from text to text without state of their own.
- In the loop: briefing and compaction, an external recovery registry, streaming.  In
  the assistant turns: validation of a saved document, usage sums, and the deep copy
  of the turn data, which reads a list that a helper's thread may be changing.
- `resilient.py`, `router.py`, `cache.py`: wrappers whose state is local to a call or a
  counter under a lock.
- In the asynchronous loop: a dispatch that fails by an exception of its own
  (`DispatchRaises` is the synchronous loop's); the batch it belongs to then drains, as
  `ToolBatch` shows, and the loop unwinds.
- In the batch: tools that swallow a CancelledError, and the moment in which
  `asyncio.wait_for` of Python 3.11 returns the result of a body that ended in the same
  turn of the event loop as a cancellation arrived, which is then lost.
- In the server: a host that itself cancels the token it put into a preset.
- `FileRunStore`: serialised by two locks and writing each file atomically; a torn last
  line of its event log, or a status set back to running by a late event, is seen in
  one call and no code recovers from it.
- The clients of services (`mcp.py`, `lep.py`, `state_service.py`, `model_gateway.py`):
  what a call means is decided by the program on the other end.  One thing is worth
  knowing: a child run borrows its parent's permission hook (`subagent.py:522`), so
  children in several threads share one `LEPHookAdapter`, which has no lock and
  allocates its ids in two steps.
- Result stores, the session tree, steering, approval and stagnation: sequential
  containers under one lock.  A sub-agent is a nested call of the loop, with
  `AgentLoop`'s control.
- Cartridge files, observation, the command line, examples: reading, writing and
  printing.  The hot-reload watcher keeps one fingerprint and is polled by its host.
