---------------------------- MODULE AgentRuntime ----------------------------
(***************************************************************************)
(* AgentRuntime (runtime.py): the host's wrapper around one single-use     *)
(* AgentPreset.  Host threads call run() or start(), a started run has a    *)
(* worker thread of its own, and other threads call close() at any time.   *)
(* The loop itself is AgentLoop; here it is the interval between           *)
(* EnterLoop and LeaveLoop.  run_async goes through the same _execution.   *)
(***************************************************************************)
EXTENDS Naturals

CONSTANTS
  Runs,     \* calls of run() and start(), one host thread each
  Closers,  \* host threads that call close()
  Nobody    \* the envelope and token the host left in preset.config

ASSUME NobodyAssumption == Nobody \notin Runs

VARIABLES
  closed, started,   \* AgentRuntime._closed, _started
  tokens, handles,   \* keys of _active_tokens and _active_handles
  cancelled,         \* runs whose CancelToken is set
  config,            \* whose envelope and token preset.config holds
  claimed, disposed, \* AgentPreset._run_claimed, _closed (and resources gone)
  sessionOpen,       \* the ExecutionSession accepts runs
  record,            \* run -> its record in the RunStore
  warned,            \* runs with a persistence warning
  resultless,        \* runs that ended without a RunResult
  caller,            \* run -> where the thread that called start() is
  worker,            \* run -> where the thread that executes run() is
  callback,          \* runs whose future will call back the worker
  closer, seen       \* closer -> where close() is, the handles it waits for

runtimeFlags == <<closed, started, tokens>>
presetVars == <<config, claimed, disposed, sessionOpen>>
storeVars == <<record, warned, resultless>>
closeVars == <<closer, seen>>
vars == <<runtimeFlags, handles, cancelled, presetVars, storeVars, caller, worker,
          callback, closeVars>>

CallerPoints == {"idle", "inline", "submit", "register", "add_callback", "returned", "refused"}
WorkerPoints == {"none", "check", "enter", "create", "attach", "claim", "loop", "restore",
                 "complete", "release", "settle", "call_back", "done"}
CloserPoints == {"idle", "cancel", "wait", "decide", "close_preset", "close_session", "closed"}
Records == {"absent", "running", "complete"}

At(r, from, to) == worker[r] = from /\ worker' = [worker EXCEPT ![r] = to]

(***************************************************************************)
(* A run.                                                                  *)
(***************************************************************************)
(* _claim, under the lock: open, never used, nothing active. *)
Claimable == ~closed /\ ~started /\ tokens = {}
Claim(r) == tokens' = tokens \cup {r} /\ started' = TRUE

(* run(): claims and goes on in the caller's thread. *)
Run(r) ==
  /\ caller[r] = "idle"
  /\ \/ /\ Claimable
        /\ Claim(r)
        /\ caller' = [caller EXCEPT ![r] = "inline"]
        /\ worker' = [worker EXCEPT ![r] = "check"]
     \/ /\ ~Claimable
        /\ caller' = [caller EXCEPT ![r] = "refused"]
        /\ UNCHANGED <<tokens, started, worker>>
  /\ UNCHANGED <<closed, handles, cancelled, presetVars, storeVars, callback, closeVars>>

(* start(): claims, then submits run() to a one-thread executor. *)
Start(r) ==
  /\ caller[r] = "idle"
  /\ \/ /\ Claimable
        /\ Claim(r)
        /\ caller' = [caller EXCEPT ![r] = "submit"]
     \/ /\ ~Claimable
        /\ caller' = [caller EXCEPT ![r] = "refused"]
        /\ UNCHANGED <<tokens, started>>
  /\ UNCHANGED <<closed, handles, cancelled, presetVars, storeVars, worker, callback,
                 closeVars>>

Submit(r) ==
  /\ caller[r] = "submit"
  /\ \/ /\ caller' = [caller EXCEPT ![r] = "register"]
        /\ worker' = [worker EXCEPT ![r] = "check"]
        /\ UNCHANGED tokens
     \/ /\ caller' = [caller EXCEPT ![r] = "refused"]
        /\ tokens' = tokens \ {r}
        /\ UNCHANGED worker
  /\ UNCHANGED <<closed, started, handles, cancelled, presetVars, storeVars, callback,
                 closeVars>>

Finished(r) == worker[r] \in {"call_back", "done"}

Register(r) ==
  /\ caller[r] = "register"
  /\ handles' = handles \cup {r}
  /\ caller' = [caller EXCEPT ![r] = "add_callback"]
  /\ UNCHANGED <<runtimeFlags, cancelled, presetVars, storeVars, worker, callback,
                 closeVars>>

(* Mutant: a future that is already done calls nothing back. *)
AddCallbackMutant(r) ==
  /\ caller[r] = "add_callback"
  /\ callback' = callback \cup {r}
  /\ caller' = [caller EXCEPT ![r] = "returned"]
  /\ UNCHANGED <<runtimeFlags, handles, cancelled, presetVars, storeVars, worker, closeVars>>

(* Future.add_done_callback calls at once when the future is already done. *)
AddCallback(r) ==
  /\ caller[r] = "add_callback"
  /\ \/ Finished(r) /\ handles' = handles \ {r} /\ UNCHANGED callback
     \/ ~Finished(r) /\ callback' = callback \cup {r} /\ UNCHANGED handles
  /\ caller' = [caller EXCEPT ![r] = "returned"]
  /\ UNCHANGED <<runtimeFlags, cancelled, presetVars, storeVars, worker, closeVars>>

(* _execution: _ensure_open once more, under the lock. *)
CheckOpen(r) ==
  /\ \/ ~closed /\ At(r, "check", "enter")
     \/ closed /\ At(r, "check", "release")
  /\ UNCHANGED <<runtimeFlags, handles, cancelled, presetVars, storeVars, caller,
                 callback, closeVars>>

(* The preset's config gets this run's envelope and token. *)
Enter(r) ==
  /\ At(r, "enter", "create")
  /\ config' = r
  /\ UNCHANGED <<runtimeFlags, handles, cancelled, claimed, disposed, sessionOpen,
                 storeVars, caller, callback, closeVars>>

(* store.create: an error is kept as a warning. *)
CreateRecord(r) ==
  /\ At(r, "create", "attach")
  /\ \/ record' = [record EXCEPT ![r] = "running"] /\ UNCHANGED warned
     \/ warned' = warned \cup {r} /\ UNCHANGED record
  /\ UNCHANGED <<runtimeFlags, handles, cancelled, presetVars, resultless, caller, callback,
                 closeVars>>

(* session.attach: a closed session makes a failed result. *)
AttachSession(r) ==
  /\ \/ sessionOpen /\ At(r, "attach", "claim")
     \/ ~sessionOpen /\ At(r, "attach", "restore")
  /\ UNCHANGED <<runtimeFlags, handles, cancelled, presetVars, storeVars, caller,
                 callback, closeVars>>

(* AgentPreset._prepare_run: the claim, its refusal, or a wiring error that *)
(* gives the claim back.                                                   *)
EnterLoop(r) ==
  /\ \/ ~disposed /\ ~claimed /\ claimed' = TRUE /\ At(r, "claim", "loop")
     \/ At(r, "claim", "restore") /\ UNCHANGED claimed
  /\ UNCHANGED <<runtimeFlags, handles, cancelled, config, disposed, sessionOpen,
                 storeVars, caller, callback, closeVars>>

(* The loop returns, an Exception becomes a failed result, or a            *)
(* KeyboardInterrupt leaves without any result.                            *)
LeaveLoop(r) ==
  /\ At(r, "loop", "restore")
  /\ resultless' \in {resultless, resultless \cup {r}}
  /\ UNCHANGED <<runtimeFlags, handles, cancelled, presetVars, record, warned, caller,
                 callback, closeVars>>

(* Mutant: a run that never got into the loop restores nothing. *)
RestoreConfigMutant(r) ==
  /\ At(r, "restore", "complete")
  /\ config' = (IF claimed THEN Nobody ELSE config)
  /\ UNCHANGED <<runtimeFlags, handles, cancelled, claimed, disposed, sessionOpen,
                 storeVars, caller, callback, closeVars>>

(* Mutant: the run is released before its record is completed. *)
ReleaseEarlyMutant(r) ==
  /\ At(r, "restore", "complete")
  /\ config' = Nobody
  /\ tokens' = tokens \ {r}
  /\ UNCHANGED <<closed, started, handles, cancelled, claimed, disposed, sessionOpen,
                 storeVars, caller, callback, closeVars>>

RestoreConfig(r) ==
  /\ At(r, "restore", "complete")
  /\ config' = Nobody
  /\ UNCHANGED <<runtimeFlags, handles, cancelled, claimed, disposed, sessionOpen,
                 storeVars, caller, callback, closeVars>>

(* store.complete, when there is a result: an unknown run or any other     *)
(* error is kept as a warning.                                             *)
CompleteRecord(r) ==
  /\ At(r, "complete", "release")
  /\ \/ r \in resultless /\ UNCHANGED <<record, warned>>
     \/ /\ r \notin resultless
        /\ record[r] = "running"
        /\ record' = [record EXCEPT ![r] = "complete"]
        /\ UNCHANGED warned
     \/ r \notin resultless /\ warned' = warned \cup {r} /\ UNCHANGED record
  /\ UNCHANGED <<runtimeFlags, handles, cancelled, presetVars, resultless, caller, callback,
                 closeVars>>

Release(r) ==
  /\ At(r, "release", IF caller[r] = "inline" THEN "done" ELSE "settle")
  /\ tokens' = tokens \ {r}
  /\ UNCHANGED <<closed, started, handles, cancelled, presetVars, storeVars, caller,
                 callback, closeVars>>

(* The future of a started run is done, then its callbacks run. *)
SettleFuture(r) ==
  /\ At(r, "settle", "call_back")
  /\ UNCHANGED <<runtimeFlags, handles, cancelled, presetVars, storeVars, caller,
                 callback, closeVars>>

CallBack(r) ==
  /\ At(r, "call_back", "done")
  /\ handles' = (IF r \in callback THEN handles \ {r} ELSE handles)
  /\ UNCHANGED <<runtimeFlags, cancelled, presetVars, storeVars, caller, callback, closeVars>>

(* RunHandle.cancel; for run(), the host's own token. *)
CancelHandle(r) ==
  /\ caller[r] \in {"inline", "returned"}
  /\ worker[r] # "done"
  /\ cancelled' = cancelled \cup {r}
  /\ UNCHANGED <<runtimeFlags, handles, presetVars, storeVars, caller, worker, callback,
                 closeVars>>

(***************************************************************************)
(* close().                                                                *)
(***************************************************************************)
Move(c, from, to) == closer[c] = from /\ closer' = [closer EXCEPT ![c] = to]

(* Under the lock: closed, and what is active now. *)
BeginClose(c) ==
  /\ Move(c, "idle", "cancel")
  /\ closed' = TRUE
  /\ seen' = [seen EXCEPT ![c] = [tokens |-> tokens, handles |-> handles]]
  /\ UNCHANGED <<started, tokens, handles, cancelled, presetVars, storeVars, caller,
                 worker, callback>>

(* Mutant: only runs with a registered handle are cancelled. *)
CancelActiveMutant(c) ==
  /\ Move(c, "cancel", "wait")
  /\ cancelled' = cancelled \cup seen[c].handles
  /\ UNCHANGED <<runtimeFlags, handles, presetVars, storeVars, caller, worker, callback, seen>>

CancelActive(c) ==
  /\ Move(c, "cancel", "wait")
  /\ cancelled' = cancelled \cup seen[c].tokens
  /\ UNCHANGED <<runtimeFlags, handles, presetVars, storeVars, caller, worker, callback, seen>>

(* handle.result(timeout) of every handle: a result, or the time is up. *)
EndWait(c) ==
  /\ Move(c, "wait", "decide")
  /\ UNCHANGED <<runtimeFlags, handles, cancelled, presetVars, storeVars, caller, worker,
                 callback, seen>>

(* Mutant: a run without a handle does not count as active. *)
DecideMutant(c) ==
  /\ \/ handles # {} /\ Move(c, "decide", "idle") /\ closed' = FALSE
     \/ handles = {} /\ Move(c, "decide", "close_preset") /\ UNCHANGED closed
  /\ UNCHANGED <<started, tokens, handles, cancelled, presetVars, storeVars, caller,
                 worker, callback, seen>>

(* Under the lock: still active, so open again and an error report; the    *)
(* host may call close() once more.                                        *)
Decide(c) ==
  /\ \/ tokens # {} /\ Move(c, "decide", "idle") /\ closed' = FALSE
     \/ tokens = {} /\ Move(c, "decide", "close_preset") /\ UNCHANGED closed
  /\ UNCHANGED <<started, tokens, handles, cancelled, presetVars, storeVars, caller,
                 worker, callback, seen>>

ClosePreset(c) ==
  /\ Move(c, "close_preset", "close_session")
  /\ disposed' = TRUE
  /\ UNCHANGED <<runtimeFlags, handles, cancelled, config, claimed, sessionOpen, storeVars,
                 caller, worker, callback, seen>>

CloseSession(c) ==
  /\ Move(c, "close_session", "closed")
  /\ sessionOpen' = FALSE
  /\ UNCHANGED <<runtimeFlags, handles, cancelled, config, claimed, disposed, storeVars,
                 caller, worker, callback, seen>>

-----------------------------------------------------------------------------
Init ==
  /\ closed = FALSE /\ started = FALSE /\ tokens = {} /\ handles = {}
  /\ cancelled = {}
  /\ config = Nobody /\ claimed = FALSE /\ disposed = FALSE /\ sessionOpen \in BOOLEAN
  /\ record = [r \in Runs |-> "absent"] /\ warned = {} /\ resultless = {}
  /\ caller = [r \in Runs |-> "idle"]
  /\ worker = [r \in Runs |-> "none"]
  /\ callback = {}
  /\ closer = [c \in Closers |-> "idle"]
  /\ seen = [c \in Closers |-> [tokens |-> {}, handles |-> {}]]

StartStep(r) == Submit(r) \/ Register(r) \/ AddCallback(r)

ExecutionStep(r) ==
  \/ CheckOpen(r) \/ Enter(r) \/ CreateRecord(r) \/ AttachSession(r) \/ EnterLoop(r)
  \/ RestoreConfig(r) \/ CompleteRecord(r) \/ Release(r) \/ SettleFuture(r) \/ CallBack(r)

CloseStep(c) ==
  CancelActive(c) \/ EndWait(c) \/ Decide(c) \/ ClosePreset(c) \/ CloseSession(c)

Next ==
  \/ \E r \in Runs : Run(r) \/ Start(r) \/ StartStep(r) \/ ExecutionStep(r)
                       \/ LeaveLoop(r) \/ CancelHandle(r)
  \/ \E c \in Closers : BeginClose(c) \/ CloseStep(c)

(* Threads run on.  A loop whose token is set comes to an end, because it  *)
(* looks at the token between turns and calls; one that nobody cancels may *)
(* take for ever.                                                          *)
Fairness ==
  /\ \A r \in Runs : /\ WF_vars(StartStep(r))
                     /\ WF_vars(ExecutionStep(r))
                     /\ WF_vars(r \in cancelled /\ LeaveLoop(r))
  /\ \A c \in Closers : WF_vars(CloseStep(c))

Spec == Init /\ [][Next]_vars /\ Fairness

-----------------------------------------------------------------------------
TypeOK ==
  /\ closed \in BOOLEAN /\ started \in BOOLEAN
  /\ tokens \subseteq Runs /\ handles \subseteq Runs /\ cancelled \subseteq Runs
  /\ config \in Runs \cup {Nobody}
  /\ claimed \in BOOLEAN /\ disposed \in BOOLEAN /\ sessionOpen \in BOOLEAN
  /\ record \in [Runs -> Records] /\ warned \subseteq Runs /\ resultless \subseteq Runs
  /\ caller \in [Runs -> CallerPoints]
  /\ worker \in [Runs -> WorkerPoints]
  /\ callback \subseteq Runs
  /\ closer \in [Closers -> CloserPoints]
  /\ seen \in [Closers -> [tokens : SUBSET Runs, handles : SUBSET Runs]]

Using(r) == worker[r] \in {"enter", "create", "attach", "claim", "loop", "restore",
                           "complete", "release"}

(* close() never takes the preset's servers and resources away from a run  *)
(* that is past its last open check, whatever close() calls overlap, time  *)
(* out, or reopen the runtime under each other.                            *)
PresetKept == disposed => \A r \in Runs : ~Using(r)

(* No run is active without its token where close() looks for it, and once *)
(* nothing is active the preset's config is the host's again.              *)
ConfigRestored == tokens = {} => config = Nobody

(* A close() that reports success has nothing left to persist: every run   *)
(* that got a record has it completed, carries a warning, or was           *)
(* interrupted before it had a result.                                     *)
CleanCloseMeansSettled ==
  \A c \in Closers : closer[c] \in {"close_session", "closed"} =>
    \A r \in Runs : record[r] = "running" => r \in warned \cup resultless

(* However start() and the worker interleave, a finished run's handle is   *)
(* forgotten: _active_handles holds no run that close() could not end.     *)
HandlesForgotten ==
  \A r \in Runs : (caller[r] = "returned" /\ worker[r] = "done") => r \notin handles

(* A run that is active when close() begins comes to an end, even one that *)
(* start() has claimed but not yet submitted or registered.                *)
CloseStopsRun ==
  \A r \in Runs :
    (\E c \in Closers : closer[c] = "cancel" /\ r \in tokens) ~> r \notin tokens
=============================================================================
