------------------------- MODULE AgentRuntimeProofs -------------------------
(***************************************************************************)
(* What AgentRuntime's safety rests on, for any number of host threads.    *)
(* The invariant says where a run's token, record and handle are while its *)
(* threads are on their way, and that a runtime which began to close can    *)
(* only be open again when it is already used up.                          *)
(***************************************************************************)
EXTENDS AgentRuntime, TLAPS

(* A claimed run keeps its token until release, and only a claimed run has *)
(* a worker.                                                               *)
TokenHeld ==
  \A r \in Runs :
    /\ caller[r] = "submit" \/ worker[r] = "check" \/ Using(r) => r \in tokens
    /\ caller[r] \in {"idle", "submit"} => worker[r] = "none"

(* Single use: whatever close() does to `closed', no later claim succeeds. *)
UsedUp ==
  /\ tokens # {} => started
  /\ \A c \in Closers : closer[c] # "idle" => closed \/ started
  /\ \A c \in Closers :
       closer[c] \in {"close_preset", "close_session", "closed"} => tokens = {}
  /\ disposed => tokens = {} /\ (closed \/ started)

(* The preset's config belongs to a run that will restore it. *)
ConfigOwned ==
  config # Nobody => worker[config] \in {"create", "attach", "claim", "loop", "restore"}

(* An open record belongs to a run that will still complete it. *)
RecordOwned ==
  \A r \in Runs : record[r] = "running" =>
    \/ worker[r] \in {"attach", "claim", "loop", "restore", "complete"}
    \/ r \in warned \cup resultless

(* A registered handle has a caller or a callback that will take it away. *)
HandleOwned ==
  \A r \in Runs : r \in handles =>
    \/ caller[r] = "add_callback"
    \/ caller[r] = "returned" /\ r \in callback /\ worker[r] # "done"

Inv == TypeOK /\ TokenHeld /\ UsedUp /\ ConfigOwned /\ RecordOwned /\ HandleOwned

(* The runtime starts unused. *)
LEMMA InitInv == Init => Inv
<1> SUFFICES ASSUME Init PROVE Inv
  OBVIOUS
<1>1. TypeOK
  BY DEF Init, TypeOK, CallerPoints, WorkerPoints, CloserPoints, Records
<1>2. TokenHeld /\ RecordOwned /\ HandleOwned
  BY DEF Init, TokenHeld, RecordOwned, HandleOwned, Using
<1>3. UsedUp /\ ConfigOwned
  BY DEF Init, UsedUp, ConfigOwned
<1>4. QED
  BY <1>1, <1>2, <1>3 DEF Inv

(* run() and start() claim only a runtime that nobody closed or used. *)
LEMMA ClaimStep ==
  ASSUME Inv, NEW r \in Runs, Run(r) \/ Start(r)
  PROVE  Inv'
<1> USE NobodyAssumption DEF Inv, vars, runtimeFlags, presetVars, storeVars, closeVars
<1>1. CASE Run(r)
  <2>1. TypeOK'
    BY <1>1 DEF TypeOK, Run, Claim, Claimable, CallerPoints, WorkerPoints
  <2>2. TokenHeld' /\ UsedUp'
    BY <1>1 DEF TypeOK, TokenHeld, UsedUp, Using, Run, Claim, Claimable
  <2>3. ConfigOwned' /\ RecordOwned' /\ HandleOwned'
    BY <1>1 DEF TypeOK, TokenHeld, ConfigOwned, RecordOwned, HandleOwned, Run, Claim, Claimable
  <2>4. QED
    BY <2>1, <2>2, <2>3
<1>2. CASE Start(r)
  <2>1. TypeOK'
    BY <1>2 DEF TypeOK, Start, Claim, Claimable, CallerPoints, WorkerPoints
  <2>2. TokenHeld' /\ UsedUp'
    BY <1>2 DEF TypeOK, TokenHeld, UsedUp, Using, Start, Claim, Claimable
  <2>3. ConfigOwned' /\ RecordOwned' /\ HandleOwned'
    BY <1>2
       DEF TypeOK, TokenHeld, ConfigOwned, RecordOwned, HandleOwned, Start, Claim, Claimable
  <2>4. QED
    BY <2>1, <2>2, <2>3
<1>3. QED
  BY <1>1, <1>2

(* The thread of start() hands the claimed run to a worker, then registers it. *)
LEMMA StartThreadStep ==
  ASSUME Inv, NEW r \in Runs,
         \/ Submit(r) \/ Register(r) \/ AddCallback(r)
         \/ CancelHandle(r)
  PROVE  Inv'
<1> USE NobodyAssumption DEF Inv, vars, runtimeFlags, presetVars, storeVars, closeVars
<1>1. CASE Submit(r)
  <2>1. TypeOK'
    BY <1>1 DEF TypeOK, Submit, Finished, CallerPoints, WorkerPoints
  <2>2. TokenHeld' /\ UsedUp'
    BY <1>1 DEF TypeOK, TokenHeld, UsedUp, Using, Submit, Finished
  <2>3. ConfigOwned' /\ RecordOwned' /\ HandleOwned'
    BY <1>1 DEF TypeOK, TokenHeld, ConfigOwned, RecordOwned, HandleOwned, Submit, Finished
  <2>4. QED
    BY <2>1, <2>2, <2>3
<1>2. CASE Register(r)
  <2>1. TypeOK'
    BY <1>2 DEF TypeOK, Register, Finished, CallerPoints, WorkerPoints
  <2>2. TokenHeld' /\ UsedUp'
    BY <1>2 DEF TypeOK, TokenHeld, UsedUp, Using, Register, Finished
  <2>3. ConfigOwned' /\ RecordOwned' /\ HandleOwned'
    BY <1>2 DEF TypeOK, TokenHeld, ConfigOwned, RecordOwned, HandleOwned, Register, Finished
  <2>4. QED
    BY <2>1, <2>2, <2>3
<1>3. CASE AddCallback(r)
  <2>1. TypeOK'
    BY <1>3 DEF TypeOK, AddCallback, Finished, CallerPoints, WorkerPoints
  <2>2. TokenHeld' /\ UsedUp'
    BY <1>3 DEF TypeOK, TokenHeld, UsedUp, Using, AddCallback, Finished
  <2>3. ConfigOwned' /\ RecordOwned' /\ HandleOwned'
    BY <1>3 DEF TypeOK, TokenHeld, ConfigOwned, RecordOwned, HandleOwned, AddCallback, Finished
  <2>4. QED
    BY <2>1, <2>2, <2>3
<1>4. CASE CancelHandle(r)
  <2>1. TypeOK'
    BY <1>4 DEF TypeOK, CancelHandle, Finished, CallerPoints, WorkerPoints
  <2>2. TokenHeld' /\ UsedUp'
    BY <1>4 DEF TypeOK, TokenHeld, UsedUp, Using, CancelHandle, Finished
  <2>3. ConfigOwned' /\ RecordOwned' /\ HandleOwned'
    BY <1>4
       DEF TypeOK, TokenHeld, ConfigOwned, RecordOwned, HandleOwned, CancelHandle, Finished
  <2>4. QED
    BY <2>1, <2>2, <2>3
<1>5. QED
  BY <1>1, <1>2, <1>3, <1>4

(* The worker on its way into the loop. *)
LEMMA EnterStep ==
  ASSUME Inv, NEW r \in Runs,
         \/ CheckOpen(r) \/ Enter(r) \/ CreateRecord(r)
         \/ AttachSession(r) \/ EnterLoop(r)
  PROVE  Inv'
<1> USE NobodyAssumption DEF Inv, vars, runtimeFlags, presetVars, storeVars, closeVars
<1>1. CASE CheckOpen(r)
  <2>1. TypeOK'
    BY <1>1 DEF TypeOK, CheckOpen, At, WorkerPoints, Records
  <2>2. TokenHeld' /\ UsedUp'
    BY <1>1 DEF TypeOK, TokenHeld, UsedUp, Using, CheckOpen, At
  <2>3. ConfigOwned' /\ RecordOwned' /\ HandleOwned'
    BY <1>1 DEF TypeOK, TokenHeld, ConfigOwned, RecordOwned, HandleOwned, CheckOpen, At
  <2>4. QED
    BY <2>1, <2>2, <2>3
<1>2. CASE Enter(r)
  <2>1. TypeOK'
    BY <1>2 DEF TypeOK, Enter, At, WorkerPoints, Records
  <2>2. TokenHeld' /\ UsedUp'
    BY <1>2 DEF TypeOK, TokenHeld, UsedUp, Using, Enter, At
  <2>3. ConfigOwned' /\ RecordOwned' /\ HandleOwned'
    BY <1>2 DEF TypeOK, TokenHeld, ConfigOwned, RecordOwned, HandleOwned, Enter, At
  <2>4. QED
    BY <2>1, <2>2, <2>3
<1>3. CASE CreateRecord(r)
  <2>1. TypeOK'
    BY <1>3 DEF TypeOK, CreateRecord, At, WorkerPoints, Records
  <2>2. TokenHeld' /\ UsedUp'
    BY <1>3 DEF TypeOK, TokenHeld, UsedUp, Using, CreateRecord, At
  <2>3. ConfigOwned' /\ RecordOwned' /\ HandleOwned'
    BY <1>3 DEF TypeOK, TokenHeld, ConfigOwned, RecordOwned, HandleOwned, CreateRecord, At
  <2>4. QED
    BY <2>1, <2>2, <2>3
<1>4. CASE AttachSession(r)
  <2>1. TypeOK'
    BY <1>4 DEF TypeOK, AttachSession, At, WorkerPoints, Records
  <2>2. TokenHeld' /\ UsedUp'
    BY <1>4 DEF TypeOK, TokenHeld, UsedUp, Using, AttachSession, At
  <2>3. ConfigOwned' /\ RecordOwned' /\ HandleOwned'
    BY <1>4 DEF TypeOK, TokenHeld, ConfigOwned, RecordOwned, HandleOwned, AttachSession, At
  <2>4. QED
    BY <2>1, <2>2, <2>3
<1>5. CASE EnterLoop(r)
  <2>1. TypeOK'
    BY <1>5 DEF TypeOK, EnterLoop, At, WorkerPoints, Records
  <2>2. TokenHeld' /\ UsedUp'
    BY <1>5 DEF TypeOK, TokenHeld, UsedUp, Using, EnterLoop, At
  <2>3. ConfigOwned' /\ RecordOwned' /\ HandleOwned'
    BY <1>5 DEF TypeOK, TokenHeld, ConfigOwned, RecordOwned, HandleOwned, EnterLoop, At
  <2>4. QED
    BY <2>1, <2>2, <2>3
<1>6. QED
  BY <1>1, <1>2, <1>3, <1>4, <1>5

(* The worker on its way out. *)
LEMMA LeaveStep ==
  ASSUME Inv, NEW r \in Runs,
         \/ LeaveLoop(r) \/ RestoreConfig(r) \/ CompleteRecord(r)
         \/ Release(r) \/ SettleFuture(r) \/ CallBack(r)
  PROVE  Inv'
<1> USE NobodyAssumption DEF Inv, vars, runtimeFlags, presetVars, storeVars, closeVars
<1>1. CASE LeaveLoop(r)
  <2>1. TypeOK'
    BY <1>1 DEF TypeOK, LeaveLoop, At, WorkerPoints, Records
  <2>2. TokenHeld' /\ UsedUp'
    BY <1>1 DEF TypeOK, TokenHeld, UsedUp, Using, LeaveLoop, At
  <2>3. ConfigOwned' /\ RecordOwned' /\ HandleOwned'
    BY <1>1 DEF TypeOK, TokenHeld, ConfigOwned, RecordOwned, HandleOwned, LeaveLoop, At
  <2>4. QED
    BY <2>1, <2>2, <2>3
<1>2. CASE RestoreConfig(r)
  <2>1. TypeOK'
    BY <1>2 DEF TypeOK, RestoreConfig, At, WorkerPoints, Records
  <2>2. TokenHeld' /\ UsedUp'
    BY <1>2 DEF TypeOK, TokenHeld, UsedUp, Using, RestoreConfig, At
  <2>3. ConfigOwned' /\ RecordOwned' /\ HandleOwned'
    BY <1>2 DEF TypeOK, TokenHeld, ConfigOwned, RecordOwned, HandleOwned, RestoreConfig, At
  <2>4. QED
    BY <2>1, <2>2, <2>3
<1>3. CASE CompleteRecord(r)
  <2>1. TypeOK'
    BY <1>3 DEF TypeOK, CompleteRecord, At, WorkerPoints, Records
  <2>2. TokenHeld' /\ UsedUp'
    BY <1>3 DEF TypeOK, TokenHeld, UsedUp, Using, CompleteRecord, At
  <2>3. ConfigOwned' /\ RecordOwned' /\ HandleOwned'
    BY <1>3 DEF TypeOK, TokenHeld, ConfigOwned, RecordOwned, HandleOwned, CompleteRecord, At
  <2>4. QED
    BY <2>1, <2>2, <2>3
<1>4. CASE Release(r)
  <2>1. TypeOK'
    BY <1>4 DEF TypeOK, Release, At, WorkerPoints, Records
  <2>2. TokenHeld' /\ UsedUp'
    BY <1>4 DEF TypeOK, TokenHeld, UsedUp, Using, Release, At
  <2>3. ConfigOwned' /\ RecordOwned' /\ HandleOwned'
    BY <1>4 DEF TypeOK, TokenHeld, ConfigOwned, RecordOwned, HandleOwned, Release, At
  <2>4. QED
    BY <2>1, <2>2, <2>3
<1>5. CASE SettleFuture(r)
  <2>1. TypeOK'
    BY <1>5 DEF TypeOK, SettleFuture, At, WorkerPoints, Records
  <2>2. TokenHeld' /\ UsedUp'
    BY <1>5 DEF TypeOK, TokenHeld, UsedUp, Using, SettleFuture, At
  <2>3. ConfigOwned' /\ RecordOwned' /\ HandleOwned'
    BY <1>5 DEF TypeOK, TokenHeld, ConfigOwned, RecordOwned, HandleOwned, SettleFuture, At
  <2>4. QED
    BY <2>1, <2>2, <2>3
<1>6. CASE CallBack(r)
  <2>1. TypeOK'
    BY <1>6 DEF TypeOK, CallBack, At, WorkerPoints, Records
  <2>2. TokenHeld' /\ UsedUp'
    BY <1>6 DEF TypeOK, TokenHeld, UsedUp, Using, CallBack, At
  <2>3. ConfigOwned' /\ RecordOwned' /\ HandleOwned'
    BY <1>6 DEF TypeOK, TokenHeld, ConfigOwned, RecordOwned, HandleOwned, CallBack, At
  <2>4. QED
    BY <2>1, <2>2, <2>3
<1>7. QED
  BY <1>1, <1>2, <1>3, <1>4, <1>5, <1>6

(* The steps of close(). *)
LEMMA CloseThreadStep ==
  ASSUME Inv, NEW c \in Closers,
         \/ BeginClose(c) \/ CancelActive(c) \/ EndWait(c)
         \/ Decide(c) \/ ClosePreset(c) \/ CloseSession(c)
  PROVE  Inv'
<1> USE NobodyAssumption DEF Inv, vars, runtimeFlags, presetVars, storeVars, closeVars
<1>1. CASE BeginClose(c)
  <2>1. TypeOK'
    BY <1>1 DEF TypeOK, BeginClose, Move, CloserPoints
  <2>2. TokenHeld' /\ UsedUp'
    BY <1>1 DEF TypeOK, TokenHeld, UsedUp, Using, BeginClose, Move
  <2>3. ConfigOwned' /\ RecordOwned' /\ HandleOwned'
    BY <1>1 DEF TypeOK, TokenHeld, ConfigOwned, RecordOwned, HandleOwned, BeginClose, Move
  <2>4. QED
    BY <2>1, <2>2, <2>3
<1>2. CASE CancelActive(c)
  <2>1. TypeOK'
    BY <1>2 DEF TypeOK, CancelActive, Move, CloserPoints
  <2>2. TokenHeld' /\ UsedUp'
    BY <1>2 DEF TypeOK, TokenHeld, UsedUp, Using, CancelActive, Move
  <2>3. ConfigOwned' /\ RecordOwned' /\ HandleOwned'
    BY <1>2 DEF TypeOK, TokenHeld, ConfigOwned, RecordOwned, HandleOwned, CancelActive, Move
  <2>4. QED
    BY <2>1, <2>2, <2>3
<1>3. CASE EndWait(c)
  <2>1. TypeOK'
    BY <1>3 DEF TypeOK, EndWait, Move, CloserPoints
  <2>2. TokenHeld' /\ UsedUp'
    BY <1>3 DEF TypeOK, TokenHeld, UsedUp, Using, EndWait, Move
  <2>3. ConfigOwned' /\ RecordOwned' /\ HandleOwned'
    BY <1>3 DEF TypeOK, TokenHeld, ConfigOwned, RecordOwned, HandleOwned, EndWait, Move
  <2>4. QED
    BY <2>1, <2>2, <2>3
<1>4. CASE Decide(c)
  <2>1. TypeOK'
    BY <1>4 DEF TypeOK, Decide, Move, CloserPoints
  <2>2. TokenHeld' /\ UsedUp'
    BY <1>4 DEF TypeOK, TokenHeld, UsedUp, Using, Decide, Move
  <2>3. ConfigOwned' /\ RecordOwned' /\ HandleOwned'
    BY <1>4 DEF TypeOK, TokenHeld, ConfigOwned, RecordOwned, HandleOwned, Decide, Move
  <2>4. QED
    BY <2>1, <2>2, <2>3
<1>5. CASE ClosePreset(c)
  <2>1. TypeOK'
    BY <1>5 DEF TypeOK, ClosePreset, Move, CloserPoints
  <2>2. TokenHeld' /\ UsedUp'
    BY <1>5 DEF TypeOK, TokenHeld, UsedUp, Using, ClosePreset, Move
  <2>3. ConfigOwned' /\ RecordOwned' /\ HandleOwned'
    BY <1>5 DEF TypeOK, TokenHeld, ConfigOwned, RecordOwned, HandleOwned, ClosePreset, Move
  <2>4. QED
    BY <2>1, <2>2, <2>3
<1>6. CASE CloseSession(c)
  <2>1. TypeOK'
    BY <1>6 DEF TypeOK, CloseSession, Move, CloserPoints
  <2>2. TokenHeld' /\ UsedUp'
    BY <1>6 DEF TypeOK, TokenHeld, UsedUp, Using, CloseSession, Move
  <2>3. ConfigOwned' /\ RecordOwned' /\ HandleOwned'
    BY <1>6 DEF TypeOK, TokenHeld, ConfigOwned, RecordOwned, HandleOwned, CloseSession, Move
  <2>4. QED
    BY <2>1, <2>2, <2>3
<1>7. QED
  BY <1>1, <1>2, <1>3, <1>4, <1>5, <1>6

(* A step that changes nothing. *)
LEMMA StutterStep ==
  ASSUME Inv, UNCHANGED vars
  PROVE  Inv'
  BY DEF Inv, TypeOK, TokenHeld, UsedUp, ConfigOwned, RecordOwned, HandleOwned, Using,
         vars, runtimeFlags, presetVars, storeVars, closeVars

(* The invariant holds in every state of every run. *)
THEOREM RuntimeInvariant == Spec => []Inv
<1>1. Init => Inv
  BY InitInv
<1>2. Inv /\ [Next]_vars => Inv'
  <2> SUFFICES ASSUME Inv, [Next]_vars
               PROVE  Inv'
    OBVIOUS
  <2>1. CASE Next
    BY <2>1, ClaimStep, StartThreadStep, EnterStep, LeaveStep, CloseThreadStep
       DEF Next, StartStep, ExecutionStep, CloseStep
  <2>2. CASE UNCHANGED vars
    BY <2>2, StutterStep
  <2>3. QED
    BY <2>1, <2>2
<1>3. QED
  BY <1>1, <1>2, PTL DEF Spec

(* Every variable keeps to the values runtime.py can give it. *)
THEOREM RuntimeTyped == Spec => []TypeOK
  BY RuntimeInvariant, PTL DEF Inv

(* close() never disposes a preset that a run is using, with any number of *)
(* threads in run(), start() and close() (AgentRuntime.close, _claim).     *)
THEOREM PresetSafe == Spec => []PresetKept
<1>1. Inv => PresetKept
  BY DEF Inv, TokenHeld, UsedUp, PresetKept
<1>2. QED
  BY <1>1, RuntimeInvariant, PTL

(* Once no run is active, preset.config is the host's again (_execution).  *)
THEOREM ConfigSafe == Spec => []ConfigRestored
<1>1. Inv => ConfigRestored
  BY DEF Inv, TypeOK, ConfigOwned, TokenHeld, ConfigRestored, Using
<1>2. QED
  BY <1>1, RuntimeInvariant, PTL

(* A close() that reports success leaves no open record behind.            *)
THEOREM SettledSafe == Spec => []CleanCloseMeansSettled
<1>1. Inv => CleanCloseMeansSettled
  BY DEF Inv, UsedUp, RecordOwned, TokenHeld, CleanCloseMeansSettled, Using
<1>2. QED
  BY <1>1, RuntimeInvariant, PTL

(* The handle of a finished run is forgotten, however its threads raced.   *)
THEOREM HandlesSafe == Spec => []HandlesForgotten
<1>1. Inv => HandlesForgotten
  BY DEF Inv, HandleOwned, HandlesForgotten
<1>2. QED
  BY <1>1, RuntimeInvariant, PTL
=============================================================================
