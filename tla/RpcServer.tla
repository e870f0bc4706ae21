------------------------------ MODULE RpcServer ------------------------------
(***************************************************************************)
(* RPCServer (rpc.py): commands arrive as lines on stdin and go through    *)
(* one queue, `inbox'.  A reader thread fills it; the dispatcher takes     *)
(* from it between runs, and the cancel watcher of a run takes from it     *)
(* while the dispatcher is inside that run.  What the watcher took and is  *)
(* not a cancel is deferred and put back when the run is over.             *)
(*                                                                         *)
(* A line is its number in the input.  What the loop does is AgentLoop;    *)
(* here it is the interval between StartRun and LeaveLoop.                 *)
(***************************************************************************)
EXTENDS Naturals, Sequences, FiniteSets

CONSTANT Lines  \* bound: lines the client may send

ASSUME LinesAssumption == Lines \in Nat

EOF == 0
Line == 1..Lines

(* run stands for run and resume; other for the commands, and the lines    *)
(* that are none, which the dispatcher answers at once.                    *)
Commands == {"run", "cancel", "quit", "other"}

VARIABLES
  command,     \* line -> the command it holds
  read,        \* lines the reader has put into the inbox
  closed,      \* the reader has put EOF
  inbox,       \* _inbox
  deferred,    \* _deferred
  remaining,   \* `remaining' of _requeue_deferred
  pc,          \* where the dispatcher is
  active,      \* the line of the run in flight, 0 for none
  tokens,      \* CancelToken -> the cancel that set it, 0 if it is not set
  token,       \* config.cancel_token: the token of the run in flight
  inherited,   \* history: what had set that token when the run began
  watcher,     \* where the run's watcher thread is
  stopping,    \* stop_event of the watcher
  served,      \* history: lines consumed for good, in order
  overtaken,   \* history: something was read while lines were being put back
  endAhead     \* history: and that was the end of input

tokenVars == <<tokens, token, inherited>>
runVars == <<active, tokenVars>>
overtakes == <<overtaken, endAhead>>
watcherVars == <<watcher, stopping>>
vars == <<command, read, closed, inbox, deferred, remaining, pc, runVars, watcherVars,
          served, overtakes>>

DispatcherPoints == {"idle", "begin", "loop", "join", "requeue", "put_back", "report",
                     "returned"}
WatcherPoints == {"off", "check", "get"}

(* The presets of a preset_factory may all bring the same token; any other *)
(* token is of one run only.  Nobody but the watcher sets a token here.    *)
Tokens == {"minted", "preset"}
cancelledBy == tokens[token]

Take(point) == inbox # <<>> /\ pc = point /\ inbox' = Tail(inbox)

(***************************************************************************)
(* The reader thread.                                                      *)
(***************************************************************************)
PuttingBack == pc = "put_back" /\ deferred \o remaining # <<>>

ReadLine ==
  /\ ~closed
  /\ read < Lines
  /\ read' = read + 1
  /\ inbox' = Append(inbox, read')
  /\ overtaken' = (overtaken \/ PuttingBack)
  /\ UNCHANGED <<command, closed, deferred, remaining, pc, runVars, watcherVars, served,
                 endAhead>>

ReadEnd ==
  /\ ~closed
  /\ closed' = TRUE
  /\ inbox' = Append(inbox, EOF)
  /\ overtaken' = (overtaken \/ PuttingBack)
  /\ endAhead' = PuttingBack
  /\ UNCHANGED <<command, read, deferred, remaining, pc, runVars, watcherVars, served>>

(***************************************************************************)
(* The dispatcher: serve_forever.                                          *)
(***************************************************************************)
(* EOF and quit end it, a cancel has nothing to stop, a run begins. *)
Dispatch ==
  /\ Take("idle")
  /\ LET line == Head(inbox) IN
       IF line = EOF
       THEN pc' = "returned" /\ UNCHANGED <<served, active>>
       ELSE /\ served' = Append(served, line)
            /\ pc' = CASE command[line] = "quit" -> "returned"
                       [] command[line] = "run" -> "begin"
                       [] OTHER -> "idle"
            /\ active' = IF command[line] = "run" THEN line ELSE active
  /\ UNCHANGED <<command, read, closed, deferred, remaining, tokenVars, watcherVars,
                 overtakes>>

(* cmd_run refuses, or no fresh preset can be built: an answer, no run. *)
RefuseRun ==
  /\ pc = "begin"
  /\ pc' = "idle"
  /\ active' = 0
  /\ UNCHANGED <<command, read, closed, inbox, deferred, remaining, tokenVars, watcherVars,
                 served, overtakes>>

(* The token that the fresh preset brings is used as it is, else one is    *)
(* minted.  The watcher is always a new one.                               *)
StartRun ==
  /\ pc = "begin"
  /\ pc' = "loop"
  /\ tokens' = [tokens EXCEPT !["minted"] = 0]
  /\ token' \in Tokens
  /\ inherited' = tokens'[token']
  /\ deferred' = <<>>
  /\ watcher' = "check" /\ stopping' = FALSE
  /\ UNCHANGED <<command, read, closed, inbox, remaining, active, served, overtakes>>

(* The loop returned or raised, and its generator is closed. *)
LeaveLoop ==
  /\ pc = "loop"
  /\ pc' = "join"
  /\ stopping' = TRUE
  /\ UNCHANGED <<command, read, closed, inbox, deferred, remaining, runVars, watcher, served,
                 overtakes>>

(* watcher.join: its two seconds are ample for one poll of 50 ms. *)
JoinWatcher ==
  /\ pc = "join"
  /\ watcher = "off"
  /\ pc' = (IF deferred = <<>> THEN "report" ELSE "requeue")
  /\ UNCHANGED <<command, read, closed, inbox, deferred, remaining, runVars, watcherVars,
                 served, overtakes>>

(* Mutant: what was taken last goes back first. *)
DrainMutant ==
  /\ pc = "requeue"
  /\ IF inbox = <<>>
     THEN pc' = "put_back" /\ UNCHANGED <<inbox, remaining>>
     ELSE /\ remaining' = <<Head(inbox)>> \o remaining
          /\ inbox' = Tail(inbox)
          /\ UNCHANGED pc
  /\ UNCHANGED <<command, read, closed, deferred, runVars, watcherVars, served, overtakes>>

(* _requeue_deferred: first everything still in the inbox is taken out, *)
Drain ==
  /\ pc = "requeue"
  /\ IF inbox = <<>>
     THEN pc' = "put_back" /\ UNCHANGED <<inbox, remaining>>
     ELSE /\ remaining' = Append(remaining, Head(inbox))
          /\ inbox' = Tail(inbox)
          /\ UNCHANGED pc
  /\ UNCHANGED <<command, read, closed, deferred, runVars, watcherVars, served, overtakes>>

(* Mutant: what was in the inbox goes back ahead of the deferred lines. *)
PutBackMutant ==
  /\ pc = "put_back"
  /\ inbox' = inbox \o remaining \o deferred
  /\ remaining' = <<>> /\ deferred' = <<>>
  /\ pc' = "report"
  /\ UNCHANGED <<command, read, closed, runVars, watcherVars, served, overtakes>>

(* then the deferred lines are put, one by one, and the others after them. *)
PutBack ==
  /\ pc = "put_back"
  /\ \/ /\ deferred # <<>>
        /\ inbox' = Append(inbox, Head(deferred))
        /\ deferred' = Tail(deferred)
        /\ UNCHANGED <<pc, remaining>>
     \/ /\ deferred = <<>> /\ remaining # <<>>
        /\ inbox' = Append(inbox, Head(remaining))
        /\ remaining' = Tail(remaining)
        /\ UNCHANGED <<pc, deferred>>
     \/ /\ deferred = <<>> /\ remaining = <<>>
        /\ pc' = "report"
        /\ UNCHANGED <<inbox, deferred, remaining>>
  /\ UNCHANGED <<command, read, closed, runVars, watcherVars, served, overtakes>>

(* The done frame. *)
Report ==
  /\ pc = "report"
  /\ pc' = "idle"
  /\ active' = 0
  /\ UNCHANGED <<command, read, closed, inbox, deferred, remaining, tokenVars, watcherVars,
                 served, overtakes>>

(***************************************************************************)
(* The cancel watcher of the run.                                          *)
(***************************************************************************)
WatcherChecks ==
  /\ watcher = "check"
  /\ watcher' = (IF stopping THEN "off" ELSE "get")
  /\ UNCHANGED <<command, read, closed, inbox, deferred, remaining, pc, runVars, stopping,
                 served, overtakes>>

WatcherTimesOut ==
  /\ watcher = "get"
  /\ inbox = <<>>
  /\ watcher' = "check"
  /\ UNCHANGED <<command, read, closed, inbox, deferred, remaining, pc, runVars, stopping,
                 served, overtakes>>

(* cancel is idempotent: what set the token first stays. *)
Trip(line) == tokens' = [tokens EXCEPT ![token] = IF @ = 0 THEN line ELSE @]

(* Mutant: EOF is taken and not left for the dispatcher. *)
WatcherGetsMutant ==
  /\ watcher = "get"
  /\ inbox # <<>>
  /\ LET line == Head(inbox) IN
       \/ /\ line = EOF
          /\ watcher' = "off"
          /\ UNCHANGED <<deferred, tokens, served>>
       \/ /\ line # EOF /\ command[line] = "cancel"
          /\ watcher' = "check"
          /\ Trip(line)
          /\ served' = Append(served, line)
          /\ UNCHANGED deferred
       \/ /\ line # EOF /\ command[line] # "cancel"
          /\ watcher' = "check"
          /\ deferred' = Append(deferred, line)
          /\ UNCHANGED <<tokens, served>>
  /\ inbox' = Tail(inbox)
  /\ UNCHANGED <<command, read, closed, remaining, pc, active, token, inherited, stopping,
                 overtakes>>

(* Mutant: the watcher ends with the first line that is no cancel. *)
WatcherQuitsMutant ==
  /\ watcher = "get"
  /\ inbox # <<>>
  /\ LET line == Head(inbox) IN
       IF line # EOF /\ command[line] = "cancel"
       THEN /\ watcher' = "check"
            /\ Trip(line)
            /\ served' = Append(served, line)
            /\ inbox' = Tail(inbox)
            /\ UNCHANGED deferred
       ELSE watcher' = "off" /\ UNCHANGED <<inbox, deferred, tokens, served>>
  /\ UNCHANGED <<command, read, closed, remaining, pc, active, token, inherited, stopping,
                 overtakes>>

(* Mutant: what is no cancel is dropped. *)
WatcherDropsMutant ==
  /\ watcher = "get"
  /\ inbox # <<>>
  /\ LET line == Head(inbox) IN
       IF line = EOF
       THEN /\ watcher' = "off"
            /\ UNCHANGED <<inbox, tokens, served>>
       ELSE /\ watcher' = "check"
            /\ IF command[line] = "cancel" THEN Trip(line) ELSE UNCHANGED tokens
            /\ served' = (IF command[line] = "cancel" THEN Append(served, line) ELSE served)
            /\ inbox' = Tail(inbox)
  /\ UNCHANGED <<command, read, closed, deferred, remaining, pc, active, token, inherited, stopping,
                 overtakes>>

(* One item: EOF goes back and ends the watcher, a cancel sets the token,  *)
(* anything else is deferred.                                              *)
WatcherGets ==
  /\ watcher = "get"
  /\ inbox # <<>>
  /\ LET line == Head(inbox) IN
       \/ /\ line = EOF
          /\ watcher' = "off"
          /\ inbox' = Append(Tail(inbox), EOF)
          /\ UNCHANGED <<deferred, tokens, served>>
       \/ /\ line # EOF /\ command[line] = "cancel"
          /\ watcher' = "check"
          /\ inbox' = Tail(inbox)
          /\ Trip(line)
          /\ served' = Append(served, line)
          /\ UNCHANGED deferred
       \/ /\ line # EOF /\ command[line] # "cancel"
          /\ watcher' = "check"
          /\ inbox' = Tail(inbox)
          /\ deferred' = Append(deferred, line)
          /\ UNCHANGED <<tokens, served>>
  /\ UNCHANGED <<command, read, closed, remaining, pc, active, token, inherited, stopping,
                 overtakes>>

-----------------------------------------------------------------------------
Init ==
  /\ command \in [Line -> Commands]
  /\ read = 0 /\ closed = FALSE
  /\ inbox = <<>> /\ deferred = <<>> /\ remaining = <<>>
  /\ pc = "idle" /\ active = 0
  /\ tokens = [t \in Tokens |-> 0] /\ token = "minted" /\ inherited = 0
  /\ watcher = "off" /\ stopping = FALSE
  /\ served = <<>> /\ overtaken = FALSE /\ endAhead = FALSE

ReaderStep == ReadLine \/ ReadEnd

DispatcherStep ==
  Dispatch \/ RefuseRun \/ StartRun \/ JoinWatcher \/ Drain \/ PutBack \/ Report

WatcherStep == WatcherChecks \/ WatcherTimesOut \/ WatcherGets

Next == ReaderStep \/ DispatcherStep \/ LeaveLoop \/ WatcherStep

(* Server threads run on.  A run whose token is set ends; one that nobody  *)
(* cancels may go on for ever, and the client may send nothing more.       *)
Fairness ==
  /\ WF_vars(DispatcherStep)
  /\ WF_vars(WatcherStep)
  /\ WF_vars(cancelledBy # 0 /\ LeaveLoop)

Spec == Init /\ [][Next]_vars /\ Fairness

-----------------------------------------------------------------------------
Copies(ss, line) == Cardinality({k \in DOMAIN ss : ss[k] = line})

(* However watcher and dispatcher pass lines to and fro, each line that    *)
(* was read is in one place: waiting, set aside, or consumed once.         *)
EachLineOnce ==
  \A line \in 1..read :
    Copies(inbox, line) + Copies(deferred, line) + Copies(remaining, line)
      + Copies(served, line) = 1

Order(line) == command[line] # "cancel"
InOrder ==
  \A j, k \in DOMAIN served :
    j < k /\ Order(served[j]) /\ Order(served[k]) => served[j] < served[k]

(* Every line that was read is consumed, or a quit ended the server before. *)
AllServed == Len(served) = read \/ \E k \in DOMAIN served : command[served[k]] = "quit"

(* Commands are carried out in the order in which they were sent, and all  *)
(* of them before the end of input, although some were set aside during a  *)
(* run, as long as the reader was quiet while they were put back.          *)
OrderKept ==
  ~overtaken =>
    /\ InOrder
    /\ pc = "returned" => AllServed

(* "preserving order ahead of anything the reader queued after them"       *)
(* (rpc.py, _requeue_deferred): lines that were set aside are carried out  *)
(* in their place whatever the reader does while they are put back.        *)
DeferredKeepTheirPlace == InOrder

(* However late it is read and whatever waits before it, a cancel stops no *)
(* run that was sent after it, as long as the reader was quiet while lines *)
(* were put back.  The one exception is a run whose preset brought a token *)
(* that the cancel had already set: such a token is reused, not replaced   *)
(* (rpc.py:577-584), and every later run that brings it is stopped too.    *)
CancelStopsItsRun ==
  (~overtaken /\ pc \in {"loop", "join"} /\ cancelledBy # 0) =>
    cancelledBy > active \/ cancelledBy = inherited

CancelWaits == \E k \in DOMAIN inbox : inbox[k] # EOF /\ command[inbox[k]] = "cancel"

(* A cancel that arrives during a run ends it, whatever waits before it.   *)
CancelEndsRun == (pc = "loop" /\ ~overtaken /\ CancelWaits) ~> (pc # "loop" \/ overtaken)

(* After the end of input the server carries out every line that was read, *)
(* up to a quit, and stops, unless a run that nobody cancels goes on for   *)
(* ever.  If the end of input itself was read while lines were being put   *)
(* back, it may stand before them, and the server only stops.              *)
ServedToTheEnd ==
  \/ <>[](pc = "loop" /\ cancelledBy = 0)
  \/ closed ~> (pc = "returned" /\ (AllServed \/ endAhead))
=============================================================================
