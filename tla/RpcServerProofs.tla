-------------------------- MODULE RpcServerProofs --------------------------
(***************************************************************************)
(* The safety of the server for any number of lines.                       *)
(*                                                                         *)
(* EachLineOnce is not inductive: a run begins with no deferred lines,     *)
(* which is no loss only because none are left by then (DeferredInRun),    *)
(* and this holds because the watcher is joined before the deferred lines  *)
(* are put back (WatcherInRun).  OrderKept and CancelStopsItsRun follow    *)
(* from where each line stands among those that wait (LinedUp).            *)
(***************************************************************************)
EXTENDS RpcServer, FiniteSetTheorems, FunctionTheorems, SequenceTheorems, TLAPS

Same(x, line) == IF x = line THEN 1 ELSE 0
Read(line) == IF line <= read THEN 1 ELSE 0

Total(line) ==
  Copies(inbox, line) + Copies(deferred, line) + Copies(remaining, line)
    + Copies(served, line)

QueuesTyped ==
  /\ read \in Nat
  /\ inbox \in Seq(Nat) /\ deferred \in Seq(Nat) /\ remaining \in Seq(Nat)
  /\ served \in Seq(Nat)
WatcherInRun == watcher # "off" => pc \in {"loop", "join"}
DeferredInRun == deferred # <<>> => pc \in {"loop", "join", "requeue", "put_back"}
CountedOnce == \A line \in Nat \ {EOF} : Total(line) = Read(line)

QueueInv == QueuesTyped /\ WatcherInRun /\ DeferredInRun /\ CountedOnce

-----------------------------------------------------------------------------
(* The places that hold a line are finitely many. *)
LEMMA CopiesType ==
  ASSUME NEW ss \in Seq(Nat), NEW line
  PROVE  /\ IsFiniteSet({k \in DOMAIN ss : ss[k] = line})
         /\ Copies(ss, line) \in Nat
<1>1. IsFiniteSet(1..Len(ss)) /\ DOMAIN ss = 1..Len(ss)
  BY LenProperties, FS_Interval
<1>2. {k \in DOMAIN ss : ss[k] = line} \in SUBSET (1..Len(ss))
  BY <1>1
<1>3. IsFiniteSet({k \in DOMAIN ss : ss[k] = line})
  BY <1>1, <1>2, FS_Subset
<1> QED
  BY <1>3, FS_CardinalityType DEF Copies

(* Their number is a natural number, for every queue and line. *)
LEMMA CopiesNat == \A ss \in Seq(Nat) : \A line : Copies(ss, line) \in Nat
BY CopiesType

(* An empty queue holds no line. *)
LEMMA CopiesEmpty ==
  ASSUME NEW line
  PROVE  Copies(<<>>, line) = 0
<1>1. {k \in DOMAIN <<>> : (<<>>)[k] = line} = {}
  OBVIOUS
<1> QED
  BY <1>1, FS_EmptySet DEF Copies

(* Sets that correspond one to one have the same size. *)
LEMMA SameSize ==
  ASSUME NEW A, NEW B, NEW g \in [A -> B], IsFiniteSet(A),
         \A j, k \in A : g[j] = g[k] => j = k,
         \A b \in B : \E a \in A : g[a] = b
  PROVE  Cardinality(B) = Cardinality(A)
<1>1. g \in Bijection(A, B)
  BY Fun_IsBij
<1>2. ExistsBijection(A, B)
  BY <1>1 DEF ExistsBijection
<1> QED
  BY <1>2, FS_Bijection

(* put adds one copy of what is put. *)
LEMMA CopiesAppend ==
  ASSUME NEW ss \in Seq(Nat), NEW x \in Nat, NEW line
  PROVE  Copies(Append(ss, x), line) = Copies(ss, line) + Same(x, line)
<1> DEFINE S == {k \in DOMAIN ss : ss[k] = line}
           T == {k \in DOMAIN Append(ss, x) : Append(ss, x)[k] = line}
           n == Len(ss) + 1
<1>1. /\ Len(ss) \in Nat
      /\ DOMAIN ss = 1..Len(ss)
      /\ DOMAIN Append(ss, x) = 1..n
      /\ \A k \in 1..Len(ss) : Append(ss, x)[k] = ss[k]
      /\ Append(ss, x)[n] = x
  BY LenProperties, AppendProperties
<1>2. IsFiniteSet(S) /\ Cardinality(S) \in Nat
  BY CopiesType DEF Copies
<1> n \notin S
  BY <1>1
<1>3. CASE x = line
  <2>1. T = S \cup {n}
    BY <1>1, <1>3
  <2>2. Cardinality(T) = Cardinality(S) + 1
    BY <1>2, <2>1, FS_AddElement
  <2> QED
    BY <2>2, <1>3 DEF Copies, Same
<1>4. CASE x # line
  <2>1. T = S
    BY <1>1, <1>4
  <2>2. Copies(ss, line) = Cardinality(S) /\ Copies(Append(ss, x), line) = Cardinality(T)
    BY DEF Copies
  <2> HIDE DEF S, T
  <2> QED
    BY <2>1, <2>2, <1>2, <1>4 DEF Same
<1> QED
  BY <1>3, <1>4

(* get takes one copy of what is got. *)
LEMMA CopiesTail ==
  ASSUME NEW ss \in Seq(Nat), ss # <<>>, NEW line
  PROVE  Copies(ss, line) = Copies(Tail(ss), line) + Same(Head(ss), line)
<1> DEFINE S == {k \in DOMAIN ss : ss[k] = line}
           T == {k \in DOMAIN Tail(ss) : Tail(ss)[k] = line}
           R == S \ {1}
           f == [k \in T |-> k + 1]
<1>1. /\ Len(ss) \in Nat \ {0}
      /\ DOMAIN ss = 1..Len(ss)
      /\ Tail(ss) \in Seq(Nat)
      /\ DOMAIN Tail(ss) = 1..(Len(ss) - 1)
      /\ \A k \in 1..(Len(ss) - 1) : Tail(ss)[k] = ss[k + 1]
      /\ Head(ss) = ss[1]
  <2>1. /\ Tail(ss) \in Seq(Nat) /\ Len(Tail(ss)) = Len(ss) - 1
        /\ \A k \in 1..Len(Tail(ss)) : Tail(ss)[k] = ss[k + 1]
    BY HeadTailProperties
  <2>2. Len(ss) \in Nat \ {0} /\ DOMAIN ss = 1..Len(ss)
    BY LenProperties, EmptySeq
  <2> QED
    BY <2>1, <2>2, LenProperties
<1>2. /\ IsFiniteSet(S) /\ Cardinality(S) \in Nat
      /\ IsFiniteSet(T) /\ Cardinality(T) \in Nat
  BY <1>1, CopiesType DEF Copies
<1>3. Cardinality(R) = Cardinality(T)
  <2>1. \A k \in T : k + 1 \in R
    BY <1>1
  <2>2. \A j \in R : j - 1 \in T /\ f[j - 1] = j
    BY <1>1
  <2>3. \A j, k \in T : f[j] = f[k] => j = k
    BY <1>1
  <2>4. f \in [T -> R]
    BY <2>1
  <2>5. \A j \in R : \E k \in T : f[k] = j
    BY <2>2
  <2> HIDE DEF S, T, f
  <2> QED
    BY <2>3, <2>4, <2>5, <1>2, SameSize
<1>4. Cardinality(R) = IF 1 \in S THEN Cardinality(S) - 1 ELSE Cardinality(S)
  BY <1>2, FS_RemoveElement
<1>5. 1 \in S <=> Head(ss) = line
  BY <1>1
<1>6. Copies(ss, line) = Cardinality(S) /\ Copies(Tail(ss), line) = Cardinality(T)
  BY DEF Copies
<1> HIDE DEF S, T, R
<1> QED
  BY <1>2, <1>3, <1>4, <1>5, <1>6 DEF Same

-----------------------------------------------------------------------------
(* At the start nothing is read and nothing is queued. *)
LEMMA QueueInit == Init => QueueInv
<1> SUFFICES ASSUME Init PROVE QueueInv
  OBVIOUS
<1>1. QueuesTyped /\ WatcherInRun /\ DeferredInRun
  BY DEF Init, QueuesTyped, WatcherInRun, DeferredInRun
<1>2. CountedOnce
  BY CopiesEmpty DEF Init, CountedOnce, Total, Read, EOF
<1> QED
  BY <1>1, <1>2 DEF QueueInv

(* get takes the head of the inbox, and one copy of it. *)
LEMMA QueueMoves ==
  ASSUME QueuesTyped, inbox # <<>>
  PROVE  /\ Head(inbox) \in Nat /\ Tail(inbox) \in Seq(Nat)
         /\ \A line : Copies(inbox, line)
                        = Copies(Tail(inbox), line) + Same(Head(inbox), line)
BY CopiesTail, HeadTailProperties DEF QueuesTyped

(* Each queue holds a number of copies, before a step and after it. *)
LEMMA CopiesCounted ==
  ASSUME QueuesTyped, QueuesTyped', NEW line
  PROVE  /\ Copies(inbox, line) \in Nat /\ Copies(inbox', line) \in Nat
         /\ Copies(deferred, line) \in Nat /\ Copies(deferred', line) \in Nat
         /\ Copies(remaining, line) \in Nat /\ Copies(remaining', line) \in Nat
         /\ Copies(served, line) \in Nat /\ Copies(served', line) \in Nat
BY CopiesNat DEF QueuesTyped

(* What one queue gives up another takes: the total stays as it was. *)
LEMMA TotalKept ==
  ASSUME CountedOnce, QueuesTyped, UNCHANGED read, NEW line \in Nat \ {EOF},
         Total(line)' = Total(line)
  PROVE  Total(line)' = Read(line)'
BY DEF CountedOnce, Read

(* The reader adds the next line, or the end of input. *)
LEMMA ReaderKeeps == QueueInv /\ ReaderStep => QueueInv'
<1> SUFFICES ASSUME QueueInv, ReaderStep PROVE QueueInv'
  OBVIOUS
<1> USE DEF QueueInv
<1>1. WatcherInRun' /\ DeferredInRun'
  BY DEF ReaderStep, ReadLine, ReadEnd, WatcherInRun, DeferredInRun, watcherVars
<1>2. CASE ReadLine
  <2>1. read + 1 \in Nat /\ read' = read + 1 /\ inbox' = Append(inbox, read + 1)
    BY <1>2 DEF ReadLine, QueuesTyped
  <2>2. QueuesTyped'
    BY <1>2, <2>1, AppendProperties DEF ReadLine, QueuesTyped
  <2>3. ASSUME NEW line \in Nat \ {EOF} PROVE Total(line)' = Read(line)'
    <3>1. Copies(inbox', line) = Copies(inbox, line) + Same(read + 1, line)
      BY <2>1, CopiesAppend DEF QueuesTyped
    <3>2. Total(line) = Read(line)
      BY DEF CountedOnce
    <3>3. Total(line)' = Total(line) + Same(read + 1, line)
      BY <1>2, <3>1, CopiesNat DEF ReadLine, Total, QueuesTyped, Same
    <3> QED
      BY <2>1, <3>2, <3>3 DEF Same, Read, QueuesTyped
  <2> QED
    BY <1>1, <2>2, <2>3 DEF CountedOnce
<1>3. CASE ReadEnd
  <2>1. inbox' = Append(inbox, EOF) /\ EOF \in Nat
    BY <1>3 DEF ReadEnd, EOF
  <2>2. QueuesTyped'
    BY <1>3, <2>1, AppendProperties DEF ReadEnd, QueuesTyped
  <2>3. ASSUME NEW line \in Nat \ {EOF} PROVE Total(line)' = Read(line)'
    <3>1. Copies(inbox', line) = Copies(inbox, line) + 0
      BY <2>1, CopiesAppend DEF QueuesTyped, Same
    <3> QED
      BY <1>3, <3>1, CopiesNat DEF ReadEnd, Total, CountedOnce, QueuesTyped, Read
  <2> QED
    BY <1>1, <2>2, <2>3 DEF CountedOnce
<1> QED
  BY <1>2, <1>3 DEF ReaderStep

(* Steps of the dispatcher that leave every queue as it is. *)
LEMMA QuietKeeps ==
  ASSUME QueueInv, UNCHANGED <<read, inbox, deferred, remaining, served>>,
         WatcherInRun', DeferredInRun'
  PROVE  QueueInv'
BY DEF QueueInv, QueuesTyped, CountedOnce, Total, Read

(* The dispatcher. *)
LEMMA DispatcherKeeps == QueueInv /\ (DispatcherStep \/ LeaveLoop) => QueueInv'
<1> SUFFICES ASSUME QueueInv, DispatcherStep \/ LeaveLoop PROVE QueueInv'
  OBVIOUS
<1> USE DEF QueueInv
<1>1. WatcherInRun'
  BY DEF DispatcherStep, LeaveLoop, WatcherInRun, watcherVars, Dispatch, Take, RefuseRun,
         StartRun, JoinWatcher, Drain, PutBack, Report
<1>2. DeferredInRun'
  BY DEF DispatcherStep, LeaveLoop, DeferredInRun, Dispatch, Take, RefuseRun,
         StartRun, JoinWatcher, Drain, PutBack, Report
<1>3. CASE Dispatch
  <2>1. /\ inbox # <<>> /\ inbox' = Tail(inbox)
        /\ UNCHANGED <<read, deferred, remaining>>
    BY <1>3 DEF Dispatch, Take
  <2>2. CASE Head(inbox) = EOF
    <3>1. served' = served
      BY <1>3, <2>2 DEF Dispatch
    <3>2. QueuesTyped'
      BY <2>1, <3>1, QueueMoves DEF QueuesTyped
    <3>3. ASSUME NEW line \in Nat \ {EOF} PROVE Total(line)' = Read(line)'
      <4>1. Copies(inbox, line) = Copies(inbox', line) + 0
        BY <2>1, <2>2, QueueMoves DEF Same
      <4>2. Total(line)' = Total(line)
        BY <2>1, <3>1, <3>2, <4>1, CopiesCounted DEF Total
      <4> QED
        BY <2>1, <4>2, TotalKept
    <3> QED
      BY <1>1, <1>2, <3>2, <3>3 DEF CountedOnce
  <2>3. CASE Head(inbox) # EOF
    <3>1. served' = Append(served, Head(inbox))
      BY <1>3, <2>3 DEF Dispatch
    <3>2. QueuesTyped'
      BY <2>1, <3>1, QueueMoves, AppendProperties DEF QueuesTyped
    <3>3. ASSUME NEW line \in Nat \ {EOF} PROVE Total(line)' = Read(line)'
      <4>1. Copies(inbox, line) = Copies(inbox', line) + Same(Head(inbox), line)
        BY <2>1, QueueMoves
      <4>2. Copies(served', line) = Copies(served, line) + Same(Head(inbox), line)
        BY <2>1, <3>1, QueueMoves, CopiesAppend DEF QueuesTyped
      <4>3. \A x : Same(x, line) \in Nat
        BY DEF Same
      <4>4. Total(line)' = Total(line)
        BY <2>1, <3>2, <4>1, <4>2, <4>3, CopiesCounted DEF Total
      <4> QED
        BY <2>1, <4>4, TotalKept
    <3> QED
      BY <1>1, <1>2, <3>2, <3>3 DEF CountedOnce
  <2> QED
    BY <2>2, <2>3
<1>4. CASE RefuseRun
  BY <1>1, <1>2, <1>4, QuietKeeps DEF RefuseRun
<1>5. CASE StartRun
  <2>1. deferred = <<>>
    BY <1>5 DEF StartRun, DeferredInRun
  <2> QED
    BY <1>1, <1>2, <1>5, <2>1, QuietKeeps DEF StartRun
<1>6. CASE LeaveLoop
  BY <1>1, <1>2, <1>6, QuietKeeps DEF LeaveLoop
<1>7. CASE JoinWatcher
  BY <1>1, <1>2, <1>7, QuietKeeps DEF JoinWatcher
<1>8. CASE Drain
  <2>1. CASE inbox = <<>>
    BY <1>1, <1>2, <1>8, <2>1, QuietKeeps DEF Drain
  <2>2. CASE inbox # <<>>
    <3>1. /\ inbox' = Tail(inbox) /\ remaining' = Append(remaining, Head(inbox))
          /\ UNCHANGED <<read, deferred, served>>
      BY <1>8, <2>2 DEF Drain
    <3>2. QueuesTyped'
      BY <2>2, <3>1, QueueMoves, AppendProperties DEF QueuesTyped
    <3>3. ASSUME NEW line \in Nat \ {EOF} PROVE Total(line)' = Read(line)'
      <4>1. Copies(inbox, line) = Copies(inbox', line) + Same(Head(inbox), line)
        BY <2>2, <3>1, QueueMoves
      <4>2. Copies(remaining', line) = Copies(remaining, line) + Same(Head(inbox), line)
        BY <2>2, <3>1, QueueMoves, CopiesAppend DEF QueuesTyped
      <4>3. \A x : Same(x, line) \in Nat
        BY DEF Same
      <4>4. Total(line)' = Total(line)
        BY <3>1, <3>2, <4>1, <4>2, <4>3, CopiesCounted DEF Total
      <4> QED
        BY <3>1, <4>4, TotalKept
    <3> QED
      BY <1>1, <1>2, <3>2, <3>3 DEF CountedOnce
  <2> QED
    BY <2>1, <2>2
<1>9. CASE PutBack
  <2>1. CASE deferred # <<>>
    <3>1. /\ inbox' = Append(inbox, Head(deferred)) /\ deferred' = Tail(deferred)
          /\ UNCHANGED <<read, remaining, served>>
      BY <1>9, <2>1 DEF PutBack
    <3>2. Head(deferred) \in Nat /\ Tail(deferred) \in Seq(Nat)
      BY <2>1, HeadTailProperties DEF QueuesTyped
    <3>3. QueuesTyped'
      BY <3>1, <3>2, AppendProperties DEF QueuesTyped
    <3>4. ASSUME NEW line \in Nat \ {EOF} PROVE Total(line)' = Read(line)'
      <4>1. Copies(deferred, line) = Copies(deferred', line) + Same(Head(deferred), line)
        BY <2>1, <3>1, CopiesTail DEF QueuesTyped
      <4>2. Copies(inbox', line) = Copies(inbox, line) + Same(Head(deferred), line)
        BY <3>1, <3>2, CopiesAppend DEF QueuesTyped
      <4>3. \A x : Same(x, line) \in Nat
        BY DEF Same
      <4>4. Total(line)' = Total(line)
        BY <3>1, <3>3, <4>1, <4>2, <4>3, CopiesCounted DEF Total
      <4> QED
        BY <3>1, <4>4, TotalKept
    <3> QED
      BY <1>1, <1>2, <3>3, <3>4 DEF CountedOnce
  <2>2. CASE deferred = <<>> /\ remaining # <<>>
    <3>1. /\ inbox' = Append(inbox, Head(remaining)) /\ remaining' = Tail(remaining)
          /\ UNCHANGED <<read, deferred, served>>
      BY <1>9, <2>2 DEF PutBack
    <3>2. Head(remaining) \in Nat /\ Tail(remaining) \in Seq(Nat)
      BY <2>2, HeadTailProperties DEF QueuesTyped
    <3>3. QueuesTyped'
      BY <3>1, <3>2, AppendProperties DEF QueuesTyped
    <3>4. ASSUME NEW line \in Nat \ {EOF} PROVE Total(line)' = Read(line)'
      <4>1. Copies(remaining, line) = Copies(remaining', line) + Same(Head(remaining), line)
        BY <2>2, <3>1, CopiesTail DEF QueuesTyped
      <4>2. Copies(inbox', line) = Copies(inbox, line) + Same(Head(remaining), line)
        BY <3>1, <3>2, CopiesAppend DEF QueuesTyped
      <4>3. \A x : Same(x, line) \in Nat
        BY DEF Same
      <4>4. Total(line)' = Total(line)
        BY <3>1, <3>3, <4>1, <4>2, <4>3, CopiesCounted DEF Total
      <4> QED
        BY <3>1, <4>4, TotalKept
    <3> QED
      BY <1>1, <1>2, <3>3, <3>4 DEF CountedOnce
  <2>3. CASE deferred = <<>> /\ remaining = <<>>
    BY <1>1, <1>2, <1>9, <2>3, QuietKeeps DEF PutBack
  <2> QED
    BY <2>1, <2>2, <2>3
<1>10. CASE Report
  BY <1>1, <1>2, <1>10, QuietKeeps DEF Report
<1> QED
  BY <1>3, <1>4, <1>5, <1>6, <1>7, <1>8, <1>9, <1>10 DEF DispatcherStep

(* The cancel watcher. *)
LEMMA WatcherKeeps == QueueInv /\ WatcherStep => QueueInv'
<1> SUFFICES ASSUME QueueInv, WatcherStep PROVE QueueInv'
  OBVIOUS
<1> USE DEF QueueInv
<1>1. WatcherInRun'
  BY DEF WatcherStep, WatcherInRun, WatcherChecks, WatcherTimesOut, WatcherGets
<1>2. DeferredInRun'
  BY DEF WatcherStep, WatcherInRun, DeferredInRun, WatcherChecks, WatcherTimesOut, WatcherGets
<1>3. CASE WatcherChecks
  BY <1>1, <1>2, <1>3, QuietKeeps DEF WatcherChecks
<1>4. CASE WatcherTimesOut
  BY <1>1, <1>2, <1>4, QuietKeeps DEF WatcherTimesOut
<1>5. CASE WatcherGets
  <2>0. inbox # <<>> /\ UNCHANGED <<read, remaining>>
    BY <1>5 DEF WatcherGets
  <2>1. CASE /\ Head(inbox) = EOF /\ inbox' = Append(Tail(inbox), EOF)
             /\ UNCHANGED <<deferred, served>>
    <3>1. QueuesTyped'
      BY <2>0, <2>1, QueueMoves, AppendProperties DEF QueuesTyped
    <3>2. ASSUME NEW line \in Nat \ {EOF} PROVE Total(line)' = Read(line)'
      <4>1. Copies(inbox, line) = Copies(Tail(inbox), line) + Same(EOF, line)
        BY <2>0, <2>1, QueueMoves
      <4>2. Copies(inbox', line) = Copies(Tail(inbox), line) + Same(EOF, line)
        BY <2>0, <2>1, QueueMoves, CopiesAppend
      <4> QED
        BY <2>0, <2>1, <4>1, <4>2 DEF Total, CountedOnce, Read
    <3> QED
      BY <1>1, <1>2, <3>1, <3>2 DEF CountedOnce
  <2>2. CASE /\ inbox' = Tail(inbox) /\ served' = Append(served, Head(inbox))
             /\ UNCHANGED deferred
    <3>1. QueuesTyped'
      BY <2>0, <2>2, QueueMoves, AppendProperties DEF QueuesTyped
    <3>2. ASSUME NEW line \in Nat \ {EOF} PROVE Total(line)' = Read(line)'
      <4>1. Copies(inbox, line) = Copies(inbox', line) + Same(Head(inbox), line)
        BY <2>0, <2>2, QueueMoves
      <4>2. Copies(served', line) = Copies(served, line) + Same(Head(inbox), line)
        BY <2>0, <2>2, QueueMoves, CopiesAppend DEF QueuesTyped
      <4>3. \A x : Same(x, line) \in Nat
        BY DEF Same
      <4>4. Total(line)' = Total(line)
        BY <2>0, <2>2, <3>1, <4>1, <4>2, <4>3, CopiesCounted DEF Total
      <4> QED
        BY <2>0, <4>4, TotalKept
    <3> QED
      BY <1>1, <1>2, <3>1, <3>2 DEF CountedOnce
  <2>3. CASE /\ inbox' = Tail(inbox) /\ deferred' = Append(deferred, Head(inbox))
             /\ UNCHANGED served
    <3>1. QueuesTyped'
      BY <2>0, <2>3, QueueMoves, AppendProperties DEF QueuesTyped
    <3>2. ASSUME NEW line \in Nat \ {EOF} PROVE Total(line)' = Read(line)'
      <4>1. Copies(inbox, line) = Copies(inbox', line) + Same(Head(inbox), line)
        BY <2>0, <2>3, QueueMoves
      <4>2. Copies(deferred', line) = Copies(deferred, line) + Same(Head(inbox), line)
        BY <2>0, <2>3, QueueMoves, CopiesAppend DEF QueuesTyped
      <4>3. \A x : Same(x, line) \in Nat
        BY DEF Same
      <4>4. Total(line)' = Total(line)
        BY <2>0, <2>3, <3>1, <4>1, <4>2, <4>3, CopiesCounted DEF Total
      <4> QED
        BY <2>0, <4>4, TotalKept
    <3> QED
      BY <1>1, <1>2, <3>1, <3>2 DEF CountedOnce
  <2> QED
    BY <1>5, <2>1, <2>2, <2>3 DEF WatcherGets
<1> QED
  BY <1>3, <1>4, <1>5 DEF WatcherStep

LEMMA QueueStep == QueueInv /\ [Next]_vars => QueueInv'
<1>1. QueueInv /\ UNCHANGED vars => QueueInv'
  <2> SUFFICES ASSUME QueueInv, UNCHANGED vars PROVE QueueInv'
    OBVIOUS
  <2>1. WatcherInRun' /\ DeferredInRun'
    BY DEF vars, watcherVars, QueueInv, WatcherInRun, DeferredInRun
  <2> QED
    BY <2>1, QuietKeeps DEF vars
<1> QED
  BY <1>1, ReaderKeeps, DispatcherKeeps, WatcherKeeps DEF Next

(* However the three threads interleave, and however many lines there are, *)
(* each line that was read is in one place: none is lost or consumed twice *)
(* on its way through inbox, watcher and requeue.                          *)
THEOREM LinesSafe == Spec => []EachLineOnce
<1>3. QueueInv => EachLineOnce
  <2> SUFFICES ASSUME QueueInv, NEW line \in 1..read PROVE Total(line) = 1
    BY DEF EachLineOnce, Total
  <2>1. line \in Nat \ {EOF} /\ line <= read
    BY DEF QueueInv, QueuesTyped, EOF
  <2> QED
    BY <2>1 DEF QueueInv, CountedOnce, Read
<1> QED
  BY <1>3, QueueInit, QueueStep, PTL DEF Spec

-----------------------------------------------------------------------------
(***************************************************************************)
(* The order of the lines.  While the reader is quiet during a requeue,    *)
(* the three queues together hold the lines in the order in which they     *)
(* were sent, the end of input last, whichever thread moves them.          *)
(***************************************************************************)
Place(line) == IF line = EOF THEN Lines + 1 ELSE line

Rising(ss) == \A j, k \in DOMAIN ss : j < k => Place(ss[j]) < Place(ss[k])

(* The lines that wait, in the order in which the dispatcher will come to them. *)
Waiting ==
  IF pc = "put_back" THEN inbox \o (deferred \o remaining)
                     ELSE deferred \o (remaining \o inbox)

(* A line that waits was sent, and sent after the run in flight and after  *)
(* every order that was carried out.                                       *)
Entry(line) ==
  /\ line \in 1..read \/ (line = EOF /\ closed)
  /\ active < Place(line)
  /\ \A k \in DOMAIN served : Order(served[k]) => served[k] < Place(line)

LinedUp == Rising(Waiting) /\ \A j \in DOMAIN Waiting : Entry(Waiting[j])

Concluded ==
  pc = "returned" =>
    \/ closed /\ Len(served) = read
    \/ \E k \in DOMAIN served : command[served[k]] = "quit"

(* What set the token of the run in flight was sent after the run, or had  *)
(* set the token before the run began.                                     *)
CancelAfterRun ==
  (pc \in {"loop", "join"} /\ cancelledBy # 0) => cancelledBy > active \/ cancelledBy = inherited

OrderInv == LinedUp /\ InOrder /\ Concluded /\ CancelAfterRun

(* What holds also when a line overtook the deferred ones. *)
SideInv ==
  /\ read \in 0..Lines /\ active \in 0..read
  /\ closed \in BOOLEAN /\ overtaken \in BOOLEAN
  /\ tokens \in [Tokens -> Nat] /\ token \in Tokens
  /\ served \in Seq(1..read)
  /\ remaining # <<>> => pc \in {"requeue", "put_back"}

-----------------------------------------------------------------------------
(* A line joins the queue at its end. *)
LEMMA RisingAppend ==
  ASSUME NEW ss \in Seq(Nat), NEW x \in Nat, Rising(ss),
         \A j \in DOMAIN ss : Place(ss[j]) < Place(x)
  PROVE  Rising(Append(ss, x))
<1>1. /\ Len(ss) \in Nat /\ DOMAIN ss = 1..Len(ss)
      /\ DOMAIN Append(ss, x) = 1..(Len(ss) + 1)
      /\ \A k \in 1..Len(ss) : Append(ss, x)[k] = ss[k]
      /\ Append(ss, x)[Len(ss) + 1] = x
  BY LenProperties, AppendProperties
<1> QED
  BY <1>1 DEF Rising

(* A line leaves it, at its head or from behind others. *)
LEMMA RisingCut ==
  ASSUME NEW pp \in Seq(Nat), NEW ss \in Seq(Nat), ss # <<>>, Rising(pp \o ss)
  PROVE  /\ Rising(pp \o Tail(ss))
         /\ \A k \in DOMAIN (pp \o Tail(ss)) : \E j \in DOMAIN (pp \o ss) :
              (pp \o ss)[j] = (pp \o Tail(ss))[k]
<1> DEFINE old == pp \o ss
           new == pp \o Tail(ss)
           from(k) == IF k <= Len(pp) THEN k ELSE k + 1
<1>1. /\ Len(pp) \in Nat /\ Len(ss) \in Nat \ {0}
      /\ Tail(ss) \in Seq(Nat) /\ Len(Tail(ss)) = Len(ss) - 1
      /\ \A k \in 1..(Len(ss) - 1) : Tail(ss)[k] = ss[k + 1]
  BY LenProperties, EmptySeq, HeadTailProperties
<1>2. /\ DOMAIN old = 1..(Len(pp) + Len(ss))
      /\ \A k \in 1..(Len(pp) + Len(ss)) :
           old[k] = IF k <= Len(pp) THEN pp[k] ELSE ss[k - Len(pp)]
  BY ConcatProperties, LenProperties
<1>3. /\ DOMAIN new = 1..(Len(pp) + Len(ss) - 1)
      /\ \A k \in 1..(Len(pp) + Len(ss) - 1) :
           new[k] = IF k <= Len(pp) THEN pp[k] ELSE Tail(ss)[k - Len(pp)]
  BY <1>1, ConcatProperties, LenProperties
<1>4. \A k \in DOMAIN new : from(k) \in DOMAIN old /\ old[from(k)] = new[k]
  <2> SUFFICES ASSUME NEW k \in DOMAIN new
               PROVE  from(k) \in DOMAIN old /\ old[from(k)] = new[k]
    OBVIOUS
  <2>1. CASE k <= Len(pp)
    BY <1>1, <1>2, <1>3, <2>1
  <2>2. CASE ~(k <= Len(pp))
    <3>1. k - Len(pp) \in 1..(Len(ss) - 1) /\ k + 1 - Len(pp) = (k - Len(pp)) + 1
      BY <1>1, <1>3, <2>2
    <3>2. new[k] = ss[(k - Len(pp)) + 1]
      BY <1>1, <1>3, <2>2, <3>1
    <3> QED
      BY <1>1, <1>2, <1>3, <2>2, <3>1, <3>2
  <2> QED
    BY <2>1, <2>2
<1>5. \A j, k \in DOMAIN new : j < k => from(j) < from(k)
  BY <1>1, <1>3
<1>6. Rising(new)
  <2> HIDE DEF old, new, from
  <2> QED
    BY <1>4, <1>5 DEF Rising, old
<1> QED
  BY <1>4, <1>6

(* The head of the queue comes before the rest. *)
LEMMA HeadFirst ==
  ASSUME NEW ss \in Seq(Nat), ss # <<>>, Rising(ss)
  PROVE  \A k \in DOMAIN Tail(ss) : Place(Head(ss)) < Place(Tail(ss)[k])
<1>1. /\ Len(ss) \in Nat \ {0} /\ DOMAIN ss = 1..Len(ss)
      /\ Tail(ss) \in Seq(Nat) /\ DOMAIN Tail(ss) = 1..(Len(ss) - 1)
      /\ \A k \in 1..(Len(ss) - 1) : Tail(ss)[k] = ss[k + 1]
      /\ Head(ss) = ss[1]
  BY LenProperties, EmptySeq, HeadTailProperties
<1> QED
  BY <1>1 DEF Rising

(* What is appended to the last of two queues is appended to both. *)
LEMMA AppendLast ==
  ASSUME NEW ss \in Seq(Nat), NEW tt \in Seq(Nat), NEW x \in Nat
  PROVE  ss \o Append(tt, x) = Append(ss \o tt, x)
<1>1. <<x>> \in Seq(Nat) /\ ss \o tt \in Seq(Nat)
  BY ConcatProperties
<1> QED
  BY <1>1, AppendIsConcat, ConcatAssociative

(* Passing the head of one queue to the end of the one before it. *)
LEMMA HeadPassed ==
  ASSUME NEW ss \in Seq(Nat), NEW tt \in Seq(Nat), tt # <<>>
  PROVE  Append(ss, Head(tt)) \o Tail(tt) = ss \o tt
<1>1. Head(tt) \in Nat /\ Tail(tt) \in Seq(Nat) /\ <<Head(tt)>> \in Seq(Nat)
  BY HeadTailProperties
<1>2. tt = <<Head(tt)>> \o Tail(tt)
  OBVIOUS
<1> QED
  BY <1>1, <1>2, AppendIsConcat, ConcatAssociative

(* The waiting lines are lines or the end of input. *)
LEMMA WaitingTyped == QueuesTyped => Waiting \in Seq(Nat)
BY ConcatProperties DEF QueuesTyped, Waiting

(* A line read joins the waiting ones at their end, if none are being put back. *)
LEMMA WaitingGrows ==
  ASSUME QueuesTyped, NEW x \in Nat, inbox' = Append(inbox, x),
         UNCHANGED <<pc, deferred, remaining>>, ~PuttingBack
  PROVE  Waiting' = Append(Waiting, x)
<1>1. CASE pc = "put_back"
  <2>1. deferred \o remaining = <<>>
    BY <1>1 DEF PuttingBack
  <2>2. /\ inbox \o <<>> = inbox
        /\ Append(inbox, x) \in Seq(Nat) /\ Append(inbox, x) \o <<>> = Append(inbox, x)
    BY ConcatEmptySeq, AppendProperties DEF QueuesTyped
  <2> QED
    BY <1>1, <2>1, <2>2 DEF Waiting
<1>2. CASE pc # "put_back"
  <2>1. remaining \o inbox \in Seq(Nat)
    BY ConcatProperties DEF QueuesTyped
  <2>2. remaining \o Append(inbox, x) = Append(remaining \o inbox, x)
    BY AppendLast DEF QueuesTyped
  <2>3. deferred \o Append(remaining \o inbox, x) = Append(deferred \o (remaining \o inbox), x)
    BY <2>1, AppendLast DEF QueuesTyped
  <2> QED
    BY <1>2, <2>2, <2>3 DEF Waiting
<1> QED
  BY <1>1, <1>2

(* With nothing set aside the waiting lines are those of the inbox. *)
LEMMA WaitingInbox ==
  ASSUME QueuesTyped, deferred = <<>>, remaining = <<>>
  PROVE  Waiting = inbox
BY ConcatEmptySeq, EmptySeq DEF QueuesTyped, Waiting

(* During a run they are the deferred lines and those of the inbox. *)
LEMMA WaitingInRun ==
  ASSUME QueuesTyped, pc # "put_back", remaining = <<>>
  PROVE  Waiting = deferred \o inbox
BY ConcatEmptySeq, EmptySeq DEF QueuesTyped, Waiting

(* It does not matter which two of three queues are joined first. *)
LEMMA Joined ==
  \A ss, tt, uu \in Seq(Nat) : ss \o (tt \o uu) = (ss \o tt) \o uu
BY ConcatAssociative

(* A requeue moves lines from queue to queue, and none past another. *)
LEMMA RequeueKeepsOrder ==
  ASSUME QueuesTyped, Drain \/ PutBack
  PROVE  Waiting' = Waiting
<1> USE DEF QueuesTyped
<1>1. CASE Drain
  <2>1. CASE inbox = <<>>
    <3>1. /\ UNCHANGED <<inbox, deferred, remaining>> /\ pc = "requeue" /\ pc' = "put_back"
      BY <1>1, <2>1 DEF Drain
    <3>2. remaining \o inbox = remaining /\ inbox \o (deferred \o remaining) = deferred \o remaining
      BY <2>1, ConcatEmptySeq, ConcatProperties
    <3> QED
      BY <3>1, <3>2 DEF Waiting
  <2>2. CASE inbox # <<>>
    <3>1. /\ UNCHANGED <<deferred, pc>> /\ pc = "requeue"
          /\ remaining' = Append(remaining, Head(inbox)) /\ inbox' = Tail(inbox)
      BY <1>1, <2>2 DEF Drain
    <3>2. remaining' \o inbox' = remaining \o inbox
      BY <2>2, <3>1, HeadPassed
    <3> QED
      BY <3>1, <3>2 DEF Waiting
  <2> QED
    BY <2>1, <2>2
<1>2. CASE PutBack
  <2>0. pc = "put_back"
    BY <1>2 DEF PutBack
  <2>1. CASE deferred # <<>>
    <3>1. /\ UNCHANGED <<remaining, pc>>
          /\ inbox' = Append(inbox, Head(deferred)) /\ deferred' = Tail(deferred)
      BY <1>2, <2>1 DEF PutBack
    <3>2. inbox' \o deferred' = inbox \o deferred
      BY <2>1, <3>1, HeadPassed
    <3>3. inbox' \in Seq(Nat) /\ deferred' \in Seq(Nat)
      BY <2>1, <3>1, HeadTailProperties, AppendProperties
    <3>4. inbox' \o (deferred' \o remaining) = (inbox' \o deferred') \o remaining
      <4>1. inbox' \in Seq(Nat) /\ deferred' \in Seq(Nat) /\ remaining \in Seq(Nat)
        BY <3>3
      <4> QED
        BY ONLY <4>1, Joined, Zenon
    <3>5. inbox \o (deferred \o remaining) = (inbox \o deferred) \o remaining
      BY Joined, Zenon
    <3> QED
      BY <2>0, <3>1, <3>2, <3>4, <3>5 DEF Waiting
  <2>2. CASE deferred = <<>> /\ remaining # <<>>
    <3>1. /\ UNCHANGED <<deferred, pc>>
          /\ inbox' = Append(inbox, Head(remaining)) /\ remaining' = Tail(remaining)
      BY <1>2, <2>2 DEF PutBack
    <3>2. inbox' \o remaining' = inbox \o remaining
      BY <2>2, <3>1, HeadPassed
    <3>3. remaining' \in Seq(Nat)
      BY <2>2, <3>1, HeadTailProperties
    <3>4. deferred \o remaining = remaining /\ deferred \o remaining' = remaining'
      BY <2>2, <3>3, ConcatEmptySeq
    <3> QED
      BY <2>0, <3>1, <3>2, <3>4 DEF Waiting
  <2>3. CASE deferred = <<>> /\ remaining = <<>>
    <3>1. UNCHANGED <<inbox, deferred, remaining>>
      BY <1>2, <2>3 DEF PutBack
    <3>2. deferred \o (remaining \o inbox) = inbox /\ inbox \o (deferred \o remaining) = inbox
      BY <2>3, ConcatEmptySeq, EmptySeq
    <3> QED
      BY <3>1, <3>2 DEF Waiting
  <2> QED
    BY <2>1, <2>2, <2>3
<1> QED
  BY <1>1, <1>2

(* What is taken from the inbox was sent, or is the end of input. *)
LEMMA HeadWasRead ==
  ASSUME QueueInv, SideInv, inbox # <<>>
  PROVE  Head(inbox) = EOF \/ Head(inbox) \in 1..read
<1> DEFINE h == Head(inbox)
<1>1. QueuesTyped /\ h \in Nat /\ Tail(inbox) \in Seq(Nat)
      /\ Copies(inbox, h) = Copies(Tail(inbox), h) + 1
  BY QueueMoves DEF QueueInv, Same
<1>2. /\ Copies(Tail(inbox), h) \in Nat /\ Copies(deferred, h) \in Nat
      /\ Copies(remaining, h) \in Nat /\ Copies(served, h) \in Nat
  BY <1>1, CopiesNat DEF QueuesTyped
<1>3. Total(h) >= 1
  BY <1>1, <1>2 DEF Total
<1>4. CASE h # EOF
  <2>1. Total(h) = Read(h)
    BY <1>1, <1>4 DEF QueueInv, CountedOnce
  <2>2. h <= read
    BY <1>3, <2>1 DEF Read
  <2> QED
    BY <1>1, <1>4, <2>2 DEF EOF, SideInv
<1> QED
  BY <1>4

LEMMA SideInit == Init => SideInv
<1> SUFFICES ASSUME Init PROVE SideInv
  OBVIOUS
<1>1. 0 \in 0..Lines /\ 0 \in 0..0
  BY LinesAssumption
<1>2. served \in Seq(1..read)
  BY DEF Init
<1> QED
  BY <1>1, <1>2 DEF Init, SideInv, Tokens

LEMMA SideStep ==
  ASSUME QueueInv, SideInv, [Next]_vars
  PROVE  SideInv'
<1> USE DEF SideInv
<1>1. ASSUME UNCHANGED <<read, closed, overtaken, served, active, tokenVars>>,
             remaining' # <<>> => pc' \in {"requeue", "put_back"}
      PROVE  SideInv'
  BY <1>1 DEF tokenVars
<1>2. CASE ReadLine
  <2>1. /\ read' \in 0..Lines /\ active' \in 0..read' /\ closed' = closed
        /\ overtaken' \in BOOLEAN /\ UNCHANGED <<tokens, token>>
        /\ UNCHANGED <<pc, remaining, served>>
    BY <1>2, LinesAssumption DEF ReadLine, runVars, tokenVars, overtakes
  <2>2. 1..read \subseteq 1..read'
    BY <1>2 DEF ReadLine
  <2>3. served' \in Seq(1..read')
    BY <2>1, <2>2, SeqMonotonic
  <2> QED
    BY <2>1, <2>3
<1>3. CASE ReadEnd
  BY <1>3 DEF ReadEnd, runVars, tokenVars, overtakes
<1>4. CASE Dispatch
  <2>0. inbox # <<>> /\ pc = "idle"
        /\ UNCHANGED <<read, closed, overtaken, tokens, token, remaining>>
    BY <1>4 DEF Dispatch, Take, tokenVars, overtakes
  <2>1. CASE Head(inbox) = EOF
    BY <1>4, <2>0, <2>1 DEF Dispatch, tokenVars, overtakes
  <2>2. CASE Head(inbox) # EOF
    <3>1. Head(inbox) \in 1..read
      BY <2>0, <2>2, HeadWasRead
    <3>2. served' = Append(served, Head(inbox)) /\ active' \in {Head(inbox), active}
      BY <1>4, <2>2 DEF Dispatch, tokenVars, overtakes
    <3>3. served' \in Seq(1..read)
      BY <3>1, <3>2, AppendProperties
    <3> QED
      BY <2>0, <3>1, <3>2, <3>3
  <2> QED
    BY <2>1, <2>2
<1>5. CASE RefuseRun
  BY <1>5 DEF RefuseRun, tokenVars, overtakes
<1>6. CASE StartRun
  BY <1>6 DEF StartRun, overtakes, Tokens
<1>7. CASE LeaveLoop
  BY <1>7 DEF LeaveLoop, runVars, tokenVars, overtakes
<1>8. CASE JoinWatcher
  BY <1>8 DEF JoinWatcher, runVars, tokenVars, overtakes
<1>9. CASE Drain
  BY <1>9 DEF Drain, runVars, tokenVars, overtakes
<1>10. CASE PutBack
  BY <1>10 DEF PutBack, runVars, tokenVars, overtakes
<1>11. CASE Report
  BY <1>11 DEF Report, tokenVars, overtakes
<1>12. CASE WatcherChecks
  BY <1>12 DEF WatcherChecks, runVars, tokenVars, overtakes
<1>13. CASE WatcherTimesOut
  BY <1>13 DEF WatcherTimesOut, runVars, tokenVars, overtakes
<1>14. CASE WatcherGets
  <2>0. inbox # <<>>
        /\ UNCHANGED <<read, closed, overtaken, active, token, remaining, pc>>
    BY <1>14 DEF WatcherGets, tokenVars, overtakes
  <2>1. CASE UNCHANGED <<tokens, served>>
    BY <2>0, <2>1
  <2>2. CASE /\ Head(inbox) # EOF /\ served' = Append(served, Head(inbox))
             /\ Trip(Head(inbox))
    <3>1. Head(inbox) \in 1..read
      BY <2>0, <2>2, HeadWasRead
    <3>2. served' \in Seq(1..read)
      BY <2>2, <3>1, AppendProperties
    <3>3. tokens' \in [Tokens -> Nat]
      BY <2>2, <3>1 DEF Trip
    <3> QED
      BY <2>0, <2>2, <3>1, <3>2, <3>3
  <2> QED
    BY <1>14, <2>1, <2>2 DEF WatcherGets, tokenVars, overtakes
<1>15. CASE UNCHANGED vars
  BY <1>15 DEF vars, runVars, tokenVars, overtakes
<1> QED
  BY <1>2, <1>3, <1>4, <1>5, <1>6, <1>7, <1>8, <1>9, <1>10, <1>11, <1>12, <1>13, <1>14, <1>15
  DEF Next, ReaderStep, DispatcherStep, WatcherStep

-----------------------------------------------------------------------------
(* Nothing waits differently, and nothing is carried out. *)
LEMMA LineKept ==
  ASSUME LinedUp, Waiting' = Waiting, UNCHANGED <<command, read, served>>,
         closed' = closed, active' \in {0, active}, SideInv
  PROVE  LinedUp'
<1>1. \A line : Entry(line) => Entry(line)'
  <2> SUFFICES ASSUME NEW line, Entry(line) PROVE Entry(line)'
    OBVIOUS
  <2>1. Place(line) \in Nat /\ active \in Nat
    BY LinesAssumption DEF Entry, Place, SideInv, EOF
  <2>2. active' < Place(line)
    BY <2>1 DEF Entry
  <2> QED
    BY <2>2 DEF Entry, Order, Place
<1>2. Rising(Waiting)'
  BY DEF LinedUp, Rising, Place
<1> QED
  BY <1>1, <1>2 DEF LinedUp

(* A line, or the end of input, joins the waiting lines in its place. *)
LEMMA LineJoins ==
  ASSUME QueuesTyped, SideInv, LinedUp, ~PuttingBack, ~closed,
         UNCHANGED <<command, served, active, pc, deferred, remaining>>,
         NEW x \in Nat, inbox' = Append(inbox, x),
         \/ x = read + 1 /\ x <= Lines /\ read' = x /\ closed' = closed
         \/ x = EOF /\ read' = read /\ closed' = TRUE
  PROVE  LinedUp'
<1> DEFINE W == Waiting
<1>0. read \in Nat /\ active \in Nat /\ active <= read /\ read <= Lines /\ Lines \in Nat
  BY LinesAssumption DEF SideInv
<1>1. W \in Seq(Nat) /\ Waiting' = Append(W, x)
  BY WaitingTyped, WaitingGrows
<1>2. Place(x) \in Nat /\ Place(x) > read
  BY <1>0 DEF Place, EOF
<1>3. \A j \in DOMAIN W : Entry(W[j]) /\ W[j] \in 1..read /\ Place(W[j]) = W[j]
  BY DEF LinedUp, Entry, Place, EOF
<1>4. \A j \in DOMAIN W : Place(W[j]) < Place(x)
  BY <1>0, <1>2, <1>3
<1>5. Rising(Append(W, x))
  BY <1>1, <1>4, RisingAppend DEF LinedUp
<1>6. \A line : Entry(line) => Entry(line)'
  BY <1>0 DEF Entry, Order, Place
<1>7. Entry(x)'
  <2>1. x \in 1..read' \/ (x = EOF /\ closed')
    BY <1>0
  <2>2. active' < Place(x)
    BY <1>0, <1>2
  <2>3. \A k \in DOMAIN served : served[k] \in 1..read
    BY ElementOfSeq, LenProperties DEF SideInv
  <2>4. \A k \in DOMAIN served : served[k] < Place(x)
    BY <1>0, <1>2, <2>3
  <2> QED
    BY <2>1, <2>2, <2>4 DEF Entry, Place
<1>8. \A j \in DOMAIN Append(W, x) : \A y : y = Append(W, x)[j] => Entry(y)'
  <2>1. DOMAIN Append(W, x) = 1..(Len(W) + 1) /\ DOMAIN W = 1..Len(W) /\ Len(W) \in Nat
        /\ (\A k \in 1..Len(W) : Append(W, x)[k] = W[k]) /\ Append(W, x)[Len(W) + 1] = x
    BY <1>1, LenProperties, AppendProperties
  <2> SUFFICES ASSUME NEW j \in DOMAIN Append(W, x), NEW y, y = Append(W, x)[j]
               PROVE  Entry(y)'
    OBVIOUS
  <2>2. CASE j \in DOMAIN W
    <3>1. y = W[j] /\ Entry(W[j])
      BY <2>1, <2>2, <1>3
    <3>2. Entry(y)
      BY <3>1, Zenon
    <3> QED
      BY <3>2, <1>6, Zenon
  <2>3. CASE j = Len(W) + 1
    <3>1. y = x
      BY <2>1, <2>3
    <3> QED
      BY <3>1, <1>7, Zenon
  <2> QED
    BY <2>1, <2>2, <2>3
<1>9. Rising(Waiting)' /\ \A j \in DOMAIN Waiting' : Entry(Waiting[j])'
  <2>1. Rising(Waiting)'
    BY <1>1, <1>5 DEF Rising, Place
  <2> HIDE DEF W
  <2>2. ASSUME NEW j \in DOMAIN Waiting', NEW y, y = Waiting'[j] PROVE Entry(y)'
    <3>1. j \in DOMAIN Append(W, x) /\ y = Append(W, x)[j]
      BY <1>1, <2>2
    <3> QED
      BY <3>1, <1>8, Zenon
  <2> QED
    BY <2>1, <2>2
<1> QED
  BY <1>9 DEF LinedUp

(* A line is taken from the inbox and consumed: the others keep their places, *)
(* and come after it if it was an order and nothing waited before it.      *)
LEMMA LineLeaves ==
  ASSUME QueuesTyped, SideInv, LinedUp, InOrder, inbox # <<>>,
         remaining = <<>>, remaining' = <<>>, pc # "put_back", pc' # "put_back",
         UNCHANGED <<command, read, closed, deferred>>,
         inbox' = Tail(inbox),
         NEW line, line = Head(inbox), line \in 1..read,
         served' = Append(served, line),
         Order(line) => deferred = <<>>,
         active' = active \/ (active' = line /\ deferred = <<>>)
  PROVE  LinedUp' /\ InOrder' /\ line > active /\ served'[Len(served) + 1] = line
<1> DEFINE old == deferred \o inbox
           new == deferred \o Tail(inbox)
<1>0. /\ read \in Nat /\ active \in Nat /\ Lines \in Nat /\ line \in Nat
      /\ Place(line) = line
  BY LinesAssumption DEF SideInv, Place, EOF
<1>1. Waiting = old
  BY WaitingInRun
<1>2. Waiting' = new
  <2>1. Tail(inbox) \in Seq(Nat) /\ <<>> \o Tail(inbox) = Tail(inbox)
    BY HeadTailProperties, ConcatEmptySeq DEF QueuesTyped
  <2> QED
    BY <2>1 DEF Waiting
<1>3. Rising(new) /\ \A k \in DOMAIN new : \E j \in DOMAIN old : old[j] = new[k]
  BY <1>1, RisingCut DEF QueuesTyped, LinedUp
<1>4. \A j \in DOMAIN old : Entry(old[j])
  BY <1>1 DEF LinedUp
<1>5. \A k \in DOMAIN new : Entry(new[k])
  <2> HIDE DEF old, new
  <2> QED
    BY <1>3, <1>4
<1>6. Entry(line)
  <2>1. /\ Len(deferred) \in Nat /\ Len(inbox) \in Nat \ {0} /\ inbox[1] = line
        /\ DOMAIN old = 1..(Len(deferred) + Len(inbox))
        /\ old[Len(deferred) + 1] = inbox[(Len(deferred) + 1) - Len(deferred)]
    BY LenProperties, EmptySeq, ConcatProperties DEF QueuesTyped
  <2>2. old[Len(deferred) + 1] = line
    BY <2>1
  <2> HIDE DEF old
  <2> QED
    BY <2>1, <2>2, <1>4
<1>7. line > active
  BY <1>0, <1>6 DEF Entry
<1>8. /\ Len(served) \in Nat /\ DOMAIN served = 1..Len(served)
      /\ DOMAIN served' = 1..(Len(served) + 1)
      /\ \A k \in 1..Len(served) : served'[k] = served[k]
      /\ served'[Len(served) + 1] = line
  BY <1>0, LenProperties, AppendProperties DEF QueuesTyped
<1>9. deferred = <<>> => \A k \in DOMAIN new : line < Place(new[k])
  <2> SUFFICES ASSUME deferred = <<>> PROVE \A k \in DOMAIN new : line < Place(new[k])
    OBVIOUS
  <2>1. old = inbox /\ new = Tail(inbox)
    BY HeadTailProperties, ConcatEmptySeq DEF QueuesTyped
  <2>2. Rising(inbox)
    BY <1>1, <2>1 DEF LinedUp
  <2>3. \A k \in DOMAIN Tail(inbox) : Place(line) < Place(Tail(inbox)[k])
    BY <2>2, HeadFirst DEF QueuesTyped
  <2> HIDE DEF new
  <2> QED
    BY <1>0, <2>1, <2>3
<1>10. \A k \in DOMAIN new : \A x : x = new[k] => Entry(x)'
  <2> SUFFICES ASSUME NEW k \in DOMAIN new, NEW x, x = new[k] PROVE Entry(x)'
    OBVIOUS
  <2>1. /\ x \in 1..read \/ (x = EOF /\ closed)
        /\ active < Place(x)
        /\ \A i \in DOMAIN served : Order(served[i]) => served[i] < Place(x)
    BY <1>5 DEF Entry
  <2>2. deferred = <<>> => line < Place(x)
    BY <1>9
  <2> HIDE DEF new
  <2>3. active' < Place(x)
    BY <2>1, <2>2
  <2>4. \A i \in DOMAIN served' : Order(served'[i]) => served'[i] < Place(x)
    <3> SUFFICES ASSUME NEW i \in DOMAIN served', Order(served'[i])
                 PROVE  served'[i] < Place(x)
      OBVIOUS
    <3>1. CASE i \in DOMAIN served
      BY <1>8, <2>1, <3>1
    <3>2. CASE i = Len(served) + 1
      BY <1>8, <2>2, <3>2
    <3> QED
      BY <1>8, <3>1, <3>2
  <2> QED
    BY <2>1, <2>3, <2>4 DEF Entry, Order, Place
<1>11. LinedUp'
  <2>1. Rising(Waiting)'
    BY <1>2, <1>3 DEF Rising, Place
  <2> HIDE DEF new
  <2>2. ASSUME NEW j \in DOMAIN Waiting', NEW x, x = Waiting'[j] PROVE Entry(x)'
    <3>1. j \in DOMAIN new /\ x = new[j]
      BY <1>2, <2>2
    <3> QED
      BY <3>1, <1>10, Zenon
  <2> QED
    BY <2>1, <2>2 DEF LinedUp
<1>12. InOrder'
  <2>1. \A k \in DOMAIN served : Order(served[k]) => served[k] < line
    BY <1>0, <1>6 DEF Entry
  <2> QED
    BY <1>8, <2>1 DEF InOrder, Order
<1> QED
  BY <1>7, <1>8, <1>11, <1>12

(* The end of input is the last to wait. *)
LEMMA EndIsLast ==
  ASSUME NEW ss \in Seq(Nat), ss # <<>>, Rising(ss), Head(ss) = EOF, SideInv,
         \A j \in DOMAIN ss : Entry(ss[j])
  PROVE  Tail(ss) = <<>>
<1>1. /\ Tail(ss) \in Seq(Nat) /\ DOMAIN Tail(ss) = 1..Len(Tail(ss)) /\ Len(Tail(ss)) \in Nat
      /\ Len(Tail(ss)) = Len(ss) - 1 /\ DOMAIN ss = 1..Len(ss) /\ Len(ss) \in Nat \ {0}
      /\ \A i \in 1..Len(Tail(ss)) : Tail(ss)[i] = ss[i + 1]
  BY LenProperties, EmptySeq, HeadTailProperties
<1>2. ASSUME Tail(ss) # <<>> PROVE FALSE
  <2>1. Len(Tail(ss)) # 0
    BY <1>1, <1>2, EmptySeq
  <2>2. 1 \in DOMAIN Tail(ss) /\ Tail(ss)[1] = ss[2] /\ 2 \in DOMAIN ss
    BY <1>1, <2>1
  <2>3. Place(EOF) < Place(ss[2])
    BY <2>2, HeadFirst
  <2>4. ss[2] = EOF \/ ss[2] \in 1..read
    BY <2>2 DEF Entry
  <2> QED
    BY <2>3, <2>4, LinesAssumption DEF Place, EOF, SideInv
<1> QED
  BY <1>2

(* A sequence that holds each of n lines once has n elements. *)
LEMMA AllOnce ==
  ASSUME NEW n \in Nat, NEW ss \in Seq(1..n), \A line \in 1..n : Copies(ss, line) = 1
  PROVE  Len(ss) = n
<1> DEFINE At(line) == {k \in DOMAIN ss : ss[k] = line}
<1>1. Len(ss) \in Nat /\ ss \in [1..Len(ss) -> 1..n] /\ DOMAIN ss = 1..Len(ss)
  BY LenProperties
<1>2. \A line \in 1..n : \E k : At(line) = {k}
  <2> SUFFICES ASSUME NEW line \in 1..n PROVE \E k : At(line) = {k}
    OBVIOUS
  <2>1. IsFiniteSet(1..Len(ss)) /\ At(line) \in SUBSET (1..Len(ss))
    BY <1>1, FS_Interval
  <2>2. IsFiniteSet(At(line)) /\ Cardinality(At(line)) = 1
    BY <2>1, FS_Subset DEF Copies
  <2> HIDE DEF At
  <2> QED
    BY <2>2, FS_Singleton
<1>3. \A j, k \in 1..Len(ss) : ss[j] = ss[k] => j = k
  <2> SUFFICES ASSUME NEW j \in 1..Len(ss), NEW k \in 1..Len(ss), ss[j] = ss[k] PROVE j = k
    OBVIOUS
  <2>1. ss[j] \in 1..n /\ j \in At(ss[j]) /\ k \in At(ss[j])
    BY <1>1
  <2> HIDE DEF At
  <2> QED
    BY <2>1, <1>2
<1>4. \A line \in 1..n : \E k \in 1..Len(ss) : ss[k] = line
  <2> SUFFICES ASSUME NEW line \in 1..n PROVE \E k \in 1..Len(ss) : ss[k] = line
    OBVIOUS
  <2>1. PICK k : At(line) = {k}
    BY <1>2
  <2> QED
    BY <1>1, <2>1
<1>5. IsFiniteSet(1..Len(ss)) /\ Cardinality(1..Len(ss)) = Len(ss) /\ Cardinality(1..n) = n
  <2>1. \A m \in Nat : IsFiniteSet(1..m) /\ Cardinality(1..m) = m
    <3> SUFFICES ASSUME NEW m \in Nat PROVE IsFiniteSet(1..m) /\ Cardinality(1..m) = m
      OBVIOUS
    <3>1. IsFiniteSet(1..m) /\ Cardinality(1..m) = (IF 1 > m THEN 0 ELSE m - 1 + 1)
      BY FS_Interval
    <3> QED
      BY <3>1
  <2> QED
    BY <1>1, <2>1
<1>6. Cardinality(1..n) = Cardinality(1..Len(ss))
  BY <1>1, <1>3, <1>4, <1>5, SameSize
<1> QED
  BY <1>5, <1>6

(* When the dispatcher comes to the end of input, all lines are carried out. *)
LEMMA EndReached ==
  ASSUME QueueInv, SideInv, deferred = <<>>, remaining = <<>>, inbox # <<>>,
         Head(inbox) = EOF, Tail(inbox) = <<>>
  PROVE  Len(served) = read
<1>1. QueuesTyped /\ read \in Nat
  BY DEF QueueInv, QueuesTyped
<1>2. ASSUME NEW line \in 1..read PROVE Copies(served, line) = 1
  <2>1. line \in Nat \ {EOF} /\ line # EOF /\ Read(line) = 1
    BY <1>1 DEF EOF, Read
  <2>2. Copies(inbox, line) = Copies(<<>>, line) + 0
    BY <1>1, <2>1, QueueMoves DEF Same
  <2>3. Copies(<<>>, line) = 0
    BY CopiesEmpty
  <2>4. Copies(inbox, line) = 0 /\ Copies(deferred, line) = 0 /\ Copies(remaining, line) = 0
        /\ Copies(served, line) \in Nat
    <3>1. Copies(inbox, line) = 0
      BY <2>2, <2>3
    <3>2. Copies(deferred, line) = 0 /\ Copies(remaining, line) = 0
      BY <2>3, Zenon
    <3>3. Copies(served, line) \in Nat
      BY <1>1, CopiesNat DEF QueuesTyped
    <3> QED
      BY <3>1, <3>2, <3>3
  <2>5. Total(line) = 1
    BY <2>1 DEF QueueInv, CountedOnce
  <2> QED
    BY <2>4, <2>5 DEF Total
<1> QED
  BY <1>1, <1>2, AllOnce DEF SideInv

LEMMA OrderInit == Init => OrderInv
<1> SUFFICES ASSUME Init PROVE OrderInv
  OBVIOUS
<1>1. Waiting = <<>>
  BY ConcatEmptySeq, EmptySeq DEF Init, Waiting
<1>2. LinedUp
  BY <1>1 DEF LinedUp, Rising
<1> QED
  BY <1>2 DEF Init, OrderInv, InOrder, Concluded, CancelAfterRun, cancelledBy, tokenVars

(* Every step keeps the order, unless a line overtakes the deferred ones. *)
LEMMA OrderStep ==
  ASSUME QueueInv, SideInv, OrderInv, ~overtaken', [Next]_vars
  PROVE  OrderInv'
<1> USE DEF OrderInv
<1>q. QueuesTyped
  BY DEF QueueInv
<1>1. ASSUME Waiting' = Waiting, UNCHANGED <<command, read, served, closed>>,
             active' \in {0, active}, pc' # "returned" \/ pc' = pc, CancelAfterRun'
      PROVE  OrderInv'
  <2>1. LinedUp'
    BY <1>1, LineKept
  <2>2. InOrder' /\ Concluded'
    BY <1>1 DEF InOrder, Order, Concluded
  <2> QED
    BY <1>1, <2>1, <2>2
<1>2. CASE ReadLine
  <2>1. /\ ~PuttingBack /\ ~closed /\ read \in Nat /\ read + 1 <= Lines
        /\ read' = read + 1 /\ inbox' = Append(inbox, read + 1)
        /\ UNCHANGED <<command, closed, served, active, pc, deferred, remaining, tokenVars>>
    <3>1. ~PuttingBack
      BY <1>2 DEF ReadLine
    <3>2. read \in Nat /\ read + 1 <= Lines
      BY <1>2, LinesAssumption DEF ReadLine, SideInv
    <3> QED
      BY <1>2, <3>1, <3>2 DEF ReadLine, runVars, tokenVars, overtakes
  <2>2. read + 1 \in Nat
    BY <2>1
  <2>3. LinedUp'
    BY <1>q, <2>1, <2>2, LineJoins
  <2> QED
    BY <2>1, <2>3 DEF InOrder, Order, Concluded, CancelAfterRun, cancelledBy, tokenVars
<1>3. CASE ReadEnd
  <2>1. /\ ~PuttingBack /\ ~closed /\ closed' = TRUE /\ EOF \in Nat
        /\ inbox' = Append(inbox, EOF)
        /\ UNCHANGED <<command, read, served, active, pc, deferred, remaining, tokenVars>>
    BY <1>3 DEF ReadEnd, SideInv, runVars, tokenVars, overtakes, EOF
  <2>3. LinedUp'
    BY <1>q, <2>1, LineJoins
  <2> QED
    BY <2>1, <2>3 DEF InOrder, Order, Concluded, CancelAfterRun, cancelledBy, tokenVars
<1>4. CASE Dispatch
  <2>0. /\ inbox # <<>> /\ pc = "idle" /\ inbox' = Tail(inbox)
        /\ pc' \in {"idle", "begin", "returned"}
        /\ UNCHANGED <<command, read, closed, deferred, remaining>>
        /\ deferred = <<>> /\ remaining = <<>>
    BY <1>4 DEF Dispatch, Take, QueueInv, DeferredInRun, SideInv
  <2>1. Waiting = inbox /\ CancelAfterRun'
    BY <1>q, <2>0, WaitingInbox DEF CancelAfterRun, cancelledBy, tokenVars
  <2>2. CASE Head(inbox) = EOF
    <3>1. UNCHANGED <<served, active>>
      BY <1>4, <2>2 DEF Dispatch, tokenVars, overtakes
    <3>2. Tail(inbox) = <<>>
      BY <1>q, <2>0, <2>1, <2>2, EndIsLast DEF QueuesTyped, LinedUp
    <3>3. closed
      <4>1. 1 \in DOMAIN inbox /\ inbox[1] = EOF
        BY <1>q, <2>0, <2>2, LenProperties, EmptySeq DEF QueuesTyped
      <4>2. Entry(EOF)
        BY <2>1, <4>1 DEF LinedUp
      <4> QED
        BY <4>2 DEF Entry, EOF
    <3>4. Concluded'
      BY <2>0, <2>2, <3>1, <3>2, <3>3, EndReached DEF Concluded
    <3>5. LinedUp'
      <4>1. Waiting' = <<>>
        BY <2>0, <3>2, ConcatEmptySeq, EmptySeq DEF Waiting
      <4> QED
        BY <4>1 DEF LinedUp, Rising
    <3> QED
      BY <2>0, <2>1, <3>1, <3>4, <3>5 DEF InOrder, Order
  <2>3. CASE Head(inbox) # EOF
    <3> DEFINE line == Head(inbox)
    <3>1. /\ served' = Append(served, line)
          /\ active' \in {line, active}
          /\ pc' = "returned" => command[line] = "quit"
      BY <1>4, <2>3 DEF Dispatch, tokenVars, overtakes
    <3>2. line \in 1..read
      BY <2>0, <2>3, HeadWasRead
    <3> HIDE DEF line
    <3>3. LinedUp' /\ InOrder' /\ served'[Len(served) + 1] = line
      BY <1>q, <2>0, <3>1, <3>2, LineLeaves DEF line
    <3>4. Len(served) + 1 \in DOMAIN served'
      BY <1>q, <3>1, <3>2, LenProperties, AppendProperties DEF QueuesTyped, SideInv
    <3>5. Concluded'
      BY <2>0, <3>1, <3>3, <3>4 DEF Concluded
    <3> QED
      BY <2>1, <3>3, <3>5
  <2> QED
    BY <2>2, <2>3
<1>5. CASE RefuseRun
  BY <1>5, <1>1 DEF RefuseRun, Waiting, CancelAfterRun, cancelledBy, tokenVars
<1>6. CASE StartRun
  <2>1. deferred = <<>>
    BY <1>6 DEF StartRun, QueueInv, DeferredInRun
  <2> QED
    BY <1>6, <2>1, <1>1 DEF StartRun, Waiting, CancelAfterRun, cancelledBy, tokenVars
<1>7. CASE LeaveLoop
  BY <1>7, <1>1 DEF LeaveLoop, Waiting, CancelAfterRun, cancelledBy, runVars, tokenVars, overtakes
<1>8. CASE JoinWatcher
  BY <1>8, <1>1 DEF JoinWatcher, Waiting, CancelAfterRun, cancelledBy, runVars, tokenVars, overtakes
<1>9. CASE Drain \/ PutBack
  <2>1. Waiting' = Waiting
    BY <1>q, <1>9, RequeueKeepsOrder
  <2>2. UNCHANGED <<command, read, served, closed, active, tokenVars>>
        /\ pc' \in {"requeue", "put_back", "report"}
    BY <1>9 DEF Drain, PutBack, runVars, tokenVars, overtakes
  <2> QED
    BY <2>1, <2>2, <1>1 DEF CancelAfterRun, cancelledBy, tokenVars
<1>10. CASE Report
  BY <1>10, <1>1 DEF Report, Waiting, CancelAfterRun, cancelledBy, tokenVars
<1>11. CASE WatcherChecks
  BY <1>11, <1>1 DEF WatcherChecks, Waiting, CancelAfterRun, cancelledBy, runVars, tokenVars, overtakes
<1>12. CASE WatcherTimesOut
  BY <1>12, <1>1 DEF WatcherTimesOut, Waiting, CancelAfterRun, cancelledBy, runVars, tokenVars, overtakes
<1>13. CASE WatcherGets
  <2>0. /\ pc \in {"loop", "join"} /\ inbox # <<>> /\ remaining = <<>>
        /\ UNCHANGED <<command, read, closed, remaining, pc, active, token, inherited>>
    BY <1>13 DEF WatcherGets, QueueInv, WatcherInRun, SideInv
  <2>1. Waiting = deferred \o inbox
    BY <1>q, <2>0, WaitingInRun
  <2>2. CASE /\ Head(inbox) = EOF /\ inbox' = Append(Tail(inbox), EOF)
             /\ UNCHANGED <<deferred, tokenVars, served>>
    <3> DEFINE both == deferred \o inbox
    <3>1. /\ Len(deferred) \in Nat /\ Len(inbox) \in Nat \ {0}
          /\ DOMAIN inbox = 1..Len(inbox)
          /\ DOMAIN both = 1..(Len(deferred) + Len(inbox))
          /\ \A k \in 1..Len(inbox) : both[Len(deferred) + k] = inbox[k]
      <4>1. \A k \in 1..Len(inbox) : (Len(deferred) + k) - Len(deferred) = k
        BY <1>q, LenProperties DEF QueuesTyped
      <4> QED
        BY <1>q, <2>0, <4>1, LenProperties, EmptySeq, ConcatProperties DEF QueuesTyped
    <3>2. Rising(both) /\ \A j \in DOMAIN both : Entry(both[j])
      BY <2>1 DEF LinedUp
    <3> HIDE DEF both
    <3>3. Rising(inbox) /\ \A j \in DOMAIN inbox : Entry(inbox[j])
      BY <3>1, <3>2 DEF Rising
    <3>4. Tail(inbox) = <<>>
      BY <1>q, <2>0, <2>2, <3>3, EndIsLast DEF QueuesTyped
    <3>5. inbox' = inbox
      <4>1. Len(inbox) = 1 /\ inbox[1] = EOF
        <5>1. Len(inbox) - 1 = 0
          BY <1>q, <2>0, <3>4, HeadTailProperties, EmptySeq DEF QueuesTyped
        <5> QED
          BY <1>q, <2>0, <2>2, <5>1, LenProperties DEF QueuesTyped
      <4>2. Tail(inbox) \in Seq(Nat) /\ Len(Tail(inbox)) = 0 /\ EOF \in Nat
        BY <3>4, EmptySeq DEF EOF
      <4>3. inbox' \in Seq(Nat) /\ Len(inbox') = 1 /\ inbox'[1] = EOF
        <5> DEFINE t == Tail(inbox)
        <5>1. /\ t \in Seq(Nat) /\ EOF \in Nat /\ Len(t) = 0 /\ inbox' = Append(t, EOF)
          BY <2>2, <4>2
        <5> HIDE DEF t
        <5>2. /\ Append(t, EOF) \in Seq(Nat) /\ Len(Append(t, EOF)) = Len(t) + 1
              /\ Append(t, EOF)[Len(t) + 1] = EOF
          BY <5>1, AppendProperties
        <5> QED
          BY <5>1, <5>2
      <4> QED
        BY <1>q, <4>1, <4>3, SeqEqual DEF QueuesTyped
    <3> QED
      BY <2>0, <2>2, <3>5, <1>1 DEF Waiting, CancelAfterRun, cancelledBy, tokenVars
  <2>3. CASE /\ Head(inbox) # EOF /\ command[Head(inbox)] = "cancel"
             /\ inbox' = Tail(inbox) /\ served' = Append(served, Head(inbox))
             /\ Trip(Head(inbox))
             /\ UNCHANGED <<deferred, token, inherited>>
    <3> DEFINE line == Head(inbox)
    <3>1. line \in 1..read
      BY <2>0, <2>3, HeadWasRead
    <3>2. ~Order(line) /\ served' = Append(served, line) /\ cancelledBy' \in {line, cancelledBy}
      BY <2>3 DEF Order, Trip, SideInv, cancelledBy
    <3> HIDE DEF line
    <3>3. LinedUp' /\ InOrder' /\ line > active
      BY <1>q, <2>0, <2>3, <3>1, <3>2, LineLeaves DEF line
    <3> QED
      BY <2>0, <3>2, <3>3 DEF Concluded, CancelAfterRun, cancelledBy, tokenVars
  <2>4. CASE /\ inbox' = Tail(inbox) /\ deferred' = Append(deferred, Head(inbox))
             /\ UNCHANGED <<tokenVars, served>>
    <3>1. deferred' \o inbox' = deferred \o inbox
      BY <1>q, <2>0, <2>4, HeadPassed DEF QueuesTyped
    <3>2. inbox' \in Seq(Nat) /\ <<>> \o inbox' = inbox'
      BY <1>q, <2>0, <2>4, HeadTailProperties, ConcatEmptySeq DEF QueuesTyped
    <3>3. Waiting' = deferred' \o inbox'
      BY <2>0, <3>2 DEF Waiting
    <3> QED
      BY <2>0, <2>1, <2>4, <3>1, <3>3, <1>1 DEF CancelAfterRun, cancelledBy, tokenVars
  <2> QED
    BY <1>13, <2>2, <2>3, <2>4 DEF WatcherGets, tokenVars, overtakes
<1>14. CASE UNCHANGED vars
  BY <1>14, <1>1 DEF vars, runVars, tokenVars, overtakes, Waiting, CancelAfterRun, cancelledBy, tokenVars
<1> QED
  BY <1>2, <1>3, <1>4, <1>5, <1>6, <1>7, <1>8, <1>9, <1>10, <1>11, <1>12, <1>13, <1>14
  DEF Next, ReaderStep, DispatcherStep, WatcherStep

(* The whole invariant: what was overtaken stays so. *)
LEMMA OrderInvariant == Spec => [](QueueInv /\ SideInv /\ (~overtaken => OrderInv))
<1> DEFINE Inv == QueueInv /\ SideInv /\ (~overtaken => OrderInv)
<1>1. Init => Inv
  BY QueueInit, SideInit, OrderInit
<1>2. Inv /\ [Next]_vars => Inv'
  <2> SUFFICES ASSUME Inv, [Next]_vars PROVE Inv'
    OBVIOUS
  <2>1. QueueInv'
    BY QueueStep
  <2>2. SideInv'
    BY SideStep
  <2>3. overtaken => overtaken'
    BY DEF Next, ReaderStep, DispatcherStep, WatcherStep, ReadLine, ReadEnd, Dispatch,
           RefuseRun, StartRun, LeaveLoop, JoinWatcher, Drain, PutBack, Report,
           WatcherChecks, WatcherTimesOut, WatcherGets, vars, overtakes, SideInv
  <2>4. ~overtaken' => OrderInv'
    BY <2>3, OrderStep
  <2> QED
    BY <2>1, <2>2, <2>4
<1> QED
  BY <1>1, <1>2, PTL DEF Spec

(* Commands are carried out in the order in which they were sent, and all  *)
(* before the end of input, for any number of lines, as long as the reader *)
(* is quiet while a requeue puts lines back.                               *)
THEOREM OrderSafe == Spec => []OrderKept
<1>1. SideInv /\ (~overtaken => OrderInv) => OrderKept
  BY DEF OrderInv, Concluded, OrderKept, AllServed
<1> QED
  BY <1>1, OrderInvariant, PTL

(* Under the same condition a cancel stops no run that was sent after it,  *)
(* unless that run's preset brought a token that the cancel had set.       *)
THEOREM CancelSafe == Spec => []CancelStopsItsRun
<1>1. (~overtaken => OrderInv) => CancelStopsItsRun
  BY DEF OrderInv, CancelAfterRun, CancelStopsItsRun
<1> QED
  BY <1>1, OrderInvariant, PTL
=============================================================================
