-------------------------- MODULE ModelCallsProofs --------------------------
(***************************************************************************)
(* ModelCalls for any number of helpers, requests and processes: requests  *)
(* that must not overlap are alone, a run never sends more requests than   *)
(* its ceiling over all its processes, and a crash is safe at any instant. *)
(***************************************************************************)
EXTENDS ModelCalls, FiniteSetTheorems, TLAPS

-----------------------------------------------------------------------------
(***************************************************************************)
(* Admission.                                                              *)
(***************************************************************************)
Engaged == {u \in Users : req[u].at # "idle"}

(* Calls are numbered in the order of their admission; the three sets of   *)
(* the controller agree with the requests under way.                       *)
AdmissionInv ==
  /\ calls \in Nat
  /\ safe \subseteq active /\ active \subseteq pend
  /\ pend \subseteq 1..calls
  /\ \A u \in Engaged : req[u].n \in active /\ (req[u].overlaps <=> req[u].n \in safe)
  /\ \A u, v \in Engaged : u # v => req[u].n # req[v].n /\ req[u].overlaps

-----------------------------------------------------------------------------
(***************************************************************************)
(* The documents.                                                          *)
(***************************************************************************)
Saving == {u \in Users : req[u].at = "saving"}

Docs == [turn : Int, calls : 0..MaxModelCalls, streak : Nat, step : Nat,
         asked : BOOLEAN, effect : BOOLEAN, over : BOOLEAN]

Requests == [at : {"idle", "saving", "sent"}, n : Nat, overlaps : BOOLEAN, doc : Docs]

CallsTyped ==
  /\ turn \in Int /\ calls \in 0..MaxModelCalls /\ streak \in Nat /\ stepCount \in Nat
  /\ sent \in Nat
  /\ over \in BOOLEAN /\ overtaken \in BOOLEAN /\ forgotten \in BOOLEAN
  /\ req \in [Users -> Requests]
  /\ turnFile \in Docs /\ stepFile \in Docs /\ held.doc \in Docs

(* A document captured earlier by this process, or by one before it, is    *)
(* not ahead of the counters; the record of a tool about to run carries    *)
(* the number its step will have.                                          *)
Behind(doc) == doc.turn < turn \/ (doc.turn = turn /\ doc.calls < calls)
PastBy(doc, k) == Behind(doc) \/ (doc.turn = turn /\ doc.calls = calls /\ doc.step <= stepCount + k)
Past(doc) == PastBy(doc, IF pc = "tool" THEN 1 ELSE 0)

DocumentsPast ==
  Alive => /\ Past(turnFile) /\ Past(stepFile)
           /\ pc = "saving" => PastBy(held.doc, IF held.next = "tool" THEN 1 ELSE 0)
           /\ \A u \in Saving : Past(req[u].doc)

(* While a call is pending, a document of the loop names it or is older.   *)
Aware(doc) == doc.asked \/ Behind(doc)
LoopAware ==
  Alive /\ pend # {} => Aware(stepFile) /\ (pc = "saving" => Aware(held.doc))

(* The document of an admission is newer than those of the loop that do    *)
(* not know of a call.                                                     *)
After(doc, other) == other.asked \/ ~UpTo(doc, other)
AdmissionsAfter ==
  \A u \in Saving : /\ req[u].doc.asked /\ req[u].n \in pend
                    /\ After(req[u].doc, stepFile)
                    /\ pc = "saving" => After(req[u].doc, held.doc)

(* The document the loop is writing is newer than what is on disk, except  *)
(* for admissions; if it knows of no call, what was sent since is seen in  *)
(* the file of the turn.                                                   *)
HeldNewer ==
  pc = "saving" =>
    /\ UpTo(stepFile, held.doc)
    /\ turnFile.asked \/ UpTo(turnFile, held.doc)
    /\ held.doc.asked => After(held.doc, stepFile)
    /\ forgotten \/ held.doc.asked \/ sent <= held.doc.calls \/ ~UpTo(turnFile, held.doc)
    /\ InFlight # {} => held.doc.asked \/ ~UpTo(turnFile, held.doc)

(* Every request was counted before it was sent ... *)
Counted == forgotten \/ sent + Cardinality(Saving) <= calls

(* ... and what a later process counts from is no less. *)
Restorable == forgotten \/ overtaken \/ Blocked \/ sent <= Newest.calls

(* While a request is in flight, or the outcome of a tool is not on disk,  *)
(* what is there says so.                                                  *)
InFlightKnown == InFlight # {} => overtaken \/ Blocked
UncertainKnown ==
  uncertain => /\ stepFile.effect
               /\ turnFile.asked \/ UpTo(turnFile, stepFile)
               /\ pc \in {"tool", "record", "saving", "ended"}
               /\ pc = "saving" => held.key = "step"

DeadIdle == ~Alive => Engaged = {} /\ pend = {} /\ ~uncertain
LoopAsking == req[Loop].at # "idle" => pc = "asking"
HeldKnown ==
  pc = "saving" =>
    /\ held.next \in {"head", "finish", "propose", "tool", "loop_end", "trace", "ended"}
    /\ held.next = "tool" => held.key = "step" /\ held.doc.effect

BaseInv == CallsTyped /\ AdmissionInv /\ DeadIdle /\ LoopAsking /\ HeldKnown
SafeInv ==
  /\ DocumentsPast /\ LoopAware /\ AdmissionsAfter /\ HeldNewer
  /\ Counted /\ Restorable /\ InFlightKnown /\ UncertainKnown

-----------------------------------------------------------------------------
(***************************************************************************)
(* Types.                                                                  *)
(***************************************************************************)
LEMMA NoDocTyped == NoDoc \in Docs
  BY CeilingAssumption DEF NoDoc, Docs

(* What the loop captures, in the forms in which it writes it. *)
LEMMA CapturedFields ==
  ASSUME CallsTyped
  PROVE  \E b \in BOOLEAN, yes \in BOOLEAN :
            /\ b = (pend # {}) /\ yes = TRUE
            /\ Captured \in Docs
            /\ Captured.turn = turn /\ Captured.calls = calls /\ Captured.step = stepCount
            /\ Captured.asked = b
            /\ streak + 1 \in Nat /\ stepCount + 1 \in Nat
<1>1. PICK b \in BOOLEAN, yes \in BOOLEAN, no \in BOOLEAN :
        b = (pend # {}) /\ yes = TRUE /\ no = FALSE
  BY Zenon
<1>2. PICK cap : cap = [turn |-> turn, calls |-> calls, streak |-> streak, step |-> stepCount,
                        asked |-> b, effect |-> no, over |-> over]
  OBVIOUS
<1>3. Captured = cap
  BY <1>1, <1>2, Zenon DEF Captured
<1>4. cap \in Docs
  BY <1>2 DEF CallsTyped, Docs
<1>5. /\ cap.turn = turn /\ cap.calls = calls /\ cap.step = stepCount /\ cap.asked = b
      /\ streak + 1 \in Nat /\ stepCount + 1 \in Nat
  BY ONLY CallsTyped, <1>2 DEF CallsTyped
<1> QED
  BY <1>1, <1>3, <1>4, <1>5, Zenon

LEMMA HoldTyped ==
  ASSUME CallsTyped, NEW doc,
         \/ doc = Captured
         \/ doc = [Captured EXCEPT !.streak = streak + 1]
         \/ doc = [Captured EXCEPT !.over = TRUE]
  PROVE  /\ doc \in Docs
         /\ doc.turn = turn /\ doc.calls = calls /\ doc.step = stepCount
         /\ doc.asked <=> pend # {}
<1>1. PICK b \in BOOLEAN, yes \in BOOLEAN, cap \in Docs :
        /\ b = (pend # {}) /\ yes = TRUE /\ cap = Captured
        /\ cap \in Docs
        /\ cap.turn = turn /\ cap.calls = calls /\ cap.step = stepCount /\ cap.asked = b
        /\ streak + 1 \in Nat
  BY CapturedFields, Zenon
<1>2. \/ doc = cap
      \/ doc = [cap EXCEPT !.streak = streak + 1]
      \/ doc = [cap EXCEPT !.over = yes]
  BY <1>1, Zenon
<1>3. CASE doc = cap
  BY <1>1, <1>3, Zenon
<1>4. CASE doc = [cap EXCEPT !.streak = streak + 1]
  <2>1. /\ doc \in Docs /\ doc.asked = b
        /\ doc.turn = turn /\ doc.calls = calls /\ doc.step = stepCount
    BY ONLY <1>1, <1>4 DEF Docs
  <2> QED
    BY <1>1, <2>1, Zenon
<1>5. CASE doc = [cap EXCEPT !.over = yes]
  <2>0. /\ cap \in Docs /\ yes \in BOOLEAN
        /\ cap.turn = turn /\ cap.calls = calls /\ cap.step = stepCount /\ cap.asked = b
    BY <1>1
  <2>1. /\ doc \in Docs /\ doc.asked = b
        /\ doc.turn = turn /\ doc.calls = calls /\ doc.step = stepCount
    BY ONLY <2>0, <1>5 DEF Docs
  <2> QED
    BY <1>1, <2>1, Zenon
<1> QED
  BY <1>2, <1>3, <1>4, <1>5, Zenon

LEMMA RecordTyped ==
  ASSUME CallsTyped, NEW doc,
         doc = [Captured EXCEPT !.streak = 0, !.step = @ + 1, !.effect = TRUE]
  PROVE  /\ doc \in Docs /\ doc.effect
         /\ doc.turn = turn /\ doc.calls = calls /\ doc.step = stepCount + 1
         /\ doc.asked <=> pend # {}
<1>1. PICK b \in BOOLEAN, yes \in BOOLEAN, cap \in Docs :
        /\ b = (pend # {}) /\ yes = TRUE /\ cap = Captured
        /\ cap \in Docs
        /\ cap.turn = turn /\ cap.calls = calls /\ cap.step = stepCount /\ cap.asked = b
        /\ stepCount + 1 \in Nat
  BY CapturedFields, Zenon
<1>2. doc = [cap EXCEPT !.streak = 0, !.step = cap.step + 1, !.effect = yes]
  BY <1>1, Zenon
<1>3. /\ cap \in Docs /\ yes \in BOOLEAN /\ stepCount + 1 \in Nat
      /\ cap.turn = turn /\ cap.calls = calls /\ cap.step = stepCount /\ cap.asked = b
  BY <1>1
<1>4. /\ doc \in Docs /\ doc.asked = b /\ doc.effect = yes
      /\ doc.turn = turn /\ doc.calls = calls /\ doc.step = stepCount + 1
  BY ONLY <1>2, <1>3 DEF Docs
<1> QED
  BY <1>1, <1>4, Zenon

(* What an admission does, in the terms of the proof. *)
LEMMA AdmitEffect ==
  ASSUME CallsTyped, NEW u \in Users, NEW overlaps \in BOOLEAN, Admit(u, overlaps)
  PROVE  /\ calls' = calls + 1 /\ calls' \in 0..MaxModelCalls
         /\ pend' = pend \cup {calls'} /\ active' = active \cup {calls'}
         /\ safe' = (IF overlaps THEN safe \cup {calls'} ELSE safe)
         /\ \A v \in Users \ {u} : req'[v] = req[v]
         /\ req' \in [Users -> Requests]
         /\ req'[u].at = "saving" /\ req'[u].n = calls' /\ req'[u].overlaps = overlaps
         /\ req'[u].doc.turn = turn /\ req'[u].doc.calls = calls'
         /\ req'[u].doc.step = stepCount /\ req'[u].doc.asked
         /\ Admissible(overlaps)
<1>1. PICK b \in BOOLEAN, yes \in BOOLEAN, no \in BOOLEAN :
        b = (pend # {}) /\ yes = TRUE /\ no = FALSE
  BY Zenon
<1>2. PICK cap : cap = [turn |-> turn, calls |-> calls, streak |-> streak, step |-> stepCount,
                        asked |-> b, effect |-> no, over |-> over]
  OBVIOUS
<1>3. PICK doc : doc = [cap EXCEPT !.calls = calls + 1, !.asked = yes]
  OBVIOUS
<1>c. [Captured EXCEPT !.calls = calls + 1, !.asked = TRUE] = doc
  <2>1. Captured = cap
    BY <1>1, <1>2, Zenon DEF Captured
  <2> QED
    BY <1>1, <1>3, <2>1, Zenon
<1>4. PICK entry : entry = [at |-> "saving", n |-> calls + 1, overlaps |-> overlaps, doc |-> doc]
  OBVIOUS
<1>5. /\ calls' = calls + 1 /\ Admissible(overlaps)
      /\ pend' = pend \cup {calls'} /\ active' = active \cup {calls'}
      /\ safe' = (IF overlaps THEN safe \cup {calls'} ELSE safe)
  BY DEF Admit
<1>6. req' = [req EXCEPT ![u] = entry]
  BY <1>c, <1>4, Zenon DEF Admit
<1>7. calls + 1 \in 0..MaxModelCalls /\ calls + 1 \in Nat
  BY <1>5, CeilingAssumption DEF Admissible, CallsTyped
<1>8. /\ doc \in Docs /\ doc.asked = yes
      /\ doc.turn = turn /\ doc.calls = calls + 1 /\ doc.step = stepCount
  <2>1. cap \in Docs
    BY <1>2 DEF CallsTyped, Docs
  <2>2. cap.turn = turn /\ cap.step = stepCount
    BY <1>2
  <2> QED
    BY ONLY <1>1, <1>3, <1>7, <2>1, <2>2 DEF Docs
<1>9. entry \in Requests
  BY <1>4, <1>7, <1>8 DEF Requests
<1>10. /\ req' \in [Users -> Requests]
       /\ req'[u] = entry /\ \A v \in Users \ {u} : req'[v] = req[v]
  BY <1>6, <1>9 DEF CallsTyped
<1>11. entry.doc.asked
  <2>1. entry.doc.asked = yes
    BY <1>8, <1>4
  <2> QED
    BY <1>1, <2>1, Zenon
<1>12. /\ req'[u].at = "saving" /\ req'[u].n = calls' /\ req'[u].overlaps = overlaps
       /\ req'[u].doc.turn = turn /\ req'[u].doc.calls = calls'
       /\ req'[u].doc.step = stepCount
  BY ONLY <1>4, <1>5, <1>8, <1>10
<1> QED
  BY ONLY <1>5, <1>7, <1>10, <1>11, <1>12

LEMMA IdleTyped == Idle \in Requests
<1>1. PICK no \in BOOLEAN : no = FALSE
  BY Zenon
<1>2. PICK r : r = [at |-> "idle", n |-> 0, overlaps |-> no, doc |-> NoDoc]
  OBVIOUS
<1>3. r \in Requests
  BY <1>2, NoDocTyped DEF Requests
<1> QED
  BY <1>1, <1>2, <1>3, Zenon DEF Idle

LEMMA IdleFields == Idle.at = "idle" /\ NoHeld.doc = NoDoc
  BY DEF Idle, NoHeld

LEMMA HoldFields ==
  ASSUME NEW key, NEW doc, NEW next, Hold(key, doc, next)
  PROVE  held'.key = key /\ held'.doc = doc /\ held'.next = next /\ pc' = "saving"
  BY DEF Hold

(* Requests that end or go on keep what they are. *)
LEMMA RequestTyped ==
  ASSUME CallsTyped, NEW u \in Users, NEW at \in {"idle", "saving", "sent"}
  PROVE  /\ req' = [req EXCEPT ![u].at = at] =>
              /\ req' \in [Users -> Requests]
              /\ req'[u].at = at /\ req'[u].n = req[u].n /\ req'[u].doc = req[u].doc
              /\ req'[u].overlaps = req[u].overlaps
              /\ \A v \in Users \ {u} : req'[v] = req[v]
         /\ req' = [req EXCEPT ![u] = Idle] =>
              /\ req' \in [Users -> Requests] /\ req'[u] = Idle
              /\ \A v \in Users \ {u} : req'[v] = req[v]
  BY IdleTyped DEF CallsTyped, Requests

LEMMA WritesTyped ==
  ASSUME CallsTyped, NEW doc \in Docs
  PROVE  /\ WriteTurn(doc) => turnFile' \in Docs /\ stepFile' \in Docs /\ overtaken' \in BOOLEAN
         /\ WriteStep(doc) => turnFile' \in Docs /\ stepFile' \in Docs /\ overtaken' \in BOOLEAN
<1>1. WriteTurn(doc) => overtaken' \in BOOLEAN
  <2>1. (~doc.asked /\ ~UpTo(turnFile, doc)) \in BOOLEAN
    OBVIOUS
  <2> QED
    BY <2>1, Zenon DEF WriteTurn
<1> QED
  BY <1>1 DEF CallsTyped, WriteTurn, WriteStep

LEMMA NewestTyped == CallsTyped => Newest \in Docs
  BY DEF CallsTyped, Newest

LEMMA TypedStep == CallsTyped /\ [Next]_vars => CallsTyped'
<1> SUFFICES ASSUME CallsTyped, [Next]_vars PROVE CallsTyped'
  OBVIOUS
<1> USE DEF process, counters, admission, files, work
<1>1. CASE BeginTurn
  BY <1>1 DEF BeginTurn, CallsTyped
<1>2. CASE AskModel
  <2>1. CASE Admit(Loop, ~config.exclusive)
    <3>1. PICK overlaps \in BOOLEAN : overlaps = ~config.exclusive
      BY Zenon
    <3>2. Admit(Loop, overlaps)
      BY <2>1, <3>1, Zenon
    <3>3. Loop \in Users
      BY DEF Users
    <3>4. calls' \in 0..MaxModelCalls /\ req' \in [Users -> Requests]
      BY <3>2, <3>3, AdmitEffect
    <3> QED
      BY <1>2, <3>4 DEF AskModel, CallsTyped
  <2>2. CASE ~Admit(Loop, ~config.exclusive)
    BY <1>2, <2>2 DEF AskModel, CallsTyped
  <2> QED
    BY <2>1, <2>2
<1>3. CASE ReadAnswer
  <2>1. CASE UNCHANGED held
    BY <1>3, <2>1 DEF ReadAnswer, CallsTyped
  <2>2. CASE \E next \in {"head", "finish", "propose"} :
               Hold("turn", [Captured EXCEPT !.streak = streak'], next) /\ streak' = streak + 1
    <3>1. held'.doc = [Captured EXCEPT !.streak = streak + 1]
      BY <2>2, HoldFields, Zenon
    <3>2. held'.doc \in Docs
      BY <3>1, HoldTyped, Zenon
    <3> QED
      BY <1>3, <3>2 DEF ReadAnswer, CallsTyped
  <2>3. CASE Hold("step", [Captured EXCEPT !.streak = 0, !.step = @ + 1, !.effect = TRUE], "tool")
    <3>1. held'.doc = [Captured EXCEPT !.streak = 0, !.step = @ + 1, !.effect = TRUE]
      BY <2>3, HoldFields, Zenon
    <3>2. held'.doc \in Docs
      BY <3>1, RecordTyped, Zenon
    <3> QED
      BY <1>3, <3>2 DEF ReadAnswer, CallsTyped
  <2> QED
    BY <1>3, <2>1, <2>2, <2>3, Zenon DEF ReadAnswer
<1>4. CASE Saved
  <2>1. held.doc \in Docs
    BY DEF CallsTyped
  <2>2. turnFile' \in Docs /\ stepFile' \in Docs /\ overtaken' \in BOOLEAN
    BY <1>4, <2>1, WritesTyped, Zenon DEF Saved
  <2>3. held'.doc \in Docs
    BY <1>4, IdleFields, NoDocTyped DEF Saved
  <2> QED
    BY <1>4, <2>2, <2>3 DEF Saved, CallsTyped
<1>5. CASE SaveRaises
  <2>1. held'.doc \in Docs
    BY <1>5, IdleFields, NoDocTyped DEF SaveRaises
  <2> QED
    BY <1>5, <2>1 DEF SaveRaises, CallsTyped
<1>6. CASE StepDone
  BY <1>6 DEF StepDone, CallsTyped
<1>7. CASE RecordStep
  <2>1. held'.doc = Captured
    BY <1>7, HoldFields, Zenon DEF RecordStep
  <2>2. held'.doc \in Docs
    BY <2>1, HoldTyped, Zenon
  <2> QED
    BY <1>7, <2>2 DEF RecordStep, CallsTyped
<1>8. CASE Finish
  <2>1. held'.doc = [Captured EXCEPT !.over = TRUE]
    BY <1>8, HoldFields, Zenon DEF Finish
  <2>2. held'.doc \in Docs
    BY <2>1, HoldTyped, Zenon
  <2>3. over' \in BOOLEAN
    BY <1>8, Zenon DEF Finish
  <2> QED
    BY <1>8, <2>2, <2>3 DEF Finish, CallsTyped
<1>9. ASSUME NEW u \in Users, Send(u) PROVE CallsTyped'
  <2>1. req[u].doc \in Docs
    BY DEF CallsTyped, Requests
  <2>2. turnFile' \in Docs /\ stepFile' \in Docs /\ overtaken' \in BOOLEAN
    BY <1>9, <2>1, WritesTyped, Zenon DEF Send
  <2>3. req' \in [Users -> Requests]
    BY <1>9, RequestTyped DEF Send
  <2> QED
    BY <1>9, <2>2, <2>3 DEF Send, CallsTyped
<1>10. ASSUME NEW u \in Users, Abandon(u) PROVE CallsTyped'
  <2>1. req[u].doc \in Docs
    BY DEF CallsTyped, Requests
  <2>2. turnFile' \in Docs /\ stepFile' \in Docs /\ overtaken' \in BOOLEAN
    <3>1. CASE WriteTurn(req[u].doc)
      BY <2>1, <3>1, WritesTyped, Zenon
    <3>2. CASE UNCHANGED files
      BY <3>2 DEF CallsTyped
    <3> QED
      BY <1>10, <3>1, <3>2, Zenon DEF Abandon
  <2>3. req' \in [Users -> Requests]
    BY <1>10, RequestTyped DEF Abandon
  <2> QED
    BY <1>10, <2>2, <2>3 DEF Abandon, CallsTyped
<1>11. ASSUME NEW u \in Users, Answer(u) PROVE CallsTyped'
  <2>1. req' \in [Users -> Requests]
    BY <1>11, RequestTyped DEF Answer, Acknowledge
  <2> QED
    BY <1>11, <2>1 DEF Answer, Acknowledge, CallsTyped
<1>12. ASSUME NEW h \in Helpers, HelperAsks(h) PROVE CallsTyped'
  <2>1. PICK overlaps \in BOOLEAN : overlaps = TRUE
    BY Zenon
  <2>2. Admit(h, overlaps) /\ h \in Users
    BY <1>12, <2>1, Zenon DEF HelperAsks, Users
  <2>3. calls' \in 0..MaxModelCalls /\ req' \in [Users -> Requests]
    BY <2>2, AdmitEffect
  <2> QED
    BY <1>12, <2>3 DEF HelperAsks, CallsTyped
<1>13. CASE CancelRun
  BY <1>13 DEF CancelRun, CallsTyped
<1>14. CASE Crash
  <2>1. held'.doc \in Docs
    BY <1>14, IdleFields, NoDocTyped DEF Crash
  <2>2. req' \in [Users -> Requests]
    BY <1>14, IdleTyped DEF Crash
  <2>3. over' \in BOOLEAN
    BY <1>14, Zenon DEF Crash
  <2> QED
    BY <1>14, <2>1, <2>2, <2>3 DEF Crash, CallsTyped
<1>15. CASE Restart
  <2>1. forgotten' \in BOOLEAN
    <3>1. (forgotten \/ (pc' = "head" /\ overtaken)) \in BOOLEAN
      OBVIOUS
    <3> QED
      BY <1>15, <3>1, Zenon DEF Restart
  <2>2. turn' \in Int /\ calls' \in 0..MaxModelCalls /\ streak' \in Nat /\ stepCount' \in Nat
    BY <1>15, NewestTyped, CeilingAssumption DEF Restart, Restored, CallsTyped, Docs
  <2> QED
    BY <1>15, <2>1, <2>2 DEF Restart, CallsTyped
<1>16. CASE UNCHANGED vars
  BY <1>16 DEF vars, CallsTyped
<1> QED
  BY <1>1, <1>2, <1>3, <1>4, <1>5, <1>6, <1>7, <1>8, <1>9, <1>10, <1>11, <1>12, <1>13, <1>14,
     <1>15, <1>16 DEF Next

-----------------------------------------------------------------------------
(***************************************************************************)
(* Admission.                                                              *)
(***************************************************************************)
LEMMA AdmissionAdmits ==
  ASSUME CallsTyped, AdmissionInv, NEW u \in Users, NEW overlaps \in BOOLEAN, Admit(u, overlaps)
  PROVE  AdmissionInv' /\ Engaged' = Engaged \cup {u}
<1>1. /\ calls \in Nat /\ calls' = calls + 1
      /\ pend' = pend \cup {calls'} /\ active' = active \cup {calls'}
      /\ safe' = (IF overlaps THEN safe \cup {calls'} ELSE safe)
      /\ \A v \in Users \ {u} : req'[v] = req[v]
      /\ req'[u].at = "saving" /\ req'[u].n = calls' /\ req'[u].overlaps = overlaps
  BY AdmitEffect DEF CallsTyped
<1>2. pend = {} \/ (overlaps /\ active = pend /\ active = safe)
  BY AdmitEffect DEF Admissible
<1>3. calls' \notin pend /\ calls' \notin active /\ calls' \notin safe
  BY <1>1 DEF AdmissionInv
<1>4. Engaged' = Engaged \cup {u}
  BY <1>1 DEF Engaged
<1>5. /\ calls' \in Nat /\ safe' \subseteq active' /\ active' \subseteq pend'
      /\ pend' \subseteq 1..calls'
  <2>1. calls' \in Nat /\ 1..calls \subseteq 1..calls' /\ calls' \in 1..calls'
    BY <1>1
  <2>2. safe \subseteq active /\ active \subseteq pend /\ pend \subseteq 1..calls
    BY DEF AdmissionInv
  <2> QED
    BY ONLY <1>1, <2>1, <2>2
<1>6. ASSUME NEW v \in Engaged'
      PROVE  req'[v].n \in active' /\ (req'[v].overlaps <=> req'[v].n \in safe')
  <2>1. CASE v = u
    BY <1>1, <1>3, <2>1
  <2>2. CASE v # u
    <3>1. /\ v \in Engaged /\ req'[v] = req[v] /\ req[v].n \in active
          /\ (req[v].overlaps <=> req[v].n \in safe)
      BY <1>1, <1>4, <2>2 DEF AdmissionInv, Engaged
    <3>2. req'[v].n # calls'
      BY <1>3, <3>1
    <3> QED
      BY <1>1, <3>1, <3>2
  <2> QED
    BY <2>1, <2>2
<1>7. ASSUME NEW v \in Engaged', NEW w \in Engaged', v # w
      PROVE  req'[v].n # req'[w].n /\ req'[v].overlaps
  <2>1. ASSUME NEW x \in Engaged, x # u
        PROVE  overlaps /\ req'[x] = req[x] /\ req[x].overlaps /\ req[x].n # calls'
    <3>1. req[x].n \in active /\ (req[x].overlaps <=> req[x].n \in safe)
      BY DEF AdmissionInv
    <3>2. pend # {}
      BY <3>1 DEF AdmissionInv
    <3> QED
      BY <1>1, <1>2, <1>3, <2>1, <3>1, <3>2 DEF Engaged
  <2>2. CASE v = u
    BY <1>1, <1>4, <1>7, <2>1, <2>2
  <2>3. CASE w = u
    BY <1>1, <1>4, <1>7, <2>1, <2>3
  <2>4. CASE v # u /\ w # u
    BY <1>4, <1>7, <2>1, <2>4 DEF AdmissionInv
  <2> QED
    BY <2>2, <2>3, <2>4
<1> QED
  BY <1>4, <1>5, <1>6, <1>7 DEF AdmissionInv

(* A request that ends takes its number with it. *)
LEMMA AdmissionEnds ==
  ASSUME CallsTyped, AdmissionInv, NEW u \in Users, u \in Engaged,
         req' = [req EXCEPT ![u] = Idle], calls' = calls,
         active' = active \ {req[u].n}, safe' = safe \ {req[u].n},
         pend' = pend \/ pend' = pend \ {req[u].n}
  PROVE  AdmissionInv' /\ Engaged' = Engaged \ {u}
<1>1. req'[u] = Idle /\ \A v \in Users \ {u} : req'[v] = req[v]
  BY RequestTyped
<1>2. Engaged' = Engaged \ {u}
  BY <1>1, IdleFields DEF Engaged
<1>3. ASSUME NEW v \in Engaged'
      PROVE  /\ req'[v] = req[v] /\ v \in Engaged /\ v # u
             /\ req[v].n # req[u].n
  BY <1>1, <1>2 DEF AdmissionInv, Engaged
<1>4. ASSUME NEW v \in Engaged'
      PROVE  req'[v].n \in active' /\ (req'[v].overlaps <=> req'[v].n \in safe')
  BY <1>3 DEF AdmissionInv
<1>5. ASSUME NEW v \in Engaged', NEW w \in Engaged', v # w
      PROVE  req'[v].n # req'[w].n /\ req'[v].overlaps
  BY <1>3, <1>5 DEF AdmissionInv
<1>6. /\ calls' \in Nat /\ safe' \subseteq active' /\ active' \subseteq pend'
      /\ pend' \subseteq 1..calls'
  BY DEF AdmissionInv
<1> QED
  BY <1>2, <1>4, <1>5, <1>6 DEF AdmissionInv

LEMMA AdmissionQuiet ==
  AdmissionInv /\ UNCHANGED <<calls, pend, active, safe, req>> => AdmissionInv'
  BY DEF AdmissionInv, Engaged

LEMMA AskModelCases ==
  ASSUME AskModel
  PROVE  \/ /\ \E overlaps \in BOOLEAN : Admit(Loop, overlaps)
            /\ pc' = "asking"
         \/ pc' = "finish" /\ UNCHANGED <<calls, admission, req>>
<1>1. PICK overlaps \in BOOLEAN : overlaps = ~config.exclusive
  BY Zenon
<1>2. Admit(Loop, ~config.exclusive) => Admit(Loop, overlaps)
  BY <1>1, Zenon
<1> QED
  BY <1>2, Zenon DEF AskModel

(* The loop captures a document: of the counters as they are, and of the   *)
(* calls that are pending.                                                 *)
LEMMA Captures ==
  ASSUME CallsTyped, ReadAnswer \/ RecordStep \/ Finish, pc' = "saving"
  PROVE  /\ HeldKnown' /\ held'.doc \in Docs
         /\ held'.doc.turn = turn /\ held'.doc.calls = calls
         /\ held'.doc.step = stepCount + (IF held'.next = "tool" THEN 1 ELSE 0)
         /\ held'.doc.asked <=> pend # {}
         /\ pc \in {"answered", "record", "finish", "loop_end", "trace"}
         /\ pc = "record" => held'.key = "step" /\ held'.next # "tool"
         /\ UNCHANGED <<turn, calls, stepCount, admission, req, files, sent, uncertain,
                        forgotten>>
<1> USE DEF admission, files, process, counters, work
<1>1. CASE ReadAnswer
  <2>0. /\ pc = "answered"
        /\ UNCHANGED <<turn, calls, stepCount, admission, req, files, sent, uncertain,
                       forgotten>>
    BY <1>1 DEF ReadAnswer
  <2>1. CASE \E next \in {"head", "finish", "propose"} :
               Hold("turn", [Captured EXCEPT !.streak = streak'], next) /\ streak' = streak + 1
    <3>1. /\ held'.doc = [Captured EXCEPT !.streak = streak + 1]
          /\ held'.next \in {"head", "finish", "propose"}
      BY <2>1, HoldFields, Zenon
    <3>2. /\ held'.doc \in Docs
          /\ held'.doc.turn = turn /\ held'.doc.calls = calls /\ held'.doc.step = stepCount
          /\ (held'.doc.asked <=> pend # {})
      BY <3>1, HoldTyped, Zenon
    <3>3. stepCount + 0 = stepCount
      BY DEF CallsTyped
    <3> QED
      BY <2>0, <3>1, <3>2, <3>3 DEF HeldKnown
  <2>2. CASE Hold("step", [Captured EXCEPT !.streak = 0, !.step = @ + 1, !.effect = TRUE], "tool")
    <3>1. /\ held'.doc = [Captured EXCEPT !.streak = 0, !.step = @ + 1, !.effect = TRUE]
          /\ held'.next = "tool" /\ held'.key = "step"
      BY <2>2, HoldFields, Zenon
    <3>2. /\ held'.doc \in Docs /\ held'.doc.effect
          /\ held'.doc.turn = turn /\ held'.doc.calls = calls /\ held'.doc.step = stepCount + 1
          /\ (held'.doc.asked <=> pend # {})
      BY <3>1, RecordTyped, Zenon
    <3> QED
      BY <2>0, <3>1, <3>2 DEF HeldKnown
  <2>3. pc' # "finish" /\ pc' # "record" /\ pc' # "head"
    OBVIOUS
  <2>4. pc' = (IF config.async THEN "record" ELSE "head") => FALSE
    BY <2>3
  <2> QED
    BY <1>1, <2>1, <2>2, <2>3, <2>4, Zenon DEF ReadAnswer
<1>2. CASE RecordStep
  <2>1. PICK next \in {"finish", "head"} : Hold("step", Captured, next)
    BY <1>2 DEF RecordStep
  <2>2. held'.doc = Captured /\ held'.next = next /\ held'.key = "step"
    BY <2>1, HoldFields, Zenon
  <2>3. /\ held'.doc \in Docs
        /\ held'.doc.turn = turn /\ held'.doc.calls = calls /\ held'.doc.step = stepCount
        /\ (held'.doc.asked <=> pend # {})
    BY <2>2, HoldTyped, Zenon
  <2>4. stepCount + 0 = stepCount
    BY DEF CallsTyped
  <2> QED
    BY <1>2, <2>2, <2>3, <2>4 DEF RecordStep, HeldKnown
<1>3. CASE Finish
  <2>1. /\ pc \in {"finish", "loop_end", "trace"} /\ Ending[pc] \in {"loop_end", "trace", "ended"}
        /\ Hold("turn", [Captured EXCEPT !.over = TRUE], Ending[pc])
    BY <1>3 DEF Finish, Ending
  <2>2. held'.doc = [Captured EXCEPT !.over = TRUE] /\ held'.next = Ending[pc]
    BY <2>1, HoldFields, Zenon
  <2>3. /\ held'.doc \in Docs
        /\ held'.doc.turn = turn /\ held'.doc.calls = calls /\ held'.doc.step = stepCount
        /\ (held'.doc.asked <=> pend # {})
    BY <2>2, HoldTyped, Zenon
  <2>4. stepCount + 0 = stepCount
    BY DEF CallsTyped
  <2>5. held'.next \in {"loop_end", "trace", "ended"}
    BY <2>1, <2>2
  <2> QED
    BY <1>3, <2>1, <2>3, <2>4, <2>5 DEF Finish, HeldKnown
<1> QED
  BY <1>1, <1>2, <1>3

LEMMA BaseStep == BaseInv /\ [Next]_vars => BaseInv'
<1> SUFFICES ASSUME BaseInv, [Next]_vars PROVE BaseInv'
  OBVIOUS
<1> USE DEF process, counters, admission, files, work
<1>a. CallsTyped /\ AdmissionInv /\ DeadIdle /\ LoopAsking /\ HeldKnown /\ CallsTyped'
  BY TypedStep DEF BaseInv
<1>q. ASSUME UNCHANGED <<calls, pend, active, safe, req>>,
             req[Loop].at = "idle" \/ pc' = pc,
             ~Alive' => ~Alive /\ UNCHANGED uncertain,
             pc' # "saving" \/ HeldKnown' \/ UNCHANGED <<pc, held>>
      PROVE  BaseInv'
  <2>1. AdmissionInv'
    BY <1>a, <1>q, AdmissionQuiet
  <2>2. LoopAsking'
    BY <1>a, <1>q DEF LoopAsking
  <2>3. DeadIdle'
    BY <1>a, <1>q DEF DeadIdle, Engaged
  <2>4. HeldKnown'
    BY <1>a, <1>q DEF HeldKnown
  <2> QED
    BY <1>a, <2>1, <2>2, <2>3, <2>4 DEF BaseInv
<1>b. pc # "asking" => req[Loop].at = "idle"
  BY <1>a DEF LoopAsking
<1>c. ASSUME NEW u \in Users, req[u].at # "idle" PROVE Alive /\ u \in Engaged
  BY <1>a, <1>c DEF DeadIdle, Engaged
<1>1. CASE BeginTurn
  BY <1>1, <1>q, <1>b DEF BeginTurn, Alive
<1>2. CASE AskModel
  <2>0. Loop \in Users
    BY DEF Users
  <2>1. CASE pc' = "finish" /\ UNCHANGED <<calls, admission, req>>
    BY <1>2, <1>q, <1>b, <2>1 DEF AskModel, Alive
  <2>2. ASSUME NEW overlaps \in BOOLEAN, Admit(Loop, overlaps), pc' = "asking" PROVE BaseInv'
    <3>1. AdmissionInv'
      BY <1>a, <2>0, <2>2, AdmissionAdmits
    <3>2. LoopAsking' /\ DeadIdle' /\ HeldKnown'
      BY <2>2 DEF LoopAsking, DeadIdle, HeldKnown, Alive
    <3> QED
      BY <1>a, <3>1, <3>2 DEF BaseInv
  <2> QED
    BY <1>2, <2>1, <2>2, AskModelCases
<1>3. CASE ReadAnswer
  <2>1. pc = "answered" /\ pc' \in {"finish", "saving", "record", "head"}
    BY <1>3 DEF ReadAnswer, Hold
  <2>2. pc' # "saving" \/ HeldKnown'
    BY <1>3, <1>a, Captures
  <2> QED
    BY <1>3, <1>q, <1>b, <2>1, <2>2 DEF ReadAnswer, Alive
<1>4. CASE Saved
  <2>1. pc' \in {"head", "finish", "propose", "tool", "loop_end", "trace", "ended"}
    BY <1>4, <1>a DEF Saved, HeldKnown
  <2> QED
    BY <1>4, <1>q, <1>b, <2>1 DEF Saved, Alive
<1>5. CASE SaveRaises
  BY <1>5, <1>q, <1>b DEF SaveRaises, Alive
<1>6. CASE StepDone
  BY <1>6, <1>q, <1>b DEF StepDone, Alive
<1>7. CASE RecordStep
  <2>1. pc = "record" /\ pc' = "saving"
    BY <1>7 DEF RecordStep, Hold
  <2>2. HeldKnown'
    BY <1>7, <1>a, <2>1, Captures
  <2> QED
    BY <1>7, <1>q, <1>b, <2>1, <2>2 DEF RecordStep, Alive
<1>8. CASE Finish
  <2>1. pc # "asking" /\ pc' = "saving"
    BY <1>8 DEF Finish, Hold, Ending
  <2>2. HeldKnown'
    BY <1>8, <1>a, <2>1, Captures
  <2> QED
    BY <1>8, <1>q, <1>b, <2>1, <2>2 DEF Finish, Alive
<1>9. ASSUME NEW u \in Users, Send(u) PROVE BaseInv'
  <2>1. Alive /\ u \in Engaged
    BY <1>9, <1>c DEF Send
  <2>2. /\ req'[u].at = "sent" /\ req'[u].n = req[u].n /\ req'[u].overlaps = req[u].overlaps
        /\ \A v \in Users \ {u} : req'[v] = req[v]
    BY <1>9, <1>a, RequestTyped DEF Send
  <2>3. Engaged' = Engaged
    BY <2>1, <2>2 DEF Engaged
  <2>4. /\ \A v \in Engaged : req'[v].n = req[v].n /\ req'[v].overlaps = req[v].overlaps
        /\ UNCHANGED <<pc, calls, pend, active, safe>>
    BY <1>9, <2>2 DEF Send, Engaged
  <2>5. AdmissionInv'
    BY <1>a, <2>3, <2>4 DEF AdmissionInv
  <2>6. LoopAsking' /\ DeadIdle'
    BY <1>a, <2>1, <2>2, <2>4, <1>9 DEF LoopAsking, DeadIdle, Alive, Users, Send
  <2>7. HeldKnown'
    BY <1>9, <1>a DEF Send, HeldKnown
  <2> QED
    BY <1>a, <2>5, <2>6, <2>7 DEF BaseInv
<1>10. ASSUME NEW u \in Users, Abandon(u) PROVE BaseInv'
  <2>1. Alive /\ u \in Engaged
    BY <1>10, <1>c DEF Abandon
  <2>2. AdmissionInv' /\ Engaged' = Engaged \ {u}
    BY <1>10, <1>a, <2>1, AdmissionEnds DEF Abandon
  <2>3. pc' = pc \/ (u = Loop /\ pc' \in {"finish", "ask"})
    BY <1>10 DEF Abandon, LoopError
  <2>4. req'[u].at = "idle" /\ \A v \in Users \ {u} : req'[v] = req[v]
    BY <1>10, <1>a, RequestTyped, IdleFields DEF Abandon
  <2>5. LoopAsking'
    BY <1>a, <2>3, <2>4 DEF LoopAsking, Users
  <2>6. DeadIdle'
    BY <2>1, <2>3 DEF DeadIdle, Alive
  <2>7. HeldKnown'
    BY <1>10, <1>a, <2>3 DEF Abandon, HeldKnown
  <2> QED
    BY <1>a, <2>2, <2>5, <2>6, <2>7 DEF BaseInv
<1>11. ASSUME NEW u \in Users, Answer(u) PROVE BaseInv'
  <2>1. Alive /\ u \in Engaged
    BY <1>11, <1>c DEF Answer, Acknowledge
  <2>2. AdmissionInv' /\ Engaged' = Engaged \ {u}
    BY <1>11, <1>a, <2>1, AdmissionEnds DEF Answer, Acknowledge
  <2>3. pc' = pc \/ (u = Loop /\ pc' \in {"finish", "ask", "answered"})
    BY <1>11 DEF Answer, Acknowledge, LoopError
  <2>4. req'[u].at = "idle" /\ \A v \in Users \ {u} : req'[v] = req[v]
    BY <1>11, <1>a, RequestTyped, IdleFields DEF Answer, Acknowledge
  <2>5. LoopAsking'
    BY <1>a, <2>3, <2>4 DEF LoopAsking, Users
  <2>6. DeadIdle'
    BY <2>1, <2>3 DEF DeadIdle, Alive
  <2>7. HeldKnown'
    BY <1>11, <1>a, <2>3 DEF Answer, Acknowledge, HeldKnown
  <2> QED
    BY <1>a, <2>2, <2>5, <2>6, <2>7 DEF BaseInv
<1>12. ASSUME NEW h \in Helpers, HelperAsks(h) PROVE BaseInv'
  <2>1. PICK overlaps \in BOOLEAN : overlaps = TRUE
    BY Zenon
  <2>2. Admit(h, overlaps) /\ h \in Users
    BY <1>12, <2>1, Zenon DEF HelperAsks, Users
  <2>3. AdmissionInv'
    BY <1>a, <2>2, AdmissionAdmits
  <2>4. h # Loop /\ Loop \in Users
    BY UserAssumption DEF Users
  <2>5. req'[Loop] = req[Loop]
    BY <1>a, <2>2, <2>4, AdmitEffect
  <2>6. LoopAsking' /\ DeadIdle' /\ HeldKnown'
    BY <1>12, <1>a, <2>5 DEF LoopAsking, DeadIdle, HeldKnown, HelperAsks, Alive
  <2> QED
    BY <1>a, <2>3, <2>6 DEF BaseInv
<1>13. CASE CancelRun
  BY <1>13, <1>q DEF CancelRun, Alive
<1>14. CASE Crash
  <2>1. \A u \in Users : req'[u].at = "idle"
    BY <1>14, IdleFields DEF Crash
  <2>2. Engaged' = {}
    BY <2>1 DEF Engaged
  <2>3. AdmissionInv' /\ LoopAsking' /\ DeadIdle' /\ HeldKnown'
    BY <1>14, <1>a, <2>1, <2>2 DEF Crash, AdmissionInv, LoopAsking, DeadIdle, HeldKnown, Users
  <2> QED
    BY <1>a, <2>3 DEF BaseInv
<1>15. CASE Restart
  <2>1. ~Alive /\ Engaged = {} /\ pend = {} /\ ~uncertain
    BY <1>15, <1>a DEF Restart, Alive, DeadIdle
  <2>2. /\ UNCHANGED <<pend, active, safe, req, uncertain>>
        /\ pc' \in {"head", "refused"}
    BY <1>15 DEF Restart
  <2>3. Engaged' = {}
    BY <2>1, <2>2 DEF Engaged
  <2>4. AdmissionInv'
    BY <1>a, <2>1, <2>2, <2>3 DEF AdmissionInv, CallsTyped
  <2>5. LoopAsking' /\ DeadIdle' /\ HeldKnown'
    BY <2>1, <2>2, <2>3 DEF LoopAsking, DeadIdle, HeldKnown, Engaged, Users
  <2> QED
    BY <1>a, <2>4, <2>5 DEF BaseInv
<1>16. CASE UNCHANGED vars
  BY <1>16, <1>q DEF vars, Alive
<1> QED
  BY <1>1, <1>2, <1>3, <1>4, <1>5, <1>6, <1>7, <1>8, <1>9, <1>10, <1>11, <1>12, <1>13, <1>14,
     <1>15, <1>16 DEF Next

THEOREM BaseInvariant == Spec => []BaseInv
<1>1. Init => BaseInv
  <2> SUFFICES ASSUME Init PROVE BaseInv
    OBVIOUS
  <2>1. req \in [Users -> Requests] /\ \A u \in Users : req[u].at = "idle"
    BY IdleTyped, IdleFields DEF Init
  <2>2. over \in BOOLEAN /\ overtaken \in BOOLEAN /\ forgotten \in BOOLEAN
    BY Zenon DEF Init
  <2>3. turnFile \in Docs /\ stepFile \in Docs /\ held.doc \in Docs
    BY NoDocTyped, IdleFields DEF Init
  <2>4. CallsTyped
    BY <2>1, <2>2, <2>3, CeilingAssumption DEF Init, CallsTyped
  <2>5. Engaged = {}
    BY <2>1 DEF Engaged
  <2>6. AdmissionInv /\ DeadIdle /\ LoopAsking /\ HeldKnown
    BY <2>1, <2>5 DEF Init, AdmissionInv, DeadIdle, LoopAsking, HeldKnown, Users
  <2> QED
    BY <2>4, <2>6 DEF BaseInv
<1> QED
  BY <1>1, BaseStep, PTL DEF Spec

(* A request that must not overlap has the backend for itself, for any     *)
(* number of helpers: admit and check_admission of assistant_turns.py.     *)
THEOREM ExclusiveSafe == Spec => []ExclusiveAlone
<1>1. BaseInv => ExclusiveAlone
  BY DEF BaseInv, AdmissionInv, ExclusiveAlone, InFlight, Engaged
<1> QED
  BY <1>1, BaseInvariant, PTL

-----------------------------------------------------------------------------
(***************************************************************************)
(* Documents.                                                              *)
(***************************************************************************)
(* UpTo is a total preorder. *)
LEMMA OrderTotal ==
  ASSUME NEW a \in Docs, NEW b \in Docs, ~UpTo(a, b)
  PROVE  UpTo(b, a)
  BY DEF UpTo, Docs

LEMMA OrderTransitive ==
  ASSUME NEW a \in Docs, NEW b \in Docs, NEW c \in Docs, UpTo(a, b), UpTo(b, c)
  PROVE  UpTo(a, c)
  BY DEF UpTo, Docs

LEMMA OrderCalls ==
  ASSUME NEW a \in Docs, NEW b \in Docs, UpTo(a, b), UpTo(b, a)
  PROVE  a.calls = b.calls
  BY DEF UpTo, Docs

(* An admission that is written makes resume refuse, whatever is there. *)
LEMMA AdmissionWritten ==
  ASSUME NEW doc, doc.asked, After(doc, stepFile), WriteTurn(doc)
  PROVE  Blocked' /\ ~overtaken' /\ turnFile' = doc /\ stepFile' = stepFile
<1>1. turnFile' = doc /\ stepFile' = stepFile
  BY DEF WriteTurn
<1>2. ~overtaken'
  BY Zenon DEF WriteTurn
<1>3. Newest'.asked
  BY <1>1 DEF Newest, UpTo, After
<1> QED
  BY <1>1, <1>2, <1>3 DEF Blocked

(* The files say what resume makes of them. *)
LEMMA FilesKept == UNCHANGED files => Blocked' = Blocked /\ Newest' = Newest
  BY DEF files, Blocked, Terminal, Newest, UpTo

LEMMA SavingFinite == IsFiniteSet(Users) /\ IsFiniteSet(Saving) /\ Cardinality(Saving) \in Nat
<1>1. IsFiniteSet(Users)
  BY UserAssumption, FS_AddElement DEF Users
<1>2. IsFiniteSet(Saving)
  BY <1>1, FS_Subset DEF Saving
<1> QED
  BY <1>1, <1>2, FS_CardinalityType

LEMMA SavingMore ==
  ASSUME NEW u \in Users, u \notin Saving, Saving' = Saving \cup {u}
  PROVE  Cardinality(Saving') = Cardinality(Saving) + 1
  BY SavingFinite, FS_AddElement

LEMMA SavingLess ==
  ASSUME NEW u \in Saving, Saving' = Saving \ {u}
  PROVE  Cardinality(Saving') = Cardinality(Saving) - 1
  BY SavingFinite, FS_RemoveElement

-----------------------------------------------------------------------------
(***************************************************************************)
(* Steps.                                                                  *)
(***************************************************************************)
(* What was not ahead of the counters stays so while they only grow. *)
LEMMA PastKept ==
  ASSUME CallsTyped, CallsTyped', NEW doc \in Docs, Past(doc), pc' # "tool",
         \/ turn' = turn + 1
         \/ turn' = turn /\ calls' = calls
            /\ stepCount' >= stepCount + (IF pc = "tool" THEN 1 ELSE 0)
  PROVE  Past(doc)'
  BY DEF CallsTyped, Docs, Past, PastBy, Behind

(* The loop goes on, without a document. *)
LEMMA LoopMoves ==
  ASSUME BaseInv, BaseInv', SafeInv, Alive, Alive', pc' # "saving", pc' # "tool",
         UNCHANGED <<calls, pend, req, files, sent, forgotten, uncertain>>,
         \/ turn' = turn + 1
         \/ turn' = turn /\ stepCount' >= stepCount + (IF pc = "tool" THEN 1 ELSE 0),
         uncertain => pc' \in {"record", "ended"}
  PROVE  SafeInv'
<1>1. UNCHANGED <<turnFile, stepFile, overtaken>>
  BY DEF files
<1>2. Saving' = Saving /\ InFlight' = InFlight
  BY DEF Saving, InFlight
<1>3. CallsTyped /\ CallsTyped'
  BY DEF BaseInv
<1>4. DocumentsPast'
  <2>1. ASSUME NEW doc \in Docs, Past(doc) PROVE Past(doc)'
    BY <1>3, <2>1, PastKept
  <2>2. turnFile \in Docs /\ stepFile \in Docs /\ \A u \in Saving : req[u].doc \in Docs
    BY <1>3 DEF CallsTyped, Requests, Saving
  <2>3. Past(turnFile) /\ Past(stepFile) /\ \A u \in Saving : Past(req[u].doc)
    BY DEF SafeInv, DocumentsPast
  <2>4. \A doc \in Docs : Past(doc) => Past(doc)'
    BY <2>1
  <2>5. Past(turnFile)' /\ Past(stepFile)'
    BY <1>1, <2>2, <2>3, <2>4 DEF Past, PastBy, Behind
  <2>6. \A u \in Saving : Past(req[u].doc)'
    BY <2>2, <2>3, <2>4 DEF Past, PastBy, Behind
  <2> QED
    BY <1>2, <2>5, <2>6 DEF DocumentsPast
<1>5. LoopAware'
  BY <1>1, <1>3 DEF SafeInv, LoopAware, Aware, Behind, CallsTyped, Docs
<1>6. AdmissionsAfter' /\ HeldNewer' /\ Counted'
  BY <1>1, <1>2 DEF SafeInv, AdmissionsAfter, HeldNewer, Counted, After, UpTo
<1>7. Restorable' /\ InFlightKnown'
  BY <1>1, <1>2, FilesKept DEF SafeInv, Restorable, InFlightKnown
<1>8. UncertainKnown'
  BY <1>1 DEF SafeInv, UncertainKnown, UpTo
<1> QED
  BY <1>4, <1>5, <1>6, <1>7, <1>8 DEF SafeInv

(* The loop captures a document and starts to write it. *)
LEMMA LoopCaptures ==
  ASSUME BaseInv, BaseInv', SafeInv, ReadAnswer \/ RecordStep \/ Finish, pc' = "saving"
  PROVE  SafeInv'
<1>1. /\ held'.doc \in Docs
      /\ held'.doc.turn = turn /\ held'.doc.calls = calls
      /\ held'.doc.step = stepCount + (IF held'.next = "tool" THEN 1 ELSE 0)
      /\ (held'.doc.asked <=> pend # {})
      /\ pc \in {"answered", "record", "finish", "loop_end", "trace"}
      /\ (pc = "record" => held'.key = "step" /\ held'.next # "tool")
      /\ UNCHANGED <<turn, calls, stepCount, pend, req, turnFile, stepFile, overtaken, sent,
                     uncertain, forgotten>>
  BY Captures DEF BaseInv, admission, files
<1>2. Saving' = Saving /\ InFlight' = InFlight /\ Alive /\ Alive'
  BY <1>1 DEF Saving, InFlight, Alive
<1>3. CallsTyped /\ AdmissionInv
  BY DEF BaseInv
<1>4. DocumentsPast'
  BY <1>1, <1>2, <1>3 DEF SafeInv, DocumentsPast, Past, PastBy, Behind, CallsTyped, Docs
<1>5. LoopAware'
  BY <1>1, <1>2 DEF SafeInv, LoopAware, Aware, Behind
<1>6. AdmissionsAfter'
  BY <1>1, <1>2 DEF SafeInv, AdmissionsAfter, After, UpTo
<1>7. HeldNewer'
  <2>1. UpTo(stepFile, held.doc)' /\ UpTo(turnFile, held.doc)'
    <3>1. Past(stepFile) /\ Past(turnFile) /\ stepFile \in Docs /\ turnFile \in Docs
      BY <1>2, <1>3 DEF SafeInv, DocumentsPast, CallsTyped
    <3> QED
      BY <1>1, <1>3, <3>1 DEF Past, PastBy, Behind, UpTo, Docs, CallsTyped
  <2>2. held'.doc.asked => After(held.doc, stepFile)'
    <3>1. pend # {} => Aware(stepFile)
      BY <1>2 DEF SafeInv, LoopAware
    <3> QED
      BY <1>1, <1>3, <3>1 DEF Aware, Behind, After, UpTo, Docs, CallsTyped
  <2>3. InFlight # {} => pend # {}
    BY <1>3 DEF InFlight, AdmissionInv, Engaged
  <2>4. forgotten \/ sent <= calls
    BY <1>3, SavingFinite DEF SafeInv, Counted, CallsTyped
  <2> QED
    BY <1>1, <1>2, <2>1, <2>2, <2>3, <2>4 DEF HeldNewer
<1>8. Counted' /\ Restorable' /\ InFlightKnown'
  BY <1>1, <1>2, FilesKept DEF SafeInv, Counted, Restorable, InFlightKnown, files
<1>9. UncertainKnown'
  BY <1>1 DEF SafeInv, UncertainKnown, UpTo
<1> QED
  BY <1>4, <1>5, <1>6, <1>7, <1>8, <1>9 DEF SafeInv

(* A request is admitted, and starts to write its document. *)
LEMMA RequestAdmitted ==
  ASSUME BaseInv, BaseInv', SafeInv, NEW u \in Users, NEW overlaps \in BOOLEAN,
         Admit(u, overlaps), req[u].at = "idle", Alive,
         pc' = pc \/ (pc = "ask" /\ pc' = "asking"),
         UNCHANGED <<turn, stepCount, held, files, sent, uncertain, forgotten>>
  PROVE  SafeInv'
<1>1. CallsTyped /\ CallsTyped' /\ AdmissionInv
  BY DEF BaseInv
<1>2. /\ calls' = calls + 1 /\ pend' = pend \cup {calls'}
      /\ \A v \in Users \ {u} : req'[v] = req[v]
      /\ req'[u].at = "saving" /\ req'[u].n = calls'
      /\ req'[u].doc.turn = turn /\ req'[u].doc.calls = calls'
      /\ req'[u].doc.step = stepCount /\ req'[u].doc.asked
  BY <1>1, AdmitEffect
<1>3. UNCHANGED <<turnFile, stepFile, overtaken>>
  BY DEF files
<1>4. Saving' = Saving \cup {u} /\ u \notin Saving /\ InFlight' = InFlight
  BY <1>2 DEF Saving, InFlight
<1>5. /\ Alive' /\ (pc' = "saving" <=> pc = "saving") /\ (pc' = "tool" <=> pc = "tool")
      /\ (pc = "ask" \/ pc' = pc)
  BY DEF Alive
<1>6. ASSUME NEW doc \in Docs, NEW k \in {0, 1}, PastBy(doc, k) PROVE Behind(doc)'
  BY <1>1, <1>2, <1>6 DEF PastBy, Behind, CallsTyped, Docs
<1>7. \A doc \in Docs : \A k \in {0, 1} : PastBy(doc, k) => Behind(doc)'
  BY <1>6
<1>8. \A doc \in Docs : Past(doc) => Behind(doc)'
  BY <1>7 DEF Past
<1>9. /\ Behind(turnFile)' /\ Behind(stepFile)'
      /\ (pc = "saving" => Behind(held.doc)')
  <2>1. /\ Past(turnFile) /\ Past(stepFile)
        /\ (pc = "saving" => PastBy(held.doc, IF held.next = "tool" THEN 1 ELSE 0))
        /\ turnFile \in Docs /\ stepFile \in Docs /\ held.doc \in Docs
    BY <1>1 DEF SafeInv, DocumentsPast, CallsTyped
  <2> QED
    BY <1>3, <1>7, <1>8, <2>1 DEF Behind
<1>10. DocumentsPast'
  <2>1. ASSUME NEW v \in Saving' PROVE Past(req[v].doc)'
    <3>1. CASE v = u
      BY <1>1, <1>2, <3>1 DEF Past, PastBy, CallsTyped
    <3>2. CASE v # u
      <4>1. v \in Saving /\ req'[v] = req[v] /\ req[v].doc \in Docs
        BY <1>1, <1>2, <1>4, <3>2 DEF Saving, CallsTyped, Requests
      <4>2. Behind(req[v].doc)'
        BY <1>8, <4>1 DEF SafeInv, DocumentsPast, Behind
      <4> QED
        BY <4>2 DEF Past, PastBy
    <3> QED
      BY <3>1, <3>2
  <2> QED
    BY <1>5, <1>9, <2>1 DEF DocumentsPast, Past, PastBy
<1>11. LoopAware'
  BY <1>5, <1>9 DEF LoopAware, Aware
<1>12. AdmissionsAfter'
  <2>1. ASSUME NEW doc \in Docs, Behind(doc)' PROVE ~UpTo(req'[u].doc, doc)
    BY <1>1, <1>2, <2>1 DEF UpTo, Behind, Docs, CallsTyped
  <2>2. After(req[u].doc, stepFile)' /\ (pc = "saving" => After(req[u].doc, held.doc)')
    <3>1. stepFile \in Docs /\ held.doc \in Docs
      BY <1>1 DEF CallsTyped
    <3>2. \A doc \in Docs : Behind(doc)' => ~UpTo(req'[u].doc, doc)
      BY <2>1
    <3>3. ~UpTo(req'[u].doc, stepFile) /\ (pc = "saving" => ~UpTo(req'[u].doc, held.doc))
      BY <1>3, <1>9, <3>1, <3>2 DEF Behind
    <3> QED
      BY <1>3, <3>3 DEF After, UpTo
  <2>3. ASSUME NEW v \in Saving', v # u
        PROVE  /\ req'[v] = req[v] /\ req'[v].doc.asked /\ req'[v].n \in pend'
               /\ After(req[v].doc, stepFile)'
               /\ (pc = "saving" => After(req[v].doc, held.doc)')
    <3>1. v \in Saving /\ req'[v] = req[v]
      BY <1>2, <1>4, <2>3 DEF Saving
    <3> QED
      BY <1>2, <1>3, <3>1 DEF SafeInv, AdmissionsAfter, After, UpTo
  <2> QED
    BY <1>2, <1>4, <1>5, <2>2, <2>3 DEF AdmissionsAfter
<1>13. HeldNewer'
  BY <1>3, <1>4, <1>5 DEF SafeInv, HeldNewer, After, UpTo
<1>14. Counted'
  <2>1. Cardinality(Saving') = Cardinality(Saving) + 1
    BY ONLY <1>4, SavingMore
  <2>2. calls \in Int /\ sent \in Int /\ Cardinality(Saving) \in Int
    BY <1>1, SavingFinite DEF CallsTyped
  <2> QED
    BY <1>2, <2>1, <2>2 DEF SafeInv, Counted
<1>15. Restorable' /\ InFlightKnown'
  BY <1>3, <1>4, FilesKept DEF SafeInv, Restorable, InFlightKnown
<1>16. UncertainKnown'
  BY <1>3, <1>5 DEF SafeInv, UncertainKnown, UpTo
<1> QED
  BY <1>10, <1>11, <1>12, <1>13, <1>14, <1>15, <1>16 DEF SafeInv

(* The document of an admission is on disk; then the request is sent, or   *)
(* given up.                                                               *)
LEMMA AdmissionSettled ==
  ASSUME BaseInv, BaseInv', SafeInv, NEW u \in Saving, Alive, Alive',
         WriteTurn(req[u].doc), \A v \in Users \ {u} : req'[v] = req[v],
         \/ req'[u].at = "sent" /\ sent' = sent + 1
         \/ req'[u].at = "idle" /\ sent' = sent,
         \/ pc' = pc
         \/ pc \notin {"saving", "tool", "record", "ended"} /\ pc' \in {"ask", "finish"},
         UNCHANGED <<turn, calls, stepCount, pend, held, uncertain, forgotten>>
  PROVE  SafeInv'
<1>1. CallsTyped /\ CallsTyped' /\ u \in Users
  BY DEF BaseInv, Saving
<1>2. /\ req[u].doc.asked /\ After(req[u].doc, stepFile) /\ req[u].n \in pend
      /\ (pc = "saving" => After(req[u].doc, held.doc))
  BY DEF SafeInv, AdmissionsAfter
<1>3. Blocked' /\ ~overtaken' /\ turnFile' = req[u].doc /\ stepFile' = stepFile
  BY <1>2, AdmissionWritten
<1>4. Saving' = Saving \ {u} /\ (sent' = sent => InFlight' = InFlight)
  <2>1. req'[u].at = "sent" => sent' # sent
    BY <1>1 DEF CallsTyped
  <2> QED
    BY <1>1, <2>1 DEF Saving, InFlight
<1>5. /\ (pc' = "saving" => pc = "saving") /\ (pc' = "tool" <=> pc = "tool")
      /\ \A v \in Saving' : v \in Saving /\ req'[v] = req[v]
  BY <1>4 DEF Saving
<1>6. DocumentsPast'
  BY <1>3, <1>5 DEF SafeInv, DocumentsPast, Past, PastBy, Behind
<1>7. LoopAware'
  BY <1>3, <1>5 DEF SafeInv, LoopAware, Aware, Behind
<1>8. AdmissionsAfter'
  BY <1>3, <1>5 DEF SafeInv, AdmissionsAfter, After, UpTo
<1>9. HeldNewer'
  <2> SUFFICES ASSUME pc' = "saving" PROVE HeldNewer'
    BY DEF HeldNewer
  <2>1. pc = "saving" /\ UpTo(stepFile, held.doc)' /\ turnFile'.asked
    BY <1>2, <1>3, <1>5 DEF SafeInv, HeldNewer, UpTo
  <2>2. held'.doc.asked => After(held.doc, stepFile)'
    BY <1>3, <2>1 DEF SafeInv, HeldNewer, After, UpTo
  <2>3. held'.doc.asked \/ ~UpTo(turnFile, held.doc)'
    BY <1>2, <1>3, <2>1 DEF After, UpTo
  <2> QED
    BY <2>1, <2>2, <2>3 DEF HeldNewer
<1>10. Counted'
  <2>1. Cardinality(Saving') = Cardinality(Saving) - 1
    BY ONLY u \in Saving, <1>4, SavingLess
  <2>2. calls \in Int /\ sent \in Int /\ Cardinality(Saving) \in Int
    BY <1>1, SavingFinite DEF CallsTyped
  <2> QED
    BY <2>1, <2>2 DEF SafeInv, Counted
<1>11. Restorable' /\ InFlightKnown'
  BY <1>3 DEF Restorable, InFlightKnown
<1>12. UncertainKnown'
  BY <1>2, <1>3 DEF SafeInv, UncertainKnown
<1> QED
  BY <1>6, <1>7, <1>8, <1>9, <1>10, <1>11, <1>12 DEF SafeInv

(* A request ends, and nothing is written. *)
LEMMA RequestEnds ==
  ASSUME BaseInv, BaseInv', SafeInv, NEW u \in Engaged, Alive, Alive',
         req'[u].at = "idle", \A v \in Users \ {u} : req'[v] = req[v],
         pend' = pend \/ pend' = pend \ {req[u].n},
         \/ pc' = pc
         \/ pc \notin {"saving", "tool", "record", "ended"} /\ pc' \in {"ask", "finish", "answered"},
         UNCHANGED <<turn, calls, stepCount, held, files, sent, uncertain, forgotten>>
  PROVE  SafeInv'
<1>1. CallsTyped /\ AdmissionInv
  BY DEF BaseInv
<1>2. UNCHANGED <<turnFile, stepFile, overtaken>>
  BY DEF files
<1>3. /\ Saving' = Saving \ {u} /\ InFlight' = InFlight \ {u}
      /\ \A v \in Saving' : v \in Saving /\ v \in Engaged /\ req'[v] = req[v]
  BY DEF Saving, InFlight, Engaged
<1>4. (pc' = "saving" => pc = "saving") /\ (pc' = "tool" <=> pc = "tool")
  OBVIOUS
<1>5. DocumentsPast'
  BY <1>2, <1>3, <1>4 DEF SafeInv, DocumentsPast, Past, PastBy, Behind
<1>6. LoopAware'
  BY <1>2, <1>4 DEF SafeInv, LoopAware, Aware, Behind
<1>7. AdmissionsAfter'
  <2>1. \A v \in Saving' : req[v].n \in pend'
    BY <1>1, <1>3 DEF SafeInv, AdmissionsAfter, AdmissionInv
  <2> QED
    BY <1>2, <1>3, <1>4, <2>1 DEF SafeInv, AdmissionsAfter, After, UpTo
<1>8. HeldNewer'
  BY <1>2, <1>3, <1>4 DEF SafeInv, HeldNewer, After, UpTo
<1>9. Counted'
  <2>1. Saving' \in SUBSET Saving /\ IsFiniteSet(Saving)
    BY <1>3, SavingFinite
  <2>2. Cardinality(Saving') <= Cardinality(Saving) /\ IsFiniteSet(Saving')
    BY ONLY <2>1, FS_Subset
  <2>3. /\ calls \in Int /\ sent \in Int /\ Cardinality(Saving) \in Int
        /\ Cardinality(Saving') \in Int
    BY <1>1, <2>2, SavingFinite, FS_CardinalityType DEF CallsTyped
  <2> QED
    BY <2>2, <2>3 DEF SafeInv, Counted
<1>10. Restorable' /\ InFlightKnown'
  BY <1>2, <1>3, FilesKept DEF SafeInv, Restorable, InFlightKnown
<1>11. UncertainKnown'
  BY <1>2 DEF SafeInv, UncertainKnown, UpTo
<1> QED
  BY <1>5, <1>6, <1>7, <1>8, <1>9, <1>10, <1>11 DEF SafeInv

LEMMA NoDocFields ==
  NoDoc.turn = -1 /\ NoDoc.calls = 0 /\ ~NoDoc.asked /\ ~NoDoc.effect /\ ~NoDoc.over
<1>1. PICK no \in BOOLEAN : no = FALSE
  BY Zenon
<1>2. PICK d : d = [turn |-> -1, calls |-> 0, streak |-> 0, step |-> 0,
                    asked |-> no, effect |-> no, over |-> no]
  OBVIOUS
<1>3. d.turn = -1 /\ d.calls = 0 /\ d.asked = no /\ d.effect = no /\ d.over = no
  BY ONLY <1>2
<1>4. NoDoc = d
  BY <1>1, <1>2, Zenon DEF NoDoc
<1> QED
  BY <1>1, <1>3, <1>4, Zenon

(* The document of the loop is on disk. *)
LEMMA LoopSaved ==
  ASSUME BaseInv, BaseInv', SafeInv, Saved
  PROVE  SafeInv'
<1> DEFINE doc == held.doc
<1>1. CallsTyped /\ CallsTyped'
  BY DEF BaseInv
<1>2. /\ pc = "saving" /\ Alive /\ Alive' /\ pc' # "saving"
      /\ doc \in Docs /\ turnFile \in Docs /\ stepFile \in Docs
      /\ (held.next = "tool" => held.key = "step" /\ doc.effect)
      /\ (pc' = "tool" <=> held.next = "tool")
  BY <1>1 DEF Saved, BaseInv, HeldKnown, Alive, CallsTyped
<1>3. /\ UNCHANGED <<turn, calls, stepCount, pend, req, sent, forgotten>>
      /\ uncertain' = (IF held.key = "step" THEN held.next = "tool" ELSE uncertain)
  BY DEF Saved, process, counters, admission
<1>4. Saving' = Saving /\ InFlight' = InFlight
  BY <1>3 DEF Saving, InFlight
<1>5. /\ UpTo(stepFile, doc)
      /\ turnFile.asked \/ UpTo(turnFile, doc)
      /\ doc.asked => After(doc, stepFile)
      /\ forgotten \/ doc.asked \/ sent <= doc.calls \/ ~UpTo(turnFile, doc)
      /\ InFlight # {} => doc.asked \/ ~UpTo(turnFile, doc)
      /\ PastBy(doc, IF held.next = "tool" THEN 1 ELSE 0)
  BY <1>2 DEF SafeInv, HeldNewer, DocumentsPast
<1>6. \/ held.key = "turn" /\ turnFile' = doc /\ stepFile' = stepFile
      \/ held.key # "turn" /\ turnFile' = turnFile /\ stepFile' = doc
  BY <1>5 DEF Saved, WriteTurn, WriteStep
<1>7. DocumentsPast'
  <2>1. Past(turnFile)' /\ Past(stepFile)'
    BY <1>1, <1>2, <1>3, <1>5, <1>6
       DEF SafeInv, DocumentsPast, Past, PastBy, Behind, CallsTyped, Docs
  <2>2. ASSUME NEW u \in Saving' PROVE Past(req[u].doc)'
    <3>1. req[u].doc \in Docs /\ Past(req[u].doc) /\ req'[u] = req[u]
      BY <1>1, <1>2, <1>3, <1>4 DEF SafeInv, DocumentsPast, Saving, CallsTyped, Requests
    <3> QED
      BY <1>1, <1>2, <1>3, <3>1 DEF Past, PastBy, Behind, CallsTyped, Docs
  <2> QED
    BY <1>2, <2>1, <2>2 DEF DocumentsPast
<1>8. LoopAware'
  BY <1>2, <1>3, <1>6 DEF SafeInv, LoopAware, Aware, Behind
<1>9. AdmissionsAfter'
  BY <1>2, <1>3, <1>4, <1>6 DEF SafeInv, AdmissionsAfter, After, UpTo
<1>10. HeldNewer' /\ Counted'
  BY <1>2, <1>3, <1>4 DEF SafeInv, HeldNewer, Counted
<1>11. CASE held.key = "turn"
  <2>1. turnFile' = doc /\ stepFile' = stepFile
    BY <1>6, <1>11
  <2>2. overtaken' \/ doc.asked \/ UpTo(turnFile, doc)
    BY <1>11, Zenon DEF Saved, WriteTurn
  <2>3. doc.asked => Blocked'
    <3>1. doc.asked => Newest'.asked
      BY <1>5, <2>1 DEF Newest, After, UpTo
    <3> QED
      BY <3>1 DEF Blocked
  <2>4. Restorable'
    <3>1. forgotten \/ overtaken' \/ doc.asked \/ sent <= doc.calls
      BY <1>5, <2>2
    <3>2. Newest'.calls = doc.calls
      BY <1>2, <1>5, <2>1 DEF Newest, UpTo, Docs
    <3> QED
      BY <1>3, <2>3, <3>1, <3>2 DEF Restorable
  <2>5. InFlightKnown'
    BY <1>4, <1>5, <2>2, <2>3 DEF InFlightKnown
  <2>6. UncertainKnown'
    BY <1>2, <1>3, <1>11 DEF SafeInv, UncertainKnown
  <2> QED
    BY <1>7, <1>8, <1>9, <1>10, <2>4, <2>5, <2>6 DEF SafeInv
<1>12. CASE held.key # "turn"
  <2>1. turnFile' = turnFile /\ stepFile' = doc /\ overtaken' = overtaken
    BY <1>6, <1>12 DEF Saved, WriteStep
  <2>2. Newest' = IF UpTo(turnFile, doc) THEN doc ELSE turnFile
    BY <2>1 DEF Newest, UpTo
  <2>3. ~UpTo(turnFile, doc) \/ doc.asked => Blocked'
    BY <1>5, <2>2 DEF Blocked
  <2>4. UpTo(turnFile, doc) => Newest' = doc
    BY <2>2
  <2>5. Restorable'
    BY <1>3, <1>5, <2>3, <2>4 DEF Restorable
  <2>6. InFlightKnown'
    BY <1>4, <1>5, <2>3 DEF InFlightKnown
  <2>7. UncertainKnown'
    BY <1>2, <1>3, <1>5, <2>1 DEF SafeInv, UncertainKnown, UpTo
  <2> QED
    BY <1>7, <1>8, <1>9, <1>10, <2>5, <2>6, <2>7 DEF SafeInv
<1> QED
  BY <1>11, <1>12

(* A process starts from the files, or refuses to. *)
LEMMA RunRestarts ==
  ASSUME BaseInv, BaseInv', SafeInv, Restart
  PROVE  SafeInv'
<1>1. CallsTyped /\ CallsTyped' /\ turnFile \in Docs /\ stepFile \in Docs
  BY DEF BaseInv, CallsTyped
<1>2. ~Alive /\ Engaged = {} /\ pend = {} /\ ~uncertain
  BY DEF Restart, Alive, BaseInv, DeadIdle
<1>3. /\ UNCHANGED <<pend, req, files, turnFile, stepFile, overtaken, sent, uncertain>>
      /\ pc' \in {"head", "refused"}
      /\ (pc' = "head" => (forgotten' <=> forgotten \/ overtaken))
      /\ (pc' = "refused" => (forgotten' <=> forgotten))
  BY DEF Restart, admission, files, work
<1>4. Saving = {} /\ InFlight = {} /\ Saving' = {} /\ InFlight' = {}
  BY <1>2, <1>3 DEF Saving, InFlight, Engaged
<1>5. Cardinality(Saving') = 0 /\ Cardinality(Saving) = 0
  BY <1>4, FS_EmptySet
<1>6. LoopAware' /\ AdmissionsAfter' /\ HeldNewer' /\ UncertainKnown' /\ InFlightKnown'
  BY <1>2, <1>3, <1>4
     DEF LoopAware, AdmissionsAfter, HeldNewer, UncertainKnown, InFlightKnown
<1>7. Restorable'
  BY <1>3, FilesKept DEF SafeInv, Restorable
<1>8. CASE pc' = "refused"
  <2>1. DocumentsPast'
    BY <1>8 DEF DocumentsPast, Alive
  <2>2. Counted'
    BY <1>3, <1>4, <1>8 DEF SafeInv, Counted, Restart, counters
  <2> QED
    BY <1>6, <1>7, <2>1, <2>2 DEF SafeInv
<1>9. CASE pc' = "head"
  <2>1. \/ /\ turnFile = NoDoc /\ stepFile = NoDoc
           /\ turn' = 0 /\ calls' = 0
        \/ /\ ~Blocked
           /\ turn' = Newest.turn /\ calls' = Newest.calls /\ stepCount' = Newest.step
    BY <1>9 DEF Restart, Restored
  <2>2. CASE turnFile = NoDoc /\ stepFile = NoDoc /\ turn' = 0 /\ calls' = 0
    <3>1. Behind(turnFile)' /\ Behind(stepFile)'
      BY <1>3, <2>2, NoDocFields DEF Behind
    <3>2. ~Blocked /\ Newest.calls = 0
      BY <2>2, NoDocFields DEF Blocked, Terminal, Newest
    <3>3. DocumentsPast'
      BY <1>4, <1>9, <3>1 DEF DocumentsPast, Past, PastBy
    <3>4. Counted'
      BY <1>1, <1>3, <1>5, <1>9, <2>2, <3>2 DEF SafeInv, Restorable, Counted, CallsTyped
    <3> QED
      BY <1>6, <1>7, <3>3, <3>4 DEF SafeInv
  <2>3. CASE /\ ~Blocked
             /\ turn' = Newest.turn /\ calls' = Newest.calls /\ stepCount' = Newest.step
    <3>1. UpTo(turnFile, Newest) /\ UpTo(stepFile, Newest)
      BY <1>1, OrderTotal DEF Newest, UpTo, Docs
    <3>2. Newest \in Docs
      BY <1>1 DEF Newest
    <3>3. Past(turnFile)' /\ Past(stepFile)'
      BY <1>1, <1>3, <1>9, <2>3, <3>1, <3>2 DEF UpTo, Past, PastBy, Behind, Docs
    <3>4. DocumentsPast'
      BY <1>4, <1>9, <3>3 DEF DocumentsPast
    <3>5. Counted'
      BY <1>1, <1>3, <1>5, <1>9, <2>3 DEF SafeInv, Restorable, Counted, CallsTyped
    <3> QED
      BY <1>6, <1>7, <3>4, <3>5 DEF SafeInv
  <2> QED
    BY <2>1, <2>2, <2>3
<1> QED
  BY <1>3, <1>8, <1>9

LEMMA QuietStep ==
  ASSUME BaseInv, SafeInv,
         UNCHANGED <<pc, turn, calls, stepCount, pend, req, held, files, sent, uncertain, forgotten>>
  PROVE  SafeInv'
<1>1. UNCHANGED <<turnFile, stepFile, overtaken>> /\ Saving' = Saving /\ InFlight' = InFlight
  BY DEF files, Saving, InFlight
<1>2. DocumentsPast' /\ LoopAware'
  BY <1>1 DEF SafeInv, DocumentsPast, LoopAware, Aware, Past, PastBy, Behind, Alive
<1>3. AdmissionsAfter' /\ HeldNewer' /\ Counted'
  BY <1>1 DEF SafeInv, AdmissionsAfter, HeldNewer, Counted, After, UpTo
<1>4. Restorable' /\ InFlightKnown' /\ UncertainKnown'
  BY <1>1, FilesKept DEF SafeInv, Restorable, InFlightKnown, UncertainKnown, UpTo
<1> QED
  BY <1>2, <1>3, <1>4 DEF SafeInv

LEMMA SafeStep == BaseInv /\ BaseInv' /\ SafeInv /\ [Next]_vars => SafeInv'
<1> SUFFICES ASSUME BaseInv, BaseInv', SafeInv, [Next]_vars PROVE SafeInv'
  OBVIOUS
<1> USE DEF process, counters, admission, work
<1>a. CallsTyped /\ DeadIdle /\ LoopAsking /\ UncertainKnown /\ Loop \in Users
  BY DEF BaseInv, SafeInv, Users
<1>b. ASSUME NEW u \in Users, req[u].at # "idle" PROVE Alive /\ u \in Engaged
  BY <1>a, <1>b DEF DeadIdle, Engaged
<1>1. CASE BeginTurn
  <2>1. /\ turn' = turn + 1 \/ (turn' = turn /\ stepCount' >= stepCount + 0)
        /\ pc = "head" /\ pc' \in {"finish", "ask"} /\ ~uncertain
    BY <1>1, <1>a DEF BeginTurn, CallsTyped, UncertainKnown
  <2> QED
    BY <1>1, <2>1, LoopMoves DEF BeginTurn, Alive
<1>2. CASE AskModel
  <2>1. CASE pc' = "finish" /\ UNCHANGED <<calls, admission, req>>
    <3>1. pc = "ask" /\ ~uncertain /\ stepCount' >= stepCount + 0
      BY <1>2, <1>a DEF AskModel, CallsTyped, UncertainKnown
    <3> QED
      BY <1>2, <2>1, <3>1, LoopMoves DEF AskModel, Alive
  <2>2. ASSUME NEW overlaps \in BOOLEAN, Admit(Loop, overlaps), pc' = "asking" PROVE SafeInv'
    <3>1. pc = "ask" /\ req[Loop].at = "idle" /\ Alive
      BY <1>2, <1>a DEF AskModel, LoopAsking, Alive, CallsTyped, Requests
    <3> QED
      BY <1>2, <1>a, <2>2, <3>1, RequestAdmitted DEF AskModel
  <2> QED
    BY <1>2, <2>1, <2>2, AskModelCases
<1>3. CASE ReadAnswer
  <2>1. CASE pc' = "saving"
    BY <1>3, <2>1, LoopCaptures
  <2>2. CASE pc' # "saving"
    <3>1. /\ pc = "answered" /\ pc' \in {"finish", "record", "head"} /\ ~uncertain
          /\ stepCount' >= stepCount + 0
      BY <1>3, <1>a, <2>2 DEF ReadAnswer, Hold, CallsTyped, UncertainKnown
    <3> QED
      BY <1>3, <3>1, LoopMoves DEF ReadAnswer, Alive
  <2> QED
    BY <2>1, <2>2
<1>4. CASE Saved
  BY <1>4, LoopSaved
<1>5. CASE SaveRaises
  <2>1. stepCount' >= stepCount + 0
    BY <1>5, <1>a DEF SaveRaises, CallsTyped
  <2> QED
    BY <1>5, <2>1, LoopMoves DEF SaveRaises, Alive
<1>6. CASE StepDone
  <2>1. stepCount' = stepCount + 1 /\ stepCount \in Nat
    BY <1>6, <1>a DEF StepDone, CallsTyped
  <2>2. stepCount' >= stepCount + (IF pc = "tool" THEN 1 ELSE 0)
    BY <2>1
  <2> QED
    BY <1>6, <2>2, LoopMoves DEF StepDone, Alive
<1>7. CASE RecordStep
  BY <1>7, LoopCaptures DEF RecordStep, Hold
<1>8. CASE Finish
  BY <1>8, LoopCaptures DEF Finish, Hold
<1>9. ASSUME NEW u \in Users, Send(u) PROVE SafeInv'
  <2>1. Alive /\ u \in Saving /\ Alive'
    BY <1>9, <1>b DEF Send, Saving, Alive
  <2>2. req'[u].at = "sent" /\ \A v \in Users \ {u} : req'[v] = req[v]
    BY <1>9, <1>a, RequestTyped DEF Send
  <2> QED
    BY <1>9, <2>1, <2>2, AdmissionSettled DEF Send
<1>10. ASSUME NEW u \in Users, Abandon(u) PROVE SafeInv'
  <2>1. Alive /\ u \in Saving /\ u \in Engaged
    BY <1>10, <1>b DEF Abandon, Saving
  <2>2. req'[u].at = "idle" /\ \A v \in Users \ {u} : req'[v] = req[v]
    BY <1>10, <1>a, RequestTyped, IdleFields DEF Abandon
  <2>3. pc' = pc \/ (pc = "asking" /\ pc' \in {"ask", "finish"})
    BY <1>10, <1>a DEF Abandon, LoopError, LoopAsking
  <2>4. Alive'
    BY <2>1, <2>3 DEF Alive
  <2>5. /\ \/ pc' = pc
           \/ pc \notin {"saving", "tool", "record", "ended"} /\ pc' \in {"ask", "finish"}
        /\ UNCHANGED <<turn, calls, stepCount, pend, held, sent, uncertain, forgotten>>
    BY <1>10, <2>3 DEF Abandon
  <2>6. CASE WriteTurn(req[u].doc)
    BY <2>1, <2>2, <2>4, <2>5, <2>6, AdmissionSettled
  <2>7. CASE UNCHANGED files
    BY <2>1, <2>2, <2>4, <2>5, <2>7, RequestEnds
  <2> QED
    BY <1>10, <2>6, <2>7, Zenon DEF Abandon
<1>11. ASSUME NEW u \in Users, Answer(u) PROVE SafeInv'
  <2>1. Alive /\ u \in Engaged
    BY <1>11, <1>b DEF Answer, Acknowledge
  <2>2. req'[u].at = "idle" /\ \A v \in Users \ {u} : req'[v] = req[v]
    BY <1>11, <1>a, RequestTyped, IdleFields DEF Answer, Acknowledge
  <2>3. pc' = pc \/ (pc = "asking" /\ pc' \in {"ask", "finish", "answered"})
    BY <1>11, <1>a DEF Answer, Acknowledge, LoopError, LoopAsking
  <2>4. Alive'
    BY <2>1, <2>3 DEF Alive
  <2>5. /\ \/ pc' = pc
           \/ pc \notin {"saving", "tool", "record", "ended"} /\ pc' \in {"ask", "finish", "answered"}
        /\ pend' = pend \ {req[u].n}
        /\ UNCHANGED <<turn, calls, stepCount, held, files, sent, uncertain, forgotten>>
    BY <1>11, <2>3 DEF Answer, Acknowledge
  <2> QED
    BY <2>1, <2>2, <2>4, <2>5, RequestEnds
<1>12. ASSUME NEW h \in Helpers, HelperAsks(h) PROVE SafeInv'
  <2>1. PICK overlaps \in BOOLEAN : overlaps = TRUE
    BY Zenon
  <2>2. Admit(h, overlaps) /\ h \in Users
    BY <1>12, <2>1, Zenon DEF HelperAsks, Users
  <2> QED
    BY <1>12, <2>2, RequestAdmitted DEF HelperAsks
<1>13. CASE CancelRun
  BY <1>13, QuietStep DEF CancelRun
<1>14. CASE Crash
  <2>1. /\ pc' = "crashed" /\ pend' = {} /\ ~uncertain'
        /\ UNCHANGED <<calls, files, sent, forgotten>>
    BY <1>14, Zenon DEF Crash
  <2>2. Saving' = {} /\ InFlight' = {}
    BY <1>14, IdleFields DEF Crash, Saving, InFlight
  <2>3. Cardinality(Saving') = 0
    BY <2>2, FS_EmptySet
  <2>4. Counted'
    BY <1>a, <2>1, <2>3, SavingFinite DEF SafeInv, Counted, CallsTyped
  <2>5. Restorable' /\ InFlightKnown'
    BY <2>1, <2>2, FilesKept DEF SafeInv, Restorable, InFlightKnown, files
  <2>6. /\ DocumentsPast' /\ LoopAware' /\ AdmissionsAfter' /\ HeldNewer' /\ UncertainKnown'
    BY <2>1, <2>2
       DEF DocumentsPast, LoopAware, AdmissionsAfter, HeldNewer, UncertainKnown, Alive
  <2> QED
    BY <2>4, <2>5, <2>6 DEF SafeInv
<1>15. CASE Restart
  BY <1>15, RunRestarts
<1>16. CASE UNCHANGED vars
  BY <1>16, QuietStep DEF vars, files
<1> QED
  BY <1>1, <1>2, <1>3, <1>4, <1>5, <1>6, <1>7, <1>8, <1>9, <1>10, <1>11, <1>12, <1>13, <1>14,
     <1>15, <1>16 DEF Next

THEOREM SafeInvariant == Spec => [](BaseInv /\ SafeInv)
<1>1. Init => SafeInv
  <2> SUFFICES ASSUME Init PROVE SafeInv
    OBVIOUS
  <2>1. Saving = {} /\ InFlight = {}
    BY IdleFields DEF Init, Saving, InFlight
  <2>2. Cardinality(Saving) = 0
    BY <2>1, FS_EmptySet
  <2>3. /\ turn = 0 /\ calls = 0 /\ sent = 0 /\ pend = {} /\ pc = "head" /\ ~uncertain
        /\ turnFile = NoDoc /\ stepFile = NoDoc
    BY Zenon DEF Init
  <2>4. Newest.calls = 0
    BY <2>3, NoDocFields DEF Newest
  <2>5. DocumentsPast
    BY <2>1, <2>3, NoDocFields DEF DocumentsPast, Past, PastBy, Behind
  <2>6. LoopAware /\ AdmissionsAfter /\ HeldNewer /\ InFlightKnown /\ UncertainKnown
    BY <2>1, <2>3 DEF LoopAware, AdmissionsAfter, HeldNewer, InFlightKnown, UncertainKnown
  <2>7. Counted /\ Restorable
    BY <2>2, <2>3, <2>4 DEF Counted, Restorable
  <2> QED
    BY <2>5, <2>6, <2>7 DEF SafeInv
<1>2. Spec => []BaseInv
  BY BaseInvariant
<1>3. BaseInv /\ BaseInv' /\ SafeInv /\ [Next]_vars => SafeInv'
  BY SafeStep
<1> QED
  BY <1>1, <1>2, <1>3, PTL DEF Spec

(* No crash gives a request back: over all the processes that work on a    *)
(* run, its backend receives at most max_model_calls requests, whatever    *)
(* the number of helpers, attempts and restarts.  What a later process     *)
(* counts from (Restorable) is what makes it so; an overtaken file is the  *)
(* exception the statement names.                                          *)
THEOREM CeilingSafe == Spec => []CeilingKept
<1>1. BaseInv /\ SafeInv => CeilingKept
  <2> SUFFICES ASSUME BaseInv, SafeInv, ~forgotten PROVE sent <= MaxModelCalls
    BY DEF CeilingKept
  <2>1. sent + Cardinality(Saving) <= calls
    BY DEF SafeInv, Counted
  <2>2. /\ calls \in 0..MaxModelCalls /\ sent \in Nat /\ Cardinality(Saving) \in Nat
        /\ MaxModelCalls \in Nat
    BY SavingFinite, CeilingAssumption DEF BaseInv, CallsTyped
  <2> QED
    BY <2>1, <2>2
<1> QED
  BY <1>1, SafeInvariant, PTL

(* A crash is safe at every instant: while a request is in flight, or the  *)
(* outcome of a tool is not on disk, resume refuses.                       *)
THEOREM UncertainSafe == Spec => []UncertainWorkBlocksResume
<1>1. SafeInv => UncertainWorkBlocksResume
  <2> SUFFICES ASSUME SafeInv, ~overtaken, InFlight # {} \/ uncertain PROVE Blocked
    BY DEF UncertainWorkBlocksResume
  <2>1. CASE InFlight # {}
    BY <2>1 DEF SafeInv, InFlightKnown
  <2>2. CASE uncertain
    BY <2>2 DEF SafeInv, UncertainKnown, Blocked, Newest
  <2> QED
    BY <2>1, <2>2
<1> QED
  BY <1>1, SafeInvariant, PTL
=============================================================================
