---------------------------- MODULE EffectLedger ----------------------------
(***************************************************************************)
(* What checkpointed execution promises about tool effects, without saying *)
(* how: an effect is announced durably before it is performed, performed   *)
(* at most once, and settled when its outcome is durable.  A restart that  *)
(* finds an unsettled effect refuses to go on.                             *)
(***************************************************************************)
EXTENDS Naturals

VARIABLES
  executed,  \* effects performed, by the number of their step
  inDoubt,   \* announced effects whose outcome is not durable
  refused    \* a restart found an effect in doubt

ledgerVars == <<executed, inDoubt, refused>>

Init == executed = {} /\ inDoubt = {} /\ refused = FALSE

Announce ==
  /\ ~refused
  /\ inDoubt = {}
  /\ inDoubt' \subseteq Nat
  /\ inDoubt' \cap executed = {}
  /\ UNCHANGED <<executed, refused>>

Perform ==
  /\ ~refused
  /\ \E n \in inDoubt \ executed : executed' = executed \cup {n}
  /\ UNCHANGED <<inDoubt, refused>>

Settle ==
  /\ ~refused
  /\ inDoubt' \subseteq inDoubt
  /\ UNCHANGED <<executed, refused>>

Refuse ==
  /\ inDoubt # {}
  /\ refused' = TRUE
  /\ UNCHANGED <<executed, inDoubt>>

Next == Announce \/ Perform \/ Settle \/ Refuse

Spec == Init /\ [][Next]_ledgerVars
=============================================================================
