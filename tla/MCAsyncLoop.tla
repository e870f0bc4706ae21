---------------------------- MODULE MCAsyncLoop ----------------------------
(* AsyncLoop on a small instance: concurrent dispatch with overflow        *)
(* recovery, serial dispatch with a cancel token; two charged steps, turns *)
(* of up to two calls, one worker thread, one request by a tool, and a     *)
(* task that is cancelled twice.                                           *)
EXTENDS AsyncLoop

TwoConfigs ==
  {[concurrent |-> TRUE, token |-> FALSE, reactive |-> TRUE],
   [concurrent |-> FALSE, token |-> TRUE, reactive |-> FALSE]}
=============================================================================
