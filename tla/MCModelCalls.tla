---------------------------- MODULE MCModelCalls ----------------------------
(* ModelCalls on a small instance: two helpers, four model calls, two       *)
(* assistant turns in a row, two requests per turn, two processes.          *)
EXTENDS ModelCalls, TLC

Permuted == Permutations(Helpers)
=============================================================================
