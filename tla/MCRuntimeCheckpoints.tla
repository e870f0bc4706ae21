------------------------ MODULE MCRuntimeCheckpoints ------------------------
(* RuntimeCheckpoints on a small instance: three charged steps of which    *)
(* every second is kept, serial and concurrent dispatch, a cancel token.   *)
EXTENDS RuntimeCheckpoints

BothDispatches == [concurrent : BOOLEAN, token : {TRUE}, reactive : {FALSE}]
OneConcurrentRun == [concurrent : {TRUE}, token : {FALSE}, reactive : {FALSE}]
NoStops == {}
=============================================================================
