---------------------------- MODULE MCToolBatch ----------------------------
(* One batch of three calls, every choice of concurrent-safe and of        *)
(* synchronous tools and of max_concurrent, cancelled at most twice, over  *)
(* an executor whose two workers can both be lost to bodies that hang.     *)
EXTENDS ToolBatch
=============================================================================
