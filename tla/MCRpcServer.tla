---------------------------- MODULE MCRpcServer ----------------------------
(* RpcServer with a client that sends up to five lines, any command each.  *)
EXTENDS RpcServer
=============================================================================
