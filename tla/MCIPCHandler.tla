---------------------------- MODULE MCIPCHandler ----------------------------
(* IPCHandler on a small instance. *)
EXTENDS IPCHandler
=============================================================================
