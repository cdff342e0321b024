----------------------------- MODULE MCL1System -----------------------------
(* L1System on a small instance. *)
EXTENDS L1System
=============================================================================
