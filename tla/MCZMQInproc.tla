---------------------------- MODULE MCZMQInproc ----------------------------
(* Two senders of different addresses compete for connectMutex_. *)
EXTENDS ZMQInproc, TLC

CONSTANTS a1, a2, s1, s2

MCTarget == s1 :> a1 @@ s2 :> a2
=============================================================================
