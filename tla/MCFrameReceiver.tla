-------------------------- MODULE MCFrameReceiver --------------------------
(* Both halves of NetworkHandler on a small instance. *)
EXTENDS FrameReceiver
=============================================================================
