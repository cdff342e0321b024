-------------------------- MODULE MCNetworkHandler --------------------------
(* NetworkHandler with the frame lengths that matter to PFring::send_packet *)
EXTENDS NetworkHandler

\* An MRP with one trigger, the longest frame that is sent, the first that
\* is not.
MCLengths == {66, 1500, 1501}
=============================================================================
