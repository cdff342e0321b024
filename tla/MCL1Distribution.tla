-------------------------- MODULE MCL1Distribution --------------------------
(* L1DistributionHandler next to an ARP frame in the send queue. *)
EXTENDS L1DistributionHandler

CONSTANT ArpData

MCOtherFrames ==
  {[data |-> ArpData, length |-> 42, ownerMayFreeData |-> FALSE]}
=============================================================================
