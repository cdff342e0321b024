--------------------------- MODULE MCDimListener ---------------------------
(* Four listeners, two of them for the same service. *)
EXTENDS DimListener

CONSTANTS l1, l2, l3, l4

MCListensTo == l1 :> "BurstNumber" @@ l2 :> "BurstNumber"
                 @@ l3 :> "NextBurstNumber" @@ l4 :> "BurstTimeStruct"

MCBurstTimes ==
  [burstID : {3}, sobTime : {7}, eobTime : {0, 9}, runNumber : {0, 5}]
=============================================================================
