--------------------------- MODULE MCFrameFormats ---------------------------
(* FrameFormats with words at the edges of their range. *)
EXTENDS FrameFormats

MCEvents ==
  {[timestamp |-> <<0, 0>>, fineTime |-> 0, zSuppressed |-> 0,
    triggerTypeWord |-> 0, eventNumber |-> 0],
   [timestamp |-> <<65535, 65535>>, fineTime |-> 255, zSuppressed |-> 1,
    triggerTypeWord |-> 65535, eventNumber |-> 2^24 - 1],
   [timestamp |-> <<4660, 22136>>, fineTime |-> 7, zSuppressed |-> 1,
    triggerTypeWord |-> 32768, eventNumber |-> 2^24 + 66051],
   [timestamp |-> <<1, 32768>>, fineTime |-> 128, zSuppressed |-> 0,
    triggerTypeWord |-> 255, eventNumber |-> 256],
   \* Alone in a frame to the first group its UDP checksum is 0.
   [timestamp |-> <<0, 60095>>, fineTime |-> 0, zSuppressed |-> 0,
    triggerTypeWord |-> 0, eventNumber |-> 1]}

\* With the second byte of the address below, at and above 128.
MCGroups == {<<239, 1, 28, 1>>, <<239, 128, 0, 0>>, <<224, 255, 255, 255>>}

MCUnicasts == {<<10, 194, 20, 77>>}

MCGatewayMAC == <<0, 30, 103, 255, 128, 1>>

MCMyIP == <<10, 194, 20, 5>>
=============================================================================
