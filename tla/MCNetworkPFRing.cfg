SPECIFICATION Spec
CONSTANTS
  PacketHandlers = {h1, h2}
  ClientBuffers = {b1, b2}
  ArpBuffers = {a1, a2}
  NoBuffer = NoBuffer
  Lengths <- MCLengths
  Capacity = 2
  UsePFRing = TRUE
  MaxPushes = 3
  MaxArps = 2
INVARIANTS TypeOK NoUseAfterFree NoDoubleFree NoLeak FramesAccounted WireFramesFit
PROPERTIES FrameEventuallyFreed
CHECK_DEADLOCK FALSE
