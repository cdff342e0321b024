SPECIFICATION RecvSpec
CONSTANTS
  PacketHandlers = {1, 2}
  ClientBuffers = {b1, b2}
  ArpBuffers = {a1, a2}
  NoBuffer = NoBuffer
  Lengths = {66}
  Capacity = 2
  UsePFRing = FALSE
  MaxPushes = 2
  MaxArps = 2
  NumberOfRings = 1
  FrameSizes = {60, 1514}
  MaxReceived = 3
INVARIANTS FramesAccounted FrameIntact ReceivedExact
PROPERTIES FrameEventuallyFreed
CHECK_DEADLOCK FALSE
