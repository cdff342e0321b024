SPECIFICATION Spec
CONSTANTS
  PacketHandlers = {h1, h2}
  ClientBuffers = {b1, b2}
  ArpBuffers = {a1, a2}
  NoBuffer = NoBuffer
  Lengths = {66}
  Capacity = 2
  UsePFRing = FALSE
  MaxPushes = 2
  MaxArps = 2
INVARIANTS NoLeak
CHECK_DEADLOCK FALSE
