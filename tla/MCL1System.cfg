SPECIFICATION Spec
CONSTANTS
  Workers = {w1}
  MAX_TRIGGERS_PER_L1MRP = 2
  NumUnicastHdrs = 1
  NumMulticastHdrs = 1
  MaxRequests = 2
  MaxBursts = 1
  PacketHandlers = {h1, h2}
  ArpBuffers = {a1}
  NoBuffer = NoBuffer
  Capacity = 2
  MaxPushes = 4
  MaxArps = 1
INVARIANTS MRPDelivery NoMRPRefused
PROPERTIES L1Implemented RequestReachesWire
CHECK_DEADLOCK FALSE
