SPECIFICATION Spec
CONSTANTS
  Workers = {w1, w2}
  MAX_TRIGGERS_PER_L1MRP = 2
  NumUnicastHdrs = 1
  NumMulticastHdrs = 1
  QueueCapacity = 2
  ArpData = ArpData
  OtherFrames <- MCOtherFrames
  MaxRequests = 3
  MaxBursts = 2
  MaxOther = 1
INVARIANTS TypeOK NoRequestLost RequestOrder DestinationsAgree MRPSize CountersExact OneLateSkipPerBurst WaitsOnlyAfterDrain
PROPERTIES RequestHandled PipelineImplemented
