SPECIFICATION Spec
CONSTANTS
  Events <- MCEvents
  Groups <- MCGroups
  Unicasts <- MCUnicasts
  GatewayMAC <- MCGatewayMAC
  MyIP <- MCMyIP
  Port = 58913
  MaxTriggers = 2
  MaxHeader = 6000
  BadWords = {0, 1, 255, 32768, 65534}
INVARIANTS FrameAccepted DamageDetected LengthsExact
CHECK_DEADLOCK FALSE
