SPECIFICATION Spec
CONSTANTS
  l1 = l1
  l2 = l2
  l3 = l3
  l4 = l4
  Listeners = {l1, l2, l3, l4}
  ListensTo <- MCListensTo
  Numbers = {4}
  BurstTimes <- MCBurstTimes
  UintModulus = 16
  MaxUpdates = 3
INVARIANT ListenersInformed
PROPERTY UpdateReachesAll
CHECK_DEADLOCK FALSE
