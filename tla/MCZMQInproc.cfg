SPECIFICATION Spec
CONSTANTS
  a1 = a1
  a2 = a2
  s1 = s1
  s2 = s2
  Addresses = {a1, a2}
  Senders = {s1, s2}
  Target <- MCTarget
  NoThread = NoThread
  MaxMessages = 2
INVARIANTS TypeOK ConnectAfterBind MisuseOnlyAfterFailure
PROPERTIES ConnectsOnceBound ShutdownCompletes
CHECK_DEADLOCK FALSE
