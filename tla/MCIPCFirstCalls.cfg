SPECIFICATION Spec
CONSTANTS
  Roles = {"client"}
  Callers = {c1, c2}
  JoinedCallers = {c1, c2}
  MaxCalls = 2
  MaxErrors = 0
INVARIANTS FalseOnlyIfShutDown
CHECK_DEADLOCK FALSE
