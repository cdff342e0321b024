SPECIFICATION Spec
CONSTANTS
  Roles = {"server"}
  Callers = {c1}
  JoinedCallers = {c1}
  MaxCalls = 2
  MaxErrors = 0
INVARIANTS ShutDownDestroysAll
CHECK_DEADLOCK FALSE
