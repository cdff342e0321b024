SPECIFICATION Spec
CONSTANTS
  Roles = {"client", "server"}
  Callers = {c1, c2}
  JoinedCallers = {c1}
  MaxCalls = 2
  MaxErrors = 2
INVARIANTS TypeOK PointersValid OrphansAccounted MisuseOnlyIfOverlapped
PROPERTIES ShutdownCompletes
CHECK_DEADLOCK FALSE
