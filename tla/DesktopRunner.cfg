SPECIFICATION Spec
CONSTANTS
  None = None
  Procs = {a, b, c}
  Platforms = {"windows", "linux"}
INVARIANTS
  SingleInstance
  RelaunchReaches
PROPERTIES
  LaunchSettles
CHECK_DEADLOCK FALSE
