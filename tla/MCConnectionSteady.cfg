SPECIFICATION Spec
CONSTANTS
  None = None
  Calls = {c1, c2}
  Cores = {p1, p2}
  Configs = {f1, f2}
  Serial = TRUE
  Seeded = TRUE
  Flaky = FALSE
INVARIANTS
  NoOrphan
  ShownDown
  RunsActive
  CleanExit
PROPERTIES
  CallsAdapter
CHECK_DEADLOCK FALSE
