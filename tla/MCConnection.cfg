SPECIFICATION FairSpec
CONSTANTS
  None = None
  Calls = {c1, c2}
  Cores = {p1, p2}
  Configs = {f1}
  Serial = FALSE
  Seeded = TRUE
  Flaky = TRUE
INVARIANTS
  BusyOnlyInService
PROPERTIES
  ButtonReturns
CHECK_DEADLOCK FALSE
