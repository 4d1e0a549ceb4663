SPECIFICATION FairSpec
CONSTANTS
  None = None
  Calls = {c1}
  Cores = {p1}
  Configs = {f1}
  Serial = TRUE
  Seeded = FALSE
  Flaky = FALSE
PROPERTIES
  StatusKnown
CHECK_DEADLOCK FALSE
