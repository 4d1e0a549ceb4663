SPECIFICATION FairSpec
CONSTANTS
  None = None
  Jobs = {j1, j2, j3}
INVARIANTS
  RunsWhole
  NoOrphan
  StoppedClean
PROPERTIES
  Settles
CHECK_DEADLOCK FALSE
