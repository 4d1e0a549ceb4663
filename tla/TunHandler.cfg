SPECIFICATION FairSpec
CONSTANTS
  None = None
  Starters = {s1, s2}
  Stoppers = {p1, p2}
  Users = {u1, u2}
  Readers = {r1}
  Permits = 2
INVARIANTS
  NoUseAfterRelease
  HookIffListening
  NothingLeaked
PROPERTIES
  CallsComplete
  LeaseSpec
CHECK_DEADLOCK FALSE
