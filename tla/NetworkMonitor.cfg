SPECIFICATION MonitorSpec
CONSTANTS
  Null = Null
  Job = Job
  Networks = {n1, n2}
  Queries = {q1}
  Versions = {22, 23}
  MaxChanges = 3
  MaxRounds = 2
INVARIANTS
  ActorLives
  Fresh
PROPERTIES
  GetsAnswered
CHECK_DEADLOCK FALSE
