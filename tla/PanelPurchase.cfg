SPECIFICATION Spec
CONSTANTS
  None = None
  MaxTaps = 2
  MaxOrders = 3
  MaxPolls = 2
INVARIANTS
  NothingLeftUnpaid
  SuccessMeansPaid
PROPERTIES
  FlowsEnd
CHECK_DEADLOCK FALSE
