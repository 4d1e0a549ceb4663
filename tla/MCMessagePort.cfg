SPECIFICATION Spec
CONSTANTS
  None = None
  PostCObject = PostCObject
  CloseNativePort = CloseNativePort
  Starters = {s1, s2}
  Stoppers = {p1}
  Ports = {port}
  Symbols = {PostCObject, CloseNativePort}
  MajorVersion = 2
  VMs <- MCVMs
  MaxEvents = 2
  Capacity = 1
INVARIANTS
  SubscriptionTracked
  DeliveredOnce
  BridgeSafe
PROPERTIES
  LogFlows
CHECK_DEADLOCK FALSE
