SPECIFICATION FairSpec
CONSTANTS
  None = None
  DefaultConfig = cfgDefault
  cfgA = cfgA
  cfgB = cfgB
  proxyX = proxyX
  proxyY = proxyY
  Calls = {c1, c2, c3}
  Methods = {"initClash", "startListener", "stopListener", "shutdown", "setupConfig", "updateConfig", "changeProxy", "getExternalProviders", "getExternalProvider", "updateExternalProvider", "sideLoadExternalProvider", "closeConnections", "crash", "unknown"}
  Configs = {cfgA, cfgB}
  Patches = {port1}
  Proxies = {proxyX, proxyY}
  ProxiesOf <- MCProxiesOf
INVARIANTS
  PortsFollow
  TunnelRunsCurrent
  SelectionAnswered
PROPERTIES
  Answered
CHECK_DEADLOCK FALSE
