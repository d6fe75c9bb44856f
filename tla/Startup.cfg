\* A token whose owner changes in the configuration keeps the server from starting.
SPECIFICATION Spec
CONSTANTS
  p1 = p1
  p2 = p2
  s1 = s1
  r1 = r1
  r2 = r2
  Principals <- MCPrincipals
  StaticTokens <- MCStaticTokens
  Requests <- MCRequests
  Configs <- MCConfigs
  IdleTimeout = 2
  RollInterval = 1
  MaxActive = 1
  MaxTime = 3
  MaxId = 2
INVARIANT StartupSucceeds
CHECK_DEADLOCK FALSE
