\* Sessions and tokens: two requests use them while they are issued, revoked,
\* purged and provisioned, with crashes and changes of the configuration.
SPECIFICATION Spec
CONSTANTS
  p1 = p1
  p2 = p2
  s1 = s1
  r1 = r1
  r2 = r2
  Principals <- MCPrincipals
  StaticTokens <- MCStaticTokens
  Requests <- MCRequests
  Configs <- MCConfigs
  IdleTimeout = 2
  RollInterval = 1
  MaxActive = 1
  MaxTime = 3
  MaxId = 2
INVARIANTS
  TypeOK
  BoundedCredentials
  UseExtends
  AcceptedAsConfigured
PROPERTIES
  OldestGoFirst
  
  RevocationIsFinal
  ExpiryNeverMovesBack
CHECK_DEADLOCK FALSE
SYMMETRY MCSymmetry
