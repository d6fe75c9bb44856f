\* Two calls at once log in, come back, log out and ask for pages; two rotations.
SPECIFICATION Spec
CONSTANTS
  p1 = p1
  p2 = p2
  b1 = b1
  b2 = b2
  c1 = c1
  c2 = c2
  None = None
  NoChange = NoChange
  Principals <- MCPrincipals
  StaticTokens = {}
  Browsers <- MCBrowsers
  Calls <- MCCalls
  IdleTimeout = 2
  RollInterval = 1
  MaxActive = 1
  Lifetime = 1
  MaxFlows = 1
  MaxTime = 1
  MaxStarted = 2
  MaxRotations = 2
INVARIANTS
  TypeOK
  BoundedFlows
  SessionsStayInTheirBrowser
  OneRotationIsHarmless
PROPERTY LoginsAreOneTimeGrants
SYMMETRY MCSymmetry
CHECK_DEADLOCK FALSE
