\* Two calls at once start, approve and poll flows, of which one may be active.
SPECIFICATION Spec
CONSTANTS
  p1 = p1
  p2 = p2
  c1 = c1
  c2 = c2
  None = None
  Principals <- MCPrincipals
  StaticTokens = {}
  Calls <- MCCalls
  IdleTimeout = 2
  RollInterval = 1
  MaxActive = 1
  Lifetime = 2
  PollInterval = 1
  MaxFlows = 1
  MaxTime = 3
  MaxStarted = 2
INVARIANTS
  TypeOK
  BoundedFlows
PROPERTY FlowsAreOneTimeGrants
SYMMETRY MCSymmetry
CHECK_DEADLOCK FALSE
