\* One-shot and protected pastes on one thread, the configuration changed twice.
SPECIFICATION FairSpec
CONSTANTS
  na = na
  nb = nb
  no = no
  np = np
  nw = nw
  k1 = k1
  k2 = k2
  k3 = k3
  t1 = t1
  u1 = u1
  u2 = u2
  r1 = r1
  r2 = r2
  None = None
  UploadPaths <- MCUploadPaths
  Configs <- MCConfigs
  StartConfig <- MCStart
  MaxEdits = 2
  Threads <- MCOneThread
  Uploads <- MCManyTypes
  Tokens <- MCTokens
  Lifetime = 1
  MaxTime = 2
INVARIANTS
  LinksLeadToUploads
  ListingAgrees
PROPERTIES
  ReloadTakesEffect
  ExpiredContentGoes
CHECK_DEADLOCK FALSE
