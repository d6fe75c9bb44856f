\* Files, with names and contents that recur, two threads, the configuration changed twice.
SPECIFICATION Spec
CONSTANTS
  na = na
  nb = nb
  no = no
  np = np
  nw = nw
  k1 = k1
  k2 = k2
  k3 = k3
  t1 = t1
  u1 = u1
  u2 = u2
  r1 = r1
  r2 = r2
  None = None
  UploadPaths <- MCUploadPaths
  Configs <- MCConfigs
  StartConfig <- MCStart
  MaxEdits = 2
  Threads <- MCThreads
  Uploads <- MCUploads
  Tokens <- MCTokens
  Lifetime = 1
  MaxTime = 2
INVARIANTS
  TypeOK
  LinksLeadToUploads
  ListingAgrees
  OvershootIsBounded
  CleanupGetsTheLatest
SYMMETRY MCSymmetry
CHECK_DEADLOCK FALSE
