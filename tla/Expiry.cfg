\* Fair scheduling: an expiring protected paste goes, with a crash on the way.
SPECIFICATION FairSpec
CONSTANTS
  a = a
  b = b
  c = c
  alice = alice
  bob = bob
  None = None
  NoRow = NoRow
  PasswordExt = PasswordExt
  Parts <- MCOneStampParts
  NumericParts <- MCOneStamp
  PublicNames <- MCNamesAndSidecars
  UploadNames <- MCTwoNames
  MinStamp = 2
  TicksPerSec = 3
  Owners <- MCOneOwner
  Hashes <- MCTwoHashes
  Types <- MCProtected
  Ops <- MCNoServe
  Admins <- MCNoAdmins
  MaxRequests = 2
  MaxTime = 6
  MaxCrashes = 1
  MaxFaults = 0
  FreshNames = TRUE
  Deduplicate = FALSE
  Cleanup = TRUE
PROPERTY ExpiredPastesGo
CHECK_DEADLOCK FALSE
