\* A name used again between the check of a deletion and the removal.
SPECIFICATION Spec
CONSTANTS
  a = a
  b = b
  c = c
  alice = alice
  bob = bob
  None = None
  NoRow = NoRow
  PasswordExt = PasswordExt
  Parts <- MCPlainParts
  NumericParts <- MCNoStamps
  PublicNames <- MCOneName
  UploadNames <- MCOneName
  MinStamp = 2
  TicksPerSec = 2
  Owners <- MCOwners
  Hashes <- MCHashes
  Types <- MCFile
  Ops <- MCOps
  Admins <- MCNoAdmins
  MaxRequests = 4
  MaxTime = 2
  MaxCrashes = 0
  MaxFaults = 0
  FreshNames = FALSE
  Deduplicate = FALSE
  Cleanup = FALSE
INVARIANT RemovalIsAuthorised
CHECK_DEADLOCK FALSE
