\* Three requests on five types with duplicate suppression; no cleanup, no crash.
SPECIFICATION Spec
CONSTANTS
  a = a
  b = b
  c = c
  alice = alice
  bob = bob
  None = None
  NoRow = NoRow
  PasswordExt = PasswordExt
  Parts <- MCPlainParts
  NumericParts <- MCNoStamps
  PublicNames <- MCThreeNames
  UploadNames <- MCThreeNames
  MinStamp = 2
  TicksPerSec = 2
  Owners <- MCOwners
  Hashes <- MCHashes
  Types <- MCManyTypes
  Ops <- MCOps
  Admins <- MCNoAdmins
  MaxRequests = 3
  MaxTime = 2
  MaxCrashes = 0
  MaxFaults = 1
  FreshNames = TRUE
  Deduplicate = TRUE
  Cleanup = FALSE
INVARIANTS
  RemovalIsAuthorised
  AcknowledgedIsStored
  OneshotIsViewedOnce
  ProtectedNeedsPassword
SYMMETRY MCNameAndOwnerSymmetry
CHECK_DEADLOCK FALSE
