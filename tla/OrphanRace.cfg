\* The cleanup thread meets an upload between its sidecar and its content.
SPECIFICATION Spec
CONSTANTS
  a = a
  b = b
  c = c
  alice = alice
  bob = bob
  None = None
  NoRow = NoRow
  PasswordExt = PasswordExt
  Parts <- MCPlainParts
  NumericParts <- MCNoStamps
  PublicNames <- MCOneName
  UploadNames <- MCOneName
  MinStamp = 2
  TicksPerSec = 2
  Owners <- MCOwners
  Hashes <- MCHashes
  Types <- MCProtected
  Ops <- MCOps
  Admins <- MCAdmin
  MaxRequests = 2
  MaxTime = 2
  MaxCrashes = 0
  MaxFaults = 0
  FreshNames = TRUE
  Deduplicate = FALSE
  Cleanup = TRUE
INVARIANT ProtectedNeedsPassword
CHECK_DEADLOCK FALSE
