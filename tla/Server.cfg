\* Two requests, cleanup, a database failure and a crash, one-shot and protected pastes.
SPECIFICATION Spec
CONSTANTS
  a = a
  b = b
  c = c
  alice = alice
  bob = bob
  None = None
  NoRow = NoRow
  PasswordExt = PasswordExt
  Parts <- MCParts
  NumericParts <- MCNumericParts
  PublicNames <- MCNamesAndSidecars
  UploadNames <- MCTwoNames
  MinStamp = 2
  TicksPerSec = 2
  Owners <- MCOwners
  Hashes <- MCTwoHashes
  Types <- MCOneshotProtected
  Ops <- MCOps
  Admins <- MCAdmin
  MaxRequests = 2
  MaxTime = 4
  MaxCrashes = 1
  MaxFaults = 1
  FreshNames = TRUE
  Deduplicate = FALSE
  Cleanup = TRUE
INVARIANTS
  TypeOK
  RemovalIsAuthorised
  FilesHaveRows
  RowsHaveFiles
  OwnersKeepTheirPastes
SYMMETRY MCPairSymmetry
CHECK_DEADLOCK FALSE
