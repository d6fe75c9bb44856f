\* Two owners, two directories, names without stamps.
SPECIFICATION Spec
CONSTANTS
  a = a
  alice = alice
  bob = bob
  None = None
  NoRow = NoRow
  PasswordExt = PasswordExt
  Parts <- MCParts
  NumericParts <- MCNumericParts
  PublicNames <- MCCleanNames
  MinStamp = 3
  TicksPerSec = 2
  Owners <- MCOwners
  Hashes <- MCHashes
  Types <- MCTypes
  Scans <- MCScans
  MaxTime = 5
  MaxGen = 3
INVARIANTS
  TypeOK
  UniqueActiveLink
  InsertsExactlyFreeLinks
  DuplicatesAreLasting
PROPERTY OwnershipPreserved
CHECK_DEADLOCK FALSE
