SPECIFICATION Spec
CONSTANTS
  NumSectors = 10
  SectorSize = 3
  NumDirEntries = 3
  StraddlingEntry = 1
  TransferSize = 2
  Names = {n1, n2, n3, n4}
  NoName = NoName
  UnixFiles <- SmallFiles
  Junk = 0
  MaxCommands = 6
SYMMETRY Symmetry
INVARIANTS
  MapAgreesWithDirectory
  AlwaysOpenable
  OneFileAtStake
PROPERTIES
  ImplementsAtomicFiles
CHECK_DEADLOCK FALSE
