CONSTANTS
  Disks <- MCDisks
  ByteBits = 2
  SectorBytes = 2
  InodeSects = 2
  MaxPrim = 4
  MaxLogic = 3
  MaxWaiting = 2
  NULL = NULL
SPECIFICATION Spec
INVARIANTS PartitionsExact BlocksSound ScanFindsFirst
