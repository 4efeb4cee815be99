SPECIFICATION Spec
CONSTANTS
  Names = {"a", "b"}
  Contents <- Sizes
  MaxFiles = 3
  FileSectors = 2
  EntrySize = 2
  SectorSize = 3
  DirSectors = 2
  MaxTrouble = 2
  Troubles = {"crash"}
INVARIANTS
  ImageLocated
