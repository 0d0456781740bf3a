CONSTANTS
  Names <- MCNames
  Tables <- MCTables
  TableDef <- MCTableDef
  IgnoreChoices = {FALSE, TRUE}
  MaxEnt = 11
  MaxMade = 2
  Readers <- MCReaders
  CatPaths <- MCCatPaths
  PageSize = 8
  BlockSize = 6
  CatBytes = 31
SPECIFICATION Spec
INVARIANT TypeOK
INVARIANT NoOrphans
INVARIANT HeldLive
INVARIANT SysctlVisible
INVARIANT CleanExit
INVARIANT ProcCatWholeFile
