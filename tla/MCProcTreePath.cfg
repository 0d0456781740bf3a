CONSTANTS
  Names <- MCPathNames
  Tables <- MCTables
  TableDef <- MCTableDef
  IgnoreChoices = {FALSE}
  MaxEnt = 11
  MaxMade = 2
  Readers <- MCReaders
  CatPaths <- MCCatPaths
  PageSize = 8
  BlockSize = 6
  CatBytes = 31
SPECIFICATION Spec
INVARIANT CleanExit
