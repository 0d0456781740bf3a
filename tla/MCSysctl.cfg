CONSTANTS
  IntBits = 16
  LongBits = 24
  TMPBUFLEN = 9
  HZ = 100
  CatLen = 16383
  Tables <- MCTables
  Values <- MCValues
  Words <- MCWords
SPECIFICATION Spec
INVARIANT TypeOK
INVARIANT EchoRestores
INVARIANT WriteApplied
