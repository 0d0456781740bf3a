CONSTANTS
  IntBits = 16
  LongBits = 24
  TMPBUFLEN = 9
  HZ = 100
  CatLen = 16383
  Tables <- MCTables
  Values <- MCNegValues
  Words <- MCNegWords
SPECIFICATION Spec
INVARIANT EchoRestores
