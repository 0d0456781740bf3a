CONSTANTS
  CT = CT
  ST = ST
  NAT = NAT
  BAD = BAD
  GONE = GONE
  None = None
  NoArg = NoArg
  MaxRefs = 1
  Mods <- MCMods
  Deps <- MCDeps
  Tables <- MCTables
  Argvs <- MCArgvs
  LongPrefix <- MCLongPrefix
SPECIFICATION MainSpec
INVARIANT MainTypeOK
INVARIANT LoadAllComplete
INVARIANT OptionsHonoured
PROPERTY UnloadAllOrder
PROPERTY BulkCallsReturn
