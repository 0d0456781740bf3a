CONSTANTS
  CT = CT
  ST = ST
  NAT = NAT
  BAD = BAD
  GONE = GONE
  None = None
  MaxRefs = 1
  Mods <- MCMods
  Deps <- MCDeps
  NoArg = NoArg
  Tables <- MCTables
  Argvs <- MCArgvs
  LongPrefix <- MCLongPrefix
SPECIFICATION MainSpec
INVARIANT RefsPinModule
