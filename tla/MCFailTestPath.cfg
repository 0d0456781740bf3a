CONSTANTS
  A = A  B = B  C = C  D = D  E = E  M = M
  Loc = {A, B, C, D, E, M}
  NoReport = {C}
  NoPath = NoPath
  NoTag = NoTag
  NoLine = NoLine
  HandPaths = {}
  PrefixPaths <- MCPrefixPaths
  ForkModes = {FALSE}
  Pids <- MCPids
  Programs <- MCPrograms
  Step <- MCStep
SPECIFICATION Spec
INVARIANT ReplayReproducesFailure
