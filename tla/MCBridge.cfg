CONSTANTS
  HPids <- MCHPids
  PPids <- MCPPids
  None = None
  KopCanFault = TRUE
  Syscalls <- MCSyscalls
  Copies <- MCCopies
SPECIFICATION Spec
INVARIANT TypeOK
INVARIANT StatusRelayed
INVARIANT NoExitMidKernelop
PROPERTY AllTerminate
