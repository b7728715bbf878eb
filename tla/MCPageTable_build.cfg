\* arch_init_mm, then a thread-stack build concurrent with single-page calls
CONSTANTS
  LEVELS = 4
  ENTRIES = 4
  CALLS = 3
  MaxPfn = 32
  PtBase = 1
  NrPtFrames = 7
  P2M <- MCP2M
  Threads = {t1, t2}
  Requests <- BuildRequests
  MaxRequests = 3

SPECIFICATION Spec
INVARIANT NoCrash
INVARIANT MapsAsIntended
INVARIANT FreePoolUnused
