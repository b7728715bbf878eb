\* arch_init_mm, then two threads making any mix of stack build, demolish,
\* write-protect and single-page calls
CONSTANTS
  LEVELS = 4
  ENTRIES = 4
  CALLS = 3
  MaxPfn = 32
  PtBase = 1
  NrPtFrames = 7
  P2M <- MCP2M
  Threads = {t1, t2}
  Requests <- AllRequests
  MaxRequests = 4

SPECIFICATION Spec
INVARIANT TypeOK
