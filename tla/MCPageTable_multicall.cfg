\* stack build, then demolish or write-protect of the stack: checks the
\* mapping each call promises
CONSTANTS
  LEVELS = 4
  ENTRIES = 4
  CALLS = 3
  MaxPfn = 32
  PtBase = 1
  NrPtFrames = 7
  P2M <- MCP2M
  Threads = {t1}
  Requests <- MulticallRequests
  MaxRequests = 2

SPECIFICATION Spec
INVARIANT MapsAsIntended
