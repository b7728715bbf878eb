\* two threads build disjoint stack ranges at the same time
CONSTANTS
  LEVELS = 4
  ENTRIES = 4
  CALLS = 3
  MaxPfn = 32
  PtBase = 1
  NrPtFrames = 7
  P2M <- MCP2M
  Threads = {t1, t2}
  Requests <- TwoStackRequests
  MaxRequests = 2

SPECIFICATION Spec
INVARIANT MapsAsIntended
