\* two threads, two heap pages of four headers each, requests of 0, 1 and
\* 3 units (the last takes a whole page), well-behaved callers
CONSTANTS
  P = 4
  NPages = 2
  Threads = {t1, t2}
  Sizes = {0, 1, 3}
  MaxOps = 5
  AllowDoubleFree = FALSE

SPECIFICATION Spec
INVARIANT HeapDisjoint
INVARIANT LinksTell
INVARIANT Coalesced
