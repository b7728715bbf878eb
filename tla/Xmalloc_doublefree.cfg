\* a caller frees a block a second time; six calls let a third block keep
\* the page in the heap while the first two merge
CONSTANTS
  P = 4
  NPages = 2
  Threads = {t1, t2}
  Sizes = {0, 1, 3}
  MaxOps = 6
  AllowDoubleFree = TRUE

SPECIFICATION Spec
INVARIANT DoubleFreeCaught
