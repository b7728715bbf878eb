\* xrealloc when the page allocator has run out
CONSTANTS
  P = 4
  NPages = 2
  Threads = {t1, t2}
  Sizes = {0, 1, 3}
  MaxOps = 5
  AllowDoubleFree = FALSE

SPECIFICATION Spec
INVARIANT NoCrash
