------------------------------- MODULE Xmalloc -------------------------------
(***************************************************************************)
(* The small-object heap of src/lib/xmalloc.c: a freelist of headers in   *)
(* pages taken from the page allocator, first-fit search, splitting,      *)
(* coalescing on free, whole pages for big objects, and xrealloc.         *)
(*                                                                         *)
(* Memory is counted in units of sizeof(struct xmalloc_hdr), the         *)
(* alignment of every block; a page holds P units and page pg covers     *)
(* addresses pg*P .. pg*P+P-1.  A block is named by the address of its   *)
(* header, and the header at every address is kept, stale or not, as    *)
(* [size, linked]: linked records whether hdr->freelist.next/prev are    *)
(* non-NULL, which is all the code reads of them.  Page 0 is never       *)
(* handed out, so address 0 is NULL.                                      *)
(*                                                                         *)
(* Every call runs as one step: the freelist is only touched under       *)
(* freelist_lock, and what a call does outside it touches only the       *)
(* caller's own block or a page just taken from the page allocator.      *)
(***************************************************************************)
EXTENDS Naturals, Sequences, FiniteSets, SequencesExt

CONSTANTS
  P,                \* PAGE_SIZE / sizeof(struct xmalloc_hdr)
  NPages,           \* pages the page allocator can hand to the heap
  Threads,          \* threads calling the heap
  Sizes,            \* request sizes, in units (asize rounded up)
  MaxOps,           \* bound on calls
  AllowDoubleFree   \* callers may pass a pointer they already freed

NULL == 0
Pages == 1 .. NPages
Addr == 0 .. (NPages + 1) * P - 1

ASSUME P >= 4 /\ Sizes \subseteq Nat /\ AllowDoubleFree \in BOOLEAN

VARIABLES
  hdr,       \* hdr[a]: the header fields stored at address a
  freelist,  \* the list freelist, head first
  pool,      \* pages the page allocator holds
  crashed,   \* "no", or how the guest stopped
  live,      \* live[t]: the blocks thread t holds
  freed,     \* freed[t]: blocks thread t has freed and may free again
  dbl,       \* a second xfree of a block returned normally
  nops

vars == <<hdr, freelist, pool, crashed, live, freed, dbl, nops>>

PageOf(a) == a \div P

-----------------------------------------------------------------------------
(* The page allocator (not in src/): contiguous runs of pages, lowest    *)
(* first; 0 when no run is free.                                          *)

AllocRun(pl, n) ==
  LET bases == {b \in Pages : b .. b + n - 1 \subseteq pl}
  IN  IF bases = {} THEN 0 ELSE CHOOSE b \in bases : \A c \in bases : b <= c

-----------------------------------------------------------------------------

\* align_up(size, align)
align_up(size, align) == ((size + align - 1) \div align) * align

\* fault-injection variant: the list cursor is not cleared on allocation
maybe_split_keeplink(st, h, size, block) ==
  IF block - size >= 2
    THEN [st EXCEPT !.hdr = [@ EXCEPT ![h + size] = [size |-> block - size, linked |-> TRUE],
                                      ![h].size = size],
                    !.fl = <<h + size>> \o @]
    ELSE [st EXCEPT !.hdr[h].size = block]

\* maybe_split(hdr, size, block): a leftover of two headers or more goes
\* onto the freelist; the block's pointers are cleared
maybe_split(st, h, size, block) ==
  IF block - size >= 2
    THEN [st EXCEPT !.hdr = [@ EXCEPT ![h + size] = [size |-> block - size, linked |-> TRUE],
                                      ![h] = [size |-> size, linked |-> FALSE]],
                    !.fl = <<h + size>> \o @]
    ELSE [st EXCEPT !.hdr[h] = [size |-> block, linked |-> FALSE]]

\* xmalloc_whole_pages
xmalloc_whole_pages(st, size) ==
  LET asize == align_up(size, P)
      b == AllocRun(st.pool, asize \div P)
  IN  IF b = 0 THEN [st |-> st, res |-> NULL]
      ELSE [st  |-> [st EXCEPT !.pool = @ \ (b .. b + asize \div P - 1),
                               !.hdr[b * P] = [size |-> asize, linked |-> FALSE]],
            res |-> b * P]

\* xmalloc_new_page: alloc_page, then maybe_split under the lock
xmalloc_new_page(st, size) ==
  LET b == AllocRun(st.pool, 1)
  IN  IF b = 0 THEN [st |-> st, res |-> NULL]
      ELSE [st  |-> maybe_split([st EXCEPT !.pool = @ \ {b}], b * P, size, P),
            res |-> b * P]

\* the first freelist entry that is large enough, or 0
first_fit(st, size) ==
  LET ks == {k \in 1 .. Len(st.fl) : st.hdr[st.fl[k]].size >= size}
  IN  IF ks = {} THEN 0 ELSE CHOOSE k \in ks : \A j \in ks : k <= j

\* guk_xmalloc for d units of data: [st, res]
guk_xmalloc(st, d) ==
  LET size == d + 1
      k == first_fit(st, size)
  IN  IF size >= P THEN xmalloc_whole_pages(st, size)
      ELSE IF k # 0
        THEN [st  |-> maybe_split([st EXCEPT !.fl = RemoveAt(@, k)],
                                  st.fl[k], size, st.hdr[st.fl[k]].size),
              res |-> st.fl[k]]
      ELSE xmalloc_new_page(st, size)

\* fault-injection variant: a swallowed block is left on the list
merge_one_nodel(acc, i) ==
  LET st == acc.st
      _hdr == acc.cur
      follow == PageOf(i) = PageOf(_hdr) /\ i + st.hdr[i].size = _hdr
      st1 == IF follow THEN [st EXCEPT !.hdr[i].size = @ + st.hdr[_hdr].size] ELSE st
      cur1 == IF follow THEN i ELSE _hdr
      precede == PageOf(i) = PageOf(_hdr) /\ _hdr + st1.hdr[cur1].size = i
  IN  IF precede
        THEN [st |-> [st1 EXCEPT !.hdr[cur1].size = @ + st1.hdr[i].size], cur |-> cur1]
        ELSE [st |-> st1, cur |-> cur1]

\* fault-injection variant: only a preceding free block is merged
merge_one_follow_only(acc, i) ==
  LET st == acc.st
      _hdr == acc.cur
      follow == PageOf(i) = PageOf(_hdr) /\ i + st.hdr[i].size = _hdr
  IN  IF follow
        THEN [st  |-> [st EXCEPT !.fl = SelectSeq(@, LAMBDA x : x # i),
                                 !.hdr[i].size = @ + st.hdr[_hdr].size],
              cur |-> i]
        ELSE acc

\* one iteration of the merge loop of guk_xfree over freelist entry i,
\* with cur the block being freed as merged so far; _hdr is taken at
\* the top of the iteration, hdr->size is read as it stands
merge_one(acc, i) ==
  LET st == acc.st
      _hdr == acc.cur
      follow == PageOf(i) = PageOf(_hdr) /\ i + st.hdr[i].size = _hdr
      st1 == IF follow
               THEN [st EXCEPT !.fl = SelectSeq(@, LAMBDA x : x # i),
                               !.hdr[i].size = @ + st.hdr[_hdr].size]
               ELSE st
      cur1 == IF follow THEN i ELSE _hdr
      precede == PageOf(i) = PageOf(_hdr) /\ _hdr + st1.hdr[cur1].size = i
  IN  IF precede
        THEN [st  |-> [st1 EXCEPT !.fl = SelectSeq(@, LAMBDA x : x # i),
                                  !.hdr[cur1].size = @ + st1.hdr[i].size],
              cur |-> cur1]
        ELSE [st |-> st1, cur |-> cur1]

\* list_for_each_entry_safe over the freelist as it was when the loop began
merge_loop(st, h) == FoldLeft(LAMBDA acc, i : merge_one(acc, i), [st |-> st, cur |-> h], st.fl)

\* guk_xfree of the block with header h
guk_xfree(st, h) ==
  LET e == st.hdr[h]
      m == merge_loop(st, h)
  IN  IF PageOf(h + 1) # PageOf(h) THEN [st EXCEPT !.crashed = "bug"]
      ELSE IF e.linked THEN [st EXCEPT !.crashed = "detected"]
      ELSE IF e.size >= P
        THEN [st EXCEPT !.pool = @ \cup (PageOf(h) .. PageOf(h) + e.size \div P - 1)]
      ELSE IF m.st.hdr[m.cur].size = P
        THEN IF m.cur % P # 0 THEN [m.st EXCEPT !.crashed = "bug"]
             ELSE [m.st EXCEPT !.pool = @ \cup {PageOf(m.cur)}]
      ELSE [m.st EXCEPT !.fl = <<m.cur>> \o @, !.hdr[m.cur].linked = TRUE]

-----------------------------------------------------------------------------
(* The calls.                                                              *)

\* the heap state as the operators see it
heap == [hdr |-> hdr, fl |-> freelist, pool |-> pool, crashed |-> crashed]

\* write a heap state back
Store(st) ==
  /\ hdr' = st.hdr
  /\ freelist' = st.fl
  /\ pool' = st.pool
  /\ crashed' = st.crashed

Call(t) ==
  /\ crashed = "no"
  /\ nops < MaxOps
  /\ nops' = nops + 1

Malloc(t, d) ==
  LET r == guk_xmalloc(heap, d)
  IN  /\ Call(t)
      /\ Store(r.st)
      /\ live' = IF r.res = NULL THEN live ELSE [live EXCEPT ![t] = @ \cup {r.res}]
      /\ freed' = [u \in Threads |-> freed[u] \ {r.res}]
      /\ UNCHANGED dbl

\* what guk_xfree gives back to the page allocator is its to overwrite
\* (free_pages is not in src/): a freed block whose page went back is no
\* longer one whose header a second xfree could still read
Forget(f, pl) == [u \in Threads |-> {b \in f[u] : PageOf(b) \notin pl}]

Free(t, h) ==
  LET st == guk_xfree(heap, h)
  IN  /\ Call(t)
      /\ h \in live[t] \/ (AllowDoubleFree /\ h \in freed[t])
      /\ Store(st)
      /\ live' = [live EXCEPT ![t] = @ \ {h}]
      /\ freed' = Forget([freed EXCEPT ![t] = @ \cup {h}], st.pool)
      /\ dbl' = (dbl \/ (h \notin live[t] /\ st.crashed = "no"))

\* guk_xrealloc of block h to d units: keep it if its data part is big
\* enough, else xmalloc, memcpy psize bytes into the result, xfree h and
\* return the result; a NULL result is written through unless psize = 0
Realloc(t, h, d) ==
  LET psize == hdr[h].size - 1
      r == guk_xmalloc(heap, d)
      copied == r.res # NULL \/ psize = 0
      st == IF copied THEN guk_xfree(r.st, h) ELSE [r.st EXCEPT !.crashed = "null"]
  IN  /\ Call(t)
      /\ h \in live[t]
      /\ psize < d
      /\ Store(st)
      /\ live' = IF copied THEN [live EXCEPT ![t] = (@ \ {h}) \cup ({r.res} \ {NULL})]
                ELSE live
      /\ freed' = IF copied
                   THEN Forget([u \in Threads |->
                                 (IF u = t THEN freed[u] \cup {h} ELSE freed[u]) \ {r.res}],
                               st.pool)
                   ELSE freed
      /\ UNCHANGED dbl

\* every allowed call has been made, or the guest has stopped
Done ==
  /\ crashed # "no" \/ nops = MaxOps
  /\ UNCHANGED vars

Init ==
  /\ hdr = [a \in Addr |-> [size |-> 0, linked |-> FALSE]]
  /\ freelist = << >>
  /\ pool = Pages
  /\ crashed = "no"
  /\ live = [t \in Threads |-> {}]
  /\ freed = [t \in Threads |-> {}]
  /\ dbl = FALSE
  /\ nops = 0

\* xrealloc with a block that is already big enough returns it unchanged
\* and is not a step; xrealloc(NULL, ...) is xmalloc
Next ==
  \/ \E t \in Threads, d \in Sizes : Malloc(t, d)
  \/ \E t \in Threads, h \in Addr : Free(t, h)
  \/ \E t \in Threads, h \in Addr, d \in Sizes : Realloc(t, h, d)
  \/ Done

Spec == Init /\ [][Next]_vars

-----------------------------------------------------------------------------
(* Properties.                                                             *)

\* the blocks the heap knows of: held by a thread, or on the freelist
Held == UNION {live[t] : t \in Threads}
Extent(a) == a .. a + hdr[a].size - 1

(* No two blocks overlap: every block a thread holds and every block on   *)
(* the freelist occupy disjoint memory, inside pages the page allocator  *)
(* does not hold, and no block is on the freelist twice.                 *)
HeapDisjoint ==
  LET B == Held \cup ToSet(freelist)
  IN  /\ Len(freelist) = Cardinality(ToSet(freelist))
      /\ Held \cap ToSet(freelist) = {}
      /\ \A a, b \in B : a # b => Extent(a) \cap Extent(b) = {}
      /\ \A a \in B : \A x \in Extent(a) : PageOf(x) \notin pool

(* The double-free check of guk_xfree reads only the list pointers: a     *)
(* block a thread holds has them cleared and a block on the freelist has *)
(* them set, so no first xfree is taken for a double free.               *)
LinksTell ==
  /\ \A a \in Held : ~hdr[a].linked
  /\ \A a \in ToSet(freelist) : hdr[a].linked

(* The freelist is fully coalesced: no two of its blocks are adjacent in *)
(* a page, and none covers a whole page (that page is given back).       *)
Coalesced ==
  \A a \in ToSet(freelist) :
     /\ hdr[a].size < P
     /\ \A b \in ToSet(freelist) : PageOf(a) = PageOf(b) => a + hdr[a].size # b

(* No call stops the guest: neither the deliberate faults of guk_xfree   *)
(* nor a memcpy into a NULL result of guk_xrealloc.                       *)
NoCrash == crashed = "no"

(* As the comment at the check says, a block is not freed twice: a second *)
(* xfree of a block whose page the heap still holds never returns        *)
(* normally.                                                             *)
DoubleFreeCaught == ~dbl

=============================================================================
