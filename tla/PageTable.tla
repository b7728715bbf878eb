------------------------------ MODULE PageTable ------------------------------
(***************************************************************************)
(* The page-table layer of src/arch/x86/mm.c: the frame allocation        *)
(* environments, new_pt_frame, build_pagetable_vs, demolish_pagetable_vs, *)
(* write_protect_vs, arch_init_mm, the single-page mapping calls and the  *)
(* guk_not11_virt_to_pfn walk, driving the hypervisor of module XenMMU.   *)
(*                                                                         *)
(* Addresses are counted in pages: virtual page va, physical frame pfn    *)
(* and hypervisor frame mfn.  The kernel maps physical memory 1:1, so the *)
(* virtual page of frame pfn is pfn.  Each caller thread runs one call at *)
(* a time; one step of a build, demolish or protect call is one iteration *)
(* of its while loop, hypercalls included.  The static batch buffers      *)
(* mmu_updates and call are shared state, as in the code.                 *)
(***************************************************************************)
EXTENDS Integers, Sequences, FiniteSets, FiniteSetsExt

CONSTANTS
  LEVELS,       \* page-table depth: 4 on x86_64, 3 with PAE, 2 otherwise
  ENTRIES,      \* L1_PAGETABLE_ENTRIES: entries per table, build batch size
  CALLS,        \* size of the static multicall array call[]
  MaxPfn,       \* start_info.nr_pages
  PtBase,       \* pfn of start_info.pt_base
  NrPtFrames,   \* start_info.nr_pt_frames
  P2M,          \* the pfn -> mfn translation table
  Threads,      \* kernel threads that call into this layer
  Requests,     \* the calls a thread may make once memory is initialised
  MaxRequests   \* bound on the number of such calls

PFN == 0 .. MaxPfn - 1
MFN == {P2M[p] : p \in PFN}

ASSUME /\ P2M \in [PFN -> Nat \ {0}]
       /\ \A p, q \in PFN : P2M[p] = P2M[q] => p = q
       /\ CALLS \in Nat \ {0, 1}
       /\ MaxRequests \in Nat

Xen == INSTANCE XenMMU

VARIABLES
  hv,           \* the machine: frame contents, frame types, crash state
  op,           \* op[t]: the call thread t is executing, with its locals
  mmu_updates,  \* static mmu_update_t mmu_updates[L1_PAGETABLE_ENTRIES + 1]
  call,         \* static multicall_entry_t call[1024]
  pool,         \* frames the physical page allocator can still hand out
  booted,       \* arch_init_mm has returned
  nreq,         \* calls made so far (bounded by MaxRequests)
  intent        \* what the calls so far promise each tracked page maps to

vars == <<hv, op, mmu_updates, call, pool, booted, nreq, intent>>

-----------------------------------------------------------------------------
(* Geometry and conversions.                                               *)

PAGE_SIZE == 1
LARGE_PAGE_SIZE == ENTRIES          \* PAGE_SIZE * 512
VAs == 0 .. ENTRIES ^ LEVELS - 1

\* l1_table_offset .. l4_table_offset
table_offset(va, l) == (va \div (ENTRIES ^ (l - 1))) % ENTRIES

pfn_to_mfn(pfn) == IF pfn \in PFN THEN P2M[pfn] ELSE 0

\* the M2P table holds INVALID_M2P_ENTRY (-1 as a long) for foreign frames
mfn_to_pfn(mfn) ==
  IF mfn \in MFN THEN CHOOSE p \in PFN : P2M[p] = mfn ELSE -1

RootMfn == pfn_to_mfn(PtBase)       \* pfn_to_mfn(virt_to_pfn(pt_base))

\* a present entry with the protection bits L1_PROT .. L4_PROT (all RW)
PageEntry(mfn, rw) == [mfn |-> mfn, present |-> TRUE, rw |-> rw, pse |-> FALSE]

Idle == [kind |-> "idle"]

\* the translation the MMU currently makes for va
LeafOf(h, va) == Xen!LeafFrom(h, RootMfn, LEVELS, va)

-----------------------------------------------------------------------------
(* The state the domain builder leaves (start_info): page tables at      *)
(* PtBase, one node per level above L1 and then the L1 nodes, mapping     *)
(* virtual pages 0 .. start_pfn-1 1:1, the table frames read-only.        *)

NOT_L1_FRAMES == LEVELS - 1
BootL1s == NrPtFrames - NOT_L1_FRAMES
PtFrames == PtBase .. PtBase + NrPtFrames - 1
FreePfn0 == PtBase + NrPtFrames + 3   \* PFN_UP(pt_base) + nr_pt_frames + 3

\* the level of boot table frame p
BootLevel(p) == IF p - PtBase < NOT_L1_FRAMES THEN LEVELS - (p - PtBase) ELSE 1

\* the contents of boot table frame p
BootTable(p) ==
  IF BootLevel(p) > 2
    THEN [s \in Xen!Slots |-> IF s = 0 THEN PageEntry(pfn_to_mfn(p + 1), TRUE)
                                       ELSE Xen!Zero]
  ELSE IF BootLevel(p) = 2
    THEN [s \in Xen!Slots |-> IF s < BootL1s
                                THEN PageEntry(pfn_to_mfn(PtBase + NOT_L1_FRAMES + s), TRUE)
                                ELSE Xen!Zero]
  ELSE [s \in Xen!Slots |->
          LET va == (p - PtBase - NOT_L1_FRAMES) * ENTRIES + s
          IN  PageEntry(pfn_to_mfn(va), va \notin PtFrames)]

ASSUME /\ BootL1s \in 1 .. ENTRIES
       /\ FreePfn0 <= BootL1s * ENTRIES
       /\ BootL1s * ENTRIES < MaxPfn

BootHv ==
  [mem     |-> [m \in MFN |-> IF mfn_to_pfn(m) \in PtFrames
                                THEN BootTable(mfn_to_pfn(m))
                                ELSE Xen!JunkPage],
   type    |-> [m \in MFN |-> IF mfn_to_pfn(m) \in PtFrames
                                THEN BootLevel(mfn_to_pfn(m))
                                ELSE 0],
   crashed |-> "no"]

\* the pages whose mapping the calls can change
Tracked == PFN \cup UNION {r.start .. r.end - 1 : r \in {q \in Requests : "end" \in DOMAIN q}}
           \cup {r.va : r \in {q \in Requests : "va" \in DOMAIN q}}

-----------------------------------------------------------------------------
(* Frame allocation environments (pfn_alloc_env_t).  A result records   *)
(* the mfn, the updated environment and pool, and allocation failure.    *)

\* guk_pfn_linear_alloc: pfn_to_mfn(env->pfn++)
pfn_linear_alloc(env, pl) ==
  [mfn |-> pfn_to_mfn(env.pfn), env |-> [env EXCEPT !.pfn = @ + 1],
   pool |-> pl, oom |-> FALSE]

\* guk_pfn_alloc_alloc: allocate_pages(1, PAGE_FRAME_VM), crash_exit() on 0
pfn_alloc_alloc(env, pl) ==
  IF pl = {}
    THEN [mfn |-> 0, env |-> env, pool |-> pl, oom |-> TRUE]
    ELSE [mfn |-> pfn_to_mfn(Min(pl)), env |-> env,
          pool |-> pl \ {Min(pl)}, oom |-> FALSE]

pfn_alloc(env, pl) ==
  IF env.alloc = "linear" THEN pfn_linear_alloc(env, pl) ELSE pfn_alloc_alloc(env, pl)

-----------------------------------------------------------------------------
(* new_pt_frame.  The walk it makes to find the L1 entry that maps       *)
(* pt_page follows each entry's frame without looking at its present bit. *)

RECURSIVE code_l1_of(_, _, _, _)
code_l1_of(h, m, l, va) ==
  IF l = 1 \/ m \notin MFN THEN m
  ELSE code_l1_of(h, h.mem[m][table_offset(va, l)].mfn, l - 1, va)

\* fault-injection variant: the new frame is not cleared
zero_page_skipped(h, va) == h

\* memset(pfn_to_virt(pt_pfn), 0, PAGE_SIZE): a store through the 1:1
\* mapping, which faults unless that mapping is present and writable
zero_page(h, va) ==
  LET leaf == LeafOf(h, va)
  IN  IF Xen!Crashed(h) THEN h
      ELSE IF va \in VAs /\ leaf.present /\ leaf.rw /\ leaf.mfn \in MFN
        THEN [h EXCEPT !.mem[leaf.mfn] = Xen!ZeroPage]
        ELSE Xen!Crash(h, "fault")

\* zero, derive the level (crash on an unsupported one), map read-only,
\* pin, and link into slot offset of table prev_l_mfn
new_pt_frame(acc, pt_mfn, prev_l_mfn, offset, level) ==
  LET pt_pfn == mfn_to_pfn(pt_mfn)
      h1 == zero_page(acc.hv, pt_pfn)
      h2 == IF level \in 1 .. LEVELS - 1 THEN h1 ELSE Xen!Crash(h1, "config")
      h3 == Xen!MmuUpdateOne(h2, [t   |-> code_l1_of(h2, RootMfn, LEVELS, pt_pfn),
                                  s   |-> table_offset(pt_pfn, 1),
                                  val |-> PageEntry(pfn_to_mfn(pt_pfn), FALSE)])
      h4 == Xen!Pin(h3, pfn_to_mfn(pt_pfn), level)
      h5 == Xen!MmuUpdateOne(h4, [t   |-> prev_l_mfn,
                                  s   |-> offset,
                                  val |-> PageEntry(pfn_to_mfn(pt_pfn), TRUE)])
  IN  [acc EXCEPT !.hv = h5,
                  !.intent = IF pt_pfn \in DOMAIN @
                               THEN [@ EXCEPT ![pt_pfn] = PageEntry(pt_mfn, FALSE)]
                               ELSE @]

-----------------------------------------------------------------------------
(* build_pagetable_vs.  The accumulator acc threads the machine, the     *)
(* node environment, the pool and the intent through one iteration.     *)

\* the test !(tab[offset] & _PAGE_PRESENT) before a new node is made
slot_absent(h, mfn, offset) == ~h.mem[mfn][offset].present

\* new_pt_frame(env_npf->pfn_alloc(env_npf, start_address), mfn, offset, level)
new_node(acc, mfn, offset, level) ==
  LET a == pfn_alloc(acc.npf, acc.pool)
  IN  IF a.oom THEN [acc EXCEPT !.hv = Xen!Crash(@, "oom")]
      ELSE new_pt_frame([acc EXCEPT !.npf = a.env, !.pool = a.pool],
                        a.mfn, mfn, offset, level)

\* walk levels l down to stop, making each missing node; acc.tab is left
\* at the table the leaf entry goes into
RECURSIVE descend(_, _, _, _, _)
descend(acc, l, mfn, va, stop) ==
  IF l < stop \/ Xen!Crashed(acc.hv) THEN [acc EXCEPT !.tab = mfn]
  ELSE LET offset == table_offset(va, l)
           acc1 == IF slot_absent(acc.hv, mfn, offset)
                     THEN new_node(acc, mfn, offset, l - 1)
                     ELSE acc
       IN  descend(acc1, l - 1, acc1.hv.mem[mfn][offset].mfn, va, stop)

\* fault-injection variant: only a full batch is flushed
build_flush_full_only(count, start, end) == count = ENTRIES

\* the batch is flushed when full or when the range is exhausted
build_flush(count, start, end) == count = ENTRIES \/ start = end

\* fault-injection variant: the node environment is not written back
arch_init_free_pfn_stale(o) == FreePfn0

\* arch_init_mm: *free_pfn_ptr = pfn_frame_alloc_env.pfn
arch_init_free_pfn(o) == o.env_npf.pfn

BuildStep(t) ==
  LET o      == op[t]
      small  == o.ps = PAGE_SIZE
      acc    == descend([hv |-> hv, npf |-> o.env_npf, pool |-> pool,
                         intent |-> intent, tab |-> 0],
                        LEVELS, RootMfn, o.start, IF small THEN 2 ELSE 3)
      offset == table_offset(o.start, IF small THEN 1 ELSE 2)
      a      == pfn_alloc(o.env_pfn, acc.pool)
      val    == [mfn |-> a.mfn, present |-> TRUE, rw |-> TRUE, pse |-> ~small]
      queued == ~a.oom /\ a.mfn > 0
      buf    == IF queued
                  THEN [mmu_updates EXCEPT ![o.count] = [t |-> acc.tab, s |-> offset, val |-> val]]
                  ELSE mmu_updates
      count  == IF queued THEN o.count + 1 ELSE o.count
      start  == o.start + o.ps
      flush  == build_flush(count, start, o.end)
      h1     == IF a.oom THEN Xen!Crash(acc.hv, "oom") ELSE acc.hv
      stride == (o.start .. start - 1) \cap DOMAIN intent
  IN  /\ o.kind = "build"
      /\ ~Xen!Crashed(hv)
      /\ hv' = IF flush THEN Xen!MmuUpdate(h1, [k \in 1 .. count |-> buf[k - 1]]) ELSE h1
      /\ mmu_updates' = buf
      /\ intent' = IF queued THEN [v \in DOMAIN intent |-> IF v \in stride THEN val ELSE acc.intent[v]]
                             ELSE acc.intent
      /\ IF start < o.end
           THEN /\ op' = [op EXCEPT ![t] = [o EXCEPT !.start = start,
                                                     !.count = IF flush THEN 0 ELSE count,
                                                     !.env_pfn = a.env, !.env_npf = acc.npf]]
                /\ pool' = a.pool
                /\ UNCHANGED booted
           ELSE /\ op' = [op EXCEPT ![t] = Idle]
                /\ IF o.boot
                     THEN /\ pool' = {p \in PFN : p >= arch_init_free_pfn([o EXCEPT !.env_npf = acc.npf])}
                          /\ booted' = TRUE
                     ELSE /\ pool' = a.pool
                          /\ UNCHANGED booted
      /\ UNCHANGED <<call, nreq>>

-----------------------------------------------------------------------------
(* arch_init_mm: map start_pfn .. nr_pages-1 1:1 with two linear          *)
(* environments, target frames from start_pfn and node frames from the    *)
(* first free frame.  Run once, by the boot thread, before anything else. *)

ArchInitMm(t) ==
  /\ ~booted
  /\ \A u \in Threads : op[u] = Idle
  /\ op' = [op EXCEPT ![t] =
              [kind |-> "build", boot |-> TRUE, range |-> {}, ps |-> PAGE_SIZE, count |-> 0,
               start |-> BootL1s * ENTRIES, end |-> MaxPfn,
               env_pfn |-> [alloc |-> "linear", pfn |-> BootL1s * ENTRIES],
               env_npf |-> [alloc |-> "linear", pfn |-> FreePfn0]]]
  /\ UNCHANGED <<hv, mmu_updates, call, pool, booted, nreq, intent>>

-----------------------------------------------------------------------------
(* demolish_pagetable_vs and write_protect_vs: one update_va_mapping per  *)
(* page in call[i], multicall(call, i) when i reaches 1023 or the range   *)
(* ends, then i = 0 and, as for every iteration, i++.                     *)

\* the number of entries handed to HYPERVISOR_multicall(call, i)
multicall_count(i) == i

\* fault-injection variant: i is never reset after a flush
next_call_index_noreset(i, flush) == i + 1

\* the i after an iteration: reset on a flush, then i++
next_call_index(i, flush) == (IF flush THEN 0 ELSE i) + 1

\* guk_not11_virt_to_pfn: a fixed four-level walk; when an upper level is
\* absent it returns -1 and leaves *pte_ptr unwritten
RECURSIVE not11_walk(_, _, _, _)
not11_walk(h, tab, level, addr) ==
  LET pte == h.mem[tab][table_offset(addr, level)]
      pfn == mfn_to_pfn(pte.mfn)
  IN  IF level > 1 /\ ~pte.present THEN [pfn |-> -1, pte |-> Xen!Junk]
      ELSE IF level = 1 \/ pfn_to_mfn(pfn) \notin MFN THEN [pfn |-> pfn, pte |-> pte]
      ELSE not11_walk(h, pfn_to_mfn(pfn), level - 1, addr)

guk_not11_virt_to_pfn(h, addr) == not11_walk(h, RootMfn, 4, addr)

\* The value write_protect_vs queues for addr.  When the walk returns -1
\* pte is uninitialised; the value cannot matter, since the hypervisor
\* then finds no L1 table for addr and refuses the update whatever it is.
protect_val(h, addr) == [guk_not11_virt_to_pfn(h, addr).pte EXCEPT !.rw = FALSE]

MulticallStep(t) ==
  LET o     == op[t]
      val   == IF o.kind = "demolish" THEN Xen!Zero ELSE protect_val(hv, o.start)
      buf   == [call EXCEPT ![o.i] = [va |-> o.start, val |-> val]]
      start == o.start + o.ps
      flush == o.i = CALLS - 1 \/ start = o.end
      want  == IF o.kind = "demolish" THEN Xen!Zero
               ELSE IF LeafOf(hv, o.start).present
                 THEN [LeafOf(hv, o.start) EXCEPT !.rw = FALSE]
                 ELSE intent[o.start]
  IN  /\ o.kind \in {"demolish", "protect"}
      /\ ~Xen!Crashed(hv)
      /\ call' = buf
      /\ hv' = IF flush
                 THEN Xen!Multicall(hv, RootMfn, [k \in 1 .. multicall_count(o.i) |-> buf[k - 1]])
                 ELSE hv
      /\ intent' = [v \in DOMAIN intent |-> IF v \in o.start .. start - 1 THEN want ELSE intent[v]]
      /\ op' = [op EXCEPT ![t] = IF start < o.end
                                   THEN [o EXCEPT !.start = start, !.i = next_call_index(o.i, flush)]
                                   ELSE Idle]
      /\ UNCHANGED <<mmu_updates, pool, booted, nreq>>

-----------------------------------------------------------------------------
(* The calls a thread makes once memory is initialised.                    *)

\* the pages a call changes
RangeOf(r) == IF "va" \in DOMAIN r THEN {r.va} ELSE r.start .. r.end - 1

\* the pages thread u's unfinished call is changing
Busy(u) == IF op[u] = Idle THEN {} ELSE op[u].range

\* callers keep one writer per range (spec section 5): no call starts on
\* a page another thread's unfinished call is changing
CallBegins(t, r) ==
  /\ booted
  /\ op[t] = Idle
  /\ \A u \in Threads \ {t} : RangeOf(r) \cap Busy(u) = {}
  /\ ~Xen!Crashed(hv)
  /\ nreq < MaxRequests
  /\ nreq' = nreq + 1

\* guk_build_pagetable with frames from the page allocator for both the
\* mapping and the nodes (the non-1:1 mappings, such as thread stacks)
CallBuild(t, r) ==
  /\ CallBegins(t, r)
  /\ op' = [op EXCEPT ![t] =
              [kind |-> "build", boot |-> FALSE, range |-> RangeOf(r), ps |-> PAGE_SIZE, count |-> 0,
               start |-> r.start, end |-> r.end,
               env_pfn |-> [alloc |-> "alloc", pfn |-> 0],
               env_npf |-> [alloc |-> "alloc", pfn |-> 0]]]
  /\ UNCHANGED <<hv, mmu_updates, call, pool, booted, intent>>

\* guk_demolish_pagetable and guk_write_protect
CallMulticall(t, r) ==
  /\ CallBegins(t, r)
  /\ op' = [op EXCEPT ![t] = [kind |-> r.kind, range |-> RangeOf(r), ps |-> PAGE_SIZE, i |-> 0,
                              start |-> r.start, end |-> r.end]]
  /\ UNCHANGED <<hv, mmu_updates, call, pool, booted, intent>>

\* HYPERVISOR_update_va_mapping(PAGE_ALIGN(addr), val, UVMF_ALL | UVMF_INVLPG):
\* the status goes back to the caller, and nothing is retried
update_va_mapping(va, val) ==
  IF Xen!VaMappingOk(hv, RootMfn, va, val)
    THEN /\ hv' = Xen!VaMappingStore(hv, RootMfn, va, val)
         /\ intent' = [intent EXCEPT ![va] = val]
    ELSE UNCHANGED <<hv, intent>>

\* guk_unmap_page: the frame of the 1:1 mapping with no protection bits
guk_unmap_page(va) ==
  update_va_mapping(va, [mfn |-> pfn_to_mfn(va), present |-> FALSE, rw |-> FALSE, pse |-> FALSE])

\* guk_remap_page: the frame of the 1:1 mapping with L1_PROT
guk_remap_page(va) == update_va_mapping(va, PageEntry(pfn_to_mfn(va), TRUE))

\* guk_clear_pte
guk_clear_pte(va) == update_va_mapping(va, Xen!Zero)

CallSingle(t, r) ==
  /\ CallBegins(t, r)
  /\ CASE r.kind = "unmap" -> guk_unmap_page(r.va)
       [] r.kind = "remap" -> guk_remap_page(r.va)
       [] r.kind = "clear" -> guk_clear_pte(r.va)
  /\ UNCHANGED <<op, mmu_updates, call, pool, booted>>

\* the guest has crashed, or every allowed call has been made and returned
Terminated ==
  /\ \/ Xen!Crashed(hv)
     \/ nreq = MaxRequests /\ \A t \in Threads : op[t] = Idle
  /\ UNCHANGED vars

-----------------------------------------------------------------------------

Init ==
  /\ hv = BootHv
  /\ op = [t \in Threads |-> Idle]
  /\ mmu_updates = [k \in 0 .. ENTRIES |-> [t |-> 0, s |-> 0, val |-> Xen!Zero]]
  /\ call = [k \in 0 .. CALLS - 1 |-> [va |-> 0, val |-> Xen!Zero]]
  /\ pool = {}
  /\ booted = FALSE
  /\ nreq = 0
  /\ intent = [v \in Tracked |-> LeafOf(BootHv, v)]

Next ==
  \/ \E t \in Threads : ArchInitMm(t)
  \/ \E t \in Threads : BuildStep(t)
  \/ \E t \in Threads : MulticallStep(t)
  \/ \E t \in Threads, r \in Requests :
        \/ r.kind = "build" /\ CallBuild(t, r)
        \/ r.kind \in {"demolish", "protect"} /\ CallMulticall(t, r)
        \/ r.kind \in {"unmap", "remap", "clear"} /\ CallSingle(t, r)
  \/ Terminated

Spec == Init /\ [][Next]_vars

-----------------------------------------------------------------------------
(* Properties.                                                             *)

(* Every variable has its type; in particular the batch index of a build *)
(* stays within mmu_updates[L1_PAGETABLE_ENTRIES + 1] and the index i of *)
(* demolish_pagetable_vs and write_protect_vs within the static call[].  *)
TypeOK ==
  /\ hv.mem \in [MFN -> [Xen!Slots -> Xen!Entry]]
  /\ hv.type \in [MFN -> 0 .. LEVELS]
  /\ hv.crashed \in {"no", "fault", "hypercall", "config", "oom"}
  /\ \A t \in Threads : op[t].kind \in {"idle", "build", "demolish", "protect"}
  /\ \A t \in Threads : op[t].kind = "build" => op[t].count \in 0 .. ENTRIES
  /\ \A t \in Threads : op[t].kind \in {"demolish", "protect"} => op[t].i \in 0 .. CALLS - 1
  /\ pool \subseteq PFN
  /\ booted \in BOOLEAN
  /\ nreq \in 0 .. MaxRequests
  /\ intent \in [Tracked -> Xen!Entry]

(* The guest is never terminated by the page-table code itself: every    *)
(* memset of a new node lands on a writable mapping and every mmu_update  *)
(* and pin new_pt_frame and build_pagetable_vs issue is accepted.  Only   *)
(* exhaustion of the page allocator (crash_exit in guk_pfn_alloc_alloc)   *)
(* may end the guest.                                                     *)
NoCrash == hv.crashed \in {"no", "oom"}

(* When no call is in progress, every tracked page translates as the      *)
(* calls made so far promise: build maps each page of its range to the   *)
(* frame allocated for it, writable; new_pt_frame leaves each node frame *)
(* mapped read-only; demolish unmaps its range; write_protect keeps each *)
(* page's frame and clears its writable bit; the single calls set the    *)
(* entry they name when the hypervisor accepts it.                       *)
MapsAsIntended ==
  (~Xen!Crashed(hv) /\ \A t \in Threads : op[t] = Idle) =>
     \A v \in Tracked :
        LET e == LeafOf(hv, v)
            w == intent[v]
        IN  /\ e.present = w.present
            /\ w.present => e.mfn = w.mfn /\ e.rw = w.rw

(* The frames arch_init_mm hands to the page allocator, from free_pfn on,  *)
(* onwards) are not page-table nodes and are not mapped at any page but  *)
(* their own 1:1 one, so guk_pfn_alloc_alloc never hands out a frame that *)
(* is already in use.                                                     *)
FreePoolUnused ==
  \A p \in pool :
     /\ hv.type[pfn_to_mfn(p)] = 0
     /\ \A v \in Tracked \ {p} :
           ~(LeafOf(hv, v).present /\ LeafOf(hv, v).mfn = pfn_to_mfn(p))

=============================================================================
