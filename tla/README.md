# TLA+ models of mini-os-guk

This project model-checks five parts of the repository:
- the paravirtualised page-table layer of `src/arch/x86/mm.c`, checked against the Xen MMU interface;
- the console ring of `src/console/xencons_ring.c`;
- the heap allocator of `src/lib/xmalloc.c`;
- the guest clock of `src/arch/x86/time.c`;
- the threaded spinlock test of `src/tests/threaded_spinlock_test.c`.

It also records the other parts of the repository and the plan for modelling them.

## The system

| part | source | state | operations |
|---|---|---|---|
| page-table core | `src/arch/x86/mm.c` | the page-table tree rooted at `start_info.pt_base`; the static batches `mmu_updates[]` (build) and `call[1024]` (demolish, write-protect); the allocation environments `pfn_alloc_env_t` | `arch_init_mm`, `guk_build_pagetable(_2mb)`, `guk_demolish_pagetable(_2mb)`, `guk_write_protect(_2mb)`, `guk_unmap_page`, `guk_remap_page`, `guk_clear_pte`, `guk_not11_virt_to_pfn`, `guk_validate`, pfn/mfn translation |
| Xen MMU (external) | none (spec section 6) | frame contents, frame types, pins | `mmu_update`, `mmuext_op` pin, `update_va_mapping`, `multicall` |
| heap allocator | `src/lib/xmalloc.c` | a freelist of headers under `freelist_lock` | `guk_xmalloc`, `guk_xfree`, `guk_xrealloc` |
| console ring | `src/console/xencons_ring.c` | the shared in/out rings with free-running u32 indices | send, handle_input, init, suspend/resume |
| time | `src/arch/x86/time.c` | the shadow time and shadow wallclock with version counters, `suspended`, `time_addend` | `get_time_values_from_xen`, `monotonic_clock`, `update_wallclock`, `gettimeofday`, `block_domain`, `check_need_resched`, suspend/resume |
| threaded tests | `src/tests/*.c` | `test_value`, `remaining_threads_count` under spinlocks | thread_fn, spawner |
| fs backend | `src/tools/fs-back/*.h` | the request-id freelist threaded through an array | add/get id |

How the page-table core works with the rest:
- It takes frames from the page allocator (`allocate_pages`) through an
  allocation environment, or linearly from a cursor during boot.
- It changes the tree only through hypercalls. Xen checks every update: a
  page-table frame may never be mapped writable, and a link must point at a
  frame that is, or can be validated as, a table of the level below.
- The rest of the kernel calls build and demolish for thread stacks and the
  single-page calls for on-demand mapping.

## Modules

- `XenMMU.tla` covers the hypervisor's side. It is written from spec section 6, because Xen is not in this
  repository. It has state-passing operators over a machine record
  `[mem, type, crashed]`:
  - `MmuUpdateOne`/`MmuUpdate` (a refused record crashes the guest, since every
    caller answers a failed `mmu_update` with `crash_exit`);
  - `Pin`;
  - `VaMappingOk`/`VaMappingStore`;
  - `Multicall` (a refused entry is skipped and the call still returns 0);
  - `LeafFrom` (the MMU's translation).
- `PageTable.tla` models mm.c. Its variables:
  - `hv` is the machine;
  - `op[t]` holds the call thread t is in, with its locals (`start`, `count`, `i`, the envs);
  - `mmu_updates` and `call` are the static batches, shared by all threads as in the code;
  - `pool` holds the allocator's free frames;
  - `booted` says whether `arch_init_mm` has returned;
  - `nreq` counts the calls made, up to the bound `MaxRequests`;
  - the ghost `intent` holds the mapping each page was promised by the calls made so far.

  Its actions:
  - `ArchInitMm` starts the boot build.
  - `BuildStep` is one iteration of the `build_pagetable_vs` loop. It covers the walk `descend`, which makes each missing node through `new_pt_frame` (memset, read-only remap, pin, link), then the target allocation, the queued record, and the flush. On the boot build's last iteration it also writes `*free_pfn_ptr` back and hands the rest of memory to the allocator.
  - `MulticallStep` is one iteration of `demolish_pagetable_vs` or `write_protect_vs`.
  - `CallBuild` and `CallMulticall` begin those calls.
  - `CallSingle` is `guk_unmap_page`, `guk_remap_page` or `guk_clear_pte`, made in one step.

  `guk_not11_virt_to_pfn` (`not11_walk`) is an operator over the machine, used by `write_protect_vs` for the value it queues. `guk_validate` has no caller under `src/` and is not modelled.

  Preemption may fall between any two loop iterations. Calls follow spec section 5's caller discipline: no call starts on a page that another
  thread's unfinished call is changing (`CallBegins`).
- `MCPageTable.tla` gives the geometry and requests (see Bounds).
- `ConsoleRing.tla` models xencons_ring.c. Its state:
  - the two rings, with free-running indices kept to `W` bits (`u(x) = x % 2^W`);
  - the event channel (`bound`, `guest_evt`, `dom_evt`);
  - the suspend `phase`;
  - ghosts for what was sent, shown and typed.

  Its actions:
  - `SendBegin` is `xencons_ring_send` up to its snapshot and `BUG_ON`. `SendFinish` is the copy loop, the `wmb` and producer update, and `notify_daemon`. Interrupts and the daemon may run between the two.
  - `HandleInput` is the interrupt handler as a whole: it copies the input ring, advances `in_cons` and notifies.
  - `RingInit` (`xencons_ring_init`, where the bind may fail), `Suspend` and `Resume`.
  - `DaemonRead`, `DaemonWrite` and `DaemonKick` model the backend in dom0 from the ring protocol, because it is not in this repository.
- `ConsoleChannel.tla` is the abstract specification of what the rings
  promise: two FIFO channels of `SIZE` bytes. `outq` holds the bytes sent
  and not yet shown, `inq` the bytes typed and not yet passed to
  `xencons_rx`. Its actions are `Send`, `Show`, `Type` and `Receive`.
  `ConsoleRing` instantiates it with `outq` and `inq` mapped to the ring
  contents from `cons` up to `prod`, read through the masked slots, and
  checks `ChannelRefined == Chan!Spec`. Every ring step is then one channel
  step or a stutter: `SendFinish` is a `Send`, `DaemonRead` a `Show`,
  `DaemonWrite` a `Type`, `HandleInput` a `Receive`.
- `SpinlockTest.tla` models threaded_spinlock_test.c:
  - `guk_app_main` is `Init`: the count starts at 1 and the spawner runs.
  - The spawner's loop is `SpawnerLock`, `SpawnerCount` (increment unless
    `count == NUM_OBJECTS-1`), `SpawnerCreate` and `SpawnerExit`.
  - Each `thread_fn` is `Acquire`, `Load`, `Store` (store, `cycles++`,
    unlock, and `goto again` or not), `TailLock`, `Subtract`, `CountLock`,
    `Decrement`, and `Check` for the thread that saw 0.
  - A spinlock is a flag that `spin_lock` waits on and sets atomically.
    The spin times are random, so going round the again loop once more is
    a free choice, up to `MaxCycles`. `ok_exit` stops every thread.
- `Xmalloc.tla` models xmalloc.c. Each call is one step, as `freelist_lock` makes it. Its state:
  - `hdr` holds block headers by address, with their size and whether their list pointers are set;
  - `freelist` is the list in its order;
  - `pool` holds the page allocator's free pages;
  - ghosts record each thread's `live` and `freed` blocks.

  `guk_xmalloc`, `maybe_split`, `guk_xfree` (the merge loop is `FoldLeft` over the list, with `_hdr` read at the top of each iteration as in the code) and `guk_xrealloc` are state-passing operators. `Malloc`, `Free` and `Realloc` are the actions that apply them. A freed block whose page goes back to the page allocator leaves the ghost `freed` (`Forget`): `free_pages` is not in `src/`, so what a second xfree would then read at its header is not the heap's.

- `Time.tla` models time.c on one vCPU. Its state:
  - Xen's `vcpu_time_info` (`src`, whose version is odd during an update) and the wallclock record `wc`;
  - the per-cpu `shadow` and the wallclock shadow `shadow_ts`;
  - the thread's program point and the locals of `monotonic_clock` and `get_time_values_from_xen`;
  - `suspend_time`, `suspended` and `time_addend`;
  - Xen's singleshot timer `timer`, in the host's system time, and `block_domain`'s argument `until`.

  Xen's side is modelled from the version protocol, because Xen is not in this repository:
  - `XenBegin` and `XenEnd` publish a record;
  - `Tick` advances real time;
  - `Migrate` moves a suspended guest to another host. The pending singleshot timer may survive or be dropped.

  A host's TSC and system time both follow real time, from their own origins. `scale_delta` is therefore the identity, and a shadow gives the true time exactly when its two timestamps come from one publication of the current host.

  The thread's actions:
  - `MonoVersion`, `MonoSys`, `MonoTsc`, `MonoFresh` and `MonoCheck` are the statements of `guk_monotonic_clock`.
  - `GetLoad`, `GetStore` and `GetCheck` are `get_time_values_from_xen`, one field at a time. Each field copy is split into its load and its store.
  - `Call` enters NOW(), `guk_gettimeofday`, `time_suspend`, or, as the idle thread, `block_domain(until)`.
  - `block_domain_end` arms the timer at `until - time_addend` and blocks, or re-enables interrupts when NOW() has already passed `until`. `BlockWake` is the return from `SCHEDOP_block` once an event is pending.
  - Each call's tail is an action of its own: `MonoReturn`, `gettimeofday_end`, `time_suspend_end`, `time_resume_begin` and `time_resume_end`.

  `TimerHandler` (`timer_handler`) runs between any two thread steps while the thread has interrupts enabled. That is the case inside NOW(), since `monotonic_clock` only disables preemption. `gettimeofday` takes `spin_lock_irqsave`, and the suspend path and `block_domain` run with interrupts disabled.

  The handler is whole: after the two refreshes, `check_need_resched` either leaves the timer alone or re-arms it through `set_timer_interrupt` for the rest of the current thread's slice. A due timer is consumed by the VIRQ. The scheduler owns the current thread, its `resched_running_time` and the runstate's running time, and sched.c is not in the repository, so these are inputs chosen with `\E`. `set_need_resched` sets a flag of the scheduler's thread, which is not held.

## Runs

| run | expect | checks | shows |
|---|---|---|---|
| build | pass | `NoCrash`, `MapsAsIntended`, `FreePoolUnused` | Boot, then a stack build on one thread racing single-page calls on another. Nothing crashes, every page maps as promised, and no free frame is in use. |
| all | pass | `TypeOK` | Two threads make any mix of build, demolish, protect and single calls, so every action of the layer fires in a passing run. The batch indices stay inside their static arrays. `MapsAsIntended` is not checked here, since the multicall off-by-one breaks it. |
| multicall | violation | `MapsAsIntended` | Off-by-one in `demolish_pagetable_vs` (mm.c:313, 317-319) and the same in `write_protect_vs` (mm.c:352): pages stay mapped or writable. |
| twostacks | violation | `MapsAsIntended` | Two disjoint builds corrupt the static `mmu_updates` batch (mm.c:207). |
| ring | pass | `AvailExact`, `ChannelRefined`, `InputDelivered` | Across index wraparound, a send working from a stale `out_cons`, failed binds and a suspend/resume, the rings implement `ConsoleChannel`. So neither `BUG_ON` fires, no unread byte is overwritten, and both directions deliver in order, each byte once. `xencons_ring_avail` is exactly the free space. Input typed while the channel was unbound still reaches `xencons_rx`, unless a failed bind leaves the guest unbound. |
| heap | pass | `HeapDisjoint`, `LinksTell`, `Coalesced` | Two threads mix xmalloc, xfree and xrealloc. Blocks never overlap. List pointers are set exactly on listed blocks. No two free blocks of a page are adjacent. |
| xrealloc_oom | violation | `NoCrash` | `guk_xrealloc` of a block holding data memcpy's into NULL when the allocation fails (xmalloc.c:302-305): `xmalloc(1)`, a whole-page `xmalloc(3)` that takes the last page, then `xrealloc` of the first block to 3 units. With `psize = 0` the memcpy touches nothing, and the model then frees the block and returns NULL as the code does. |
| time_gtod | pass | `MonotonicAccurate`, `GettimeofdayTrue`, `NowMonotonic` | `gettimeofday`, suspend/resume and `block_domain` all run with interrupts disabled. They read the true time while Xen publishes mid-copy and after a migration to a host whose clock is behind. NOW() never goes back. `block_domain` runs here too, so that its steps fire in a passing run. |
| time_calls | pass | `CallsReturn` | Every clock call returns, and a suspended guest resumes, although interrupts and Xen keep rewriting what the retry loops compare. |
| time_torn | violation | `MonotonicAccurate` | A timer interrupt between the load and the store of `shadow->tsc_timestamp = src->tsc_timestamp` (time.c:167) leaves a torn shadow that both version checks accept. NOW() is then off by the time between two publications, until the next timer interrupt or a later call copies a newer publication. |
| spinlock_test | pass | `LastSeesAllDone`, `TestSuccessful`, `TestEnds` | Threads exit while the spawner is still counting. Only the last thread sees `remaining_threads_count` reach 0, and then every other thread is done. Its unlocked check of `test_value` passes, and the test ends. |
| double_free | violation | `DoubleFreeCaught` | A block that its first xfree merged into a preceding free block keeps NULL list pointers while its page stays in the heap. Its second xfree passes the "not previously freed" check (xmalloc.c:220) and lists it inside the other block. The trace: `xmalloc(0)` twice, `xfree` of the first, `xrealloc` of the second (which frees it into the first), then `xfree` of the second again. A block whose page went back to the page allocator is not counted: `free_pages` (not in `src/`) owns what is then read at its header. |

What was confirmed for the violation runs:
- With the count fixed to `i+1` and the reset to `i+1 -> 0`, the multicall run passes.

A divergence with no run of its own:
- `guk_validate` returns `r > 0 && present` (mm.c:495), where `r` is the pfn the walk reached.
- Virtual page 0, which the domain builder maps 1:1 to frame 0, therefore fails `validate` although it is mapped. Spec 4.1 says `validate` succeeds iff the walk reaches a present leaf.
- The function has no caller under `src/`, and a property stating spec 4.1 fails in the initial state. It is recorded as a hazard (mm.c:495) rather than as a run.

For the clock:
- `GetCheck` retries on an odd version, or on a version that changed during the copy. Dropping the second test breaks nothing on the interrupts-disabled paths. A copy that straddles a publication records the older version, so `monotonic_clock`'s next `time_values_up_to_date` refreshes the shadow again.
- The tear of time_torn gets past both checks because the interrupt rewrites `shadow->version` itself.

Each property of a passing run has a mutant in PROJECT.json that TLC catches, for example:
- counting the last thread instead of the first in the spinlock test;
- computing `prod - cons` without the wrap;
- dropping the memset;
- flushing only full batches;
- not writing `free_pfn` back;
- never resetting `i`;
- not clearing a block's list pointers when it is handed out;
- leaving a swallowed block on the list in the merge loop.

## Bounds

The x86_64 geometry is shrunk:
- four levels of four entries, so 256 virtual pages;
- `CALLS = 3` stands for the 1024-entry `call[]`, so that a 6-page range needs two multicall batches.

The boot state:
- 32 frames, with a pfn→mfn table `32 - p` that is not the identity.
- The domain builder's 7 table frames sit at pfn 1 and map pages 0..15.
- `arch_init_mm` therefore maps 16..31, taking node frames linearly from pfn 11 (`+3` reserve included). These are below `start_pfn`, as the code requires.

The requests:
- The stack range 64..69 sits under an empty root slot, so it allocates an L3, an L2 and two L1 nodes. It crosses an L1 boundary and a batch boundary.
- The single calls touch page 12 and page 21. Frame 12 is one of the node frames (11..15) that `arch_init_mm` takes, so a writable remap of page 12 is refused. Frame 21 is a free frame that the stack build may take for a data page.
- `MaxRequests` is 3 or 4, with two threads.

Every PageTable run finishes in seconds.

The console ring:
- `W = 4`-bit indices with a 4-byte ring, starting at 0 or 13, so the indices wrap during a run;
- sends of 1 or 3 bytes, up to `MaxBytes = 6` bytes each way, and one suspend;
- binds that may fail, in the same run as the liveness property. `InputDelivered` therefore allows the running guest to be left unbound.

The clock:
- real time runs over 0..4 (0..3 in time_calls), with two Xen publications;
- two hosts, the second booted two units later with another TSC origin;
- up to two suspensions, at most one migration each. A new host's version counter restarts at 2 or continues.
- time_gtod also blocks until NOW() = 2 or 3, so that `block_domain`'s arming, its early return and the wake all fire in a passing run. No property is checked of them: `NOW()` is not defined under `src/`, and with it taken as `monotonic_clock() + time_addend` the armed timer is line 257 restated. This run has 12.7 million states and takes about a minute.

The torn copy needs one publication before the thread's load and one between its load and the interrupt, so two are enough.

The spinlock test:
- three threads, each going round the again loop once or twice;
- this covers a thread exiting before the spawner has counted the next
  one, and the last thread created being the first to finish. A thread
  can finish before the spawner has even created the last thread, which
  is the case the count's initial 1 is for.

The heap:
- 4-unit pages, where a header is one unit, and two pages;
- requests of 0, 1 and 3 units. These cover a split, an exact fit, a too-small leftover and a whole-page request;
- two threads and `MaxOps = 5` calls, or 6 in double_free. The escaping double free needs a third block to keep its page in the heap, or a realloc that frees into a preceding block.

## Fairness and liveness

`ConsoleRing` assumes weak fairness for these steps:
- `HandleInput`: a bound, pending event channel is delivered;
- `SendFinish`: a started send runs to its end, since the function has no blocking point;
- `RingInit` and `Resume`: the resume path always runs after a suspend;
- `DaemonKick` and `DaemonRead`: the backend answers notifications.

`Xmalloc` checks only safety, so it assumes no fairness.

`SpinlockTest` assumes weak fairness for the spawner and for each thread, because the scheduler runs every runnable thread. A thread waiting for a spinlock is not continuously enabled while others take it in turn, yet weak fairness is enough here. Each holder releases the lock after a bounded spin, and every thread goes round the again loop at most `MaxCycles` times. So eventually the lock stays free for the waiter.

`Time` (in `FairSpec`, run time_calls) assumes weak fairness for two things:
- the thread's steps: the timer handler runs to completion and does not keep the CPU;
- `XenEnd`: Xen finishes an update it began.

For `PageTable`, every call runs to completion or crashes the guest (spec section 5), so once a thread is in a call, weak fairness of its step is justified. No liveness run is checked for it.

## Not modelled

1. **Large pages.** This covers the `_2mb` entry points, PSE entries, the flush that never fires when the range is not a multiple of 2 MB (mm.c:264), and the not11 walk through a PSE entry (mm.c:483).
   - `BuildStep` already handles a large stride.
   - A 2 MB build cannot join the build or all runs, though. Both runs already build a stack on one of two threads, and any two builds in flight at once lose records through the shared `mmu_updates` batch, as twostacks shows.
   - So large pages need a run of their own, which the project does not have. Their two hazards are listed without a property.
2. **TLB.** Write-protect passes flags 0 (mm.c:348). A TLB variable would show stale writable translations against spec 4.4.
3. **Per-level steps in `descend`.** These would expose the check-then-create race on a shared missing node (mm.c:223). The race needs two builds in flight, so like large pages it is hidden behind the shared-batch bug.
4. **An abstract mapping specification** (page → entry), with `PageTable` shown to refine it via INSTANCE ... WITH under the fixed off-by-one. Today the ghost `intent` and `MapsAsIntended` play that role.
5. **fs-back.**
   - `fsif.h` holds only the request and response declarations and the bit masks of the list response.
   - `fs-backend.h` holds two three-line helpers that thread a LIFO of request ids through an array whose slot 0 is the head. Their callers, and whatever lock protects them are not in this repository.
   - A model would be a stack refining an abstract stack with no caller to drive it, so the component is left out.
   - `threaded_memory_test.c` only mallocs, fills, verifies and frees each thread's own objects. Its check is the heap's disjointness, which the heap run already checks for arbitrary callers.
6. **time.c: the scheduler's own use of the timer** that `check_need_resched` re-arms: a thread past its slice eventually gets `need_resched`. That needs sched.c.
7. **Two remaining variants.** Xmalloc with the lock split out, to show what the lock protects. Console output without a bound event channel (the early-console path). Two concurrent `xencons_ring_send` callers (xencons_ring.c:62), whose callers are outside `src/`.
