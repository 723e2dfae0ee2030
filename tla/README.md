# Verification of the cmem memory allocator

TLA+ models of the parts of cmem whose correctness depends on the order of
events: page lists, thread caches, lock-free stacks, arenas that outlive their
threads, boundary tags, trees of pools under locks. Each module is translated from the C source; the file
and line of every definition are in `PROJECT.json` under `map`.

## The system

A `memory_pool_t` serves a request from one of three tiers, by size:

1. **Slab tier** (up to 512 bytes): twelve size classes, 64 KB pages cut into
   slots, three page lists per class (partial, full, empty) under `sc->lock`.
   In front of the pages are a cache per thread, optionally a lock-free stack
   per CPU, and a lock-free queue of slots freed by threads whose cache is full
   (the remote-free queue), announced by a flag of the pool and one of the class.
2. **TLSF tier** (up to 4 MB): regions cut into blocks with boundary tags, a
   two-level index of free blocks under `tpool->lock`, and a cache of freed
   blocks per thread. In child pools of a multi-arena parent each thread has an
   arena of its own that it uses without a lock.
3. **OS tier**: `mmap` and `munmap`.

Around these are the front end (limits, emergency reserve, statistics, active
list), the pool life cycle, maintenance operations (compact, reclaim, purge,
reset), and separate allocators: ring, event log, typed pool, frame arena,
compressed store.

## Inventory

| Part | Source | State and operations | Module |
|---|---|---|---|
| slab page lists | `cmem_slab.c`, `cmem_lifecycle.c`, `cmem_sys.c` | the lists, free counts and temperature marks of a class; alloc, free, compact, reclaim, purge, reset, mark, page reports | `SlabPages`, `SlabStock` |
| slab caches, remote frees | `cmem_slab.c`, `cmem_alloc.c` | caches, queue, two flags, class lock; alloc, batch, free, harvest, flush, reclaim | `SlabClass` |
| per-CPU freelists | `cmem_slab.c`, `cmem_alloc.c` | head, links and count of an entry, the table; pop, push, refill, flush, disable, enable | `PercpuFreelist` |
| thread arenas | `cmem_slab.c`, `cmem_alloc.c` | `live_bytes`, `retired`, `cleanup_claimed`, the address-ordered free list, the mailbox; alloc, free, grow, retire, clean up, destroy | `ArenaLifecycle`, `ArenaLayout` |
| TLSF region | `cmem_tlsf.c`, `cmem_alloc.c` | block headers, cached blocks; alloc, free, grow in place | `TlsfPool` |
| TLSF index | `cmem_tlsf.c` | lists and bitmaps; insert, remove, search | `TlsfIndex`, `TlsfIndexed` |
| TLSF region chain, OS tier | `cmem_tlsf.c`, `cmem_sys.c`, `cmem_alloc.c` | the chain, the block caches, mappings, four counters; search, grow, expand, OS alloc, resize, free | `PoolTiers` |
| front end, accounting | `cmem_alloc.c`, `cmem_config.c`, `cmem_guard.c`, `cmem_diag.c` | limit, reserve, breaker, quota, watermark, peak, active list; alloc, batch, free, realloc, isolate, reset | `PoolFront`, `ActiveList` |
| pool tree, thread binding, frame arena | `cmem.c`, `cmem_lifecycle.c`, `cmem_multi_arena.c`, `cmem_diag.c`, `cmem_alloc.c` | children, locks, binding tables, two frame buffers; create, enable, bind, walk, destroy, frame end | `PoolTree` |
| ring allocator, event log | `cmem_ring_event.c` | head, tail, slot array, entries; alloc, free, record, consume, clear | `MpRing`, `EventLog` |
| compressed store | `cmem_compress.c` | area, entry table, budget, byte count; compress, decompress, free, set budget | `CompressedStore`, `Lz4` |
| typed pool, global pool | `cmem_ring_event.c`, `cmem.c` | an intrusive free list; one pointer | not modelled |
| NUMA, reports, formatting, headers, C++ | `cmem_sys.c`, `cmem_diag.c`, `include/` | I/O and formatting | not modelled |

## Modules

**`SlabStock`** is the abstract promise of the page layer of a class: a number
of free slots per page. A page is mapped only when no page has a free slot, and
only an unused page is unmapped.

**`SlabPages`** implements it with the three intrusive lists. `PushHead` and
`Unlink` are the pointer surgery the source repeats at every call site;
`AllocFromPartial`, `AllocFromEmpty` and `AllocFromNewPage` are the three
sources of a slot; `FreeSlot` is `slab_free` with the transitions
full → partial → empty. `Compact`, `ReclaimIdlePages`, `Reset` and `PurgeLazy`
are the maintenance operations, each one step. Slots are counted. `free_list`
is the length of the chain and is kept apart from `free_count`, because
`mp_purge_lazy` drops the memory the links are in. The source pops the chain
without a NULL test; popping an exhausted one is the end of the program, so
`PopSlot` requires a non-empty chain. `MarkPage` is `mp_mark_page_hot` and
`mp_mark_page_cold`; the reports (`mp_get_hot_page_count`,
`mp_get_cold_page_count`, `mp_separate_hot_cold_pages`, `mp_enumerate_regions`,
`mp_get_idle_page_count`, `mp_freeable`) change nothing and are operators.

**`SlabClass`** follows the single slots through free lists, thread caches,
batches, the remote queue and the callers' hands, with one step per atomic
access or critical section. The lists inside a critical section are those of
`SlabPages`; both modules implement `SlabStock`. **Scope:** the module has no per-CPU
tier. That tier is on by default (`cmem.c:306`, used at `cmem_alloc.c:219` and
`cmem_alloc.c:1297`), and a slot that is freed goes there first. What is
checked and proved of `SlabClass` is therefore about a pool in which it has been
disabled (`mp_set_percpu_freelist(pool, false)`); `PercpuFreelist` is about the
tier by itself, and nothing here composes the two.

**`PercpuFreelist`** is one entry of the per-CPU table: a Treiber stack whose
links are the first word of the slots, and a counter updated by a second access.
`DisableStart`, `FreeTable`, `DropTable` and `Enable` are
`mp_set_percpu_freelist`, which frees the table with no regard to the threads
that have tested the pointer. Three histories are recorded: `raced` (a flush met
another operation), `stale` (a pop installed a link it had read too early) and
`cut` (the table was freed under an operation). After the last two the program's
behaviour is undefined and the model stops.

**`ArenaLifecycle`** is the life of one thread arena: `AllocTake`,
`AllocCount`, `AllocPublish` by the owner; `FreeLock`, `FreePut`,
`FreeUncount`, `FreeCheck` by anyone; `RetireMark`, `RetireCheck` and `Cleanup`
at the end. Memory is sequentially consistent. **`ArenaLayout`** EXTENDS it with
the bytes: every step of the life cycle that takes or returns a block also
splits, merges or reaps it in the address-ordered free list, and `Grow` is the
growth in place of `mp_realloc`. `dropped` records the blocks that lost
`BLOCK_STATE_PREV_FREE` by growing.

**`TlsfPool`** is the physical layout of one region, a function of offsets, in
units of 32 bytes. Any free block that is large enough may serve a request.
**`TlsfIndex`** has the size mapping, the lists and bitmaps and the search, as
operators. **`TlsfIndexed`** composes the two: the index follows every change
of the free blocks, and `tlsf_alloc` takes what the search returns.

**`PoolTiers`** has what lies around a region: the chain that `tlsf_root` heads,
read without the lock and prepended to by `tlsf_alloc` and `mp_expand_pool`; the
block caches; the OS tier with page-granular mappings; and the counters
`total_pool_size` (twice, as in the code), `tlsf_allocated_bytes` and
`os_allocated_bytes`. A region is a number of blocks of one size. The free event
is a step of its own, because the callback runs with the pool's lock held.

**`PoolFront`** gives `mp_alloc` and `mp_alloc_batch` as functions on the pool's
accounting: dirty flag, breaker, limit, emergency reserve, quota, and what the
phases of a batch take from cache, CPU list and pages. **`ActiveList`** EXTENDS it
with the steps of several threads: the doubly linked list of active blocks under
the lock, the counters outside it, the header that moves in a cache-aligned pool,
batches, isolation, in-place `mp_realloc`, `mp_reset`, watermarks. The readers
(`mp_ptr_valid`, `mp_check_leaks`, `mp_analyze_leaks`, snapshots and
`mp_diff_snapshots`) are operators on the list and the counters. `past` records
the races that have happened, and each property names the ones it excludes.

**`PoolTree`** has the pools by address, with addresses reused: `CreateRoot`,
`CreateChild`, `CreateShared`, `EnableCall` and its rounds, `Bind`, `GetBound`,
`Destroy`, `DestroyShared`, and the walks of `mp_reset`, `mp_trim` and
`mp_dump_tree_info` as explicit stacks with the locks each of them holds. The frame
arena is a further usage of the same pools. Two threads share the tree for up to
`MaxCalls` calls; a single thread goes on to `MaxArenaCalls`, long enough to fill its
binding table with three multi-arena pools and to destroy one of them. (Binding to a
fourth, which a full table does not store, is beyond this bound.)

**`MpRing`** is the ring allocator, two steps per call because a call moves a
counter first and reads or writes the array afterwards; one thread makes all the
calls, or two divide them. **`EventLog`** EXTENDS it: `mp_event_log_record` and
`mp_event_log_consume` both take a slot of the ring, and both then touch the entry
and the counter. A caller there consumes only when `mp_event_log_pending` is not zero.

**`Lz4`** is the codec of the compressed store as pure functions on sequences of
bytes. Every field width follows from the largest nibble, 15 in the code and 1
in the run, so that inputs of a few bytes already need length extensions and
offsets of two bytes. **`CompressedStore`** keeps real compressed bytes in the
area. `NoArea`, `CompressRefused`, `CompressNoRoom` and `CompressStored` are the
outcomes of `mp_compress_block`; its eviction loop is `MakeRoom` and its first
fit `Offsets`. `mp_decompress_block` changes nothing in the store and is an
operator, used in the properties. The history variable `issued` says what each
handle was given out for. Generations and sequence numbers wrap at `Wrap`.
`MCStores` checks it side by side with the ring; a behaviour is of one or the other.

## Runs

`MC*` modules add symmetry, or the value of a constant that a configuration
cannot write. Every run is exhaustive within its bounds. A property that the code
keeps only under a condition says so in its statement, by the history variables
above; the run then shows both that it holds under the condition and, the model
being able to leave it, that the condition is not empty.

### Runs that pass

| Run | Bounds | What it shows |
|---|---|---|
| `slab_pages` | 4 pages of 3 slots, one hot page at a time, idle reclaim off | `ListsAgree`: every mapped page is on exactly the list its free count says. `SweepsThorough`: `mp_compact` leaves no unused page on the list it scans, and `mp_reclaim_idle_pages` fewer unused pages than the minimum. `PurgeHarmlessBeforeReset`: chains are as long as their counts until the first `mp_reset`. `PageReports`: the idle count is the number of unused pages; regions are mapped pages, none twice, with every page in use among them; hot and cold pages are as many as the regions. `ImplementsStock`: refinement of `SlabStock`, so only unused pages are released. |
| `slab_class` | 2 threads, 2 pages of 2 slots, cache of 1, refill of 2 | `EachSlotOnce`: no slot is duplicated or lost. `AllocatedIsExact`: the byte counter. `ClassFlagCoversQueue`: no lost wake-up at the class flag. `ImplementsStock`. `LockReleased` (liveness). |
| `percpu` | 2 threads that both pop, push, refill, flush and switch the table, 4 slots, batch of 2 | `OnlyStaleLinksBreakIt`: the stack is a proper list, no slot is in two places, and the counter is exact when quiet, until `stale` or `cut`. |
| `arena` | owner and 2 threads, a region of 9 units, requests 2, 3, 4, no fast path | `ReleaseSafe`: the region is released once, by a sole mutator, with no live block. `ArenaValid`: `tlsf_arena_validate` but for the flags in `dropped`, and the assertion of the cleanup. `LiveSpansExact`: `live_bytes` to the byte, with growth. `RetiredIsReleased` (liveness). |
| `tlsf` | 1 thread, region of 11 units, requests 2, 3, 5, 7, cache of 2 | `Tiling`: blocks cover the region and each is in one place. `SearchIsGoodFit`: bitmaps match lists, and the search meets its reference definition for every size. `CoalescedUntilCacheReturns`: boundary tags are truthful, and no two free blocks touch until a cached one comes back. `BlockKeepsItsSpace`. |
| `pool_tiers` | 2 threads, 3 regions of 1 or 2 blocks, cache of 1, 2 OS blocks, 5 calls | `TierAccounts`: no region or block is lost, `tlsf_allocated_bytes` is exact while no free went to a cache, and the totals and the OS tier's bytes and pages while no OS block was resized. `RefusedForAReason`: `tlsf_alloc` grows or gives up only when nothing was free or it was overtaken. `EveryCallReturns` (liveness), unless a callback re-enters. |
| `stores` | 2 entries, slots of 4 bytes, budgets 0, 10, 20 (default), 36, 4 payloads, 5 blocks, counters modulo 4; a ring of capacity 3 (rounded to 4), 12 calls | `StoreSound`: a live handle decompresses to exactly its data, and the byte count is right. `HandlesSound`: handles of blocks that are gone are rejected, also around the wrap of the generation, and 0 is no handle. `EvictionInOrder`: which blocks go under the budget, and that no more go than must. `CodecRoundTrip` on all binary inputs of up to 13 bytes. `RingSound`: no slot is with two callers and the counters are exact, for two threads until a call has been refused. |
| `pool_front` | 2 threads, 2 slots, an OS block and the reserve, sizes 1 and 6, limit 7, batches of 2, 5 calls | `BatchMatchesSingles`: a batch decides as single calls would, for every pool of a small domain. `ListIsLive`: the active list holds exactly the live blocks. `AuditsAgree`: `mp_ptr_valid`, `mp_check_leaks`, `mp_analyze_leaks`, a snapshot and the difference of snapshots agree with it, with and without a compressed store, within the limit on records. `LimitHolds`: limit and reserve. `DerivedFromActive`: peak and watermark. |
| `pool_tree` | 2 threads, 4 addresses, 2 arenas, tables of 3, 4 calls, 7 by a thread alone | `BindingsCurrent`: a thread's table names live arenas of live pools, each pool once. `NoPoolLost`: every live child is on its parent's list. `WalksVisitTheTree`: a walk misses no pool. `FrameStartsClean`: a frame begins with an empty pool and keeps what it allocates; nothing is kept past the end of the next frame. `EveryCallReturns` (liveness). |

Why the bounds are enough. Four pages let a page be first, in the middle and
last of a list while another list is non-empty; three slots separate partial
from full and from empty. Two threads with a cache of one meet every path of
the class: cache hit, full cache, remote push, harvest, short and complete
refill; the safety properties that need more threads are proved for any
number. Four slots on a per-CPU entry leave room for a complete refill beside a
slot in flight. An arena of nine units holds four blocks, so a growth meets a free
successor, an exact fit and a split. A region of eleven units holds five blocks, so
that merges with both neighbours happen, and request 7 rounds up into the next
first-level class. Three regions give a chain that is read at one head and walked
from another. Twelve calls take the ring round three times. Five blocks use one
entry of the compressed store often enough for its generation to wrap; with two
entries the table fills before the budget of 36, and the area (whose size is the first
budget) and the smaller budgets fill before the table, so that a store evicts nothing,
one block or two. Limit 7
admits one large block and a small one, not two large ones, so two callers can pass
the test together. Four pools are a root, two arenas of it and one more, or a chain
of three; four calls suffice for create, enable, bind and destroy with reuse of an
address, and seven for a table of three with the purge of one entry among others.

`arena`, `stores`, `pool_tiers` and `pool_tree` do not check deadlock: a destroyed
arena and the bounds on calls leave nothing to do. Blocked threads are found by the
liveness properties instead (ring and compressed store have no lock).

### Runs that show a disagreement

Each checks one property that a comment or document states and the code does
not keep; `findings` in `PROJECT.json` quotes the line.

| Run | What happens |
|---|---|
| `slab_pages_idle` | With idle reclaim on, `idle_since_ts` survives the reuse of a page, and a page in use is unmapped. |
| `tlsf_race` | A cached block is flagged free before `tpool->lock` is taken; another thread merges it, and it is then listed inside a larger free block. |
| `event_log` | After a record that returned true, with one event pending, `mp_event_log_consume` takes the next slot of the ring and returns true with an entry nobody wrote. |

### Disagreements outside the properties

What the code does against its own comments and documents, beside the three runs
above. No property requires it: each either excludes the case by a history variable
or a condition in its statement, which can be dropped to get the counterexample, or
claims less than the sentence quoted.

- `SlabClass`, `SpecReset`: `mp_reset` rebuilds the free lists and leaves the
  remote queue as it is; `NoSlotTwice` fails.
- `PercpuFreelist`, `stale` and `cut`: ABA in `percpu_pop`; the table is freed under
  its users.
- `ArenaLifecycle` with `FastPath = TRUE`: the owner takes a block between a freer's
  last decrement and its test of `retired`; `ReleaseSafe` fails.
- `ArenaLayout`, `dropped`: `mp_realloc` assigns `size_and_flags` whole
  (`cmem_alloc.c:1493`), and `assert(tlsf_arena_validate(arena))` can fail after it.
- `SlabPages`, `Compact`: `mp_compact` scans the partial list, where before the first
  reset no page is unused, and returns nothing of the empty list. The header
  (`cmem.h:800`), `docs/en/architecture.md:565` and `docs/en/api-reference.md:572`
  have it return the fully free pages.
- `SlabPages`, the reports: `mp_freeable` "Counts only pages whose every slot is free"
  (`cmem_config.c:212`) and looks at the partial list only; "Cold pages are the
  hot-count subtracted from the total page count" (`cmem_slab.c:1840`) leaves out the
  empty pages. `mp_enumerate_regions` does not name them either.
- `MpRing`: "NULL if ring is full" (`cmem_ring.h:50`). A refused call has moved the head
  all the same, so a later call can be refused although slots are free, and with a
  producer and a consumer a slot can then be given out twice.
- `PoolTiers`: "Stats already updated in tlsf_free; skip it." (`cmem_alloc.c:1395`)
  is not so, and `tlsf_allocated_bytes`, the "Payload bytes in medium-object TLSF
  allocator" (`cmem.h:242`), grows by a block per cached free; blocks are "unmapped with their full
  original size" (`cmem_sys.c:446`), where `mp_free` passes the payload's size
  (`cmem_alloc.c:1401`); two totals, of which `mp_get_stats` overwrites one.
- `PoolTiers`, `EveryCallReturns`: an event callback that calls into its pool waits
  for the lock its own thread holds.
- `PoolFront`: a batch in the OS tier goes on after the breaker has tripped; a pool
  that is not thread-safe overstates its peak (`cmem_alloc.c:435`).
- `ActiveList`: `mp_diff_snapshots` counts blocks "present in snapshot B but not in
  snapshot A" (`cmem_snapshot.h:43`), and beyond its limit on records it compares
  nothing and reports every block of B. `mp_reset` leaves `compressed_area` set, so
  `mp_check_leaks` afterwards expects a block that is gone.
- `CompressedStore`: `CHANGELOG.md:78` calls the eviction LRU; the code evicts the
  oldest block, and decompressing one does not make it younger.
- `PoolTree`, `child_first`: `mp_destroy` of a child leaves it on its parent's list;
  `orphaned`: `mp_destroy_shared` leaves children and bindings behind.
- `PoolTree`, `FrameEnd`: the pool that is reset is the one the next frame will use, and
  the frame that ended keeps its blocks until the next end. "Afterwards the previous
  frame's allocations are automatically reclaimed" (`cmem_alloc.c:1988`) is true of the
  frame before the one that ended, and nothing runs "in the background"
  (`cmem_frame.h:24`): the reset is part of the call.

### Fairness

Every fair specification is weak fairness, per thread, of the steps of an operation
under way (`FairSpec` of `SlabClass`, `Spec` of `PoolTiers` and `PoolTree`, `LSpec` of
`ArenaLayout`): a thread inside a library call keeps running. No fairness is assumed
of calls: nobody has to allocate or free. Mutexes are not assumed to be fair. The
properties need no more than that the holder of a lock runs; `RetiredIsReleased` is
about an arena whose blocks have been freed, and the two `EveryCallReturns` about runs
with finitely many calls, in which no thread can be overtaken forever.

## Proofs

TLAPS proves the following for every value of the constants, from the named
assumptions on them (`SlabClassAssumption`, `PercpuAssumption`, ...), which TLC
evaluates in the runs.

**`SlabClassProofs`** (a pool without the per-CPU tier, see above):
- `TypeCorrect`: `Spec => []TypeOK`.
- `SlotsSafe`: `Spec => []EachSlotOnce`, no slot is in two places and none is lost.
- `ClassLockHeld`: the class lock is held exactly by the thread in a critical section.
- `ClassFlagSafe`: a quiet non-empty remote queue is announced by the class flag.
- `ClassImplementsStock`: `Spec => ImplementsStock`. Every step leaves the free lists
  alone or is one step of `SlabStock` (`StepIsStockStep`). That a slot given back was
  not on a free list, and is within its page's size, is `SlotInv`; that a flush gives
  one slot at a time is the added invariant `FlushesOne`.
- `CountExact`: `Spec => []AllocatedIsExact`. The subtraction of the source saturates
  at zero, so the theorem is that it never does. `CountInv` says why: what the lock's
  holder has taken and not counted is in its own cache or batch (`GotBounded`), each
  flushing thread holds one slot and no two the same (`FlushCount`), and what else is
  out is counted (`Exact`). A slot that leaves another thread's cache is therefore
  among the counted ones (`CachedIsCounted`).

`NoSlotTwice` is not inductive: that the slots of a newly mapped page are
nowhere else follows only from `SlotsConserved`, that an unmapped page leaves no
slot behind only from `NoSlotTwice`, and that a harvest or batch overwrites no
earlier chain from a third fact, `HoldsOnlyInside` (a thread holds slots only
inside an operation). The three are proved together over the type invariant.
`MutexHeld` and `ClassFlagCoversQueue` are inductive relative to the types.

**`SlabPagesProofs`**, on the lemmas of **`PageListProofs`** about the list surgery:
- `ListsSound`: `Spec => []ListsAgree`; `PurgeSafe`: `Spec => []PurgeHarmlessBeforeReset`;
  `SweepsSound`: `Spec => []SweepsThorough`; `ReportsSound`: `Spec => []PageReports`.
- `PagesImplementStock` and `OnlyUnusedReleased`, with idle reclaim off: the page lists
  implement `SlabStock`, and only unused pages are unmapped.

The inductive invariant `IInv`: the three lists are linked forward and back and
disjoint (`Chains`), they hold the pages whose free counts call for them,
`empty_page_count` is exact, and until the first `mp_reset` a page with all slots free
is on the empty list. `ListsAgree` speaks of walks along the links and not of sets;
the lemmas say what a walk returns after a page is pushed or unlinked.
The walks are recursive functions, and what one returns is shown without an induction
scheme: a function with the wanted values satisfies the recursive equation, and two
that satisfy it are equal. The inductions are over a set of naturals (`SetInduction`).

**`PercpuFreelistProofs`**, on the lemmas of **`PercpuStackProofs`** about the stack:
- `StackSound`: `Spec => []OnlyStaleLinksBreakIt`.
- `OnePopperNeverStale`: when one thread allocates from an entry and others free into it
  and flush it, `stale` stays false: a slot leaves the stack and returns to it only
  through that thread, so the link it has read cannot change under it.

**`TlsfPoolProofs`**:
- `RegionSound`: the headers tile the region, each block is in one place and the
  boundary tags are truthful, in every behaviour in which no block is merged while it is
  on its way back from a cache (`ReturnsUndisturbed`; the run `tlsf_race` shows that the
  condition is needed). `CallersKeepTheirSpace`: `BlockKeepsItsSpace` likewise.
- `OneThreadSound`: with one thread the condition is met by the code itself.

`Tiling` speaks of the blocks met by a walk from offset 0. The invariant speaks of the
offsets that hold a header (`Starts`), so that a split or a merge is followed header by
header, and `BlocksAreStarts` carries it over.

**`TlsfIndexedProofs`**, on the same condition:
- `SearchFindsGoodFit` and `FreeBlocksCoalesce`: `SearchIsGoodFit` and
  `CoalescedUntilCacheReturns`.
- `IndexImplementsPool`: `tlsf_alloc`, which takes what the search returns without
  looking at its size, takes only free blocks of sufficient size, so that the region with its index
  implements `TlsfPool`.
- `OneThreadIndexed`: with one thread, all three without a condition.

The invariant adds to that of the region that each free block is on exactly the list
its size maps to, and that the bits of a list are set exactly when it is not empty.

**`ArenaLifecycleProofs`**, from `ArenaAssumption`:
- `ArenaSafe`: when `FastPath = FALSE`, `Spec => []ReleaseSafe`: no region is released under a block in
  use, the cleaner is alone, and the region is released at most once.

The inductive invariant `ArenaInv` adds to the types: who can be at which step
and with which block (`Discipline`); the counter is exact (`CountExact`); while
the thread that brought it to zero holds the lock nobody has been handed a block
(`LastKnows`); and a claim implies that every block is free (`ClaimMeans`).
`LastKnows` is where the pool's lock matters, and what the fast path loses.

Only model-checked: the liveness properties, which are out of the prover's reach under
fairness; `ArenaLayout` (`ArenaValid`, `LiveSpansExact`); the ring and the event log;
the compressed store with its codec, `PoolFront`, `ActiveList`, `PoolTiers` and
`PoolTree`, which use RECURSIVE operators.

## Not modelled

- Memory ordering weaker than sequential consistency. `tlsf_arena_retire`
  stores `retired` and then loads `live_bytes`; with store buffers the owner and
  the last freer could each miss the other's write.
- A walk of `mp_compact`, `mp_reclaim_idle_pages` or `mp_reset` interleaved with
  `slab_free`: the walks hold the pool's lock, not `sc->lock`, so the interleaving is
  a data race on the links; they are single steps here.
- An `mmap` that fails in the drain of a refill and succeeds in the fallback of
  the same call; the fallback does not link its page on a list.
- The pool-wide pending flag as a guarantee: it may be clear while the queue is
  not empty; only the class flag is claimed to cover the queue.
- More than two threads on the ring, and blocks given back to it out of order.
- Blocks of 1 GB and more, whose first-level index is past the last list.
- Over-aligned requests, huge pages, custom system allocators, NUMA placement, and
  `mp_reparse_env_flags` between an allocation and its free, which may change the way
  an OS block is released.
- `mp_reset` of the regions of a chain, and pools that are not thread-safe in
  `PoolTiers`.
- Concurrent calls on the compressed store: the code takes no lock there. The
  release of the caller's buffer and the copies `mp_decompress_block` allocates
  are the allocator's business, and so is the memory of the area. That evictions are
  kept when a store then fails, and that a budget of 0 set before the area exists is
  replaced by the default, is in the model and in no property.
- The per-CPU tier together with the caches and queues of a class.
- `mp_get_global_pool`: a test and an assignment without a lock (`cmem.c:758-769`). Two
  first calls can each create a pool and return different ones, where the header says
  "Subsequent calls return the same pool instance." (`cmem.h:433`).
- The typed object pool: a sequential stack, whose only hazard is a caller that
  frees twice.
- Latency histograms, size advice and fragmentation scores: floating point and
  sampling. Reports, dumps, snapshots files and the C++ bindings: formatting and I/O.

## Plan

1. `SlabMaintenance`: the walks step by step, against `slab_free`.
2. `mp_reset` and `mp_get_stats` across all tiers at once.
3. `PercpuFreelist` composed with `SlabClass`, as in a pool with default settings.
4. Proofs: `RingSound` for every capacity; `ArenaValid` for every region size.
