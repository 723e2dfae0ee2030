------------------------------- MODULE PoolTiers -------------------------------
(***************************************************************************)
(* The two tiers behind the slabs: the chain of TLSF regions of a pool     *)
(* (cmem_tlsf.c, mp_expand_pool) with the threads' block caches in front   *)
(* of it, and the OS tier (cmem_sys.c); with the counters the two keep     *)
(* under total_pool_size, tlsf_allocated_bytes and os_allocated_bytes.     *)
(*                                                                         *)
(* TLSF requests have one size, the unit the TLSF side counts in, and a    *)
(* region is the number of such blocks it can hold: TlsfPool models its    *)
(* inside.  What runs under one lock without calling out is one step; the  *)
(* free event is delivered with the pool lock held, so it is a step of its *)
(* own.  The pool is MP_FLAG_THREAD_SAFE, without MP_FLAG_FAST_PATH.       *)
(***************************************************************************)
EXTENDS Integers, Sequences, FiniteSets, FiniteSetsExt, SequencesExt

CONSTANTS
  Threads, NoThread,
  MaxRegions,   \* bound: regions the OS grants
  InitCap,      \* blocks in the region of a pool that starts with one
  GrowCap,      \* blocks in the region tlsf_alloc adds
  ExpandCap,    \* blocks in the region mp_expand_pool adds
  RegionHdr,    \* sizeof(tlsf_pool_t)
  CacheMax,     \* TLSF_CACHE_MAX_SLOTS
  OsSizes,      \* sizes asked of the OS tier
  Header,       \* sizeof(mp_block_header_t), the canary included
  Page,         \* the page size
  MaxOs,        \* bound: blocks the OS tier hands out
  MaxCalls      \* bound: calls of the API

ASSUME PoolTiersAssumption ==
  /\ NoThread \notin Threads
  /\ {MaxRegions, InitCap, GrowCap, ExpandCap, RegionHdr, CacheMax, MaxOs, MaxCalls} \subseteq Nat
  /\ MaxRegions > 0 /\ GrowCap > 0
  /\ Header \in Nat \ {0} /\ Page \in Nat \ {0} /\ OsSizes \subseteq Nat \ {0}

VARIABLES
  setup,        \* how the pool was made: [static, callback, mapped]
  chain,        \* [root: tlsf_root; next, cap, free: by region, in order of creation]
  held,         \* region -> how many of its blocks callers hold
  cache,        \* thread -> the regions of the blocks in its cache, oldest first
  holder,       \* of pool_lock
  pc, at,       \* thread -> where it is, and the region it has come to
  overtaken,    \* the threads whose search another thread's step has outdated
  total,        \* pool->total_pool_size
  stats_total,  \* pool->stats.total_pool_size
  tlsf_bytes,   \* pool->tlsf_allocated_bytes
  stashed,      \* history: how often a free went to a cache
  os,           \* the OS blocks made so far: [size, usable, held, pages]
  os_bytes,     \* pool->os_allocated_bytes
  calls, past

search == <<pc, at, overtaken>>
counters == <<total, stats_total, tlsf_bytes, os_bytes>>
vars == <<setup, chain, held, cache, holder, search, counters, stashed, os, calls, past>>

NULL == 0
Regions == 1..MaxRegions
Made == DOMAIN chain.cap
RegionBytes(cap) == cap + RegionHdr

(* tlsf_create_pool_custom: a region that its creator is yet to link.      *)
NewRegion(c, cap) ==
  [c EXCEPT !.next = Append(@, NULL), !.cap = Append(@, cap), !.free = Append(@, cap)]

Link(c, r) == [c EXCEPT !.next[r] = c.root, !.root = r]

NoRegions == [root |-> NULL, next |-> <<>>, cap |-> <<>>, free |-> <<>>]
OneRegion == Link(NewRegion(NoRegions, InitCap), 1)

(* mp_create_custom_impl with and without an initial capacity, which goes  *)
(* to the other of the two totals; mp_create_from_buffer.                  *)
Init ==
  /\ setup \in [static : BOOLEAN, callback : {"none", "plain", "reenters"}, mapped : BOOLEAN]
  /\ \/ chain = NoRegions /\ ~setup.static /\ total = 0 /\ stats_total = 0
     \/ chain = OneRegion /\ ~setup.static /\ total = 0 /\ stats_total = RegionBytes(InitCap)
     \/ chain = OneRegion /\ setup.static /\ total = RegionBytes(InitCap) /\ stats_total = 0
  /\ held = [r \in Regions |-> 0]
  /\ cache = [t \in Threads |-> <<>>]
  /\ holder = NoThread
  /\ pc = [t \in Threads |-> "idle"] /\ at = [t \in Threads |-> NULL]
  /\ overtaken = {}
  /\ tlsf_bytes = 0 /\ os_bytes = 0 /\ stashed = 0
  /\ os = <<>> /\ calls = 0 /\ past = {}

(* After a re-entered lock the behaviour is undefined.                     *)
Begin(t) ==
  /\ past = {} /\ pc[t] = "idle" /\ calls < MaxCalls
  /\ calls' = calls + 1

Goto(t, label, r) ==
  /\ pc' = [pc EXCEPT ![t] = label]
  /\ at' = [at EXCEPT ![t] = r]

(* Blocks come back, or a region is added, while others are searching.     *)
Outdate(t) == overtaken' = overtaken \cup {u \in Threads \ {t} : pc[u] # "idle"}

Granted == Len(chain.cap) < MaxRegions

-----------------------------------------------------------------------------
(* mp_alloc, TLSF tier                                                     *)

(* The thread's cache has a block of the size: no lock.                    *)
CacheHit(t) ==
  /\ Begin(t) /\ cache[t] # <<>>
  /\ held' = [held EXCEPT ![Last(cache[t])] = @ + 1]
  /\ cache' = [cache EXCEPT ![t] = Front(@)]
  /\ tlsf_bytes' = tlsf_bytes + 1
  /\ UNCHANGED <<setup, chain, holder, search, total, stats_total, os_bytes, stashed, os, past>>

(* tlsf_alloc reads tlsf_root without a lock.                              *)
AllocCall(t) ==
  /\ Begin(t) /\ cache[t] = <<>>
  /\ Goto(t, IF chain.root = NULL THEN "first" ELSE "walk", chain.root)
  /\ overtaken' = overtaken \ {t}
  /\ UNCHANGED <<setup, chain, held, cache, holder, counters, stashed, os, past>>

(* ... and looks again under pool_lock before it creates the first region. *)
RootMissingMutant == TRUE
RootMissing == chain.root = NULL

HolderOnFailureMutant(t) == t
HolderOnFailure(t) == NoThread

FirstRegion(t) ==
  /\ past = {} /\ pc[t] = "first" /\ holder = NoThread
  /\ \/ /\ RootMissing /\ Granted
        /\ chain' = [NewRegion(chain, InitCap) EXCEPT !.root = Len(chain.cap) + 1]
        /\ total' = total + RegionBytes(InitCap)
        /\ Goto(t, "walk", chain'.root)
        /\ Outdate(t)
        /\ UNCHANGED holder
     \/ /\ RootMissing
        /\ Goto(t, "idle", NULL)
        /\ holder' = HolderOnFailure(t)
        /\ UNCHANGED <<chain, total, overtaken>>
     \/ /\ ~RootMissing
        /\ Goto(t, "walk", chain.root)
        /\ UNCHANGED <<chain, total, overtaken, holder>>
  /\ UNCHANGED <<setup, held, cache, stats_total, tlsf_bytes, os_bytes, stashed, os, calls, past>>

(* One region, under its lock.                                             *)
Take(t, r) ==
  /\ chain.free[r] > 0
  /\ chain' = [chain EXCEPT !.free[r] = @ - 1]
  /\ Goto(t, "stamp", r)

NextRegionMutant(r) == NULL
NextRegion(r) == chain.next[r]

(* The end of the chain: a static pool gives up.                           *)
AfterChain == IF setup.static THEN "idle" ELSE "grow"

Walk(t) ==
  /\ past = {} /\ pc[t] = "walk"
  /\ \/ Take(t, at[t])
     \/ /\ chain.free[at[t]] = 0
        /\ Goto(t, IF NextRegion(at[t]) = NULL THEN AfterChain ELSE "walk", NextRegion(at[t]))
        /\ UNCHANGED chain
  /\ UNCHANGED <<setup, held, cache, holder, overtaken, counters, stashed, os, calls, past>>

(* sys_mem_alloc for a new region, before pool_lock; it may fail.          *)
Grow(t) ==
  /\ past = {} /\ pc[t] = "grow"
  /\ \/ /\ Granted
        /\ chain' = NewRegion(chain, GrowCap)
        /\ Goto(t, "link", Len(chain.cap) + 1)
     \/ Goto(t, "idle", NULL) /\ UNCHANGED chain
  /\ UNCHANGED <<setup, held, cache, holder, overtaken, counters, stashed, os, calls, past>>

(* The new region is published ...                                         *)
LinkNew(t) ==
  /\ past = {} /\ pc[t] = "link" /\ holder = NoThread
  /\ chain' = Link(chain, at[t])
  /\ total' = total + RegionBytes(GrowCap)
  /\ Goto(t, "take", at[t])
  /\ Outdate(t)
  /\ UNCHANGED <<setup, held, cache, holder, stats_total, tlsf_bytes, os_bytes, stashed, os,
                 calls, past>>

(* ... before its creator takes a block of it.                             *)
TakeNew(t) ==
  /\ past = {} /\ pc[t] = "take"
  /\ \/ Take(t, at[t])
     \/ chain.free[at[t]] = 0 /\ Goto(t, "idle", NULL) /\ UNCHANGED chain
  /\ UNCHANGED <<setup, held, cache, holder, overtaken, counters, stashed, os, calls, past>>

(* The header and the counter, with no lock.                               *)
Stamp(t) ==
  /\ past = {} /\ pc[t] = "stamp"
  /\ tlsf_bytes' = tlsf_bytes + 1
  /\ held' = [held EXCEPT ![at[t]] = @ + 1]
  /\ Goto(t, "idle", NULL)
  /\ UNCHANGED <<setup, chain, cache, holder, overtaken, total, stats_total, os_bytes, stashed,
                 os, calls, past>>

-----------------------------------------------------------------------------
(* mp_free: the event callback runs before pool_unlock.                    *)
Unlocked(t) ==
  IF setup.callback = "none"
  THEN holder' = NoThread /\ UNCHANGED <<pc, at>>
  ELSE holder' = t /\ Goto(t, "callback", NULL)

CacheHasRoom(t) == Len(cache[t]) < CacheMax

(* tlsf_free takes the size off the counter; the cache path does not.      *)
FreeTlsf(t, r) ==
  /\ Begin(t) /\ holder = NoThread /\ held[r] > 0
  /\ held' = [held EXCEPT ![r] = @ - 1]
  /\ \/ /\ CacheHasRoom(t)
        /\ cache' = [cache EXCEPT ![t] = Append(@, r)]
        /\ stashed' = stashed + 1
        /\ UNCHANGED <<chain, tlsf_bytes, overtaken>>
     \/ /\ ~CacheHasRoom(t)
        /\ tlsf_bytes' = tlsf_bytes - 1
        /\ chain' = [chain EXCEPT !.free[r] = @ + 1]
        /\ Outdate(t)
        /\ UNCHANGED <<cache, stashed>>
  /\ Unlocked(t)
  /\ UNCHANGED <<setup, total, stats_total, os_bytes, os, past>>

(* The callback returns, or calls into the pool it was called from.        *)
Callback(t) ==
  /\ past = {} /\ pc[t] = "callback"
  /\ \/ holder' = NoThread /\ Goto(t, "idle", NULL) /\ UNCHANGED past
     \/ setup.callback = "reenters" /\ past' = {"reentered"} /\ UNCHANGED <<holder, pc, at>>
  /\ UNCHANGED <<setup, chain, held, cache, overtaken, counters, stashed, os, calls>>

(* tls_cache_validate_owner when the thread turns to another pool, and     *)
(* mp_realloc: the cached blocks go back to their regions.                 *)
FlushCache(t) ==
  /\ Begin(t) /\ cache[t] # <<>>
  /\ chain' = [chain EXCEPT !.free =
                 [r \in Made |-> @[r] + Cardinality({i \in DOMAIN cache[t] : cache[t][i] = r})]]
  /\ cache' = [cache EXCEPT ![t] = <<>>]
  /\ Outdate(t)
  /\ UNCHANGED <<setup, held, holder, pc, at, counters, stashed, os, past>>

(* mp_expand_pool                                                          *)
ExpandPool(t) ==
  /\ Begin(t) /\ ~setup.static /\ holder = NoThread /\ Granted
  /\ chain' = Link(NewRegion(chain, ExpandCap), Len(chain.cap) + 1)
  /\ stats_total' = stats_total + RegionBytes(ExpandCap)
  /\ Outdate(t)
  /\ UNCHANGED <<setup, held, cache, holder, pc, at, total, tlsf_bytes, os_bytes, stashed, os, past>>

-----------------------------------------------------------------------------
(* The OS tier                                                             *)

Pages(n) == (n + Page - 1) \div Page

(* sys_mem_alloc: a mapping in whole pages (MP_FLAG_HUGE_PAGES without     *)
(* huge pages, or MP_FLAG_GUARD_PAGES, whose two guard pages come and go   *)
(* with it), or malloc.                                                    *)
MappedPages(n) == IF setup.mapped THEN Pages(n) ELSE 0

(* The payload and the header.                                             *)
AllocOs(t, size) ==
  /\ Begin(t) /\ ~setup.static /\ Len(os) < MaxOs
  /\ os' = Append(os, [size |-> size, usable |-> size, held |-> TRUE,
                       pages |-> MappedPages(size + Header)])
  /\ os_bytes' = os_bytes + size
  /\ total' = total + size + Header
  /\ UNCHANGED <<setup, chain, held, cache, holder, search, stats_total, tlsf_bytes, stashed, past>>

(* mp_realloc to a size that fits: only requested_size changes.            *)
ResizeOs(t, b, size) ==
  /\ Begin(t) /\ os[b].held /\ size <= os[b].usable /\ size # os[b].size
  /\ os' = [os EXCEPT ![b].size = size]
  /\ UNCHANGED <<setup, chain, held, cache, holder, search, counters, stashed, past>>

(* sys_mem_free: the pages of the size it is told.                         *)
UnmappedPages(n) == IF setup.mapped THEN Pages(n) ELSE 0

(* It is told requested_size, without the header.                          *)
FreeOs(t, b) ==
  /\ Begin(t) /\ os[b].held /\ holder = NoThread
  /\ os' = [os EXCEPT ![b].held = FALSE,
                      ![b].pages = @ - UnmappedPages(os[b].size)]
  /\ os_bytes' = os_bytes - os[b].size
  /\ total' = total - (os[b].size + Header)
  /\ Unlocked(t)
  /\ UNCHANGED <<setup, chain, held, cache, overtaken, stats_total, tlsf_bytes, stashed, past>>

-----------------------------------------------------------------------------
Step(t) ==
  \/ FirstRegion(t) \/ Walk(t) \/ Grow(t) \/ LinkNew(t) \/ TakeNew(t) \/ Stamp(t)
  \/ Callback(t)

Next ==
  \E t \in Threads :
    \/ Step(t) \/ CacheHit(t) \/ AllocCall(t) \/ FlushCache(t) \/ ExpandPool(t)
    \/ \E r \in Regions : FreeTlsf(t, r)
    \/ \E size \in OsSizes : AllocOs(t, size)
    \/ \E b \in DOMAIN os : FreeOs(t, b)
    \/ \E b \in DOMAIN os, size \in OsSizes : ResizeOs(t, b, size)

(* A thread inside a call keeps running; locks are waited for.             *)
Spec == Init /\ [][Next]_vars /\ \A t \in Threads : WF_vars(Step(t))

-----------------------------------------------------------------------------
(* Properties                                                              *)

RECURSIVE From(_)
From(r) == IF r = NULL THEN {} ELSE {r} \cup From(chain.next[r])
Chain == From(chain.root)

(* The blocks of r in the threads' caches and on their way to a caller.    *)
Cached(r) ==
  Cardinality({x \in Threads \X (1..CacheMax) :
                 x[2] <= Len(cache[x[1]]) /\ cache[x[1]][x[2]] = r})
OnTheWay(r) == Cardinality({t \in Threads : pc[t] = "stamp" /\ at[t] = r})

(* No OS block has been resized by mp_realloc.                             *)
Unresized == \A b \in DOMAIN os : os[b].size = os[b].usable

HeldOs == {b \in DOMAIN os : os[b].held}

(* The counters agree with the memory they are about, however the unlocked *)
(* reads of tlsf_root interleave with growth: no region is lost from the   *)
(* chain and no block of a region is lost or counted twice; the two totals *)
(* add up to what the pool obtained, os_allocated_bytes is what callers    *)
(* hold of the OS tier, and it never unmaps more pages than it mapped,     *)
(* while mp_realloc has resized no OS block; tlsf_allocated_bytes is what  *)
(* callers hold of the regions while no free went to a thread's cache.     *)
TierAccounts ==
  /\ Made = Chain \cup {at[t] : t \in {u \in Threads : pc[u] = "link"}}
  /\ \A r \in Made : chain.cap[r] = chain.free[r] + held[r] + Cached(r) + OnTheWay(r)
  /\ stashed = 0 => tlsf_bytes = MapThenSumSet(LAMBDA r : held[r], Regions)
  /\ Unresized =>
       /\ total + stats_total
            = MapThenSumSet(LAMBDA r : RegionBytes(chain.cap[r]), Chain)
              + MapThenSumSet(LAMBDA b : os[b].size + Header, HeldOs)
       /\ os_bytes = MapThenSumSet(LAMBDA b : os[b].size, HeldOs)
       /\ \A b \in DOMAIN os : os[b].pages >= 0

(* tlsf_alloc gives up, or grows the pool, only when no region of the      *)
(* chain has a block for it, or when blocks came back or a region was      *)
(* added while it searched: its walk holds one region's lock at a time,    *)
(* and its own new region is open to others before it takes its block.     *)
RefusedForAReason ==
  [][\A t \in Threads :
       pc[t] \in {"walk", "take"} /\ pc'[t] \in {"grow", "idle"}
         => t \in overtaken \/ \A r \in Chain : chain.free[r] = 0]_vars

(* Every call returns, the paths on which the system refuses memory        *)
(* included, unless a free-event callback called back into the pool whose  *)
(* lock mp_free was holding for it.                                        *)
EveryCallReturns ==
  \A t \in Threads : pc[t] # "idle" ~> (pc[t] = "idle" \/ "reentered" \in past)

=============================================================================
