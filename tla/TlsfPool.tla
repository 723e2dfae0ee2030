------------------------------- MODULE TlsfPool -------------------------------
(***************************************************************************)
(* The physical layout of one tlsf_pool_t (src/src/cmem_tlsf.c): a region  *)
(* cut into blocks by their headers, with boundary flags for coalescing,   *)
(* and the per-thread cache of freed blocks in front of it                 *)
(* (cmem_alloc.c, tls_cache.tlsf_slots).                                   *)
(*                                                                         *)
(* An offset stands for the header written there; what is left of the      *)
(* header of a block that was merged away is not kept.  One unit is        *)
(* TLSF_MIN_BLOCK_SIZE = sizeof(tlsf_block_t) = 32 bytes.  The free lists  *)
(* are the set of the blocks on them: which of the blocks that are large   *)
(* enough the two-level index returns is a choice (TlsfIndexed makes it).  *)
(* What runs under tpool->lock is one step; the cache returns a block in   *)
(* two, because it sets BLOCK_STATE_FREE before it takes the lock.  A      *)
(* request that finds nothing goes on to another region.                   *)
(***************************************************************************)
EXTENDS Integers, FiniteSets

CONSTANTS
  Threads,
  RegionSize,   \* raw_size - sizeof(tlsf_block_t): the offset of the sentinel
  Requests,     \* total_needed of the requests
  SplitMin,     \* TLSF_MIN_BLOCK_SIZE + sizeof(tlsf_block_t)
  Cacheable,    \* block sizes the cache has a bucket for (fl 6 to 13)
  CacheMax      \* TLSF_CACHE_MAX_SLOTS

ASSUME TlsfPoolAssumption ==
  /\ RegionSize \in Nat \ {0}
  /\ Requests \subseteq Nat \ {0}
  /\ SplitMin \in Nat \ {0}
  /\ Cacheable \subseteq Nat
  /\ CacheMax \in Nat

VARIABLES
  heap,   \* [size, free, prev_free, prev_physical: by offset; listed: offsets]
  used,   \* blocks callers hold
  cache,  \* thread -> blocks in its TLSF cache
  back,   \* thread -> blocks it is returning from the cache (at most one)
  usable  \* used block -> header->usable_size, with the headers counted in

vars == <<heap, used, cache, back, usable>>

Offsets == 0..RegionSize
NULL == -1
NextPhys(h, b) == b + h.size[b]

-----------------------------------------------------------------------------
SeedSize == RegionSize

(* tlsf_create_pool_custom: one free block before the sentinel.            *)
Init ==
  /\ heap = [size |-> [o \in Offsets |-> IF o = 0 THEN SeedSize ELSE 0],
             free |-> [o \in Offsets |-> o = 0],
             prev_free |-> [o \in Offsets |-> FALSE],
             prev_physical |-> [o \in Offsets |-> IF o = RegionSize THEN 0 ELSE NULL],
             listed |-> {0}]
  /\ used = {}
  /\ cache = [t \in Threads |-> {}]
  /\ back = [t \in Threads |-> {}]
  /\ usable = [o \in Offsets |-> 0]

Insert(h, b) == [h EXCEPT !.listed = @ \cup {b}]
Remove(h, b) == [h EXCEPT !.listed = @ \ {b}]

(* The block b is about to be part of another one.                         *)
Absorb(h, b) ==
  [Remove(h, b) EXCEPT !.size[b] = 0, !.free[b] = FALSE, !.prev_free[b] = FALSE,
                       !.prev_physical[b] = NULL]

SplitsMutant(rest) == rest >= 0
Splits(rest) == rest >= SplitMin

(* The block b of total size, already off the free lists, becomes a used   *)
(* block of n units: the rest is split off, or stays in the block when it  *)
(* is too small.  (tlsf_alloc, and the end of tlsf_try_inplace_expand.)    *)
SplitBlockMutant(h, b, total, n) ==
  LET split == b + n - 1
      after == b + total
  IN Insert([h EXCEPT !.size = [@ EXCEPT ![b] = n - 1, ![split] = total - n + 1],
                      !.free = [@ EXCEPT ![b] = FALSE, ![split] = TRUE],
                      !.prev_free = [@ EXCEPT ![split] = FALSE, ![after] = TRUE],
                      !.prev_physical = [@ EXCEPT ![split] = b, ![after] = split]],
            split)

SplitBlock(h, b, total, n) ==
  LET split == b + n
      after == b + total
  IN Insert([h EXCEPT !.size = [@ EXCEPT ![b] = n, ![split] = total - n],
                      !.free = [@ EXCEPT ![b] = FALSE, ![split] = TRUE],
                      !.prev_free = [@ EXCEPT ![split] = FALSE, ![after] = TRUE],
                      !.prev_physical = [@ EXCEPT ![split] = b, ![after] = split]],
            split)

WholeBlock(h, b, total) ==
  [h EXCEPT !.size[b] = total,
            !.free[b] = FALSE,
            !.prev_free[b + total] = FALSE]

Carve(h, b, total, n) ==
  IF Splits(total - n) THEN SplitBlock(h, b, total, n) ELSE WholeBlock(h, b, total)

(* tlsf_free: merge with the next block, then with the previous one when   *)
(* the flag and that block's own state agree, mark the successor, insert.  *)
MergeNext(h, b) ==
  LET next == NextPhys(h, b)
      size == h.size[b] + h.size[next]
  IN  IF h.free[next]
      THEN [Absorb(h, next) EXCEPT !.size[b] = size, !.prev_physical[b + size] = b]
      ELSE h

PrevMerges(h, b) ==
  /\ h.prev_free[b]
  /\ h.prev_physical[b] # NULL /\ h.free[h.prev_physical[b]]

MergePrev(h, b) ==
  LET prev == h.prev_physical[b]
      size == h.size[prev] + h.size[b]
  IN  [Absorb(Remove(h, prev), b) EXCEPT !.size[prev] = size, !.prev_physical[prev + size] = prev]

MarkSuccessorMutant(h, b) == h
MarkSuccessor(h, b) == [h EXCEPT !.prev_free[NextPhys(h, b)] = TRUE]

FreeBlock(h, b) ==
  LET h1   == MergeNext([h EXCEPT !.free[b] = TRUE], b)
      prev == h1.prev_physical[b]
  IN  IF PrevMerges(h1, b)
      THEN Insert(MarkSuccessor(MergePrev(h1, b), prev), prev)
      ELSE Insert(MarkSuccessor(h1, b), b)

-----------------------------------------------------------------------------
(* mp_alloc, TLSF tier.                                                    *)

(* The cached block has exactly the requested size: no lock.               *)
CacheHit(t) ==
  /\ back[t] = {}
  /\ \E b \in cache[t] :
       /\ heap.size[b] \in Requests
       /\ cache' = [cache EXCEPT ![t] = @ \ {b}]
       /\ used' = used \cup {b}
       /\ usable' = [usable EXCEPT ![b] = heap.size[b]]
  /\ UNCHANGED <<heap, back>>

Fits(b, n) == heap.size[b] >= n

(* tlsf_alloc, under tpool->lock, once it has found b: remove, carve.      *)
AllocBlock(t, n, b) ==
  /\ back[t] = {}
  /\ heap' = Carve(Remove(heap, b), b, heap.size[b], n)
  /\ used' = used \cup {b}
  /\ usable' = [usable EXCEPT ![b] = n]
  /\ UNCHANGED <<cache, back>>

TlsfAlloc(t, n) == \E b \in heap.listed : Fits(b, n) /\ AllocBlock(t, n, b)

(* mp_free: into the cache when its bucket has room, else tlsf_free.       *)
CacheHasRoom(t, b) == usable[b] \in Cacheable /\ Cardinality(cache[t]) < CacheMax

CachePush(t) ==
  /\ back[t] = {}
  /\ \E b \in used :
       /\ CacheHasRoom(t, b)
       /\ cache' = [cache EXCEPT ![t] = @ \cup {b}]
       /\ used' = used \ {b}
       /\ usable' = [usable EXCEPT ![b] = 0]
  /\ UNCHANGED <<heap, back>>

FreeHeld(t, b) ==
  /\ back[t] = {} /\ ~CacheHasRoom(t, b)
  /\ heap' = FreeBlock(heap, b)
  /\ used' = used \ {b}
  /\ usable' = [usable EXCEPT ![b] = 0]
  /\ UNCHANGED <<cache, back>>

TlsfFree(t) == \E b \in used : FreeHeld(t, b)

(* A cached block goes back to the free lists: the request has another     *)
(* size, mp_realloc or tls_cache_flush_pool empties the cache.  First the  *)
(* flag, without the lock ...                                              *)
CachePublish(t) ==
  /\ back[t] = {}
  /\ \E b \in cache[t] :
       /\ cache' = [cache EXCEPT ![t] = @ \ {b}]
       /\ back' = [back EXCEPT ![t] = {b}]
       /\ heap' = [heap EXCEPT !.free[b] = TRUE]
  /\ UNCHANGED <<used, usable>>

(* ... then tlsf_insert_free_block, with it; no coalescing.                *)
CacheInsert(t) ==
  /\ \E b \in back[t] : heap' = Insert(heap, b)
  /\ back' = [back EXCEPT ![t] = {}]
  /\ UNCHANGED <<used, cache, usable>>

EnoughTogether(b, n) == heap.size[b] + heap.size[NextPhys(heap, b)] >= n

(* tlsf_try_inplace_expand, after mp_realloc has found the request larger  *)
(* than usable_size and has emptied the cache.                             *)
ExpandHeld(t, n, b) ==
  LET next == NextPhys(heap, b)
      total == heap.size[b] + heap.size[next]
  IN
  /\ back[t] = {} /\ cache[t] = {}
  /\ n > usable[b]
  /\ heap.free[next]
  /\ EnoughTogether(b, n)
  /\ heap' = Carve([Absorb(heap, next) EXCEPT !.prev_physical[b + total] = b], b, total, n)
  /\ usable' = [usable EXCEPT ![b] = heap'.size[b]]
  /\ UNCHANGED <<used, cache, back>>

InplaceExpand(t, n) == \E b \in used : ExpandHeld(t, n, b)

Next ==
  \E t \in Threads :
    \/ CacheHit(t) \/ CachePush(t) \/ CachePublish(t) \/ CacheInsert(t)
    \/ TlsfFree(t)
    \/ \E n \in Requests : TlsfAlloc(t, n) \/ InplaceExpand(t, n)

Spec == Init /\ [][Next]_vars

-----------------------------------------------------------------------------
(* The blocks, found by stepping from header to header up to the sentinel. *)
Blocks ==
  LET at[k \in 0..RegionSize] ==
        IF k = 0 THEN 0
        ELSE IF at[k - 1] >= RegionSize THEN RegionSize
        ELSE NextPhys(heap, at[k - 1])
  IN {at[k] : k \in 0..RegionSize} \ {RegionSize}

Cached == UNION {cache[t] : t \in Threads}
Returning == UNION {back[t] : t \in Threads}

(* The headers cut the region into blocks without gap or overlap, and each *)
(* block is in exactly one place: on a free list, with a caller, in one    *)
(* cache, or on its way back from a cache.                                 *)
Tiling ==
  /\ \A b \in Blocks : heap.size[b] > 0 /\ NextPhys(heap, b) \in Blocks \cup {RegionSize}
  /\ Blocks = heap.listed \cup used \cup Cached \cup Returning
  /\ heap.listed \cap used = {} /\ (heap.listed \cup used) \cap (Cached \cup Returning) = {}
  /\ \A t, u \in Threads : t # u => (cache[t] \cup back[t]) \cap (cache[u] \cup back[u]) = {}

(* The boundary tags tell the truth: BLOCK_STATE_FREE is set on exactly    *)
(* the listed blocks (and the one being returned), prev_physical leads to  *)
(* the block before, and BLOCK_STATE_PREV_FREE is set only if that block   *)
(* is free.  tlsf_free merges by these tags alone.                         *)
BoundaryTags ==
  \A b \in Blocks :
    /\ heap.free[b] <=> b \in heap.listed \cup Returning
    /\ heap.prev_physical[NextPhys(heap, b)] = b
    /\ heap.prev_free[NextPhys(heap, b)] => heap.free[b]

(* A caller keeps the room it was promised: no step of any thread makes a  *)
(* block that stays with its caller smaller than the usable_size its       *)
(* header states, before the step or after.                                *)
BlockKeepsItsSpace ==
  [][\A b \in used' : /\ heap'.size[b] >= usable'[b]
                      /\ b \in used => usable'[b] >= usable[b]]_vars
=============================================================================
