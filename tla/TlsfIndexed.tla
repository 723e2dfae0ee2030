----------------------------- MODULE TlsfIndexed -----------------------------
(***************************************************************************)
(* A TLSF region with its index: TlsfPool, in which any block that is      *)
(* large enough may serve a request, composed with TlsfIndex, which says   *)
(* which one does.  The index follows the free blocks step by step, and    *)
(* tlsf_alloc takes the block the search returns without looking at its    *)
(* size.                                                                   *)
(***************************************************************************)
EXTENDS TlsfPool, TlsfIndex

(* Every size has a first-level bin ("<= 1GB").                            *)
ASSUME TlsfIndexedAssumption ==
  RegionSize < 2^FlMax /\ \A n \in Requests : n < 2^FlMax

VARIABLES
  index,
  returned   \* history: a cached block has gone back to the free lists

indexedVars == <<heap, used, cache, back, usable, index, returned>>

(* tlsf_create_pool_custom                                                 *)
IndexedInit ==
  /\ Init
  /\ index = InsertFreeBlock(EmptyIndex, 0, SeedSize)
  /\ returned = FALSE

(* The end of tlsf_alloc and of tlsf_try_inplace_expand: the rest of the   *)
(* block goes on a list.                                                   *)
IndexCarve(x, b, total, n) ==
  IF Splits(total - n) THEN InsertFreeBlock(x, b + n, total - n) ELSE x

IndexAlloc(n, b) ==
  IndexCarve(RemoveFreeBlock(index, b, heap.size[b]), b, heap.size[b], n)

IndexExpand(n, b) ==
  LET next == NextPhys(heap, b) IN
  IndexCarve(RemoveFreeBlock(index, next, heap.size[next]), b,
             heap.size[b] + heap.size[next], n)

(* tlsf_free: a block that is merged is taken off its list under its old   *)
(* size before the whole is inserted under the new one.                    *)
IndexFree(b) ==
  LET next == NextPhys(heap, b)
      h1 == MergeNext([heap EXCEPT !.free[b] = TRUE], b)
      x1 == IF heap.free[next] THEN RemoveFreeBlock(index, next, heap.size[next]) ELSE index
      prev == h1.prev_physical[b]
  IN IF PrevMerges(h1, b)
     THEN InsertFreeBlock(RemoveFreeBlock(x1, prev, h1.size[prev]), prev,
                          h1.size[prev] + h1.size[b])
     ELSE InsertFreeBlock(x1, b, h1.size[b])

(* tlsf_alloc takes the block tlsf_find_suitable_block returns.            *)
IndexedAlloc(t, n) ==
  LET b == FindSuitableBlock(index, n) IN
  /\ b # NoFit
  /\ AllocBlock(t, n, b)
  /\ index' = IndexAlloc(n, b)
  /\ UNCHANGED returned

IndexedFree(t) ==
  /\ \E b \in used : FreeHeld(t, b) /\ index' = IndexFree(b)
  /\ UNCHANGED returned

IndexedExpand(t, n) ==
  /\ \E b \in used : ExpandHeld(t, n, b) /\ index' = IndexExpand(n, b)
  /\ UNCHANGED returned

IndexedReturn(t) ==
  /\ CacheInsert(t)
  /\ \E b \in back[t] : index' = InsertFreeBlock(index, b, heap.size[b])
  /\ returned' = TRUE

IndexedNext ==
  \E t \in Threads :
    \/ (CacheHit(t) \/ CachePush(t) \/ CachePublish(t)) /\ UNCHANGED <<index, returned>>
    \/ IndexedReturn(t) \/ IndexedFree(t)
    \/ \E n \in Requests : IndexedAlloc(t, n) \/ IndexedExpand(t, n)

IndexedSpec == IndexedInit /\ [][IndexedNext]_indexedVars

-----------------------------------------------------------------------------
OnLists == UNION {{index.blocks[l][i] : i \in DOMAIN index.blocks[l]} : l \in Lists}

(* Whatever is asked for, a block the search returns is large enough, and  *)
(* the search fails only when no free block reaches the request rounded up *)
(* to a segment.  It trusts the bitmaps for that: every free block is on   *)
(* the list of its size, and each bit is set exactly when the lists under  *)
(* it are not empty.  With a stale bit the search would take a block from  *)
(* an empty list, with a missing one the block could not be found.         *)
SearchIsGoodFit ==
  /\ \A n \in 1..RegionSize :
       LET b == FindSuitableBlock(index, n) IN
       IF b = NoFit THEN \A c \in heap.listed : heap.size[c] < GoodFit(n)
                    ELSE b \in heap.listed /\ Fits(b, n)
  /\ OnLists = heap.listed
  /\ \A l \in Lists : /\ l[2] \in index.sl_bitmap[l[1]] <=> index.blocks[l] # <<>>
                      /\ \A i \in DOMAIN index.blocks[l] :
                           MappingInsert(heap.size[index.blocks[l][i]]) = l
  /\ \A fl \in 0..(FlMax - 1) : fl \in index.fl_bitmap <=> index.sl_bitmap[fl] # {}

(* The boundary tags tell the truth (BoundaryTags), and tlsf_free          *)
(* coalesces by them "so adjacent free memory forms larger reusable        *)
(* blocks": no two free blocks are neighbours, until a block comes back    *)
(* from a thread's cache, which inserts it as it is.                       *)
CoalescedUntilCacheReturns ==
  /\ BoundaryTags
  /\ ~returned => \A b \in heap.listed : NextPhys(heap, b) \notin heap.listed

(* The index refines the choice of TlsfPool: with it, every step of the    *)
(* region is a step TlsfPool allows.                                       *)
ImplementsPool == Spec
=============================================================================
