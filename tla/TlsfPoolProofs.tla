---------------------------- MODULE TlsfPoolProofs ----------------------------
(***************************************************************************)
(* The layout of a TLSF region, proved for every region size, request size *)
(* and number of threads.  The invariant speaks of the headers (Starts)    *)
(* instead of the walk Blocks makes over them; lemmas follow what merging  *)
(* and splitting do to the headers, one lemma per action keeps the         *)
(* invariant, and BlocksAreStarts carries it over to the walk.             *)
(***************************************************************************)
EXTENDS TlsfPool, TLAPS

(* The headers of a region, with every field in its range.                 *)
Heaps == [size : [Offsets -> Nat], free : [Offsets -> BOOLEAN],
          prev_free : [Offsets -> BOOLEAN],
          prev_physical : [Offsets -> Offsets \cup {NULL}],
          listed : SUBSET Offsets]

(* The offsets that hold a block's header: a block that is merged into     *)
(* another leaves none.                                                    *)
Starts(h) == {o \in Offsets : o < RegionSize /\ h.size[o] > 0}
(* The blocks whose header says in use, and those whose header says free.  *)
Busy(h) == {b \in Starts(h) : ~h.free[b]}
Idle(h) == {b \in Starts(h) : h.free[b]}

(* The headers cut the region: one at offset 0, each block ends where the  *)
(* next begins or at the sentinel, none begins inside another, and each    *)
(* but the first has one before it. Unlike Tiling, this speaks of headers  *)
(* and not of the blocks a walk meets, so a step can be followed header    *)
(* by header.                                                              *)
Tiled(h) ==
  /\ 0 \in Starts(h)
  /\ \A b \in Starts(h) : NextPhys(h, b) \in Starts(h) \cup {RegionSize}
  /\ \A b, c \in Starts(h) : b < c => NextPhys(h, b) <= c
  /\ \A c \in Starts(h) \ {0} : \E b \in Starts(h) : NextPhys(h, b) = c

(* The boundary tags, up to the PREV_FREE flags of the offsets in exempt:  *)
(* tlsf_try_inplace_expand merges first and writes that flag later.        *)
Tagged(h, exempt) ==
  /\ \A b \in Starts(h) : h.prev_physical[NextPhys(h, b)] = b
  /\ \A b \in Starts(h) :
       NextPhys(h, b) \notin exempt /\ h.prev_free[NextPhys(h, b)] => h.free[b]
  /\ h.prev_physical[0] = NULL
  /\ ~h.free[RegionSize]

(* Every block on a free list says it is free, and every block that says   *)
(* so is on a free list or in S.                                           *)
Listing(h, S) == h.listed \subseteq Idle(h) /\ Idle(h) \subseteq h.listed \cup S

(* What tlsf_free and tlsf_alloc rely on when they take the lock, and      *)
(* leave behind; S holds the blocks that are on their way back from a      *)
(* thread's cache, flagged and not yet listed.                             *)
Sound(h, S) == h \in Heaps /\ Tiled(h) /\ Tagged(h, {}) /\ Listing(h, S)

(* The kinds of the other variables; a thread returns one block at a       *)
(* time.                                                                   *)
Kinds ==
  /\ used \in SUBSET Offsets
  /\ cache \in [Threads -> SUBSET Offsets]
  /\ back \in [Threads -> SUBSET Offsets]
  /\ \A t \in Threads : \A b, c \in back[t] : b = c
  /\ usable \in [Offsets -> Nat]

(* Each block in use is with a caller or in one cache, each free one on a  *)
(* list or on its way back, and a caller's block is as large as its        *)
(* usable_size.                                                            *)
Placed ==
  /\ Busy(heap) = used \cup Cached /\ used \cap Cached = {}
  /\ Idle(heap) = heap.listed \cup Returning /\ heap.listed \cap Returning = {}
  /\ \A t, u \in Threads : t # u => (cache[t] \cup back[t]) \cap (cache[u] \cup back[u]) = {}
  /\ \A b \in used : usable[b] <= heap.size[b]

(* The inductive invariant.                                                *)
IInv == Kinds /\ Sound(heap, Returning) /\ Placed

(* A step leaves the blocks that are on their way back from a cache        *)
(* alone: none is merged, and none enters a free list but through the      *)
(* tlsf_insert_free_block that returns it. The code does not ensure this   *)
(* for two threads: BLOCK_STATE_FREE is stored before the lock is taken,   *)
(* and another thread's tlsf_free may merge the block in between. It is    *)
(* what a store under the lock would give.                                 *)
ReturnsUndisturbed ==
  \A t \in Threads : \A b \in back[t] :
    heap'.size[b] = heap.size[b] /\ (b \in heap'.listed => b \notin back'[t])

-----------------------------------------------------------------------------
(* The fields of a heap, one by one.                                       *)
LEMMA HeapFields ==
  ASSUME NEW h \in Heaps
  PROVE  /\ h.size \in [Offsets -> Nat] /\ h.free \in [Offsets -> BOOLEAN]
         /\ h.prev_free \in [Offsets -> BOOLEAN]
         /\ h.prev_physical \in [Offsets -> Offsets \cup {NULL}]
         /\ h.listed \in SUBSET Offsets
BY DEF Heaps

(* A block starts inside the region, has a size, and ends after it         *)
(* starts.                                                                 *)
LEMMA Start ==
  ASSUME NEW h \in Heaps, NEW b \in Starts(h)
  PROVE  /\ b \in Nat /\ b < RegionSize /\ b \in Offsets
         /\ h.size[b] \in Nat /\ h.size[b] > 0
         /\ NextPhys(h, b) \in Nat /\ b < NextPhys(h, b)
         /\ Tiled(h) => NextPhys(h, b) \in Offsets /\ NextPhys(h, b) <= RegionSize
BY HeapFields, TlsfPoolAssumption DEF Starts, Offsets, NextPhys, Tiled

(* What tlsf_free does when it merges the block after b into b, and        *)
(* tlsf_try_inplace_expand too.                                            *)
Join(h, b) ==
  LET next == NextPhys(h, b)
      size == h.size[b] + h.size[next]
  IN  [Absorb(h, next) EXCEPT !.size[b] = size, !.prev_physical[b + size] = b]

(* The fields after a merge, offset by offset.                             *)
Joined(h, b, n, g) ==
  /\ g \in Heaps
  /\ g.size[b] = h.size[b] + h.size[n] /\ g.size[n] = 0
  /\ \A o \in Offsets \ {b, n} : g.size[o] = h.size[o]
  /\ g.free[n] = FALSE /\ \A o \in Offsets \ {n} : g.free[o] = h.free[o]
  /\ \A o \in Offsets \ {n} : g.prev_free[o] = h.prev_free[o]
  /\ g.prev_physical[NextPhys(h, n)] = b
  /\ \A o \in Offsets \ {n, NextPhys(h, n)} : g.prev_physical[o] = h.prev_physical[o]
  /\ g.listed = h.listed \ {n}

(* Join changes what Joined says, for two neighbouring blocks (the merges  *)
(* of tlsf_free).                                                          *)
LEMMA JoinFields ==
  ASSUME NEW h \in Heaps, Tiled(h), NEW b \in Starts(h), NextPhys(h, b) \in Starts(h)
  PROVE  Joined(h, b, NextPhys(h, b), Join(h, b))
<1> SUFFICES ASSUME NEW n, n = NextPhys(h, b), NEW g, g = Join(h, b)
             PROVE  Joined(h, b, n, g)
  OBVIOUS
<1> DEFINE z == h.size[b] + h.size[n]
<1>1. /\ b \in Offsets /\ n \in Offsets /\ NextPhys(h, n) \in Offsets
      /\ b # n /\ n # NextPhys(h, n) /\ z \in Nat /\ b + z = NextPhys(h, n)
  <2>1. n \in Starts(h)
    OBVIOUS
  <2>2. /\ b \in Offsets /\ n \in Offsets /\ NextPhys(h, n) \in Offsets
        /\ b \in Nat /\ n \in Nat /\ b < n /\ n < NextPhys(h, n) /\ NextPhys(h, n) \in Nat
        /\ h.size[b] \in Nat /\ h.size[n] \in Nat
    BY <2>1, Start
  <2>3. n = b + h.size[b] /\ NextPhys(h, n) = n + h.size[n]
    BY DEF NextPhys
  <2>. QED BY <2>2, <2>3
<1>2. /\ g.size = [h.size EXCEPT ![n] = 0, ![b] = z]
      /\ g.free = [h.free EXCEPT ![n] = FALSE]
      /\ g.prev_free = [h.prev_free EXCEPT ![n] = FALSE]
      /\ g.prev_physical = [h.prev_physical EXCEPT ![n] = NULL, ![b + z] = b]
      /\ g.listed = h.listed \ {n}
      /\ g = [size |-> g.size, free |-> g.free, prev_free |-> g.prev_free,
              prev_physical |-> g.prev_physical, listed |-> g.listed]
  BY HeapFields, Zenon DEF Join, Absorb, Remove, Heaps
<1> HIDE DEF z
<1>3. g \in Heaps
  <2>1. /\ g.size \in [Offsets -> Nat] /\ g.free \in [Offsets -> BOOLEAN]
        /\ g.prev_free \in [Offsets -> BOOLEAN] /\ g.listed \in SUBSET Offsets
        /\ g.prev_physical \in [Offsets -> Offsets \cup {NULL}]
    BY <1>1, <1>2, HeapFields
  <2>. QED BY <1>2, <2>1, Zenon DEF Heaps
<1>. QED BY <1>1, <1>2, <1>3, HeapFields DEF z, Joined

(* A merge removes one header and leaves the region tiled.                 *)
LEMMA JoinTiled ==
  ASSUME NEW h \in Heaps, Tiled(h), NEW b \in Starts(h), NextPhys(h, b) \in Starts(h),
         NEW g, g = Join(h, b), NEW n, n = NextPhys(h, b)
  PROVE  /\ Starts(g) = Starts(h) \ {n}
         /\ NextPhys(g, b) = NextPhys(h, n)
         /\ \A c \in Starts(g) \ {b} : NextPhys(g, c) = NextPhys(h, c)
         /\ Busy(g) = Busy(h) \ {n} /\ Idle(g) = Idle(h) \ {n}
         /\ Tiled(g)
<1>0. /\ n \in Starts(h) /\ b \in Offsets /\ n \in Offsets /\ b \in Nat /\ n \in Nat /\ b < n
      /\ h.size[b] \in Nat /\ h.size[n] \in Nat /\ h.size[b] > 0 /\ h.size[n] > 0
      /\ n < NextPhys(h, n) /\ NextPhys(h, n) \in Nat /\ b < RegionSize
      /\ n = b + h.size[b] /\ NextPhys(h, n) = n + h.size[n]
  <2>1. n \in Starts(h)
    OBVIOUS
  <2>. QED BY <2>1, Start, Zenon DEF NextPhys
<1>f. Joined(h, b, n, g)
  BY JoinFields
<1>1. Starts(g) = Starts(h) \ {n}
  <2>1. \A o \in Offsets : o < RegionSize /\ g.size[o] > 0
                            <=> (o < RegionSize /\ h.size[o] > 0) /\ o # n
    BY <1>0, <1>f DEF Joined
  <2>. QED BY <2>1 DEF Starts
<1>2. NextPhys(g, b) = NextPhys(h, n)
  BY <1>0, <1>f DEF NextPhys, Joined
<1>3. \A c \in Starts(g) \ {b} : NextPhys(g, c) = NextPhys(h, c)
  BY <1>1, <1>f DEF NextPhys, Starts, Joined
<1>4. Busy(g) = Busy(h) \ {n} /\ Idle(g) = Idle(h) \ {n}
  BY <1>1, <1>f DEF Busy, Idle, Starts, Joined
<1>5. Tiled(g)
  <2>1. 0 \in Starts(g)
    BY <1>0, <1>1 DEF Tiled
  <2>2. ASSUME NEW c \in Starts(h), c # b PROVE NextPhys(h, c) # n
    <3>1. c \in Nat /\ c < NextPhys(h, c) /\ NextPhys(h, c) \in Nat
      BY Start
    <3>2. CASE c < b
      BY <3>1, <3>2, <1>0 DEF Tiled
    <3>3. CASE b < c
      <4>1. n <= c
        BY <3>3 DEF Tiled
      <4>. QED BY <4>1, <3>1, <1>0
    <3>. QED BY <2>2, <3>1, <3>2, <3>3, <1>0
  <2>3. \A c \in Starts(g) : NextPhys(g, c) \in Starts(g) \cup {RegionSize}
    BY <1>0, <1>1, <1>2, <1>3, <2>2 DEF Tiled
  <2>4. ASSUME NEW c \in Starts(g), NEW d \in Starts(g), c < d PROVE NextPhys(g, c) <= d
    <3>1. d \in Nat /\ c \in Nat /\ d # n /\ d \in Starts(h) /\ c \in Starts(h)
      BY <1>1, Start
    <3>2. CASE c = b
      <4>1. n <= d
        BY <2>4, <3>1, <3>2 DEF Tiled
      <4>2. n < d
        BY <4>1, <3>1, <1>0
      <4>. QED BY <4>2, <3>1, <3>2, <1>0, <1>2 DEF Tiled
    <3>3. CASE c # b
      BY <2>4, <3>1, <3>3, <1>3 DEF Tiled
    <3>. QED BY <3>2, <3>3
  <2>5. ASSUME NEW c \in Starts(g) \ {0} PROVE \E d \in Starts(g) : NextPhys(g, d) = c
    <3>1. PICK d \in Starts(h) : NextPhys(h, d) = c
      BY <1>1 DEF Tiled
    <3>2. CASE d = n
      BY <3>1, <3>2, <1>0, <1>1, <1>2
    <3>3. CASE d # n
      <4>1. d # b
        BY <3>1, <1>1
      <4>. QED BY <4>1, <3>1, <3>3, <1>1, <1>3
    <3>. QED BY <3>2, <3>3
  <2>. QED BY <2>1, <2>3, <2>4, <2>5 DEF Tiled
<1>. QED BY <1>1, <1>2, <1>3, <1>4, <1>5

(* A merge keeps the boundary tags, except that PREV_FREE after a merged   *)
(* block in use may be stale until tlsf_try_inplace_expand writes it.      *)
LEMMA JoinTagged ==
  ASSUME NEW h \in Heaps, Tiled(h), NEW b \in Starts(h), NextPhys(h, b) \in Starts(h),
         NEW g, g = Join(h, b), Tagged(h, {})
  PROVE  /\ Tagged(g, {NextPhys(g, b)})
         /\ h.free[b] => Tagged(g, {})
<1> DEFINE n == NextPhys(h, b)
<1>0. /\ n \in Starts(h) /\ n \in Offsets /\ n # b /\ b \in Offsets /\ n # RegionSize
      /\ n # 0 /\ NextPhys(h, n) # 0 /\ NextPhys(h, n) # n /\ RegionSize \in Offsets /\ 0 \in Offsets
  <2>1. n \in Starts(h)
    OBVIOUS
  <2>2. n \in Nat /\ b \in Nat /\ b < n /\ n < RegionSize /\ NextPhys(h, n) \in Nat /\ n < NextPhys(h, n)
        /\ n \in Offsets /\ b \in Offsets
    BY <2>1, Start
  <2>. QED BY <2>1, <2>2, TlsfPoolAssumption DEF Offsets
<1> HIDE DEF n
<1>1. /\ Starts(g) = Starts(h) \ {n}
      /\ NextPhys(g, b) = NextPhys(h, n)
      /\ \A c \in Starts(g) \ {b} : NextPhys(g, c) = NextPhys(h, c)
      /\ Tiled(g) /\ g \in Heaps
  <2>1. g \in Heaps
    BY JoinFields, Zenon DEF Joined
  <2>. QED BY <2>1, JoinTiled DEF n
<1>2. /\ g.free[n] = FALSE /\ \A o \in Offsets \ {n} : g.free[o] = h.free[o]
      /\ \A o \in Offsets \ {n} : g.prev_free[o] = h.prev_free[o]
      /\ g.prev_physical[NextPhys(h, n)] = b
      /\ \A o \in Offsets \ {n, NextPhys(h, n)} : g.prev_physical[o] = h.prev_physical[o]
  <2>1. Joined(h, b, n, g)
    BY JoinFields DEF n
  <2>. QED BY <2>1 DEF Joined
<1>3. ASSUME NEW c \in Starts(g), c # b
      PROVE  /\ NextPhys(g, c) # n /\ NextPhys(g, c) # NextPhys(h, n) /\ NextPhys(g, c) \in Offsets
             /\ c \in Starts(h) /\ c \in Offsets
  <2>1. h.prev_physical[NextPhys(h, c)] = c /\ h.prev_physical[n] = b
        /\ h.prev_physical[NextPhys(h, n)] = n
    BY <1>0, <1>1 DEF Tagged, n
  <2>. QED BY <1>1, <1>3, <2>1, Start
<1>4. \A c \in Starts(g) : g.prev_physical[NextPhys(g, c)] = c
  BY <1>1, <1>2, <1>3 DEF Tagged
<1>5. g.prev_physical[0] = NULL /\ ~g.free[RegionSize]
  BY <1>0, <1>2 DEF Tagged
<1>6. \A c \in Starts(g) \ {b} : g.prev_free[NextPhys(g, c)] => g.free[c]
  BY <1>1, <1>2, <1>3 DEF Tagged
<1>7. h.free[b] => g.free[b]
  BY <1>0, <1>2
<1>. QED BY <1>4, <1>5, <1>6, <1>7 DEF Tagged

(* The layout depends on the sizes in the headers only.                    *)
LEMMA SameSizes ==
  ASSUME NEW h, NEW g, g.size = h.size
  PROVE  /\ Starts(g) = Starts(h) /\ \A b : NextPhys(g, b) = NextPhys(h, b)
         /\ Tiled(g) <=> Tiled(h)
<1>1. Starts(g) = Starts(h) /\ \A b : NextPhys(g, b) = NextPhys(h, b)
  BY DEF Starts, NextPhys
<1>. QED BY <1>1 DEF Tiled

(* Putting a block on a free list, or taking it off, touches no header     *)
(* field the layout depends on (tlsf_insert_free_block,                    *)
(* tlsf_remove_free_block).                                                *)
LEMMA EditListed ==
  ASSUME NEW h \in Heaps, NEW c \in Offsets, NEW g, g = Remove(h, c) \/ g = Insert(h, c)
  PROVE  /\ g \in Heaps /\ g.size = h.size /\ g.free = h.free /\ g.prev_free = h.prev_free
         /\ g.prev_physical = h.prev_physical
         /\ g = Remove(h, c) => g.listed = h.listed \ {c}
         /\ g = Insert(h, c) => g.listed = h.listed \cup {c}
         /\ Starts(g) = Starts(h) /\ Busy(g) = Busy(h) /\ Idle(g) = Idle(h)
         /\ \A E : Tagged(g, E) <=> Tagged(h, E)
<1>1. /\ g \in Heaps /\ g.size = h.size /\ g.free = h.free /\ g.prev_free = h.prev_free
      /\ g.prev_physical = h.prev_physical
      /\ g = Remove(h, c) => g.listed = h.listed \ {c}
      /\ g = Insert(h, c) => g.listed = h.listed \cup {c}
  BY DEF Remove, Insert, Heaps
<1>2. Starts(g) = Starts(h) /\ \A b : NextPhys(g, b) = NextPhys(h, b)
  BY <1>1, SameSizes
<1>3. Busy(g) = Busy(h) /\ Idle(g) = Idle(h)
  BY <1>1, <1>2 DEF Busy, Idle
<1>. QED BY <1>1, <1>2, <1>3 DEF Tagged

(* BLOCK_STATE_FREE is set in the header of b.                             *)
Flag(h, b) == [h EXCEPT !.free[b] = TRUE]

(* Setting BLOCK_STATE_FREE on a block in use, before it is on a list      *)
(* (the first store of tlsf_free, and the cache's return).                 *)
LEMMA FlagFree ==
  ASSUME NEW h, NEW S, Sound(h, S), NEW b \in Busy(h), NEW g, g = Flag(h, b)
  PROVE  /\ Sound(g, S \cup {b}) /\ Busy(g) = Busy(h) \ {b} /\ Idle(g) = Idle(h) \cup {b}
         /\ b \notin g.listed /\ g.size = h.size /\ g.listed = h.listed
<1>1. h \in Heaps /\ b \in Starts(h) /\ b \in Offsets /\ b # RegionSize /\ RegionSize \in Offsets
  <2>1. h \in Heaps /\ b \in Starts(h)
    BY DEF Sound, Busy
  <2>. QED BY <2>1, Start, TlsfPoolAssumption DEF Offsets
<1>2. /\ g \in Heaps /\ g.size = h.size /\ g.prev_free = h.prev_free
      /\ g.prev_physical = h.prev_physical /\ g.listed = h.listed
      /\ g.free = [h.free EXCEPT ![b] = TRUE]
  BY <1>1, Zenon DEF Heaps, Flag
<1>3. g.free[b] /\ \A o \in Offsets \ {b} : g.free[o] = h.free[o]
  BY <1>1, <1>2, HeapFields
<1>4. /\ Starts(g) = Starts(h) /\ \A c : NextPhys(g, c) = NextPhys(h, c)
      /\ Tiled(g)
  BY <1>2, SameSizes DEF Sound
<1>5. Busy(g) = Busy(h) \ {b} /\ Idle(g) = Idle(h) \cup {b}
  BY <1>1, <1>3, <1>4 DEF Busy, Idle, Starts
<1>6. Tagged(g, {})
  <2>1. Tagged(h, {}) /\ Starts(h) \subseteq Offsets
    BY DEF Sound, Starts
  <2>2. \A c \in Starts(g) : h.free[c] => g.free[c]
    BY <1>3, <1>4, <2>1
  <2>3. ~g.free[RegionSize]
    BY <1>1, <1>3, <2>1 DEF Tagged
  <2>4. g.prev_free = h.prev_free /\ g.prev_physical = h.prev_physical
    BY <1>2
  <2>. QED BY <1>4, <2>1, <2>2, <2>3, <2>4 DEF Tagged
<1>7. Listing(g, S \cup {b}) /\ b \notin g.listed
  BY <1>2, <1>5 DEF Listing, Sound, Busy, Idle
<1>. QED BY <1>2, <1>4, <1>5, <1>6, <1>7 DEF Sound

(* Of the block n after b there is nothing left but its units, now b's;    *)
(* what the free lists depend on is as before at every other block.        *)
Swallowed(h, b, n, g) ==
  /\ g.size[b] = h.size[b] + h.size[n] /\ \A o \in Offsets \ {b, n} : g.size[o] = h.size[o]
  /\ Starts(g) = Starts(h) \ {n} /\ NextPhys(g, b) = NextPhys(h, n)
  /\ \A o \in Offsets \ {n} : g.prev_free[o] = h.prev_free[o]
  /\ g.listed = h.listed \ {n}

(* What the free lists depend on is as before at every block.              *)
Untouched(h, g) == g.size = h.size /\ g.prev_free = h.prev_free /\ g.listed = h.listed

(* A merge of two free neighbours, the first off the lists, keeps the      *)
(* region sound, and every block in use keeps its size.                    *)
LEMMA Merge ==
  ASSUME NEW h, NEW S, Sound(h, S), NEW b \in Idle(h), b \notin h.listed,
         NextPhys(h, b) \in Idle(h), NEW g, g = Join(h, b)
  PROVE  /\ Sound(g, S) /\ b \in Idle(g) /\ b \notin g.listed
         /\ Busy(g) = Busy(h) /\ Idle(g) = Idle(h) \ {NextPhys(h, b)}
         /\ \A c \in Busy(h) : g.size[c] = h.size[c]
         /\ Swallowed(h, b, NextPhys(h, b), g)
<1> DEFINE n == NextPhys(h, b)
<1>1. /\ h \in Heaps /\ Tiled(h) /\ Tagged(h, {}) /\ b \in Starts(h) /\ n \in Starts(h) /\ n # b
      /\ h.free[b]
  <2>1. h \in Heaps /\ Tiled(h) /\ Tagged(h, {}) /\ b \in Starts(h) /\ n \in Starts(h) /\ h.free[b]
    BY DEF Sound, Idle
  <2>2. b \in Nat /\ n \in Nat /\ b < n
    BY <2>1, Start
  <2>. QED BY <2>1, <2>2
<1>2. Joined(h, b, n, g)
  BY <1>1, JoinFields
<1>3. /\ Tiled(g) /\ Busy(g) = Busy(h) \ {n} /\ Idle(g) = Idle(h) \ {n} /\ g \in Heaps
      /\ Starts(g) = Starts(h) \ {n} /\ NextPhys(g, b) = NextPhys(h, n)
  BY <1>1, <1>2, JoinTiled DEF Joined
<1>4. Tagged(g, {})
  BY <1>1, JoinTagged, Zenon
<1>5. n \notin Busy(h) /\ b \notin Busy(h)
  BY <1>1 DEF Busy, Idle
<1>6. Listing(g, S)
  BY <1>2, <1>3 DEF Listing, Sound, Joined
<1>7. \A c \in Busy(h) : g.size[c] = h.size[c]
  BY <1>2, <1>5 DEF Joined, Busy, Starts
<1>8. Swallowed(h, b, n, g)
  BY <1>2, <1>3 DEF Swallowed, Joined
<1>9. b \in Idle(g) /\ b \notin g.listed
  BY <1>1, <1>2, <1>3 DEF Joined
<1>. QED BY <1>3, <1>4, <1>5, <1>6, <1>7, <1>8, <1>9 DEF Sound

(* The block c is free, listed, and its successor knows it.                *)
Finished(h, S, c, g) ==
  /\ Sound(g, S) /\ Busy(g) = Busy(h) /\ Idle(g) = Idle(h) /\ g.size = h.size
  /\ g.listed = h.listed \cup {c} /\ g.prev_free[NextPhys(h, c)]
  /\ \A o \in Offsets \ {NextPhys(h, c)} : g.prev_free[o] = h.prev_free[o]

(* The end of tlsf_free: PREV_FREE in the successor, then the free list.   *)
LEMMA FinishFree ==
  ASSUME NEW h, NEW T, NEW S, Sound(h, T), NEW c \in Idle(h), T \cap Idle(h) \subseteq S \cup {c},
         NEW g, g = Insert(MarkSuccessor(h, c), c)
  PROVE  Finished(h, S, c, g)
<1> DEFINE m == MarkSuccessor(h, c)
           n == NextPhys(h, c)
<1>1. /\ h \in Heaps /\ Tiled(h) /\ Tagged(h, {}) /\ c \in Starts(h) /\ c \in Offsets
      /\ h.free[c] /\ n \in Offsets
  <2>1. h \in Heaps /\ Tiled(h) /\ Tagged(h, {}) /\ c \in Starts(h) /\ h.free[c]
    BY DEF Sound, Idle
  <2>. QED BY <2>1, Start
<1> HIDE DEF n
<1>2. /\ m \in Heaps /\ m.size = h.size /\ m.free = h.free /\ m.listed = h.listed
      /\ m.prev_physical = h.prev_physical /\ m.prev_free = [h.prev_free EXCEPT ![n] = TRUE]
  BY <1>1, Zenon DEF MarkSuccessor, Heaps, n
<1> HIDE DEF m
<1>3. /\ Starts(m) = Starts(h) /\ \A b : NextPhys(m, b) = NextPhys(h, b)
      /\ Tiled(m)
  BY <1>1, <1>2, SameSizes
<1>4. Tagged(m, {})
  <2>1. \A b \in Starts(h) \ {c} : NextPhys(h, b) # n /\ NextPhys(h, b) \in Offsets
    BY <1>1, Start DEF Tagged, n
  <2>. QED BY <1>1, <1>2, <1>3, <2>1, HeapFields DEF Tagged, n
<1>5. Busy(m) = Busy(h) /\ Idle(m) = Idle(h)
  BY <1>2, <1>3 DEF Busy, Idle
<1>6. /\ g \in Heaps /\ g.size = h.size /\ g.listed = h.listed \cup {c}
      /\ Busy(g) = Busy(h) /\ Idle(g) = Idle(h) /\ Tagged(g, {}) /\ g.prev_free = m.prev_free
  BY <1>1, <1>2, <1>4, <1>5, EditListed DEF m
<1>7. Tiled(g)
  BY <1>1, <1>6, SameSizes
<1>8. Listing(g, S)
  BY <1>6 DEF Listing, Sound
<1>9. g.prev_free[n] /\ \A o \in Offsets \ {n} : g.prev_free[o] = h.prev_free[o]
  BY <1>1, <1>2, <1>6, HeapFields
<1>. QED BY <1>6, <1>7, <1>8, <1>9 DEF Finished, Sound, n

(* The first half of tlsf_free: the block says it is free and takes in the *)
(* block after it if that one is free too.                                 *)
LEMMA FirstMerge ==
  ASSUME NEW h, NEW S, Sound(h, S), NEW b \in Busy(h),
         NEW n, n = NextPhys(h, b), NEW k, k = MergeNext(Flag(h, b), b)
  PROVE  /\ Sound(k, S \cup {b}) /\ Busy(k) = Busy(h) \ {b} /\ b \in Idle(k) /\ b \notin k.listed
         /\ \A c \in Busy(h) \ {b} : k.size[c] = h.size[c]
         /\ h.free[n] => n \in Idle(h) /\ Swallowed(h, b, n, k)
         /\ ~h.free[n] => Untouched(h, k)
<1> DEFINE h0 == Flag(h, b)
<1>1. /\ Sound(h0, S \cup {b}) /\ Busy(h0) = Busy(h) \ {b} /\ Idle(h0) = Idle(h) \cup {b}
      /\ b \notin h0.listed /\ h0.size = h.size /\ h0.listed = h.listed
  BY FlagFree
<1>2. /\ h \in Heaps /\ b \in Starts(h) /\ b \in Offsets /\ n \in Offsets /\ n # b
      /\ n \in Starts(h) \cup {RegionSize} /\ ~h.free[RegionSize]
  <2>1. h \in Heaps /\ b \in Starts(h) /\ Tiled(h) /\ Tagged(h, {})
    BY DEF Sound, Busy
  <2>2. b \in Nat /\ b \in Offsets /\ n \in Offsets /\ n \in Nat /\ b < n
    BY <2>1, Start
  <2>. QED BY <2>1, <2>2 DEF Tiled, Tagged
<1>3. h0.prev_free = h.prev_free /\ h0.free[n] = h.free[n]
  BY <1>2 DEF Heaps, Flag
<1>4. k = MergeNext(h0, b)
  OBVIOUS
<1> HIDE DEF h0
<1>5. /\ NextPhys(h0, b) = n /\ NextPhys(h0, n) = NextPhys(h, n) /\ Starts(h0) = Starts(h)
  BY <1>1, SameSizes
<1>6. CASE h.free[n]
  <2>1. n \in Idle(h)
    BY <1>2, <1>6 DEF Idle
  <2>2. k = Join(h0, b)
    BY <1>3, <1>4, <1>5, <1>6, Zenon DEF MergeNext, Join
  <2>3. /\ Sound(k, S \cup {b}) /\ b \in Idle(k) /\ b \notin k.listed
        /\ Busy(k) = Busy(h0) /\ \A c \in Busy(h0) : k.size[c] = h0.size[c]
        /\ Swallowed(h0, b, n, k)
    <3>1. Sound(h0, S \cup {b}) /\ b \in Idle(h0) /\ b \notin h0.listed /\ NextPhys(h0, b) \in Idle(h0)
      BY <1>1, <1>5, <2>1
    <3>2. /\ Sound(k, S \cup {b}) /\ b \in Idle(k) /\ b \notin k.listed
          /\ Busy(k) = Busy(h0) /\ \A c \in Busy(h0) : k.size[c] = h0.size[c]
          /\ Swallowed(h0, b, NextPhys(h0, b), k)
      BY <2>2, <3>1, Merge
    <3>. QED BY <1>5, <3>2
  <2>4. Swallowed(h, b, n, k)
    BY <1>1, <1>3, <1>5, <2>3 DEF Swallowed
  <2>. QED BY <1>1, <1>6, <2>1, <2>3, <2>4
<1>7. CASE ~h.free[n]
  <2>1. k = h0
    BY <1>3, <1>4, <1>5, <1>7 DEF MergeNext
  <2>2. Untouched(h, k)
    BY <1>1, <1>3, <2>1, Zenon DEF Untouched
  <2>. QED BY <1>1, <1>7, <2>1, <2>2
<1>. QED BY <1>6, <1>7

(* What is left when the block p before b has left its list and has taken  *)
(* b in.                                                                   *)
MergedBack(h, T, b, p, g) ==
  /\ p \in Idle(h) /\ p # b /\ NextPhys(h, p) = b
  /\ Sound(g, T \cup {p}) /\ Busy(g) = Busy(h) /\ p \in Idle(g) /\ Idle(g) = Idle(h) \ {b}
  /\ \A c \in Busy(h) : g.size[c] = h.size[c]
  /\ g.size[p] = h.size[p] + h.size[b] /\ \A o \in Offsets \ {b, p} : g.size[o] = h.size[o]
  /\ Starts(g) = Starts(h) \ {b} /\ NextPhys(g, p) = NextPhys(h, b)
  /\ \A o \in Offsets \ {b} : g.prev_free[o] = h.prev_free[o]
  /\ g.listed = h.listed \ {p}

(* The second half, when the flag and the block before agree.              *)
LEMMA LastMerge ==
  ASSUME NEW h, NEW T, Sound(h, T), NEW b \in Idle(h), b \notin h.listed, PrevMerges(h, b),
         NEW p, p = h.prev_physical[b], NEW g, g = MergePrev(h, b)
  PROVE  MergedBack(h, T, b, p, g)
<1> DEFINE k == Remove(h, p)
<1>1. h \in Heaps /\ Tiled(h) /\ Tagged(h, {}) /\ b \in Starts(h) /\ b \in Nat /\ b \in Offsets
  <2>1. h \in Heaps /\ Tiled(h) /\ Tagged(h, {}) /\ b \in Starts(h)
    BY DEF Sound, Idle
  <2>. QED BY <2>1, Start
<1>2. b # 0
  BY <1>1 DEF PrevMerges, Tagged
<1>3. p \in Starts(h) /\ NextPhys(h, p) = b
  <2>1. PICK c \in Starts(h) : NextPhys(h, c) = b
    BY <1>1, <1>2 DEF Tiled
  <2>2. p = c
    BY <1>1, <2>1, Zenon DEF Tagged
  <2>. QED BY <2>1, <2>2
<1>4. p \in Idle(h) /\ p \in Offsets /\ p # b
  <2>1. p \in Offsets /\ p \in Nat /\ p < NextPhys(h, p)
    BY <1>1, <1>3, Start, Zenon
  <2>. QED BY <1>1, <1>3, <2>1 DEF PrevMerges, Idle
<1>5. /\ k \in Heaps /\ k.size = h.size /\ k.listed = h.listed \ {p} /\ k.prev_free = h.prev_free
      /\ Busy(k) = Busy(h) /\ Idle(k) = Idle(h) /\ Tagged(k, {})
  BY <1>1, <1>4, EditListed
<1>6. NextPhys(k, p) = b /\ NextPhys(k, b) = NextPhys(h, b) /\ Tiled(k) /\ Starts(k) = Starts(h)
  BY <1>1, <1>3, <1>5, SameSizes
<1>7. Sound(k, T \cup {p}) /\ p \notin k.listed
  <2>1. Listing(k, T \cup {p})
    BY <1>5 DEF Listing, Sound
  <2>. QED BY <1>5, <1>6, <2>1 DEF Sound
<1>8. k = Remove(h, p)
  OBVIOUS
<1> HIDE DEF k
<1>9. g = Join(k, p)
  <2>1. Join(k, p) = [Absorb(k, b) EXCEPT !.size[p] = k.size[p] + k.size[b],
                                          !.prev_physical[p + (k.size[p] + k.size[b])] = p]
    BY <1>6 DEF Join
  <2>. QED BY <1>5, <1>8, <2>1, Zenon DEF MergePrev
<1>10. /\ Sound(g, T \cup {p}) /\ p \in Idle(g) /\ Busy(g) = Busy(k) /\ Idle(g) = Idle(k) \ {b}
       /\ \A c \in Busy(k) : g.size[c] = k.size[c]
       /\ Swallowed(k, p, b, g)
  <2>1. p \in Idle(k) /\ NextPhys(k, p) \in Idle(k)
    BY <1>4, <1>5, <1>6
  <2>. QED BY <1>6, <1>7, <1>9, <2>1, Merge
<1>11. /\ g.size[p] = h.size[p] + h.size[b] /\ \A o \in Offsets \ {b, p} : g.size[o] = h.size[o]
       /\ Starts(g) = Starts(h) \ {b} /\ NextPhys(g, p) = NextPhys(h, b)
       /\ \A o \in Offsets \ {b} : g.prev_free[o] = h.prev_free[o]
       /\ g.listed = h.listed \ {p}
  BY <1>5, <1>6, <1>10, Zenon DEF Swallowed
<1>. QED BY <1>3, <1>4, <1>5, <1>10, <1>11, Zenon DEF MergedBack

(* tlsf_free on a block in use, whichever neighbours it merges with.       *)
LEMMA FreeBlockSound ==
  ASSUME NEW h, NEW S, Sound(h, S), NEW b \in Busy(h), NEW g, g = FreeBlock(h, b)
  PROVE  /\ Sound(g, S) /\ Busy(g) = Busy(h) \ {b}
         /\ \A c \in Busy(h) \ {b} : g.size[c] = h.size[c]
<1> DEFINE n == NextPhys(h, b)
           k == MergeNext(Flag(h, b), b)
           p == k.prev_physical[b]
           m == MergePrev(k, b)
<1>1. n = NextPhys(h, b) /\ k = MergeNext(Flag(h, b), b) /\ p = k.prev_physical[b]
      /\ m = MergePrev(k, b)
  OBVIOUS
<1>2. /\ PrevMerges(k, b) => g = Insert(MarkSuccessor(m, p), p)
      /\ ~PrevMerges(k, b) => g = Insert(MarkSuccessor(k, b), b)
  BY DEF FreeBlock, Flag
<1> HIDE DEF n, k, p, m
<1>3. /\ Sound(k, S \cup {b}) /\ Busy(k) = Busy(h) \ {b} /\ b \in Idle(k)
      /\ b \notin k.listed /\ \A c \in Busy(h) \ {b} : k.size[c] = h.size[c]
  BY <1>1, FirstMerge
<1>4. CASE ~PrevMerges(k, b)
  <2>1. g = Insert(MarkSuccessor(k, b), b) /\ (S \cup {b}) \cap Idle(k) \subseteq S \cup {b}
    BY <1>2, <1>4
  <2>2. Sound(g, S) /\ Busy(g) = Busy(k) /\ g.size = k.size
    <3>1. Finished(k, S, b, g)
      BY <1>3, <2>1, FinishFree
    <3>. QED BY <3>1 DEF Finished
  <2>. QED BY <1>3, <2>2
<1>5. CASE PrevMerges(k, b)
  <2> DEFINE T == S \cup {b}
             U == T \cup {p}
  <2>1. Sound(k, T)
    BY <1>3
  <2> HIDE DEF T
  <2>2. /\ Sound(m, U) /\ Busy(m) = Busy(k) /\ p \in Idle(m)
        /\ Idle(m) = Idle(k) \ {b} /\ \A c \in Busy(k) : m.size[c] = k.size[c]
    <3>1. MergedBack(k, T, b, p, m)
      BY <1>1, <1>3, <1>5, <2>1, LastMerge
    <3>. QED BY <3>1 DEF MergedBack
  <2>3. U \cap Idle(m) \subseteq S \cup {p}
    BY <2>2 DEF T
  <2>4. g = Insert(MarkSuccessor(m, p), p)
    BY <1>2, <1>5
  <2> HIDE DEF U
  <2>5. Sound(g, S) /\ Busy(g) = Busy(m) /\ g.size = m.size
    <3>1. Finished(m, S, p, g)
      BY <2>2, <2>3, <2>4, FinishFree
    <3>. QED BY <3>1 DEF Finished
  <2>. QED BY <1>3, <2>2, <2>5
<1>. QED BY <1>4, <1>5

(* A block off the free lists, large enough for n units, in a sound        *)
(* region; the PREV_FREE flag after it may be stale.                       *)
Carvable(h, S, b, n) ==
  /\ h \in Heaps /\ Tiled(h) /\ Tagged(h, {NextPhys(h, b)}) /\ Listing(h, S \cup {b})
  /\ b \in Starts(h) /\ b \notin h.listed /\ n \in Nat \ {0} /\ n <= h.size[b]

(* What carving n units from it must achieve: the block is in use and      *)
(* large enough, no other block moves or changes size, and nothing but a   *)
(* new remainder enters a free list.                                       *)
Carved(h, S, b, n, g) ==
  /\ Sound(g, S) /\ Busy(g) = Busy(h) \cup {b} /\ g.size[b] >= n
  /\ \A c \in Starts(h) \ {b} : c \in Starts(g) /\ g.size[c] = h.size[c]
  /\ g.listed \cap Starts(h) \subseteq h.listed

(* The remainder is a new block, and listed; the flag after it is set.     *)
Cut(h, b, n, g) ==
  /\ b + n \in Offsets /\ b + n \notin Starts(h) /\ b + n # RegionSize
  /\ g.listed = h.listed \cup {b + n}
  /\ g.size[b + n] = h.size[b] - n /\ \A o \in Offsets \ {b, b + n} : g.size[o] = h.size[o]
  /\ NextPhys(g, b + n) = NextPhys(h, b) /\ g.prev_free[NextPhys(h, b)]
  /\ \A o \in Offsets \ {b + n, NextPhys(h, b)} : g.prev_free[o] = h.prev_free[o]

(* There is no remainder, and the flag after the block is cleared.         *)
Uncut(h, b, g) ==
  /\ g.listed = h.listed /\ g.size = h.size
  /\ \A o \in Offsets \ {NextPhys(h, b)} : g.prev_free[o] = h.prev_free[o]

(* Carving when the remainder is too small: the block is handed out        *)
(* whole.                                                                  *)
LEMMA WholeSound ==
  ASSUME NEW h, NEW S, NEW b, NEW n, Carvable(h, S, b, n),
         NEW g, g = WholeBlock(h, b, h.size[b])
  PROVE  Carved(h, S, b, n, g) /\ Uncut(h, b, g)
<1> DEFINE after == NextPhys(h, b)
<1>1. /\ h \in Heaps /\ b \in Starts(h) /\ b \in Offsets /\ after \in Offsets
      /\ RegionSize \in Offsets /\ Starts(h) \subseteq Offsets /\ b # RegionSize
      /\ b + h.size[b] = after /\ h.size[b] \in Nat /\ Tagged(h, {after})
      /\ Tiled(h) /\ Listing(h, S \cup {b})
  <2>1. h \in Heaps /\ b \in Starts(h) /\ Tiled(h) /\ Listing(h, S \cup {b}) /\ Tagged(h, {after})
    BY DEF Carvable
  <2>2. b + h.size[b] = after /\ Starts(h) \subseteq Offsets
    BY DEF NextPhys, Starts
  <2>. QED BY <2>1, <2>2, Start, TlsfPoolAssumption DEF Offsets
<1> HIDE DEF after
<1>2. /\ g \in Heaps /\ g.size = h.size /\ g.listed = h.listed
      /\ g.prev_physical = h.prev_physical
      /\ g.free = [h.free EXCEPT ![b] = FALSE]
      /\ g.prev_free = [h.prev_free EXCEPT ![after] = FALSE]
  BY <1>1, Zenon DEF WholeBlock, Heaps
<1>3. /\ ~g.free[b] /\ \A o \in Offsets \ {b} : g.free[o] = h.free[o]
      /\ ~g.prev_free[after] /\ \A o \in Offsets \ {after} : g.prev_free[o] = h.prev_free[o]
  BY <1>1, <1>2, HeapFields
<1>4. Starts(g) = Starts(h) /\ (\A c : NextPhys(g, c) = NextPhys(h, c)) /\ Tiled(g)
  BY <1>1, <1>2, SameSizes
<1>5. Busy(g) = Busy(h) \cup {b} /\ Idle(g) = Idle(h) \ {b}
  BY <1>1, <1>3, <1>4, Zenon DEF Busy, Idle
<1>6. Tagged(g, {})
  <2>1. ~g.free[RegionSize] /\ g.prev_physical[0] = NULL
    BY <1>1, <1>2, <1>3 DEF Tagged
  <2>2. \A c \in Starts(h) \ {b} : NextPhys(h, c) # after /\ NextPhys(h, c) \in Offsets
    BY <1>1, Start DEF Tagged, after
  <2>3. \A c \in Starts(h) : g.prev_free[NextPhys(h, c)] => g.free[c]
    BY <1>1, <1>3, <2>2, Zenon DEF Tagged, after
  <2>. QED BY <1>1, <1>2, <1>4, <2>1, <2>3 DEF Tagged
<1>7. Listing(g, S)
  BY <1>1, <1>2, <1>5 DEF Listing, Carvable
<1>8. g.size[b] >= n
  BY <1>2 DEF Carvable
<1>9. \A c \in Starts(h) \ {b} : c \in Starts(g) /\ g.size[c] = h.size[c]
  BY <1>2, <1>4
<1>10. Uncut(h, b, g)
  BY <1>2, <1>3 DEF Uncut, after
<1>11. Carved(h, S, b, n, g)
  BY <1>2, <1>4, <1>5, <1>6, <1>7, <1>8, <1>9, Zenon DEF Carved, Sound
<1>. QED BY <1>10, <1>11

(* A header written strictly inside a block cuts it in two and leaves the  *)
(* region tiled.                                                           *)
LEMMA SplitTiled ==
  ASSUME NEW h \in Heaps, Tiled(h), NEW b \in Starts(h), NEW s \in Nat, NEW a,
         a = NextPhys(h, b), b < s, s < a, NEW g \in Heaps,
         g.size[b] = s - b, g.size[s] = a - s, \A o \in Offsets \ {b, s} : g.size[o] = h.size[o]
  PROVE  /\ s \notin Starts(h) /\ s \in Offsets /\ s # RegionSize
         /\ Starts(g) = Starts(h) \cup {s}
         /\ NextPhys(g, b) = s /\ NextPhys(g, s) = a
         /\ \A c \in Starts(h) \ {b} : NextPhys(g, c) = NextPhys(h, c)
         /\ Tiled(g)
<1>0. /\ b \in Nat /\ a \in Nat /\ b < RegionSize /\ a <= RegionSize /\ RegionSize \in Nat
      /\ b \in Offsets /\ a \in Offsets
  BY Start, TlsfPoolAssumption
<1>1. s \in Offsets /\ s < RegionSize
  BY <1>0 DEF Offsets
<1>2. s \notin Starts(h)
  <2>1. ASSUME s \in Starts(h) PROVE a <= s
    BY <2>1 DEF Tiled
  <2>. QED BY <2>1, <1>0
<1>3. Starts(g) = Starts(h) \cup {s}
  <2>1. \A o \in Offsets : o < RegionSize /\ g.size[o] > 0
                            <=> (o < RegionSize /\ h.size[o] > 0) \/ o = s
    <3>1. \A o \in Offsets \ {b, s} : o < RegionSize /\ g.size[o] > 0
                            <=> (o < RegionSize /\ h.size[o] > 0) \/ o = s
      OBVIOUS
    <3>2. g.size[b] > 0 /\ h.size[b] > 0
      BY <1>0, Start
    <3>3. g.size[s] > 0
      BY <1>0
    <3>. QED BY <1>0, <1>1, <3>1, <3>2, <3>3
  <2>. QED BY <1>1, <2>1, Zenon DEF Starts
<1>4. NextPhys(g, b) = s /\ NextPhys(g, s) = a
  BY <1>0 DEF NextPhys
<1>5. \A c \in Starts(h) \ {b} : NextPhys(g, c) = NextPhys(h, c) /\ c # s
  <2>1. \A c \in Starts(h) \ {b} : c # s /\ c \in Offsets
    BY <1>2 DEF Starts
  <2>. QED BY <2>1, Zenon DEF NextPhys
<1>6. Tiled(g)
  <2>1. 0 \in Starts(g)
    BY <1>3 DEF Tiled
  <2>2. \A c \in Starts(g) : NextPhys(g, c) \in Starts(g) \cup {RegionSize}
    BY <1>3, <1>4, <1>5 DEF Tiled
  <2>3. ASSUME NEW c \in Starts(g), NEW d \in Starts(g), c < d PROVE NextPhys(g, c) <= d
    <3>1. c \in Nat /\ d \in Nat
      BY Start
    <3>2. CASE c = b
      <4>1. CASE d = s
        BY <3>2, <4>1, <1>4
      <4>2. CASE d \in Starts(h)
        <5>1. a <= d
          BY <2>3, <3>2, <4>2 DEF Tiled
        <5>. QED BY <5>1, <3>1, <3>2, <1>0, <1>4
      <4>. QED BY <4>1, <4>2, <1>3
    <3>3. CASE c = s
      <4>1. d \in Starts(h) /\ b < d
        BY <2>3, <3>1, <3>3, <1>0, <1>3
      <4>. QED BY <4>1, <3>3, <1>4 DEF Tiled
    <3>4. CASE c \in Starts(h) \ {b}
      <4>1. CASE d = s
        <5>1. c < b
          <6>1. ASSUME b < c PROVE a <= c
            BY <3>4, <6>1 DEF Tiled
          <6>. QED BY <6>1, <2>3, <4>1, <3>1, <3>4, <1>0
        <5>2. NextPhys(h, c) <= b /\ NextPhys(h, c) \in Nat
          BY <3>4, <5>1, Start DEF Tiled
        <5>. QED BY <5>2, <1>0, <1>5, <3>4, <4>1
      <4>2. CASE d \in Starts(h)
        BY <2>3, <3>4, <4>2, <1>5 DEF Tiled
      <4>. QED BY <4>1, <4>2, <1>3
    <3>. QED BY <3>2, <3>3, <3>4, <1>3
  <2>4. ASSUME NEW c \in Starts(g) \ {0} PROVE \E d \in Starts(g) : NextPhys(g, d) = c
    <3>1. CASE c = s
      BY <3>1, <1>3, <1>4, Zenon
    <3>2. CASE c \in Starts(h)
      <4>1. PICK d \in Starts(h) : NextPhys(h, d) = c
        BY <3>2 DEF Tiled
      <4>2. CASE d = b
        BY <4>1, <4>2, <1>3, <1>4
      <4>3. CASE d # b
        BY <4>1, <4>3, <1>3, <1>5
      <4>. QED BY <4>2, <4>3
    <3>. QED BY <3>1, <3>2, <1>3
  <2>. QED BY <2>1, <2>2, <2>3, <2>4 DEF Tiled
<1>. QED BY <1>1, <1>2, <1>3, <1>4, <1>5, <1>6, TlsfPoolAssumption

(* Two flag updates leave a table of flags.                                *)
LEMMA TwoFlags ==
  ASSUME NEW f \in [Offsets -> BOOLEAN], NEW i, NEW j, NEW x \in BOOLEAN, NEW y \in BOOLEAN
  PROVE  [f EXCEPT ![i] = x, ![j] = y] \in [Offsets -> BOOLEAN]
BY Zenon

(* Carving when the remainder becomes a block of its own.                  *)
LEMMA SplitSound ==
  ASSUME NEW h, NEW S, NEW b, NEW n, Carvable(h, S, b, n), n < h.size[b],
         NEW g, g = SplitBlock(h, b, h.size[b], n)
  PROVE  Carved(h, S, b, n, g) /\ Cut(h, b, n, g)
<1> DEFINE a == NextPhys(h, b)
           s == b + n
<1>1. /\ h \in Heaps /\ b \in Starts(h) /\ Tiled(h) /\ Tagged(h, {a}) /\ Listing(h, S \cup {b})
      /\ n \in Nat /\ n > 0 /\ b \notin h.listed
  BY DEF Carvable
<1>2. /\ b \in Nat /\ b \in Offsets /\ a \in Offsets /\ a \in Nat /\ b < RegionSize
      /\ a <= RegionSize /\ h.size[b] \in Nat /\ a = b + h.size[b]
  BY <1>1, Start DEF NextPhys
<1>3. /\ s \in Nat /\ b < s /\ s < a /\ s \in Offsets /\ h.size[b] - n = a - s /\ n = s - b
      /\ a - s \in Nat /\ b # s /\ a # s /\ s # 0 /\ a # 0 /\ RegionSize \in Offsets
      /\ 0 \in Offsets /\ s # RegionSize
  BY <1>1, <1>2, TlsfPoolAssumption DEF Offsets
<1> HIDE DEF a
<1>4. /\ g.size = [h.size EXCEPT ![b] = n, ![s] = h.size[b] - n]
      /\ g.free = [h.free EXCEPT ![b] = FALSE, ![s] = TRUE]
      /\ g.prev_free = [h.prev_free EXCEPT ![s] = FALSE, ![a] = TRUE]
      /\ g.prev_physical = [h.prev_physical EXCEPT ![s] = b, ![a] = s]
      /\ g.listed = h.listed \cup {s}
      /\ g = [size |-> g.size, free |-> g.free, prev_free |-> g.prev_free,
              prev_physical |-> g.prev_physical, listed |-> g.listed]
  BY <1>1, <1>2, Zenon DEF SplitBlock, Insert, Heaps
<1> HIDE DEF s
<1>5. g \in Heaps
  <2>1. /\ g.size \in [Offsets -> Nat] /\ g.free \in [Offsets -> BOOLEAN]
        /\ g.prev_free \in [Offsets -> BOOLEAN] /\ g.listed \in SUBSET Offsets
        /\ g.prev_physical \in [Offsets -> Offsets \cup {NULL}]
    <3>1. h.size[b] - n \in Nat
      BY <1>3
    <3>2. g.size \in [Offsets -> Nat]
      BY <1>1, <1>2, <1>3, <1>4, <3>1, HeapFields
    <3>3. g.free \in [Offsets -> BOOLEAN] /\ g.prev_free \in [Offsets -> BOOLEAN]
      <4>1. h.free \in [Offsets -> BOOLEAN] /\ h.prev_free \in [Offsets -> BOOLEAN]
        BY <1>1, HeapFields
      <4>2. g.free \in [Offsets -> BOOLEAN]
        BY <1>4, <4>1, TwoFlags, Zenon
      <4>3. g.prev_free \in [Offsets -> BOOLEAN]
        <5>1. g.prev_free = [h.prev_free EXCEPT ![s] = FALSE, ![a] = TRUE]
          BY <1>4
        <5>. QED BY <4>1, <5>1, TwoFlags, Zenon
      <4>. QED BY <4>2, <4>3
    <3>4. g.prev_physical \in [Offsets -> Offsets \cup {NULL}]
      BY <1>1, <1>2, <1>3, <1>4, HeapFields
    <3>5. g.listed \in SUBSET Offsets
      BY <1>1, <1>3, <1>4, HeapFields, Zenon
    <3>. QED BY <3>2, <3>3, <3>4, <3>5
  <2>. QED BY <1>4, <2>1, Zenon DEF Heaps
<1>6. /\ g.size[b] = s - b /\ g.size[s] = a - s /\ \A o \in Offsets \ {b, s} : g.size[o] = h.size[o]
      /\ ~g.free[b] /\ g.free[s] /\ \A o \in Offsets \ {b, s} : g.free[o] = h.free[o]
      /\ ~g.prev_free[s] /\ \A o \in Offsets \ {a, s} : g.prev_free[o] = h.prev_free[o]
      /\ g.prev_physical[s] = b /\ g.prev_physical[a] = s
      /\ \A o \in Offsets \ {a, s} : g.prev_physical[o] = h.prev_physical[o]
  <2>1. g.size[b] = s - b /\ g.size[s] = a - s /\ \A o \in Offsets \ {b, s} : g.size[o] = h.size[o]
    BY <1>1, <1>2, <1>3, <1>4, HeapFields
  <2>2. ~g.free[b] /\ g.free[s] /\ \A o \in Offsets \ {b, s} : g.free[o] = h.free[o]
    BY <1>1, <1>2, <1>3, <1>4, HeapFields
  <2>3. ~g.prev_free[s] /\ \A o \in Offsets \ {a, s} : g.prev_free[o] = h.prev_free[o]
    BY <1>1, <1>2, <1>3, <1>4, HeapFields
  <2>4. /\ g.prev_physical[s] = b /\ g.prev_physical[a] = s
        /\ \A o \in Offsets \ {a, s} : g.prev_physical[o] = h.prev_physical[o]
    BY <1>1, <1>2, <1>3, <1>4, HeapFields
  <2>. QED BY <2>1, <2>2, <2>3, <2>4, Zenon
<1>7. /\ s \notin Starts(h) /\ Starts(g) = Starts(h) \cup {s}
      /\ NextPhys(g, b) = s /\ NextPhys(g, s) = a
      /\ \A c \in Starts(h) \ {b} : NextPhys(g, c) = NextPhys(h, c)
      /\ Tiled(g)
  <2>1. /\ h \in Heaps /\ Tiled(h) /\ b \in Starts(h) /\ s \in Nat /\ a = NextPhys(h, b)
        /\ b < s /\ s < a /\ g \in Heaps
    BY <1>1, <1>3, <1>5 DEF a
  <2>2. g.size[b] = s - b /\ g.size[s] = a - s /\ \A o \in Offsets \ {b, s} : g.size[o] = h.size[o]
    BY <1>6, Zenon
  <2>. QED BY <2>1, <2>2, SplitTiled
<1>8. Busy(g) = Busy(h) \cup {b} /\ Idle(g) = (Idle(h) \ {b}) \cup {s}
  <2>1. Starts(h) \subseteq Offsets
    BY DEF Starts
  <2>2. \A c \in Starts(h) \ {b} : g.free[c] = h.free[c]
    BY <1>6, <1>7, <2>1, Zenon
  <2>3. b \in Starts(h) /\ b # s /\ s \notin Starts(h) /\ ~g.free[b] /\ g.free[s]
        /\ Starts(g) = Starts(h) \cup {s}
    BY <1>1, <1>3, <1>6, <1>7, Zenon
  <2>4. Busy(g) = Busy(h) \cup {b}
    BY <2>2, <2>3 DEF Busy
  <2>5. Idle(g) = (Idle(h) \ {b}) \cup {s}
    BY <2>2, <2>3 DEF Idle
  <2>. QED BY <2>4, <2>5
<1>9. Tagged(g, {})
  <2>1. ~g.free[RegionSize] /\ g.prev_physical[0] = NULL
    BY <1>1, <1>2, <1>3, <1>6, Zenon DEF Tagged
  <2>2. ASSUME NEW c \in Starts(h) \ {b}
        PROVE  /\ NextPhys(h, c) # a /\ NextPhys(h, c) # s /\ NextPhys(h, c) \in Offsets
               /\ c \in Offsets /\ c # s
    <3>1. NextPhys(h, c) \in Offsets /\ c \in Offsets
      BY <1>1, Start
    <3>2. NextPhys(h, c) # a
      BY <1>1 DEF Tagged, a
    <3>3. NextPhys(h, c) # s
      BY <1>1, <1>3, <1>7 DEF Tiled
    <3>. QED BY <3>1, <3>2, <3>3, <1>7
  <2>3. \A c \in Starts(h) \ {b} : g.prev_physical[NextPhys(g, c)] = c
    <3> SUFFICES ASSUME NEW c \in Starts(h) \ {b} PROVE g.prev_physical[NextPhys(g, c)] = c
      OBVIOUS
    <3>1. NextPhys(g, c) = NextPhys(h, c) /\ NextPhys(h, c) \in Offsets \ {a, s}
      BY <1>7, <2>2, Zenon
    <3>2. h.prev_physical[NextPhys(h, c)] = c
      BY <1>1, Zenon DEF Tagged
    <3>3. g.prev_physical[NextPhys(h, c)] = h.prev_physical[NextPhys(h, c)]
      BY <1>6, <3>1, Zenon
    <3>. QED BY <3>1, <3>2, <3>3, Zenon
  <2>4. \A c \in Starts(h) \ {b} : g.prev_free[NextPhys(g, c)] => g.free[c]
    <3> SUFFICES ASSUME NEW c \in Starts(h) \ {b}, g.prev_free[NextPhys(g, c)] PROVE g.free[c]
      OBVIOUS
    <3>1. NextPhys(g, c) = NextPhys(h, c) /\ NextPhys(h, c) \in Offsets \ {a, s}
          /\ c \in Offsets \ {b, s}
      BY <1>7, <2>2, Zenon
    <3>2. h.prev_free[NextPhys(h, c)]
      BY <1>6, <3>1, Zenon
    <3>3. h.free[c]
      <4>1. NextPhys(h, c) \notin {a} /\ c \in Starts(h) /\ Tagged(h, {a})
        BY <1>1, <3>1, Zenon
      <4>. QED BY <3>2, <4>1, Zenon DEF Tagged
    <3>. QED BY <1>6, <3>1, <3>3, Zenon
  <2>5. /\ \A c \in Starts(g) : g.prev_physical[NextPhys(g, c)] = c
    BY <1>6, <1>7, <2>3
  <2>6. /\ \A c \in Starts(g) : g.prev_free[NextPhys(g, c)] => g.free[c]
    <3>1. ~g.prev_free[NextPhys(g, b)] /\ g.free[s]
      BY <1>6, <1>7, Zenon
    <3>2. \A c \in Starts(g) : c = b \/ c = s \/ c \in Starts(h) \ {b}
      BY <1>7
    <3>. QED BY <2>4, <3>1, <3>2
  <2>. QED BY <2>1, <2>5, <2>6 DEF Tagged
<1>10. Listing(g, S)
  BY <1>1, <1>4, <1>8 DEF Listing
<1>11. g.size[b] >= n
  <2>1. g.size[b] = n
    BY <1>3, <1>6, Zenon
  <2>. QED BY <1>1, <2>1
<1>12. \A c \in Starts(h) \ {b} : c \in Starts(g) /\ g.size[c] = h.size[c]
  BY <1>6, <1>7, Zenon DEF Starts
<1>13. g.listed \cap Starts(h) \subseteq h.listed
  BY <1>4, <1>7
<1>14. Carved(h, S, b, n, g)
  BY <1>5, <1>7, <1>8, <1>9, <1>10, <1>11, <1>12, <1>13, Zenon DEF Carved, Sound
<1>15. Cut(h, b, n, g)
  <2>1. g.size[s] = h.size[b] - n /\ \A o \in Offsets \ {b, s} : g.size[o] = h.size[o]
    BY <1>3, <1>6, Zenon
  <2>2. s \in Offsets /\ s # RegionSize /\ s \notin Starts(h) /\ NextPhys(g, s) = a
        /\ g.listed = h.listed \cup {s} /\ s = b + n /\ a = NextPhys(h, b)
    BY <1>3, <1>4, <1>7 DEF s, a
  <2>3. \A o \in Offsets \ {s, a} : g.prev_free[o] = h.prev_free[o]
    BY <1>6, Zenon
  <2>4. g.prev_free[a]
    <3>1. h.prev_free \in [Offsets -> BOOLEAN]
      BY <1>1, HeapFields
    <3>. QED BY <1>2, <1>4, <3>1
  <2>. QED BY <2>1, <2>2, <2>3, <2>4, Zenon DEF Cut
<1>. QED BY <1>14, <1>15

(* tlsf_alloc's carving, whether it splits or not.                         *)
LEMMA CarveSound ==
  ASSUME NEW h, NEW S, NEW b, NEW n, Carvable(h, S, b, n),
         NEW g, g = Carve(h, b, h.size[b], n)
  PROVE  /\ Carved(h, S, b, n, g)
         /\ Splits(h.size[b] - n) => Cut(h, b, n, g) /\ n < h.size[b]
         /\ ~Splits(h.size[b] - n) => Uncut(h, b, g)
<1>1. CASE Splits(h.size[b] - n)
  <2>1. n < h.size[b]
    <3>1. h.size[b] \in Nat /\ n \in Nat
      BY Start DEF Carvable
    <3>. QED BY <1>1, <3>1, TlsfPoolAssumption DEF Splits
  <2>. QED BY <1>1, <2>1, SplitSound DEF Carve
<1>2. CASE ~Splits(h.size[b] - n)
  BY <1>2, WholeSound DEF Carve
<1>. QED BY <1>1, <1>2

-----------------------------------------------------------------------------
(* tlsf_create_pool_custom establishes the invariant.                      *)
LEMMA PoolStart == Init => IInv
<1> SUFFICES ASSUME Init PROVE IInv
  OBVIOUS
<1>0. /\ RegionSize \in Nat /\ RegionSize > 0 /\ 0 \in Offsets /\ RegionSize \in Offsets
      /\ RegionSize # 0
  BY TlsfPoolAssumption DEF Offsets
<1>1. /\ heap.size = [o \in Offsets |-> IF o = 0 THEN RegionSize ELSE 0]
      /\ heap.free = [o \in Offsets |-> o = 0]
      /\ heap.prev_free = [o \in Offsets |-> FALSE]
      /\ heap.prev_physical = [o \in Offsets |-> IF o = RegionSize THEN 0 ELSE NULL]
      /\ heap.listed = {0}
      /\ heap = [size |-> heap.size, free |-> heap.free, prev_free |-> heap.prev_free,
                 prev_physical |-> heap.prev_physical, listed |-> heap.listed]
  BY DEF Init, SeedSize
<1>2. heap \in Heaps
  <2>1. heap.free \in [Offsets -> BOOLEAN] /\ heap.prev_free \in [Offsets -> BOOLEAN]
    <3>1. \A o \in Offsets : (o = 0) \in BOOLEAN
      OBVIOUS
    <3>2. heap.free = [o \in Offsets |-> o = 0] /\ heap.prev_free = [o \in Offsets |-> FALSE]
      BY <1>1
    <3>3. heap.free \in [Offsets -> BOOLEAN]
      BY <3>1, <3>2, Zenon
    <3>4. heap.prev_free \in [Offsets -> BOOLEAN]
      BY <3>2, Zenon
    <3>. QED BY <3>3, <3>4
  <2>2. /\ heap.size \in [Offsets -> Nat] /\ heap.listed \in SUBSET Offsets
        /\ heap.prev_physical \in [Offsets -> Offsets \cup {NULL}]
    BY <1>0, <1>1
  <2>. QED BY <1>1, <2>1, <2>2, Zenon DEF Heaps
<1>3. Starts(heap) = {0} /\ NextPhys(heap, 0) = RegionSize
  BY <1>0, <1>1 DEF Starts, NextPhys
<1>4. Busy(heap) = {} /\ Idle(heap) = {0}
  <2>1. heap.free[0]
    BY <1>0, <1>1, Zenon
  <2>. QED BY <1>3, <2>1 DEF Busy, Idle
<1>5. Tiled(heap)
  BY <1>3 DEF Tiled
<1>6. Tagged(heap, {})
  <2>1. /\ heap.prev_physical[RegionSize] = 0 /\ ~heap.prev_free[RegionSize]
        /\ heap.prev_physical[0] = NULL /\ ~heap.free[RegionSize]
    BY <1>0, <1>1, Zenon
  <2>. QED BY <1>3, <2>1 DEF Tagged
<1>7. Cached = {} /\ Returning = {}
  BY DEF Init, Cached, Returning
<1>8. Kinds
  BY DEF Init, Kinds
<1>9. Placed
  <2>1. \A t \in Threads : cache[t] = {} /\ back[t] = {}
    BY DEF Init
  <2>2. used = {}
    BY DEF Init
  <2>. QED BY <1>1, <1>4, <1>7, <2>1, <2>2 DEF Placed
<1>10. Listing(heap, Returning)
  BY <1>1, <1>4 DEF Listing
<1>. QED BY <1>2, <1>5, <1>6, <1>8, <1>9, <1>10 DEF IInv, Sound

(* Membership in the caches, and in the blocks on their way back, now and  *)
(* after a step.                                                           *)
LEMMA InCached == \A x : x \in Cached <=> \E t \in Threads : x \in cache[t]
BY DEF Cached

(* As InCached, for the blocks on their way back.                          *)
LEMMA InReturning == \A x : x \in Returning <=> \E t \in Threads : x \in back[t]
BY DEF Returning

(* As InCached, after a step.                                              *)
LEMMA CachedNext == \A x : x \in Cached' <=> \E t \in Threads : x \in cache'[t]
BY DEF Cached

(* As InReturning, after a step.                                           *)
LEMMA ReturningNext == \A x : x \in Returning' <=> \E t \in Threads : x \in back'[t]
BY DEF Returning

(* mp_alloc served by the thread's cache keeps the invariant, and the      *)
(* usable_size of every other block.                                       *)
LEMMA CacheHitKeeps ==
  ASSUME IInv, NEW t \in Threads, CacheHit(t)
  PROVE  IInv' /\ \A b \in used : b \in used' => usable'[b] >= usable[b]
<1>1. PICK b \in cache[t] :
        /\ cache' = [cache EXCEPT ![t] = @ \ {b}]
        /\ used' = used \cup {b}
        /\ usable' = [usable EXCEPT ![b] = heap.size[b]]
  BY Zenon DEF CacheHit
<1>2. heap' = heap /\ back' = back
  BY DEF CacheHit
<1>3. /\ cache'[t] = cache[t] \ {b} /\ \A u \in Threads \ {t} : cache'[u] = cache[u]
      /\ cache' \in [Threads -> SUBSET Offsets]
  BY <1>1 DEF IInv, Kinds
<1>4. b \in Cached /\ \A u \in Threads \ {t} : b \notin cache[u]
  BY InCached DEF IInv, Placed
<1>5. Cached' = Cached \ {b} /\ Returning' = Returning
  <2>1. \A x : x \in Cached' <=> x \in Cached \ {b}
    BY <1>3, <1>4, InCached, CachedNext
  <2>. QED BY <1>2, <2>1 DEF Returning
<1>6. b \in Offsets /\ heap.size[b] \in Nat /\ b \notin used
  <2>1. b \in Starts(heap) /\ heap \in Heaps
    BY <1>4 DEF IInv, Placed, Busy, Sound
  <2>2. b \notin used
    BY <1>4 DEF IInv, Placed
  <2>. QED BY <2>1, <2>2, Start
<1>7. /\ usable'[b] = heap.size[b] /\ \A c \in Offsets \ {b} : usable'[c] = usable[c]
      /\ usable' \in [Offsets -> Nat]
  BY <1>1, <1>6 DEF IInv, Kinds
<1>8. Kinds'
  BY <1>1, <1>2, <1>3, <1>6, <1>7 DEF IInv, Kinds
<1>9. Placed'
  <2>1. Busy(heap)' = used' \cup Cached' /\ used' \cap Cached' = {}
    BY <1>1, <1>2, <1>4, <1>5 DEF IInv, Placed
  <2>2. Idle(heap)' = heap'.listed \cup Returning' /\ heap'.listed \cap Returning' = {}
    BY <1>2, <1>5 DEF IInv, Placed
  <2>3. \A u, v \in Threads : u # v => (cache'[u] \cup back'[u]) \cap (cache'[v] \cup back'[v]) = {}
    BY <1>2, <1>3 DEF IInv, Placed
  <2>4. \A c \in used' : usable'[c] <= heap'.size[c]
    BY <1>1, <1>2, <1>6, <1>7 DEF IInv, Placed, Kinds
  <2>. QED BY <2>1, <2>2, <2>3, <2>4 DEF Placed
<1>10. Sound(heap, Returning)'
  BY <1>2, <1>5 DEF IInv
<1>11. \A c \in used : usable'[c] >= usable[c]
  BY <1>6, <1>7 DEF IInv, Kinds
<1>. QED BY <1>8, <1>9, <1>10, <1>11 DEF IInv

(* mp_free into the thread's cache keeps the invariant.                    *)
LEMMA CachePushKeeps ==
  ASSUME IInv, NEW t \in Threads, CachePush(t)
  PROVE  IInv' /\ \A b \in used : b \in used' => usable'[b] >= usable[b]
<1>1. PICK b \in used :
        /\ cache' = [cache EXCEPT ![t] = @ \cup {b}]
        /\ used' = used \ {b}
        /\ usable' = [usable EXCEPT ![b] = 0]
  BY Zenon DEF CachePush
<1>2. heap' = heap /\ back' = back
  BY DEF CachePush
<1>3. b \in Offsets /\ b \in Busy(heap) /\ b \notin Cached /\ b \notin Returning
  BY DEF IInv, Placed, Kinds, Busy, Idle
<1>4. /\ cache'[t] = cache[t] \cup {b} /\ \A u \in Threads \ {t} : cache'[u] = cache[u]
      /\ cache' \in [Threads -> SUBSET Offsets]
  BY <1>1, <1>3 DEF IInv, Kinds
<1>5. Cached' = Cached \cup {b} /\ Returning' = Returning
  <2>1. \A x : x \in Cached' <=> x \in Cached \cup {b}
    BY <1>4, InCached, CachedNext
  <2>. QED BY <1>2, <2>1 DEF Returning
<1>6. /\ usable'[b] = 0 /\ \A c \in Offsets \ {b} : usable'[c] = usable[c]
      /\ usable' \in [Offsets -> Nat]
  BY <1>1, <1>3 DEF IInv, Kinds
<1>7. Kinds'
  BY <1>1, <1>2, <1>4, <1>6 DEF IInv, Kinds
<1>8. Placed'
  <2>1. Busy(heap)' = used' \cup Cached' /\ used' \cap Cached' = {}
    BY <1>1, <1>2, <1>5 DEF IInv, Placed
  <2>2. Idle(heap)' = heap'.listed \cup Returning' /\ heap'.listed \cap Returning' = {}
    BY <1>2, <1>5 DEF IInv, Placed
  <2>3. \A u \in Threads : b \notin cache[u] \cup back[u]
    BY <1>3, InCached, InReturning
  <2>4. \A u, v \in Threads : u # v => (cache'[u] \cup back'[u]) \cap (cache'[v] \cup back'[v]) = {}
    <3>1. \A u, v \in Threads : u # v => (cache[u] \cup back[u]) \cap (cache[v] \cup back[v]) = {}
      BY DEF IInv, Placed
    <3>. QED BY <1>2, <1>4, <2>3, <3>1
  <2>5. \A c \in used' : usable'[c] <= heap'.size[c]
    BY <1>1, <1>2, <1>6 DEF IInv, Placed, Kinds
  <2>. QED BY <2>1, <2>2, <2>4, <2>5 DEF Placed
<1>9. Sound(heap, Returning)'
  BY <1>2, <1>5 DEF IInv
<1>10. \A c \in used : c \in used' => usable'[c] >= usable[c]
  BY <1>1, <1>6 DEF IInv, Kinds
<1>. QED BY <1>7, <1>8, <1>9, <1>10 DEF IInv

(* The cache's return, first step: the flag without the lock.              *)
LEMMA CachePublishKeeps ==
  ASSUME IInv, NEW t \in Threads, CachePublish(t)
  PROVE  IInv'
<1>1. PICK b \in cache[t] :
        /\ cache' = [cache EXCEPT ![t] = @ \ {b}]
        /\ back' = [back EXCEPT ![t] = {b}]
        /\ heap' = [heap EXCEPT !.free[b] = TRUE]
  BY Zenon DEF CachePublish
<1>2. used' = used /\ usable' = usable /\ back[t] = {}
  BY DEF CachePublish
<1>3. b \in Cached /\ b \in Busy(heap) /\ b \in Offsets /\ b \notin used
  <2>1. b \in Cached
    BY InCached
  <2>. QED BY <2>1 DEF IInv, Placed, Busy, Starts
<1>4. /\ cache'[t] = cache[t] \ {b} /\ \A u \in Threads \ {t} : cache'[u] = cache[u]
      /\ cache' \in [Threads -> SUBSET Offsets]
  BY <1>1 DEF IInv, Kinds
<1>5. /\ back'[t] = {b} /\ \A u \in Threads \ {t} : back'[u] = back[u]
      /\ back' \in [Threads -> SUBSET Offsets]
  BY <1>1, <1>3 DEF IInv, Kinds
<1>6. \A u, v \in Threads : u # v => (cache[u] \cup back[u]) \cap (cache[v] \cup back[v]) = {}
  BY DEF IInv, Placed
<1>7. Cached' = Cached \ {b} /\ Returning' = Returning \cup {b}
  <2>1. \A x : x \in Cached' <=> x \in Cached \ {b}
    BY <1>4, <1>6, InCached, CachedNext
  <2>2. \A x : x \in Returning' <=> x \in Returning \cup {b}
    BY <1>2, <1>5, InReturning, ReturningNext
  <2>. QED BY <2>1, <2>2
<1>8. /\ Sound(heap', Returning \cup {b}) /\ Busy(heap') = Busy(heap) \ {b}
      /\ Idle(heap') = Idle(heap) \cup {b} /\ heap'.listed = heap.listed /\ heap'.size = heap.size
      /\ b \notin heap'.listed
  <2>1. heap' = Flag(heap, b) /\ Sound(heap, Returning)
    BY <1>1 DEF IInv, Flag
  <2>. QED BY <1>3, <2>1, FlagFree
<1>9. Kinds'
  <2>1. \A u \in Threads : \A c, d \in back'[u] : c = d
    BY <1>5 DEF IInv, Kinds
  <2>. QED BY <1>2, <1>4, <1>5, <2>1 DEF IInv, Kinds
<1>10. Placed'
  <2>1. Busy(heap)' = used' \cup Cached' /\ used' \cap Cached' = {}
    BY <1>2, <1>3, <1>7, <1>8 DEF IInv, Placed
  <2>2. Idle(heap)' = heap'.listed \cup Returning' /\ heap'.listed \cap Returning' = {}
    BY <1>7, <1>8 DEF IInv, Placed
  <2>3. \A u, v \in Threads : u # v => (cache'[u] \cup back'[u]) \cap (cache'[v] \cup back'[v]) = {}
    BY <1>4, <1>5, <1>6
  <2>4. \A c \in used' : usable'[c] <= heap'.size[c]
    BY <1>2, <1>8 DEF IInv, Placed
  <2>. QED BY <2>1, <2>2, <2>3, <2>4 DEF Placed
<1>. QED BY <1>7, <1>8, <1>9, <1>10 DEF IInv

(* The cache's return, second step: the free list.                         *)
LEMMA CacheInsertKeeps ==
  ASSUME IInv, NEW t \in Threads, CacheInsert(t)
  PROVE  IInv'
<1>1. PICK b \in back[t] : heap' = Insert(heap, b)
  BY DEF CacheInsert
<1>2. used' = used /\ usable' = usable /\ cache' = cache /\ back' = [back EXCEPT ![t] = {}]
  BY DEF CacheInsert
<1>3. b \in Returning /\ b \in Idle(heap) /\ b \in Offsets /\ heap \in Heaps
  <2>1. b \in Returning
    BY InReturning
  <2>. QED BY <2>1 DEF IInv, Placed, Idle, Starts, Sound
<1>4. /\ back'[t] = {} /\ \A u \in Threads \ {t} : back'[u] = back[u]
      /\ back' \in [Threads -> SUBSET Offsets]
  BY <1>2 DEF IInv, Kinds
<1>5. \A u, v \in Threads : u # v => (cache[u] \cup back[u]) \cap (cache[v] \cup back[v]) = {}
  BY DEF IInv, Placed
<1>6. Cached' = Cached /\ Returning' = Returning \ {b}
  <2>1. \A x \in back[t] : x = b
    BY DEF IInv, Kinds
  <2>2. \A x : x \in Returning' <=> x \in Returning \ {b}
    BY <1>4, <1>5, <2>1, InReturning, ReturningNext
  <2>. QED BY <1>2, <2>2 DEF Cached
<1>7. /\ heap' \in Heaps /\ heap'.size = heap.size /\ heap'.listed = heap.listed \cup {b}
      /\ Busy(heap') = Busy(heap) /\ Idle(heap') = Idle(heap) /\ Tagged(heap', {})
  <2>1. Tagged(heap, {})
    BY DEF IInv, Sound
  <2>. QED BY <1>1, <1>3, <2>1, EditListed
<1>8. Sound(heap, Returning)'
  <2>1. Tiled(heap')
    BY <1>7, SameSizes, Zenon DEF IInv, Sound
  <2>2. Listing(heap', Returning')
    BY <1>3, <1>6, <1>7 DEF Listing, IInv, Sound
  <2>. QED BY <1>7, <2>1, <2>2 DEF Sound
<1>9. Kinds'
  BY <1>2, <1>4 DEF IInv, Kinds
<1>10. Placed'
  <2>1. Busy(heap)' = used' \cup Cached' /\ used' \cap Cached' = {}
    BY <1>2, <1>6, <1>7 DEF IInv, Placed
  <2>2. Idle(heap)' = heap'.listed \cup Returning' /\ heap'.listed \cap Returning' = {}
    BY <1>3, <1>6, <1>7 DEF IInv, Placed
  <2>3. \A u, v \in Threads : u # v => (cache'[u] \cup back'[u]) \cap (cache'[v] \cup back'[v]) = {}
    BY <1>2, <1>4, <1>5
  <2>4. \A c \in used' : usable'[c] <= heap'.size[c]
    BY <1>2, <1>7 DEF IInv, Placed
  <2>. QED BY <2>1, <2>2, <2>3, <2>4 DEF Placed
<1>. QED BY <1>8, <1>9, <1>10 DEF IInv

(* A step under the lock keeps the invariant if the region is sound after  *)
(* it, its blocks in use are the callers' and the caches', and it has      *)
(* left the returning blocks alone.                                        *)
LEMMA LockedKeeps ==
  ASSUME IInv, cache' = cache, back' = back, used' \in SUBSET Offsets, usable' \in [Offsets -> Nat],
         Sound(heap', Returning), Busy(heap') = used' \cup Cached, used' \cap Cached = {},
         Returning \subseteq Starts(heap'), (heap'.listed \cup Busy(heap')) \cap Returning = {},
         \A c \in used' : usable'[c] <= heap'.size[c]
  PROVE  IInv'
<1>1. Cached' = Cached /\ Returning' = Returning
  BY DEF Cached, Returning
<1>2. Kinds'
  BY DEF IInv, Kinds
<1>3. Idle(heap') = heap'.listed \cup Returning
  BY DEF Sound, Listing, Busy, Idle
<1>4. Placed'
  BY <1>1, <1>3 DEF IInv, Placed
<1>. QED BY <1>1, <1>2, <1>4 DEF IInv

(* A listed block that is large enough can be carved once it is off its    *)
(* list.                                                                   *)
LEMMA AllocCarvable ==
  ASSUME IInv, NEW n \in Requests, NEW b \in heap.listed, heap.size[b] >= n,
         NEW h, h = Remove(heap, b)
  PROVE  /\ Carvable(h, Returning, b, n)
         /\ heap \in Heaps /\ b \in Idle(heap) /\ b \in Starts(heap) /\ b \in Offsets
         /\ b \notin used \cup Cached \cup Returning /\ n \in Nat \ {0} /\ heap.size[b] \in Nat
         /\ h \in Heaps /\ h.size = heap.size /\ h.listed = heap.listed \ {b}
         /\ h.prev_free = heap.prev_free
         /\ Starts(h) = Starts(heap) /\ Busy(h) = Busy(heap)
<1>3. /\ heap \in Heaps /\ b \in Idle(heap) /\ b \in Starts(heap) /\ b \in Offsets
      /\ b \notin used \cup Cached \cup Returning /\ n \in Nat \ {0} /\ heap.size[b] \in Nat
  <2>1. heap \in Heaps /\ b \in Idle(heap) /\ b \in Starts(heap) /\ b \in Offsets
        /\ b \notin used \cup Cached \cup Returning
    BY DEF IInv, Placed, Sound, Idle, Busy, Starts
  <2>. QED BY <2>1, Start, TlsfPoolAssumption
<1>4. /\ h \in Heaps /\ h.size = heap.size /\ h.listed = heap.listed \ {b}
      /\ h.prev_free = heap.prev_free
      /\ Starts(h) = Starts(heap) /\ Busy(h) = Busy(heap) /\ Idle(h) = Idle(heap) /\ Tagged(h, {})
  <2>1. Tagged(heap, {})
    BY DEF IInv, Sound
  <2>. QED BY <1>3, <2>1, EditListed
<1>5. Carvable(h, Returning, b, n)
  <2>1. Tiled(h)
    BY <1>4, SameSizes DEF IInv, Sound
  <2>2. Tagged(h, {NextPhys(h, b)})
    BY <1>4 DEF Tagged
  <2>3. Listing(h, Returning \cup {b})
    BY <1>4 DEF Listing, IInv, Sound
  <2>4. n <= h.size[b]
    BY <1>3, <1>4
  <2>. QED BY <1>3, <1>4, <2>1, <2>2, <2>3, <2>4 DEF Carvable
<1>. QED BY <1>3, <1>4, <1>5

(* tlsf_alloc keeps the invariant: it needs no assumption on returning     *)
(* blocks, since it takes listed blocks only.                              *)
LEMMA AllocKeeps ==
  ASSUME IInv, NEW t \in Threads, NEW n \in Requests, TlsfAlloc(t, n)
  PROVE  IInv' /\ \A b \in used : b \in used' => usable'[b] >= usable[b]
<1>1. PICK b \in heap.listed : heap.size[b] >= n /\ AllocBlock(t, n, b)
  BY DEF TlsfAlloc, Fits
<1> DEFINE h == Remove(heap, b)
<1>2. /\ heap' = Carve(h, b, heap.size[b], n) /\ used' = used \cup {b}
      /\ usable' = [usable EXCEPT ![b] = n] /\ cache' = cache /\ back' = back
  BY <1>1 DEF AllocBlock
<1>3. /\ b \in Offsets /\ b \notin used \cup Cached \cup Returning
      /\ n \in Nat \ {0} /\ heap.size[b] \in Nat
  BY <1>1, AllocCarvable
<1>4. /\ h.size = heap.size /\ h.listed = heap.listed \ {b}
      /\ Starts(h) = Starts(heap) /\ Busy(h) = Busy(heap)
  BY <1>1, AllocCarvable
<1>5. Carvable(h, Returning, b, n)
  BY <1>1, AllocCarvable
<1> HIDE DEF h
<1>6. Carved(h, Returning, b, n, heap')
  BY <1>2, <1>4, <1>5, CarveSound, Zenon
<1>7. Returning \subseteq Idle(heap) /\ Returning \subseteq Starts(heap)
  BY DEF IInv, Placed, Idle
<1>8. Returning \subseteq Starts(heap')
  BY <1>3, <1>4, <1>6, <1>7 DEF Carved
<1>9. (heap'.listed \cup Busy(heap')) \cap Returning = {}
  <2>1. heap'.listed \cap Returning = {}
    BY <1>4, <1>6, <1>7 DEF Carved, IInv, Placed
  <2>2. Busy(heap) \cap Returning = {}
    BY <1>7 DEF Idle, Busy
  <2>. QED BY <1>3, <1>4, <1>6, <2>1, <2>2 DEF Carved
<1>10. Busy(heap') = used' \cup Cached /\ used' \cap Cached = {}
  BY <1>2, <1>3, <1>4, <1>6 DEF Carved, IInv, Placed
<1>11. /\ usable'[b] = n /\ \A c \in Offsets \ {b} : usable'[c] = usable[c]
       /\ usable' \in [Offsets -> Nat] /\ used' \in SUBSET Offsets
  BY <1>2, <1>3 DEF IInv, Kinds
<1>12. \A c \in used' : usable'[c] <= heap'.size[c]
  <2>1. \A c \in used : c \in Starts(h) \ {b} /\ c \in Offsets /\ usable[c] <= heap.size[c]
    BY <1>3, <1>4, Zenon DEF IInv, Placed, Busy, Starts
  <2>2. heap'.size[b] >= n /\ heap'.size[b] \in Nat
    <3>1. heap' \in Heaps
      BY <1>6 DEF Carved, Sound
    <3>. QED BY <1>3, <1>6, <3>1, HeapFields DEF Carved
  <2>3. \A c \in used : heap'.size[c] = heap.size[c]
    BY <1>4, <1>6, <2>1 DEF Carved
  <2>. QED BY <1>2, <1>3, <1>11, <2>1, <2>2, <2>3
<1>13. \A c \in used : usable'[c] >= usable[c]
  BY <1>3, <1>11 DEF IInv, Kinds
<1>. QED BY <1>2, <1>6, <1>8, <1>9, <1>10, <1>11, <1>12, <1>13, LockedKeeps, Zenon DEF Carved

(* tlsf_free keeps the invariant when it merges with no block on its way   *)
(* back.                                                                   *)
LEMMA FreeKeeps ==
  ASSUME IInv, NEW t \in Threads, TlsfFree(t), ReturnsUndisturbed
  PROVE  IInv' /\ \A b \in used : b \in used' => usable'[b] >= usable[b]
<1>1. PICK b \in used : /\ heap' = FreeBlock(heap, b) /\ used' = used \ {b}
                        /\ usable' = [usable EXCEPT ![b] = 0]
  BY Zenon DEF TlsfFree, FreeHeld
<1>2. cache' = cache /\ back' = back
  BY DEF TlsfFree, FreeHeld
<1>3. b \in Busy(heap) /\ b \in Offsets /\ b \notin Cached
  BY Zenon DEF IInv, Placed, Busy, Starts
<1>4. /\ Sound(heap', Returning) /\ Busy(heap') = Busy(heap) \ {b}
      /\ \A c \in Busy(heap) \ {b} : heap'.size[c] = heap.size[c]
  BY <1>1, <1>3, FreeBlockSound DEF IInv
<1>5. \A c \in Returning : heap'.size[c] = heap.size[c] /\ c \notin heap'.listed
  BY <1>2, InReturning DEF ReturnsUndisturbed
<1>6. Returning \subseteq Idle(heap)
  BY DEF IInv, Placed
<1>7. Returning \subseteq Starts(heap')
  BY <1>5, <1>6 DEF Idle, Starts
<1>8. (heap'.listed \cup Busy(heap')) \cap Returning = {}
  BY <1>4, <1>5, <1>6 DEF Busy, Idle
<1>9. /\ \A c \in Offsets \ {b} : usable'[c] = usable[c]
      /\ usable' \in [Offsets -> Nat] /\ used' \in SUBSET Offsets
  BY <1>1, <1>3 DEF IInv, Kinds
<1>10. Busy(heap') = used' \cup Cached /\ used' \cap Cached = {}
  BY <1>1, <1>3, <1>4 DEF IInv, Placed
<1>11. \A c \in used' : usable'[c] <= heap'.size[c] /\ usable'[c] >= usable[c]
  <2>1. \A c \in used' : c \in Offsets \ {b} /\ c \in Busy(heap) \ {b} /\ usable[c] <= heap.size[c]
    BY <1>1 DEF IInv, Placed, Busy, Starts
  <2>. QED BY <1>4, <1>9, <2>1 DEF IInv, Kinds
<1>. QED BY <1>2, <1>4, <1>7, <1>8, <1>9, <1>10, <1>11, LockedKeeps

(* Two heaps with the same fields are the same.                            *)
LEMMA SameFields ==
  ASSUME NEW f \in Heaps, NEW g \in Heaps, f.size = g.size, f.free = g.free,
         f.prev_free = g.prev_free, f.prev_physical = g.prev_physical, f.listed = g.listed
  PROVE  f = g
BY DEF Heaps

(* Carving overwrites the size in the block's header, so it does not       *)
(* matter what stood there: tlsf_try_inplace_expand passes the new total   *)
(* without storing it first.                                               *)
LEMMA CarveIgnoresSize ==
  ASSUME NEW h \in Heaps, NEW b, NEW z, NEW total, NEW n
  PROVE  Carve([h EXCEPT !.size[b] = z], b, total, n) = Carve(h, b, total, n)
<1> DEFINE g == [h EXCEPT !.size[b] = z]
<1>1. SplitBlock(g, b, total, n) = SplitBlock(h, b, total, n)
  BY ZenonT(60) DEF SplitBlock, Insert, Heaps
<1>2. WholeBlock(g, b, total) = WholeBlock(h, b, total)
  BY ZenonT(60) DEF WholeBlock, Heaps
<1>. QED BY <1>1, <1>2 DEF Carve

(* The heap tlsf_try_inplace_expand carves from.                           *)
Ahead(b) ==
  LET next == NextPhys(heap, b) IN
  [Absorb(heap, next) EXCEPT !.prev_physical[b + (heap.size[b] + heap.size[next])] = b]

(* A block in use and the free block after it, taken together, can be      *)
(* carved.                                                                 *)
LEMMA ExpandCarvable ==
  ASSUME IInv, NEW n \in Requests, NEW b \in used, heap.free[NextPhys(heap, b)], EnoughTogether(b, n)
  PROVE  LET next == NextPhys(heap, b)
             h == Join(heap, b)
         IN  /\ Carvable(h, Returning, b, n)
             /\ Carve(Ahead(b), b, heap.size[b] + heap.size[next], n) = Carve(h, b, h.size[b], n)
             /\ heap \in Heaps /\ b \in Busy(heap) /\ b \in Offsets /\ b \notin heap.listed
             /\ next \in Idle(heap) /\ next \notin Busy(heap)
             /\ Joined(heap, b, next, h) /\ n \in Nat \ {0} /\ n <= h.size[b]
             /\ Busy(h) = Busy(heap) \ {next} /\ Starts(h) = Starts(heap) \ {next}
             /\ NextPhys(h, b) = NextPhys(heap, next)
<1> DEFINE next == NextPhys(heap, b)
           h == Join(heap, b)
<1>3. /\ heap \in Heaps /\ Tiled(heap) /\ Tagged(heap, {}) /\ Listing(heap, Returning)
      /\ b \in Busy(heap) /\ b \in Starts(heap) /\ b \in Offsets /\ b \notin heap.listed
  BY Zenon DEF IInv, Sound, Placed, Busy, Starts, Listing, Idle
<1>4. next \in Idle(heap) /\ next \in Starts(heap) /\ next \notin Busy(heap)
  BY <1>3, Zenon DEF Tiled, Tagged, Idle, Busy
<1>5. Joined(heap, b, next, h)
  BY <1>3, <1>4, JoinFields
<1>6. /\ Tiled(h) /\ Busy(h) = Busy(heap) \ {next} /\ Idle(h) = Idle(heap) \ {next}
      /\ Starts(h) = Starts(heap) \ {next} /\ NextPhys(h, b) = NextPhys(heap, next)
  <2>1. heap \in Heaps /\ Tiled(heap) /\ b \in Starts(heap) /\ NextPhys(heap, b) \in Starts(heap)
        /\ next = NextPhys(heap, b) /\ h = Join(heap, b)
    BY <1>3, <1>4, Zenon
  <2> HIDE DEF h, next
  <2>. QED BY <2>1, JoinTiled
<1>7. Tagged(h, {NextPhys(h, b)})
  <2>1. heap \in Heaps /\ Tiled(heap) /\ b \in Starts(heap) /\ NextPhys(heap, b) \in Starts(heap)
        /\ Tagged(heap, {}) /\ h = Join(heap, b)
    BY <1>3, <1>4, Zenon
  <2> HIDE DEF h
  <2>. QED BY <2>1, JoinTagged
<1>8. Carve(Ahead(b), b, heap.size[b] + heap.size[next], n) = Carve(h, b, h.size[b], n)
  <2> DEFINE k == [Absorb(heap, next) EXCEPT !.prev_physical[b + (heap.size[b] + heap.size[next])] = b]
  <2>1. k \in Heaps
    <3>1. next \in Offsets /\ next + heap.size[next] \in Offsets
      BY <1>3, <1>4, Start, Zenon DEF NextPhys
    <3>2. b + (heap.size[b] + heap.size[next]) = next + heap.size[next]
      <4>1. b \in Nat /\ heap.size[b] \in Nat /\ heap.size[next] \in Nat
        BY <1>3, <1>4, Start
      <4>2. next = b + heap.size[b]
        BY Zenon DEF NextPhys
      <4> HIDE DEF next
      <4>. QED BY <4>1, <4>2
    <3> HIDE DEF next
    <3>. QED BY <1>3, <3>1, <3>2, ZenonT(40) DEF Absorb, Remove, Heaps
  <2>2. h = [k EXCEPT !.size[b] = heap.size[b] + heap.size[next]]
    <3> DEFINE z == heap.size[b] + heap.size[next]
               m == [k EXCEPT !.size[b] = z]
    <3>1. h \in Heaps /\ z \in Nat
      <4>1. h \in Heaps
        BY <1>5, Zenon DEF Joined
      <4>2. heap.size[b] \in Nat /\ heap.size[next] \in Nat
        BY <1>3, <1>4, Start, Zenon
      <4> HIDE DEF next, h
      <4>. QED BY <4>1, <4>2
    <3>2. h = [Absorb(heap, next) EXCEPT !.size[b] = z, !.prev_physical[b + z] = b]
      BY DEF Join
    <3>3. k = [Absorb(heap, next) EXCEPT !.prev_physical[b + z] = b]
      OBVIOUS
    <3> HIDE DEF h, k, next, z
    <3>4. m \in Heaps
      BY <2>1, <3>1, Zenon DEF Heaps
    <3>5. h.size = m.size /\ h.free = m.free /\ h.prev_free = m.prev_free
          /\ h.prev_physical = m.prev_physical /\ h.listed = m.listed
      BY <1>3, <3>2, <3>3 DEF Absorb, Remove, Heaps
    <3> HIDE DEF m
    <3>6. h = m
      BY <3>1, <3>4, <3>5, SameFields
    <3>. QED BY <3>6 DEF m, z
  <2>3. h.size[b] = heap.size[b] + heap.size[next]
    BY <1>5 DEF Joined
  <2>4. k = Ahead(b)
    BY DEF Ahead
  <2> HIDE DEF k, h, next
  <2>. QED BY <2>1, <2>2, <2>3, <2>4, CarveIgnoresSize
<1> HIDE DEF h
<1>9. n \in Nat \ {0} /\ n <= h.size[b]
  <2>1. heap.size[b] \in Nat /\ heap.size[next] \in Nat /\ n \in Nat \ {0}
    BY <1>3, <1>4, Start, TlsfPoolAssumption
  <2>. QED BY <1>5, <2>1 DEF EnoughTogether, Joined
<1> HIDE DEF next
<1>10. Carvable(h, Returning, b, n)
  <2>1. Listing(h, Returning \cup {b})
    BY <1>3, <1>5, <1>6, Zenon DEF Listing, Joined
  <2>2. b \in Starts(h) /\ b \notin h.listed
    BY <1>3, <1>4, <1>5, <1>6, Zenon DEF Joined
  <2>. QED BY <1>5, <1>6, <1>7, <1>9, <2>1, <2>2, Zenon DEF Carvable, Joined
<1>. QED BY <1>3, <1>4, <1>5, <1>6, <1>8, <1>9, <1>10, Zenon DEF next, h

(* tlsf_try_inplace_expand keeps the invariant when the block it takes is  *)
(* not on its way back, and the block it grows gains room.                 *)
LEMMA ExpandKeeps ==
  ASSUME IInv, NEW t \in Threads, NEW n \in Requests, InplaceExpand(t, n), ReturnsUndisturbed
  PROVE  IInv' /\ \A b \in used : b \in used' => usable'[b] >= usable[b]
<1>1. PICK b \in used : ExpandHeld(t, n, b)
  BY DEF InplaceExpand
<1> DEFINE next == NextPhys(heap, b)
           h == Join(heap, b)
<1>2. used' = used /\ cache' = cache /\ back' = back
  BY <1>1 DEF ExpandHeld
<1>3. /\ n > usable[b] /\ heap.free[next] /\ EnoughTogether(b, n)
      /\ heap' = Carve(Ahead(b), b, heap.size[b] + heap.size[next], n)
      /\ usable' = [usable EXCEPT ![b] = heap'.size[b]]
  BY <1>1 DEF ExpandHeld, Ahead
<1>4. /\ Carvable(h, Returning, b, n) /\ b \in Offsets /\ b \in Busy(heap) /\ next \notin Busy(heap)
      /\ Carve(Ahead(b), b, heap.size[b] + heap.size[next], n) = Carve(h, b, h.size[b], n)
  BY <1>3, ExpandCarvable, Zenon
<1>5. Joined(heap, b, next, h) /\ n \in Nat \ {0}
  BY <1>3, ExpandCarvable, Zenon
<1>6. Busy(h) = Busy(heap) \ {next} /\ Starts(h) = Starts(heap) \ {next}
  BY <1>3, ExpandCarvable, Zenon
<1>8. heap' = Carve(h, b, h.size[b], n)
  BY <1>3, <1>4, Zenon
<1> HIDE DEF h, next
<1>11. Carved(h, Returning, b, n, heap')
  BY <1>4, <1>8, CarveSound, Zenon
<1>12. \A c \in Returning : heap'.size[c] = heap.size[c] /\ c \notin heap'.listed
  BY <1>2, InReturning DEF ReturnsUndisturbed
<1>13. Returning \subseteq Idle(heap)
  BY Zenon DEF IInv, Placed
<1>14. Returning \subseteq Starts(heap')
  BY <1>12, <1>13 DEF Idle, Starts
<1>15. Busy(heap') = Busy(heap)
  BY <1>4, <1>6, <1>11, Zenon DEF Carved
<1>16. (heap'.listed \cup Busy(heap')) \cap Returning = {}
  BY <1>12, <1>13, <1>15 DEF Busy, Idle
<1>17. heap'.size[b] \in Nat /\ heap'.size[b] >= n
  <2>1. heap' \in Heaps
    BY <1>11 DEF Carved, Sound
  <2>. QED BY <1>4, <1>11, <2>1, HeapFields, Zenon DEF Carved
<1>18. /\ usable'[b] = heap'.size[b] /\ \A c \in Offsets \ {b} : usable'[c] = usable[c]
       /\ usable' \in [Offsets -> Nat] /\ used' \in SUBSET Offsets
  BY <1>2, <1>3, <1>4, <1>17, Zenon DEF IInv, Kinds
<1>19. ASSUME NEW c \in used' PROVE usable'[c] <= heap'.size[c] /\ usable'[c] >= usable[c]
  <2>1. /\ c \in Offsets /\ c \in Busy(heap) /\ c \in Starts(heap) /\ usable[c] <= heap.size[c]
        /\ usable[c] \in Nat
    BY <1>2, Zenon DEF IInv, Placed, Busy, Starts, Kinds
  <2>2. CASE c = b
    <3>1. usable'[b] = heap'.size[b] /\ heap'.size[b] \in Nat /\ heap'.size[b] >= n /\ n > usable[b]
      BY <1>3, <1>17, <1>18, Zenon
    <3>. QED BY <1>5, <2>1, <2>2, <3>1
  <2>3. CASE c # b
    <3>1. c # next
      BY <1>4, <2>1
    <3>2. heap'.size[c] = h.size[c]
      BY <1>6, <1>11, <2>1, <2>3, <3>1 DEF Carved
    <3>3. h.size[c] = heap.size[c]
      BY <1>5, <2>1, <2>3, <3>1 DEF Joined
    <3>. QED BY <1>18, <2>1, <2>3, <3>2, <3>3
  <2>. QED BY <2>2, <2>3
<1>20. Busy(heap') = used' \cup Cached /\ used' \cap Cached = {}
  BY <1>2, <1>15 DEF IInv, Placed
<1>. QED BY <1>2, <1>11, <1>14, <1>16, <1>18, <1>19, <1>20, LockedKeeps, Zenon DEF Carved

-----------------------------------------------------------------------------
(* The walk of Blocks, cut off after n steps.                              *)
Walks(f, n) ==
  f = [k \in 0..n |->
        IF k = 0 THEN 0
        ELSE IF f[k - 1] >= RegionSize THEN RegionSize
        ELSE NextPhys(heap, f[k - 1])]

INSTANCE WellFoundedInduction

(* Induction over the naturals, for a set: a least number outside S would  *)
(* have a predecessor in S.                                                *)
LEMMA SetInduction ==
  ASSUME NEW S, 0 \in S, \A n \in Nat : n \in S => n + 1 \in S
  PROVE  \A n \in Nat : n \in S
<1> DEFINE T == {n \in Nat : n \notin S}
           R == {ss \in Nat \X Nat : ss[1] < ss[2]}
<1>1. SUFFICES ASSUME T # {} PROVE FALSE
  OBVIOUS
<1>2. IsWellFoundedOn(R, Nat)
  BY NatLessThanWellFounded DEF OpToRel
<1>3. \E x \in T : \A y \in T : ~ (<<y, x>> \in R)
  <2> HIDE DEF R
  <2>. QED BY <1>1, <1>2, WFMin, T \subseteq Nat, Zenon
<1>4. PICK x \in T : \A y \in T : ~ (<<y, x>> \in R)
  BY <1>3
<1>5. x # 0 /\ x - 1 \in Nat
  OBVIOUS
<1>6. x - 1 \in T
  BY <1>5
<1>7. <<x-1, x>> \in R
  BY <1>5
<1>. QED BY <1>4, <1>6, <1>7

(* The recursive function that Blocks is defined with exists.              *)
LEMMA WalkExists == \E f : Walks(f, RegionSize)
<1> DEFINE S == {n \in Nat : \E f : Walks(f, n)}
           Onward(x) == IF x >= RegionSize THEN RegionSize ELSE NextPhys(heap, x)
<1>1. 0 \in S
  <2> DEFINE f == [k \in 0..0 |-> 0]
  <2>1. f = [k \in 0..0 |-> IF k = 0 THEN 0 ELSE Onward(f[k - 1])]
    OBVIOUS
  <2>2. Walks(f, 0)
    BY <2>1 DEF Walks
  <2> HIDE DEF f
  <2>. QED BY <2>2
<1>2. ASSUME NEW n \in Nat, n \in S PROVE n + 1 \in S
  <2>1. PICK f : Walks(f, n)
    BY <1>2
  <2> HIDE DEF Onward
  <2>2. f = [k \in 0..n |-> IF k = 0 THEN 0 ELSE Onward(f[k - 1])]
    BY <2>1 DEF Walks, Onward
  <2> DEFINE g == [k \in 0..(n + 1) |-> IF k = n + 1 THEN Onward(f[n]) ELSE f[k]]
  <2>3. \A k \in 0..(n + 1) : g[k] = IF k = 0 THEN 0 ELSE Onward(g[k - 1])
    <3>1. g[n + 1] = Onward(f[n]) /\ \A k \in 0..n : g[k] = f[k]
      OBVIOUS
    <3> HIDE DEF g
    <3>2. g[n + 1] = Onward(g[n + 1 - 1])
      BY <3>1
    <3>3. \A k \in 0..n : f[k] = IF k = 0 THEN 0 ELSE Onward(f[k - 1])
      BY <2>2
    <3>4. ASSUME NEW k \in 0..n PROVE g[k] = IF k = 0 THEN 0 ELSE Onward(g[k - 1])
      <4>1. CASE k = 0
        BY <3>1, <3>3, <4>1
      <4>2. CASE k # 0
        <5>1. k - 1 \in 0..n
          BY <4>2
        <5>. QED BY <3>1, <3>3, <4>2, <5>1
      <4>. QED BY <4>1, <4>2
    <3>. QED BY <3>2, <3>4
  <2>4. g = [k \in 0..(n + 1) |-> IF k = 0 THEN 0 ELSE Onward(g[k - 1])]
    <3>1. g = [k \in 0..(n + 1) |-> g[k]]
      OBVIOUS
    <3> HIDE DEF g
    <3>. QED BY <2>3, <3>1, Zenon
  <2>5. Walks(g, n + 1)
    BY <2>4 DEF Walks, Onward
  <2> HIDE DEF g
  <2>. QED BY <2>5
<1> HIDE DEF S
<1>3. RegionSize \in S
  BY <1>1, <1>2, SetInduction, TlsfPoolAssumption
<1>. QED BY <1>3 DEF S

(* In a tiled region the walk from header to header meets every header.    *)
LEMMA BlocksAreStarts ==
  ASSUME heap \in Heaps, Tiled(heap)
  PROVE  Blocks = Starts(heap)
<1> DEFINE at == CHOOSE f : Walks(f, RegionSize)
<1>1. Walks(at, RegionSize)
  BY WalkExists
<1>2. Blocks = {at[k] : k \in 0..RegionSize} \ {RegionSize}
  BY DEF Blocks, Walks
<1> HIDE DEF at
<1>0. RegionSize \in Nat /\ RegionSize > 0
  BY TlsfPoolAssumption
<1>3. /\ at[0] = 0
      /\ \A k \in 1..RegionSize : at[k] = IF at[k - 1] >= RegionSize THEN RegionSize
                                         ELSE NextPhys(heap, at[k - 1])
  BY <1>0, <1>1 DEF Walks
<1> DEFINE Good(k) == /\ at[k] \in Starts(heap) \cup {RegionSize}
                      /\ at[k] >= k
           G == {k \in Nat : k <= RegionSize => Good(k)}
<1>4. \A k \in 0..RegionSize : Good(k)
  <2>1. 0 \in G
    BY <1>3 DEF Tiled
  <2>2. ASSUME NEW k \in Nat, k \in G PROVE k + 1 \in G
    <3>1. SUFFICES ASSUME k + 1 <= RegionSize PROVE Good(k + 1)
      OBVIOUS
    <3>2. Good(k) /\ k + 1 \in 1..RegionSize /\ k + 1 - 1 = k
      BY <1>0, <2>2, <3>1
    <3>3. CASE at[k] = RegionSize
      BY <1>0, <1>3, <3>1, <3>2, <3>3
    <3>4. CASE at[k] \in Starts(heap)
      <4>1. at[k] \in Nat /\ at[k] < RegionSize /\ at[k] < NextPhys(heap, at[k])
            /\ NextPhys(heap, at[k]) \in Nat
        BY <3>4, Start
      <4>2. at[k + 1] = NextPhys(heap, at[k])
        BY <1>0, <1>3, <3>2, <4>1
      <4>. QED BY <3>2, <3>4, <4>1, <4>2 DEF Tiled
    <3>. QED BY <3>2, <3>3, <3>4
  <2>3. \A k \in Nat : k \in G
    <3> HIDE DEF G
    <3>. QED BY <2>1, <2>2, SetInduction
  <2>. QED BY <1>0, <2>3
<1>5. Blocks \subseteq Starts(heap)
  BY <1>2, <1>4
<1>6. ASSUME NEW c \in Starts(heap) PROVE c \in Blocks
  <2>1. c \in Nat /\ c < RegionSize
    BY Start
  <2>2. SUFFICES ASSUME \A k \in 0..RegionSize : at[k] # c PROVE FALSE
    BY <1>2, <2>1
  <2> DEFINE H == {k \in Nat : k <= RegionSize => at[k] < c}
  <2>3. 0 \in H
    BY <1>0, <1>3, <2>1, <2>2
  <2>4. ASSUME NEW k \in Nat, k \in H PROVE k + 1 \in H
    <3>1. SUFFICES ASSUME k + 1 <= RegionSize PROVE at[k + 1] < c
      OBVIOUS
    <3>2. k \in 0..RegionSize /\ k + 1 \in 1..RegionSize /\ k + 1 - 1 = k /\ at[k] < c
      BY <1>0, <2>4, <3>1
    <3>3. at[k] \in Starts(heap) /\ at[k] \in Nat
      <4>1. at[k] \in Starts(heap)
        <5>1. at[k] # RegionSize
          BY <1>0, <2>1, <3>2
        <5>. QED BY <1>4, <3>2, <5>1
      <4>. QED BY <4>1, Start
    <3>4. at[k + 1] = NextPhys(heap, at[k])
      BY <1>0, <1>3, <2>1, <3>2, <3>3
    <3>5. NextPhys(heap, at[k]) <= c /\ NextPhys(heap, at[k]) \in Nat
      BY <3>2, <3>3, Start, Zenon DEF Tiled
    <3>. QED BY <2>1, <2>2, <3>2, <3>4, <3>5
  <2>5. \A k \in Nat : k \in H
    <3> HIDE DEF H
    <3>. QED BY <2>3, <2>4, SetInduction
  <2>6. at[RegionSize] < c /\ at[RegionSize] \in Nat /\ at[RegionSize] >= RegionSize
    <3>1. at[RegionSize] < c
      BY <1>0, <2>5
    <3>2. Good(RegionSize)
      BY <1>0, <1>4
    <3>. QED BY <1>0, <3>1, <3>2, Start
  <2>. QED BY <1>0, <2>1, <2>6
<1>. QED BY <1>5, <1>6

-----------------------------------------------------------------------------
(* Every step keeps the invariant, and takes no room from a caller.        *)
LEMMA PoolStep ==
  ASSUME IInv, Next, ReturnsUndisturbed
  PROVE  IInv' /\ \A b \in used : b \in used' => usable'[b] >= usable[b]
<1>1. PICK t \in Threads :
        \/ CacheHit(t) \/ CachePush(t) \/ CachePublish(t) \/ CacheInsert(t)
        \/ TlsfFree(t)
        \/ \E n \in Requests : TlsfAlloc(t, n) \/ InplaceExpand(t, n)
  BY DEF Next
<1>2. CASE CacheHit(t)
  BY <1>2, CacheHitKeeps
<1>3. CASE CachePush(t)
  BY <1>3, CachePushKeeps
<1>4. CASE CachePublish(t) \/ CacheInsert(t)
  <2>1. IInv'
    BY <1>4, CachePublishKeeps, CacheInsertKeeps
  <2>2. usable' = usable
    BY <1>4 DEF CachePublish, CacheInsert
  <2>3. \A b \in used : usable[b] \in Nat
    BY DEF IInv, Kinds
  <2>. QED BY <2>1, <2>2, <2>3
<1>5. CASE TlsfFree(t)
  BY <1>5, FreeKeeps
<1>6. CASE \E n \in Requests : TlsfAlloc(t, n) \/ InplaceExpand(t, n)
  BY <1>6, AllocKeeps, ExpandKeeps
<1>. QED BY <1>1, <1>2, <1>3, <1>4, <1>5, <1>6

(* The invariant depends on the variables only.                            *)
LEMMA PoolStutter ==
  ASSUME IInv, UNCHANGED vars
  PROVE  IInv'
<1>1. /\ heap' = heap /\ used' = used /\ cache' = cache /\ back' = back /\ usable' = usable
  BY DEF vars
<1>2. Cached' = Cached /\ Returning' = Returning
  BY <1>1 DEF Cached, Returning
<1>3. Kinds'
  BY <1>1 DEF IInv, Kinds
<1>4. Placed'
  BY <1>1, <1>2, Zenon DEF IInv, Placed
<1>. QED BY <1>1, <1>2, <1>3, <1>4 DEF IInv

(* The invariant says what Tiling and BoundaryTags say of the walk.        *)
LEMMA TilingHolds == IInv => Tiling /\ BoundaryTags
<1> SUFFICES ASSUME IInv PROVE Tiling /\ BoundaryTags
  OBVIOUS
<1>1. Blocks = Starts(heap) /\ heap \in Heaps /\ Tiled(heap) /\ Tagged(heap, {})
  BY BlocksAreStarts DEF IInv, Sound
<1>2. Starts(heap) = Busy(heap) \cup Idle(heap) /\ Busy(heap) \cap Idle(heap) = {}
  BY DEF Busy, Idle
<1>3. \A b \in Blocks : heap.size[b] > 0 /\ NextPhys(heap, b) \in Blocks \cup {RegionSize}
  BY <1>1, Zenon DEF Starts, Tiled
<1>4. /\ Blocks = heap.listed \cup used \cup Cached \cup Returning
      /\ heap.listed \cap used = {} /\ (heap.listed \cup used) \cap (Cached \cup Returning) = {}
  BY <1>1, <1>2, Zenon DEF IInv, Placed
<1>5. Tiling
  BY <1>3, <1>4 DEF Tiling, IInv, Placed
<1>6. \A b \in Starts(heap) : heap.free[b] <=> b \in heap.listed \cup Returning
  BY DEF IInv, Placed, Idle
<1>7. BoundaryTags
  BY <1>1, <1>6 DEF BoundaryTags, Tagged
<1>. QED BY <1>5, <1>7

(* For any number of threads, any region and request sizes: the headers    *)
(* tile the region, each block is in exactly one place, and the boundary   *)
(* tags that tlsf_free merges by tell the truth, in every behaviour in     *)
(* which no block is merged while it is on its way back from a cache.      *)
(* That race is the only way Tiling breaks (run TlsfPoolRace shows that    *)
(* it does break it).                                                      *)
THEOREM RegionSound ==
  Spec /\ [][ReturnsUndisturbed]_vars => [](Tiling /\ BoundaryTags)
<1>1. Init => IInv
  BY PoolStart
<1>2. IInv /\ [Next]_vars /\ [ReturnsUndisturbed]_vars => IInv'
  BY PoolStep, PoolStutter DEF vars
<1>3. IInv => Tiling /\ BoundaryTags
  BY TilingHolds
<1>. QED BY <1>1, <1>2, <1>3, PTL DEF Spec

(* Under the same condition no step of any thread makes a caller's block   *)
(* smaller than its usable_size, and mp_realloc in place never lowers it.  *)
THEOREM CallersKeepTheirSpace ==
  Spec /\ [][ReturnsUndisturbed]_vars => BlockKeepsItsSpace
<1>1. Init => IInv
  BY PoolStart
<1>2. IInv /\ [Next]_vars /\ [ReturnsUndisturbed]_vars => IInv'
  BY PoolStep, PoolStutter DEF vars
<1>3. ASSUME IInv, IInv', [Next]_vars, [ReturnsUndisturbed]_vars
      PROVE  [\A b \in used' : /\ heap'.size[b] >= usable'[b]
                               /\ b \in used => usable'[b] >= usable[b]]_vars
  <2>1. CASE UNCHANGED vars
    BY <2>1
  <2>2. CASE Next /\ ReturnsUndisturbed
    <3>1. \A b \in used : b \in used' => usable'[b] >= usable[b]
      BY <1>3, <2>2, PoolStep
    <3>2. \A b \in used' : usable'[b] <= heap'.size[b] /\ usable'[b] \in Nat /\ heap'.size[b] \in Nat
      <4>1. \A b \in used' : b \in Offsets /\ usable'[b] <= heap'.size[b]
        BY <1>3, Zenon DEF IInv, Placed, Kinds
      <4>2. usable' \in [Offsets -> Nat] /\ heap' \in Heaps
        BY <1>3 DEF IInv, Kinds, Sound
      <4>. QED BY <4>1, <4>2, HeapFields
    <3>. QED BY <3>1, <3>2
  <2>. QED BY <1>3, <2>1, <2>2
<1>. QED BY <1>1, <1>2, <1>3, PTL DEF Spec, BlockKeepsItsSpace

(* With one thread nothing can come between the two steps of the cache's   *)
(* return.                                                                 *)
LEMMA AloneUndisturbed ==
  ASSUME NEW t, Threads = {t}, IInv, Next
  PROVE  ReturnsUndisturbed
<1>1. CASE back[t] = {}
  BY <1>1 DEF ReturnsUndisturbed
<1>2. CASE back[t] # {}
  <2>1. CacheInsert(t)
    BY <1>2, Zenon DEF Next, CacheHit, CachePush, CachePublish, TlsfFree, FreeHeld, TlsfAlloc,
           AllocBlock, InplaceExpand, ExpandHeld
  <2>2. heap'.size = heap.size
    BY <2>1 DEF CacheInsert, Insert
  <2>3. back'[t] = {}
    BY <2>1 DEF CacheInsert, IInv, Kinds
  <2>. QED BY <2>2, <2>3 DEF ReturnsUndisturbed
<1>. QED BY <1>1, <1>2

(* With one thread the condition is met by the code itself: Tiling,        *)
(* BoundaryTags and BlockKeepsItsSpace hold for every region, every        *)
(* request size and every sequence of calls.                               *)
THEOREM OneThreadSound ==
  ASSUME NEW t, Threads = {t}
  PROVE  Spec => [](Tiling /\ BoundaryTags) /\ BlockKeepsItsSpace
<1>1. IInv /\ [Next]_vars => [ReturnsUndisturbed]_vars
  BY AloneUndisturbed DEF vars
<1>2. IInv /\ [Next]_vars /\ [ReturnsUndisturbed]_vars => IInv'
  BY PoolStep, PoolStutter DEF vars
<1>3. Init => IInv
  BY PoolStart
<1>4. Spec => [][ReturnsUndisturbed]_vars
  BY <1>1, <1>2, <1>3, PTL DEF Spec
<1>. QED BY <1>4, RegionSound, CallersKeepTheirSpace, PTL
=============================================================================
