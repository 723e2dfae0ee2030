------------------------------ MODULE ArenaLayout ------------------------------
(***************************************************************************)
(* The inside of a per-thread TLSF arena (src/src/cmem_slab.c 77-453):     *)
(* where its blocks lie, the address-sorted free list that splits and      *)
(* merges them, the mailbox, and growth in place by mp_realloc.            *)
(* ArenaLifecycle has the arena's life; here each of its steps also moves  *)
(* bytes.  There a block counts one, here live_bytes counts spans          *)
(* (live_spans), as in the code.                                           *)
(*                                                                         *)
(* A block is the address of its tlsf_block_t, in units of the alignment;  *)
(* Size is the address of the sentinel.  The arena is a record: span of    *)
(* the blocks that start at an address (0: none does), the two flags of    *)
(* size_and_flags as sets (free, prev_free), prev_physical, and free_list. *)
(***************************************************************************)
EXTENDS ArenaLifecycle, Sequences

CONSTANTS
  Size,
  MinBlock,   \* TLSF_MIN_BLOCK_SIZE
  BlockSize,  \* sizeof(tlsf_block_t)
  Overhead,   \* the two headers in front of the payload
  Canary,     \* 1 under MP_FLAG_DEBUG_CANARY
  Requests    \* total_needed of an allocation or a growth

ASSUME LayoutAssumption ==
  /\ Blocks = 0..Size - 1
  /\ MinBlock \in Nat \ {0} /\ BlockSize \in Nat /\ Canary \in {0, 1}
  /\ Requests \subseteq MinBlock..Size /\ \A n \in Requests : n >= Overhead + Canary

VARIABLES
  arena,
  remote_free,    \* the mailbox, newest first
  usable,         \* block -> usable_size in its header
  live_spans,     \* arena->live_bytes
  span_of,        \* thread -> the span its free has read
  tlsf_allocated_bytes,
  dropped         \* history: blocks whose PREV_FREE a growth has lost

lvars == <<arena, remote_free, usable, live_spans, span_of, tlsf_allocated_bytes, dropped>>
allVars == <<vars, lvars>>

(* tlsf_arena_init: one free block.                                        *)
LInit ==
  /\ Init
  /\ arena = [span |-> [b \in Blocks |-> IF b = 0 THEN Size ELSE 0],
              free |-> {0}, prev_free |-> {},
              prev_physical |-> [b \in 0..Size |-> IF b = Size THEN 0 ELSE NoBlock],
              free_list |-> <<0>>]
  /\ remote_free = <<>>
  /\ usable = [b \in Blocks |-> 0]
  /\ live_spans = 0
  /\ span_of = [t \in Threads |-> 0]
  /\ tlsf_allocated_bytes = 0
  /\ dropped = {}

-----------------------------------------------------------------------------
EndOf(a, b) == b + a.span[b]

(* tlsf_arena_unlink_free.                                                 *)
Unlinked(a, b) ==
  [a EXCEPT !.free_list = SelectSeq(@, LAMBDA x : x # b)]

(* What the physical successor of a free block is told; the sentinel keeps *)
(* only prev_physical.                                                     *)
TellNext(a, b) ==
  LET after == EndOf(a, b) IN
  [a EXCEPT !.prev_free = IF after = Size THEN @ ELSE @ \cup {after},
            !.prev_physical[after] = b]

(* A block takes in its physical successor, whose header is no more.       *)
Merged(a, b, succ) ==
  [a EXCEPT !.span = [@ EXCEPT ![b] = a.span[b] + a.span[succ], ![succ] = 0],
            !.free = @ \ {succ}, !.prev_free = @ \ {succ},
            !.prev_physical = [@ EXCEPT ![succ] = NoBlock]]

(* tlsf_arena_insert_free: find the place by address, merge with the free  *)
(* block behind and with the one before.                                   *)
InsertFreeMutant(a, b) ==
  LET l == a.free_list
      k == Cardinality({i \in DOMAIN l : \A j \in 1..i : l[j] < b})
      fore == k < Len(l) /\ EndOf(a, b) = l[k + 1]
      a1 == IF fore THEN Merged(a, b, l[k + 1]) ELSE a
  IN TellNext([a1 EXCEPT !.free = @ \cup {b}, !.prev_free = @ \ {b},
                         !.free_list = SubSeq(l, 1, k) \o <<b>>
                                       \o SubSeq(l, IF fore THEN k + 2 ELSE k + 1, Len(l))], b)

InsertFree(a, b) ==
  LET l == a.free_list
      k == Cardinality({i \in DOMAIN l : \A j \in 1..i : l[j] < b})
      fore == k < Len(l) /\ EndOf(a, b) = l[k + 1]
      back == k > 0 /\ EndOf(a, l[k]) = b
      start == IF back THEN l[k] ELSE b
      a1 == IF fore THEN Merged(a, b, l[k + 1]) ELSE a
      a2 == IF back THEN Merged(a1, l[k], b) ELSE a1
  IN TellNext([a2 EXCEPT !.free = @ \cup {start}, !.prev_free = @ \ {start},
                         !.free_list = SubSeq(l, 1, IF back THEN k - 1 ELSE k) \o <<start>>
                                       \o SubSeq(l, IF fore THEN k + 2 ELSE k + 1, Len(l))],
              start)

(* tlsf_arena_reap: the mailbox, in the order of its links.                *)
RECURSIVE Emptied(_, _)
Emptied(a, box) ==
  IF box = <<>> THEN a ELSE Emptied(InsertFree(a, Head(box)), Tail(box))

(* What is left of block b beyond need becomes a free block of its own if  *)
(* it is large enough.  (b is off the free list; its span is the whole.)   *)
Split(a, b, need) ==
  LET rem == b + need
      left == a.span[b] - need
      after == EndOf(a, b)
      cut == [a EXCEPT !.free = @ \ {b}, !.prev_free = @ \ {b}]
  IN IF left >= MinBlock + BlockSize
     THEN InsertFree([cut EXCEPT !.span[b] = need, !.span[rem] = left,
                                 !.prev_physical[rem] = b], rem)
     ELSE [cut EXCEPT !.prev_free = @ \ {after}, !.prev_physical[after] = b]

(* tlsf_arena_alloc: first fit.                                            *)
Fitting(a, need) == {i \in DOMAIN a.free_list : a.span[a.free_list[i]] >= need}
FirstFit(a, need) ==
  a.free_list[CHOOSE i \in Fitting(a, need) : \A j \in Fitting(a, need) : i <= j]

-----------------------------------------------------------------------------
(* A block that is freed is stamped anew.                                  *)
StillDropped(a) == {b \in dropped : a.span[b] > 0 /\ b \notin a.free}

LAllocTake(t) ==
  LET a == Emptied(arena, remote_free) IN
  /\ AllocTake(t)
  /\ remote_free' = <<>>
  /\ \E need \in Requests :
       IF Fitting(a, need) = {}
       THEN /\ held'[t] = NoBlock
            /\ arena' = a
            /\ UNCHANGED usable
       ELSE LET b == FirstFit(a, need) IN
            /\ held'[t] = b
            /\ arena' = Split(Unlinked(a, b), b, need)
            /\ usable' = [usable EXCEPT ![b] = need - Overhead]
  /\ dropped' = StillDropped(a)
  /\ UNCHANGED <<live_spans, span_of, tlsf_allocated_bytes>>

LAllocCount(t) ==
  /\ AllocCount(t)
  /\ live_spans' = live_spans + arena.span[held[t]]
  /\ tlsf_allocated_bytes' = tlsf_allocated_bytes + usable[held[t]]
  /\ UNCHANGED <<arena, remote_free, usable, span_of, dropped>>

LAllocPublish(t) == AllocPublish(t) /\ UNCHANGED lvars

(* mp_free takes the usable size off before it locks the pool.             *)
LFreeLock(t, b) ==
  /\ FreeLock(t, b)
  /\ tlsf_allocated_bytes' = tlsf_allocated_bytes - usable[b]
  /\ span_of' = [span_of EXCEPT ![t] = arena.span[b]]
  /\ usable' = [usable EXCEPT ![b] = 0]
  /\ UNCHANGED <<arena, remote_free, live_spans, dropped>>

LFreePut(t) ==
  LET b == held[t] IN
  /\ FreePut(t)
  /\ \/ place'[b] = "free" /\ arena' = InsertFree(arena, b) /\ UNCHANGED remote_free
     \/ place'[b] = "mailbox" /\ remote_free' = <<b>> \o remote_free /\ UNCHANGED arena
  /\ dropped' = StillDropped(arena')
  /\ UNCHANGED <<usable, live_spans, span_of, tlsf_allocated_bytes>>

LFreeUncount(t) ==
  /\ FreeUncount(t)
  /\ live_spans' = live_spans - span_of[t]
  /\ span_of' = [span_of EXCEPT ![t] = 0]
  /\ UNCHANGED <<arena, remote_free, usable, tlsf_allocated_bytes, dropped>>

LCleanup(t) ==
  /\ Cleanup(t)
  /\ arena' = Emptied(arena, remote_free)
  /\ remote_free' = <<>>
  /\ dropped' = StillDropped(arena')
  /\ UNCHANGED <<usable, live_spans, span_of, tlsf_allocated_bytes>>

(* mp_realloc of an arena block by its owner: the mailbox first, then the  *)
(* block takes in a free successor.  (Any other mp_realloc is an           *)
(* allocation and a free.)  size_and_flags is written whole: PREV_FREE of  *)
(* the grown block is lost.                                                *)
GrownBytesMutant(need, total, was) == need - was
GrownBytes(need, total, was) ==
  (IF total - need >= MinBlock + BlockSize THEN need ELSE total) - was

Grow(t, b, need) ==
  LET a == Emptied(arena, remote_free)
      acur == a.span[b]
      anext == b + acur
      total == acur + a.span[anext]
      growable == anext # Size /\ anext \in a.free /\ total >= need
      grown == Split(Merged(Unlinked(a, anext), b, anext), b, need)
      final == IF need > acur /\ growable THEN grown ELSE a
  IN
  /\ pc[t] = "idle" /\ t = Owner /\ attached /\ place[b] = "live"
  /\ need - Overhead - Canary > usable[b]
  /\ arena' = final
  /\ remote_free' = <<>>
  /\ place' = Reaped
  /\ live_spans' = live_spans + (IF need > acur /\ growable
                                 THEN GrownBytes(need, total, acur) ELSE 0)
  /\ usable' = IF need <= final.span[b]
               THEN [usable EXCEPT ![b] = final.span[b] - Overhead - Canary] ELSE usable
  /\ tlsf_allocated_bytes' = tlsf_allocated_bytes + usable'[b] - usable[b]
  /\ dropped' = StillDropped(a) \cup ({b} \cap (a.prev_free \ final.prev_free))
  /\ UNCHANGED <<live_bytes, attached, retired, claimed, finished, releases, destroyed,
                 lock, pc, held, last, span_of>>

LStep(t) ==
  \/ LAllocCount(t) \/ LAllocPublish(t)
  \/ LFreePut(t) \/ LFreeUncount(t) \/ LCleanup(t)
  \/ (FreeCheck(t) \/ RetireCheck(t)) /\ UNCHANGED lvars

LNext ==
  \/ Destroy /\ UNCHANGED lvars
  \/ \E t \in Threads :
       \/ LStep(t)
       \/ LAllocTake(t)
       \/ RetireMark(t) /\ UNCHANGED lvars
       \/ \E b \in Blocks : LFreeLock(t, b)
       \/ \E b \in Blocks, need \in Requests : Grow(t, b, need)

(* The fairness of ArenaLifecycle: Step(t) is enabled exactly when LStep(t) is. *)
LSpec == LInit /\ [][LNext]_allVars /\ \A t \in Threads : WF_vars(Step(t))

-----------------------------------------------------------------------------
(* tlsf_arena_validate: the physical chain (the flags of the blocks in     *)
(* exempt aside), and the free list.                                       *)
Starts(a) == {b \in Blocks : a.span[b] > 0}
ChainValid(a, exempt) ==
  /\ 0 \in Starts(a) /\ a.prev_physical[0] = NoBlock /\ 0 \notin a.prev_free
  /\ {EndOf(a, b) : b \in Starts(a)} = (Starts(a) \ {0}) \cup {Size}
  /\ \A b \in Starts(a) :
       LET after == EndOf(a, b) IN
       /\ a.span[b] >= MinBlock
       /\ a.prev_physical[after] = b
       /\ after \notin exempt \cup {Size} => (after \in a.prev_free <=> b \in a.free)

FreeListValid(a) ==
  LET l == a.free_list IN
  /\ \A i \in DOMAIN l : l[i] \in a.free /\ l[i] + a.span[l[i]] <= Size
  /\ \A i \in 1..Len(l) - 1 : l[i] + a.span[l[i]] < l[i + 1]

tlsf_arena_validate(excused) == ChainValid(arena, excused) /\ FreeListValid(arena)

SpanSum(S) ==
  LET upto[n \in 0..Size] == IF n = 0 THEN 0
                             ELSE upto[n - 1] + (IF n - 1 \in S THEN arena.span[n - 1] ELSE 0)
  IN upto[Size]

UsableSum(S) ==
  LET upto[n \in 0..Size] == IF n = 0 THEN 0
                             ELSE upto[n - 1] + (IF n - 1 \in S THEN usable[n - 1] ELSE 0)
  IN upto[Size]

At(ps) == {b \in Blocks : place[b] \in ps}

(* "An arena is valid after every operation": what tlsf_arena_validate     *)
(* asserts holds while threads allocate, free, reap and grow.  Blocks tile *)
(* the region, prev_physical leads back, free neighbours are merged, the   *)
(* free list is sorted and holds exactly the FREE blocks.  The PREV_FREE   *)
(* flag is right except on a block that has lost it by growing.  A block   *)
(* in use, in transit or in the mailbox is not part of a free block, and   *)
(* its span holds the payload its header promises.  "Every block is free   *)
(* by now": the cleaner finds one free block, the whole region, before it  *)
(* gives it back (the assertion of tlsf_arena_cleanup).                    *)
ArenaValid ==
  /\ tlsf_arena_validate(dropped)
  /\ arena.free = {arena.free_list[i] : i \in DOMAIN arena.free_list}
  /\ \A b \in At({"taken", "counted", "live", "freeing", "mailbox"}) :
       b \in Starts(arena) \ arena.free /\ Overhead + usable[b] <= arena.span[b]
  /\ finished => arena.free_list = <<0>> /\ arena.span[0] = Size

(* "live_bytes counts the spans of live blocks only", to the byte, with    *)
(* growth in place: off only by the frees that have put their block back   *)
(* and not counted it.  So the freer that finds its own span left is the   *)
(* last one (prev_live == span), which is what ArenaLifecycle assumes.     *)
(* tlsf_allocated_bytes is the sum of the usable sizes.                    *)
LiveSpansExact ==
  LET inHand == {t \in Threads : pc[t] \in {"put", "uncount"}}
      box == {remote_free[i] : i \in DOMAIN remote_free}
  IN
  /\ \A t \in inHand :
       span_of[t] = live_spans - SpanSum(At({"counted", "live"}))   \* the lock admits one
  /\ inHand = {} => live_spans = SpanSum(At({"counted", "live"}))
  /\ \A t \in Threads : pc[t] = "uncount" => (live_spans = span_of[t] <=> live_bytes = 1)
  /\ tlsf_allocated_bytes = UsableSum(At({"counted", "live"}))
  /\ box = At({"mailbox"}) /\ Len(remote_free) = Cardinality(box)
=============================================================================
