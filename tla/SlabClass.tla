------------------------------ MODULE SlabClass ------------------------------
(***************************************************************************)
(* One slab size class of a thread-safe pool, slot by slot and step by     *)
(* step: the threads' private caches (tls_cache), the lock-free queue of   *)
(* remote frees with its two pending flags, and the free lists of the      *)
(* pages behind the class mutex (src/src/cmem_slab.c, and the slab tier of *)
(* mp_alloc_internal, mp_alloc_batch and mp_free in cmem_alloc.c).         *)
(*                                                                         *)
(* A step is one access to shared state, or one iteration of a loop that   *)
(* runs under sc->lock.  Lists are the sets of the slots on them: which    *)
(* slot a pop returns is a choice.  The page lists are in SlabPages; here  *)
(* the allocation path finds a free slot whenever the class has one, which *)
(* is what SlabPages establishes.                                          *)
(*                                                                         *)
(* The pool has no per-CPU freelists: every pool is created with them, so  *)
(* this is a pool after mp_set_percpu_freelist(pool, false), or one whose  *)
(* table could not be allocated.  With them mp_alloc asks the CPU's list   *)
(* before it refills and mp_free gives it the slot before the remote       *)
(* queue; that list by itself is in PercpuFreelist.                        *)
(***************************************************************************)
EXTENDS Integers, FiniteSets

CONSTANTS
  Threads,
  Pages,        \* page frames the class can map
  SlotIdx,      \* indices of the slots of a page
  NoThread,
  MaxSlots,     \* TLS_CACHE_MAX_SLOTS (256)
  RefillBatch   \* slots a refill asks for (64), also the largest batch

ASSUME SlabClassAssumption ==
  /\ NoThread \notin Threads
  /\ IsFiniteSet(Pages) /\ IsFiniteSet(SlotIdx)
  /\ MaxSlots \in Nat \ {0}
  /\ RefillBatch \in Nat \ {0}

VARIABLES
  mapped,         \* pages of the class
  free,           \* slots on a page's free list
  tls,            \* thread -> slots in its tls_cache
  live,           \* slots callers hold
  remote,         \* slots on remote_free_queue
  pending,        \* remote_free_pending
  pending_class,  \* remote_free_pending_class
  lock,           \* holder of sc->lock
  pc,             \* thread -> where it is in the operation it runs
  hold,           \* thread -> slots only this thread refers to: the chain it
                  \* harvests, the out_slots of its batch, the slot it flushes
  todo,           \* thread -> slots its refill or batch still wants
  got,            \* thread -> slots it has taken under the lock
  allocated       \* slab_allocated_bytes, in slots

vars == <<mapped, free, tls, live, remote, pending, pending_class, lock, pc,
          hold, todo, got, allocated>>

Slots == Pages \X SlotIdx
SlotsOf(p) == {p} \X SlotIdx

Init ==
  /\ mapped = {}
  /\ free = {}
  /\ tls = [t \in Threads |-> {}]
  /\ live = {}
  /\ remote = {}
  /\ pending = FALSE
  /\ pending_class = FALSE
  /\ lock = NoThread
  /\ pc = [t \in Threads |-> "idle"]
  /\ hold = [t \in Threads |-> {}]
  /\ todo = [t \in Threads |-> 0]
  /\ got = [t \in Threads |-> 0]
  /\ allocated = 0

Goto(t, label) == pc' = [pc EXCEPT ![t] = label]

Acquire(t) == lock = NoThread /\ lock' = t
Unlock(t) == lock' = NoThread

(* The saturating update of slab_allocated_bytes when a slot returns to a  *)
(* page.  Load and subtraction are one step: the slot being returned is    *)
(* counted, so no other thread's subtraction can make the test stale.      *)
UncountMutant == UNCHANGED allocated
Uncount == allocated' = IF allocated >= 1 THEN allocated - 1 ELSE 0

-----------------------------------------------------------------------------
(* mp_alloc, slab tier: harvest, pop, refill.                              *)

(* mp_alloc_internal and remote_free_harvest_all test remote_free_pending; *)
(* when it is set harvest_all clears it before it looks at the classes.    *)
AllocStart(t) ==
  /\ pc[t] = "idle"
  /\ Goto(t, IF pending THEN "class" ELSE "pop")
  /\ pending' = FALSE
  /\ UNCHANGED <<mapped, free, tls, live, remote, pending_class, lock, hold, todo, got, allocated>>

(* The class flag: skip the class when it is clear, else clear it first.   *)
CheckClass(t) ==
  /\ pc[t] = "class"
  /\ Goto(t, IF pending_class THEN "harvest_lock" ELSE "pop")
  /\ pending_class' = FALSE
  /\ UNCHANGED <<mapped, free, tls, live, remote, pending, lock, hold, todo, got, allocated>>

(* sc->lock, then the exchange that empties the queue.                     *)
HarvestLockMutant(t) ==
  /\ pc[t] = "harvest_lock"
  /\ Acquire(t)
  /\ hold' = [hold EXCEPT ![t] = remote]
  /\ Goto(t, "harvest")
  /\ UNCHANGED <<mapped, free, tls, live, remote, pending, pending_class, todo, got, allocated>>

HarvestLock(t) ==
  /\ pc[t] = "harvest_lock"
  /\ Acquire(t)
  /\ hold' = [hold EXCEPT ![t] = remote]
  /\ remote' = {}
  /\ Goto(t, "harvest")
  /\ UNCHANGED <<mapped, free, tls, live, pending, pending_class, todo, got, allocated>>

(* One slot of the chain: slab_free_nolock, as the lock is already held.   *)
HarvestOneMutant(t) ==
  /\ pc[t] = "harvest" /\ lock = NoThread
  /\ \E s \in hold[t] :
       /\ free' = free \cup {s}
       /\ hold' = [hold EXCEPT ![t] = @ \ {s}]
  /\ Uncount
  /\ UNCHANGED <<mapped, tls, live, remote, pending, pending_class, lock, pc, todo, got>>

HarvestOne(t) ==
  /\ pc[t] = "harvest"
  /\ \E s \in hold[t] :
       /\ free' = free \cup {s}
       /\ hold' = [hold EXCEPT ![t] = @ \ {s}]
  /\ Uncount
  /\ UNCHANGED <<mapped, tls, live, remote, pending, pending_class, lock, pc, todo, got>>

HarvestEndMutant(t) ==
  /\ pc[t] = "harvest" /\ hold[t] = {}
  /\ Unlock(t)
  /\ pending_class' = FALSE
  /\ Goto(t, "pop")
  /\ UNCHANGED <<mapped, free, tls, live, remote, pending, hold, todo, got, allocated>>

HarvestEnd(t) ==
  /\ pc[t] = "harvest" /\ hold[t] = {}
  /\ Unlock(t)
  /\ Goto(t, "pop")
  /\ UNCHANGED <<mapped, free, tls, live, remote, pending, pending_class, hold, todo, got, allocated>>

(* Tier 1: a slot of the thread's own cache.                               *)
PopCached(t) ==
  /\ pc[t] = "pop"
  /\ \E s \in tls[t] :
       /\ tls' = [tls EXCEPT ![t] = @ \ {s}]
       /\ live' = live \cup {s}
  /\ Goto(t, "idle")
  /\ UNCHANGED <<mapped, free, remote, pending, pending_class, lock, hold, todo, got, allocated>>

(* Tier 3: slab_alloc_with_tls_refill.                                     *)
RefillLock(t) ==
  /\ pc[t] = "pop" /\ tls[t] = {}
  /\ Acquire(t)
  /\ todo' = [todo EXCEPT ![t] = RefillBatch]
  /\ Goto(t, "drain")
  /\ UNCHANGED <<mapped, free, tls, live, remote, pending, pending_class, hold, got, allocated>>

NoFreeSlotMutant == TRUE
NoFreeSlot == free = {}

(* One slot off the pages: from a free list, or from a page mapped because *)
(* no page has a free slot.                                                *)
TakeSlot(s) ==
  \/ /\ s \in free
     /\ free' = free \ {s}
     /\ UNCHANGED mapped
  \/ /\ NoFreeSlot
     /\ s[1] \notin mapped
     /\ mapped' = mapped \cup {s[1]}
     /\ free' = free \cup (SlotsOf(s[1]) \ {s})

WantsMore(t) == todo[t] > 0

CountTaken(t) ==
  /\ todo' = [todo EXCEPT ![t] = @ - 1]
  /\ got' = [got EXCEPT ![t] = @ + 1]

(* The end of the critical section: slab_allocated_bytes gets its share.   *)
PublishTaken(t) ==
  /\ allocated' = allocated + got[t]
  /\ got' = [got EXCEPT ![t] = 0]

(* tls_cache_drain_slots, one iteration.                                   *)
DrainOne(t) ==
  /\ pc[t] = "drain" /\ WantsMore(t)
  /\ \E s \in Slots :
       /\ TakeSlot(s)
       /\ tls' = [tls EXCEPT ![t] = @ \cup {s}]
  /\ CountTaken(t)
  /\ UNCHANGED <<live, remote, pending, pending_class, lock, pc, hold, allocated>>

(* The drain has its slots, or there is no free slot and mmap fails.       *)
Exhausted(t) == todo[t] = 0 \/ NoFreeSlot

(* Phase 2: the caller gets a slot of the refilled cache, and NULL when    *)
(* there is none.  (Phase 3 would map a page after all: SlabPages.)        *)
DrainEnd(t) ==
  /\ pc[t] = "drain" /\ Exhausted(t)
  /\ \/ \E s \in tls[t] :
          /\ tls' = [tls EXCEPT ![t] = @ \ {s}]
          /\ live' = live \cup {s}
     \/ tls[t] = {} /\ UNCHANGED <<tls, live>>
  /\ PublishTaken(t)
  /\ todo' = [todo EXCEPT ![t] = 0]
  /\ Unlock(t)
  /\ Goto(t, "idle")
  /\ UNCHANGED <<mapped, free, remote, pending, pending_class, hold>>

-----------------------------------------------------------------------------
(* mp_alloc_batch, slab tier: no harvest; the cache first, then            *)
(* slab_alloc_batch for what is missing, in chunks of at most 64.          *)

BatchStart(t, n) ==
  /\ pc[t] = "idle"
  /\ \E S \in SUBSET tls[t] :
       /\ Cardinality(S) = n \/ (S = tls[t] /\ Cardinality(S) < n)
       /\ tls' = [tls EXCEPT ![t] = @ \ S]
       /\ hold' = [hold EXCEPT ![t] = S]
       /\ todo' = [todo EXCEPT ![t] = n - Cardinality(S)]
  /\ Goto(t, "batch_lock")
  /\ UNCHANGED <<mapped, free, live, remote, pending, pending_class, lock, got, allocated>>

BatchLock(t) ==
  /\ pc[t] = "batch_lock" /\ todo[t] > 0
  /\ Acquire(t)
  /\ Goto(t, "batch")
  /\ UNCHANGED <<mapped, free, tls, live, remote, pending, pending_class, hold, todo, got, allocated>>

(* slab_alloc_batch, one iteration.                                        *)
BatchOne(t) ==
  /\ pc[t] = "batch" /\ WantsMore(t)
  /\ \E s \in Slots :
       /\ TakeSlot(s)
       /\ hold' = [hold EXCEPT ![t] = @ \cup {s}]
  /\ CountTaken(t)
  /\ UNCHANGED <<tls, live, remote, pending, pending_class, lock, pc, allocated>>

(* A chunk that came back empty ends the batch; a short one is retried.    *)
BatchUnlock(t) ==
  /\ pc[t] = "batch" /\ Exhausted(t)
  /\ Unlock(t)
  /\ PublishTaken(t)
  /\ todo' = [todo EXCEPT ![t] = IF got[t] = 0 THEN 0 ELSE @]
  /\ Goto(t, "batch_lock")
  /\ UNCHANGED <<mapped, free, tls, live, remote, pending, pending_class, hold>>

BatchEnd(t) ==
  /\ pc[t] = "batch_lock" /\ todo[t] = 0
  /\ live' = live \cup hold[t]
  /\ hold' = [hold EXCEPT ![t] = {}]
  /\ Goto(t, "idle")
  /\ UNCHANGED <<mapped, free, tls, remote, pending, pending_class, lock, todo, got, allocated>>

-----------------------------------------------------------------------------
(* mp_free and mp_free_batch (flush_slab_block), slot by slot: the freeing *)
(* thread's cache, or the remote queue when that is full.                  *)

FreeToCache(t) ==
  /\ pc[t] = "idle" /\ Cardinality(tls[t]) < MaxSlots
  /\ \E s \in live :
       /\ live' = live \ {s}
       /\ tls' = [tls EXCEPT ![t] = @ \cup {s}]
  /\ UNCHANGED <<mapped, free, remote, pending, pending_class, lock, pc, hold, todo, got, allocated>>

(* remote_free_push: the CAS, then the two flags one after the other.      *)
RemotePush(t) ==
  /\ pc[t] = "idle" /\ Cardinality(tls[t]) >= MaxSlots
  /\ \E s \in live :
       /\ live' = live \ {s}
       /\ remote' = remote \cup {s}
  /\ Goto(t, "pushed")
  /\ UNCHANGED <<mapped, free, tls, pending, pending_class, lock, hold, todo, got, allocated>>

SignalPool(t) ==
  /\ pc[t] = "pushed"
  /\ pending' = TRUE
  /\ Goto(t, "signalled")
  /\ UNCHANGED <<mapped, free, tls, live, remote, pending_class, lock, hold, todo, got, allocated>>

SignalClass(t) ==
  /\ pc[t] = "signalled"
  /\ pending_class' = TRUE
  /\ Goto(t, "idle")
  /\ UNCHANGED <<mapped, free, tls, live, remote, pending, lock, hold, todo, got, allocated>>

-----------------------------------------------------------------------------
(* tls_cache_flush_pool: at thread exit, when the thread turns to another  *)
(* pool, and first thing in mp_reclaim_idle_pages and mp_reset.            *)

FlushStart(t) ==
  /\ pc[t] = "idle"
  /\ Goto(t, "flush")
  /\ UNCHANGED <<mapped, free, tls, live, remote, pending, pending_class, lock, hold, todo, got, allocated>>

(* slab_free of the next cached slot: the bytes are uncounted before the   *)
(* lock is taken; the critical section is one step.                        *)
FlushOne(t) ==
  /\ pc[t] = "flush"
  /\ \E s \in tls[t] :
       /\ tls' = [tls EXCEPT ![t] = @ \ {s}]
       /\ hold' = [hold EXCEPT ![t] = {s}]
  /\ Uncount
  /\ Goto(t, "flush_lock")
  /\ UNCHANGED <<mapped, free, live, remote, pending, pending_class, lock, todo, got>>

FlushPut(t) ==
  /\ pc[t] = "flush_lock" /\ lock = NoThread
  /\ free' = free \cup hold[t]
  /\ hold' = [hold EXCEPT ![t] = {}]
  /\ Goto(t, "flush")
  /\ UNCHANGED <<mapped, tls, live, remote, pending, pending_class, lock, todo, got, allocated>>

FlushEnd(t) ==
  /\ pc[t] = "flush" /\ tls[t] = {}
  /\ Goto(t, "idle")
  /\ UNCHANGED <<mapped, free, tls, live, remote, pending, pending_class, lock, hold, todo, got, allocated>>

UnusedPages == {p \in mapped : SlotsOf(p) \subseteq free}

(* mp_reclaim_idle_pages unmaps the pages on the empty list.  The code     *)
(* holds the pool's lock but not sc->lock while it walks the list: what is *)
(* modelled is a call made while no other thread is in a critical section  *)
(* of the class.                                                           *)
ReclaimIdlePages(t) ==
  /\ pc[t] = "flush" /\ tls[t] = {} /\ lock = NoThread
  /\ mapped' = mapped \ UnusedPages
  /\ free' = {s \in free : s[1] \notin UnusedPages}
  /\ Goto(t, "idle")
  /\ UNCHANGED <<tls, live, remote, pending, pending_class, lock, hold, todo, got, allocated>>

(* mp_reset rebuilds the free list of every page; the callers' pointers    *)
(* are void from then on.  It leaves remote_free_queue as it is.           *)
Reset(t) ==
  /\ pc[t] = "flush" /\ tls[t] = {}
  /\ free' = {s \in Slots : s[1] \in mapped}
  /\ live' = {}
  /\ allocated' = 0
  /\ Goto(t, "idle")
  /\ UNCHANGED <<mapped, tls, remote, pending, pending_class, lock, hold, todo, got>>

-----------------------------------------------------------------------------
(* The steps of an operation under way, and the calls that begin one.      *)
Step(t) ==
  \/ CheckClass(t) \/ HarvestLock(t) \/ HarvestOne(t) \/ HarvestEnd(t)
  \/ PopCached(t) \/ RefillLock(t) \/ DrainOne(t) \/ DrainEnd(t)
  \/ BatchLock(t) \/ BatchOne(t) \/ BatchUnlock(t) \/ BatchEnd(t)
  \/ SignalPool(t) \/ SignalClass(t)
  \/ FlushOne(t) \/ FlushPut(t) \/ FlushEnd(t) \/ ReclaimIdlePages(t)

Call(t) ==
  \/ AllocStart(t)
  \/ \E n \in 1..RefillBatch : BatchStart(t, n)
  \/ FreeToCache(t) \/ RemotePush(t)
  \/ FlushStart(t)

Next == \E t \in Threads : Step(t) \/ Call(t)

Spec == Init /\ [][Next]_vars

(* A thread inside an operation keeps running.                             *)
FairSpec == Spec /\ \A t \in Threads : WF_vars(Step(t))

SpecReset == Init /\ [][Next \/ \E t \in Threads : Reset(t)]_vars

-----------------------------------------------------------------------------
Labels == {"idle", "class", "harvest_lock", "harvest", "pop", "drain", "batch_lock",
           "batch", "pushed", "signalled", "flush", "flush_lock"}

TypeOK ==
  /\ mapped \subseteq Pages
  /\ free \subseteq Slots
  /\ tls \in [Threads -> SUBSET Slots]
  /\ live \subseteq Slots
  /\ remote \subseteq Slots
  /\ pending \in BOOLEAN
  /\ pending_class \in BOOLEAN
  /\ lock \in Threads \cup {NoThread}
  /\ pc \in [Threads -> Labels]
  /\ hold \in [Threads -> SUBSET Slots]
  /\ todo \in [Threads -> 0..RefillBatch]
  /\ got \in [Threads -> Nat]
  /\ allocated \in Nat

(* No slot is in two places at once: on a page's free list, in some        *)
(* thread's cache, in a chain or batch under way, on the remote queue, in  *)
(* a caller's hands.  The same slot in two places is a block handed out    *)
(* twice, sooner or later.                                                 *)
NoSlotTwice ==
  /\ free \cap live = {} /\ free \cap remote = {} /\ live \cap remote = {}
  /\ \A t \in Threads :
       /\ tls[t] \cap (free \cup live \cup remote) = {}
       /\ hold[t] \cap (free \cup live \cup remote) = {}
       /\ \A u \in Threads :
            /\ tls[t] \cap hold[u] = {}
            /\ t # u => tls[t] \cap tls[u] = {} /\ hold[t] \cap hold[u] = {}

(* Nor is one lost, and none is left of an unmapped page: the slots in all *)
(* these places together are the slots of the mapped pages.                *)
SlotsConserved ==
  free \cup live \cup remote \cup UNION {tls[t] \cup hold[t] : t \in Threads}
    = {s \in Slots : s[1] \in mapped}

(* Every slot of a mapped page is in exactly one place.                    *)
EachSlotOnce == NoSlotTwice /\ SlotsConserved

(* sc->lock is held exactly by the thread that is in a critical section.   *)
MutexHeld ==
  \A t \in Threads : pc[t] \in {"harvest", "drain", "batch"} <=> lock = t

(* slab_allocated_bytes, which every path updates at a different moment,   *)
(* counts the slots that are not on a free list; slots taken under the     *)
(* lock are counted when it is released, and a flushed slot is uncounted   *)
(* before it is put back.                                                  *)
AllocatedIsExact ==
  allocated + (IF lock \in Threads THEN got[lock] ELSE 0)
            + Cardinality({t \in Threads : pc[t] = "flush_lock"})
    = Cardinality({s \in Slots : s[1] \in mapped} \ free)

Pushing(t) == pc[t] \in {"pushed", "signalled"}

(* A non-empty remote queue is announced by the class flag, unless its     *)
(* pusher is still between the CAS and the flag, or a harvester has just   *)
(* cleared the flag and is about to take the queue.                        *)
ClassFlagCoversQueue ==
  (remote # {} /\ \A t \in Threads : ~Pushing(t) /\ pc[t] # "harvest_lock") => pending_class

(* Whoever holds sc->lock lets go of it: no path waits for it while        *)
(* holding it, and the loops under it end.                                 *)
LockReleased == \A t \in Threads : lock = t ~> lock # t

Stock == INSTANCE SlabStock WITH
  TotalSlots <- Cardinality(SlotIdx),
  stock <- [p \in Pages |-> IF p \in mapped THEN Cardinality(SlotsOf(p) \cap free) ELSE -1]

(* The page side is the stock of slots that SlabPages implements.          *)
ImplementsStock == Stock!Spec
=============================================================================
