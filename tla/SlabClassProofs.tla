--------------------------- MODULE SlabClassProofs ---------------------------
(***************************************************************************)
(* Theorems about SlabClass, for any number of threads, pages and slots,   *)
(* in three parts.                                                         *)
(*                                                                         *)
(* No slot is lost or in two places.  The inductive invariant is the       *)
(* conjunction of TypeOK, NoSlotTwice, SlotsConserved and HoldsOnlyInside. *)
(* A page is carved into slots that are nowhere yet because every slot in  *)
(* use belongs to a mapped page (SlotsConserved); a page can be unmapped   *)
(* because its slots, all on its free list, are nowhere else               *)
(* (NoSlotTwice); and a harvest or a batch that starts overwrites no chain *)
(* of an earlier one (HoldsOnlyInside).                                    *)
(*                                                                         *)
(* SlabClass implements SlabStock: every step either leaves the free lists *)
(* of the pages alone or is one taking, mapping, giving or releasing of    *)
(* the stock.  The argument rests on SlotInv (a slot given back is not on  *)
(* a free list already and its page is mapped) and on FlushesOne.          *)
(*                                                                         *)
(* slab_allocated_bytes is exact.  The counter is updated outside the lock *)
(* and by a subtraction that saturates at zero, so the argument is that it *)
(* never saturates: the slots taken under the lock and not yet counted     *)
(* (got) are all in the cache or the batch of the lock's holder, and each  *)
(* slot being flushed is in the hand of one thread; what is left of the    *)
(* slots in use is counted.                                                *)
(***************************************************************************)
EXTENDS SlabClass, FiniteSetTheorems, TLAPS

(* The number of slots a batch takes from a cache is a natural number.     *)
LEMMA CachedCountIsNat ==
  ASSUME TypeOK, NEW t \in Threads, NEW S \in SUBSET tls[t]
  PROVE  Cardinality(S) \in Nat
<1>1. IsFiniteSet(Slots)
  BY SlabClassAssumption, FS_Product DEF Slots
<1>2. S \subseteq Slots
  BY DEF TypeOK
<1>3. IsFiniteSet(S)
  BY <1>1, <1>2, FS_Subset
<1> QED
  BY <1>3, FS_CardinalityType

(* The empty class of slab_init is well typed.                             *)
LEMMA InitTypeOK == Init => TypeOK
<1> SUFFICES ASSUME Init PROVE TypeOK
  OBVIOUS
<1>1. 0 \in 0..RefillBatch /\ 0 \in Nat
  BY SlabClassAssumption
<1> QED
  BY <1>1, Zenon DEF Init, TypeOK, Labels

(* Every action of SlabClass keeps every variable within its type.         *)
THEOREM TypeCorrect == Spec => []TypeOK
<1> USE SlabClassAssumption DEF TypeOK, Labels
<1>1. Init => TypeOK
  BY InitTypeOK
<1>2. TypeOK /\ [Next]_vars => TypeOK'
  <2> SUFFICES ASSUME TypeOK, [Next]_vars PROVE TypeOK'
    OBVIOUS
  <2> USE DEF Goto, Acquire, Unlock, Uncount
  <2>1. ASSUME NEW t \in Threads, Step(t) PROVE TypeOK'
    <3>1. CASE CheckClass(t) \/ HarvestLock(t) \/ HarvestEnd(t)
      BY <3>1, Zenon DEF CheckClass, HarvestLock, HarvestEnd
    <3>2. CASE HarvestOne(t)
      BY <3>2 DEF HarvestOne
    <3>3. CASE PopCached(t) \/ RefillLock(t)
      BY <3>3 DEF PopCached, RefillLock
    <3>4. CASE DrainOne(t)
      BY <3>4 DEF DrainOne, TakeSlot, CountTaken, WantsMore, Slots, SlotsOf
    <3>5. CASE DrainEnd(t)
      BY <3>5 DEF DrainEnd, PublishTaken
    <3>6. CASE BatchLock(t) \/ BatchUnlock(t) \/ BatchEnd(t)
      BY <3>6 DEF BatchLock, BatchUnlock, BatchEnd, PublishTaken
    <3>7. CASE BatchOne(t)
      BY <3>7 DEF BatchOne, TakeSlot, CountTaken, WantsMore, Slots, SlotsOf
    <3>8. CASE SignalPool(t) \/ SignalClass(t)
      BY <3>8, Zenon DEF SignalPool, SignalClass
    <3>9. CASE FlushOne(t) \/ FlushPut(t) \/ FlushEnd(t) \/ ReclaimIdlePages(t)
      BY <3>9 DEF FlushOne, FlushPut, FlushEnd, ReclaimIdlePages
    <3> QED
      BY <2>1, <3>1, <3>2, <3>3, <3>4, <3>5, <3>6, <3>7, <3>8, <3>9, Zenon DEF Step
  <2>2. ASSUME NEW t \in Threads, Call(t) PROVE TypeOK'
    <3>1. CASE AllocStart(t) \/ FlushStart(t)
      BY <3>1, Zenon DEF AllocStart, FlushStart
    <3>2. ASSUME NEW n \in 1..RefillBatch, BatchStart(t, n) PROVE TypeOK'
      <4>1. PICK S \in SUBSET tls[t] :
              /\ Cardinality(S) = n \/ (S = tls[t] /\ Cardinality(S) < n)
              /\ tls' = [tls EXCEPT ![t] = @ \ S]
              /\ hold' = [hold EXCEPT ![t] = S]
              /\ todo' = [todo EXCEPT ![t] = n - Cardinality(S)]
        BY <3>2, Zenon DEF BatchStart
      <4>2. n - Cardinality(S) \in 0..RefillBatch
        BY <4>1, CachedCountIsNat
      <4> QED
        BY <3>2, <4>1, <4>2 DEF BatchStart
    <3>3. CASE FreeToCache(t) \/ RemotePush(t)
      BY <3>3 DEF FreeToCache, RemotePush
    <3> QED
      BY <2>2, <3>1, <3>2, <3>3 DEF Call
  <2>3. CASE UNCHANGED vars
    BY <2>3 DEF vars
  <2> QED
    BY <2>1, <2>2, <2>3 DEF Next
<1> QED
  BY <1>1, <1>2, PTL DEF Spec

-----------------------------------------------------------------------------
(* NoSlotTwice and SlotsConserved, slot by slot.                           *)
Placed(s) ==
  \/ s \in free \/ s \in live \/ s \in remote
  \/ \E t \in Threads : s \in tls[t] \/ s \in hold[t]

Conserved == \A s \in Slots : Placed(s) <=> s[1] \in mapped

(* The slots in all the places are those of the mapped pages exactly when  *)
(* this holds of every slot.                                               *)
LEMMA ConservedBySlot == TypeOK => (SlotsConserved <=> Conserved)
<1> SUFFICES ASSUME TypeOK PROVE SlotsConserved <=> Conserved
  OBVIOUS
<1> DEFINE all == free \cup live \cup remote \cup UNION {tls[t] \cup hold[t] : t \in Threads}
<1>1. \A s : s \in all <=> Placed(s)
  BY DEF Placed
<1>2. all \subseteq Slots
  BY DEF TypeOK
<1> HIDE DEF all
<1>3. SlotsConserved <=> all = {s \in Slots : s[1] \in mapped}
  BY DEF SlotsConserved, all
<1> QED
  BY <1>1, <1>2, <1>3 DEF Conserved

(* A thread has slots in hand only inside a harvest, a batch or the free   *)
(* of a flushed slot, and leaves them with none.                           *)
HoldsOnlyInside ==
  \A t \in Threads : pc[t] \notin {"harvest", "batch_lock", "batch", "flush_lock"} => hold[t] = {}

SlotInv == TypeOK /\ NoSlotTwice /\ Conserved /\ HoldsOnlyInside

(* A slot taken off the pages was nowhere else, whichever way it was       *)
(* found; this is where the two invariants need each other.                *)
LEMMA TakenSlotIsFresh ==
  ASSUME SlotInv, NEW s \in Slots, TakeSlot(s)
  PROVE  /\ s \notin live /\ s \notin remote /\ s \notin free'
         /\ \A t \in Threads : s \notin tls[t] /\ s \notin hold[t]
         /\ \A x \in free' : /\ x \in Slots /\ x \notin live /\ x \notin remote
                             /\ \A t \in Threads : x \notin tls[t] /\ x \notin hold[t]
         /\ \A x \in Slots : x[1] \in mapped' <=> x[1] \in mapped \/ x \in free' \/ x = s
         /\ \A x \in Slots : x \in free' \/ x = s <=> x \in free \/ (x[1] \in mapped' /\ x[1] \notin mapped)
<1>1. CASE s \in free /\ free' = free \ {s} /\ UNCHANGED mapped
  BY <1>1 DEF SlotInv, NoSlotTwice, TypeOK, Conserved, Placed
<1>2. CASE /\ s[1] \notin mapped
           /\ mapped' = mapped \cup {s[1]}
           /\ free' = free \cup (SlotsOf(s[1]) \ {s})
  <2>1. \A x : x \in SlotsOf(s[1]) <=> x \in Slots /\ x[1] = s[1]
    BY DEF SlotsOf, Slots
  <2>2. \A x \in SlotsOf(s[1]) : ~Placed(x)
    BY <1>2, <2>1 DEF SlotInv, Conserved
  <2>3. \A x \in free : x[1] \in mapped
    BY DEF SlotInv, Conserved, Placed, TypeOK
  <2> QED
    BY <1>2, <2>1, <2>2, <2>3 DEF SlotInv, NoSlotTwice, TypeOK, Placed
<1> QED
  BY <1>1, <1>2 DEF TakeSlot

(* Every step keeps each slot in exactly one place.                        *)
LEMMA SlotInvStep == SlotInv /\ [Next]_vars /\ TypeOK' => SlotInv'
<1> SUFFICES ASSUME SlotInv, [Next]_vars, TypeOK' PROVE SlotInv'
  OBVIOUS
<1> USE DEF SlotInv, TypeOK, NoSlotTwice, Conserved, Placed, HoldsOnlyInside, Goto
<1>1. ASSUME NEW t \in Threads, Step(t) PROVE SlotInv'
  <2>1. CASE CheckClass(t)
    BY <2>1 DEF CheckClass
  <2>2. CASE HarvestLock(t)
    BY <2>2 DEF HarvestLock
  <2>3. CASE HarvestOne(t)
    BY <2>3 DEF HarvestOne
  <2>4. CASE HarvestEnd(t)
    BY <2>4 DEF HarvestEnd
  <2>5. CASE PopCached(t)
    BY <2>5 DEF PopCached
  <2>6. CASE RefillLock(t)
    BY <2>6 DEF RefillLock
  <2>7. CASE DrainOne(t)
    <3>1. PICK s \in Slots : TakeSlot(s) /\ tls' = [tls EXCEPT ![t] = @ \cup {s}]
      BY <2>7, Zenon DEF DrainOne
    <3> QED
      BY <2>7, <3>1, TakenSlotIsFresh DEF DrainOne
  <2>8. CASE DrainEnd(t)
    BY <2>8 DEF DrainEnd
  <2>9. CASE BatchLock(t)
    BY <2>9 DEF BatchLock
  <2>10. CASE BatchOne(t)
    <3>1. PICK s \in Slots : TakeSlot(s) /\ hold' = [hold EXCEPT ![t] = @ \cup {s}]
      BY <2>10, Zenon DEF BatchOne
    <3> QED
      BY <2>10, <3>1, TakenSlotIsFresh DEF BatchOne
  <2>11. CASE BatchUnlock(t)
    BY <2>11 DEF BatchUnlock
  <2>12. CASE BatchEnd(t)
    BY <2>12 DEF BatchEnd
  <2>13. CASE SignalPool(t)
    BY <2>13 DEF SignalPool
  <2>14. CASE SignalClass(t)
    BY <2>14 DEF SignalClass
  <2>15. CASE FlushOne(t)
    BY <2>15 DEF FlushOne
  <2>16. CASE FlushEnd(t)
    BY <2>16 DEF FlushEnd
  <2>18. CASE FlushPut(t)
    BY <2>18 DEF FlushPut
  <2>17. CASE ReclaimIdlePages(t)
    <3>1. \A x \in Slots : x[1] \in UnusedPages => x \in free
      BY DEF UnusedPages, SlotsOf, Slots
    <3> QED
      BY <2>17, <3>1, ZenonT(40) DEF ReclaimIdlePages
  <2> QED
    BY <1>1, <2>1, <2>2, <2>3, <2>4, <2>5, <2>6, <2>7, <2>8, <2>9, <2>10, <2>11, Zenon,
       <2>12, <2>13, <2>14, <2>15, <2>16, <2>17, <2>18 DEF Step
<1>2. ASSUME NEW t \in Threads, Call(t) PROVE SlotInv'
  <2>1. CASE AllocStart(t)
    BY <2>1 DEF AllocStart
  <2>2. ASSUME NEW n \in 1..RefillBatch, BatchStart(t, n) PROVE SlotInv'
    <3>1. PICK S \in SUBSET tls[t] :
            /\ tls' = [tls EXCEPT ![t] = @ \ S]
            /\ hold' = [hold EXCEPT ![t] = S]
      BY <2>2, Zenon DEF BatchStart
    <3> QED
      BY <2>2, <3>1 DEF BatchStart
  <2>3. CASE FreeToCache(t)
    BY <2>3 DEF FreeToCache
  <2>4. CASE RemotePush(t)
    BY <2>4 DEF RemotePush
  <2>5. CASE FlushStart(t)
    BY <2>5 DEF FlushStart
  <2> QED
    BY <1>2, <2>1, <2>2, <2>3, <2>4, <2>5, Zenon DEF Call
<1>3. CASE UNCHANGED vars
  BY <1>3 DEF vars
<1> QED
  BY <1>1, <1>2, <1>3, Zenon DEF Next

(* No block is handed out twice and none is lost: on every path of the     *)
(* slab tier, with any number of threads between any two steps, each slot  *)
(* of a mapped page is in exactly one place, and no slot of an unmapped    *)
(* page is anywhere.                                                       *)
THEOREM SlotsSafe == Spec => []EachSlotOnce
<1>1. Init => SlotInv
  <2> SUFFICES ASSUME Init PROVE NoSlotTwice /\ Conserved /\ HoldsOnlyInside
    BY InitTypeOK DEF SlotInv
  <2> QED
    BY DEF Init, NoSlotTwice, Conserved, HoldsOnlyInside, Placed
<1>2. SlotInv => EachSlotOnce
  BY ConservedBySlot DEF SlotInv, EachSlotOnce
<1>3. Spec => []TypeOK
  BY TypeCorrect
<1> QED
  BY <1>1, <1>2, <1>3, SlotInvStep, PTL DEF Spec

-----------------------------------------------------------------------------
(* sc->lock is never leaked and never taken over: every early exit of a    *)
(* harvest, a refill or a batch releases it, and at most one thread is in  *)
(* a critical section.                                                     *)
THEOREM ClassLockHeld == Spec => []MutexHeld
<1>1. Init => MutexHeld
  BY SlabClassAssumption DEF Init, MutexHeld
<1>2. TypeOK /\ MutexHeld /\ [Next]_vars => MutexHeld'
  <2> SUFFICES ASSUME TypeOK, MutexHeld, [Next]_vars PROVE MutexHeld'
    OBVIOUS
  <2> USE SlabClassAssumption DEF TypeOK, MutexHeld, Goto, Acquire, Unlock
  <2>1. ASSUME NEW t \in Threads, Step(t) PROVE MutexHeld'
    <3>1. CASE CheckClass(t) \/ PopCached(t) \/ SignalPool(t) \/ SignalClass(t)
      BY <3>1 DEF CheckClass, PopCached, SignalPool, SignalClass
    <3>2. CASE HarvestLock(t) \/ RefillLock(t) \/ BatchLock(t)
      BY <3>2 DEF HarvestLock, RefillLock, BatchLock
    <3>3. CASE HarvestOne(t) \/ DrainOne(t) \/ BatchOne(t) \/ FlushOne(t) \/ FlushPut(t)
      BY <3>3 DEF HarvestOne, DrainOne, BatchOne, FlushOne, FlushPut
    <3>4. CASE HarvestEnd(t) \/ DrainEnd(t) \/ BatchUnlock(t)
      BY <3>4 DEF HarvestEnd, DrainEnd, BatchUnlock
    <3>5. CASE BatchEnd(t) \/ FlushEnd(t) \/ ReclaimIdlePages(t)
      BY <3>5 DEF BatchEnd, FlushEnd, ReclaimIdlePages
    <3> QED
      BY <2>1, <3>1, <3>2, <3>3, <3>4, <3>5, Zenon DEF Step
  <2>2. ASSUME NEW t \in Threads, Call(t) PROVE MutexHeld'
    BY <2>2 DEF Call, AllocStart, BatchStart, FreeToCache, RemotePush, FlushStart
  <2>3. CASE UNCHANGED vars
    BY <2>3 DEF vars
  <2> QED
    BY <2>1, <2>2, <2>3 DEF Next
<1> QED
  BY <1>1, <1>2, TypeCorrect, PTL DEF Spec

(* The class flag never misses a remote free: clearing it before taking    *)
(* sc->lock and the queue (remote_free_harvest_all), and setting it after  *)
(* the push (remote_free_push), is the right order for this flag.          *)
THEOREM ClassFlagSafe == Spec => []ClassFlagCoversQueue
<1>1. Init => ClassFlagCoversQueue
  BY DEF Init, ClassFlagCoversQueue
<1>2. TypeOK /\ ClassFlagCoversQueue /\ [Next]_vars => ClassFlagCoversQueue'
  <2> SUFFICES ASSUME TypeOK, ClassFlagCoversQueue, [Next]_vars
               PROVE  ClassFlagCoversQueue'
    OBVIOUS
  <2> USE DEF TypeOK, ClassFlagCoversQueue, Pushing, Goto
  <2>1. ASSUME NEW t \in Threads, Step(t) PROVE ClassFlagCoversQueue'
    <3>1. CASE CheckClass(t)
      BY <3>1 DEF CheckClass
    <3>2. CASE HarvestLock(t)
      BY <3>2 DEF HarvestLock
    <3>3. CASE HarvestOne(t) \/ HarvestEnd(t)
      BY <3>3 DEF HarvestOne, HarvestEnd
    <3>4. CASE PopCached(t) \/ RefillLock(t) \/ DrainOne(t) \/ DrainEnd(t)
      BY <3>4 DEF PopCached, RefillLock, DrainOne, DrainEnd
    <3>5. CASE BatchLock(t) \/ BatchOne(t) \/ BatchUnlock(t) \/ BatchEnd(t)
      BY <3>5 DEF BatchLock, BatchOne, BatchUnlock, BatchEnd
    <3>6. CASE SignalPool(t)
      BY <3>6 DEF SignalPool
    <3>7. CASE SignalClass(t)
      BY <3>7 DEF SignalClass
    <3>8. CASE FlushOne(t) \/ FlushPut(t) \/ FlushEnd(t) \/ ReclaimIdlePages(t)
      BY <3>8 DEF FlushOne, FlushPut, FlushEnd, ReclaimIdlePages
    <3> QED
      BY <2>1, <3>1, <3>2, <3>3, <3>4, <3>5, <3>6, <3>7, <3>8 DEF Step
  <2>2. ASSUME NEW t \in Threads, Call(t) PROVE ClassFlagCoversQueue'
    <3>1. CASE RemotePush(t)
      BY <3>1 DEF RemotePush
    <3>2. CASE AllocStart(t) \/ FreeToCache(t) \/ FlushStart(t)
      BY <3>2 DEF AllocStart, FreeToCache, FlushStart
    <3>3. ASSUME NEW n \in 1..RefillBatch, BatchStart(t, n) PROVE ClassFlagCoversQueue'
      BY <3>3 DEF BatchStart
    <3> QED
      BY <2>2, <3>1, <3>2, <3>3 DEF Call
  <2>3. CASE UNCHANGED vars
    BY <2>3 DEF vars
  <2> QED
    BY <2>1, <2>2, <2>3 DEF Next
<1> QED
  BY <1>1, <1>2, TypeCorrect, PTL DEF Spec

-----------------------------------------------------------------------------
(* SlabClass implements SlabStock.                                         *)

(* slab_free works on one slot.                                            *)
FlushesOne == \A t \in Threads : pc[t] = "flush_lock" => \E s \in Slots : hold[t] = {s}

StockInv == SlotInv /\ FlushesOne

Level(p) == IF p \in mapped THEN Cardinality(SlotsOf(p) \cap free) ELSE -1

(* A thread that flushes has taken one slot off its cache, and nobody else *)
(* touches what it holds.                                                  *)
LEMMA FlushesOneStep == StockInv /\ [Next]_vars => FlushesOne'
<1> SUFFICES ASSUME StockInv, [Next]_vars PROVE FlushesOne'
  OBVIOUS
<1> USE DEF StockInv, SlotInv, TypeOK, FlushesOne, Goto
<1>1. ASSUME NEW t \in Threads, Step(t) PROVE FlushesOne'
  <2>1. CASE CheckClass(t) \/ HarvestLock(t) \/ HarvestOne(t) \/ HarvestEnd(t)
    BY <2>1 DEF CheckClass, HarvestLock, HarvestOne, HarvestEnd
  <2>2. CASE PopCached(t) \/ RefillLock(t) \/ DrainOne(t) \/ DrainEnd(t)
    BY <2>2 DEF PopCached, RefillLock, DrainOne, DrainEnd
  <2>3. CASE BatchLock(t) \/ BatchOne(t) \/ BatchUnlock(t) \/ BatchEnd(t)
    BY <2>3 DEF BatchLock, BatchOne, BatchUnlock, BatchEnd
  <2>4. CASE SignalPool(t) \/ SignalClass(t) \/ FlushPut(t) \/ FlushEnd(t) \/ ReclaimIdlePages(t)
    BY <2>4, Zenon DEF SignalPool, SignalClass, FlushPut, FlushEnd, ReclaimIdlePages
  <2>5. CASE FlushOne(t)
    BY <2>5 DEF FlushOne
  <2> QED
    BY <1>1, <2>1, <2>2, <2>3, <2>4, <2>5, Zenon DEF Step
<1>2. ASSUME NEW t \in Threads, Call(t) PROVE FlushesOne'
  BY <1>2, Zenon DEF Call, AllocStart, BatchStart, FreeToCache, RemotePush, FlushStart
<1>3. CASE UNCHANGED vars
  BY <1>3 DEF vars
<1> QED
  BY <1>1, <1>2, <1>3 DEF Next

(* A page has as many slots as there are indices.                          *)
LEMMA PageIsFinite ==
  ASSUME NEW p \in Pages
  PROVE  /\ IsFiniteSet(SlotsOf(p))
         /\ Cardinality(SlotsOf(p)) = Cardinality(SlotIdx)
         /\ Cardinality(SlotIdx) \in Nat
<1>1. IsFiniteSet({p}) /\ Cardinality({p}) = 1
  BY FS_Singleton
<1>2. Cardinality(SlotIdx) \in Nat
  BY SlabClassAssumption, FS_CardinalityType
<1>3. /\ IsFiniteSet({p} \X SlotIdx)
      /\ Cardinality({p} \X SlotIdx) = Cardinality({p}) * Cardinality(SlotIdx)
  BY <1>1, SlabClassAssumption, FS_Product
<1> QED
  BY <1>1, <1>2, <1>3 DEF SlotsOf

(* The slots of a page, and no others, have it as their first component.   *)
LEMMA SlotsOfPage ==
  ASSUME NEW p \in Pages
  PROVE  \A x : x \in SlotsOf(p) <=> x \in Slots /\ x[1] = p
BY DEF SlotsOf, Slots

(* Putting a slot of a mapped page on its free list raises the stock of    *)
(* that page by one, within the page's size.                               *)
LEMMA GivesOne ==
  ASSUME StockInv, NEW s \in Slots, s \notin free, s[1] \in mapped,
         free' = free \cup {s}, UNCHANGED mapped
  PROVE  Stock!Give(s[1])
<1> DEFINE p == s[1]
<1>1. p \in Pages /\ s \in SlotsOf(p)
  BY DEF Slots, SlotsOf
<1> HIDE DEF p
<1>2. SlotsOf(p) \cap free' = (SlotsOf(p) \cap free) \cup {s}
  BY <1>1
<1>3. IsFiniteSet(SlotsOf(p) \cap free) /\ IsFiniteSet((SlotsOf(p) \cap free) \cup {s})
  BY <1>1, <1>2, PageIsFinite, FS_Subset, FS_AddElement
<1>4. Cardinality((SlotsOf(p) \cap free) \cup {s}) = Cardinality(SlotsOf(p) \cap free) + 1
  BY <1>3, FS_AddElement, Zenon
<1>5. /\ Cardinality((SlotsOf(p) \cap free) \cup {s}) <= Cardinality(SlotsOf(p))
      /\ Cardinality(SlotsOf(p) \cap free) \in Nat
  BY <1>1, <1>3, PageIsFinite, FS_Subset, FS_CardinalityType
<1>6. Level(p) \in 0..(Cardinality(SlotIdx) - 1) /\ Level(p)' = Level(p) + 1
  <2>1. Level(p) = Cardinality(SlotsOf(p) \cap free)
    BY DEF Level, p
  <2>2. Level(p)' = Cardinality(SlotsOf(p) \cap free')
    BY DEF Level, p
  <2>3. Cardinality(SlotsOf(p)) = Cardinality(SlotIdx) /\ Cardinality(SlotIdx) \in Nat
    BY <1>1, PageIsFinite
  <2>4. Level(p)' = Level(p) + 1
    BY <1>2, <1>4, <2>1, <2>2
  <2> QED
    BY <1>4, <1>5, <2>1, <2>3, <2>4
<1>7. \A q \in Pages : q # p => SlotsOf(q) \cap free' = SlotsOf(q) \cap free
  BY SlotsOfPage DEF p
<1>8. \A q \in Pages : q # p => Level(q)' = Level(q)
  BY <1>7 DEF Level
<1> QED
  BY <1>1, <1>6, <1>8, Zenon DEF Stock!Give, Level, p

(* Taking a slot off the free list of its page lowers that page's stock by *)
(* one.                                                                    *)
LEMMA TakesOne ==
  ASSUME StockInv, NEW s \in Slots, s \in free, free' = free \ {s}, UNCHANGED mapped
  PROVE  Stock!TakeFromPage(s[1])
<1> DEFINE p == s[1]
<1>1. p \in Pages /\ s \in SlotsOf(p)
  BY DEF Slots, SlotsOf
<1>2. p \in mapped
  BY DEF StockInv, SlotInv, Conserved, Placed
<1> HIDE DEF p
<1>3. SlotsOf(p) \cap free' = (SlotsOf(p) \cap free) \ {s} /\ s \in SlotsOf(p) \cap free
  BY <1>1
<1>4. IsFiniteSet(SlotsOf(p) \cap free)
  BY <1>1, PageIsFinite, FS_Subset
<1>5. /\ Cardinality(SlotsOf(p) \cap free) \in Nat
      /\ Cardinality((SlotsOf(p) \cap free) \ {s}) = Cardinality(SlotsOf(p) \cap free) - 1
      /\ Cardinality((SlotsOf(p) \cap free) \ {s}) \in Nat
  <2>1. IsFiniteSet((SlotsOf(p) \cap free) \ {s})
    BY <1>4, FS_Subset
  <2> QED
    BY <1>3, <1>4, <2>1, FS_RemoveElement, FS_CardinalityType, Zenon
<1>6. Level(p) > 0 /\ Level(p)' = Level(p) - 1
  <2>1. Level(p) = Cardinality(SlotsOf(p) \cap free)
    BY <1>2 DEF Level
  <2>2. Level(p)' = Cardinality(SlotsOf(p) \cap free')
    BY <1>2 DEF Level
  <2> QED
    BY <1>3, <1>5, <2>1, <2>2
<1>7. \A q \in Pages : q # p => SlotsOf(q) \cap free' = SlotsOf(q) \cap free
  BY SlotsOfPage DEF p
<1>8. \A q \in Pages : q # p => Level(q)' = Level(q)
  BY <1>7 DEF Level
<1> QED
  BY <1>1, <1>6, <1>8, Zenon DEF Stock!TakeFromPage, Level, p

(* A page is mapped when no page has a free slot; all its slots but the    *)
(* one asked for are its stock.                                            *)
LEMMA TakesFromNewPage ==
  ASSUME StockInv, NEW s \in Slots, free = {}, s[1] \notin mapped,
         mapped' = mapped \cup {s[1]}, free' = free \cup (SlotsOf(s[1]) \ {s})
  PROVE  Stock!TakeFromNewPage(s[1])
<1> DEFINE p == s[1]
<1>1. p \in Pages /\ s \in SlotsOf(p)
  BY DEF Slots, SlotsOf
<1> HIDE DEF p
<1>2. SlotsOf(p) \cap free' = SlotsOf(p) \ {s}
  BY DEF p
<1>3. Cardinality(SlotsOf(p) \ {s}) = Cardinality(SlotIdx) - 1
  BY <1>1, PageIsFinite, FS_RemoveElement, Zenon
<1>4. Level(p) = -1 /\ Level(p)' = Cardinality(SlotIdx) - 1
  <2>1. Level(p)' = Cardinality(SlotsOf(p) \cap free')
    BY DEF Level, p
  <2> QED
    BY <1>2, <1>3, <2>1 DEF Level, p
<1>5. \A q \in Pages : q # p => SlotsOf(q) \cap free' = {} /\ SlotsOf(q) \cap free = {}
  <2>1. free' = SlotsOf(p) \ {s}
    BY DEF p
  <2> QED
    BY <2>1, <1>1 DEF SlotsOf
<1>6. \A q \in Pages : q # p => Level(q)' = Level(q) /\ Level(q) \in {0, -1}
  <2> SUFFICES ASSUME NEW q \in Pages, q # p
               PROVE  Level(q)' = Level(q) /\ Level(q) \in {0, -1}
    OBVIOUS
  <2>1. q \in mapped' <=> q \in mapped
    BY DEF p
  <2> QED
    BY <1>5, <2>1, FS_EmptySet, Zenon DEF Level
<1> QED
  BY <1>1, <1>4, <1>6, Zenon DEF Stock!TakeFromNewPage, Stock!Mapped, Stock!Unmapped, Level, p

(* mp_reclaim_idle_pages takes away pages whose stock is complete.         *)
LEMMA ReleasesUnused ==
  ASSUME StockInv, NEW S, S = UnusedPages, mapped' = mapped \ S,
         free' = {s \in free : s[1] \notin S}
  PROVE  S \subseteq Pages /\ Stock!Release(S)
<1>1. mapped \subseteq Pages /\ S \subseteq mapped /\ free \subseteq Slots
  BY DEF StockInv, SlotInv, TypeOK, UnusedPages
<1>2. ASSUME NEW p \in S PROVE Level(p) = Cardinality(SlotIdx) /\ Level(p)' = -1
  <2>1. SlotsOf(p) \cap free = SlotsOf(p)
    BY <1>2 DEF UnusedPages
  <2>2. Level(p) = Cardinality(SlotIdx)
    BY <1>1, <2>1, PageIsFinite, Zenon DEF Level
  <2>3. Level(p)' = -1
    BY DEF Level
  <2> QED
    BY <2>2, <2>3
<1>3. ASSUME NEW p \in Pages \ S PROVE Level(p)' = Level(p)
  <2>1. SlotsOf(p) \cap free' = SlotsOf(p) \cap free
    BY SlotsOfPage
  <2>2. p \in mapped' <=> p \in mapped
    OBVIOUS
  <2> QED
    BY <2>1, <2>2 DEF Level
<1> QED
  BY <1>1, <1>2, <1>3 DEF Stock!Release, Stock!Unmapped, Level

(* A slot some thread holds is on no free list, and its page is mapped.    *)
LEMMA HeldIsOut ==
  ASSUME StockInv, NEW t \in Threads, NEW s \in hold[t]
  PROVE  s \in Slots /\ s \notin free /\ s[1] \in mapped
BY DEF StockInv, SlotInv, TypeOK, NoSlotTwice, Conserved, Placed

StockStep ==
  \/ UNCHANGED <<mapped, free>>
  \/ \E p \in Pages : Stock!TakeFromPage(p) \/ Stock!TakeFromNewPage(p) \/ Stock!Give(p)
  \/ \E S \in SUBSET Pages : Stock!Release(S)

(* Every step of the class is a step of the stock, or leaves it alone.     *)
LEMMA StepIsStockStep == StockInv /\ [Next]_vars => StockStep
<1> SUFFICES ASSUME StockInv, [Next]_vars PROVE StockStep
  OBVIOUS
<1>1. \A s \in Slots : s[1] \in Pages
  BY DEF Slots
<1>2. ASSUME NEW s \in Slots, TakeSlot(s) PROVE StockStep
  <2>1. CASE s \in free /\ free' = free \ {s} /\ UNCHANGED mapped
    BY <1>1, <2>1, TakesOne DEF StockStep
  <2>2. CASE /\ NoFreeSlot /\ s[1] \notin mapped
             /\ mapped' = mapped \cup {s[1]}
             /\ free' = free \cup (SlotsOf(s[1]) \ {s})
    BY <1>1, <2>2, TakesFromNewPage DEF StockStep, NoFreeSlot
  <2> QED
    BY <1>2, <2>1, <2>2 DEF TakeSlot
<1>3. ASSUME NEW t \in Threads, NEW s \in hold[t], free' = free \cup {s}, UNCHANGED mapped
      PROVE  StockStep
  BY <1>1, <1>3, HeldIsOut, GivesOne DEF StockStep
<1>4. ASSUME NEW t \in Threads, Step(t) PROVE StockStep
  <2>1. CASE CheckClass(t) \/ HarvestLock(t) \/ HarvestEnd(t) \/ PopCached(t) \/ RefillLock(t)
    BY <2>1 DEF CheckClass, HarvestLock, HarvestEnd, PopCached, RefillLock, StockStep
  <2>2. CASE HarvestOne(t)
    BY <1>3, <2>2 DEF HarvestOne
  <2>3. CASE DrainOne(t) \/ BatchOne(t)
    BY <1>2, <2>3 DEF DrainOne, BatchOne
  <2>4. CASE DrainEnd(t) \/ BatchLock(t) \/ BatchUnlock(t) \/ BatchEnd(t)
    BY <2>4, Zenon DEF DrainEnd, BatchLock, BatchUnlock, BatchEnd, StockStep
  <2>5. CASE SignalPool(t) \/ SignalClass(t) \/ FlushOne(t) \/ FlushEnd(t)
    BY <2>5 DEF SignalPool, SignalClass, FlushOne, FlushEnd, StockStep
  <2>6. CASE FlushPut(t)
    <3>1. PICK s \in Slots : hold[t] = {s}
      BY <2>6 DEF FlushPut, StockInv, FlushesOne
    <3> QED
      BY <1>3, <2>6, <3>1 DEF FlushPut
  <2>7. CASE ReclaimIdlePages(t)
    <3>1. PICK S : S = UnusedPages
      OBVIOUS
    <3>2. mapped' = mapped \ S /\ free' = {s \in free : s[1] \notin S}
      BY <2>7, <3>1 DEF ReclaimIdlePages
    <3>3. S \subseteq Pages /\ Stock!Release(S)
      BY <3>1, <3>2, ReleasesUnused
    <3> QED
      BY <3>3 DEF StockStep
  <2> QED
    BY <1>4, <2>1, <2>2, <2>3, <2>4, <2>5, <2>6, <2>7 DEF Step
<1>5. ASSUME NEW t \in Threads, Call(t) PROVE StockStep
  BY <1>5 DEF Call, AllocStart, BatchStart, FreeToCache, RemotePush, FlushStart, StockStep
<1>6. CASE UNCHANGED vars
  BY <1>6 DEF vars, StockStep
<1> QED
  BY <1>4, <1>5, <1>6 DEF Next

(* The caches, the remote queue and the batches together drive the pages   *)
(* only as SlabStock allows: a page is mapped when no page has a free      *)
(* slot, a slot is taken or given one at a time, and a page is released    *)
(* when it has all its slots, however many threads there are.              *)
THEOREM ClassImplementsStock == Spec => ImplementsStock
<1>1. Init => Stock!Init /\ StockInv
  <2> SUFFICES ASSUME Init PROVE Stock!Init /\ StockInv
    OBVIOUS
  <2>1. NoSlotTwice /\ Conserved /\ HoldsOnlyInside
    BY DEF Init, NoSlotTwice, Conserved, HoldsOnlyInside, Placed
  <2>2. FlushesOne
    BY DEF Init, FlushesOne
  <2>3. Stock!Init
    BY DEF Init, Stock!Init, Stock!Unmapped
  <2> QED
    BY <2>1, <2>2, <2>3, InitTypeOK DEF StockInv, SlotInv
<1>2. StockInv /\ [Next]_vars /\ TypeOK' => StockInv'
  BY SlotInvStep, FlushesOneStep DEF StockInv
<1>3. StockInv /\ [Next]_vars =>
        [Stock!Next]_[p \in Pages |-> IF p \in mapped THEN Cardinality(SlotsOf(p) \cap free) ELSE -1]
  <2> SUFFICES ASSUME StockStep
               PROVE  [Stock!Next]_[p \in Pages |-> IF p \in mapped THEN Cardinality(SlotsOf(p) \cap free) ELSE -1]
    BY StepIsStockStep
  <2>1. CASE UNCHANGED <<mapped, free>>
    BY <2>1
  <2>2. CASE \E p \in Pages : Stock!TakeFromPage(p) \/ Stock!TakeFromNewPage(p) \/ Stock!Give(p)
    BY <2>2 DEF Stock!Next
  <2>3. CASE \E S \in SUBSET Pages : Stock!Release(S)
    BY <2>3 DEF Stock!Next
  <2> QED
    BY <2>1, <2>2, <2>3 DEF StockStep
<1>4. Spec => []TypeOK
  BY TypeCorrect
<1> QED
  BY <1>1, <1>2, <1>3, <1>4, PTL DEF Spec, ImplementsStock, Stock!Spec

-----------------------------------------------------------------------------
(* slab_allocated_bytes is exact.                                          *)

Out == {s \in Slots : s[1] \in mapped} \ free
Flushers == {t \in Threads : pc[t] = "flush_lock"}
InFlush == UNION {hold[t] : t \in Flushers}
Taken == IF lock \in Threads THEN got[lock] ELSE 0

(* What a thread has taken and not counted is in its cache or its batch.   *)
GotBounded ==
  \A t \in Threads :
    /\ pc[t] \notin {"drain", "batch"} => got[t] = 0
    /\ pc[t] = "drain" => got[t] <= Cardinality(tls[t])
    /\ pc[t] = "batch" => got[t] <= Cardinality(hold[t])

(* Each flushing thread holds one slot, and no two the same.               *)
FlushCount == IsFiniteSet(Flushers) /\ Cardinality(Flushers) = Cardinality(InFlush)

Exact == allocated + Taken = Cardinality(Out \ InFlush)

CountInv == GotBounded /\ FlushCount /\ Exact

(* Sets of slots are finite.                                               *)
LEMMA SlotSetFinite ==
  ASSUME NEW S, S \subseteq Slots
  PROVE  IsFiniteSet(S) /\ Cardinality(S) \in Nat
<1>1. IsFiniteSet(Slots)
  BY SlabClassAssumption, FS_Product DEF Slots
<1> QED
  BY <1>1, FS_Subset, FS_CardinalityType

(* A slot more in a set of slots.                                          *)
LEMMA OneMore ==
  ASSUME NEW S, S \subseteq Slots, NEW s \in Slots, s \notin S
  PROVE  Cardinality(S \cup {s}) = Cardinality(S) + 1
BY SlotSetFinite, FS_AddElement

(* A slot less in a set of slots.                                          *)
LEMMA OneLess ==
  ASSUME NEW S, S \subseteq Slots, NEW s \in S
  PROVE  Cardinality(S \ {s}) = Cardinality(S) - 1
BY SlotSetFinite, FS_RemoveElement

(* A slot is being flushed when a flushing thread holds it; such a slot is *)
(* out, and so are all slots in caches and hands.                          *)
LEMMA WhatIsOut ==
  ASSUME StockInv
  PROVE  /\ \A s : s \in InFlush <=> \E t \in Threads : pc[t] = "flush_lock" /\ s \in hold[t]
         /\ \A t \in Threads : tls[t] \subseteq Out /\ hold[t] \subseteq Out
         /\ InFlush \subseteq Out /\ Out \subseteq Slots
<1>1. \A s : s \in InFlush <=> \E t \in Threads : pc[t] = "flush_lock" /\ s \in hold[t]
  BY DEF InFlush, Flushers
<1>2. \A t \in Threads : tls[t] \subseteq Out /\ hold[t] \subseteq Out
  BY DEF Out, StockInv, SlotInv, TypeOK, NoSlotTwice, Conserved, Placed
<1> QED
  BY <1>1, <1>2 DEF Out

(* The three facts together say what AllocatedIsExact says.                *)
LEMMA CountMeansExact == StockInv /\ CountInv => AllocatedIsExact
<1> SUFFICES ASSUME StockInv, CountInv PROVE AllocatedIsExact
  OBVIOUS
<1>1. InFlush \subseteq Out /\ Out \subseteq Slots
  BY WhatIsOut
<1>2. IsFiniteSet(Out) /\ Cardinality(Out) \in Nat /\ Cardinality(InFlush) \in Nat
  BY <1>1, SlotSetFinite
<1>3. Cardinality(Out \ InFlush) = Cardinality(Out) - Cardinality(Out \cap InFlush)
  BY <1>2, FS_Difference, Zenon
<1>4. Out \cap InFlush = InFlush
  BY <1>1
<1>5. allocated + Taken + Cardinality(Flushers) = Cardinality(Out)
  <2>1. allocated \in Nat /\ Taken \in Nat
    BY DEF StockInv, SlotInv, TypeOK, Taken
  <2>2. Cardinality(Out \ InFlush) = Cardinality(Out) - Cardinality(InFlush)
    BY <1>3, <1>4
  <2>3. allocated + Taken = Cardinality(Out \ InFlush) /\ Cardinality(Flushers) = Cardinality(InFlush)
    BY DEF CountInv, Exact, FlushCount
  <2> HIDE DEF Out, InFlush, Flushers, Taken
  <2> QED
    BY <1>2, <2>1, <2>2, <2>3
<1> QED
  BY <1>5 DEF AllocatedIsExact, Taken, Flushers, Out

(* The count starts at zero with no slot out.                              *)
LEMMA InitCount == Init => CountInv
<1> SUFFICES ASSUME Init PROVE CountInv
  OBVIOUS
<1>1. Flushers = {} /\ InFlush = {} /\ Out = {} /\ Taken = 0
  BY SlabClassAssumption DEF Init, Flushers, InFlush, Out, Taken
<1>2. GotBounded
  BY DEF Init, GotBounded
<1>3. FlushCount
  BY <1>1, FS_EmptySet DEF FlushCount
<1>4. Exact
  <2>1. Out \ InFlush = {}
    BY <1>1
  <2> QED
    BY <1>1, <2>1, FS_EmptySet DEF Exact, Init
<1> QED
  BY <1>2, <1>3, <1>4 DEF CountInv

-----------------------------------------------------------------------------
(* What a thread has not counted stays in its cache or batch: only a drain *)
(* or a batch raises got, by one for the slot it takes.                    *)
LEMMA GotStep ==
  ASSUME StockInv, MutexHeld, GotBounded, [Next]_vars
  PROVE  GotBounded'
<1> USE DEF StockInv, SlotInv, TypeOK, GotBounded, Goto
<1>1. \A t \in Threads : tls[t] \subseteq Slots /\ hold[t] \subseteq Slots
  OBVIOUS
<1>2. ASSUME NEW t \in Threads, Step(t) PROVE GotBounded'
  <2>1. CASE CheckClass(t) \/ HarvestLock(t) \/ HarvestOne(t) \/ HarvestEnd(t)
    BY <2>1, Zenon DEF CheckClass, HarvestLock, HarvestOne, HarvestEnd
  <2>2. CASE PopCached(t) \/ BatchEnd(t) \/ SignalPool(t) \/ SignalClass(t)
    BY <2>2, Zenon DEF PopCached, BatchEnd, SignalPool, SignalClass
  <2>3. CASE RefillLock(t) \/ BatchLock(t)
    BY <1>1, <2>3, SlotSetFinite DEF RefillLock, BatchLock
  <2>4. CASE DrainEnd(t) \/ BatchUnlock(t)
    BY <2>4 DEF DrainEnd, BatchUnlock, PublishTaken
  <2>5. CASE FlushOne(t) \/ FlushPut(t) \/ FlushEnd(t) \/ ReclaimIdlePages(t)
    BY <2>5, Zenon DEF FlushOne, FlushPut, FlushEnd, ReclaimIdlePages
  <2>6. CASE DrainOne(t)
    <3>1. PICK s \in Slots : TakeSlot(s) /\ tls' = [tls EXCEPT ![t] = @ \cup {s}]
      BY <2>6, Zenon DEF DrainOne
    <3>2. Cardinality(tls[t] \cup {s}) = Cardinality(tls[t]) + 1 /\ Cardinality(tls[t]) \in Nat
      BY <1>1, <3>1, TakenSlotIsFresh, OneMore, SlotSetFinite, Zenon
    <3>3. /\ pc' = pc /\ hold' = hold /\ pc[t] = "drain"
          /\ got' = [got EXCEPT ![t] = @ + 1]
      BY <2>6 DEF DrainOne, CountTaken
    <3>4. tls'[t] = tls[t] \cup {s} /\ got'[t] = got[t] + 1 /\ got[t] \in Nat
      BY <3>1, <3>3
    <3>5. got'[t] <= Cardinality(tls'[t])
      BY <3>2, <3>3, <3>4
    <3>6. \A u \in Threads : u # t => tls'[u] = tls[u] /\ got'[u] = got[u]
      BY <3>1, <3>3
    <3> QED
      BY <3>3, <3>5, <3>6
  <2>7. CASE BatchOne(t)
    <3>1. PICK s \in Slots : TakeSlot(s) /\ hold' = [hold EXCEPT ![t] = @ \cup {s}]
      BY <2>7, Zenon DEF BatchOne
    <3>2. Cardinality(hold[t] \cup {s}) = Cardinality(hold[t]) + 1 /\ Cardinality(hold[t]) \in Nat
      BY <1>1, <3>1, TakenSlotIsFresh, OneMore, SlotSetFinite, Zenon
    <3>3. /\ pc' = pc /\ tls' = tls /\ pc[t] = "batch"
          /\ got' = [got EXCEPT ![t] = @ + 1]
      BY <2>7 DEF BatchOne, CountTaken
    <3>4. hold'[t] = hold[t] \cup {s} /\ got'[t] = got[t] + 1 /\ got[t] \in Nat
      BY <3>1, <3>3
    <3>5. got'[t] <= Cardinality(hold'[t])
      BY <3>2, <3>3, <3>4
    <3>6. \A u \in Threads : u # t => hold'[u] = hold[u] /\ got'[u] = got[u]
      BY <3>1, <3>3
    <3> QED
      BY <3>3, <3>5, <3>6
  <2> QED
    BY <1>2, <2>1, <2>2, <2>3, <2>4, <2>5, <2>6, <2>7, Zenon DEF Step
<1>3. ASSUME NEW t \in Threads, Call(t) PROVE GotBounded'
  BY <1>3, Zenon DEF Call, AllocStart, BatchStart, FreeToCache, RemotePush, FlushStart
<1>4. CASE UNCHANGED vars
  BY <1>4 DEF vars
<1> QED
  BY <1>2, <1>3, <1>4, Zenon DEF Next

-----------------------------------------------------------------------------
Kept == UNCHANGED <<Out, InFlush, Flushers>>

(* A thread that neither enters nor leaves the free of a flushed slot, and *)
(* touches no other thread's hand, leaves the flushing threads alone.      *)
LEMMA FlushersKept ==
  ASSUME StockInv, NEW t \in Threads, pc[t] # "flush_lock", pc'[t] # "flush_lock",
         \A u \in Threads : u # t => pc'[u] = pc[u] /\ hold'[u] = hold[u]
  PROVE  Flushers' = Flushers /\ InFlush' = InFlush
<1>1. Flushers' = Flushers
  BY DEF Flushers
<1>2. t \notin Flushers /\ \A u \in Flushers : u \in Threads /\ hold'[u] = hold[u]
  BY DEF Flushers
<1> QED
  BY <1>1, <1>2 DEF InFlush

(* The steps that move no slot off or onto a page and count none.          *)
LEMMA CountKept ==
  ASSUME StockInv, CountInv, Kept, UNCHANGED allocated, Taken' = Taken
  PROVE  FlushCount' /\ Exact'
BY DEF CountInv, FlushCount, Exact, Kept

(* Locking, unlocking, flags, caches and callers: nothing to count.        *)
LEMMA QuietStep ==
  ASSUME StockInv, MutexHeld, CountInv, NEW t \in Threads,
         \/ CheckClass(t) \/ HarvestLock(t) \/ HarvestEnd(t) \/ PopCached(t) \/ RefillLock(t)
         \/ BatchLock(t) \/ BatchEnd(t) \/ SignalPool(t) \/ SignalClass(t) \/ FlushEnd(t)
         \/ Call(t)
  PROVE  FlushCount' /\ Exact'
<1> USE DEF StockInv, SlotInv, TypeOK, Goto
<1>1. /\ UNCHANGED <<mapped, free, allocated, got>>
      /\ pc[t] # "flush_lock" /\ pc'[t] # "flush_lock"
      /\ \A u \in Threads : u # t => pc'[u] = pc[u] /\ hold'[u] = hold[u]
  BY Zenon DEF CheckClass, HarvestLock, HarvestEnd, PopCached, RefillLock, BatchLock, BatchEnd,
         SignalPool, SignalClass, FlushEnd, Call, AllocStart, BatchStart, FreeToCache,
         RemotePush, FlushStart
<1>2. \/ lock' = lock
      \/ lock = NoThread /\ lock' = t /\ pc[t] \notin {"drain", "batch"}
      \/ lock' = NoThread /\ pc[t] = "harvest"
  BY Zenon DEF CheckClass, HarvestLock, HarvestEnd, PopCached, RefillLock, BatchLock, BatchEnd,
         SignalPool, SignalClass, FlushEnd, Call, AllocStart, BatchStart, FreeToCache,
         RemotePush, FlushStart, Acquire, Unlock
<1>3. Taken' = Taken
  BY <1>1, <1>2, SlabClassAssumption, Zenon DEF Taken, CountInv, GotBounded, MutexHeld
<1>4. Kept
  BY <1>1, FlushersKept, Zenon DEF Kept, Out
<1> QED
  BY <1>1, <1>3, <1>4, CountKept, Zenon

(* mp_reclaim_idle_pages: no slot of an unused page is out.                *)
LEMMA ReclaimStep ==
  ASSUME StockInv, CountInv, NEW t \in Threads, ReclaimIdlePages(t)
  PROVE  FlushCount' /\ Exact'
<1>1. Out' = Out
  <2>1. ASSUME NEW s PROVE s \in Out' <=> s \in Out
    <3>1. s \in Slots => s \in SlotsOf(s[1])
      BY DEF Slots, SlotsOf
    <3>2. s \in Slots /\ s[1] \in UnusedPages => s \in free
      BY <3>1 DEF UnusedPages
    <3> QED
      BY <3>2, Zenon DEF Out, ReclaimIdlePages
  <2> QED
    BY <2>1
<1>2. /\ pc[t] # "flush_lock" /\ pc'[t] # "flush_lock"
      /\ \A u \in Threads : u # t => pc'[u] = pc[u] /\ hold'[u] = hold[u]
      /\ UNCHANGED <<allocated, got, lock>>
  BY DEF ReclaimIdlePages, Goto, StockInv, SlotInv, TypeOK
<1>3. Kept
  BY <1>1, <1>2, FlushersKept, Zenon DEF Kept
<1> QED
  BY <1>2, <1>3, CountKept DEF Taken

(* The end of a drain or a batch: what was taken is counted.               *)
LEMMA PublishStep ==
  ASSUME StockInv, MutexHeld, CountInv, NEW t \in Threads, DrainEnd(t) \/ BatchUnlock(t)
  PROVE  FlushCount' /\ Exact'
<1> USE DEF StockInv, SlotInv, TypeOK
<1>1. /\ pc[t] # "flush_lock" /\ pc'[t] # "flush_lock"
      /\ \A u \in Threads : u # t => pc'[u] = pc[u] /\ hold'[u] = hold[u]
      /\ UNCHANGED <<mapped, free>>
      /\ lock' = NoThread /\ pc[t] \in {"drain", "batch"}
      /\ allocated' = allocated + got[t]
  BY Zenon DEF DrainEnd, BatchUnlock, PublishTaken, Goto, Unlock
<1>2. Taken = got[t] /\ Taken' = 0
  BY <1>1, SlabClassAssumption, Zenon DEF Taken, MutexHeld
<1>3. Kept
  BY <1>1, FlushersKept, Zenon DEF Kept, Out
<1>4. FlushCount'
  BY <1>3 DEF CountInv, FlushCount, Kept
<1>5. allocated' + Taken' = allocated + Taken
  <2>1. allocated \in Nat /\ got[t] \in Nat
    OBVIOUS
  <2> HIDE DEF StockInv, SlotInv, TypeOK
  <2>2. allocated' = allocated + got[t]
    BY <1>1
  <2> QED
    BY <1>2, <2>1, <2>2
<1> QED
  BY <1>3, <1>4, <1>5 DEF CountInv, Exact, Kept

(* A slot taken off the pages is one more out, and one more taken.         *)
LEMMA TakeStep ==
  ASSUME StockInv, MutexHeld, CountInv, NEW t \in Threads, DrainOne(t) \/ BatchOne(t)
  PROVE  FlushCount' /\ Exact'
<1> USE DEF StockInv, SlotInv, TypeOK
<1>1. PICK s \in Slots : TakeSlot(s)
  BY DEF DrainOne, BatchOne
<1>2. /\ pc[t] # "flush_lock" /\ pc'[t] # "flush_lock" /\ pc[t] \in {"drain", "batch"}
      /\ \A u \in Threads : u # t => pc'[u] = pc[u] /\ hold'[u] = hold[u]
      /\ lock' = lock /\ allocated' = allocated /\ got'[t] = got[t] + 1
  BY DEF DrainOne, BatchOne, CountTaken
<1>3. Flushers' = Flushers /\ InFlush' = InFlush
  BY <1>2, FlushersKept, Zenon
<1>4. s \notin Out /\ s \notin InFlush
  <2>1. s \notin Out
    BY <1>1 DEF Out, TakeSlot
  <2> QED
    BY <2>1, WhatIsOut
<1>5. Out' = Out \cup {s}
  <2>1. CASE s \in free /\ free' = free \ {s} /\ UNCHANGED mapped
    <3>1. s[1] \in mapped
      BY <2>1 DEF Conserved, Placed
    <3> QED
      BY <2>1, <3>1 DEF Out
  <2>2. CASE /\ NoFreeSlot /\ s[1] \notin mapped
             /\ mapped' = mapped \cup {s[1]}
             /\ free' = free \cup (SlotsOf(s[1]) \ {s})
    <3>1. ASSUME NEW x PROVE x \in Out' <=> x \in Out \cup {s}
      <4>1. s[1] \in Pages /\ (x \in SlotsOf(s[1]) <=> x \in Slots /\ x[1] = s[1])
        BY DEF Slots, SlotsOf
      <4>2. x \in Out' <=> x \in Slots /\ x[1] \in mapped' /\ x \notin free'
        BY DEF Out
      <4>3. x \in Out <=> x \in Slots /\ x[1] \in mapped
        BY <2>2 DEF Out, NoFreeSlot
      <4>4. x \in free' <=> x \in SlotsOf(s[1]) /\ x # s
        BY <2>2 DEF NoFreeSlot
      <4>5. x[1] \in mapped' <=> x[1] \in mapped \/ x[1] = s[1]
        BY <2>2
      <4> QED
        BY <2>2, <4>1, <4>2, <4>3, <4>4, <4>5, Zenon
    <3> QED
      BY <3>1
  <2> QED
    BY <1>1, <2>1, <2>2 DEF TakeSlot
<1>6. (Out \ InFlush)' = (Out \ InFlush) \cup {s}
  BY <1>3, <1>4, <1>5
<1>7. Cardinality((Out \ InFlush) \cup {s}) = Cardinality(Out \ InFlush) + 1
  <2>1. Out \ InFlush \subseteq Slots /\ s \notin Out \ InFlush
    BY <1>4 DEF Out
  <2> QED
    BY <2>1, OneMore, Zenon
<1>8. Taken' = Taken + 1 /\ Taken \in Nat
  BY <1>2, Zenon DEF Taken, MutexHeld
<1>9. Exact'
  <2>1. allocated + Taken = Cardinality(Out \ InFlush) /\ allocated \in Nat
    BY DEF CountInv, Exact
  <2>2. Cardinality((Out \ InFlush)') = allocated + Taken + 1
    BY <1>6, <1>7, <2>1, Zenon
  <2>3. allocated' + Taken' = allocated + Taken + 1
    BY <1>2, <1>8, <2>1
  <2> QED
    BY <2>2, <2>3 DEF Exact
<1> QED
  BY <1>3, <1>9 DEF CountInv, FlushCount

(* A harvested slot is counted, so the subtraction does not saturate.      *)
LEMMA HarvestStep ==
  ASSUME StockInv, MutexHeld, CountInv, NEW t \in Threads, HarvestOne(t)
  PROVE  FlushCount' /\ Exact'
<1> USE DEF StockInv, SlotInv, TypeOK
<1>1. PICK s \in hold[t] : free' = free \cup {s} /\ hold' = [hold EXCEPT ![t] = @ \ {s}]
  BY Zenon DEF HarvestOne
<1>2. /\ UNCHANGED <<mapped, lock, pc, got>> /\ pc[t] = "harvest" /\ Uncount
  BY DEF HarvestOne
<1>3. Flushers' = Flushers /\ InFlush' = InFlush
  <2>1. \A u \in Threads : u # t => pc'[u] = pc[u] /\ hold'[u] = hold[u]
    BY <1>1, <1>2
  <2> QED
    BY <1>2, <2>1, FlushersKept, Zenon
<1>4. s \in Out \ InFlush
  <2>1. s \in Out
    BY WhatIsOut
  <2>2. s \notin InFlush
    BY <1>2, WhatIsOut, Zenon DEF NoSlotTwice
  <2> QED
    BY <2>1, <2>2
<1>5. (Out \ InFlush)' = (Out \ InFlush) \ {s}
  BY <1>1, <1>2, <1>3 DEF Out
<1>6. /\ Cardinality((Out \ InFlush) \ {s}) = Cardinality(Out \ InFlush) - 1
      /\ Cardinality((Out \ InFlush) \ {s}) \in Nat
  <2>1. Out \ InFlush \subseteq Slots
    BY DEF Out
  <2> QED
    BY <1>4, <2>1, OneLess, SlotSetFinite
<1>7. Taken = 0 /\ Taken' = 0
  BY <1>2 DEF Taken, MutexHeld, CountInv, GotBounded
<1>8. Exact'
  <2>1. allocated = Cardinality(Out \ InFlush) /\ allocated \in Nat
    BY <1>7 DEF CountInv, Exact
  <2>2. allocated' = allocated - 1
    BY <1>2, <1>6, <2>1 DEF Uncount
  <2>3. allocated' + Taken' = allocated - 1
    BY <1>7, <2>1, <2>2
  <2> QED
    BY <1>5, <1>6, <2>1, <2>3 DEF Exact
<1> QED
  BY <1>3, <1>8 DEF CountInv, FlushCount

(* What the holder of the lock has taken and not counted is out, is not    *)
(* being flushed, and is not in another thread's cache: a slot of such a   *)
(* cache is therefore counted.                                             *)
LEMMA CachedIsCounted ==
  ASSUME StockInv, MutexHeld, CountInv, NEW t \in Threads, NEW s \in tls[t], pc[t] = "flush"
  PROVE  /\ s \in Out \ InFlush
         /\ Taken <= Cardinality((Out \ InFlush) \ {s})
         /\ Cardinality((Out \ InFlush) \ {s}) = Cardinality(Out \ InFlush) - 1
<1> USE DEF StockInv, SlotInv, TypeOK
<1> DEFINE R == (Out \ InFlush) \ {s}
<1>1. s \in Out \ InFlush
  <2>1. s \in Out
    BY WhatIsOut
  <2>2. s \notin InFlush
    BY WhatIsOut, Zenon DEF NoSlotTwice
  <2> QED
    BY <2>1, <2>2
<1>2. Out \ InFlush \subseteq Slots /\ R \subseteq Slots
  BY DEF Out
<1>3. Cardinality(R) = Cardinality(Out \ InFlush) - 1
  BY <1>1, <1>2, OneLess, Zenon
<1>4. IsFiniteSet(R) /\ Cardinality(R) \in Nat
  BY <1>2, SlotSetFinite
<1>5. Taken <= Cardinality(R)
  <2>1. CASE lock \notin Threads
    BY <1>4, <2>1 DEF Taken
  <2>2. CASE lock \in Threads
    <3>1. pc[lock] \in {"harvest", "drain", "batch"} /\ lock # t
      BY <2>2 DEF MutexHeld
    <3>2. tls[lock] \subseteq R
      BY <2>2, <3>1, WhatIsOut, Zenon DEF NoSlotTwice
    <3>3. hold[lock] \subseteq R
      BY <2>2, <3>1, WhatIsOut DEF NoSlotTwice
    <3>4. /\ Cardinality(tls[lock]) <= Cardinality(R) /\ Cardinality(tls[lock]) \in Nat
          /\ Cardinality(hold[lock]) <= Cardinality(R) /\ Cardinality(hold[lock]) \in Nat
      <4>1. tls[lock] \in SUBSET R /\ hold[lock] \in SUBSET R
        BY <3>2, <3>3
      <4> HIDE DEF R
      <4> QED
        BY <1>2, <1>4, <4>1, FS_Subset, SlotSetFinite
    <3>5. Taken = got[lock] /\ got[lock] \in Nat
      BY <2>2 DEF Taken
    <3>6. \/ got[lock] = 0 \/ got[lock] <= Cardinality(tls[lock])
          \/ got[lock] <= Cardinality(hold[lock])
      BY <2>2, <3>1 DEF CountInv, GotBounded
    <3> HIDE DEF R
    <3> QED
      BY <1>4, <3>4, <3>5, <3>6
  <2> QED
    BY <2>1, <2>2
<1> QED
  BY <1>1, <1>3, <1>5

(* slab_free of a cached slot, first part: uncounted and in hand.          *)
LEMMA FlushOneStep ==
  ASSUME StockInv, MutexHeld, CountInv, NEW t \in Threads, FlushOne(t)
  PROVE  FlushCount' /\ Exact'
<1> USE DEF StockInv, SlotInv, TypeOK
<1>1. PICK s \in tls[t] : hold' = [hold EXCEPT ![t] = {s}]
  BY Zenon DEF FlushOne
<1>2. /\ UNCHANGED <<mapped, free, lock, got>> /\ pc[t] = "flush" /\ Uncount
      /\ pc' = [pc EXCEPT ![t] = "flush_lock"]
  BY DEF FlushOne, Goto
<1>3. Flushers' = Flushers \cup {t} /\ t \notin Flushers
  BY <1>2 DEF Flushers
<1>4. InFlush' = InFlush \cup {s}
  <2>1. /\ hold'[t] = {s}
        /\ \A u \in Flushers : u \in Threads /\ hold'[u] = hold[u]
    BY <1>1, <1>2 DEF Flushers
  <2> QED
    BY <1>3, <2>1 DEF InFlush
<1>5. Out' = Out
  BY <1>2 DEF Out
<1>6. /\ s \in Out \ InFlush
      /\ Taken <= Cardinality((Out \ InFlush) \ {s})
      /\ Cardinality((Out \ InFlush) \ {s}) = Cardinality(Out \ InFlush) - 1
  BY <1>2, CachedIsCounted, Zenon
<1>7. FlushCount'
  <2>1. InFlush \subseteq Slots /\ s \in Slots /\ s \notin InFlush
    BY <1>6, WhatIsOut, Zenon DEF Out
  <2>2. Cardinality(InFlush \cup {s}) = Cardinality(InFlush) + 1
    BY <2>1, OneMore
  <2>3. IsFiniteSet(Flushers \cup {t}) /\ Cardinality(Flushers \cup {t}) = Cardinality(Flushers) + 1
    BY <1>3, FS_AddElement DEF CountInv, FlushCount
  <2>4. Cardinality(Flushers) = Cardinality(InFlush)
    BY DEF CountInv, FlushCount
  <2>5. Cardinality(Flushers \cup {t}) = Cardinality(InFlush \cup {s})
    BY <2>2, <2>3, <2>4
  <2> QED
    BY <1>3, <1>4, <2>3, <2>5 DEF FlushCount
<1>8. Exact'
  <2>1. allocated + Taken = Cardinality(Out \ InFlush) /\ allocated \in Nat /\ Taken \in Nat
    BY DEF CountInv, Exact, Taken
  <2>2. allocated >= 1
    BY <1>6, <2>1
  <2>3. Taken' = Taken
    BY <1>2 DEF Taken
  <2>4. allocated' + Taken' = allocated + Taken - 1
    BY <1>2, <2>1, <2>2, <2>3 DEF Uncount
  <2>5. (Out \ InFlush)' = (Out \ InFlush) \ {s}
    BY <1>4, <1>5
  <2>6. Cardinality((Out \ InFlush) \ {s}) = allocated + Taken - 1
    BY <1>6, <2>1
  <2>7. Cardinality((Out \ InFlush)') = allocated + Taken - 1
    BY <2>5, <2>6, Zenon
  <2> QED
    BY <2>4, <2>7 DEF Exact
<1> QED
  BY <1>7, <1>8

(* slab_free of a cached slot, second part: back on its page.              *)
LEMMA FlushPutStep ==
  ASSUME StockInv, MutexHeld, CountInv, NEW t \in Threads, FlushPut(t)
  PROVE  FlushCount' /\ Exact'
<1> USE DEF StockInv, SlotInv, TypeOK
<1>1. PICK s \in Slots : hold[t] = {s}
  BY DEF FlushPut, FlushesOne
<1>2. /\ UNCHANGED <<mapped, lock, got, allocated>> /\ pc[t] = "flush_lock"
      /\ free' = free \cup {s} /\ hold' = [hold EXCEPT ![t] = {}]
      /\ pc' = [pc EXCEPT ![t] = "flush"]
  BY <1>1 DEF FlushPut, Goto
<1>3. Flushers' = Flushers \ {t} /\ t \in Flushers
  BY <1>2 DEF Flushers
<1>4. s \in InFlush
  BY <1>1, <1>3 DEF InFlush
<1>5. InFlush' = InFlush \ {s}
  <2>1. \A u \in Flushers : u # t => hold'[u] = hold[u] /\ s \notin hold[u]
    BY <1>1, <1>2 DEF Flushers, NoSlotTwice
  <2>2. InFlush' = UNION {hold'[u] : u \in Flushers \ {t}}
    BY <1>3, Zenon DEF InFlush
  <2> QED
    BY <1>1, <1>3, <2>1, <2>2 DEF InFlush
<1>6. (Out \ InFlush)' = Out \ InFlush
  BY <1>2, <1>4, <1>5 DEF Out
<1>7. FlushCount'
  <2>1. Cardinality(InFlush \ {s}) = Cardinality(InFlush) - 1
    <3>1. InFlush \subseteq Slots
      BY WhatIsOut
    <3> QED
      BY <1>4, <3>1, OneLess
  <2>2. IsFiniteSet(Flushers \ {t}) /\ Cardinality(Flushers \ {t}) = Cardinality(Flushers) - 1
    BY <1>3, FS_RemoveElement DEF CountInv, FlushCount
  <2>3. Cardinality(Flushers) = Cardinality(InFlush)
    BY DEF CountInv, FlushCount
  <2>4. Cardinality(Flushers \ {t}) = Cardinality(InFlush \ {s})
    BY <2>1, <2>2, <2>3
  <2> QED
    BY <1>3, <1>5, <2>2, <2>4 DEF FlushCount
<1>8. Taken' = Taken
  BY <1>2 DEF Taken
<1> QED
  BY <1>2, <1>6, <1>7, <1>8, Zenon DEF CountInv, Exact

(* slab_allocated_bytes, updated outside the lock by an addition at the    *)
(* end of a critical section and by saturating subtractions, counts the    *)
(* slots that are not on a free list at every moment, up to the slots      *)
(* taken under the lock and those being flushed.                           *)
THEOREM CountExact == Spec => []AllocatedIsExact
<1>1. Init => StockInv /\ CountInv
  <2> SUFFICES ASSUME Init PROVE StockInv
    BY InitCount
  <2>1. NoSlotTwice /\ Conserved /\ HoldsOnlyInside /\ FlushesOne
    BY DEF Init, NoSlotTwice, Conserved, HoldsOnlyInside, Placed, FlushesOne
  <2> QED
    BY <2>1, InitTypeOK DEF StockInv, SlotInv
<1>2. StockInv /\ [Next]_vars /\ TypeOK' => StockInv'
  BY SlotInvStep, FlushesOneStep DEF StockInv
<1>3. StockInv /\ MutexHeld /\ CountInv /\ [Next]_vars => CountInv'
  <2> SUFFICES ASSUME StockInv, MutexHeld, CountInv, [Next]_vars PROVE FlushCount' /\ Exact'
    BY GotStep DEF CountInv
  <2>1. ASSUME NEW t \in Threads, Step(t) PROVE FlushCount' /\ Exact'
    BY <2>1, QuietStep, ReclaimStep, PublishStep, TakeStep, HarvestStep, FlushOneStep,
       FlushPutStep, Zenon DEF Step
  <2>2. ASSUME NEW t \in Threads, Call(t) PROVE FlushCount' /\ Exact'
    BY <2>2, QuietStep
  <2>3. CASE UNCHANGED vars
    <3>1. Kept /\ UNCHANGED allocated /\ Taken' = Taken
      BY <2>3, Zenon DEF vars, Kept, Out, InFlush, Flushers, Taken
    <3> QED
      BY <3>1, CountKept
  <2> QED
    BY <2>1, <2>2, <2>3 DEF Next
<1>4. Spec => []TypeOK /\ []MutexHeld
  BY TypeCorrect, ClassLockHeld
<1> QED
  BY <1>1, <1>2, <1>3, <1>4, CountMeansExact, PTL DEF Spec
=============================================================================
