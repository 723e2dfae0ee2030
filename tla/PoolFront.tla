------------------------------ MODULE PoolFront ------------------------------
(***************************************************************************)
(* What a request meets before and after the tier that serves it           *)
(* (src/src/cmem_alloc.c): the dirty flag, the circuit breaker, the memory *)
(* limit, the emergency reserve, and the counters.  mp_alloc (with         *)
(* mp_aligned_alloc) and mp_alloc_batch are given here as functions from   *)
(* the pool's accounting to the pool's accounting; ActiveList has the      *)
(* steps of several threads.                                               *)
(*                                                                         *)
(* A pool's settings c: limit (0: none), fallback                          *)
(* (fallback_to_sys_alloc_on_oom), reserve (emergency_size, 0: none),      *)
(* breaker, quota, aligned (MP_FLAG_CACHE_ALIGNED), static                 *)
(* (MP_FLAG_STATIC_BUFFER), ts (MP_FLAG_THREAD_SAFE), dirty.               *)
(* Its accounting p: active, peak, count, hist (entries in the size        *)
(* histogram), used (emergency_used), tripped, quota (what the calling     *)
(* thread has taken), the events oom and alloc fired so far, and what the  *)
(* tier can still give: cache (the thread's slots), percpu, pages.         *)
(***************************************************************************)
EXTENDS Integers, FiniteSets

CONSTANTS
  HeaderSize,   \* sizeof(mp_block_header_t)
  CanaryLen,    \* 1 under MP_FLAG_DEBUG_CANARY, else 0
  Alignment,    \* the 64 of a cache-aligned pool
  SlabMax,      \* SLAB_MAX_SIZE
  TlsfMax,      \* TLSF_MAX_SIZE
  Chunk,        \* CMEM_BATCH_SLAB_CHUNK
  Wrap          \* active_bytes is a size_t: arithmetic modulo Wrap (2^64)

ASSUME PoolFrontAssumption ==
  /\ HeaderSize \in Nat \ {0} /\ CanaryLen \in {0, 1} /\ Alignment \in Nat \ {0}
  /\ SlabMax \in Nat \ {0} /\ TlsfMax \in Nat /\ SlabMax < TlsfMax
  /\ Chunk \in Nat \ {0} /\ Wrap \in Nat \ {0}

Least(a, b) == IF a < b THEN a ELSE b
Greatest(a, b) == IF a < b THEN b ELSE a

(* mp_aligned_alloc asks for room to move the header; that is what the     *)
(* limit and active_bytes are charged.                                     *)
Charge(c, size) ==
  IF c.aligned THEN size + Alignment + HeaderSize + CanaryLen ELSE size

Tier(c, total) ==
  IF ~c.static /\ total <= SlabMax THEN "slab"
  ELSE IF c.static \/ total <= TlsfMax THEN "tlsf" ELSE "os"

Room(p) == p.cache + p.percpu + p.pages

(* The entry checks of mp_alloc_internal and mp_alloc_batch.               *)
Refused(c, p) == (c.dirty /\ ~c.fallback) \/ (c.breaker /\ p.tripped)

Exceeds(c, p, charge) == c.limit > 0 /\ (p.active + charge) % Wrap > c.limit

EmergencyFits(c, p, charge) ==
  c.reserve > 0 /\ ~p.used /\ charge + HeaderSize + CanaryLen <= c.reserve

(* thread_quota and the breaker; the quota counts the caller's size.       *)
Accrued(c, p, size) ==
  IF c.breaker
  THEN [p EXCEPT !.quota = @ + size,
                 !.tripped = @ \/ (c.quota > 0 /\ p.quota + size >= c.quota)]
  ELSE p

OutOfMemory(p, times) == [p EXCEPT !.oom = @ + times]

-----------------------------------------------------------------------------
(* mp_alloc.                                                               *)

(* The slab tier takes the thread's slot, then the CPU's, then a page's.   *)
TakenOne(p) ==
  IF p.cache > 0 THEN [p EXCEPT !.cache = @ - 1]
  ELSE IF p.percpu > 0 THEN [p EXCEPT !.percpu = @ - 1]
  ELSE [p EXCEPT !.pages = @ - 1]

(* A pool that is not thread-safe compares the peak with the new           *)
(* active_bytes plus the size once more.                                   *)
CountedOne(c, p, charge) ==
  LET cur_active == IF c.ts THEN p.active ELSE p.active + charge IN
  [p EXCEPT !.active = @ + charge,
            !.peak = Greatest(@, cur_active + charge),
            !.count = @ + 1]

(* The emergency path fires no event and leaves the histogram alone.       *)
AllocOne(c, p, size) ==
  LET charge == Charge(c, size)
      q == IF Exceeds(c, p, charge) THEN OutOfMemory(p, 1) ELSE p
      stopped == Exceeds(c, p, charge) /\ ~c.fallback
  IN CASE Refused(c, p) -> [n |-> 0, pool |-> p]
       [] ~Refused(c, p) /\ stopped /\ EmergencyFits(c, p, charge) ->
            [n |-> 1,
             pool |-> Accrued(c, CountedOne(c, [q EXCEPT !.used = TRUE], charge), size)]
       [] ~Refused(c, p) /\ stopped /\ ~EmergencyFits(c, p, charge) ->
            [n |-> 0, pool |-> q]
       [] ~Refused(c, p) /\ ~stopped /\ Room(p) = 0 -> [n |-> 0, pool |-> q]
       [] OTHER ->
            [n |-> 1,
             pool |-> Accrued(c, [CountedOne(c, TakenOne(q), charge) EXCEPT
                                    !.hist = @ + 1, !.alloc = @ + 1], size)]

(* A caller that wants n blocks one by one stops at the first NULL.        *)
RECURSIVE AllocEach(_, _, _, _)
AllocEach(c, p, size, n) ==
  IF n = 0 THEN [n |-> 0, pool |-> p]
  ELSE LET one == AllocOne(c, p, size) IN
       IF one.n = 0 THEN one
       ELSE LET rest == AllocEach(c, one.pool, size, n - 1) IN
            [n |-> 1 + rest.n, pool |-> rest.pool]

-----------------------------------------------------------------------------
(* mp_alloc_batch.  The work in hand b: n blocks produced, pool, tripped   *)
(* (this call crossed the quota), lost (slots taken off a page and not     *)
(* handed out).                                                            *)

(* One block is stamped and accrued (batch_breaker_accrue).                *)
Stamp(c, b, size) ==
  LET q == Accrued(c, b.pool, size) IN
  [b EXCEPT !.n = @ + 1, !.pool = q,
            !.tripped = @ \/ (c.breaker /\ c.quota > 0 /\ q.quota >= c.quota)]

(* Up to k blocks, stopping when the breaker trips.                        *)
RECURSIVE StampUpTo(_, _, _, _)
StampUpTo(c, b, size, k) ==
  IF k = 0 \/ b.tripped THEN b ELSE StampUpTo(c, Stamp(c, b, size), size, k - 1)

(* Phase A drains the thread's cache; phase B the CPU's list.              *)
FromCache(c, b, size, target) ==
  LET d == StampUpTo(c, b, size, Least(b.pool.cache, target - b.n)) IN
  [d EXCEPT !.pool.cache = @ - (d.n - b.n)]

FromPercpu(c, b, size, target) ==
  LET d == StampUpTo(c, b, size, Least(b.pool.percpu, target - b.n)) IN
  [d EXCEPT !.pool.percpu = @ - (d.n - b.n)]

(* Phase C takes a chunk of slots off the pages before it stamps them, and *)
(* caps the chunk by what is left of the quota, the crossing block         *)
(* included: ceil((quota - taken) / size), at least one.                   *)
WantMutant(c, p, size, left) ==
  LET want == Least(left, Chunk) IN
  IF c.breaker /\ c.quota > 0
  THEN Least(want, IF c.quota > p.quota THEN (c.quota - p.quota) \div size + 1 ELSE 1)
  ELSE want

Want(c, p, size, left) ==
  LET want == Least(left, Chunk) IN
  IF c.breaker /\ c.quota > 0
  THEN Least(want, IF c.quota > p.quota THEN (c.quota - p.quota + size - 1) \div size ELSE 1)
  ELSE want

RECURSIVE FromPages(_, _, _, _)
FromPages(c, b, size, target) ==
  LET got == Least(Want(c, b.pool, size, target - b.n), b.pool.pages) IN
  IF b.tripped \/ b.n >= target \/ got = 0 THEN b
  ELSE LET d == StampUpTo(c, b, size, got) IN
       FromPages(c, [d EXCEPT !.pool.pages = @ - got,
                              !.lost = @ + got - (d.n - b.n)], size, target)

FromTlsf(c, b, size, target) ==
  LET d == StampUpTo(c, b, size, Least(Room(b.pool), target)) IN
  [d EXCEPT !.pool.pages = @ - d.n]

(* The loop of the OS tier notes the trip and goes on.                     *)
RECURSIVE FromOs(_, _, _, _)
FromOs(c, b, size, target) ==
  IF b.n >= target \/ Room(b.pool) = 0 THEN b
  ELSE FromOs(c, [Stamp(c, b, size) EXCEPT !.pool.pages = @ - 1], size, target)

Produce(c, p, size, target) ==
  LET b == [n |-> 0, pool |-> p, tripped |-> FALSE, lost |-> 0] IN
  CASE Tier(c, Charge(c, size)) = "slab" ->
         FromPages(c, FromPercpu(c, FromCache(c, b, size, target), size, target), size, target)
    [] Tier(c, Charge(c, size)) = "tlsf" -> FromTlsf(c, b, size, target)
    [] OTHER -> FromOs(c, b, size, target)

(* One look at active_bytes settles how many blocks the limit allows       *)
(* (target), the events fired for it, and whether the reserve is used.     *)
Decision(c, p, size, n) ==
  LET charge == Charge(c, size)
      over == Exceeds(c, p, charge)
      max_fit == IF over THEN 0 ELSE ((c.limit - p.active) % Wrap) \div charge
      partial == c.limit > 0 /\ ~over /\ max_fit < n
      rescue == ~c.fallback /\ EmergencyFits(c, p, charge)
  IN [target |-> IF c.limit > 0 /\ (over \/ partial) /\ ~c.fallback THEN max_fit ELSE n,
      oom |-> IF c.fallback /\ (over \/ partial) THEN n - max_fit
              ELSE IF over THEN 1 ELSE 0,
      breach |-> partial /\ ~c.fallback,        \* limit_breach_attempted
      emergency |-> (over \/ partial) /\ rescue]

(* The aggregated update of the counters, in one critical section.         *)
CountedBatch(p, n, charge, emergency) ==
  LET plain == n - (IF emergency THEN 1 ELSE 0) IN
  IF n = 0 THEN p
  ELSE [p EXCEPT !.active = @ + n * charge,
                 !.peak = Greatest(@, p.active + n * charge),
                 !.count = @ + n,
                 !.hist = @ + plain,
                 !.alloc = @ + plain]

AllocBatch(c, p, size, n) ==
  IF Refused(c, p) THEN [n |-> 0, pool |-> p, lost |-> 0]
  ELSE
    LET charge == Charge(c, size)
        d == Decision(c, p, size, n)
        b == Produce(c, OutOfMemory(p, d.oom), size, d.target)
        breached == IF d.breach /\ b.n = d.target /\ ~b.tripped
                    THEN [b EXCEPT !.pool = OutOfMemory(@, 1)] ELSE b
        emergency == d.emergency /\ b.n = d.target /\ ~b.tripped
        (* OOM#2 for the next element, unless the breaker trips first.     *)
        rescued == LET e == Stamp(c, breached, size) IN
                   [e EXCEPT !.pool = IF e.tripped THEN [@ EXCEPT !.used = TRUE]
                                      ELSE OutOfMemory([@ EXCEPT !.used = TRUE], 1)]
        final == IF emergency THEN rescued ELSE breached
    IN [n |-> final.n,
        pool |-> CountedBatch(final.pool, final.n, charge, emergency),
        lost |-> final.lost]

-----------------------------------------------------------------------------
Same(a, b, fields) == \A f \in fields : a[f] = b[f]

(* "Observable behavior matching N consecutive mp_alloc calls": a batch    *)
(* delivers as many blocks as a caller asking one by one, leaves the same  *)
(* counters, the same quota and breaker and the same reserve, and takes no *)
(* slot off a page that it does not deliver.  Three exceptions are in the  *)
(* code: in the OS tier the loop goes on after the breaker has tripped;    *)
(* the OOM events are settled beforehand, so some are too many when a      *)
(* fallback batch stops early or when the reserve serves the last element; *)
(* and a pool that is not thread-safe overstates the peak one by one.      *)
BatchAgrees(c, p, size, n) ==
  LET b == AllocBatch(c, p, size, n)
      s == AllocEach(c, p, size, n)
  IN /\ b.lost = 0
     /\ ~(Tier(c, Charge(c, size)) = "os" /\ s.pool.tripped) =>
          /\ b.n = s.n
          /\ Same(b.pool, s.pool,
                  {"active", "count", "hist", "used", "tripped", "quota", "alloc"})
          /\ c.ts => b.pool.peak = s.pool.peak
          /\ ~(c.fallback /\ s.n < n) /\ ~(s.pool.used # p.used /\ s.n = n) =>
               b.pool.oom = s.pool.oom
=============================================================================
