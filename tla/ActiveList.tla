------------------------------ MODULE ActiveList ------------------------------
(***************************************************************************)
(* Several threads allocating from and freeing to one thread-safe pool     *)
(* (src/src/cmem_alloc.c): the list of active blocks that every audit,     *)
(* leak report and snapshot walks, the counters beside it, the limit and   *)
(* the emergency reserve.                                                  *)
(*                                                                         *)
(* The list is changed under the pool's lock, the counters outside it, so  *)
(* a call is several steps: a locked section is one step, and so is each   *)
(* group of counter updates.  A block is a slab slot, a block of a tier    *)
(* whose free is done under the lock (the OS tier stands for it), or the   *)
(* reserve.  A node is a header's address: in a cache-aligned pool the     *)
(* header is moved after the block was listed.                             *)
(***************************************************************************)
EXTENDS PoolFront, Sequences

CONSTANTS
  Threads,
  Slots, OsBlocks, Reserve,
  NULL,
  Sizes,        \* sizes callers ask for
  Usable,       \* usable_size of a slab slot
  Limit,        \* stats.max_memory_limit
  ReserveSize,  \* emergency_size
  High, Low,    \* the watermarks, in bytes
  Percpu,       \* the pool has per-CPU freelists
  BatchCount,   \* elements of a batch
  MaxSnapshotRecords, \* CMEM_MAX_SNAPSHOT_RECORDS
  MaxCalls      \* bound: calls made

ASSUME ActiveListAssumption ==
  /\ Reserve \notin Slots \cup OsBlocks /\ Slots \cap OsBlocks = {}
  /\ Sizes \subseteq Nat \ {0}
  /\ Low < High /\ High <= Limit /\ Limit < Wrap

Blocks == Slots \cup OsBlocks \cup {Reserve}
Nodes == Blocks \X {"raw", "moved"}

VARIABLES
  hdr,                 \* node -> prev, next, size (requested_size), usable
  active_head,
  active_bytes, active_allocations, peak_bytes,
  place,               \* block -> free, taken (by a call), held, isolated, lost
  emergency_used, is_dirty, in_high,
  aligned,             \* the pool has MP_FLAG_CACHE_ALIGNED
  pc,
  blk,                 \* thread -> the blocks its call works on
  req,                 \* thread -> the size its call was asked for
  seen,                \* thread -> the counter value it loaded
  calls,               \* calls made so far
  past                 \* history: the races that have happened

vars == <<hdr, active_head, active_bytes, active_allocations, peak_bytes, place,
          emergency_used, is_dirty, in_high, aligned, pc, blk, req, seen, calls, past>>

counters == <<active_bytes, active_allocations, peak_bytes>>
list == <<hdr, active_head>>
flags == <<emergency_used, is_dirty, in_high>>
locals == <<pc, blk, req, seen>>

(* The settings PoolFront's functions take.                                *)
Settings == [limit |-> Limit, fallback |-> FALSE, reserve |-> ReserveSize,
             breaker |-> FALSE, quota |-> 0, aligned |-> aligned,
             static |-> FALSE, ts |-> TRUE, dirty |-> is_dirty]

Account == [active |-> active_bytes, used |-> emergency_used]

NoStore == -1      \* a thread that found no reason to store the peak
Cost(t) == Charge(Settings, req[t])
NodeOf(b) == <<b, IF aligned THEN "moved" ELSE "raw">>
Fresh(b, size) ==
  [prev |-> NULL, next |-> NULL, size |-> size,
   usable |-> IF b \in Slots THEN Usable
              ELSE IF b = Reserve THEN ReserveSize - HeaderSize ELSE size]

Init ==
  /\ hdr = [n \in Nodes |-> Fresh(n[1], 0)]
  /\ active_head = NULL
  /\ active_bytes = 0 /\ active_allocations = 0 /\ peak_bytes = 0
  /\ place = [b \in Blocks |-> "free"]
  /\ emergency_used = FALSE /\ is_dirty = FALSE /\ in_high = FALSE
  /\ aligned \in BOOLEAN
  /\ pc = [t \in Threads |-> "idle"]
  /\ blk = [t \in Threads |-> <<>>]
  /\ req = [t \in Threads |-> 0]
  /\ seen = [t \in Threads |-> 0]
  /\ calls = 0
  /\ past = {}

(* The pool's lock is free.  Only mp_alloc_batch and mp_reset_stats keep    *)
(* it over more than one step.                                             *)
Unlocked == \A t \in Threads : pc[t] # "store_peak"

Goto(t, label) == pc' = [pc EXCEPT ![t] = label]

(* A thread that is in no call makes one.                                   *)
Call(t) == pc[t] = "idle" /\ calls < MaxCalls /\ calls' = calls + 1

(* A call that returns forgets what it worked on.                          *)
Return(t) == /\ Goto(t, "idle")
             /\ blk' = [blk EXCEPT ![t] = <<>>]
             /\ req' = [req EXCEPT ![t] = 0]
             /\ seen' = [seen EXCEPT ![t] = 0]

Placed(bs, where) ==
  place' = [b \in Blocks |-> IF \E i \in DOMAIN bs : bs[i] = b THEN where ELSE place[b]]

(* The calls follow only what is defined: a block in two hands ends it.    *)
Sound == past \cap {"reused", "doubled"} = {}

-----------------------------------------------------------------------------
(* The list: active_list_add, active_list_remove, and the replacement of a *)
(* header by its moved copy.                                               *)

Added(l, n) ==
  LET linked == [l.hdr EXCEPT ![n].next = l.head, ![n].prev = NULL] IN
  [hdr |-> IF l.head = NULL THEN linked ELSE [linked EXCEPT ![l.head].prev = n],
   head |-> n]

Removed(l, n) ==
  LET h == l.hdr[n]
      fore == IF h.prev = NULL THEN l.hdr ELSE [l.hdr EXCEPT ![h.prev].next = h.next]
      both == IF h.next = NULL THEN fore ELSE [fore EXCEPT ![h.next].prev = h.prev]
  IN [hdr |-> [both EXCEPT ![n].prev = NULL, ![n].next = NULL],
      head |-> IF h.prev = NULL THEN h.next ELSE l.head]

RelinkedMutant(l, b, size) ==
  LET h == l.hdr[<<b, "raw">>]
      n == <<b, "moved">>
      copied == [l.hdr EXCEPT ![n] = [h EXCEPT !.size = size]]
      fore == IF h.prev = NULL THEN copied ELSE [copied EXCEPT ![h.prev].next = n]
  IN [hdr |-> fore, head |-> IF l.head = <<b, "raw">> THEN n ELSE l.head]

Relinked(l, b, size) ==
  LET h == l.hdr[<<b, "raw">>]
      n == <<b, "moved">>
      copied == [l.hdr EXCEPT ![n] = [h EXCEPT !.size = size]]
      fore == IF h.prev = NULL THEN copied ELSE [copied EXCEPT ![h.prev].next = n]
      both == IF h.next = NULL THEN fore ELSE [fore EXCEPT ![h.next].prev = n]
  IN [hdr |-> both, head |-> IF l.head = <<b, "raw">> THEN n ELSE l.head]

(* A header nobody will read again is blanked: it would only multiply      *)
(* states.                                                                 *)
Blanked(l, ns) ==
  [l EXCEPT !.hdr = [n \in Nodes |-> IF n \in ns THEN Fresh(n[1], 0) ELSE @[n]]]
Both(b) == {<<b, "raw">>, <<b, "moved">>}

List == [hdr |-> hdr, head |-> active_head]
ListBecomes(l) == hdr' = l.hdr /\ active_head' = l.head

(* check_watermark_after_change: the state turns at the high mark, and     *)
(* back at the low one.                                                    *)
Watermark(active) ==
  in_high' = IF in_high THEN active > Low ELSE active >= High
Watched == past \ {"unwatched"}

SubtractedMutant(bytes) ==
  /\ active_bytes' = (active_bytes - bytes) % Wrap
  /\ UNCHANGED active_allocations

Subtracted(bytes) ==
  /\ active_bytes' = (active_bytes - bytes) % Wrap
  /\ active_allocations' = active_allocations - 1

-----------------------------------------------------------------------------
(* mp_alloc and mp_aligned_alloc.  The limit is tested under the read      *)
(* lock; what follows relies on a test that may be out of date.            *)

(* Another call has passed the test and has not been counted yet.          *)
Stale(t) ==
  IF \E u \in Threads \ {t} :
       pc[u] \in {"tier", "list", "count", "batch_tier", "batch_reserve", "publish"}
  THEN {"stale"} ELSE {}

OverMutant(s) == active_bytes > Limit
Over(s) == Exceeds(Settings, Account, Charge(Settings, s))

AllocAdmit(t, s) ==
  /\ Call(t) /\ ~is_dirty /\ Unlocked
  /\ req' = [req EXCEPT ![t] = s]
  /\ Goto(t, IF Over(s) THEN "exceeded" ELSE "tier")
  /\ past' = past \cup Stale(t)
  /\ UNCHANGED <<list, counters, place, flags, aligned, blk, seen>>

(* emergency_used is tested here and set in the next step, with no lock.   *)
AllocExceeded(t) ==
  /\ pc[t] = "exceeded"
  /\ IF EmergencyFits(Settings, Account, Cost(t))
     THEN /\ Goto(t, "reserve")
          /\ past' = past \cup (IF \E u \in Threads : pc[u] \in {"reserve", "batch_reserve"}
                              THEN {"overlap"} ELSE {})
          /\ UNCHANGED <<blk, req, seen>>
     ELSE Return(t) /\ UNCHANGED past
  /\ UNCHANGED <<list, counters, place, flags, aligned, calls>>

(* The header is stamped, links cleared; whoever holds the reserve already *)
(* holds the same bytes.                                                   *)
Doubled == IF place[Reserve] \in {"taken", "held"} THEN {"doubled"} ELSE {}

AllocReserve(t) ==
  /\ pc[t] = "reserve"
  /\ emergency_used' = TRUE
  /\ hdr' = [hdr EXCEPT ![<<Reserve, "raw">>] = Fresh(Reserve, Cost(t))]
  /\ past' = past \cup Doubled
  /\ Placed(<<Reserve>>, "taken")
  /\ blk' = [blk EXCEPT ![t] = <<Reserve>>]
  /\ Goto(t, "list")
  /\ UNCHANGED <<active_head, counters, is_dirty, in_high, aligned, req, seen, calls>>

(* A slot that a free has published and not yet unlisted can be handed out *)
(* here.                                                                   *)
FreeBlocks(t) ==
  {b \in IF Tier(Settings, Cost(t)) = "slab" THEN Slots ELSE OsBlocks : place[b] = "free"}
Reused(b) == IF \E u \in Threads : pc[u] \in {"percpu_count", "percpu_unlist"} /\ blk[u] = <<b>>
             THEN {"reused"} ELSE {}

AllocTier(t) ==
  /\ pc[t] = "tier"
  /\ \/ \E b \in FreeBlocks(t) :
          /\ hdr' = [hdr EXCEPT ![<<b, "raw">>] = Fresh(b, Cost(t))]
          /\ Placed(<<b>>, "taken")
          /\ blk' = [blk EXCEPT ![t] = <<b>>]
          /\ past' = past \cup Reused(b)
          /\ Goto(t, "list")
          /\ UNCHANGED <<req, seen>>
     \/ /\ FreeBlocks(t) = {}
        /\ Return(t)
        /\ UNCHANGED <<hdr, place, past>>
  /\ UNCHANGED <<active_head, counters, flags, aligned, calls>>

AllocList(t) ==
  /\ pc[t] = "list" /\ Unlocked
  /\ ListBecomes(Added(List, <<blk[t][1], "raw">>))
  /\ Goto(t, "count")
  /\ UNCHANGED <<counters, place, flags, aligned, blk, req, seen, calls, past>>

AllocCount(t) ==
  /\ pc[t] = "count"
  /\ seen' = [seen EXCEPT ![t] = active_bytes]
  /\ active_bytes' = (active_bytes + Cost(t)) % Wrap
  /\ active_allocations' = active_allocations + 1
  /\ Goto(t, "finish")
  /\ UNCHANGED <<list, peak_bytes, place, flags, aligned, blk, req, calls, past>>

(* The peak is raised by compare and swap.  Somebody about to store a peak *)
(* loaded earlier will undo the raise.                                     *)
Undone(t) == IF \E u \in Threads \ {t} : pc[u] = "store_peak" /\ seen[u] # NoStore
             THEN {"peak"} ELSE {}

PeakAfterMutant(t) == seen[t] + Cost(t)
PeakAfter(t) == Greatest(peak_bytes, seen[t] + Cost(t))

AllocFinish(t) ==
  /\ pc[t] = "finish"
  /\ peak_bytes' = PeakAfter(t)
  /\ past' = past \cup Undone(t)
  /\ seen' = [seen EXCEPT ![t] = active_bytes]
  /\ Goto(t, "watch")
  /\ UNCHANGED <<list, active_bytes, active_allocations, place, flags, aligned,
                 blk, req, calls>>

(* check_watermark_after_change on the active_bytes loaded before.         *)
Checked(t) ==
  /\ Watermark(seen[t])
  /\ past' = IF seen[t] = active_bytes THEN Watched ELSE past \cup {"unwatched"}

(* The emergency path returns without it.                                  *)
AllocWatch(t) ==
  /\ pc[t] = "watch"
  /\ \/ blk[t][1] # Reserve /\ Checked(t)
     \/ blk[t][1] = Reserve /\ UNCHANGED in_high /\ past' = past \cup {"unwatched"}
  /\ \/ aligned /\ Goto(t, "relink") /\ UNCHANGED <<place, blk, req, seen>>
     \/ ~aligned /\ Placed(blk[t], "held") /\ Return(t)
  /\ UNCHANGED <<list, counters, emergency_used, is_dirty, aligned, calls>>

AllocRelink(t) ==
  /\ pc[t] = "relink" /\ Unlocked
  /\ ListBecomes(Blanked(Relinked(List, blk[t][1], req[t]), {<<blk[t][1], "raw">>}))
  /\ Placed(blk[t], "held")
  /\ Return(t)
  /\ UNCHANGED <<counters, flags, aligned, calls, past>>

-----------------------------------------------------------------------------
(* mp_alloc_batch of BatchCount elements: one look at the limit, the       *)
(* blocks, then one locked section for the list, the headers and the       *)
(* counters; the peak is compared and stored, not swapped.                 *)

BatchAdmit(t, s) ==
  LET d == Decision(Settings, Account, s, BatchCount) IN
  /\ Call(t) /\ ~is_dirty /\ Unlocked
  /\ d.target > 0 \/ d.emergency
  /\ req' = [req EXCEPT ![t] = s]
  /\ seen' = [seen EXCEPT ![t] = d.target]
  /\ Goto(t, IF d.emergency THEN "batch_reserve" ELSE "batch_tier")
  /\ past' = past \cup Stale(t)
                  \cup (IF d.emergency /\ \E u \in Threads :
                                           pc[u] \in {"reserve", "batch_reserve"}
                      THEN {"overlap"} ELSE {})
  /\ UNCHANGED <<list, counters, place, flags, aligned, blk>>

Orders(S, k) == {q \in [1..k -> S] : \A i, j \in 1..k : q[i] = q[j] => i = j}

(* The blocks of the tier; the reserve only when all of them were found.   *)
BatchTake(t) ==
  LET k == Least(seen[t], Cardinality(FreeBlocks(t)))
      rescue == pc[t] = "batch_reserve" /\ k = seen[t]
  IN
  /\ pc[t] \in {"batch_tier", "batch_reserve"}
  /\ IF k = 0 /\ ~rescue
     THEN Return(t) /\ UNCHANGED <<list, place, emergency_used, past>>
     ELSE \E q \in Orders(FreeBlocks(t), k) :
       LET bs == IF rescue THEN Append(q, Reserve) ELSE q IN
       /\ blk' = [blk EXCEPT ![t] = bs]
       /\ Placed(bs, "taken")
       /\ hdr' = [n \in Nodes |-> IF \E i \in DOMAIN bs : n = <<bs[i], "raw">>
                                  THEN Fresh(n[1], Cost(t)) ELSE hdr[n]]
       /\ emergency_used' = (emergency_used \/ rescue)
       /\ past' = past \cup UNION {Reused(q[i]) : i \in DOMAIN q}
                      \cup (IF rescue THEN Doubled ELSE {})
       /\ Goto(t, "publish")
       /\ UNCHANGED <<active_head, req, seen>>
  /\ UNCHANGED <<counters, is_dirty, in_high, aligned, calls>>

Listed(l, b, size) ==
  LET a == Added(l, <<b, "raw">>) IN
  IF aligned THEN Blanked(Relinked(a, b, size), {<<b, "raw">>}) ELSE a

BatchPublish(t) ==
  LET n == Len(blk[t])
      after[i \in 0..n] == IF i = 0 THEN List ELSE Listed(after[i - 1], blk[t][i], req[t])
  IN
  /\ pc[t] = "publish" /\ Unlocked
  /\ ListBecomes(after[n])
  /\ active_bytes' = (active_bytes + n * Cost(t)) % Wrap
  /\ active_allocations' = active_allocations + n
  /\ seen' = [seen EXCEPT ![t] = IF active_bytes' > peak_bytes THEN active_bytes' ELSE NoStore]
  /\ Goto(t, "store_peak")
  /\ UNCHANGED <<peak_bytes, place, flags, aligned, blk, req, calls, past>>

(* The end of the locked section of mp_alloc_batch and of mp_reset_stats.  *)
StorePeak(t) ==
  /\ pc[t] = "store_peak"
  /\ peak_bytes' = IF seen[t] = NoStore THEN peak_bytes ELSE seen[t]
  /\ IF blk[t] = <<>> THEN Return(t)
     ELSE /\ Goto(t, "end")
          /\ seen' = [seen EXCEPT ![t] = active_bytes]
          /\ UNCHANGED <<blk, req>>
  /\ UNCHANGED <<list, active_bytes, active_allocations, place, flags, aligned, calls, past>>

(* The callbacks, outside the lock.                                        *)
BatchEnd(t) ==
  /\ pc[t] = "end"
  /\ Checked(t)
  /\ Placed(blk[t], "held")
  /\ Return(t)
  /\ UNCHANGED <<list, counters, emergency_used, is_dirty, aligned, calls>>

(* mp_reset_stats brings the peak down to active_bytes, in two steps too.  *)
ResetStats(t) ==
  /\ Call(t) /\ peak_bytes # active_bytes /\ Unlocked
  /\ seen' = [seen EXCEPT ![t] = active_bytes]
  /\ Goto(t, "store_peak")
  /\ UNCHANGED <<list, counters, place, flags, aligned, blk, req, past>>

-----------------------------------------------------------------------------
(* mp_free.  A slot that goes to the thread's cache or the remote queue:   *)
(* counters, then the list under the lock, then the slot is given away.    *)

Size(b) == hdr[NodeOf(b)].size

FreeSlot(t, b) ==
  /\ Call(t) /\ b \in Slots /\ place[b] = "held"
  /\ Subtracted(Size(b))
  /\ Placed(<<b>>, "taken")
  /\ blk' = [blk EXCEPT ![t] = <<b>>]
  /\ past' = past \cup {"unwatched"}
  /\ Goto(t, "unlist")
  /\ UNCHANGED <<list, peak_bytes, flags, aligned, req, seen>>

FreeUnlist(t) ==
  /\ pc[t] = "unlist" /\ Unlocked
  /\ ListBecomes(Blanked(Removed(List, NodeOf(blk[t][1])), Both(blk[t][1])))
  /\ Goto(t, "give")
  /\ UNCHANGED <<counters, place, flags, aligned, blk, req, seen, calls, past>>

FreeGive(t) ==
  /\ pc[t] = "give"
  /\ Placed(blk[t], "free")
  /\ Return(t)
  /\ UNCHANGED <<list, counters, flags, aligned, calls, past>>

(* A slot that goes to the per-CPU freelist is given away first.           *)
FreePercpu(t, b) ==
  /\ Call(t) /\ Percpu /\ b \in Slots /\ place[b] = "held"
  /\ Placed(<<b>>, "free")
  /\ blk' = [blk EXCEPT ![t] = <<b>>]
  /\ Goto(t, "percpu_count")
  /\ UNCHANGED <<list, counters, flags, aligned, req, seen, past>>

PercpuCount(t) ==
  /\ pc[t] = "percpu_count"
  /\ Subtracted(Size(blk[t][1]))
  /\ past' = past \cup {"unwatched"}
  /\ Goto(t, "percpu_unlist")
  /\ UNCHANGED <<list, peak_bytes, place, flags, aligned, blk, req, seen, calls>>

PercpuUnlist(t) ==
  /\ pc[t] = "percpu_unlist" /\ Unlocked
  /\ ListBecomes(Blanked(Removed(List, NodeOf(blk[t][1])), Both(blk[t][1])))
  /\ Return(t)
  /\ UNCHANGED <<counters, place, flags, aligned, calls, past>>

(* Every other block: all of it under the lock, the callbacks included.    *)
FreeLocked(t, b) ==
  /\ Call(t) /\ Unlocked
  /\ b \in OsBlocks \cup {Reserve} /\ place[b] = "held"
  /\ Subtracted(Size(b))
  /\ ListBecomes(Blanked(Removed(List, NodeOf(b)), Both(b)))
  /\ emergency_used' = (emergency_used /\ b # Reserve)
  /\ Watermark(active_bytes')
  /\ past' = Watched
  /\ Placed(<<b>>, "free")
  /\ UNCHANGED <<peak_bytes, is_dirty, aligned, locals>>

(* mp_free_batch of two slots (flush_slab_block): one locked section for   *)
(* the list and the counters, then the slots are given away.               *)
FreeBatch(t, b, c) ==
  /\ Call(t) /\ b # c /\ Unlocked
  /\ {b, c} \subseteq Slots /\ place[b] = "held" /\ place[c] = "held"
  /\ active_bytes' = (active_bytes - Size(b) - Size(c)) % Wrap
  /\ active_allocations' = active_allocations - 2
  /\ ListBecomes(Blanked(Removed(Removed(List, NodeOf(b)), NodeOf(c)), Both(b) \cup Both(c)))
  /\ Placed(<<b, c>>, "taken")
  /\ blk' = [blk EXCEPT ![t] = <<b, c>>]
  /\ past' = past \cup {"unwatched"}
  /\ Goto(t, "give")
  /\ UNCHANGED <<peak_bytes, flags, aligned, req, seen>>

-----------------------------------------------------------------------------
(* mp_realloc within usable_size: the size in the header changes, the      *)
(* counters do not.  (A larger one is an allocation, then a free.)         *)
Resize(t, b, s) ==
  /\ Call(t) /\ place[b] = "held"
  /\ s # Size(b) /\ s <= hdr[NodeOf(b)].usable
  /\ hdr' = [hdr EXCEPT ![NodeOf(b)].size = s]
  /\ past' = past \cup {"resized"}
  /\ UNCHANGED <<active_head, counters, place, flags, aligned, locals>>

(* mp_isolate_bad_block: the block leaves the list and the counters, its   *)
(* magic is spoilt and its memory is never used again.  mp_free on it      *)
(* finds the bad magic and marks the pool dirty, which stops allocation    *)
(* until mp_clear_pool_dirty.                                              *)
Isolate(t, b) ==
  /\ Call(t) /\ Unlocked /\ place[b] = "held"
  /\ ListBecomes(Removed(List, NodeOf(b)))
  /\ Placed(<<b>>, "taken")
  /\ blk' = [blk EXCEPT ![t] = <<b>>]
  /\ Goto(t, "isolate")
  /\ UNCHANGED <<counters, flags, aligned, req, seen, past>>

IsolateCount(t) ==
  /\ pc[t] = "isolate"
  /\ Subtracted(Size(blk[t][1]))
  /\ Placed(blk[t], "isolated")
  /\ ListBecomes(Blanked(List, Both(blk[t][1])))
  /\ past' = past \cup {"unwatched"}
  /\ Return(t)
  /\ UNCHANGED <<peak_bytes, flags, aligned, calls>>

FreeIsolated(t, b) ==
  /\ Call(t) /\ Unlocked /\ place[b] = "isolated"
  /\ is_dirty' = TRUE
  /\ UNCHANGED <<list, counters, place, emergency_used, in_high, aligned, locals, past>>

ClearDirty ==
  /\ Unlocked
  /\ is_dirty /\ is_dirty' = FALSE
  /\ UNCHANGED <<list, counters, place, emergency_used, in_high, aligned, locals, calls, past>>

Quiet == \A t \in Threads : pc[t] = "idle"

(* mp_reset, when nobody is using the pool: slots are free again, the list *)
(* and the counters are emptied.  Blocks of the OS tier are forgotten, and *)
(* emergency_used stays as it is.                                          *)
Reset ==
  /\ Quiet /\ calls < MaxCalls /\ calls' = calls + 1
  /\ place' = [b \in Blocks |-> IF b \in Slots \/ place[b] = "free" THEN "free" ELSE "lost"]
  /\ ListBecomes(Blanked([hdr |-> hdr, head |-> NULL], Nodes))
  /\ active_bytes' = 0 /\ active_allocations' = 0
  /\ past' = past \cup {"unwatched"}
  /\ UNCHANGED <<peak_bytes, flags, aligned, locals>>

(* mp_enable_emergency_reserve, while nobody holds the old one: a new      *)
(* buffer.                                                                 *)
EnableReserve ==
  /\ Quiet /\ place[Reserve] \in {"isolated", "lost"}
  /\ place' = [place EXCEPT ![Reserve] = "free"]
  /\ emergency_used' = FALSE
  /\ UNCHANGED <<list, counters, is_dirty, in_high, aligned, locals, calls, past>>

(* mp_set_watermark_callback forgets the state, and does not look.         *)
SetWatermark ==
  /\ Unlocked /\ in_high
  /\ in_high' = FALSE
  /\ past' = past \cup {"unwatched"}
  /\ UNCHANGED <<list, counters, place, emergency_used, is_dirty, aligned, locals, calls>>

-----------------------------------------------------------------------------
(* Callers stop, or what follows is undefined.                              *)
Rest == ~Sound \/ (Quiet /\ calls = MaxCalls)

Next ==
  \/ Rest /\ UNCHANGED vars
  \/ Sound /\ \E t \in Threads :
       \/ \E s \in Sizes : AllocAdmit(t, s) \/ BatchAdmit(t, s)
       \/ AllocExceeded(t) \/ AllocReserve(t) \/ AllocTier(t) \/ AllocList(t)
       \/ AllocCount(t) \/ AllocFinish(t) \/ AllocWatch(t) \/ AllocRelink(t)
       \/ BatchTake(t) \/ BatchPublish(t) \/ StorePeak(t) \/ BatchEnd(t)
       \/ ResetStats(t)
       \/ \E b \in Blocks :
            \/ FreeSlot(t, b) \/ FreePercpu(t, b) \/ FreeLocked(t, b)
            \/ \E c \in Blocks : FreeBatch(t, b, c)
            \/ \E s \in Sizes : Resize(t, b, s)
            \/ Isolate(t, b) \/ FreeIsolated(t, b)
       \/ FreeUnlist(t) \/ FreeGive(t) \/ PercpuCount(t) \/ PercpuUnlist(t)
       \/ IsolateCount(t)
  \/ Sound /\ (ClearDirty \/ Reset \/ EnableReserve \/ SetWatermark)

Spec == Init /\ [][Next]_vars

-----------------------------------------------------------------------------
(* The walk of every reader of the list, cut off when it runs in a circle. *)
Walk ==
  LET N == Cardinality(Nodes) + 1
      at[i \in 1..N] == IF i = 1 THEN active_head
                        ELSE LET n == at[i - 1] IN IF n = NULL THEN NULL ELSE hdr[n].next
      len == Cardinality({i \in 1..N : at[i] # NULL})
  IN [i \in 1..len |-> at[i]]

InList(n) == \E i \in DOMAIN Walk : Walk[i] = n

(* mp_ptr_valid and mp_get_allocation_info, for a pointer to block b: the  *)
(* magic (a freed slot keeps it, an isolated block does not), then the     *)
(* walk.                                                                   *)
mp_ptr_valid(b) == place[b] # "isolated" /\ InList(NodeOf(b))

(* mp_check_leaks trusts the counter: it expects one block when the pool    *)
(* has a compressed_area, which is a block of its own mp_alloc, and none   *)
(* when it has not (NULL).                                                 *)
mp_check_leaks(compressed_area) ==
  active_allocations = IF compressed_area # NULL THEN 1 ELSE 0

(* The snapshot header carries the counter, and a record follows for each  *)
(* block of the list.                                                      *)
SnapshotRecords == [i \in DOMAIN Walk |-> [ptr |-> Walk[i], size |-> hdr[Walk[i]].size]]
SnapshotHeader == [active_allocations |-> active_allocations, active_bytes |-> active_bytes]

(* The blocks mp_analyze_leaks describes, given room: none without looking *)
(* when the counter is zero.                                               *)
mp_analyze_leaks == IF active_allocations = 0 THEN <<>> ELSE Walk

(* The records of snapshot A that mp_diff_snapshots compares with: as many *)
(* as A's header counts, and none at all when they are too many or the     *)
(* file is shorter.                                                        *)
Baseline(header, records) ==
  LET count == header.active_allocations IN
  IF count > MaxSnapshotRecords \/ count > Len(records) THEN <<>> ELSE SubSeq(records, 1, count)

(* The records of snapshot B reported as leaked since A: those for which A *)
(* has no record of the same address and size.                             *)
mp_diff_snapshots(headerA, recordsA, recordsB) ==
  LET a == Baseline(headerA, recordsA) IN
  SelectSeq(recordsB, LAMBDA r : \A i \in DOMAIN a : a[i] # r)

RECURSIVE SumSizes(_)
SumSizes(rs) == IF rs = <<>> THEN 0 ELSE Head(rs).size + SumSizes(Tail(rs))

-----------------------------------------------------------------------------
(* The blocks that callers, and the pool for its compressed_area, hold.    *)
Held == {b \in Blocks : place[b] = "held"}

(* Where a block's header is while a call works on it.                     *)
InHand(t) ==
  CASE pc[t] \in {"count", "finish", "watch", "relink"} -> {<<blk[t][1], "raw">>}
    [] pc[t] \in {"store_peak", "end", "unlist", "percpu_count", "percpu_unlist"} ->
         {NodeOf(blk[t][i]) : i \in DOMAIN blk[t]}
    [] OTHER -> {}

(* active_list_add, active_list_remove and the header move of an aligned   *)
(* allocation keep one doubly linked list, whatever calls overlap: from    *)
(* active_head it visits, once each, the blocks callers hold and the ones  *)
(* a call has not unlisted yet, and prev leads back.  This is so until a   *)
(* slot that mp_free gave to a per-CPU list is handed out again before it  *)
(* was unlisted (Sound).                                                   *)
ListIsLive ==
  Sound =>
    /\ {Walk[i] : i \in DOMAIN Walk} =
         {NodeOf(b) : b \in Held} \cup UNION {InHand(t) : t \in Threads}
    /\ \A i \in DOMAIN Walk : hdr[Walk[i]].prev = IF i = 1 THEN NULL ELSE Walk[i - 1]

(* Between calls the readers of the list and of the counters agree:        *)
(* mp_ptr_valid accepts exactly the blocks held, mp_check_leaks says clean *)
(* exactly when none is held besides the compressed_area, whichever of     *)
(* them that is, if any; and the counts in a snapshot's header are those   *)
(* of its records.  The bytes agree until an in-place mp_realloc changes a *)
(* header's size, and never in an aligned pool, which adds the padded size *)
(* and subtracts the caller's.                                             *)
(* mp_analyze_leaks describes the blocks held, and mp_diff_snapshots finds *)
(* no leak between two snapshots of the same moment (it reads as many      *)
(* records as the counter says) that are within its limit on records.      *)
AuditsAgree ==
  Quiet /\ Sound =>
    /\ \A b \in Blocks : mp_ptr_valid(b) <=> b \in Held
    /\ \A area \in Held \cup {NULL} : mp_check_leaks(area) <=> Held \subseteq {area}
    /\ SnapshotHeader.active_allocations = Len(SnapshotRecords)
    /\ "resized" \notin past /\ ~aligned => SnapshotHeader.active_bytes = SumSizes(SnapshotRecords)
    /\ {mp_analyze_leaks[i] : i \in DOMAIN mp_analyze_leaks} = {NodeOf(b) : b \in Held}
    /\ Len(SnapshotRecords) <= MaxSnapshotRecords =>
         mp_diff_snapshots(SnapshotHeader, SnapshotRecords, SnapshotRecords) = <<>>

(* Admission at the limit.  max_memory_limit holds between calls, the      *)
(* reserve aside, unless a caller's test was made while another had passed *)
(* it and was not counted.  The emergency reserve has one holder, and      *)
(* between calls emergency_used says whether the buffer is out of use,     *)
(* unless two callers tested the flag before either set it.                *)
LimitHolds ==
  /\ Quiet /\ Sound /\ ~aligned /\ "resized" \notin past /\ "stale" \notin past =>
       active_bytes <= Limit + IF place[Reserve] = "held" THEN Size(Reserve) ELSE 0
  /\ "overlap" \notin past =>
       /\ "doubled" \notin past
       /\ Quiet => (emergency_used <=> place[Reserve] # "free")

(* What is derived from active_bytes follows it.  Between calls peak_bytes *)
(* is never below it, unless a raise by compare and swap fell between the  *)
(* load and the store of mp_alloc_batch or mp_reset_stats; and             *)
(* in_high_watermark_state is right about it, once a check has seen its    *)
(* last change: the frees of slab slots, the reserve and mp_reset change   *)
(* it without one.                                                         *)
DerivedFromActive ==
  Quiet =>
    /\ past \cap {"resized", "peak"} = {} => peak_bytes >= active_bytes
    /\ "unwatched" \notin past =>
         IF in_high THEN active_bytes > Low ELSE active_bytes < High
=============================================================================
