------------------------------ MODULE SlabPages ------------------------------
(***************************************************************************)
(* The page lists of one slab size class (src/src/cmem_slab.c): three      *)
(* intrusive doubly linked lists, partial / full / empty, between which a  *)
(* page moves as its free_count changes, and the operations that hand      *)
(* pages back to the operating system (mp_compact, mp_reclaim_idle_pages)  *)
(* or rebuild them (mp_reset, mp_purge_lazy).                              *)
(*                                                                         *)
(* Slots are counted, not named: SlabClass follows the single slots.  The  *)
(* pointers next and prev are kept as the code keeps them, because every   *)
(* unlink trusts them to say which list the page is on.  Every             *)
(* operation here runs under sc->lock or, for the maintenance operations,  *)
(* under the pool's write lock, and is one step; a time-out that has       *)
(* elapsed is a choice.                                                    *)
(***************************************************************************)
EXTENDS Integers, FiniteSets, Sequences, Functions

CONSTANTS
  Pages,          \* page frames mmap can return for this class
  NULL,
  TotalSlots,     \* page->total_slots
  IdleReclaim,    \* pool->idle_reclaim_enabled
  MinIdlePages,   \* pool->idle_reclaim_min_pages
  MaxHot,         \* bound: pages that are hot at the same time
  RetainedSlots   \* slots still chained after mp_purge_lazy: those of the
                  \* first OS page, which holds the page's header, and the
                  \* one their last link leads to

ASSUME SlabPagesAssumption ==
  /\ IsFiniteSet(Pages) /\ NULL \notin Pages
  /\ TotalSlots \in Nat \ {0}
  /\ IdleReclaim \in BOOLEAN
  /\ MinIdlePages \in Nat
  /\ MaxHot \in Nat
  /\ RetainedSlots \in 1..TotalSlots

VARIABLES
  sc,               \* [head: list -> page, next, prev: page -> page]
  mapped,           \* pages obtained from mmap and not unmapped
  free_count,       \* page->free_count
  free_list,        \* length of the chain that page->free_list heads
  idle,             \* page->idle_since_ts > 0
  is_hot,           \* page->is_hot
  empty_page_count,
  last,             \* the operation that produced this state
  was_reset         \* history: mp_reset has been called

vars == <<sc, mapped, free_count, free_list, idle, is_hot, empty_page_count, last, was_reset>>

Lists == {"partial", "full", "empty"}
Link  == Pages \cup {NULL}

-----------------------------------------------------------------------------
(* The list surgery, written out at every call site in the source.         *)

PushHead(c, l, p) ==
  LET h == c.head[l] IN
  [head |-> [c.head EXCEPT ![l] = p],
   next |-> [c.next EXCEPT ![p] = h],
   prev |-> [q \in Pages |-> CASE q = p -> NULL
                               [] q = h /\ q # p -> p
                               [] OTHER -> c.prev[q]]]

(* A page whose prev is NULL is taken to be the head of the list.          *)
Unlink(c, l, p) ==
  [head |-> IF c.prev[p] = NULL THEN [c.head EXCEPT ![l] = c.next[p]] ELSE c.head,
   next |-> [q \in Pages |-> IF q = c.prev[p] THEN c.next[p] ELSE c.next[q]],
   prev |-> [q \in Pages |-> IF q = c.next[p] THEN c.prev[p] ELSE c.prev[q]]]

(* The list l from its head on; a chain longer than Pages would be cyclic. *)
Walk(c, l) ==
  LET N == Cardinality(Pages)
      at[k \in 1..(N + 1)] ==
        IF k = 1 THEN c.head[l]
        ELSE LET q == at[k - 1] IN IF q = NULL THEN NULL ELSE c.next[q]
      len == Cardinality({k \in 1..(N + 1) : at[k] # NULL})
  IN  [k \in 1..len |-> at[k]]

OnList(c, l) == Range(Walk(c, l))

-----------------------------------------------------------------------------
Init ==
  /\ sc = [head |-> [l \in Lists |-> NULL],
           next |-> [p \in Pages |-> NULL],
           prev |-> [p \in Pages |-> NULL]]
  /\ mapped = {}
  /\ free_count = [p \in Pages |-> 0]
  /\ free_list = [p \in Pages |-> 0]
  /\ idle = [p \in Pages |-> FALSE]
  /\ is_hot = [p \in Pages |-> FALSE]
  /\ empty_page_count = 0
  /\ last = "init"
  /\ was_reset = FALSE

(* slab_create_page: a fresh mapping, on no list, all slots chained.       *)
CreatePage(p) ==
  /\ p \in Pages \ mapped
  /\ mapped' = mapped \cup {p}
  /\ idle' = [idle EXCEPT ![p] = FALSE]
  /\ is_hot' = [is_hot EXCEPT ![p] = FALSE]

(* Pop the head of page p's free list; a page that runs out goes from the  *)
(* front of partial to the front of full.  c and the two counts are the    *)
(* class as the page selection before it left them.  The source does not   *)
(* test free_list: popping an exhausted chain ends the program.            *)
PopSlot(p, c, count, chain) ==
  /\ chain > 0
  /\ free_count' = [free_count EXCEPT ![p] = count - 1]
  /\ free_list' = [free_list EXCEPT ![p] = chain - 1]
  /\ sc' = IF count = 1
           THEN PushHead(Unlink([c EXCEPT !.prev[p] = NULL], "partial", p), "full", p)
           ELSE c

(* One slot taken by slab_alloc_slot, tls_cache_drain_slots,               *)
(* slab_alloc_batch or percpu_refill: the partial head, else the empty     *)
(* head moved to partial, else a new page pushed on partial.               *)
AllocFromPartial ==
  LET p == sc.head["partial"] IN
  /\ p # NULL
  /\ PopSlot(p, sc, free_count[p], free_list[p])
  /\ last' = "alloc"
  /\ UNCHANGED <<mapped, idle, is_hot, empty_page_count, was_reset>>

AllocFromEmpty ==
  LET p == sc.head["empty"] IN
  /\ sc.head["partial"] = NULL
  /\ p # NULL
  /\ PopSlot(p, PushHead(Unlink(sc, "empty", p), "partial", p),
             free_count[p], free_list[p])
  /\ empty_page_count' = empty_page_count - 1
  /\ last' = "alloc"
  /\ UNCHANGED <<mapped, idle, is_hot, was_reset>>

NoPageAtHandMutant == sc.head["partial"] = NULL
NoPageAtHand == sc.head["partial"] = NULL /\ sc.head["empty"] = NULL

AllocFromNewPage(p) ==
  /\ NoPageAtHand
  /\ CreatePage(p)
  /\ PopSlot(p, PushHead(sc, "partial", p), TotalSlots, TotalSlots)
  /\ last' = "alloc"
  /\ UNCHANGED <<empty_page_count, was_reset>>

(* was_full and will_be_empty of slab_free_nolock.                         *)
WasFullMutant(p) == FALSE
WasFull(p) == free_count[p] = 0
WillBeEmpty(p) == free_count[p] + 1 = TotalSlots

(* slab_free, and each slot of remote_free_harvest(_all): slab_free_nolock *)
(* and the two transitions it may ask for, full -> partial -> empty.       *)
FreeSlot(p) ==
  LET c == IF WasFull(p)
           THEN PushHead(Unlink(sc, "full", p), "partial", p)
           ELSE sc
  IN
  /\ p \in mapped /\ free_count[p] < TotalSlots
  /\ free_count' = [free_count EXCEPT ![p] = @ + 1]
  /\ free_list' = [free_list EXCEPT ![p] = @ + 1]
  /\ sc' = IF WillBeEmpty(p) THEN PushHead(Unlink(c, "partial", p), "empty", p) ELSE c
  /\ idle' = [idle EXCEPT ![p] = @ \/ WillBeEmpty(p)]
  /\ empty_page_count' = empty_page_count + (IF WillBeEmpty(p) THEN 1 ELSE 0)
  /\ last' = "free"
  /\ UNCHANGED <<mapped, is_hot, was_reset>>

-----------------------------------------------------------------------------
(* Maintenance operations.                                                 *)

(* should_free: the page is all free, or idle reclaim is on and the page's *)
(* idle_since_ts is older than the time-out (late: the set of such pages). *)
ShouldFree(p, late) ==
  \/ free_count[p] = TotalSlots
  \/ IdleReclaim /\ idle[p] /\ p \in late

Forget(c, S) ==
  [c EXCEPT !.next = [p \in Pages |-> IF p \in S THEN NULL ELSE c.next[p]],
            !.prev = [p \in Pages |-> IF p \in S THEN NULL ELSE c.prev[p]]]

(* The pages in S are unlinked from their list (the caller says which) and *)
(* unmapped; what they held is gone.                                       *)
Unmap(S, c) ==
  /\ mapped' = mapped \ S
  /\ sc' = Forget(c, S)
  /\ free_count' = [p \in Pages |-> IF p \in S THEN 0 ELSE free_count[p]]
  /\ free_list' = [p \in Pages |-> IF p \in S THEN 0 ELSE free_list[p]]
  /\ idle' = [p \in Pages |-> idle[p] /\ p \notin S]
  /\ is_hot' = [p \in Pages |-> is_hot[p] /\ p \notin S]

(* A sweep of list l, which reads a page's next before it unlinks the page *)
(* if it is in S: the class after the first k pages of the walk.           *)
UnlinkAll(c, l, S) ==
  LET w == Walk(c, l)
      swept[k \in 0..Len(w)] ==
        IF k = 0 THEN c
        ELSE IF w[k] \in S THEN Unlink(swept[k - 1], l, w[k]) ELSE swept[k - 1]
  IN  swept[Len(w)]

(* mp_compact walks the partial list only, to its end.                     *)
CompactWalk(w) == w

Compact(late) ==
  LET S == {p \in Range(CompactWalk(Walk(sc, "partial"))) : ShouldFree(p, late)} IN
  /\ Unmap(S, UnlinkAll(sc, "partial", S))
  /\ last' = "compact"
  /\ UNCHANGED <<empty_page_count, was_reset>>

(* A page to free is kept while idle_count is below the minimum.           *)
EnoughIdleMutant(idle_count) == idle_count > MinIdlePages
EnoughIdle(idle_count) == idle_count >= MinIdlePages

CountAfterReclaim(E) == empty_page_count - Cardinality(E)

(* mp_reclaim_idle_pages: first every empty page; then, of the pages on    *)
(* the partial list that should be freed, all but the first                *)
(* MinIdlePages - 1.  idle_count runs on from class to class: before is    *)
(* its value when the sweep comes to this one.                             *)
ReclaimIdlePages(late, before) ==
  LET E == OnList(sc, "empty")
      w == Walk(sc, "partial")
      idle_count(k) == before + Cardinality({j \in 1..k : ShouldFree(w[j], late)})
      S == {w[k] : k \in {j \in 1..Len(w) : ShouldFree(w[j], late) /\ EnoughIdle(idle_count(j))}}
      c == UnlinkAll(sc, "partial", S)
  IN
  /\ Unmap(E \cup S, [c EXCEPT !.head["empty"] = NULL])
  /\ empty_page_count' = CountAfterReclaim(E)
  /\ last' = "reclaim"
  /\ UNCHANGED was_reset

(* The walk of mp_reset over full: each page moved to the front of         *)
(* partial.  The pages on partial then get their whole free list back;     *)
(* empty pages have theirs, and keep their idle_since_ts.                  *)
MoveFull(c) ==
  LET w == Walk(c, "full")
      moved[k \in 0..Len(w)] ==
        IF k = 0 THEN c
        ELSE LET d == moved[k - 1] IN
             PushHead([d EXCEPT !.head["full"] = d.next[w[k]]], "partial", w[k])
  IN  moved[Len(w)]

Reset ==
  LET c == MoveFull(sc)
      S == OnList(c, "partial")
  IN
  /\ sc' = c
  /\ free_count' = [p \in Pages |-> IF p \in S THEN TotalSlots ELSE free_count[p]]
  /\ free_list' = [p \in Pages |-> IF p \in S THEN TotalSlots ELSE free_list[p]]
  /\ idle' = [p \in Pages |-> idle[p] /\ p \notin S]
  /\ last' = "reset"
  /\ was_reset' = TRUE
  /\ UNCHANGED <<mapped, is_hot, empty_page_count>>

(* mp_purge_lazy: MADV_DONTNEED on all but the first OS page of every      *)
(* all-free page on the partial list.  The links of the free slots in the  *)
(* purged range read as NULL afterwards; free_count keeps its value.       *)
PurgeableMutant(p) == free_count[p] >= TotalSlots - 1
Purgeable(p) == free_count[p] = TotalSlots

PurgeLazy ==
  LET S == {p \in OnList(sc, "partial") : Purgeable(p)} IN
  /\ free_list' = [p \in Pages |-> IF p \in S /\ free_list[p] > RetainedSlots
                                   THEN RetainedSlots ELSE free_list[p]]
  /\ last' = "purge"
  /\ UNCHANGED <<sc, mapped, free_count, idle, is_hot, empty_page_count, was_reset>>

-----------------------------------------------------------------------------
(* Temperature marks and reports.  They see the partial and then the full  *)
(* list of the class, never the empty one.                                 *)

ReportedMutant(c) == Walk(c, "partial")
Reported(c) == Walk(c, "partial") \o Walk(c, "full")

(* mp_mark_page_hot and mp_mark_page_cold; a page they do not find stays   *)
(* as it is.                                                               *)
MarkPage(p, hot) ==
  /\ p \in Range(Reported(sc))
  /\ hot => Cardinality({q \in Pages : is_hot[q]}) < MaxHot
  /\ is_hot' = [is_hot EXCEPT ![p] = hot]
  /\ last' = "mark"
  /\ UNCHANGED <<sc, mapped, free_count, free_list, idle, empty_page_count, was_reset>>

(* The entries of w that are in S: the loops below count page by page.     *)
CountIn(w, S) == Cardinality({k \in 1..Len(w) : w[k] \in S})

mp_get_hot_page_count == CountIn(Reported(sc), {p \in Pages : is_hot[p]})

mp_get_cold_page_count == Len(Reported(sc)) - mp_get_hot_page_count

(* Counts, and separates nothing.  flag: MP_FLAG_HOT_COLD_SEPARATION.      *)
mp_separate_hot_cold_pages(flag) ==
  IF flag THEN CountIn(Reported(sc), {p \in Pages : ~is_hot[p]}) ELSE 0

(* The slab part of mp_enumerate_regions: as many pages as there is room.  *)
mp_enumerate_regions(max_regions) ==
  LET w == Reported(sc) IN
  SubSeq(w, 1, IF max_regions < Len(w) THEN max_regions ELSE Len(w))

(* late as in ShouldFree.                                                  *)
mp_get_idle_page_count(late) ==
  empty_page_count + CountIn(Walk(sc, "partial"), {p \in Pages : ShouldFree(p, late)})

(* In pages.                                                               *)
mp_freeable == CountIn(Walk(sc, "partial"), {p \in Pages : free_count[p] = TotalSlots})

-----------------------------------------------------------------------------
Alloc == \/ AllocFromPartial
         \/ AllocFromEmpty
         \/ \E p \in Pages : AllocFromNewPage(p)

Next ==
  \/ Alloc
  \/ \E p \in Pages : FreeSlot(p)
  \/ \E late \in SUBSET {p \in Pages : IdleReclaim /\ idle[p]} :
       \/ Compact(late)
       \/ \E before \in 0..MinIdlePages : ReclaimIdlePages(late, before)
  \/ Reset
  \/ PurgeLazy
  \/ \E p \in Pages, hot \in BOOLEAN : MarkPage(p, hot)

Spec == Init /\ [][Next]_vars

-----------------------------------------------------------------------------
(* The lists are what the pages' free counts say: every mapped page is on  *)
(* exactly one list, once, with prev the mirror of next; full holds the    *)
(* pages without a free slot, empty only pages with all slots free, and    *)
(* partial pages with some free slot.  Every unlink in cmem_slab.c relies  *)
(* on it: a page whose prev is NULL is assumed to be the head of the list  *)
(* its free_count says it is on.                                           *)
ListsAgree ==
  /\ \A l \in Lists : LET w == Walk(sc, l) IN
       /\ Len(w) = Cardinality(OnList(sc, l))
       /\ \A k \in 1..Len(w) : sc.prev[w[k]] = IF k = 1 THEN NULL ELSE w[k - 1]
  /\ OnList(sc, "full") = {p \in mapped : free_count[p] = 0}
  /\ OnList(sc, "empty") \subseteq {p \in mapped : free_count[p] = TotalSlots}
  /\ OnList(sc, "partial") = {p \in mapped \ OnList(sc, "empty") : free_count[p] > 0}
  /\ empty_page_count = Cardinality(OnList(sc, "empty"))

(* mp_compact: "Only pages that are entirely unused are returned to the    *)
(* system"; the same is meant by "fully free" for mp_reclaim_idle_pages.   *)
OnlyUnusedPagesReleased ==
  [][\A p \in mapped \ mapped' : free_count[p] = TotalSlots]_vars

(* The two sweeps miss no page they scan, however the lists were linked.   *)
(* mp_compact "scans every slab class' partial-page list; any page whose   *)
(* slots are all free is unlinked and unmapped".  mp_reclaim_idle_pages    *)
(* leaves fewer than MinIdlePages unused pages on any list, and none when  *)
(* the minimum is zero or one (the test asserts that no idle page is left  *)
(* when it is one).                                                        *)
SweepsThorough ==
  LET unused == {p \in mapped : free_count[p] = TotalSlots} IN
  /\ last = "compact" => unused \cap OnList(sc, "partial") = {}
  /\ last = "reclaim" => unused = {} \/ Cardinality(unused) < MinIdlePages

(* The reports agree with the pages, whatever happened to them, and with   *)
(* each other.  The idle count is the number of unused pages, and          *)
(* mp_freeable counts no page twice and none in use.  mp_enumerate_regions *)
(* names mapped pages, none twice, and every page with a slot in use if    *)
(* there is room; the hot and the cold pages together are as many as it    *)
(* names.                                                                  *)
PageReports ==
  LET unused == {p \in mapped : free_count[p] = TotalSlots}
      all    == mp_enumerate_regions(Cardinality(Pages))
  IN
  /\ ~IdleReclaim => mp_get_idle_page_count({}) = Cardinality(unused)
  /\ mp_freeable <= Cardinality(unused)
  /\ mapped \ unused \subseteq Range(all)
  /\ mp_get_hot_page_count + mp_get_cold_page_count = Len(all)
  /\ mp_separate_hot_cold_pages(TRUE) = mp_get_cold_page_count
  /\ \A room \in {1, Cardinality(Pages)} :
       LET r == mp_enumerate_regions(room) IN
       /\ Len(r) = Cardinality(Range(r)) /\ Len(r) <= room
       /\ Range(r) \subseteq Range(all) /\ Range(r) \subseteq mapped

(* mp_purge_lazy drops the memory that holds the links of free slots, and  *)
(* the allocation path pops page->free_list without a NULL test.  It does  *)
(* no harm until the first mp_reset: before that an all-free page is never *)
(* on the partial list, so the purge finds none, and every chain is as     *)
(* long as its free_count.                                                 *)
PurgeHarmlessBeforeReset ==
  ~was_reset => \A p \in mapped : free_list[p] = free_count[p]

(* The lists implement the stock of slots of SlabStock.                    *)
Stock == INSTANCE SlabStock WITH
           stock <- [p \in Pages |-> IF p \in mapped THEN free_count[p] ELSE -1]

(* A page is mapped only when the class has no free slot, slots are taken  *)
(* from pages that have one, and only unused pages are unmapped.           *)
ImplementsStock == Stock!Spec
=============================================================================
