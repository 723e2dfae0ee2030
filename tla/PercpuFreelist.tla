---------------------------- MODULE PercpuFreelist ----------------------------
(***************************************************************************)
(* One entry of the per-CPU freelist table (mp_percpu_freelist_entry_t,    *)
(* src/src/cmem_slab.c): a lock-free stack of free slots linked through    *)
(* their first word, and a counter that is updated after the stack is; and *)
(* the table itself, which mp_set_percpu_freelist frees and allocates      *)
(* while threads may be using it.                                          *)
(*                                                                         *)
(* A thread picks the entry by the CPU it was last seen on and may be      *)
(* preempted or moved at any point, so any number of threads can be inside *)
(* an operation on one entry.  A step is one atomic access.  Poppers and   *)
(* Flushers say which threads pop (percpu_pop, then percpu_refill when it  *)
(* came back empty-handed) and which flush; every thread pushes.           *)
(***************************************************************************)
EXTENDS Integers, FiniteSets, Sequences

CONSTANTS
  Threads, Poppers, Flushers,
  Slots,
  NULL,
  Header,      \* what the first word of a slot in use reads as
  MaxBatch,    \* MP_PERCPU_MAX_BATCH (16)
  Wrap         \* entry->count is a size_t: arithmetic modulo Wrap (2^64)

ASSUME PercpuAssumption ==
  /\ IsFiniteSet(Threads) /\ IsFiniteSet(Slots)
  /\ Poppers \subseteq Threads /\ Flushers \subseteq Threads
  /\ NULL \notin Slots /\ Header \notin Slots \cup {NULL}
  /\ MaxBatch \in Nat \ {0}
  /\ Wrap \in Nat /\ Wrap > Cardinality(Slots) + Cardinality(Threads)

VARIABLES
  table,   \* pool->percpu_freelists is not NULL
  head,    \* entry->head
  next,    \* slot -> slot->next
  count,   \* entry->count
  pages,   \* slots on a page's free list
  live,    \* slots callers hold
  pc,
  seen,    \* thread -> the head it loaded
  after,   \* thread -> the slot->next it loaded
  chain,   \* thread -> the slots it is about to put on the stack
  closing, \* the threads whose flush is part of percpu_destroy
  raced,   \* history: a flush has met another operation on the entry
  stale,   \* history: a pop has installed a link read before it changed
  cut      \* history: the table was freed with an operation on it, or slots in it

vars == <<table, head, next, count, pages, live, pc, seen, after, chain, closing,
          raced, stale, cut>>

lifecycle == <<table, closing, cut>>

(* mp_create_custom_impl calls percpu_init whatever the flags say.         *)
Init ==
  /\ table = TRUE /\ closing = {} /\ cut = FALSE
  /\ head = NULL
  /\ next = [s \in Slots |-> NULL]
  /\ count = 0
  /\ pages = Slots
  /\ live = {}
  /\ pc = [t \in Threads |-> "idle"]
  /\ seen = [t \in Threads |-> NULL]
  /\ after = [t \in Threads |-> NULL]
  /\ chain = [t \in Threads |-> <<>>]
  /\ raced = FALSE /\ stale = FALSE

Goto(t, label) == pc' = [pc EXCEPT ![t] = label]

(* A thread forgets what it loaded when its operation ends.                *)
Return(t) == /\ Goto(t, "idle")
             /\ seen' = [seen EXCEPT ![t] = NULL]
             /\ after' = [after EXCEPT ![t] = NULL]

-----------------------------------------------------------------------------
(* percpu_pop: load the head, read its next, compare and swap.  Empty or   *)
(* contended, it returns NULL and the caller refills.                      *)

(* The callers look at the pointer to the table, never at                  *)
(* MP_FLAG_PERCPU_FREELIST.  The pointer may be to a table just freed.     *)
Freed == \E u \in Threads : pc[u] = "drop"

PopStart(t) ==
  /\ pc[t] = "idle" /\ t \in Poppers /\ table
  /\ cut' = Freed
  /\ Goto(t, "pop")
  /\ UNCHANGED <<table, head, next, count, pages, live, seen, after, chain, closing, raced, stale>>

PopLoad(t) ==
  /\ pc[t] = "pop"
  /\ seen' = [seen EXCEPT ![t] = head]
  /\ Goto(t, IF head = NULL THEN "refill" ELSE "pop_next")
  /\ UNCHANGED <<head, next, count, pages, live, after, chain, raced, stale, lifecycle>>

PopNext(t) ==
  /\ pc[t] = "pop_next"
  /\ after' = [after EXCEPT ![t] = next[seen[t]]]
  /\ Goto(t, "pop_cas")
  /\ UNCHANGED <<head, next, count, pages, live, seen, chain, raced, stale, lifecycle>>

(* The caller then stamps the block header over the link.                  *)
PopCas(t) ==
  /\ pc[t] = "pop_cas"
  /\ \/ /\ head = seen[t]
        /\ head' = after[t]
        /\ live' = live \cup {seen[t]}
        /\ next' = [next EXCEPT ![seen[t]] = Header]
        /\ stale' = (next[seen[t]] # after[t])
        /\ Goto(t, "pop_count")
     \/ /\ Goto(t, "refill")       \* lost, or failed spuriously (weak)
        /\ UNCHANGED <<head, live, next, stale>>
  /\ UNCHANGED <<count, pages, seen, after, chain, raced, lifecycle>>

PopCount(t) ==
  /\ pc[t] = "pop_count"
  /\ count' = (count - 1) % Wrap
  /\ Return(t)
  /\ UNCHANGED <<head, next, pages, live, chain, raced, stale, lifecycle>>

-----------------------------------------------------------------------------
(* percpu_push, from mp_free: give up when there is no table or the count  *)
(* is at the maximum (the slot then goes to the remote-free queue and from *)
(* there to its page), else link and compare and swap until it succeeds.   *)

PushStart(t, s) ==
  /\ pc[t] = "idle"
  /\ s \in live
  /\ live' = live \ {s}
  /\ cut' = (table /\ Freed)
  /\ \/ /\ table
        /\ chain' = [chain EXCEPT ![t] = <<s>>]
        /\ Goto(t, "push")
        /\ UNCHANGED pages
     \/ /\ ~table
        /\ pages' = pages \cup {s}
        /\ UNCHANGED <<chain, pc>>
  /\ UNCHANGED <<table, head, next, count, seen, after, closing, raced, stale>>

PushLoad(t) ==
  /\ pc[t] = "push"
  /\ \/ /\ count >= MaxBatch
        /\ pages' = pages \cup {chain[t][1]}
        /\ chain' = [chain EXCEPT ![t] = <<>>]
        /\ Return(t)
        /\ UNCHANGED next
     \/ /\ count < MaxBatch
        /\ seen' = [seen EXCEPT ![t] = head]
        /\ next' = [next EXCEPT ![chain[t][1]] = head]
        /\ Goto(t, "push_cas")
        /\ UNCHANGED <<pages, chain, after>>
  /\ UNCHANGED <<head, count, live, raced, stale, lifecycle>>

(* The compare-and-swap that puts the thread's chain on the stack.         *)
StackHeadMutant(t) == TRUE
StackHead(t) == head = seen[t]

PutChain(t, retry, done) ==
  \/ /\ StackHead(t)
     /\ head' = chain[t][1]
     /\ Goto(t, done)
  \/ /\ head # seen[t]
     /\ Goto(t, retry)
     /\ UNCHANGED head

PushCas(t) ==
  /\ pc[t] = "push_cas"
  /\ PutChain(t, "push", "add_count")
  /\ UNCHANGED <<next, count, pages, live, seen, after, chain, raced, stale, lifecycle>>

AddCount(t) ==
  /\ pc[t] = "add_count"
  /\ count' = (count + Len(chain[t])) % Wrap
  /\ chain' = [chain EXCEPT ![t] = <<>>]
  /\ Return(t)
  /\ UNCHANGED <<head, next, pages, live, raced, stale, lifecycle>>

-----------------------------------------------------------------------------
(* percpu_refill: when the count is low, up to MaxBatch slots are taken    *)
(* from the pages (under sc->lock; fewer when no page can be mapped),      *)
(* chained, and prepended.  The pop that follows is the thread's next one. *)

Chains == {q \in UNION {[1..k -> pages] : k \in 1..MaxBatch} :
             \A i, j \in DOMAIN q : q[i] = q[j] => i = j}

RefillStart(t) ==
  /\ pc[t] = "refill"
  /\ \/ /\ count <= MaxBatch \div 2
        /\ \E q \in Chains :
             /\ pages' = pages \ {q[i] : i \in DOMAIN q}
             /\ chain' = [chain EXCEPT ![t] = q]
             /\ next' = [s \in Slots |-> IF \E i \in 1..(Len(q) - 1) : q[i] = s
                                         THEN q[1 + CHOOSE i \in 1..(Len(q) - 1) : q[i] = s]
                                         ELSE next[s]]
        /\ Goto(t, "refill_load")
        /\ UNCHANGED <<seen, after>>
     \/ /\ count > MaxBatch \div 2 \/ pages = {}
        /\ Return(t)
        /\ UNCHANGED <<pages, chain, next>>
  /\ UNCHANGED <<head, count, live, raced, stale, lifecycle>>

RefillLoad(t) ==
  /\ pc[t] = "refill_load"
  /\ seen' = [seen EXCEPT ![t] = head]
  /\ next' = [next EXCEPT ![chain[t][Len(chain[t])]] = head]
  /\ Goto(t, "refill_cas")
  /\ UNCHANGED <<head, count, pages, live, after, chain, raced, stale, lifecycle>>

RefillCas(t) ==
  /\ pc[t] = "refill_cas"
  /\ PutChain(t, "refill_load", "add_count")
  /\ UNCHANGED <<next, count, pages, live, seen, after, chain, raced, stale, lifecycle>>

-----------------------------------------------------------------------------
(* percpu_flush, from mp_reset, mp_reclaim_idle_pages,                     *)
(* mp_get_idle_page_count and percpu_destroy: take the whole stack, zero   *)
(* the count, give the slots back to their pages.                          *)

Met(t) == \E u \in Threads \ {t} : pc[u] # "idle"

TakeStack(t) ==
  /\ pc[t] = "idle" /\ t \in Flushers /\ table
  /\ seen' = [seen EXCEPT ![t] = head]
  /\ head' = NULL
  /\ raced' = (raced \/ Met(t))
  /\ Goto(t, "flush_count")
  /\ UNCHANGED <<table, next, count, pages, live, after, chain, stale>>

FlushTake(t) ==
  /\ TakeStack(t)
  /\ cut' = Freed
  /\ UNCHANGED closing

FlushCount(t) ==
  /\ pc[t] = "flush_count"
  /\ count' = 0
  /\ raced' = (raced \/ Met(t) \/ head # NULL)
  /\ Goto(t, "flush")
  /\ UNCHANGED <<head, next, pages, live, seen, after, chain, stale, lifecycle>>

FlushOne(t) ==
  /\ pc[t] = "flush" /\ seen[t] # NULL
  /\ pages' = pages \cup {seen[t]}
  /\ seen' = [seen EXCEPT ![t] = next[seen[t]]]
  /\ UNCHANGED <<head, next, count, live, pc, after, chain, raced, stale, lifecycle>>

FlushEnd(t) ==
  /\ pc[t] = "flush" /\ seen[t] = NULL /\ t \notin closing
  /\ Return(t)
  /\ UNCHANGED <<head, next, count, pages, live, chain, raced, stale, lifecycle>>

-----------------------------------------------------------------------------
(* mp_set_percpu_freelist, under pool_lock.  Disabling flushes, frees the  *)
(* table and only then sets the pointer to NULL; a thread that has seen    *)
(* the pointer is not waited for.                                          *)

DisableStart(t) ==
  /\ closing = {}
  /\ TakeStack(t)
  /\ closing' = {t}
  /\ UNCHANGED cut

LeftBehind(t) == Met(t) \/ head # NULL

FreeTable(t) ==
  /\ pc[t] = "flush" /\ seen[t] = NULL /\ t \in closing
  /\ cut' = LeftBehind(t)
  /\ Goto(t, "drop")
  /\ UNCHANGED <<table, head, next, count, pages, live, seen, after, chain, closing, raced, stale>>

DropTable(t) ==
  /\ pc[t] = "drop"
  /\ table' = FALSE /\ closing' = {}
  /\ Return(t)
  /\ UNCHANGED <<head, next, count, pages, live, chain, raced, stale, cut>>

(* percpu_init: a table of empty entries.                                  *)
Enable(t) ==
  /\ pc[t] = "idle" /\ t \in Flushers /\ ~table
  /\ table' = TRUE /\ head' = NULL /\ count' = 0
  /\ UNCHANGED <<next, pages, live, pc, seen, after, chain, closing, raced, stale, cut>>

(* After a stale link has become the head, or the table was freed under an *)
(* operation, what follows is undefined.                                   *)
Next ==
  \/ (stale \/ cut) /\ UNCHANGED vars
  \/ ~stale /\ ~cut /\ \E t \in Threads :
       \/ PopStart(t) \/ PopLoad(t) \/ PopNext(t) \/ PopCas(t) \/ PopCount(t)
       \/ \E s \in Slots : PushStart(t, s)
       \/ PushLoad(t) \/ PushCas(t) \/ AddCount(t)
       \/ RefillStart(t) \/ RefillLoad(t) \/ RefillCas(t)
       \/ FlushTake(t) \/ FlushCount(t) \/ FlushOne(t) \/ FlushEnd(t)
       \/ DisableStart(t) \/ FreeTable(t) \/ DropTable(t) \/ Enable(t)

Spec == Init /\ [][Next]_vars

-----------------------------------------------------------------------------
(* The slots reached from s by following the links nx, in order; a chain   *)
(* that runs into a slot in use, or into itself, is cut off at Slots + 1.  *)
From(nx, s) ==
  LET N == Cardinality(Slots) + 1
      at[k \in 1..N] ==
        IF k = 1 THEN s
        ELSE IF at[k - 1] \in Slots THEN nx[at[k - 1]] ELSE NULL
      len == Cardinality({k \in 1..N : at[k] # NULL})
  IN [k \in 1..len |-> at[k]]

Members(q) == {q[i] : i \in DOMAIN q}

(* The slots only thread t refers to: not yet on the stack, or taken off   *)
(* it by a flush.                                                          *)
Mine(t) ==
  CASE pc[t] \in {"push", "push_cas", "refill_load", "refill_cas"} -> Members(chain[t])
    [] pc[t] \in {"flush_count", "flush"} -> Members(From(next, seen[t]))
    [] OTHER -> {}

(* The stack is a proper list of free slots, and each slot is in exactly   *)
(* one place: on the stack, on a page, with a caller, or with one thread   *)
(* on its way.  A slot in two places is handed out twice.                  *)
EachSlotOnce ==
  LET stack == Members(From(next, head)) IN
  /\ Len(From(next, head)) = Cardinality(stack)
  /\ stack \cup pages \cup live \cup UNION {Mine(t) : t \in Threads} = Slots
  /\ stack \cap (pages \cup live) = {} /\ pages \cap live = {}
  /\ \A t \in Threads :
       /\ Mine(t) \cap (stack \cup pages \cup live) = {}
       /\ \A u \in Threads \ {t} : Mine(t) \cap Mine(u) = {}

Quiet == \A t \in Threads : pc[t] = "idle"

(* When no operation is under way the counter is the length of the stack:  *)
(* percpu_refill and percpu_push decide by it alone.  The exception is a   *)
(* flush that met another operation: it empties the stack and zeroes the   *)
(* counter in two steps, and the count of a push in between is lost.       *)
CountMatchesStack == Quiet /\ ~raced => count = Len(From(next, head))

(* The lock-free operations keep the stack and the counter right, for any  *)
(* number of threads popping, pushing, refilling and flushing at once and  *)
(* for the table being freed and allocated again, until one of the two     *)
(* cases the code does not exclude: percpu_pop has read a slot's link, the *)
(* slot was popped and pushed again with another link, and the             *)
(* compare-and-swap, which sees the same head, installs the old link; or   *)
(* mp_set_percpu_freelist frees the table while a thread is between its    *)
(* test of the pointer and its last access, or after a late push into it.  *)
OnlyStaleLinksBreakIt == ~stale /\ ~cut => EachSlotOnce /\ CountMatchesStack
=============================================================================
