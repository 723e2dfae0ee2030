---------------------------- MODULE ArenaLifecycle ----------------------------
(***************************************************************************)
(* The life of one per-thread TLSF arena of a multi-arena child pool       *)
(* (tlsf_arena_t, src/src/cmem_slab.c): its owner thread allocates from it *)
(* without a lock, every thread may free its blocks, and once the owner    *)
(* has left it (retired) the thread that brings live_bytes to zero, or the *)
(* owner itself, gives the region back to the operating system.            *)
(*                                                                         *)
(* A step is one atomic access or one section that only the owner, or only *)
(* the holder of the pool's write lock, can be in.  mp_free holds that     *)
(* lock from before the block is put back until after the test for the     *)
(* last block; mp_alloc takes it only to enter the block in the active     *)
(* list, and not at all under MP_FLAG_FAST_PATH.  Blocks all have span     *)
(* one: only the sum of the spans matters here, not the free list.         *)
(***************************************************************************)
EXTENDS Integers, FiniteSets

CONSTANTS
  Threads,
  Owner,      \* the thread whose tls_cache.tlsf_arena this arena is
  NoThread,
  Blocks,
  NoBlock,
  FastPath    \* the pool has MP_FLAG_FAST_PATH

ASSUME ArenaAssumption ==
  /\ Owner \in Threads /\ NoThread \notin Threads
  /\ IsFiniteSet(Blocks) /\ NoBlock \notin Blocks
  /\ FastPath \in BOOLEAN

VARIABLES
  place,      \* block -> where it is
  live_bytes,
  attached,   \* the owner's tls_cache.tlsf_arena is this arena
  retired,
  claimed,    \* cleanup_claimed
  finished,
  releases,   \* times the region was given back
  destroyed,  \* the pool, with the arena's descriptor, is gone
  lock,       \* holder of the pool's write lock
  pc, held, last

vars == <<place, live_bytes, attached, retired, claimed, finished, releases,
          destroyed, lock, pc, held, last>>

Places == {"free", "mailbox", "taken", "counted", "live", "freeing"}

Init ==
  /\ place = [b \in Blocks |-> "free"]
  /\ live_bytes = 0
  /\ attached = TRUE
  /\ retired = FALSE
  /\ claimed = FALSE
  /\ finished = FALSE
  /\ releases = 0
  /\ destroyed = FALSE
  /\ lock = NoThread
  /\ pc = [t \in Threads |-> "idle"]
  /\ held = [t \in Threads |-> NoBlock]
  /\ last = [t \in Threads |-> FALSE]

Goto(t, label) == pc' = [pc EXCEPT ![t] = label]

(* tlsf_arena_reap: the mailbox is emptied into the free list.             *)
Reaped == [b \in Blocks |-> IF place[b] = "mailbox" THEN "free" ELSE place[b]]

-----------------------------------------------------------------------------
(* tlsf_arena_alloc, by the owner: reap, first fit, then the counter.      *)

AllocTake(t) ==
  /\ pc[t] = "idle" /\ t = Owner /\ attached
  /\ \/ \E b \in Blocks :
          /\ Reaped[b] = "free"
          /\ place' = [Reaped EXCEPT ![b] = "taken"]
          /\ held' = [held EXCEPT ![t] = b]
          /\ Goto(t, "count")
     \/ place' = Reaped /\ UNCHANGED <<held, pc>>      \* nothing fits
  /\ UNCHANGED <<live_bytes, attached, retired, claimed, finished, releases, destroyed, lock, last>>

AllocCount(t) ==
  /\ pc[t] = "count"
  /\ live_bytes' = live_bytes + 1
  /\ place' = [place EXCEPT ![held[t]] = "counted"]
  /\ Goto(t, "publish")
  /\ UNCHANGED <<attached, retired, claimed, finished, releases, destroyed, lock, held, last>>

(* active_list_add under the pool's lock, then the caller has the block.   *)
AllocPublish(t) ==
  /\ pc[t] = "publish"
  /\ ~FastPath => lock = NoThread
  /\ place' = [place EXCEPT ![held[t]] = "live"]
  /\ held' = [held EXCEPT ![t] = NoBlock]
  /\ Goto(t, "idle")
  /\ UNCHANGED <<live_bytes, attached, retired, claimed, finished, releases, destroyed, lock, last>>

-----------------------------------------------------------------------------
(* mp_free of an arena block, by any thread: tlsf_arena_free_block under   *)
(* the pool's lock.                                                        *)

FreeLockMutant(t, b) ==
  /\ pc[t] = "idle" /\ ~destroyed
  /\ place[b] = "live"
  /\ lock' = t
  /\ place' = [place EXCEPT ![b] = "freeing"]
  /\ held' = [held EXCEPT ![t] = b]
  /\ Goto(t, "put")
  /\ UNCHANGED <<live_bytes, attached, retired, claimed, finished, releases, destroyed, last>>

FreeLock(t, b) ==
  /\ pc[t] = "idle" /\ ~destroyed
  /\ place[b] = "live"
  /\ lock = NoThread /\ lock' = t
  /\ place' = [place EXCEPT ![b] = "freeing"]
  /\ held' = [held EXCEPT ![t] = b]
  /\ Goto(t, "put")
  /\ UNCHANGED <<live_bytes, attached, retired, claimed, finished, releases, destroyed, last>>

(* The owner inserts into the free list; everybody else pushes onto the    *)
(* mailbox, before the counter goes down.                                  *)
FreePut(t) ==
  /\ pc[t] = "put"
  /\ place' = [place EXCEPT ![held[t]] =
                 IF t = Owner /\ attached /\ ~retired THEN "free" ELSE "mailbox"]
  /\ held' = [held EXCEPT ![t] = NoBlock]
  /\ Goto(t, "uncount")
  /\ UNCHANGED <<live_bytes, attached, retired, claimed, finished, releases, destroyed, lock, last>>

FreeUncount(t) ==
  /\ pc[t] = "uncount"
  /\ live_bytes' = live_bytes - 1
  /\ last' = [last EXCEPT ![t] = live_bytes = 1]
  /\ Goto(t, "check")
  /\ UNCHANGED <<place, attached, retired, claimed, finished, releases, destroyed, lock, held>>

Unlock(t) == lock' = IF lock = t THEN NoThread ELSE lock

(* The compare-and-swap on cleanup_claimed; the loser just leaves.         *)
Claim(t) ==
  IF claimed
  THEN Goto(t, "idle") /\ Unlock(t) /\ UNCHANGED claimed
  ELSE Goto(t, "cleanup") /\ claimed' = TRUE /\ UNCHANGED lock

FreeCheck(t) ==
  /\ pc[t] = "check"
  /\ \/ last[t] /\ retired /\ Claim(t)
     \/ ~(last[t] /\ retired) /\ Goto(t, "idle") /\ Unlock(t) /\ UNCHANGED claimed
  /\ last' = [last EXCEPT ![t] = FALSE]
  /\ UNCHANGED <<place, live_bytes, attached, retired, finished, releases, destroyed, held>>

-----------------------------------------------------------------------------
(* tlsf_arena_retire (the owner exits or turns to another pool), and       *)
(* tlsf_arena_cleanup by whoever claimed it.                               *)

RetireMark(t) ==
  /\ pc[t] = "idle" /\ t = Owner /\ attached
  /\ attached' = FALSE
  /\ retired' = TRUE
  /\ Goto(t, "retire")
  /\ UNCHANGED <<place, live_bytes, claimed, finished, releases, destroyed, lock, held, last>>

RetireCheckMutant(t) ==
  /\ pc[t] = "retire"
  /\ Goto(t, "idle")
  /\ UNCHANGED <<place, live_bytes, attached, retired, claimed, finished, releases, destroyed, lock, held, last>>

RetireCheck(t) ==
  /\ pc[t] = "retire"
  /\ \/ live_bytes = 0 /\ Claim(t)
     \/ live_bytes # 0 /\ Goto(t, "idle") /\ UNCHANGED <<claimed, lock>>
  /\ UNCHANGED <<place, live_bytes, attached, retired, finished, releases, destroyed, held, last>>

(* The last blocks are reaped and the region goes back.                    *)
Cleanup(t) ==
  /\ pc[t] = "cleanup"
  /\ place' = Reaped
  /\ releases' = releases + 1
  /\ finished' = TRUE
  /\ Goto(t, "idle")
  /\ Unlock(t)
  /\ UNCHANGED <<live_bytes, attached, retired, claimed, destroyed, held, last>>

(* mp_destroy, after every thread has left the pool: the registry releases *)
(* a region nobody has cleaned up.                                         *)
Destroy ==
  /\ ~destroyed /\ ~attached /\ \A t \in Threads : pc[t] = "idle"
  /\ destroyed' = TRUE
  /\ releases' = releases + (IF finished THEN 0 ELSE 1)
  /\ UNCHANGED <<place, live_bytes, attached, retired, claimed, finished, lock, pc, held, last>>

-----------------------------------------------------------------------------
Step(t) ==
  \/ AllocCount(t) \/ AllocPublish(t)
  \/ FreePut(t) \/ FreeUncount(t) \/ FreeCheck(t)
  \/ RetireCheck(t) \/ Cleanup(t)

Call(t) ==
  \/ AllocTake(t)
  \/ \E b \in Blocks : FreeLock(t, b)
  \/ RetireMark(t)

Next == Destroy \/ \E t \in Threads : Step(t) \/ Call(t)

Spec == Init /\ [][Next]_vars

(* A thread inside an operation keeps running.                             *)
FairSpec == Spec /\ \A t \in Threads : WF_vars(Step(t))

-----------------------------------------------------------------------------
Labels == {"idle", "count", "publish", "put", "uncount", "check", "retire", "cleanup"}

TypeOK ==
  /\ place \in [Blocks -> Places]
  /\ live_bytes \in Nat
  /\ attached \in BOOLEAN /\ retired \in BOOLEAN
  /\ claimed \in BOOLEAN /\ finished \in BOOLEAN /\ destroyed \in BOOLEAN
  /\ releases \in Nat
  /\ lock \in Threads \cup {NoThread}
  /\ pc \in [Threads -> Labels]
  /\ held \in [Threads -> Blocks \cup {NoBlock}]
  /\ last \in [Threads -> BOOLEAN]

(* "Sole-mutator cleanup: every block is free by now": nobody is using a   *)
(* block of a region that is being, or has been, given back.               *)
NoLiveBlockReleased ==
  (finished \/ \E t \in Threads : pc[t] = "cleanup") =>
    \A b \in Blocks : place[b] \in {"free", "mailbox"}

(* While the cleaner works, no other thread is inside an operation on the  *)
(* arena: the cleaner is the sole mutator.                                 *)
SoleMutator ==
  \A t, u \in Threads : pc[t] = "cleanup" /\ u # t => pc[u] \in {"idle", "check", "retire"}

(* The region is given back at most once, by the cleaner or by mp_destroy. *)
ReleasedOnce == releases <= 1

(* Giving the region back is safe: the three above.                        *)
ReleaseSafe == NoLiveBlockReleased /\ SoleMutator /\ ReleasedOnce

(* "Arena is retired on thread exit (released at the last outstanding      *)
(* free)": a retired arena whose blocks have all been freed is released;   *)
(* the owner and the last freer do not both leave it to the other.         *)
RetiredIsReleased ==
  (retired /\ \A b \in Blocks : place[b] # "live") ~> finished
=============================================================================
