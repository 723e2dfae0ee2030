------------------------------- MODULE PoolTree -------------------------------
(***************************************************************************)
(* The tree of pools and what reaches into it from outside: creation of    *)
(* roots, children, shared pools and multi-arena sets; the walks of        *)
(* mp_reset, mp_trim and mp_dump_tree_info; mp_destroy; the threads' tables *)
(* of arena bindings; the double-buffered frame arena.                     *)
(*                                                                         *)
(* A pool is named by its address, and an address that was freed may be    *)
(* used again.  Pools are MP_FLAG_THREAD_SAFE.  `usage' says what a        *)
(* process does: anything to a tree; or only make multi-arena pools, bind  *)
(* to their arenas and destroy them, in longer histories of one thread; or *)
(* use a frame arena.                                                      *)
(***************************************************************************)
EXTENDS Integers, Sequences, FiniteSets, SequencesExt

CONSTANTS
  NumPools,     \* bound: addresses the allocator hands out
  Threads,
  None,         \* NULL
  NumArenas,    \* as passed to mp_enable_multi_arena
  MaxBound,     \* CMEM_MAX_TLS_BOUND_POOLS
  MaxCalls,     \* bound: calls of the API
  MaxArenaCalls \* bound: the same in a process that only uses arenas

Pools == 1..NumPools

ASSUME PoolTreeAssumption ==
  /\ NumPools \in Nat \ {0} /\ None \notin Pools \cup Threads
  /\ NumArenas \in Nat \ {0} /\ MaxBound \in Nat \ {0} /\ MaxCalls \in Nat
  /\ MaxArenaCalls \in Nat

VARIABLES
  usage,        \* "tree", "arenas" or "frames"
  pool,         \* address -> what memory_pool_t holds there
  known,        \* the pools callers have a pointer to
  lock,         \* pool -> the thread that holds pool_lock, or None
  bindings,     \* thread -> tls_cache.arena_bindings
  op, pc,       \* thread -> the call it is in, and where
  root,         \* thread -> the pool its call was given
  at,           \* thread -> the pool its call has come to
  child,        \* thread -> the child it is linking
  new,          \* thread -> the array mp_enable_multi_arena fills
  stack,        \* thread -> frames of its recursive walk, innermost last
  todo,         \* thread -> pools its walk is still to visit
  farena,       \* the frame arena, or None
  made,         \* the frames something was allocated in
  calls, past

walk == <<op, pc, root, at, child, new, stack, todo>>
vars == <<usage, pool, known, lock, bindings, walk, farena, made, calls, past>>

Dead == [used |-> TRUE, alive |-> FALSE, parent |-> None, first_child |-> None,
         next_sibling |-> None, arenas |-> <<>>, is_multi_arena_child |-> FALSE,
         static |-> FALSE, frames |-> {}]

(* mp_create_custom_impl and the fields mp_create_child_impl adds.          *)
Fresh(parent) == [Dead EXCEPT !.alive = TRUE, !.parent = parent]

Init ==
  /\ usage \in {"tree", "arenas", "frames"}
  /\ pool = [p \in Pools |-> [Dead EXCEPT !.used = FALSE]]
  /\ known = {}
  /\ lock = [p \in Pools |-> None]
  /\ bindings = [t \in Threads |-> <<>>]
  /\ op = [t \in Threads |-> "none"] /\ pc = [t \in Threads |-> "idle"]
  /\ root = [t \in Threads |-> None] /\ at = [t \in Threads |-> None]
  /\ child = [t \in Threads |-> None] /\ new = [t \in Threads |-> <<>>]
  /\ stack = [t \in Threads |-> <<>>] /\ todo = [t \in Threads |-> {}]
  /\ farena = None /\ made = {}
  /\ calls = 0 /\ past = {}

Alive(p) == p # None /\ pool[p].alive

(* Once a walk has met a freed pool, what follows is undefined.             *)
Sound == "freed" \notin past

Only == CHOOSE t \in Threads : TRUE

Begin(t) ==
  /\ Sound /\ pc[t] = "idle"
  /\ IF usage = "arenas" THEN calls < MaxArenaCalls /\ t = Only ELSE calls < MaxCalls
  /\ calls' = calls + 1

(* An address calloc can return: one used before, or the next unused one   *)
(* (which of those it is makes no difference).                             *)
Free(p) ==
  /\ ~pool[p].alive
  /\ pool[p].used \/ \A q \in 1..(p - 1) : pool[q].used

(* mp_get_child_count and every walk: the sibling list from first_child.   *)
RECURSIVE Siblings(_, _)
Siblings(c, seen) ==
  IF c = None \/ c \in ToSet(seen) THEN seen
  ELSE Siblings(pool[c].next_sibling, Append(seen, c))

Children(p) == Siblings(pool[p].first_child, <<>>)

RECURSIVE Reach(_)
Reach(S) == LET more == S \cup UNION {ToSet(Children(p)) : p \in S}
            IN  IF more = S THEN S ELSE Reach(more)

(* A pool and the living pools above it.                                   *)
RECURSIVE Line(_, _)
Line(p, seen) ==
  IF ~Alive(p) \/ p \in seen THEN seen ELSE Line(pool[p].parent, seen \cup {p})

Return(t) ==
  /\ op' = [op EXCEPT ![t] = "none"] /\ pc' = [pc EXCEPT ![t] = "idle"]
  /\ root' = [root EXCEPT ![t] = None] /\ at' = [at EXCEPT ![t] = None]
  /\ child' = [child EXCEPT ![t] = None] /\ new' = [new EXCEPT ![t] = <<>>]
  /\ stack' = [stack EXCEPT ![t] = <<>>]

Enter(t, call, label, p) ==
  /\ op' = [op EXCEPT ![t] = call] /\ pc' = [pc EXCEPT ![t] = label]
  /\ root' = [root EXCEPT ![t] = p] /\ at' = [at EXCEPT ![t] = p]

-----------------------------------------------------------------------------
(* Creation                                                                *)

Pooled == usage \in {"tree", "arenas"}

(* mp_create, without and with MP_FLAG_MULTI_ARENA.                        *)
CreateRoot(t, p) ==
  /\ Pooled /\ Begin(t) /\ Free(p)
  /\ pool' = [pool EXCEPT ![p] = Fresh(None)]
  /\ \/ usage = "tree" /\ known' = known \cup {p} /\ UNCHANGED walk
     \/ Enter(t, "create", "enable", p)
        /\ UNCHANGED <<known, child, new, stack, todo>>
  /\ UNCHANGED <<usage, lock, bindings, farena, made, past>>

(* mp_create_shared over mp_create_from_buffer.                            *)
CreateShared(t, p) ==
  /\ usage = "tree" /\ Begin(t) /\ Free(p)
  /\ pool' = [pool EXCEPT ![p] = [Fresh(None) EXCEPT !.static = TRUE]]
  /\ known' = known \cup {p}
  /\ UNCHANGED <<usage, lock, bindings, walk, farena, made, past>>

(* mp_create_child_impl up to pool_lock(parent).                           *)
CreateChild(t, parent, c) ==
  /\ usage = "tree" /\ Begin(t) /\ parent \in known /\ Free(c)
  /\ pool' = [pool EXCEPT ![c] = Fresh(parent)]
  /\ Enter(t, "child", "link", parent)
  /\ child' = [child EXCEPT ![t] = c]
  /\ UNCHANGED <<usage, known, lock, bindings, new, stack, todo, farena, made, past>>

LinkReadMutant(t) ==
  /\ pc[t] = "link"
  /\ pool' = [pool EXCEPT ![child[t]].next_sibling = pool[at[t]].first_child]
  /\ pc' = [pc EXCEPT ![t] = "linked"]
  /\ UNCHANGED <<usage, known, lock, bindings, op, root, at, child, new, stack,
                 todo, farena, made, calls, past>>

(* The child is put before its parent's first child, under the parent's    *)
(* lock: its own link is stored first.  mp_enable_multi_arena then marks   *)
(* the child as its own.                                                   *)
LinkRead(t) ==
  /\ pc[t] = "link" /\ lock[at[t]] = None
  /\ lock' = [lock EXCEPT ![at[t]] = t]
  /\ pool' = [pool EXCEPT ![child[t]].next_sibling = pool[at[t]].first_child]
  /\ pc' = [pc EXCEPT ![t] = "linked"]
  /\ UNCHANGED <<usage, known, bindings, op, root, at, child, new, stack, todo,
                 farena, made, calls, past>>

LinkWrite(t) ==
  /\ pc[t] = "linked"
  /\ pool' = [pool EXCEPT ![at[t]].first_child = child[t],
                          ![child[t]].is_multi_arena_child = op[t] # "child"]
  /\ lock' = [lock EXCEPT ![at[t]] = None]
  /\ IF op[t] = "child"
     THEN known' = known \cup {child[t]} /\ Return(t)
     ELSE /\ new' = [new EXCEPT ![t] = Append(@, child[t])]
          /\ child' = [child EXCEPT ![t] = None]
          /\ pc' = [pc EXCEPT ![t] = "enable"]
          /\ UNCHANGED <<known, op, root, at, stack>>
  /\ UNCHANGED <<usage, bindings, todo, farena, made, calls, past>>

-----------------------------------------------------------------------------
(* Multi-arena pools and the threads' bindings                             *)

EnableCallMutant(t, p) ==
  /\ usage = "tree" /\ Begin(t) /\ p \in known /\ lock[p] = None
  /\ ~pool[p].is_multi_arena_child /\ pool[p].arenas = <<>>
  /\ lock' = [lock EXCEPT ![p] = t]
  /\ Enter(t, "enable", "enable", p)
  /\ UNCHANGED <<usage, pool, known, bindings, child, new, stack, todo, farena,
                 made, past>>

(* mp_enable_multi_arena looks at num_arenas without the lock, and does    *)
(* not hold it while it creates children.                                  *)
EnableCall(t, p) ==
  /\ usage = "tree" /\ Begin(t) /\ p \in known
  /\ ~pool[p].is_multi_arena_child /\ pool[p].arenas = <<>>
  /\ Enter(t, "enable", "enable", p)
  /\ UNCHANGED <<usage, pool, known, lock, bindings, child, new, stack, todo,
                 farena, made, past>>

(* One round of its loop: a child, or the pool itself where none can be    *)
(* had.                                                                    *)
EnableChild(t, c) ==
  /\ pc[t] = "enable" /\ Len(new[t]) < NumArenas /\ Free(c)
  /\ pool' = [pool EXCEPT ![c] = Fresh(at[t])]
  /\ child' = [child EXCEPT ![t] = c]
  /\ pc' = [pc EXCEPT ![t] = "link"]
  /\ UNCHANGED <<usage, known, lock, bindings, op, root, at, new, stack, todo,
                 farena, made, calls, past>>

EnableFallback(t) ==
  /\ pc[t] = "enable" /\ Len(new[t]) < NumArenas
  /\ new' = [new EXCEPT ![t] = Append(@, at[t])]
  /\ UNCHANGED <<usage, pool, known, lock, bindings, op, pc, root, at, child,
                 stack, todo, farena, made, calls, past>>

EnablePublish(t) ==
  /\ pc[t] = "enable" /\ Len(new[t]) = NumArenas /\ lock[at[t]] = None
  /\ pool' = [pool EXCEPT ![at[t]].arenas = new[t]]
  /\ known' = known \cup {at[t]} \cup ToSet(new[t])
  /\ Return(t)
  /\ UNCHANGED <<usage, lock, bindings, todo, farena, made,
                 calls, past>>

(* `cut' is set when a pool an entry names goes without this thread's      *)
(* table being purged.                                                     *)
Entry(p, i) == [master_pool |-> p, bound_arena |-> pool[p].arenas[i], cut |-> FALSE]

Found(t, p) == {k \in DOMAIN bindings[t] : bindings[t][k].master_pool = p}

(* The entry a new binding is stored in: the first of the pool's, or the   *)
(* next one where the table has room.                                      *)
Stored(t, p, i) ==
  IF Found(t, p) # {}
  THEN {[bindings[t] EXCEPT ![CHOOSE k \in Found(t, p) :
                                 \A j \in Found(t, p) : k <= j] = Entry(p, i)]}
  ELSE IF Len(bindings[t]) < MaxBound THEN {Append(bindings[t], Entry(p, i))} ELSE {}

(* mp_bind_thread_to_arena.                                                *)
Bind(t, p, i) ==
  /\ Pooled /\ Begin(t) /\ p \in known /\ i \in DOMAIN pool[p].arenas
  /\ \E table \in Stored(t, p, i) : bindings' = [bindings EXCEPT ![t] = table]
  /\ UNCHANGED <<usage, pool, known, lock, walk, farena, made, past>>

(* mp_get_thread_bound_arena, as mp_alloc calls it, where the table has no *)
(* entry: any CPU, so any arena.                                           *)
GetBound(t, p, i) ==
  /\ Pooled /\ Begin(t) /\ p \in known /\ i \in DOMAIN pool[p].arenas
  /\ Found(t, p) = {}
  /\ \E table \in Stored(t, p, i) : bindings' = [bindings EXCEPT ![t] = table]
  /\ UNCHANGED <<usage, pool, known, lock, walk, farena, made, past>>

Names(e, p) == e.master_pool = p \/ e.bound_arena = p

(* mp_purge_thread_arena_bindings: from the end, a match is overwritten by *)
(* the last entry.                                                         *)
RECURSIVE PurgeFrom(_, _, _)
PurgeFrom(table, i, p) ==
  IF i = 0 THEN table
  ELSE PurgeFrom(IF Names(table[i], p)
                 THEN SubSeq([table EXCEPT ![i] = table[Len(table)]], 1, Len(table) - 1)
                 ELSE table, i - 1, p)

PurgedMutant(table, p) ==
  SubSeq(table, 1, Cardinality({i \in DOMAIN table : ~Names(table[i], p)}))

Purged(table, p) == PurgeFrom(table, Len(table), p)

-----------------------------------------------------------------------------
(* Destruction.  No other thread is in a call on the tree.                 *)

Undisturbed(t, p) ==
  \A u \in Threads \ {t} : root[u] # None => Line(root[u], {}) \cap Line(p, {}) = {}

(* What the thread's own table becomes, and what is left behind in others. *)
Cut(table, S) ==
  [k \in DOMAIN table |->
     [table[k] EXCEPT !.cut = @ \/ \E p \in S : Names(table[k], p)]]

(* mp_destroy: itself, then its children, each the same way.               *)
Taken(p) == Reach({p})

(* The freed pools it comes to; next_sibling is read before the child is   *)
(* destroyed.                                                              *)
Met(p) == {q \in Taken(p) : ~Alive(q)}

Destroy(t, p) ==
  /\ Pooled /\ Begin(t) /\ p \in known /\ Undisturbed(t, p)
  /\ LET gone == Taken(p)
         met == IF Met(p) # {} THEN {"freed"} ELSE {}
         first == IF Alive(pool[p].parent) THEN {"child_first"} ELSE {}
     IN  /\ pool' = [q \in Pools |-> IF q \in gone THEN Dead ELSE pool[q]]
         /\ known' = known \ gone
         /\ bindings' = [u \in Threads |->
              IF u = t THEN FoldLeft(Purged, bindings[u], SetToSeq(gone))
              ELSE Cut(bindings[u], gone)]
         /\ past' = past \cup met \cup first
  /\ UNCHANGED <<usage, lock, walk, farena, made>>

(* mp_destroy_shared unmaps the pool and does nothing else to the tree.    *)
DestroyShared(t, p) ==
  /\ usage = "tree" /\ Begin(t) /\ p \in known /\ pool[p].static
  /\ Undisturbed(t, p)
  /\ pool' = [pool EXCEPT ![p] = Dead]
  /\ known' = known \ {p}
  /\ bindings' = [u \in Threads |-> Cut(bindings[u], {p})]
  /\ past' = past \cup (IF Children(p) = <<>> THEN {} ELSE {"orphaned"})
  /\ UNCHANGED <<usage, lock, walk, farena, made>>

-----------------------------------------------------------------------------
(* Walks.  mp_reset holds the lock of every pool from the root down to the *)
(* one it is at; mp_trim lets go of the lock while it is in a child and    *)
(* has read the next sibling before; mp_dump_tree_info holds the root's.   *)

Frame(p, c) == [pool |-> p, child |-> c]

WalkCall(t, call, p) ==
  /\ usage = "tree" /\ Begin(t) /\ p \in known
  /\ Enter(t, call, "visit", p)
  /\ todo' = [todo EXCEPT ![t] = Reach({p})]
  /\ UNCHANGED <<usage, pool, known, lock, bindings, child, new, stack, farena,
                 made, past>>

(* A walk that comes to a freed pool.                                      *)
VisitFreed(t) ==
  /\ pc[t] = "visit" /\ ~Alive(at[t])
  /\ past' = past \cup {"freed"}
  /\ UNCHANGED <<usage, pool, known, lock, bindings, walk, farena, made, calls>>

Locks(t) == op[t] = "reset" \/ op[t] = "frame_end" \/ (op[t] = "dump" /\ at[t] = root[t])

(* Into a pool: lock it and find the first child.  mp_trim has compacted   *)
(* and purged the pool before.                                             *)
Visit(t) ==
  /\ pc[t] = "visit" /\ Alive(at[t])
  /\ op[t] = "dump" \/ lock[at[t]] = None
  /\ op[t] = "dump" /\ at[t] = root[t] => lock[at[t]] = None
  /\ lock' = IF Locks(t) THEN [lock EXCEPT ![at[t]] = t] ELSE lock
  /\ stack' = [stack EXCEPT ![t] = Append(@, Frame(at[t], pool[at[t]].first_child))]
  /\ todo' = [todo EXCEPT ![t] = @ \ {at[t]}]
  /\ pc' = [pc EXCEPT ![t] = "walk"]
  /\ UNCHANGED <<usage, pool, known, bindings, op, root, at, child, new, farena,
                 made, calls, past>>

Top(t) == stack[t][Len(stack[t])]

(* On to the next child.  mp_reset and the dump read next_sibling when     *)
(* they are back from the child, mp_trim before it goes there.             *)
Descend(t) ==
  /\ pc[t] = "walk" /\ Top(t).child # None
  /\ op[t] = "trim" => lock[Top(t).pool] = None
  /\ at' = [at EXCEPT ![t] = Top(t).child]
  /\ stack' = IF op[t] = "trim"
              THEN [stack EXCEPT ![t][Len(stack[t])].child = pool[@].next_sibling]
              ELSE stack
  /\ pc' = [pc EXCEPT ![t] = "visit"]
  /\ UNCHANGED <<usage, pool, known, lock, bindings, op, root, child, new, todo,
                 farena, made, calls, past>>

ResumeMutant(c) == None

Resume(c) == pool[c].next_sibling

(* Out of a pool whose children are done: mp_reset empties it and unlocks. *)
Ascend(t) ==
  /\ pc[t] = "walk" /\ Top(t).child = None
  /\ op[t] = "trim" => lock[Top(t).pool] = None
  /\ LET p == Top(t).pool
         rest == Front(stack[t])
         n == Len(rest)
     IN  /\ pool' = IF op[t] \in {"reset", "frame_end"}
                    THEN [pool EXCEPT ![p].frames = {}] ELSE pool
         /\ lock' = IF lock[p] = t THEN [lock EXCEPT ![p] = None] ELSE lock
         /\ IF n = 0 THEN Return(t)
            ELSE /\ stack' = [stack EXCEPT ![t] =
                        IF op[t] = "trim" THEN rest
                        ELSE [rest EXCEPT ![n].child = Resume(@)]]
                 /\ UNCHANGED <<op, pc, root, at, child, new>>
  /\ UNCHANGED <<usage, known, bindings, todo, farena, made,
                 calls, past>>

-----------------------------------------------------------------------------
(* The frame arena: one thread, two pools.                                 *)

FrameCreate(t, a, b) ==
  /\ usage = "frames" /\ Begin(t) /\ farena = None
  /\ a # b /\ ~pool[a].alive /\ ~pool[b].alive
  /\ pool' = [pool EXCEPT ![a] = Fresh(None), ![b] = Fresh(None)]
  /\ farena' = [pool_a |-> a, pool_b |-> b, active_pool |-> a, frame_index |-> 0]
  /\ made' = {}
  /\ UNCHANGED <<usage, known, lock, bindings, walk, past>>

NoFrameEnd == \A t \in Threads : pc[t] = "idle"

FrameAlloc(t) ==
  /\ usage = "frames" /\ Begin(t) /\ farena # None /\ NoFrameEnd
  /\ pool' = [pool EXCEPT ![farena.active_pool].frames = @ \cup {farena.frame_index}]
  /\ made' = made \cup {farena.frame_index}
  /\ UNCHANGED <<usage, known, lock, bindings, walk, farena, past>>

OtherBuffer == IF farena.active_pool = farena.pool_a THEN farena.pool_b ELSE farena.pool_a

ResetBufferMutant == farena.pool_b

ResetBuffer == OtherBuffer

(* mp_frame_end: the other pool becomes active and is reset.               *)
FrameEnd(t) ==
  /\ usage = "frames" /\ Begin(t) /\ farena # None /\ NoFrameEnd
  /\ farena' = [farena EXCEPT !.frame_index = @ + 1, !.active_pool = OtherBuffer]
  /\ Enter(t, "frame_end", "visit", ResetBuffer)
  /\ UNCHANGED <<usage, pool, known, lock, bindings, child, new, stack, todo, made, past>>

FrameDestroy(t) ==
  /\ usage = "frames" /\ Begin(t) /\ farena # None /\ NoFrameEnd
  /\ pool' = [pool EXCEPT ![farena.pool_a] = Dead, ![farena.pool_b] = Dead]
  /\ farena' = None
  /\ made' = {}
  /\ UNCHANGED <<usage, known, lock, bindings, walk, past>>

-----------------------------------------------------------------------------
(* What a call does once it has begun.                                     *)
Step(t) ==
  /\ Sound
  /\ \/ LinkRead(t) \/ LinkWrite(t) \/ EnableFallback(t) \/ EnablePublish(t)
     \/ VisitFreed(t) \/ Visit(t) \/ Descend(t) \/ Ascend(t)
     \/ \E p \in Pools : EnableChild(t, p)

Next ==
  \E t \in Threads :
    \/ Step(t)
    \/ \E p \in Pools :
         \/ CreateRoot(t, p) \/ CreateShared(t, p) \/ EnableCall(t, p)
         \/ Destroy(t, p) \/ DestroyShared(t, p)
         \/ \E call \in {"reset", "trim", "dump"} : WalkCall(t, call, p)
         \/ \E q \in Pools : CreateChild(t, p, q) \/ FrameCreate(t, p, q)
         \/ \E i \in 1..NumArenas : Bind(t, p, i) \/ GetBound(t, p, i)
    \/ FrameAlloc(t) \/ FrameEnd(t) \/ FrameDestroy(t)

Spec == Init /\ [][Next]_vars /\ \A t \in Threads : WF_vars(Step(t))

-----------------------------------------------------------------------------
(* What a thread's table names is a live multi-arena pool and one of its   *)
(* arenas, at most once per pool (mp_purge_thread_arena_bindings,          *)
(* mp_bind_thread_to_arena), except where another thread destroyed the     *)
(* pool, or mp_destroy_shared did.                                         *)
BindingsCurrent ==
  Sound /\ "child_first" \notin past =>
    \A t \in Threads :
      /\ \A i, j \in DOMAIN bindings[t] :
           bindings[t][i].master_pool = bindings[t][j].master_pool => i = j
      /\ \A i \in DOMAIN bindings[t] : LET e == bindings[t][i] IN
           e.cut \/ (/\ Alive(e.master_pool) /\ Alive(e.bound_arena)
                     /\ \/ e.bound_arena = e.master_pool
                        \/ pool[e.bound_arena].parent = e.master_pool)

(* Every live child is on its living parent's list, whatever creations run *)
(* at once, so that the parent's mp_destroy will release it: the tree      *)
(* loses no pool, unless mp_destroy_shared left one behind.                *)
NoPoolLost ==
  Sound /\ past \cap {"child_first", "orphaned"} = {} =>
    \A c \in Pools : pool[c].alive /\ pool[c].parent # None =>
      /\ Alive(pool[c].parent)
      /\ (\A t \in Threads : child[t] # c) => c \in ToSet(Children(pool[c].parent))

(* mp_reset, mp_trim and mp_dump_tree_info return having visited every     *)
(* pool that was in the tree when they were called, although other threads *)
(* add children meanwhile.  And no walk, and no mp_destroy, comes to a     *)
(* freed pool: each pool is released once.  The exception is a child that  *)
(* was destroyed on its own: mp_destroy does not take it off its parent's  *)
(* list.                                                                   *)
WalksVisitTheTree ==
  /\ \A t \in Threads : Sound /\ pc[t] = "idle" => todo[t] = {}
  /\ "freed" \in past => "child_first" \in past

(* A frame starts with a pool that holds nothing of earlier frames, and    *)
(* keeps there what it allocates until mp_frame_end (which "resets the     *)
(* inactive pool for the next frame"); no block outlives the end of the    *)
(* frame after its own.                                                    *)
FrameStartsClean ==
  farena # None /\ NoFrameEnd =>
    /\ pool[farena.active_pool].frames = made \cap {farena.frame_index}
    /\ \A n \in pool[farena.pool_a].frames \cup pool[farena.pool_b].frames :
         n >= farena.frame_index - 1

(* Every call returns: no order of pool locks, from the root down in       *)
(* mp_reset and one at a time elsewhere, leaves threads waiting for each   *)
(* other, or one for itself, and no walk runs in a circle.  A child that   *)
(* was destroyed on its own is again the exception: created anew at the    *)
(* same address, it becomes its own next sibling.                          *)
EveryCallReturns ==
  \A t \in Threads :
    pc[t] # "idle" ~> (pc[t] = "idle" \/ ~Sound \/ "child_first" \in past)
=============================================================================
