---------------------------- MODULE CompressedStore ----------------------------
(***************************************************************************)
(* In-pool compressed storage (src/src/cmem_compress.c): an area of bytes  *)
(* that is allocated once, a table of entries that say where a block is in *)
(* it, a budget kept by evicting the oldest block, and handles made of a   *)
(* table index and the entry's generation.  The code takes no lock: the    *)
(* calls of one pool are made one after the other.                         *)
(*                                                                         *)
(* issued is a history variable: what every handle was given out for, and  *)
(* what became of the block.                                               *)
(***************************************************************************)
EXTENDS Lz4

CONSTANTS
  MaxEntries,     \* CMEM_COMPRESS_MAX_ENTRIES
  SlotSize,       \* CMEM_COMPRESS_SLOT_SIZE
  MinSize,        \* the smallest payload accepted (64)
  DefaultBudget,  \* CMEM_COMPRESS_DEFAULT_BUDGET
  Budgets,        \* what mp_set_compressed_budget is called with
  Payloads,       \* what mp_compress_block is called with
  Wrap,           \* 2^32, the modulus of generation and alloc_seq
  MaxBlocks       \* bound: blocks stored

Entries == 0..(MaxEntries - 1)
MaxArea == Max(Budgets \cup {DefaultBudget})

VARIABLES
  area_size,      \* compressed_area_size, 0 while compressed_area is NULL
  area,           \* the bytes of compressed_area
  budget,         \* compressed_budget
  stored,         \* compressed_used
  entries,        \* compressed_entries
  seq,            \* compressed_seq
  issued          \* history: the handles given out

vars == <<area_size, area, budget, stored, entries, seq, issued>>

NoEntry == [used |-> FALSE, generation |-> 0, alloc_seq |-> 0,
            comp_offset |-> 0, comp_size |-> 0, original_size |-> 0]

Init ==
  /\ area_size = 0
  /\ area = [a \in 0..(MaxArea - 1) |-> 0]
  /\ budget = 0
  /\ stored = 0
  /\ entries = [i \in Entries |-> NoEntry]
  /\ seq = 0
  /\ issued = <<>>

(* An entry is given up, by eviction or by its owner.                      *)
Released(e) == [e EXCEPT !.used = FALSE, !.generation = (@ + 1) % Wrap]

-------------------------------------------------------------------------------
(* cmem_compress_ensure_area: the first use fixes the area's size, and a   *)
(* budget of 0 becomes the default, also when the memory is not there.     *)
Want == IF area_size = 0 /\ budget = 0 THEN DefaultBudget ELSE budget
AreaWanted == IF area_size = 0 THEN Want ELSE area_size

NoArea(data) ==
  /\ area_size = 0
  /\ Len(data) >= MinSize
  /\ budget' = Want
  /\ UNCHANGED <<area_size, area, stored, entries, seq, issued>>

(* cmem_compress_evict_oldest picks the least alloc_seq below UINT32_MAX.  *)
InUse(es) == {i \in Entries : es[i].used}

Evictable(es) == {i \in InUse(es) : es[i].alloc_seq < Wrap - 1}

OldestMutant(es) ==
  CHOOSE i \in Evictable(es) :
    \A j \in Evictable(es) : es[i].alloc_seq >= es[j].alloc_seq

Oldest(es) ==
  CHOOSE i \in Evictable(es) :
    \A j \in Evictable(es) : es[i].alloc_seq <= es[j].alloc_seq

(* The eviction loop of mp_compress_block: the table and the byte count it *)
(* leaves, and whether the block now fits under the budget.                *)
OverBudget(n, clen) == n + clen > Want

RECURSIVE MakeRoom(_, _, _)
MakeRoom(es, n, clen) ==
  IF ~OverBudget(n, clen) THEN [ok |-> TRUE, es |-> es, stored |-> n]
  ELSE IF Evictable(es) = {} THEN [ok |-> FALSE, es |-> es, stored |-> n]
  ELSE LET i == Oldest(es)
       IN  MakeRoom([es EXCEPT ![i] = Released(@)], n - es[i].comp_size, clen)

(* First fit at multiples of SlotSize, against the bytes entries use.      *)
Aligned(clen) == ((clen + SlotSize - 1) \div SlotSize) * SlotSize

BusyMutant(e, off, len) ==
  e.used /\ e.comp_offset <= off /\ e.comp_offset + e.comp_size > off

Busy(e, off, len) ==
  e.used /\ e.comp_offset < off + len /\ e.comp_offset + e.comp_size > off

FitsArea(off, clen) == off + Aligned(clen) <= AreaWanted

Offsets(es, clen) ==
  {off \in {k * SlotSize : k \in 0..(AreaWanted \div SlotSize)} :
     /\ FitsArea(off, clen)
     /\ \A i \in Entries : ~Busy(es[i], off, Aligned(clen))}

(* The history of a block that is gone, and of those a step has evicted.   *)
Gone(h, fate) == [h EXCEPT !.fate = fate, !.data = <<>>]

AfterEviction(es) ==
  [k \in DOMAIN issued |->
     IF issued[k].fate = "live" /\ ~es[issued[k].slot].used
     THEN Gone(issued[k], "evicted") ELSE issued[k]]

(* The scratch buffer is as long as the data, and the result has to be     *)
(* shorter.                                                                *)
Scratch == [data \in Payloads |-> Compress(data)]
Gains(data) == CompressFits(data, Scratch[data], Len(data)) /\ Len(Scratch[data]) < Len(data)

(* mp_compress_block without a scratch buffer, or on data that does not    *)
(* get smaller.                                                            *)
CompressRefused(data, scratch) ==
  /\ Len(data) >= MinSize
  /\ Want # 0
  /\ scratch => ~Gains(data)
  /\ area_size' = AreaWanted
  /\ budget' = Want
  /\ UNCHANGED <<area, stored, entries, seq, issued>>

(* ... when no budget, entry or space can be had: evictions stay.          *)
CompressNoRoom(data) ==
  LET clen == Len(Scratch[data])
      room == MakeRoom(entries, stored, clen)
  IN  /\ Len(data) >= MinSize
      /\ Want # 0
      /\ Gains(data)
      /\ ~room.ok \/ InUse(room.es) = Entries \/ Offsets(room.es, clen) = {}
      /\ area_size' = AreaWanted
      /\ budget' = Want
      /\ entries' = room.es
      /\ stored' = room.stored
      /\ issued' = AfterEviction(room.es)
      /\ UNCHANGED <<area, seq>>

(* ... and when the block is stored.                                       *)
CompressStored(data) ==
  LET comp == Scratch[data]
      clen == Len(comp)
      room == MakeRoom(entries, stored, clen)
      slot == Min(Entries \ InUse(room.es))
      off  == Min(Offsets(room.es, clen))
      gen  == (room.es[slot].generation + 1) % Wrap
  IN  /\ Len(issued) < MaxBlocks
      /\ Len(data) >= MinSize
      /\ Want # 0
      /\ Gains(data)
      /\ room.ok
      /\ InUse(room.es) # Entries
      /\ Offsets(room.es, clen) # {}
      /\ area_size' = AreaWanted
      /\ budget' = Want
      /\ area' = [a \in DOMAIN area |->
                    IF a \in off..(off + clen - 1) THEN comp[a - off + 1] ELSE area[a]]
      /\ entries' = [room.es EXCEPT ![slot] =
           [used |-> TRUE, generation |-> gen, alloc_seq |-> seq,
            comp_offset |-> off, comp_size |-> clen, original_size |-> Len(data)]]
      /\ seq' = (seq + 1) % Wrap
      /\ stored' = room.stored + clen
      /\ issued' = Append(AfterEviction(room.es),
           [slot |-> slot, generation |-> gen, data |-> data, fate |-> "live"])

-------------------------------------------------------------------------------
(* The test mp_decompress_block and mp_free_compressed make of a handle.   *)
ResolvesMutant(h) == area_size # 0 /\ entries[h.slot].used

Resolves(h) ==
  /\ area_size # 0
  /\ entries[h.slot].used
  /\ entries[h.slot].generation = h.generation

(* mp_decompress_block, for a handle that passes the test.                 *)
DecompressBlock(h) ==
  LET e == entries[h.slot]
  IN  Decompress([k \in 1..e.comp_size |-> area[e.comp_offset + k - 1]],
                 e.original_size)

(* mp_free_compressed, with any handle that was ever given out.  The block *)
(* that goes is the live one of the entry.                                 *)
Uncounted(e) == e.comp_size

FreeCompressed(k) ==
  LET h == issued[k]
  IN  /\ Resolves(h)
      /\ entries' = [entries EXCEPT ![h.slot] = Released(@)]
      /\ stored' = stored - Uncounted(entries[h.slot])
      /\ issued' = [j \in DOMAIN issued |->
           IF issued[j].slot = h.slot /\ issued[j].fate = "live"
           THEN Gone(issued[j], "freed") ELSE issued[j]]
      /\ UNCHANGED <<area_size, area, budget, seq>>

(* mp_set_compressed_budget: a budget makes the area, if the pool can grow.*)
SetBudget(b, grows) ==
  /\ budget' = b
  /\ area_size' = IF area_size = 0 /\ grows THEN b ELSE area_size
  /\ UNCHANGED <<area, stored, entries, seq, issued>>

Next ==
  \/ \E data \in Payloads :
       \/ NoArea(data)
       \/ \E scratch \in BOOLEAN : CompressRefused(data, scratch)
       \/ CompressNoRoom(data)
       \/ CompressStored(data)
  \/ \E k \in DOMAIN issued : FreeCompressed(k)
  \/ \E b \in Budgets, grows \in BOOLEAN : SetBudget(b, grows)

Spec == Init /\ [][Next]_vars

-------------------------------------------------------------------------------
(* mp_decompress_block returns exactly what the handle was given out for,  *)
(* as long as the block was neither freed nor evicted: no later block is   *)
(* written over it, and lowering the budget, to 0 even, leaves it.  And    *)
(* compressed_used is the number of bytes of the blocks that are stored,   *)
(* after any sequence of stores, evictions and frees.                      *)
StoreSound ==
  /\ stored = MapThenSumSet(LAMBDA i : entries[i].comp_size, InUse(entries))
  /\ \A k \in DOMAIN issued : issued[k].fate = "live" =>
       /\ Resolves(issued[k])
       /\ DecompressBlock(issued[k]) = [ok |-> TRUE, out |-> issued[k].data]

ReusedBy(k) == {j \in (k + 1)..Len(issued) : issued[j].slot = issued[k].slot}

(* The handle of a block that is gone is rejected, until its entry has     *)
(* been used for Wrap \div 2 further blocks: the generation then comes     *)
(* round.  And 0, which means failure, is never given out as a handle,     *)
(* also when generations wrap: an entry's is odd while it is in use.       *)
HandlesSound ==
  \A k \in DOMAIN issued :
    /\ issued[k].slot # 0 \/ issued[k].generation # 0
    /\ Resolves(issued[k]) /\ Cardinality(ReusedBy(k)) < Wrap \div 2
         => issued[k].fate = "live"

(* mp_compress_block evicts in the order the blocks were stored, and when  *)
(* it stores its block it has evicted none that could have stayed under    *)
(* the budget; until alloc_seq reaches UINT32_MAX.                         *)
Evicted(k) == issued[k].fate = "live" /\ issued'[k].fate = "evicted"

EvictionInOrder ==
  [][Len(issued) < Wrap =>
       \A k \in DOMAIN issued : Evicted(k) =>
         /\ \A j \in 1..(k - 1) : issued'[j].fate # "live"
         /\ \/ Len(issued') = Len(issued)
            \/ \E j \in (k + 1)..Len(issued) : Evicted(j)
            \/ stored' + entries[issued[k].slot].comp_size > budget'
    ]_vars
===============================================================================
