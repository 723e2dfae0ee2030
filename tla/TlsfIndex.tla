------------------------------ MODULE TlsfIndex ------------------------------
(***************************************************************************)
(* The two-level index of a TLSF region (src/src/cmem_tlsf.c): the mapping *)
(* of a block size to a list, the lists, the two bitmaps, and the search,  *)
(* as operators on an index value; TlsfIndexed puts it to work.  A bitmap  *)
(* is the set of its bits.                                                 *)
(***************************************************************************)
EXTENDS Integers, Sequences, FiniteSets

CONSTANTS
  SlShift,      \* TLSF_SL_SHIFT (4)
  FlMax         \* TLSF_FL_MAX (30)

(* The bitmaps have 32 bits: a shift keeps the low five bits of its count, *)
(* and a segment that a carry moved out of its class must stay beyond the  *)
(* others.                                                                 *)
ASSUME TlsfIndexAssumption == SlShift \in 0..4 /\ FlMax \in 1..31

NoFit == -1

SL == 2^SlShift
Lists == (0..(FlMax - 1)) \X (0..(SL - 1))

(* tlsf_fls and tlsf_ffs                                                   *)
Fls(v) == CHOOSE k \in 0..30 : v \div 2^k = 1
Ffs(bits) == CHOOSE b \in bits : \A c \in bits : b <= c

(* The second-level index: the bits below the leading one, by an exclusive *)
(* or that sets the bit instead when rounding carried into the next class. *)
SegmentOf(size, fl) ==
  LET v == size \div 2^(fl - SlShift)
  IN IF (v \div SL) % 2 = 1 THEN v - SL ELSE v + SL

(* tlsf_mapping_insert                                                     *)
MappingInsert(size) ==
  IF size < SL THEN <<0, size>> ELSE <<Fls(size), SegmentOf(size, Fls(size))>>

(* tlsf_mapping_search rounds up to the next segment and keeps the         *)
(* first-level index of the size it was given.                             *)
Rounding(size) == 2^(Fls(size) - SlShift) - 1

MappingSearch(size) ==
  IF size < SL THEN <<0, size>>
  ELSE <<Fls(size), SegmentOf(size + Rounding(size), Fls(size))>>

-----------------------------------------------------------------------------
(* An index: the lists of free blocks, first block first, and the bitmaps. *)
EmptyIndex ==
  [blocks |-> [l \in Lists |-> <<>>],
   fl_bitmap |-> {},
   sl_bitmap |-> [fl \in 0..(FlMax - 1) |-> {}]]

(* tlsf_insert_free_block_nolock: in front of its list.                    *)
InsertFreeBlock(x, b, size) ==
  LET l == MappingInsert(size) IN
  [x EXCEPT !.blocks[l] = <<b>> \o @,
            !.fl_bitmap = @ \cup {l[1]},
            !.sl_bitmap[l[1]] = @ \cup {l[2]}]

(* tlsf_remove_free_block_nolock: the block is taken out of its list, and  *)
(* a bit goes with the last block under it.                                *)
Unlinked(list, b) ==
  LET i == CHOOSE i \in DOMAIN list : list[i] = b
  IN  [k \in 1..(Len(list) - 1) |-> IF k < i THEN list[k] ELSE list[k + 1]]

BitsLeft(x, l) ==
  IF Len(x.blocks[l]) = 1 THEN x.sl_bitmap[l[1]] \ {l[2]} ELSE x.sl_bitmap[l[1]]

RemoveFreeBlock(x, b, size) ==
  LET l == MappingInsert(size) IN
  [x EXCEPT !.blocks[l] = Unlinked(@, b),
            !.fl_bitmap = IF BitsLeft(x, l) = {} THEN @ \ {l[1]} ELSE @,
            !.sl_bitmap[l[1]] = BitsLeft(x, l)]

FirstAboveMutant(fl) == (fl + 2) % 32
FirstAbove(fl) == (fl + 1) % 32

(* tlsf_find_suitable_block: a set bit of the size's own class at or above *)
(* its segment, else the lowest class above; a shift count keeps its low   *)
(* five bits.                                                              *)
FindSuitableBlock(x, size) ==
  LET fl == MappingSearch(size)[1]
      sl == MappingSearch(size)[2]
      sl_map == {s \in x.sl_bitmap[fl] : s >= sl % 32}
      fl_map == {f \in x.fl_bitmap : f >= FirstAbove(fl)}
      upper == Ffs(fl_map)
  IN CASE sl_map # {} -> x.blocks[<<fl, Ffs(sl_map)>>][1]
       [] sl_map = {} /\ fl_map # {} -> x.blocks[<<upper, Ffs(x.sl_bitmap[upper])>>][1]
       [] OTHER -> NoFit

(* The least size that starts a segment and is at least the request: the   *)
(* reference for what a good-fit search must be able to serve.             *)
Segment(size) == IF size < SL THEN 1 ELSE 2^(Fls(size) - SlShift)
GoodFit(size) == ((size + Segment(size) - 1) \div Segment(size)) * Segment(size)
=============================================================================
