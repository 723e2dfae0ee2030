------------------------------- MODULE MCStores -------------------------------
(* The two small allocators a caller keeps slots in: the compressed store, *)
(* with payloads that shrink a little or a lot, one that needs several     *)
(* groups and one that does not shrink; and the ring.  They share nothing, *)
(* and a behaviour is of one of them.                                      *)
EXTENDS CompressedStore, MpRing

CONSTANT MaxInput   \* bound: length of the inputs the codec is tried on

VARIABLE subject    \* the allocator this behaviour is of

MCPayloads == {[i \in 1..12 |-> 0],
               [i \in 1..16 |-> i % 2],
               [i \in 1..18 |-> IF i < 9 THEN 1 ELSE i % 3],
               <<0, 0, 1, 0, 1, 1, 0, 2, 2, 1>>}

MCInit ==
  /\ subject \in {"store", "ring"} /\ Init /\ RingInit
  /\ subject = "store" => usage = "alone"   \* of no ring: any one will do

MCNext ==
  \/ subject = "store" /\ Next /\ UNCHANGED <<ringvars, subject>>
  \/ subject = "ring" /\ RingNext /\ UNCHANGED <<vars, subject>>

MCSpec == MCInit /\ [][MCNext]_<<vars, ringvars, subject>>

(* What cmem_lz4_compress makes of a buffer, cmem_lz4_decompress turns     *)
(* back into it, for every buffer of at most MaxInput bytes 0 and 1:       *)
(* lengths at and around an extension, overlapping matches, a last group   *)
(* with and without a match.  (Looked at once, before the first call.)     *)
CodecRoundTrip ==
  subject = "store" /\ issued = <<>> /\ budget = 0 /\ area_size = 0 =>
    \A n \in 1..MaxInput : \A data \in [1..n -> {0, 1}] :
      Decompress(Compress(data), n) = [ok |-> TRUE, out |-> data]
=============================================================================
