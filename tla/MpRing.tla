-------------------------------- MODULE MpRing --------------------------------
(***************************************************************************)
(* The ring allocator (mp_ring_*, src/src/cmem_ring_event.c): an array of  *)
(* slot pointers, a head counter taken by mp_ring_alloc and a tail counter *)
(* advanced by mp_ring_free.  Each call is two steps, because the counter  *)
(* is moved by one atomic access and the array read or written afterwards. *)
(*                                                                         *)
(* The ring is used in one of these ways.  Alone: one thread allocates and *)
(* frees, in any order.  Pair: one thread allocates and another frees,     *)
(* oldest slot first.  Log: by the event log (EventLog), whose two threads *)
(* both allocate and never free.  Whoever allocates also asks when every   *)
(* slot is allocated.                                                      *)
(***************************************************************************)
EXTENDS Integers, Sequences, FiniteSets

CONSTANTS
  Producer, Consumer,
  Capacity,     \* as passed to mp_ring_create
  Usages,       \* subset of {"alone", "pair", "log"}
  MaxCalls      \* bound: calls of mp_ring_alloc

Threads == {Producer, Consumer}

ASSUME MpRingAssumption ==
  /\ Capacity \in Nat \ {0}
  /\ Producer # Consumer
  /\ Usages \subseteq {"alone", "pair", "log"}
  /\ MaxCalls \in Nat

VARIABLES
  usage,        \* member of Usages
  head, tail,   \* ring->head, ring->tail
  slots,        \* ring->slots: position -> the slot the pointer there is to
  live,         \* the slots callers hold, oldest first
  pc,
  at,           \* thread -> the counter value its call took
  hand,         \* thread -> the slots it is freeing (at most one)
  failed        \* calls of mp_ring_alloc that returned NULL

ringvars == <<usage, head, tail, slots, live, pc, at, hand, failed>>

(* mp_ring_create doubles real_cap from 1 while it is below the capacity:  *)
(* its value after k turns of the loop.                                    *)
doubled[k \in 0..Capacity] ==
  IF k = 0 THEN 1
  ELSE IF doubled[k - 1] < Capacity THEN 2 * doubled[k - 1]
  ELSE doubled[k - 1]

(* The loop has ended after Capacity turns at the latest.                  *)
real_cap == doubled[Capacity]

RingInit ==
  /\ usage \in Usages
  /\ head = 0
  /\ tail = real_cap
  /\ slots = [i \in 0..(real_cap - 1) |-> i]
  /\ live = <<>>
  /\ pc = [t \in Threads |-> "idle"]
  /\ at = [t \in Threads |-> 0]
  /\ hand = [t \in Threads |-> {}]
  /\ failed = 0

(* mp_ring_alloc: the head is taken before the tail is looked at.          *)
AllocTake(t) ==
  /\ pc[t] = "idle" /\ (t = Producer \/ usage = "log")
  /\ head < MaxCalls
  /\ at' = [at EXCEPT ![t] = head]
  /\ head' = head + 1
  /\ pc' = [pc EXCEPT ![t] = "alloc"]
  /\ UNCHANGED <<usage, tail, slots, live, hand, failed>>

NoneLeft(t) == at[t] >= tail

AllocFail(t) ==
  /\ pc[t] = "alloc" /\ NoneLeft(t)
  /\ pc' = [pc EXCEPT ![t] = "idle"]
  /\ failed' = failed + 1
  /\ UNCHANGED <<usage, head, tail, slots, live, at, hand>>

AllocGet(t) ==
  /\ pc[t] = "alloc" /\ ~NoneLeft(t)
  /\ live' = Append(live, slots[at[t] % real_cap])
  /\ pc' = [pc EXCEPT ![t] = "idle"]
  /\ UNCHANGED <<usage, head, tail, slots, at, hand, failed>>

(* mp_ring_free: the tail is moved before the pointer is stored.           *)
FreeTake(t, i) ==
  /\ pc[t] = "idle" /\ usage # "log"
  /\ t = IF usage = "alone" THEN Producer ELSE Consumer
  /\ i \in DOMAIN live
  /\ usage = "pair" => i = 1
  /\ hand' = [hand EXCEPT ![t] = {live[i]}]
  /\ live' = SubSeq(live, 1, i - 1) \o SubSeq(live, i + 1, Len(live))
  /\ at' = [at EXCEPT ![t] = tail]
  /\ tail' = tail + 1
  /\ pc' = [pc EXCEPT ![t] = "free"]
  /\ UNCHANGED <<usage, head, slots, failed>>

FreePutMutant(t) ==
  /\ pc[t] = "free"
  /\ slots' = [slots EXCEPT ![(at[t] + 1) % real_cap] = CHOOSE s \in hand[t] : TRUE]
  /\ hand' = [hand EXCEPT ![t] = {}]
  /\ pc' = [pc EXCEPT ![t] = "idle"]
  /\ UNCHANGED <<usage, head, tail, live, at, failed>>

FreePut(t) ==
  /\ pc[t] = "free"
  /\ slots' = [slots EXCEPT ![at[t] % real_cap] = CHOOSE s \in hand[t] : TRUE]
  /\ hand' = [hand EXCEPT ![t] = {}]
  /\ pc' = [pc EXCEPT ![t] = "idle"]
  /\ UNCHANGED <<usage, head, tail, live, at, failed>>

RingNext ==
  \E t \in Threads :
    \/ AllocTake(t) \/ AllocFail(t) \/ AllocGet(t)
    \/ \E i \in 1..real_cap : FreeTake(t, i)
    \/ FreePut(t)

RingSpec == RingInit /\ [][RingNext]_ringvars

-----------------------------------------------------------------------------
(* No slot is with two callers: mp_ring_alloc never hands out a slot that  *)
(* is still allocated, although it may read a position of the array that   *)
(* mp_ring_free has announced and not yet written.                         *)
NoSlotTwice == \A i, j \in DOMAIN live : live[i] = live[j] => i = j

Allocating == Cardinality({t \in Threads : pc[t] = "alloc"})

(* What the two counters leave to allocate is what is not allocated, and a *)
(* call is refused only when every slot is.                                *)
CountersExact ==
  /\ tail - head = real_cap - Len(live) - Allocating
  /\ pc[Producer] = "alloc" /\ NoneLeft(Producer) => Len(live) = real_cap

(* A thread that uses mp_ring_alloc and mp_ring_free alone is never given  *)
(* a slot twice, nor is one of two threads that divide the calls, as long  *)
(* as no call has been refused; and up to the first refusal the counters   *)
(* are exact.  A refused call has moved the head all the same.             *)
RingSound ==
  /\ usage = "alone" \/ failed = 0 => NoSlotTwice
  /\ failed = 0 => CountersExact
=============================================================================
