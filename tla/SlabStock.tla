------------------------------ MODULE SlabStock ------------------------------
(***************************************************************************)
(* What the page layer of one slab size class promises to the caches above *)
(* it, without lists, locks or threads: a stock of slots kept page by      *)
(* page.  SlabPages (the page lists) and SlabClass (the caches and the     *)
(* remote-free queue) are both shown to implement it.                      *)
(***************************************************************************)
EXTENDS Integers, FiniteSets

CONSTANTS
  Pages,        \* page frames the operating system can map for the class
  TotalSlots    \* slots carved from one page

VARIABLE stock  \* page -> number of slots on its free list, or Unmapped

Unmapped == -1

Init == stock = [p \in Pages |-> Unmapped]

Mapped == {p \in Pages : stock[p] # Unmapped}

(* One slot leaves the free list of a page that has one.                   *)
TakeFromPage(p) ==
  /\ stock[p] > 0
  /\ stock' = [stock EXCEPT ![p] = @ - 1]

(* A page is mapped only when no mapped page has a slot left, and the slot *)
(* that was asked for comes from it.                                       *)
TakeFromNewPage(p) ==
  /\ stock[p] = Unmapped
  /\ \A q \in Mapped : stock[q] = 0
  /\ stock' = [stock EXCEPT ![p] = TotalSlots - 1]

Give(p) ==
  /\ stock[p] \in 0..(TotalSlots - 1)
  /\ stock' = [stock EXCEPT ![p] = @ + 1]

(* Only entirely unused pages go back to the operating system.             *)
Release(S) ==
  /\ \A p \in S : stock[p] = TotalSlots
  /\ stock' = [p \in Pages |-> IF p \in S THEN Unmapped ELSE stock[p]]

(* mp_reset takes every slot back, whoever held it.                        *)
Restock == stock' = [p \in Pages |-> IF p \in Mapped THEN TotalSlots ELSE Unmapped]

Next ==
  \/ \E p \in Pages : TakeFromPage(p) \/ TakeFromNewPage(p) \/ Give(p)
  \/ \E S \in SUBSET Pages : Release(S)
  \/ Restock

Spec == Init /\ [][Next]_stock
=============================================================================
