--------------------------- MODULE SlabPagesProofs ---------------------------
(***************************************************************************)
(* The page layer of a slab class, for any number of pages and slots: the  *)
(* lists are what the free counts say (ListsSound), mp_purge_lazy is       *)
(* harmless before mp_reset (PurgeSafe), the two sweeps miss no page       *)
(* (SweepsSound), the reports agree with the lists (ReportsSound), and     *)
(* while idle reclaim is off the class implements SlabStock                *)
(* (PagesImplementStock) and unmaps unused pages only                      *)
(* (OnlyUnusedReleased).                                                   *)
(*                                                                         *)
(* The inductive invariant is IInv: the three lists are linked both ways   *)
(* and disjoint, they hold the pages their free counts call for,           *)
(* empty_page_count counts the empty list, and until the first mp_reset a  *)
(* page with all slots free is on the empty list.                          *)
(***************************************************************************)
EXTENDS PageListProofs

(* The pages of the three lists.                                           *)
Full    == OnList(sc, "full")
Partial == OnList(sc, "partial")
Empty   == OnList(sc, "empty")

(* c is a sound class whose lists hold F, P and E.                         *)
Holding(c, F, P, E) ==
  /\ Chains(c)
  /\ OnList(c, "full") = F /\ OnList(c, "partial") = P /\ OnList(c, "empty") = E

(* The lists are those the free counts call for.                           *)
PlacedBy(F, P, E, mp, fc) ==
  /\ F = {p \in mp : fc[p] = 0}
  /\ E \subseteq {p \in mp : fc[p] = TotalSlots}
  /\ P = {p \in mp \ E : fc[p] > 0}

(* The counts of the pages.                                                *)
Typed ==
  /\ mapped \subseteq Pages
  /\ free_count \in [Pages -> 0..TotalSlots]
  /\ free_list \in [Pages -> Nat]

(* Before the first mp_reset every chain is as long as its free_count, and *)
(* an unused page is on the empty list.                                    *)
Unpurged ==
  ~was_reset => \A p \in mapped : /\ free_list[p] = free_count[p]
                                  /\ free_count[p] = TotalSlots => p \in Empty

(* The inductive invariant.                                                *)
IInv ==
  /\ Typed /\ Chains(sc)
  /\ PlacedBy(Full, Partial, Empty, mapped, free_count)
  /\ empty_page_count = Cardinality(Empty)
  /\ Unpurged

(* The lists of a sound class are disjoint sets of pages.                  *)
LEMMA HoldingApart ==
  ASSUME NEW c, NEW F, NEW P, NEW E, Holding(c, F, P, E)
  PROVE  /\ F \cap P = {} /\ F \cap E = {} /\ P \cap E = {}
         /\ F \subseteq Pages /\ P \subseteq Pages /\ E \subseteq Pages
         /\ IsFiniteSet(E) /\ Cardinality(E) \in Nat
<1>1. /\ F \cap P = {} /\ F \cap E = {} /\ P \cap E = {}
  BY DEF Holding, Chains, Lists
<1>2. /\ F \subseteq Pages /\ P \subseteq Pages /\ E \subseteq Pages
  BY OnListPages DEF Holding, Lists
<1>. QED BY <1>1, <1>2, SlabPagesAssumption, FS_Subset, FS_CardinalityType

(* A page on no list, pushed on one of the three.                          *)
LEMMA PushHolding ==
  ASSUME NEW c, NEW F, NEW P, NEW E, Holding(c, F, P, E), NEW p \in Pages,
         p \notin F, p \notin P, p \notin E
  PROVE  /\ Holding(PushHead(c, "full", p), F \cup {p}, P, E)
         /\ Holding(PushHead(c, "partial", p), F, P \cup {p}, E)
         /\ Holding(PushHead(c, "empty", p), F, P, E \cup {p})
<1>1. /\ "full" \in Lists /\ "partial" \in Lists /\ "empty" \in Lists
      /\ "full" # "partial" /\ "full" # "empty" /\ "partial" # "empty"
  BY DEF Lists
<1>2. Chains(c) /\ \A m \in Lists : p \notin OnList(c, m)
  BY DEF Holding, Lists
<1>3. /\ Joined(c, PushHead(c, "full", p), "full", p)
      /\ Joined(c, PushHead(c, "partial", p), "partial", p)
      /\ Joined(c, PushHead(c, "empty", p), "empty", p)
  BY <1>1, <1>2, PushJoins
<1>4. Holding(PushHead(c, "full", p), F \cup {p}, P, E)
  BY <1>1, <1>3 DEF Joined, Holding
<1>5. Holding(PushHead(c, "partial", p), F, P \cup {p}, E)
  BY <1>1, <1>3 DEF Joined, Holding
<1>6. Holding(PushHead(c, "empty", p), F, P, E \cup {p})
  BY <1>1, <1>3 DEF Joined, Holding
<1>. QED BY <1>4, <1>5, <1>6

(* A page pushed on partial is its head.                                   *)
LEMMA PushedHead ==
  ASSUME NEW c, Chains(c), NEW p
  PROVE  PushHead(c, "partial", p).head["partial"] = p
<1>1. c.head \in [Lists -> Link] /\ "partial" \in Lists
  BY DEF Chains, ClassState, Lists
<1>. QED BY <1>1 DEF PushHead

(* A page unlinked from the list it is on.                                 *)
LEMMA UnlinkHolding ==
  ASSUME NEW c, NEW F, NEW P, NEW E, Holding(c, F, P, E), NEW p
  PROVE  /\ p \in F => Holding(Unlink(c, "full", p), F \ {p}, P, E)
         /\ p \in P => Holding(Unlink(c, "partial", p), F, P \ {p}, E)
         /\ p \in E => Holding(Unlink(c, "empty", p), F, P, E \ {p})
<1>1. /\ "full" \in Lists /\ "partial" \in Lists /\ "empty" \in Lists
      /\ "full" # "partial" /\ "full" # "empty" /\ "partial" # "empty"
  BY DEF Lists
<1>2. ASSUME p \in F PROVE Holding(Unlink(c, "full", p), F \ {p}, P, E)
  <2>1. Left(c, Unlink(c, "full", p), "full", p)
    BY <1>1, <1>2, UnlinkLeaves DEF Holding
  <2>. QED BY <1>1, <2>1 DEF Left, Holding
<1>3. ASSUME p \in P PROVE Holding(Unlink(c, "partial", p), F, P \ {p}, E)
  <2>1. Left(c, Unlink(c, "partial", p), "partial", p)
    BY <1>1, <1>3, UnlinkLeaves DEF Holding
  <2>. QED BY <1>1, <2>1 DEF Left, Holding
<1>4. ASSUME p \in E PROVE Holding(Unlink(c, "empty", p), F, P, E \ {p})
  <2>1. Left(c, Unlink(c, "empty", p), "empty", p)
    BY <1>1, <1>4, UnlinkLeaves DEF Holding
  <2>. QED BY <1>1, <2>1 DEF Left, Holding
<1>. QED BY <1>2, <1>3, <1>4

(* A page left with count - 1 slots has gone to full when that is none.    *)
PoppedFrom(F, P, E, p, count) ==
  /\ p \in P
  /\ count = 1 => Holding(sc', F \cup {p}, P \ {p}, E)
  /\ count # 1 => Holding(sc', F, P, E)

(* The tail of every allocation: a page left without slots goes from the   *)
(* front of partial to full.                                               *)
LEMMA PopMoves ==
  ASSUME NEW c, NEW F, NEW P, NEW E, Holding(c, F, P, E),
         NEW p \in Pages, c.head["partial"] = p, NEW count, NEW chain, PopSlot(p, c, count, chain)
  PROVE  PoppedFrom(F, P, E, p, count)
<1>1. p \in P /\ c.prev[p] = NULL
  BY OnListPages, SlabPagesAssumption DEF Holding, Lists
<1>2. [c EXCEPT !.prev[p] = NULL] = c
  <2>1. /\ c = [head |-> c.head, next |-> c.next, prev |-> c.prev]
        /\ c.prev \in [Pages -> Link]
    BY DEF Holding, Chains, ClassState
  <2>2. [c.prev EXCEPT ![p] = NULL] = c.prev
    BY <1>1, <2>1
  <2>3. [c EXCEPT !.prev[p] = NULL] = [c EXCEPT !.prev = [c.prev EXCEPT ![p] = NULL]]
    OBVIOUS
  <2>. QED BY <2>1, <2>2, <2>3
<1>3. sc' = IF count = 1 THEN PushHead(Unlink(c, "partial", p), "full", p) ELSE c
  BY <1>2 DEF PopSlot
<1>4. Holding(Unlink(c, "partial", p), F, P \ {p}, E)
  BY <1>1, UnlinkHolding, Zenon
<1>5. p \notin F /\ p \notin E
  BY <1>1, HoldingApart
<1>6. Holding(PushHead(Unlink(c, "partial", p), "full", p), F \cup {p}, P \ {p}, E)
  BY <1>4, <1>5, PushHolding, Zenon
<1>. QED BY <1>1, <1>3, <1>6 DEF PoppedFrom

(* What the invariant says of the lists.                                   *)
LEMMA Lists3 ==
  ASSUME IInv
  PROVE  /\ Holding(sc, Full, Partial, Empty)
         /\ mapped = Full \cup Partial \cup Empty
         /\ \A p \in Full : p \in mapped /\ free_count[p] = 0
         /\ \A p \in Partial : p \in mapped /\ free_count[p] \in 1..TotalSlots /\ p \notin Empty
         /\ \A p \in Empty : p \in mapped /\ free_count[p] = TotalSlots
<1>1. Holding(sc, Full, Partial, Empty)
  BY DEF IInv, Holding, Full, Partial, Empty
<1>. QED BY <1>1, SlabPagesAssumption DEF IInv, Typed, PlacedBy

(* A step establishes the invariant when the lists it leaves are placed    *)
(* and counted.                                                            *)
LEMMA InvFrom ==
  ASSUME NEW F, NEW P, NEW E, Holding(sc', F, P, E), Typed',
         PlacedBy(F, P, E, mapped', free_count'), empty_page_count' = Cardinality(E),
         ~was_reset' => \A p \in mapped' : /\ free_list'[p] = free_count'[p]
                                           /\ free_count'[p] = TotalSlots => p \in E
  PROVE  IInv' /\ Empty' = E
<1>1. Full' = F /\ Partial' = P /\ Empty' = E /\ Chains(sc)'
  BY DEF Holding, Full, Partial, Empty
<1>2. PlacedBy(Full, Partial, Empty, mapped, free_count)'
  BY <1>1 DEF PlacedBy
<1>3. Unpurged'
  BY <1>1 DEF Unpurged
<1>. QED BY <1>1, <1>2, <1>3 DEF IInv

-----------------------------------------------------------------------------
(* A count that changes for one page.                                      *)
LEMMA CountSet ==
  ASSUME NEW T, NEW f \in [Pages -> T], NEW p \in Pages, NEW v, NEW g, g = [f EXCEPT ![p] = v]
  PROVE  /\ v \in T => g \in [Pages -> T]
         /\ g[p] = v /\ \A q \in Pages \ {p} : g[q] = f[q]
OBVIOUS

(* An allocation has chosen page p, and c is the class with p in front of  *)
(* partial; the other pages are where their counts say.                    *)
Chosen(c, F, P, E, p, count, chain) ==
  /\ Holding(c, F, P, E) /\ p \in Pages /\ c.head["partial"] = p
  /\ count \in 1..TotalSlots /\ chain \in Nat
  /\ mapped' \subseteq Pages /\ p \in mapped'
  /\ F = {q \in mapped' \ {p} : free_count[q] = 0}
  /\ E \subseteq {q \in mapped' \ {p} : free_count[q] = TotalSlots}
  /\ P = {p} \cup {q \in mapped' \ ({p} \cup E) : free_count[q] > 0}
  /\ empty_page_count' = Cardinality(E)
  /\ ~was_reset' => /\ chain = count
                    /\ \A q \in mapped' \ {p} : /\ free_list[q] = free_count[q]
                                                /\ free_count[q] = TotalSlots => q \in E

(* The tail of every allocation keeps the invariant, whichever way the     *)
(* page was chosen.                                                        *)
LEMMA TakeSlot ==
  ASSUME Typed, NEW c, NEW F, NEW P, NEW E, NEW p, NEW count, NEW chain,
         Chosen(c, F, P, E, p, count, chain), PopSlot(p, c, count, chain)
  PROVE  IInv'
<1>1. /\ Holding(c, F, P, E) /\ p \in Pages /\ c.head["partial"] = p
      /\ count \in 1..TotalSlots /\ chain \in Nat
      /\ mapped' \subseteq Pages /\ p \in mapped'
      /\ empty_page_count' = Cardinality(E)
  BY DEF Chosen
<1>2. /\ free_count' = [free_count EXCEPT ![p] = count - 1]
      /\ free_list' = [free_list EXCEPT ![p] = chain - 1]
      /\ chain > 0
  BY DEF PopSlot
<1>3. PoppedFrom(F, P, E, p, count)
  BY <1>1, PopMoves
<1>4. count - 1 \in 0..TotalSlots /\ chain - 1 \in Nat /\ count - 1 # TotalSlots
  BY <1>1, <1>2, SlabPagesAssumption
<1>5. /\ free_count' \in [Pages -> 0..TotalSlots] /\ free_count'[p] = count - 1
      /\ \A q \in Pages \ {p} : free_count'[q] = free_count[q]
  BY <1>1, <1>2, <1>4, CountSet DEF Typed
<1>6. /\ free_list' \in [Pages -> Nat] /\ free_list'[p] = chain - 1
      /\ \A q \in Pages \ {p} : free_list'[q] = free_list[q]
  BY <1>1, <1>2, <1>4, CountSet DEF Typed
<1>7. Typed'
  BY <1>1, <1>5, <1>6 DEF Typed
<1>8. ~was_reset' => \A q \in mapped' : /\ free_list'[q] = free_count'[q]
                                        /\ free_count'[q] = TotalSlots => q \in E
  BY <1>1, <1>4, <1>5, <1>6 DEF Chosen
<1>9. CASE count = 1
  <2>1. PlacedBy(F \cup {p}, P \ {p}, E, mapped', free_count')
    <3>1. F \cup {p} = {q \in mapped' : free_count'[q] = 0}
      BY <1>1, <1>5, <1>9 DEF Chosen
    <3>2. E \subseteq {q \in mapped' : free_count'[q] = TotalSlots}
      BY <1>1, <1>5 DEF Chosen
    <3>3. P \ {p} = {q \in mapped' \ E : free_count'[q] > 0}
      BY <1>1, <1>5, <1>9 DEF Chosen
    <3>. QED BY <3>1, <3>2, <3>3 DEF PlacedBy
  <2>2. Holding(sc', F \cup {p}, P \ {p}, E)
    BY <1>3, <1>9 DEF PoppedFrom
  <2>. QED BY <1>1, <1>7, <1>8, <2>1, <2>2, InvFrom
<1>10. CASE count # 1
  <2>0. count - 1 > 0
    BY <1>1, <1>10
  <2>1. PlacedBy(F, P, E, mapped', free_count')
    <3>1. F = {q \in mapped' : free_count'[q] = 0}
      BY <1>1, <1>5, <2>0 DEF Chosen
    <3>2. E \subseteq {q \in mapped' : free_count'[q] = TotalSlots}
      BY <1>1, <1>5 DEF Chosen
    <3>3. P = {q \in mapped' \ E : free_count'[q] > 0}
      BY <1>1, <1>5, <2>0 DEF Chosen
    <3>. QED BY <3>1, <3>2, <3>3 DEF PlacedBy
  <2>2. Holding(sc', F, P, E)
    BY <1>3, <1>10 DEF PoppedFrom
  <2>. QED BY <1>1, <1>7, <1>8, <2>1, <2>2, InvFrom
<1>. QED BY <1>9, <1>10

(* The partial head gives a slot.                                          *)
LEMMA AllocFromPartialKeeps ==
  ASSUME IInv, AllocFromPartial
  PROVE  IInv'
<1> DEFINE p == sc.head["partial"]
           n == free_count[p]
           m == free_list[p]
<1>1. /\ p # NULL /\ PopSlot(p, sc, n, m)
      /\ UNCHANGED <<mapped, empty_page_count, was_reset>>
  BY DEF AllocFromPartial
<1>2. Holding(sc, Full, Partial, Empty) /\ p \in Partial /\ p \in Pages
  BY <1>1, Lists3, OnListPages, Zenon DEF Holding, Lists, Partial
<1>3. /\ p \notin Empty /\ p \notin Full /\ p \in mapped /\ n \in 1..TotalSlots
  BY <1>2, Lists3, HoldingApart
<1>4. m \in Nat /\ Typed /\ mapped \subseteq Pages
  BY <1>2 DEF IInv, Typed
<1>5. /\ Full = {q \in mapped \ {p} : free_count[q] = 0}
      /\ Empty \subseteq {q \in mapped \ {p} : free_count[q] = TotalSlots}
      /\ Partial = {p} \cup {q \in mapped \ ({p} \cup Empty) : free_count[q] > 0}
  BY <1>2, <1>3 DEF IInv, PlacedBy
<1>6. ~was_reset => /\ m = n
                    /\ \A q \in mapped \ {p} : /\ free_list[q] = free_count[q]
                                               /\ free_count[q] = TotalSlots => q \in Empty
  BY <1>3 DEF IInv, Unpurged
<1>7. empty_page_count = Cardinality(Empty)
  BY DEF IInv
<1>8. Chosen(sc, Full, Partial, Empty, p, n, m)
  BY <1>1, <1>2, <1>3, <1>4, <1>5, <1>6, <1>7, Zenon DEF Chosen
<1> HIDE DEF p, n, m
<1>. QED BY <1>1, <1>4, <1>8, TakeSlot

(* The empty head moves to partial and gives a slot.                       *)
LEMMA AllocFromEmptyKeeps ==
  ASSUME IInv, AllocFromEmpty
  PROVE  IInv'
<1> DEFINE p == sc.head["empty"]
           n == free_count[p]
           m == free_list[p]
           c == PushHead(Unlink(sc, "empty", p), "partial", p)
           E == Empty \ {p}
<1>1. /\ p # NULL /\ sc.head["partial"] = NULL /\ PopSlot(p, c, n, m)
      /\ UNCHANGED <<mapped, was_reset>> /\ empty_page_count' = empty_page_count - 1
  BY DEF AllocFromEmpty
<1>2. Holding(sc, Full, Partial, Empty) /\ p \in Empty /\ p \in Pages /\ Partial = {}
  BY <1>1, Lists3, OnListPages, Zenon DEF Holding, Lists, Partial, Empty
<1>3. /\ p \notin Full /\ p \in mapped /\ n = TotalSlots /\ n \in 1..TotalSlots
  BY <1>2, Lists3, HoldingApart, SlabPagesAssumption
<1>4. m \in Nat /\ Typed /\ mapped \subseteq Pages
  BY <1>2 DEF IInv, Typed
<1>5. Holding(c, Full, {p}, E) /\ c.head["partial"] = p
  <2>1. Holding(Unlink(sc, "empty", p), Full, Partial, E)
    BY <1>2, UnlinkHolding, Zenon
  <2>0. p \in Pages /\ p \notin Full /\ p \notin Partial /\ p \notin E
    BY <1>2, <1>3
  <2> HIDE DEF p, E
  <2>2. Holding(c, Full, Partial \cup {p}, E)
    BY <2>0, <2>1, PushHolding, Zenon
  <2>3. Partial \cup {p} = {p}
    BY <1>2
  <2>4. c.head["partial"] = p
    BY <2>0, <2>1, PushedHead DEF Holding
  <2>. QED BY <2>2, <2>3, <2>4
<1>6. /\ Full = {q \in mapped \ {p} : free_count[q] = 0}
      /\ E \subseteq {q \in mapped \ {p} : free_count[q] = TotalSlots}
      /\ {p} = {p} \cup {q \in mapped \ ({p} \cup E) : free_count[q] > 0}
  BY <1>2, <1>3 DEF IInv, PlacedBy
<1>7. ~was_reset => /\ m = n
                    /\ \A q \in mapped \ {p} : /\ free_list[q] = free_count[q]
                                               /\ free_count[q] = TotalSlots => q \in E
  BY <1>3 DEF IInv, Unpurged
<1>8. empty_page_count' = Cardinality(E)
  <2>1. IsFiniteSet(Empty)
    BY <1>2, HoldingApart
  <2>2. Cardinality(E) = Cardinality(Empty) - 1
    BY <1>2, <2>1, FS_RemoveElement, Zenon
  <2>. QED BY <1>1, <2>2 DEF IInv
<1>9. Chosen(c, Full, {p}, E, p, n, m)
  <2> HIDE DEF p, n, m, c, E
  <2>. QED BY <1>1, <1>2, <1>3, <1>4, <1>5, <1>6, <1>7, <1>8 DEF Chosen
<1> HIDE DEF p, n, m, c, E
<1>. QED BY <1>1, <1>4, <1>9, TakeSlot

(* A new page gives a slot, when both lists are empty.                     *)
LEMMA AllocFromNewPageKeeps ==
  ASSUME IInv, NEW p \in Pages, AllocFromNewPage(p)
  PROVE  IInv'
<1> DEFINE c == PushHead(sc, "partial", p)
<1>1. /\ sc.head["partial"] = NULL /\ sc.head["empty"] = NULL
      /\ p \notin mapped /\ mapped' = mapped \cup {p}
      /\ PopSlot(p, c, TotalSlots, TotalSlots)
      /\ UNCHANGED <<empty_page_count, was_reset>>
  BY DEF AllocFromNewPage, NoPageAtHand, CreatePage
<1>2. Holding(sc, Full, Partial, Empty) /\ Partial = {} /\ Empty = {} /\ p \notin Full
  BY <1>1, Lists3, OnListPages DEF Holding, Lists, Partial, Empty
<1>3. TotalSlots \in 1..TotalSlots /\ TotalSlots \in Nat
  BY SlabPagesAssumption
<1>4. Typed /\ mapped' \subseteq Pages /\ p \in mapped'
  BY <1>1 DEF IInv, Typed
<1>5. Holding(c, Full, {p}, {}) /\ c.head["partial"] = p
  <2>0. Holding(sc, Full, Partial, Empty) /\ p \notin Full /\ p \notin Partial /\ p \notin Empty
    BY <1>2
  <2>1. Holding(c, Full, Partial \cup {p}, Empty)
    BY <2>0, PushHolding, Zenon
  <2>2. Partial \cup {p} = {p}
    BY <1>2
  <2>3. c.head["partial"] = p
    BY <2>0, PushedHead DEF Holding
  <2>. QED BY <1>2, <2>1, <2>2, <2>3
<1>6. /\ Full = {q \in mapped' \ {p} : free_count[q] = 0}
      /\ {p} = {p} \cup {q \in mapped' \ ({p} \cup {}) : free_count[q] > 0}
  BY <1>1, <1>2 DEF IInv, PlacedBy
<1>7. ~was_reset' => \A q \in mapped' \ {p} : /\ free_list[q] = free_count[q]
                                              /\ free_count[q] = TotalSlots => q \in {}
  BY <1>1, <1>2 DEF IInv, Unpurged
<1>8. empty_page_count' = Cardinality({})
  BY <1>1, <1>2 DEF IInv
<1>9. Chosen(c, Full, {p}, {}, p, TotalSlots, TotalSlots)
  <2> HIDE DEF c
  <2>. QED BY <1>3, <1>4, <1>5, <1>6, <1>7, <1>8 DEF Chosen
<1> HIDE DEF c
<1>. QED BY <1>1, <1>4, <1>9, TakeSlot

(* A slot given back moves its page from full to partial, from partial to  *)
(* empty, or both.                                                         *)
LEMMA FreeSlotKeeps ==
  ASSUME IInv, NEW p \in Pages, FreeSlot(p)
  PROVE  IInv'
<1> DEFINE n == free_count[p]
           c == IF WasFull(p) THEN PushHead(Unlink(sc, "full", p), "partial", p) ELSE sc
           F == Full \ {p}
           P == Partial \cup {p}
<1>1. /\ p \in mapped /\ n < TotalSlots
      /\ free_count' = [free_count EXCEPT ![p] = n + 1]
      /\ free_list' = [free_list EXCEPT ![p] = free_list[p] + 1]
      /\ sc' = IF WillBeEmpty(p) THEN PushHead(Unlink(c, "partial", p), "empty", p) ELSE c
      /\ empty_page_count' = empty_page_count + (IF WillBeEmpty(p) THEN 1 ELSE 0)
      /\ UNCHANGED <<mapped, was_reset>>
  BY DEF FreeSlot
<1>2. /\ Holding(sc, Full, Partial, Empty) /\ Typed /\ mapped \subseteq Pages
      /\ n \in 0..TotalSlots /\ free_list[p] \in Nat /\ TotalSlots \in Nat
  BY Lists3, SlabPagesAssumption DEF IInv, Typed
<1>3. /\ p \notin Empty /\ (WasFull(p) <=> p \in Full) /\ (~WasFull(p) => p \in Partial)
  <2>1. p \notin Empty
    BY <1>1, <1>2, Lists3
  <2>2. PlacedBy(Full, Partial, Empty, mapped, free_count)
    BY DEF IInv
  <2>. QED BY <1>1, <1>2, <2>1, <2>2 DEF PlacedBy, WasFull
<1>4. Holding(c, F, P, Empty)
  <2>1. CASE WasFull(p)
    <3>1. Holding(Unlink(sc, "full", p), F, Partial, Empty)
      BY <1>2, <1>3, <2>1, UnlinkHolding, Zenon
    <3>2. p \notin Partial
      BY <1>2, <1>3, <2>1, HoldingApart
    <3>3. Holding(PushHead(Unlink(sc, "full", p), "partial", p), F, P, Empty)
      BY <1>3, <3>1, <3>2, PushHolding, Zenon
    <3>. QED BY <2>1, <3>3
  <2>2. CASE ~WasFull(p)
    <3>1. F = Full /\ P = Partial
      BY <1>3, <2>2
    <3>. QED BY <1>2, <2>2, <3>1
  <2>. QED BY <2>1, <2>2
<1>5. WillBeEmpty(p) <=> n + 1 = TotalSlots
  BY DEF WillBeEmpty
<1>6. /\ free_count' \in [Pages -> 0..TotalSlots] /\ free_count'[p] = n + 1
      /\ \A q \in Pages \ {p} : free_count'[q] = free_count[q]
  <2>1. n + 1 \in 0..TotalSlots
    BY <1>1, <1>2
  <2> HIDE DEF n
  <2>. QED BY <1>1, <1>2, <2>1, CountSet DEF Typed
<1>7. /\ free_list' \in [Pages -> Nat] /\ free_list'[p] = free_list[p] + 1
      /\ \A q \in Pages \ {p} : free_list'[q] = free_list[q]
  <2>1. free_list[p] + 1 \in Nat
    BY <1>2
  <2>. QED BY <1>1, <1>2, <2>1, CountSet DEF Typed
<1>8. Typed'
  BY <1>1, <1>2, <1>6, <1>7 DEF Typed
<1>a. PlacedBy(Full, Partial, Empty, mapped, free_count) /\ Unpurged /\ empty_page_count = Cardinality(Empty)
  BY DEF IInv
<1>b. sc' = IF n + 1 = TotalSlots THEN PushHead(Unlink(c, "partial", p), "empty", p) ELSE c
  BY <1>1, <1>5
<1> HIDE DEF c
<1>9. CASE n + 1 = TotalSlots
  <2> DEFINE E == Empty \cup {p}
  <2>1. Holding(sc', F, P \ {p}, E)
    <3>1. Holding(Unlink(c, "partial", p), F, P \ {p}, Empty)
      BY <1>4, UnlinkHolding, Zenon
    <3>2. p \notin F /\ p \notin P \ {p}
      OBVIOUS
    <3> HIDE DEF F, P
    <3>3. Holding(PushHead(Unlink(c, "partial", p), "empty", p), F, P \ {p}, E)
      BY <1>3, <3>1, <3>2, PushHolding, Zenon
    <3>. QED BY <1>9, <1>b, <3>3
  <2>2. PlacedBy(F, P \ {p}, E, mapped', free_count')
    <3>1. F = {q \in mapped' : free_count'[q] = 0}
      BY <1>1, <1>2, <1>6, <1>9, <1>a DEF PlacedBy
    <3>2. E \subseteq {q \in mapped' : free_count'[q] = TotalSlots}
      BY <1>1, <1>2, <1>3, <1>6, <1>9, <1>a DEF PlacedBy
    <3>3. P \ {p} = {q \in mapped' \ E : free_count'[q] > 0}
      BY <1>1, <1>2, <1>6, <1>a DEF PlacedBy
    <3>. QED BY <3>1, <3>2, <3>3 DEF PlacedBy
  <2>3. empty_page_count' = Cardinality(E)
    <3>1. IsFiniteSet(Empty) /\ Cardinality(Empty) \in Nat
      BY <1>2, HoldingApart
    <3>2. Cardinality(E) = Cardinality(Empty) + 1
      BY <1>3, <3>1, FS_AddElement, Zenon
    <3>. QED BY <1>1, <1>5, <1>9, <1>a, <3>1, <3>2
  <2>4. ~was_reset' => \A q \in mapped' : /\ free_list'[q] = free_count'[q]
                                          /\ free_count'[q] = TotalSlots => q \in E
    BY <1>1, <1>2, <1>6, <1>7, <1>a DEF Unpurged
  <2> HIDE DEF F, P, E
  <2>. QED BY <1>8, <2>1, <2>2, <2>3, <2>4, InvFrom
<1>10. CASE n + 1 # TotalSlots
  <2>1. Holding(sc', F, P, Empty)
    BY <1>4, <1>10, <1>b
  <2>2. PlacedBy(F, P, Empty, mapped', free_count')
    <3>1. F = {q \in mapped' : free_count'[q] = 0}
      BY <1>1, <1>2, <1>6, <1>a DEF PlacedBy
    <3>2. Empty \subseteq {q \in mapped' : free_count'[q] = TotalSlots}
      BY <1>1, <1>2, <1>3, <1>6, <1>a DEF PlacedBy
    <3>3. P = {q \in mapped' \ Empty : free_count'[q] > 0}
      BY <1>1, <1>2, <1>3, <1>6, <1>a DEF PlacedBy
    <3>. QED BY <3>1, <3>2, <3>3 DEF PlacedBy
  <2>3. empty_page_count' = Cardinality(Empty)
    <3>1. Cardinality(Empty) \in Nat
      BY <1>2, HoldingApart
    <3>. QED BY <1>1, <1>5, <1>10, <1>a, <3>1
  <2>4. ~was_reset' => \A q \in mapped' : /\ free_list'[q] = free_count'[q]
                                          /\ free_count'[q] = TotalSlots => q \in Empty
    BY <1>1, <1>2, <1>6, <1>7, <1>10, <1>a DEF Unpurged
  <2> HIDE DEF F, P
  <2>. QED BY <1>8, <2>1, <2>2, <2>3, <2>4, InvFrom, Zenon
<1>. QED BY <1>9, <1>10, Zenon

-----------------------------------------------------------------------------
(* The pages in S are unmapped, none of them on full, and c is the class   *)
(* without them.                                                           *)
LEMMA UnmapKeeps ==
  ASSUME IInv, NEW c, NEW S, Holding(c, Full, Partial \ S, Empty \ S), S \cap Full = {},
         Unmap(S, c), empty_page_count' = Cardinality(Empty \ S), UNCHANGED was_reset
  PROVE  IInv' /\ Empty' = Empty \ S
<1> DEFINE P == Partial \ S
           E == Empty \ S
<1>1. /\ mapped' = mapped \ S /\ sc' = Forget(c, S)
      /\ free_count' = [p \in Pages |-> IF p \in S THEN 0 ELSE free_count[p]]
      /\ free_list' = [p \in Pages |-> IF p \in S THEN 0 ELSE free_list[p]]
  BY DEF Unmap
<1>2. /\ mapped \subseteq Pages /\ free_count \in [Pages -> 0..TotalSlots]
      /\ free_list \in [Pages -> Nat] /\ TotalSlots \in Nat
  BY SlabPagesAssumption DEF IInv, Typed
<1>3. Holding(sc', Full, P, E)
  <2>1. Chains(c) /\ \A m \in Lists : OnList(c, m) \cap S = {}
    BY DEF Holding, Lists
  <2>2. Chains(Forget(c, S)) /\ \A m \in Lists : OnList(Forget(c, S), m) = OnList(c, m)
    BY <2>1, ForgetKeeps
  <2>. QED BY <1>1, <2>2 DEF Holding, Lists
<1>4. \A p \in mapped' : p \in mapped /\ p \notin S /\ free_count'[p] = free_count[p] /\ free_list'[p] = free_list[p]
  BY <1>1, <1>2
<1>5. Typed'
  <2>1. mapped' \subseteq Pages
    BY <1>1, <1>2
  <2>2. free_count' \in [Pages -> 0..TotalSlots]
    BY <1>1, <1>2
  <2>3. free_list' \in [Pages -> Nat]
    BY <1>1, <1>2
  <2>. QED BY <2>1, <2>2, <2>3 DEF Typed
<1>6. PlacedBy(Full, P, E, mapped', free_count')
  <2>1. PlacedBy(Full, Partial, Empty, mapped, free_count)
    BY DEF IInv
  <2>2. Full = {p \in mapped' : free_count'[p] = 0}
    BY <1>1, <1>4, <2>1 DEF PlacedBy
  <2>3. E \subseteq {p \in mapped' : free_count'[p] = TotalSlots}
    BY <1>1, <1>4, <2>1 DEF PlacedBy
  <2>4. P = {p \in mapped' \ E : free_count'[p] > 0}
    BY <1>1, <1>4, <2>1 DEF PlacedBy
  <2>. QED BY <2>2, <2>3, <2>4 DEF PlacedBy
<1>7. ~was_reset' => \A p \in mapped' : /\ free_list'[p] = free_count'[p]
                                        /\ free_count'[p] = TotalSlots => p \in E
  BY <1>4 DEF IInv, Unpurged
<1> HIDE DEF P, E
<1>8. IInv' /\ Empty' = E
  BY <1>3, <1>5, <1>6, <1>7, InvFrom, Zenon DEF E
<1>. QED BY <1>8 DEF E

(* The pages of S, all on partial, are swept from it.                      *)
LEMMA SweptHolding ==
  ASSUME IInv, NEW S, S \subseteq Partial
  PROVE  /\ Holding(UnlinkAll(sc, "partial", S), Full, Partial \ S, Empty)
         /\ S \cap Full = {} /\ S \cap Empty = {}
<1>1. Holding(sc, Full, Partial, Empty)
  BY Lists3
<1>2. S \cap Full = {} /\ S \cap Empty = {}
  BY <1>1, HoldingApart
<1>3. "partial" \in Lists /\ "full" \in Lists \ {"partial"} /\ "empty" \in Lists \ {"partial"}
  BY DEF Lists
<1>4. AllLeft(sc, UnlinkAll(sc, "partial", S), "partial", S)
  BY <1>1, <1>3, SweepLeaves DEF Holding
<1>. QED BY <1>1, <1>2, <1>3, <1>4 DEF AllLeft, Holding

(* The pages mp_compact releases.                                          *)
Compacted(late) == {p \in Partial : ShouldFree(p, late)}

(* mp_compact keeps the invariant, releases exactly the pages on partial   *)
(* that should be freed, and leaves the empty list alone.                  *)
LEMMA CompactKeeps ==
  ASSUME IInv, NEW late, Compact(late)
  PROVE  /\ IInv' /\ Empty' = Empty /\ Unmap(Compacted(late), UnlinkAll(sc, "partial", Compacted(late)))
<1> DEFINE S == Compacted(late)
           c == UnlinkAll(sc, "partial", S)
<1>1. Unmap(S, c) /\ UNCHANGED <<empty_page_count, was_reset>>
  BY DEF Compact, CompactWalk, Compacted, Partial, OnList
<1>2. S \subseteq Partial
  BY DEF Compacted
<1> HIDE DEF S
<1>3. Holding(c, Full, Partial \ S, Empty) /\ S \cap Full = {} /\ Empty \ S = Empty
  BY <1>2, SweptHolding
<1> HIDE DEF c
<1>4. empty_page_count' = Cardinality(Empty \ S)
  BY <1>1, <1>3 DEF IInv
<1>5. Holding(c, Full, Partial \ S, Empty \ S) /\ UNCHANGED was_reset
  BY <1>1, <1>3
<1>6. IInv' /\ Empty' = Empty \ S
  BY <1>1, <1>3, <1>4, <1>5, UnmapKeeps
<1>. QED BY <1>1, <1>3, <1>6 DEF S, c

(* The candidates of mp_reclaim_idle_pages up to entry k of the walk, and  *)
(* the pages of partial it releases.                                       *)
Candidates(late, k) == {j \in 1..k : ShouldFree(Walk(sc, "partial")[j], late)}

Reclaimed(late, before) ==
  LET w == Walk(sc, "partial") IN
  {w[k] : k \in {j \in 1..Len(w) : ShouldFree(w[j], late)
                                   /\ EnoughIdle(before + Cardinality(Candidates(late, j)))}}

(* mp_reclaim_idle_pages keeps the invariant: it drains the empty list,    *)
(* and of partial releases the candidates met once enough idle pages were  *)
(* counted.                                                                *)
LEMMA ReclaimKeeps ==
  ASSUME IInv, NEW late, NEW before, ReclaimIdlePages(late, before)
  PROVE  /\ IInv' /\ Empty' = {} /\ Reclaimed(late, before) \subseteq Partial
         /\ \E c : Unmap(Empty \cup Reclaimed(late, before), c)
<1> DEFINE S == Reclaimed(late, before)
           c == UnlinkAll(sc, "partial", S)
           d == [c EXCEPT !.head["empty"] = NULL]
           T == Empty \cup S
<1>1. /\ Unmap(T, d) /\ empty_page_count' = empty_page_count - Cardinality(Empty)
      /\ UNCHANGED was_reset
  BY DEF ReclaimIdlePages, Reclaimed, Candidates, Empty, CountAfterReclaim
<1>2. S \subseteq Partial
  <2>1. Walk(sc, "partial") \in Seq(Pages)
    BY DEF IInv, Chains, IsList, Lists
  <2>. QED BY <2>1, RangeOf DEF Reclaimed, Partial, OnList
<1> HIDE DEF S
<1>3. Holding(c, Full, Partial \ S, Empty) /\ S \cap Full = {} /\ Empty \cap S = {}
  BY <1>2, SweptHolding
<1> HIDE DEF c
<1>4. Holding(d, Full, Partial \ S, {})
  <2>1. "empty" \in Lists /\ "full" \in Lists \ {"empty"} /\ "partial" \in Lists \ {"empty"}
    BY DEF Lists
  <2>2. AllLeft(c, d, "empty", OnList(c, "empty"))
    BY <1>3, <2>1, HeadCleared DEF Holding
  <2> HIDE DEF d
  <2>. QED BY <1>3, <2>1, <2>2 DEF AllLeft, Holding
<1> HIDE DEF d
<1>5. Holding(sc, Full, Partial, Empty) /\ IsFiniteSet(Empty) /\ Cardinality(Empty) \in Nat
  BY Lists3, HoldingApart
<1>6. Partial \ T = Partial \ S /\ Empty \ T = {} /\ T \cap Full = {}
  BY <1>3, <1>5, HoldingApart
<1>7. Cardinality(Empty \ T) = 0
  BY <1>6, FS_EmptySet
<1>8. empty_page_count' = Cardinality(Empty \ T)
  BY <1>1, <1>5, <1>7 DEF IInv
<1>9. Holding(d, Full, Partial \ T, Empty \ T)
  BY <1>4, <1>6
<1> HIDE DEF T
<1>10. IInv' /\ Empty' = Empty \ T
  BY <1>1, <1>6, <1>8, <1>9, UnmapKeeps
<1>. QED BY <1>1, <1>2, <1>6, <1>10 DEF S, T

(* mp_reset: full is emptied into partial, and the pages on partial get    *)
(* all their slots back.                                                   *)
LEMMA ResetKeeps ==
  ASSUME IInv, Reset
  PROVE  IInv' /\ Empty' = Empty /\ Partial' = Partial \cup Full
<1> DEFINE c == MoveFull(sc)
           P == Partial \cup Full
<1>1. Holding(c, {}, P, Empty)
  BY FullMoved DEF IInv, Holding, Full, Partial, Empty
<1>2. /\ sc' = c
      /\ free_count' = [p \in Pages |-> IF p \in OnList(c, "partial") THEN TotalSlots ELSE free_count[p]]
      /\ free_list' = [p \in Pages |-> IF p \in OnList(c, "partial") THEN TotalSlots ELSE free_list[p]]
      /\ was_reset' /\ UNCHANGED <<mapped, empty_page_count>>
  BY DEF Reset
<1> HIDE DEF c
<1>3. /\ free_count' = [p \in Pages |-> IF p \in P THEN TotalSlots ELSE free_count[p]]
      /\ free_list' = [p \in Pages |-> IF p \in P THEN TotalSlots ELSE free_list[p]]
      /\ OnList(c, "partial") = P
  BY <1>1, <1>2 DEF Holding
<1>4. /\ mapped \subseteq Pages /\ free_count \in [Pages -> 0..TotalSlots]
      /\ free_list \in [Pages -> Nat] /\ TotalSlots \in Nat /\ TotalSlots > 0
      /\ TotalSlots \in 0..TotalSlots
  BY SlabPagesAssumption DEF IInv, Typed
<1>5. Typed'
  <2>1. free_count' \in [Pages -> 0..TotalSlots]
    BY <1>3, <1>4
  <2>2. free_list' \in [Pages -> Nat]
    BY <1>3, <1>4
  <2>. QED BY <1>2, <1>4, <2>1, <2>2 DEF Typed
<1>6. PlacedBy({}, P, Empty, mapped', free_count')
  <2>1. P \cap Empty = {} /\ mapped = P \cup Empty
    BY Lists3, HoldingApart
  <2>2. \A p \in mapped : free_count'[p] = TotalSlots
    BY <1>3, <1>4, <2>1, Lists3
  <2>. QED BY <1>2, <1>4, <2>1, <2>2 DEF PlacedBy
<1>7. empty_page_count' = Cardinality(Empty)
  BY <1>2 DEF IInv
<1>8. Holding(sc', {}, P, Empty)
  BY <1>1, <1>2
<1>9. Partial' = P
  BY <1>8 DEF Holding, Partial
<1> HIDE DEF P
<1>10. IInv' /\ Empty' = Empty
  BY <1>2, <1>5, <1>6, <1>7, <1>8, InvFrom
<1>. QED BY <1>9, <1>10 DEF P

(* mp_purge_lazy: before the first reset it finds no page to purge.        *)
LEMMA PurgeLazyKeeps ==
  ASSUME IInv, PurgeLazy
  PROVE  IInv'
<1> DEFINE S == {p \in Partial : Purgeable(p)}
<1>1. /\ free_list' = [p \in Pages |-> IF p \in S /\ free_list[p] > RetainedSlots
                                       THEN RetainedSlots ELSE free_list[p]]
      /\ UNCHANGED <<sc, mapped, free_count, empty_page_count, was_reset>>
  BY DEF PurgeLazy, Partial
<1>2. /\ mapped \subseteq Pages /\ free_list \in [Pages -> Nat] /\ RetainedSlots \in Nat
  BY SlabPagesAssumption DEF IInv, Typed
<1>3. Typed'
  <2>1. free_list' \in [Pages -> Nat]
    BY <1>1, <1>2
  <2>. QED BY <1>1, <2>1 DEF IInv, Typed
<1>4. ~was_reset => S = {}
  BY Lists3 DEF IInv, Unpurged, Purgeable
<1>5. ~was_reset => \A p \in mapped : free_list'[p] = free_list[p]
  BY <1>1, <1>2, <1>4
<1>6. /\ ~was_reset' => \A p \in mapped' : /\ free_list'[p] = free_count'[p]
                                           /\ free_count'[p] = TotalSlots => p \in Empty
      /\ Holding(sc', Full, Partial, Empty)
      /\ PlacedBy(Full, Partial, Empty, mapped', free_count')
      /\ empty_page_count' = Cardinality(Empty)
  BY <1>1, <1>5, Lists3, Zenon DEF IInv, Unpurged
<1>. QED BY <1>3, <1>6, InvFrom

(* The marks of mp_mark_page_hot and mp_mark_page_cold are outside the     *)
(* invariant.                                                              *)
LEMMA UnchangedKeeps ==
  ASSUME IInv, UNCHANGED <<sc, mapped, free_count, free_list, empty_page_count, was_reset>>
  PROVE  IInv' /\ Empty' = Empty
<1>1. Full' = Full /\ Partial' = Partial /\ Empty' = Empty
  BY DEF Full, Partial, Empty
<1>. QED BY <1>1 DEF IInv, Typed, Unpurged, PlacedBy

(* An initialised class has three empty lists.                             *)
LEMMA StartHolds ==
  ASSUME Init
  PROVE  IInv
<1>1. /\ sc.head = [l \in Lists |-> NULL] /\ sc.next = [p \in Pages |-> NULL]
      /\ sc.prev = [p \in Pages |-> NULL] /\ sc \in ClassState
  BY DEF Init, ClassState, Link
<1>2. \A l \in Lists : IsList(sc.head[l], sc.next, sc.prev, <<>>)
  BY <1>1 DEF IsList, OneToOne
<1>3. \A l \in Lists : Walk(sc, l) = <<>>
  BY <1>2, WalkIs, Zenon
<1>4. \A l \in Lists : OnList(sc, l) = {}
  BY <1>3 DEF OnList, Range
<1>5. Chains(sc)
  BY <1>1, <1>2, <1>3, <1>4 DEF Chains
<1>6. Full = {} /\ Partial = {} /\ Empty = {}
  BY <1>4 DEF Full, Partial, Empty, Lists
<1>7. Typed
  BY SlabPagesAssumption DEF Init, Typed
<1>. QED BY <1>5, <1>6, <1>7, FS_EmptySet DEF Init, IInv, PlacedBy, Unpurged

(* Every operation of the class keeps the invariant.                       *)
LEMMA StepKeeps ==
  ASSUME IInv, [Next]_vars
  PROVE  IInv'
<1>1. CASE AllocFromPartial
  BY <1>1, AllocFromPartialKeeps
<1>2. CASE AllocFromEmpty
  BY <1>2, AllocFromEmptyKeeps
<1>3. ASSUME NEW p \in Pages, AllocFromNewPage(p) PROVE IInv'
  BY <1>3, AllocFromNewPageKeeps
<1>4. ASSUME NEW p \in Pages, FreeSlot(p) PROVE IInv'
  BY <1>4, FreeSlotKeeps
<1>5. ASSUME NEW late, Compact(late) PROVE IInv'
  BY <1>5, CompactKeeps
<1>6. ASSUME NEW late, NEW before, ReclaimIdlePages(late, before) PROVE IInv'
  BY <1>6, ReclaimKeeps, Zenon
<1>7. CASE Reset
  BY <1>7, ResetKeeps
<1>8. CASE PurgeLazy
  BY <1>8, PurgeLazyKeeps
<1>9. ASSUME NEW p, NEW hot, MarkPage(p, hot) PROVE IInv'
  BY <1>9, UnchangedKeeps DEF MarkPage
<1>10. CASE UNCHANGED vars
  BY <1>10, UnchangedKeeps DEF vars
<1>. QED BY <1>1, <1>2, <1>3, <1>4, <1>5, <1>6, <1>7, <1>8, <1>9, <1>10 DEF Next, Alloc

(* The invariant holds in every reachable state.                           *)
LEMMA InvAlways == Spec => []IInv
<1>1. Init => IInv
  BY StartHolds
<1>2. IInv /\ [Next]_vars => IInv'
  BY StepKeeps
<1>. QED BY <1>1, <1>2, PTL DEF Spec

-----------------------------------------------------------------------------
(* The invariant gives ListsAgree.                                         *)
LEMMA AgreeFrom ==
  ASSUME IInv
  PROVE  ListsAgree
<1>1. ASSUME NEW l \in Lists
      PROVE  LET w == Walk(sc, l) IN
             /\ Len(w) = Cardinality(OnList(sc, l))
             /\ \A k \in 1..Len(w) : sc.prev[w[k]] = IF k = 1 THEN NULL ELSE w[k - 1]
  <2> DEFINE w == Walk(sc, l)
  <2>1. IsList(sc.head[l], sc.next, sc.prev, w)
    BY <1>1 DEF IInv, Chains
  <2>2. w \in Seq(Pages) /\ OneToOne(w) /\ OnList(sc, l) = Range(w)
    BY <2>1 DEF IsList, OnList
  <2> HIDE DEF w
  <2>3. Len(w) = Cardinality(Range(w))
    BY <2>2, LengthIsSize
  <2>4. \A k \in 1..Len(w) : sc.prev[w[k]] = IF k = 1 THEN NULL ELSE w[k - 1]
    BY <2>1 DEF IsList
  <2>5. /\ Len(w) = Cardinality(OnList(sc, l))
        /\ \A k \in 1..Len(w) : sc.prev[w[k]] = IF k = 1 THEN NULL ELSE w[k - 1]
    BY <2>2, <2>3, <2>4
  <2>. QED BY <2>5 DEF w
<1>2. /\ Full = {p \in mapped : free_count[p] = 0}
      /\ Empty \subseteq {p \in mapped : free_count[p] = TotalSlots}
      /\ Partial = {p \in mapped \ Empty : free_count[p] > 0}
      /\ empty_page_count = Cardinality(Empty)
  BY DEF IInv, PlacedBy
<1>. QED BY <1>1, <1>2 DEF ListsAgree, Full, Partial, Empty

(* Every mapped page is on exactly the list its free_count calls for,      *)
(* once, with prev the mirror of next, and empty_page_count is the length  *)
(* of the empty list: what every unlink of cmem_slab.c relies on, for any  *)
(* number of pages and slots and with idle reclaim on or off.              *)
THEOREM ListsSound == Spec => []ListsAgree
<1>1. IInv => ListsAgree
  BY AgreeFrom
<1>. QED BY <1>1, InvAlways, PTL

(* Until the first mp_reset every page's chain of free slots is as long    *)
(* as its free_count, so the allocation path, which pops it without a      *)
(* NULL test, never finds it exhausted, however often mp_purge_lazy ran.   *)
THEOREM PurgeSafe == Spec => []PurgeHarmlessBeforeReset
<1>1. IInv => PurgeHarmlessBeforeReset
  BY DEF IInv, Unpurged, PurgeHarmlessBeforeReset
<1>. QED BY <1>1, InvAlways, PTL

-----------------------------------------------------------------------------
(* A non-empty set of positions has a last one.                            *)
LEMMA Largest ==
  ASSUME NEW n \in Nat, NEW J, J \subseteq 1..n, J # {}
  PROVE  \E k \in J : \A j \in J : j <= k
<1> DEFINE S == {m \in Nat : \A k \in J : n - k <= m => \E x \in J : \A j \in J : j <= x}
<1>1. 0 \in S
  OBVIOUS
<1>2. ASSUME NEW m \in Nat, m \in S PROVE m + 1 \in S
  <2>1. SUFFICES ASSUME NEW k \in J, n - k <= m + 1 PROVE \E x \in J : \A j \in J : j <= x
    OBVIOUS
  <2>2. CASE \A j \in J : j <= k
    BY <2>2
  <2>3. CASE \E j \in J : ~ (j <= k)
    <3>1. PICK j \in J : ~ (j <= k)
      BY <2>3
    <3>2. n - j <= m
      BY <2>1, <3>1
    <3>. QED BY <1>2, <3>2
  <2>. QED BY <2>2, <2>3
<1>3. \A m \in Nat : m \in S
  <2> HIDE DEF S
  <2>. QED BY <1>1, <1>2, SetInduction
<1>4. PICK k \in J : TRUE
  BY Zenon
<1>5. n - k \in Nat /\ n - k \in S
  BY <1>3, <1>4
<1>. QED BY <1>5

(* A set of positions holds at most as many pages.                         *)
LEMMA ImageSize ==
  ASSUME NEW J, IsFiniteSet(J), NEW w
  PROVE  LET T == {w[j] : j \in J} IN
         IsFiniteSet(T) /\ Cardinality(T) <= Cardinality(J)
<1> DEFINE T == {w[j] : j \in J}
           f == [j \in J |-> w[j]]
<1>1. f \in Surjection(J, T)
  BY DEF Surjection
<1>. QED BY <1>1, FS_Surjection

(* The candidates met while idle_count was below the minimum are fewer     *)
(* than the minimum: all of them are counted when the last of them is      *)
(* met.                                                                    *)
LEMMA FewKept ==
  ASSUME NEW late, NEW n \in Nat, NEW before \in Nat,
         NEW J, J \subseteq Candidates(late, n), J # {},
         \A k \in J : before + Cardinality(Candidates(late, k)) < MinIdlePages
  PROVE  IsFiniteSet(J) /\ Cardinality(J) < MinIdlePages
<1>1. J \subseteq 1..n
  BY DEF Candidates
<1>2. PICK k \in J : \A j \in J : j <= k
  BY <1>1, Largest, Zenon
<1>3. J \subseteq Candidates(late, k)
  BY <1>1, <1>2 DEF Candidates
<1>4. k \in Nat /\ IsFiniteSet(1..k)
  BY <1>1, <1>2, FS_Interval
<1>5. IsFiniteSet(Candidates(late, k))
  BY <1>4, FS_Subset DEF Candidates
<1>6. IsFiniteSet(J) /\ Cardinality(J) <= Cardinality(Candidates(late, k))
  BY <1>3, <1>5, FS_Subset
<1>7. Cardinality(J) \in Nat /\ Cardinality(Candidates(late, k)) \in Nat
  BY <1>5, <1>6, FS_CardinalityType
<1>8. before + Cardinality(Candidates(late, k)) < MinIdlePages
  BY <1>2
<1>. QED BY <1>6, <1>7, <1>8, SlabPagesAssumption

(* After mp_compact no page on the partial list is unused.                 *)
LEMMA CompactThorough ==
  ASSUME IInv, NEW late, Compact(late)
  PROVE  SweepsThorough'
<1> DEFINE S == Compacted(late)
<1>1. /\ IInv' /\ Empty' = Empty /\ mapped' = mapped \ S /\ last' = "compact"
      /\ free_count' = [p \in Pages |-> IF p \in S THEN 0 ELSE free_count[p]]
  BY CompactKeeps, Zenon DEF Unmap, Compact
<1>2. mapped \subseteq Pages /\ TotalSlots > 0
  BY SlabPagesAssumption DEF IInv, Typed
<1>3. ASSUME NEW p \in mapped', free_count'[p] = TotalSlots PROVE p \in Empty
  <2>1. p \in mapped /\ p \notin S /\ free_count[p] = TotalSlots
    BY <1>1, <1>2, <1>3
  <2>2. p \notin Partial
    BY <2>1 DEF Compacted, ShouldFree
  <2>. QED BY <1>2, <2>1, <2>2, Lists3
<1>4. \A p \in Partial' : p \notin Empty'
  BY <1>1, Zenon DEF IInv, PlacedBy
<1>5. {p \in mapped' : free_count'[p] = TotalSlots} \cap Partial' = {}
  BY <1>1, <1>3, <1>4
<1>. QED BY <1>1, <1>5 DEF SweepsThorough, Partial

(* After mp_reclaim_idle_pages fewer than MinIdlePages unused pages are    *)
(* left, or none.                                                          *)
LEMMA ReclaimThorough ==
  ASSUME IInv, NEW late, NEW before \in Nat, ReclaimIdlePages(late, before)
  PROVE  SweepsThorough'
<1> DEFINE S == Reclaimed(late, before)
           w == Walk(sc, "partial")
           J == {j \in Candidates(late, Len(w)) :
                   before + Cardinality(Candidates(late, j)) < MinIdlePages}
           Kept == {w[j] : j \in J}
           unused == {p \in mapped' : free_count'[p] = TotalSlots}
<1>1. /\ mapped' = mapped \ (Empty \cup S) /\ last' = "reclaim"
      /\ free_count' = [p \in Pages |-> IF p \in Empty \cup S THEN 0 ELSE free_count[p]]
  BY ReclaimKeeps, Zenon DEF Unmap, ReclaimIdlePages
<1>2. /\ mapped \subseteq Pages /\ TotalSlots > 0 /\ MinIdlePages \in Nat
      /\ w \in Seq(Pages) /\ Len(w) \in Nat /\ Partial = Range(w)
  <2>1. mapped \subseteq Pages /\ Partial = Range(w)
    BY Zenon DEF IInv, Typed, Partial, OnList
  <2>2. "partial" \in Lists
    BY Zenon DEF Lists
  <2>3. w \in Seq(Pages)
    BY <2>2, Zenon DEF IInv, Chains, IsList
  <2> HIDE DEF w
  <2>4. Len(w) \in Nat
    BY <2>3
  <2>5. TotalSlots > 0 /\ MinIdlePages \in Nat
    BY SlabPagesAssumption
  <2>. QED BY <2>1, <2>3, <2>4, <2>5, Zenon
<1>3. unused \subseteq Kept
  <2>1. SUFFICES ASSUME NEW p \in mapped', free_count'[p] = TotalSlots PROVE p \in Kept
    OBVIOUS
  <2>2. p \in mapped /\ p \notin S /\ p \notin Empty /\ free_count[p] = TotalSlots
    BY <1>1, <1>2, <2>1
  <2>3. p \in Partial
    BY <1>2, <2>2, Lists3
  <2>4. PICK k \in 1..Len(w) : p = w[k]
    BY <1>2, <2>3, RangeOf
  <2>5. ShouldFree(w[k], late)
    BY <2>2, <2>4 DEF ShouldFree
  <2>6. ~ EnoughIdle(before + Cardinality(Candidates(late, k)))
    BY <2>2, <2>4, <2>5 DEF Reclaimed
  <2>7. k \in Candidates(late, Len(w))
    BY <2>5 DEF Candidates
  <2>8. IsFiniteSet(1..k) /\ Candidates(late, k) \subseteq 1..k
    BY FS_Interval DEF Candidates
  <2>9. Cardinality(Candidates(late, k)) \in Nat
    BY <2>8, FS_Subset, FS_CardinalityType
  <2>10. before + Cardinality(Candidates(late, k)) < MinIdlePages
    BY <1>2, <2>6, <2>9 DEF EnoughIdle
  <2>. QED BY <2>4, <2>7, <2>10
<1>4. J # {} => IsFiniteSet(J) /\ Cardinality(J) < MinIdlePages
  <2>1. /\ J \subseteq Candidates(late, Len(w))
        /\ \A k \in J : before + Cardinality(Candidates(late, k)) < MinIdlePages
    OBVIOUS
  <2> HIDE DEF J, w
  <2>. QED BY <1>2, <2>1, FewKept
<1>5. CASE J = {}
  <2>1. unused = {}
    BY <1>3, <1>5
  <2>. QED BY <1>1, <2>1 DEF SweepsThorough
<1>6. CASE J # {}
  <2>1. IsFiniteSet(J) /\ Cardinality(J) < MinIdlePages
    BY <1>4, <1>6
  <2> HIDE DEF J, w, unused
  <2>2. IsFiniteSet(Kept) /\ Cardinality(Kept) <= Cardinality(J)
    BY <2>1, ImageSize
  <2> HIDE DEF Kept
  <2>3. IsFiniteSet(unused) /\ Cardinality(unused) <= Cardinality(Kept)
    BY <1>3, <2>2, FS_Subset
  <2>4. Cardinality(unused) \in Nat /\ Cardinality(Kept) \in Nat /\ Cardinality(J) \in Nat
    BY <2>1, <2>2, <2>3, FS_CardinalityType
  <2>5. Cardinality(unused) < MinIdlePages
    BY <1>2, <2>1, <2>2, <2>3, <2>4
  <2>. QED BY <1>1, <2>5 DEF SweepsThorough, unused
<1>. QED BY <1>5, <1>6

(* SweepsThorough speaks of the state a sweep leaves, and of no other.     *)
LEMMA OtherStepsSweepNothing ==
  ASSUME SweepsThorough, last' \notin {"compact", "reclaim"} \/ UNCHANGED vars
  PROVE  SweepsThorough'
<1>1. CASE last' \notin {"compact", "reclaim"}
  BY <1>1 DEF SweepsThorough
<1>2. CASE UNCHANGED vars
  <2>1. OnList(sc, "partial")' = OnList(sc, "partial") /\ UNCHANGED <<last, mapped, free_count>>
    BY <1>2 DEF vars
  <2>. QED BY <2>1 DEF SweepsThorough
<1>. QED BY <1>1, <1>2

(* mp_compact releases every unused page on the partial list, and          *)
(* mp_reclaim_idle_pages leaves fewer than idle_reclaim_min_pages unused   *)
(* pages, none when that is zero or one, for any number of pages and any   *)
(* count carried over from the classes before.                             *)
THEOREM SweepsSound == Spec => []SweepsThorough
<1>1. Init => SweepsThorough
  BY DEF Init, SweepsThorough
<1>2. ASSUME IInv, [Next]_vars, SweepsThorough PROVE SweepsThorough'
  <2>1. CASE Alloc
    BY <1>2, <2>1, OtherStepsSweepNothing, Zenon DEF Alloc, AllocFromPartial, AllocFromEmpty, AllocFromNewPage
  <2>2. ASSUME NEW p \in Pages, FreeSlot(p) PROVE SweepsThorough'
    BY <1>2, <2>2, OtherStepsSweepNothing DEF FreeSlot
  <2>3. ASSUME NEW late, Compact(late) PROVE SweepsThorough'
    BY <1>2, <2>3, CompactThorough
  <2>4. ASSUME NEW late, NEW before \in 0..MinIdlePages, ReclaimIdlePages(late, before) PROVE SweepsThorough'
    BY <1>2, <2>4, ReclaimThorough
  <2>5. CASE Reset
    BY <1>2, <2>5, OtherStepsSweepNothing, Zenon DEF Reset
  <2>6. CASE PurgeLazy
    BY <1>2, <2>6, OtherStepsSweepNothing DEF PurgeLazy
  <2>7. ASSUME NEW p, NEW hot, MarkPage(p, hot) PROVE SweepsThorough'
    BY <1>2, <2>7, OtherStepsSweepNothing DEF MarkPage
  <2>8. CASE UNCHANGED vars
    BY <1>2, <2>8, OtherStepsSweepNothing
  <2>. QED BY <1>2, <2>1, <2>2, <2>3, <2>4, <2>5, <2>6, <2>7, <2>8 DEF Next
<1>. QED BY <1>1, <1>2, InvAlways, PTL DEF Spec

-----------------------------------------------------------------------------
(* The loops of the reports count a page once.                             *)
LEMMA CountSize ==
  ASSUME NEW w \in Seq(Pages), OneToOne(w), NEW S
  PROVE  CountIn(w, S) = Cardinality(Range(w) \cap S) /\ CountIn(w, S) \in Nat
<1> DEFINE K == {k \in 1..Len(w) : w[k] \in S}
           T == Range(w) \cap S
           f == [k \in K |-> w[k]]
<1>1. f \in [K -> T] /\ \A k \in K : f[k] = w[k]
  BY RangeOf
<1>2. \A x \in T : \E k \in K : f[k] = x
  BY <1>1, RangeOf
<1>3. \A i, j \in K : f[i] = f[j] => i = j
  BY <1>1 DEF OneToOne
<1> HIDE DEF f, T
<1>4. f \in Bijection(K, T)
  <2>1. f \in Injection(K, T)
    BY <1>1, <1>3 DEF Injection, IsInjective
  <2>2. f \in Surjection(K, T)
    BY <1>1, <1>2 DEF Surjection
  <2>. QED BY <2>1, <2>2 DEF Bijection
<1>5. IsFiniteSet(K)
  <2>1. IsFiniteSet(1..Len(w)) /\ K \subseteq 1..Len(w)
    BY FS_Interval
  <2>. QED BY <2>1, FS_Subset
<1>6. Cardinality(K) = Cardinality(T)
  <2>1. ExistsBijection(K, T)
    BY <1>4 DEF ExistsBijection
  <2> HIDE DEF K
  <2>. QED BY <1>5, <2>1, FS_Bijection
<1>7. Cardinality(K) \in Nat
  BY <1>5, FS_CardinalityType
<1>. QED BY <1>6, <1>7 DEF CountIn, T

(* The reports see the pages on partial and full, each once.               *)
LEMMA ReportedPages ==
  ASSUME IInv
  PROVE  LET r == Reported(sc) IN
         /\ r \in Seq(Pages) /\ OneToOne(r)
         /\ Range(r) = Partial \cup Full
<1> DEFINE u == Walk(sc, "partial")
           v == Walk(sc, "full")
           r == u \o v
<1>1. /\ u \in Seq(Pages) /\ OneToOne(u) /\ Partial = Range(u)
      /\ v \in Seq(Pages) /\ OneToOne(v) /\ Full = Range(v)
  BY Zenon DEF IInv, Chains, IsList, Lists, Partial, Full, OnList
<1>2. Range(u) \cap Range(v) = {}
  BY <1>1, Lists3, HoldingApart
<1>3. Reported(sc) = r
  BY DEF Reported
<1> HIDE DEF u, v
<1>4. /\ r \in Seq(Pages) /\ Len(r) = Len(u) + Len(v) /\ Len(u) \in Nat /\ Len(v) \in Nat
      /\ \A i \in 1..Len(r) : r[i] = IF i <= Len(u) THEN u[i] ELSE v[i - Len(u)]
  BY <1>1
<1> HIDE DEF r
<1>5. \A i \in 1..Len(r) : \/ i \in 1..Len(u) /\ r[i] = u[i] /\ r[i] \in Range(u)
                           \/ i - Len(u) \in 1..Len(v) /\ r[i] = v[i - Len(u)] /\ r[i] \in Range(v)
  <2> SUFFICES ASSUME NEW i \in 1..Len(r)
               PROVE  \/ i \in 1..Len(u) /\ r[i] = u[i] /\ r[i] \in Range(u)
                      \/ i - Len(u) \in 1..Len(v) /\ r[i] = v[i - Len(u)] /\ r[i] \in Range(v)
    OBVIOUS
  <2>1. i \in 1..Len(u) \/ (~(i <= Len(u)) /\ i - Len(u) \in 1..Len(v))
    BY <1>4
  <2>2. i \in 1..Len(u) => r[i] = u[i] /\ u[i] \in Range(u)
    BY <1>1, <1>4, RangeOf
  <2>3. i - Len(u) \in 1..Len(v) => v[i - Len(u)] \in Range(v)
    BY <1>1, RangeOf
  <2>. QED BY <1>4, <2>1, <2>2, <2>3, Zenon
<1>6. OneToOne(r)
  <2> SUFFICES ASSUME NEW i \in 1..Len(r), NEW j \in 1..Len(r), r[i] = r[j] PROVE i = j
    BY DEF OneToOne
  <2>1. CASE i \in 1..Len(u) /\ j \in 1..Len(u) /\ r[i] = u[i] /\ r[j] = u[j]
    BY <1>1, <2>1, Zenon DEF OneToOne
  <2>2. CASE /\ i - Len(u) \in 1..Len(v) /\ j - Len(u) \in 1..Len(v)
             /\ r[i] = v[i - Len(u)] /\ r[j] = v[j - Len(u)]
    <3>1. i - Len(u) = j - Len(u)
      BY <1>1, <2>2, Zenon DEF OneToOne
    <3>. QED BY <1>4, <3>1
  <2>. QED BY <1>2, <1>5, <2>1, <2>2, Zenon
<1>7. Range(r) = Range(u) \cup Range(v)
  <2>1. \A x \in Range(r) : x \in Range(u) \cup Range(v)
    BY <1>4, <1>5, RangeOf
  <2>2. ASSUME NEW x \in Range(u) PROVE x \in Range(r)
    <3>1. PICK i \in 1..Len(u) : x = u[i]
      BY <1>1, RangeOf
    <3>2. i \in 1..Len(r) /\ r[i] = u[i]
      BY <1>4
    <3>. QED BY <1>4, <3>1, <3>2, RangeOf
  <2>3. ASSUME NEW x \in Range(v) PROVE x \in Range(r)
    <3>1. PICK i \in 1..Len(v) : x = v[i]
      BY <1>1, RangeOf
    <3>2. i + Len(u) \in 1..Len(r) /\ ~(i + Len(u) <= Len(u)) /\ i + Len(u) - Len(u) = i
      BY <1>4
    <3>3. r[i + Len(u)] = v[i]
      BY <1>4, <3>2
    <3>. QED BY <1>4, <3>1, <3>2, <3>3, RangeOf, Zenon
  <2>. QED BY <2>1, <2>2, <2>3
<1>. QED BY <1>1, <1>3, <1>4, <1>6, <1>7

(* A finite set is counted by counting its two parts.                      *)
LEMMA SplitSize ==
  ASSUME NEW A, IsFiniteSet(A), NEW B
  PROVE  /\ Cardinality(A) = Cardinality(A \cap B) + Cardinality(A \ B)
         /\ Cardinality(A \cap B) \in Nat /\ Cardinality(A \ B) \in Nat /\ Cardinality(A) \in Nat
<1>1. IsFiniteSet(A \cap B) /\ IsFiniteSet(A \ B)
  BY FS_Subset
<1>2. Cardinality(A \ B) = Cardinality(A) - Cardinality(A \cap B)
  BY FS_Difference
<1>3. Cardinality(A \cap B) \in Nat /\ Cardinality(A \ B) \in Nat /\ Cardinality(A) \in Nat
  BY <1>1, FS_CardinalityType
<1>. QED BY <1>2, <1>3

(* Hot and cold pages together are the pages shown, and                    *)
(* mp_separate_hot_cold_pages counts the cold ones.                        *)
LEMMA TemperatureReports ==
  ASSUME IInv
  PROVE  /\ mp_get_hot_page_count + mp_get_cold_page_count = Cardinality(Partial \cup Full)
         /\ mp_separate_hot_cold_pages(TRUE) = mp_get_cold_page_count
<1> DEFINE r == Reported(sc)
           H == {p \in Pages : is_hot[p]}
           C == {p \in Pages : ~is_hot[p]}
<1>1. r \in Seq(Pages) /\ OneToOne(r) /\ Range(r) = Partial \cup Full /\ Range(r) \subseteq Pages
  BY ReportedPages, RangeOf
<1>2. /\ mp_get_hot_page_count = CountIn(r, H)
      /\ mp_get_cold_page_count = Len(r) - CountIn(r, H)
      /\ mp_separate_hot_cold_pages(TRUE) = CountIn(r, C)
  BY DEF mp_get_hot_page_count, mp_get_cold_page_count, mp_separate_hot_cold_pages
<1>3. Range(r) \cap C = Range(r) \ H
  BY <1>1
<1> HIDE DEF r, H, C
<1>4. Len(r) = Cardinality(Range(r)) /\ Len(r) \in Nat
  <2>1. Len(r) = Cardinality(Range(r))
    BY <1>1, LengthIsSize, Zenon
  <2>2. Len(r) \in Nat
    BY <1>1
  <2>. QED BY <2>1, <2>2
<1>5. /\ CountIn(r, H) = Cardinality(Range(r) \cap H) /\ CountIn(r, H) \in Nat
      /\ CountIn(r, C) = Cardinality(Range(r) \ H) /\ CountIn(r, C) \in Nat
  BY <1>1, <1>3, CountSize, Zenon
<1>6. IsFiniteSet(Range(r))
  BY <1>1, SlabPagesAssumption, FS_Subset
<1>7. Cardinality(Range(r)) = Cardinality(Range(r) \cap H) + Cardinality(Range(r) \ H)
  BY <1>6, SplitSize
<1>8. /\ CountIn(r, H) + (Len(r) - CountIn(r, H)) = Len(r)
      /\ CountIn(r, C) = Len(r) - CountIn(r, H)
  BY <1>4, <1>5, <1>7
<1>. QED BY <1>1, <1>2, <1>4, <1>8, Zenon

(* mp_enumerate_regions shows distinct pages, and all that are shown to    *)
(* anyone when there is room.                                              *)
LEMMA RegionReports ==
  ASSUME IInv, NEW room \in Nat
  PROVE  LET s == mp_enumerate_regions(room) IN
         /\ Len(s) = Cardinality(Range(s)) /\ Len(s) <= room
         /\ Range(s) \subseteq Partial \cup Full
         /\ room >= Cardinality(Partial \cup Full) => Range(s) = Partial \cup Full
<1> DEFINE r == Reported(sc)
           n == IF room < Len(r) THEN room ELSE Len(r)
           s == SubSeq(r, 1, n)
<1>1. r \in Seq(Pages) /\ OneToOne(r) /\ Range(r) = Partial \cup Full
  BY ReportedPages
<1>2. mp_enumerate_regions(room) = s
  BY DEF mp_enumerate_regions
<1> HIDE DEF r
<1>3. n \in Nat /\ n <= Len(r) /\ Len(r) \in Nat
  BY <1>1
<1>a. (room >= Len(r) => n = Len(r)) /\ n <= room
  BY <1>1
<1> HIDE DEF n
<1>4. s \in Seq(Pages) /\ Len(s) = n /\ \A i \in 1..n : s[i] = r[i]
  BY <1>1, <1>3
<1> HIDE DEF s
<1>5. OneToOne(s)
  <2>1. \A i \in 1..n : i \in 1..Len(r)
    BY <1>3
  <2>. QED BY <1>1, <1>4, <2>1 DEF OneToOne
<1>6. Len(s) = Cardinality(Range(s))
  BY <1>4, <1>5, LengthIsSize
<1>7. Range(s) \subseteq Range(r)
  <2>1. \A i \in 1..n : i \in 1..Len(r)
    BY <1>3
  <2>. QED BY <1>1, <1>4, <2>1, RangeOf
<1>8. ASSUME room >= Cardinality(Range(r)) PROVE Range(s) = Range(r)
  <2>1. Len(r) = Cardinality(Range(r))
    BY <1>1, LengthIsSize, Zenon
  <2>2. n = Len(r)
    BY <1>a, <1>8, <2>1
  <2>3. ASSUME NEW x \in Range(r) PROVE x \in Range(s)
    <3>1. PICK i \in 1..Len(r) : x = r[i]
      BY <1>1, RangeOf, Zenon
    <3>2. i \in 1..n
      BY <2>2, Zenon
    <3>3. s \in Seq(Pages) /\ Len(s) = n /\ s[i] = r[i]
      BY <1>4, <3>2, Zenon
    <3>. QED BY <3>1, <3>2, <3>3, RangeOf, Zenon
  <2>. QED BY <1>7, <2>3, Zenon
<1>9. Len(s) <= room
  BY <1>4, <1>a
<1>. QED BY <1>1, <1>2, <1>6, <1>7, <1>8, <1>9

(* mp_get_idle_page_count counts the unused pages, and mp_freeable no      *)
(* others.                                                                 *)
LEMMA IdleReports ==
  ASSUME IInv
  PROVE  LET unused == {p \in mapped : free_count[p] = TotalSlots} IN
         /\ ~IdleReclaim => mp_get_idle_page_count({}) = Cardinality(unused)
         /\ mp_freeable <= Cardinality(unused)
<1> DEFINE unused == {p \in mapped : free_count[p] = TotalSlots}
           w == Walk(sc, "partial")
           U == {p \in Pages : free_count[p] = TotalSlots}
<1>1. w \in Seq(Pages) /\ OneToOne(w) /\ Range(w) = Partial
  BY Zenon DEF IInv, Chains, IsList, Lists, Partial, OnList
<1>2. mp_freeable = CountIn(w, U)
  BY DEF mp_freeable
<1>3. mapped \subseteq Pages /\ TotalSlots > 0 /\ Empty \subseteq unused /\ unused \cap Empty = Empty
  BY SlabPagesAssumption, Lists3 DEF IInv, Typed
<1>4. Partial \cap U = unused \ Empty
  BY <1>3, Lists3
<1>5. ~IdleReclaim => {p \in Pages : ShouldFree(p, {})} = U
  BY DEF ShouldFree
<1>6. ~IdleReclaim => mp_get_idle_page_count({}) = empty_page_count + CountIn(w, U)
  BY <1>5 DEF mp_get_idle_page_count
<1>8. IsFiniteSet(unused)
  BY <1>3, SlabPagesAssumption, FS_Subset
<1> HIDE DEF w, U, unused
<1>9. CountIn(w, U) = Cardinality(unused \ Empty)
  BY <1>1, <1>4, CountSize
<1>10. /\ Cardinality(unused) = Cardinality(Empty) + Cardinality(unused \ Empty)
       /\ Cardinality(Empty) \in Nat /\ Cardinality(unused \ Empty) \in Nat
  BY <1>3, <1>8, SplitSize, Zenon
<1>11. empty_page_count = Cardinality(Empty)
  BY DEF IInv
<1>12. /\ ~IdleReclaim => mp_get_idle_page_count({}) = Cardinality(unused)
       /\ mp_freeable <= Cardinality(unused)
  BY <1>2, <1>6, <1>9, <1>10, <1>11
<1>. QED BY <1>12 DEF unused

(* The reports of a class agree with its lists and with each other in      *)
(* every reachable state, for any number of pages.                         *)
THEOREM ReportsSound == Spec => []PageReports
<1>1. ASSUME IInv PROVE PageReports
  <2> DEFINE unused == {p \in mapped : free_count[p] = TotalSlots}
             N      == Cardinality(Pages)
             all    == mp_enumerate_regions(N)
             shown  == Partial \cup Full
  <2>1. shown \subseteq mapped /\ mapped \ unused \subseteq shown /\ shown \subseteq Pages
    BY <1>1, Lists3 DEF IInv, Typed
  <2>2. IsFiniteSet(Pages) /\ N \in Nat
    BY SlabPagesAssumption, FS_CardinalityType
  <2>3. N >= Cardinality(shown)
    BY <2>1, <2>2, FS_Subset, FS_CardinalityType
  <2>4. ASSUME NEW room \in {1, N}
        PROVE  /\ Len(mp_enumerate_regions(room)) = Cardinality(Range(mp_enumerate_regions(room)))
               /\ Len(mp_enumerate_regions(room)) <= room
               /\ Range(mp_enumerate_regions(room)) \subseteq shown
               /\ room >= Cardinality(shown) => Range(mp_enumerate_regions(room)) = shown
    <3>1. room \in Nat
      BY <2>2
    <3>. QED BY <1>1, <3>1, RegionReports, Zenon
  <2> HIDE DEF N
  <2>5. Range(all) = shown /\ Len(all) = Cardinality(shown)
    BY <2>3, <2>4, Zenon
  <2>6. /\ mp_get_hot_page_count + mp_get_cold_page_count = Cardinality(shown)
        /\ mp_separate_hot_cold_pages(TRUE) = mp_get_cold_page_count
    BY <1>1, TemperatureReports, Zenon
  <2>7. /\ ~IdleReclaim => mp_get_idle_page_count({}) = Cardinality(unused)
        /\ mp_freeable <= Cardinality(unused)
    BY <1>1, IdleReports, Zenon
  <2>8. mapped \ unused \subseteq Range(all)
    BY <2>1, <2>5, Zenon
  <2>9. mp_get_hot_page_count + mp_get_cold_page_count = Len(all)
    BY <2>5, <2>6, Zenon
  <2>10. ASSUME NEW room \in {1, N}
         PROVE  LET r == mp_enumerate_regions(room) IN
                /\ Len(r) = Cardinality(Range(r)) /\ Len(r) <= room
                /\ Range(r) \subseteq Range(all) /\ Range(r) \subseteq mapped
    <3>1. Range(mp_enumerate_regions(room)) \subseteq mapped
      BY <2>1, <2>4, Zenon
    <3>2. Range(mp_enumerate_regions(room)) \subseteq Range(all)
      BY <2>4, <2>5, Zenon
    <3>. QED BY <2>4, <3>1, <3>2, Zenon
  <2>. QED BY <2>6, <2>7, <2>8, <2>9, <2>10, Zenon DEF PageReports, N
<1>. QED BY <1>1, InvAlways, PTL

-----------------------------------------------------------------------------
(* Slots on the free list of page p, or -1.                                *)
Level(p) == IF p \in mapped THEN free_count[p] ELSE -1

(* What a step does to the stock of SlabStock, or nothing.                 *)
StockStep ==
  \/ \A p \in Pages : Level(p)' = Level(p)
  \/ \E p \in Pages : Stock!TakeFromPage(p) \/ Stock!TakeFromNewPage(p) \/ Stock!Give(p)
  \/ \E S \in SUBSET Pages : Stock!Release(S)
  \/ Stock!Restock

(* A slot popped from a page on a list is taken from the stock.            *)
LEMMA TakesOne ==
  ASSUME IInv, NEW p \in Partial \cup Empty, NEW c, PopSlot(p, c, free_count[p], free_list[p]),
         UNCHANGED mapped
  PROVE  StockStep
<1>1. p \in mapped /\ p \in Pages /\ free_count[p] \in 1..TotalSlots
  BY Lists3, SlabPagesAssumption DEF IInv, Typed
<1>2. free_count' = [free_count EXCEPT ![p] = free_count[p] - 1] /\ free_count \in [Pages -> 0..TotalSlots]
  BY DEF PopSlot, IInv, Typed
<1>3. Level(p) > 0 /\ Level(p)' = Level(p) - 1
  BY <1>1, <1>2 DEF Level
<1>4. \A q \in Pages : q # p => Level(q)' = Level(q)
  BY <1>2 DEF Level
<1>5. Stock!TakeFromPage(p)
  BY <1>1, <1>3, <1>4, Zenon DEF Stock!TakeFromPage, Level
<1>. QED BY <1>1, <1>5, Zenon DEF StockStep

(* A page is mapped when neither partial nor empty has one: the mapped     *)
(* pages are full, and have no free slot.                                  *)
LEMMA TakesFromNewPage ==
  ASSUME IInv, NEW p \in Pages, AllocFromNewPage(p)
  PROVE  StockStep
<1>1. /\ sc.head["partial"] = NULL /\ sc.head["empty"] = NULL
      /\ p \notin mapped /\ mapped' = mapped \cup {p}
      /\ free_count' = [free_count EXCEPT ![p] = TotalSlots - 1]
  BY DEF AllocFromNewPage, NoPageAtHand, CreatePage, PopSlot
<1>2. Partial = {} /\ Empty = {}
  BY <1>1, Lists3, OnListPages, Zenon DEF Holding, Lists, Partial, Empty
<1>3. free_count \in [Pages -> 0..TotalSlots] /\ mapped \subseteq Pages
  BY DEF IInv, Typed
<1>4. \A q \in mapped : free_count[q] = 0
  BY <1>2, Lists3
<1>5. Level(p) = -1 /\ Level(p)' = TotalSlots - 1
  BY <1>1, <1>3 DEF Level
<1>6. \A q \in Pages : q # p => Level(q)' = Level(q)
  BY <1>1, <1>3 DEF Level
<1>7. \A q \in Pages : Level(q) # -1 => Level(q) = 0
  BY <1>4 DEF Level
<1>8. Stock!TakeFromNewPage(p)
  BY <1>5, <1>6, <1>7, Zenon DEF Stock!TakeFromNewPage, Stock!Mapped, Stock!Unmapped, Level
<1>. QED BY <1>8 DEF StockStep

(* A slot given back raises its page's stock.                              *)
LEMMA GivesOne ==
  ASSUME IInv, NEW p \in Pages, FreeSlot(p)
  PROVE  StockStep
<1>1. /\ p \in mapped /\ free_count[p] < TotalSlots /\ mapped' = mapped
      /\ free_count' = [free_count EXCEPT ![p] = free_count[p] + 1]
  BY DEF FreeSlot
<1>2. free_count \in [Pages -> 0..TotalSlots] /\ TotalSlots \in Nat
  BY SlabPagesAssumption DEF IInv, Typed
<1>3. Level(p) \in 0..(TotalSlots - 1) /\ Level(p)' = Level(p) + 1
  BY <1>1, <1>2 DEF Level
<1>4. \A q \in Pages : q # p => Level(q)' = Level(q)
  BY <1>1, <1>2 DEF Level
<1>5. Stock!Give(p)
  BY <1>3, <1>4, Zenon DEF Stock!Give, Level
<1>. QED BY <1>5 DEF StockStep

(* Unmapping pages that have all their slots is a release.                 *)
LEMMA ReleasesUnused ==
  ASSUME IInv, NEW S, NEW c, Unmap(S, c), \A p \in S : p \in mapped /\ free_count[p] = TotalSlots
  PROVE  StockStep
<1>1. /\ mapped' = mapped \ S /\ S \subseteq Pages
      /\ free_count' = [p \in Pages |-> IF p \in S THEN 0 ELSE free_count[p]]
  BY Zenon DEF Unmap, IInv, Typed
<1>2. \A p \in S : Level(p) = TotalSlots /\ Level(p)' = -1
  BY <1>1 DEF Level
<1>3. \A p \in Pages \ S : Level(p)' = Level(p)
  BY <1>1 DEF Level
<1>4. Stock!Release(S)
  BY <1>1, <1>2, <1>3 DEF Stock!Release, Stock!Unmapped, Level
<1>. QED BY <1>1, <1>4 DEF StockStep

(* mp_reset gives every mapped page all its slots: the pages on partial    *)
(* get them, the empty ones have them.                                     *)
LEMMA ResetRestocks ==
  ASSUME IInv, Reset
  PROVE  StockStep
<1>1. IInv' /\ Empty' = Empty /\ Partial' = Partial \cup Full /\ mapped' = mapped
  BY ResetKeeps DEF Reset
<1>2. free_count' = [p \in Pages |-> IF p \in Partial' THEN TotalSlots ELSE free_count[p]]
  BY DEF Reset, Partial
<1>3. mapped = Partial' \cup Empty /\ mapped \subseteq Pages /\ free_count \in [Pages -> 0..TotalSlots]
  BY <1>1, Lists3 DEF IInv, Typed
<1>4. \A p \in mapped : Level(p)' = TotalSlots /\ Level(p) # -1
  BY <1>1, <1>2, <1>3, Lists3 DEF Level
<1>5. \A p \in Pages \ mapped : Level(p)' = -1 /\ Level(p) = -1
  BY <1>1 DEF Level
<1>6. Stock!Restock
  BY <1>3, <1>4, <1>5 DEF Stock!Restock, Stock!Mapped, Stock!Unmapped, Level
<1>. QED BY <1>6 DEF StockStep

(* With idle reclaim off mp_compact picks only pages that have all their   *)
(* slots.                                                                  *)
LEMMA CompactReleases ==
  ASSUME ~IdleReclaim, IInv, NEW late
  PROVE  \A p \in Compacted(late) : p \in mapped /\ free_count[p] = TotalSlots
BY Lists3 DEF Compacted, ShouldFree

(* So does mp_reclaim_idle_pages.                                          *)
LEMMA ReclaimReleases ==
  ASSUME ~IdleReclaim, IInv, NEW late, NEW before, Reclaimed(late, before) \subseteq Partial
  PROVE  \A p \in Empty \cup Reclaimed(late, before) : p \in mapped /\ free_count[p] = TotalSlots
<1>1. \A p \in Reclaimed(late, before) : ShouldFree(p, late)
  BY DEF Reclaimed
<1>. QED BY <1>1, Lists3 DEF ShouldFree

(* Every step is a step of the stock, or changes it not at all.            *)
LEMMA StepIsStockStep ==
  ASSUME ~IdleReclaim, IInv, [Next]_vars
  PROVE  StockStep
<1>0. ASSUME UNCHANGED <<mapped, free_count>> PROVE StockStep
  BY <1>0 DEF StockStep, Level
<1>1. CASE AllocFromPartial
  <2>1. sc.head["partial"] \in Partial
    BY <1>1, OnListPages, Zenon DEF AllocFromPartial, IInv, Lists, Partial
  <2>. QED BY <1>1, <2>1, TakesOne DEF AllocFromPartial
<1>2. CASE AllocFromEmpty
  <2>1. sc.head["empty"] \in Empty
    BY <1>2, OnListPages, Zenon DEF AllocFromEmpty, IInv, Lists, Empty
  <2>. QED BY <1>2, <2>1, TakesOne DEF AllocFromEmpty
<1>3. ASSUME NEW p \in Pages, AllocFromNewPage(p) PROVE StockStep
  BY <1>3, TakesFromNewPage
<1>4. ASSUME NEW p \in Pages, FreeSlot(p) PROVE StockStep
  BY <1>4, GivesOne
<1>5. ASSUME NEW late, Compact(late) PROVE StockStep
  BY <1>5, CompactKeeps, CompactReleases, ReleasesUnused
<1>6. ASSUME NEW late, NEW before, ReclaimIdlePages(late, before) PROVE StockStep
  BY <1>6, ReclaimKeeps, ReclaimReleases, ReleasesUnused, Zenon
<1>7. CASE Reset
  BY <1>7, ResetRestocks
<1>8. CASE PurgeLazy
  BY <1>0, <1>8 DEF PurgeLazy
<1>9. ASSUME NEW p, NEW hot, MarkPage(p, hot) PROVE StockStep
  BY <1>0, <1>9 DEF MarkPage
<1>10. CASE UNCHANGED vars
  BY <1>0, <1>10 DEF vars
<1>. QED BY <1>1, <1>2, <1>3, <1>4, <1>5, <1>6, <1>7, <1>8, <1>9, <1>10 DEF Next, Alloc

(* While idle reclaim is off, the page lists implement SlabStock, the      *)
(* interface the caches above rely on: a page is mapped only when no       *)
(* mapped page has a free slot, slots are taken and given one at a time,   *)
(* and only unused pages are unmapped. (With idle reclaim on the last      *)
(* part fails, as the run slab_pages_idle shows.)                          *)
THEOREM PagesImplementStock ==
  ASSUME ~IdleReclaim
  PROVE  Spec => ImplementsStock
<1>1. Init => Stock!Init
  BY DEF Init, Stock!Init, Stock!Unmapped
<1>2. IInv /\ [Next]_vars =>
        [Stock!Next]_[p \in Pages |-> IF p \in mapped THEN free_count[p] ELSE -1]
  <2> SUFFICES ASSUME StockStep
               PROVE  [Stock!Next]_[p \in Pages |-> IF p \in mapped THEN free_count[p] ELSE -1]
    BY StepIsStockStep
  <2>1. CASE \A p \in Pages : Level(p)' = Level(p)
    BY <2>1 DEF Level
  <2>2. CASE \E p \in Pages : Stock!TakeFromPage(p) \/ Stock!TakeFromNewPage(p) \/ Stock!Give(p)
    BY <2>2 DEF Stock!Next
  <2>3. CASE \E S \in SUBSET Pages : Stock!Release(S)
    BY <2>3 DEF Stock!Next
  <2>4. CASE Stock!Restock
    BY <2>4 DEF Stock!Next
  <2>. QED BY <2>1, <2>2, <2>3, <2>4, Zenon DEF StockStep
<1>. QED BY <1>1, <1>2, InvAlways, PTL DEF Spec, ImplementsStock, Stock!Spec

(* While idle reclaim is off, mp_compact and mp_reclaim_idle_pages unmap   *)
(* only pages whose slots are all free.                                    *)
THEOREM OnlyUnusedReleased ==
  ASSUME ~IdleReclaim
  PROVE  Spec => OnlyUnusedPagesReleased
<1> DEFINE Unused == \A p \in mapped \ mapped' : free_count[p] = TotalSlots
<1>1. ASSUME IInv, [Next]_vars PROVE Unused
  <2>1. CASE Alloc
    BY <2>1, Zenon DEF Alloc, AllocFromPartial, AllocFromEmpty, AllocFromNewPage, CreatePage
  <2>2. ASSUME NEW p \in Pages, FreeSlot(p) PROVE Unused
    BY <2>2 DEF FreeSlot
  <2>3. ASSUME NEW late, Compact(late) PROVE Unused
    <3>1. mapped' = mapped \ Compacted(late)
      BY <1>1, <2>3, CompactKeeps, Zenon DEF Unmap
    <3>. QED BY <1>1, <3>1, CompactReleases
  <2>4. ASSUME NEW late, NEW before, ReclaimIdlePages(late, before) PROVE Unused
    <3>1. /\ Reclaimed(late, before) \subseteq Partial
          /\ mapped' = mapped \ (Empty \cup Reclaimed(late, before))
      BY <1>1, <2>4, ReclaimKeeps, Zenon DEF Unmap
    <3>. QED BY <1>1, <3>1, ReclaimReleases
  <2>5. CASE Reset \/ PurgeLazy \/ \E p \in Pages, hot \in BOOLEAN : MarkPage(p, hot)
    BY <2>5, Zenon DEF Reset, PurgeLazy, MarkPage
  <2>6. CASE UNCHANGED vars
    BY <2>6 DEF vars
  <2>. QED BY <1>1, <2>1, <2>2, <2>3, <2>4, <2>5, <2>6 DEF Next
<1>. QED BY <1>1, InvAlways, PTL DEF Spec, OnlyUnusedPagesReleased
=============================================================================
