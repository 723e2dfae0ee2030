--------------------------- MODULE PageListProofs ---------------------------
(***************************************************************************)
(* The list surgery of cmem_slab.c, for any number of pages: what          *)
(* PushHead, Unlink and the sweeps built from them do to the three page    *)
(* lists of a class, given that each list is linked forward and back and   *)
(* that no page is on two of them (Chains).                                *)
(*                                                                         *)
(* Walk and the sweeps are recursive functions. What such a function       *)
(* returns is shown in two steps: a function with the wanted values        *)
(* satisfies the recursive equation, and any two functions that satisfy it *)
(* are equal (FollowsUnique), or one that does exists (Iterates). The      *)
(* inductions are over a set of naturals (SetInduction).                   *)
(***************************************************************************)
EXTENDS SlabPages, FiniteSetTheorems, WellFoundedInduction, TLAPS

(* Induction over the naturals, for a set: a least number outside S would  *)
(* have a predecessor in S.                                                *)
LEMMA SetInduction ==
  ASSUME NEW S, 0 \in S, \A n \in Nat : n \in S => n + 1 \in S
  PROVE  \A n \in Nat : n \in S
<1> DEFINE T == {n \in Nat : n \notin S}
           R == {ss \in Nat \X Nat : ss[1] < ss[2]}
<1>1. SUFFICES ASSUME T # {} PROVE FALSE
  OBVIOUS
<1>2. IsWellFoundedOn(R, Nat)
  BY NatLessThanWellFounded DEF OpToRel
<1>3. \E x \in T : \A y \in T : ~ (<<y, x>> \in R)
  <2> HIDE DEF R
  <2>. QED BY <1>1, <1>2, WFMin, T \subseteq Nat, Zenon
<1>4. PICK x \in T : \A y \in T : ~ (<<y, x>> \in R)
  BY <1>3
<1>5. x # 0 /\ x - 1 \in Nat
  OBVIOUS
<1>6. x - 1 \in T
  BY <1>5
<1>7. <<x-1, x>> \in R
  BY <1>5
<1>. QED BY <1>4, <1>6, <1>7

(* No page is met twice on the way along w.                                *)
OneToOne(w) == \A i, j \in 1..Len(w) : w[i] = w[j] => i = j

(* w is the list with head h, each page linked forward and back.           *)
IsList(h, nx, pv, w) ==
  /\ w \in Seq(Pages) /\ OneToOne(w)
  /\ h = IF Len(w) = 0 THEN NULL ELSE w[1]
  /\ \A i \in 1..Len(w) : nx[w[i]] = IF i = Len(w) THEN NULL ELSE w[i + 1]
  /\ \A i \in 1..Len(w) : pv[w[i]] = IF i = 1 THEN NULL ELSE w[i - 1]

(* The pages of a walk are its entries.                                    *)
LEMMA RangeOf ==
  ASSUME NEW w \in Seq(Pages)
  PROVE  /\ Range(w) \subseteq Pages
         /\ \A x : x \in Range(w) <=> \E i \in 1..Len(w) : x = w[i]
         /\ \A i \in 1..Len(w) : w[i] \in Range(w) /\ w[i] \in Pages
<1>1. DOMAIN w = 1..Len(w) /\ \A i \in 1..Len(w) : w[i] \in Pages
  OBVIOUS
<1>. QED BY <1>1 DEF Range

(* A walk that meets no page twice is as long as the list has pages: the   *)
(* bound in Walk is never reached.                                         *)
LEMMA LengthIsSize ==
  ASSUME NEW w \in Seq(Pages), OneToOne(w)
  PROVE  Len(w) = Cardinality(Range(w)) /\ Len(w) <= Cardinality(Pages)
<1>1. w \in [1..Len(w) -> Range(w)] /\ Len(w) \in Nat
  BY RangeOf
<1>2. w \in Bijection(1..Len(w), Range(w))
  <2>1. w \in Injection(1..Len(w), Range(w))
    BY <1>1 DEF OneToOne, Injection, IsInjective
  <2>2. w \in Surjection(1..Len(w), Range(w))
    BY <1>1, RangeOf DEF Surjection
  <2>. QED BY <2>1, <2>2 DEF Bijection
<1>3. Cardinality(Range(w)) = Len(w)
  BY <1>1, <1>2, FS_CountingElements DEF ExistsBijection
<1>4. IsFiniteSet(Pages) /\ Range(w) \subseteq Pages
  BY SlabPagesAssumption, RangeOf
<1>. QED BY <1>3, <1>4, FS_Subset

(* f is the walk of Walk: entry k is reached by k - 1 links from h.        *)
Follows(h, nx, N, f) ==
  f = [k \in 1..N |-> IF k = 1 THEN h
                      ELSE LET q == f[k - 1] IN IF q = NULL THEN NULL ELSE nx[q]]

(* The links determine the walk.                                           *)
LEMMA FollowsUnique ==
  ASSUME NEW h, NEW nx, NEW N \in Nat, NEW f, NEW g, Follows(h, nx, N, f), Follows(h, nx, N, g)
  PROVE  f = g
<1> DEFINE Onward(x) == IF x = NULL THEN NULL ELSE nx[x]
           S == {n \in Nat : n + 1 <= N => f[n + 1] = g[n + 1]}
<1>1. /\ f = [k \in 1..N |-> IF k = 1 THEN h ELSE Onward(f[k - 1])]
      /\ g = [k \in 1..N |-> IF k = 1 THEN h ELSE Onward(g[k - 1])]
  BY DEF Follows
<1> HIDE DEF Onward
<1>2. \A k \in 1..N : /\ f[k] = IF k = 1 THEN h ELSE Onward(f[k - 1])
                      /\ g[k] = IF k = 1 THEN h ELSE Onward(g[k - 1])
  BY <1>1
<1>3. 0 \in S
  BY <1>2
<1>4. ASSUME NEW n \in Nat, n \in S PROVE n + 1 \in S
  <2>1. SUFFICES ASSUME n + 1 + 1 <= N PROVE f[n + 1 + 1] = g[n + 1 + 1]
    OBVIOUS
  <2>2. f[n + 1] = g[n + 1] /\ n + 1 + 1 \in 1..N /\ n + 1 + 1 # 1 /\ n + 1 + 1 - 1 = n + 1
    BY <1>4, <2>1
  <2>. QED BY <1>2, <2>2
<1>5. \A n \in Nat : n \in S
  <2> HIDE DEF S
  <2>. QED BY <1>3, <1>4, SetInduction
<1>6. \A k \in 1..N : f[k] = g[k]
  <2> SUFFICES ASSUME NEW k \in 1..N PROVE f[k] = g[k]
    OBVIOUS
  <2>1. k - 1 \in Nat /\ k - 1 + 1 = k /\ k <= N
    OBVIOUS
  <2>2. k - 1 \in S
    BY <1>5, <2>1
  <2>. QED BY <2>1, <2>2
<1>7. DOMAIN f = 1..N /\ DOMAIN g = 1..N /\ f = [k \in DOMAIN f |-> f[k]] /\ g = [k \in DOMAIN g |-> g[k]]
  BY <1>1
<1>. QED BY <1>6, <1>7

(* Walk finds the list that the head and the links describe.               *)
LEMMA WalkIs ==
  ASSUME NEW c, NEW l, NEW w, IsList(c.head[l], c.next, c.prev, w)
  PROVE  Walk(c, l) = w
<1> DEFINE h == c.head[l]
           nx == c.next
           N == Cardinality(Pages) + 1
           at == CHOOSE f : Follows(h, nx, N, f)
           g == [k \in 1..N |-> IF k <= Len(w) THEN w[k] ELSE NULL]
<1>3. Walk(c, l) = [k \in 1..Cardinality({k \in 1..N : at[k] # NULL}) |-> at[k]]
  BY DEF Walk, Follows
<1> HIDE DEF h, nx
<1>0. /\ w \in Seq(Pages) /\ OneToOne(w) /\ Len(w) \in Nat /\ Cardinality(Pages) \in Nat
      /\ Len(w) + 1 <= N /\ N \in Nat
  BY LengthIsSize, FS_CardinalityType, SlabPagesAssumption DEF IsList
<1>01. /\ h = IF Len(w) = 0 THEN NULL ELSE w[1]
       /\ \A i \in 1..Len(w) : nx[w[i]] = IF i = Len(w) THEN NULL ELSE w[i + 1]
       /\ \A i \in 1..Len(w) : w[i] \in Pages /\ w[i] # NULL
  BY SlabPagesAssumption DEF IsList, h, nx
<1> HIDE DEF N
<1>1. Follows(h, nx, N, g)
  <2>1. \A k \in 1..N : g[k] = IF k <= Len(w) THEN w[k] ELSE NULL
    OBVIOUS
  <2>2. g = [k \in 1..N |-> g[k]]
    OBVIOUS
  <2> HIDE DEF g
  <2>3. ASSUME NEW k \in 1..N
        PROVE  g[k] = IF k = 1 THEN h ELSE IF g[k - 1] = NULL THEN NULL ELSE nx[g[k - 1]]
    <3>1. CASE k = 1
      BY <1>0, <1>01, <2>1, <3>1
    <3>2. CASE k # 1 /\ k - 1 <= Len(w)
      <4>1. k - 1 \in 1..Len(w) /\ k - 1 \in 1..N /\ k - 1 + 1 = k
        BY <1>0, <3>2
      <4>2. g[k - 1] = w[k - 1] /\ w[k - 1] # NULL
        BY <1>0, <1>01, <2>1, <4>1
      <4>3. nx[w[k - 1]] = IF k - 1 = Len(w) THEN NULL ELSE w[k]
        BY <1>01, <4>1
      <4>4. g[k] = IF k - 1 = Len(w) THEN NULL ELSE w[k]
        BY <1>0, <2>1, <3>2
      <4>. QED BY <3>2, <4>2, <4>3, <4>4
    <3>3. CASE k # 1 /\ ~(k - 1 <= Len(w))
      <4>1. g[k - 1] = NULL /\ g[k] = NULL
        BY <1>0, <2>1, <3>3
      <4>. QED BY <3>3, <4>1
    <3>. QED BY <3>1, <3>2, <3>3
  <2>. QED BY <2>2, <2>3 DEF Follows
<1>2. at = g
  <2> HIDE DEF g
  <2>1. Follows(h, nx, N, at)
    BY <1>1
  <2> HIDE DEF at
  <2>. QED BY <1>0, <1>1, <2>1, FollowsUnique
<1> HIDE DEF at
<1>4. {k \in 1..N : at[k] # NULL} = 1..Len(w)
  BY <1>0, <1>01, <1>2
<1>5. Cardinality(1..Len(w)) = Len(w)
  <2>1. \A b \in Int : Cardinality(1..b) = IF 1 > b THEN 0 ELSE b - 1 + 1
    BY FS_Interval
  <2>. QED BY <1>0, <2>1
<1>6. \A k \in 1..Len(w) : at[k] = w[k]
  BY <1>0, <1>2
<1>7. w = [k \in 1..Len(w) |-> w[k]]
  BY <1>0
<1>8. Walk(c, l) = [k \in 1..Len(w) |-> at[k]]
  BY <1>3, <1>4, <1>5, Zenon
<1>. QED BY <1>6, <1>7, <1>8

(* A list is not disturbed by writes to the links of pages that are not    *)
(* on it.                                                                  *)
LEMMA ListElsewhere ==
  ASSUME NEW h, NEW nx, NEW pv, NEW ny, NEW qv, NEW w, IsList(h, nx, pv, w),
         \A p \in Range(w) : ny[p] = nx[p] /\ qv[p] = pv[p]
  PROVE  IsList(h, ny, qv, w)
<1>1. w \in Seq(Pages) /\ \A i \in 1..Len(w) : w[i] \in Range(w)
  BY RangeOf DEF IsList
<1>2. \A i \in 1..Len(w) : ny[w[i]] = nx[w[i]] /\ qv[w[i]] = pv[w[i]]
  BY <1>1
<1>. QED BY <1>2 DEF IsList

(* A NULL head is the empty list.                                          *)
LEMMA EmptyList ==
  ASSUME NEW nx, NEW pv
  PROVE  IsList(NULL, nx, pv, <<>>) /\ Range(<<>>) = {}
<1>1. IsList(NULL, nx, pv, <<>>)
  BY DEF IsList, OneToOne
<1>2. Range(<<>>) = {}
  BY DEF Range
<1>. QED BY <1>1, <1>2

(* The head of a list is NULL when the list is empty, and otherwise a      *)
(* page on it whose prev is NULL: the test by which every unlink in        *)
(* cmem_slab.c recognises the head.                                        *)
LEMMA ListHead ==
  ASSUME NEW h, NEW nx, NEW pv, NEW w, IsList(h, nx, pv, w)
  PROVE  /\ h = NULL => w = <<>> /\ Range(w) = {}
         /\ h # NULL => /\ Len(w) > 0 /\ w[1] = h /\ h \in Pages /\ h \in Range(w)
                        /\ pv[h] = NULL
<1>1. w \in Seq(Pages) /\ h = IF Len(w) = 0 THEN NULL ELSE w[1]
  BY DEF IsList
<1>2. Len(w) \in Nat /\ (Len(w) > 0 => w[1] \in Pages)
  BY <1>1
<1>3. h = NULL => Len(w) = 0
  BY <1>1, <1>2, SlabPagesAssumption
<1>4. Len(w) = 0 => w = <<>>
  BY <1>1
<1>5. Len(w) > 0 => w[1] \in Range(w)
  BY <1>1, <1>2, RangeOf
<1>6. Len(w) > 0 => pv[w[1]] = NULL
  <2>1. Len(w) > 0 => 1 \in 1..Len(w)
    BY <1>2
  <2>. QED BY <2>1 DEF IsList
<1>. QED BY <1>1, <1>2, <1>3, <1>4, <1>5, <1>6, EmptyList

(* PushHead, seen from the list it pushes on.                              *)
LEMMA PushList ==
  ASSUME NEW h, NEW nx, NEW pv, NEW w, IsList(h, nx, pv, w),
         NEW p \in Pages, p \notin Range(w), NEW ny, NEW qv,
         ny[p] = h, \A q \in Pages \ {p} : ny[q] = nx[q],
         qv[p] = NULL, h # NULL => qv[h] = p,
         \A q \in Pages \ {p, h} : qv[q] = pv[q]
  PROVE  IsList(p, ny, qv, <<p>> \o w) /\ Range(<<p>> \o w) = Range(w) \cup {p}
<1> DEFINE v == <<p>> \o w
<1>1. /\ w \in Seq(Pages) /\ OneToOne(w) /\ Len(w) \in Nat
      /\ h = IF Len(w) = 0 THEN NULL ELSE w[1]
      /\ \A i \in 1..Len(w) : nx[w[i]] = IF i = Len(w) THEN NULL ELSE w[i + 1]
      /\ \A i \in 1..Len(w) : pv[w[i]] = IF i = 1 THEN NULL ELSE w[i - 1]
  BY DEF IsList
<1>2. /\ v \in Seq(Pages) /\ Len(v) = Len(w) + 1 /\ v[1] = p
      /\ \A i \in 1..Len(w) : v[i + 1] = w[i]
      /\ \A i \in 2..Len(v) : v[i] = w[i - 1]
  BY <1>1
<1> HIDE DEF v
<1>3. \A i \in 1..Len(w) : w[i] \in Pages /\ w[i] # p
  BY <1>1, RangeOf
<1>o. OneToOne(w)
  BY <1>1, Zenon
<1>4. OneToOne(v)
  <2> SUFFICES ASSUME NEW i \in 1..Len(v), NEW j \in 1..Len(v), v[i] = v[j] PROVE i = j
    BY DEF OneToOne
  <2>1. CASE i = 1 /\ j # 1
    <3>1. j \in 2..Len(v) /\ j - 1 \in 1..Len(w)
      BY <1>1, <1>2, <2>1
    <3>. QED BY <1>2, <1>3, <2>1, <3>1
  <2>2. CASE i # 1 /\ j = 1
    <3>1. i \in 2..Len(v) /\ i - 1 \in 1..Len(w)
      BY <1>1, <1>2, <2>2
    <3>. QED BY <1>2, <1>3, <2>2, <3>1
  <2>3. CASE i # 1 /\ j # 1
    <3>1. /\ i \in 2..Len(v) /\ i - 1 \in 1..Len(w)
          /\ j \in 2..Len(v) /\ j - 1 \in 1..Len(w)
      BY <1>1, <1>2, <2>3
    <3>2. i - 1 = j - 1
      <4>1. v[i] = w[i - 1] /\ v[j] = w[j - 1]
        BY <1>2, <3>1, Zenon
      <4>2. w[i - 1] = w[j - 1]
        BY <4>1, Zenon
      <4>3. \A x, y \in 1..Len(w) : w[x] = w[y] => x = y
        BY <1>o, Zenon DEF OneToOne
      <4>. QED BY <3>1, <4>2, <4>3, Zenon
    <3>. QED BY <3>1, <3>2
  <2>. QED BY <2>1, <2>2, <2>3
<1>5. ASSUME NEW i \in 1..Len(v) PROVE ny[v[i]] = IF i = Len(v) THEN NULL ELSE v[i + 1]
  <2>1. CASE i = 1
    <3>1. ny[v[i]] = h
      BY <1>2, <2>1
    <3>2. i = Len(v) <=> Len(w) = 0
      BY <1>1, <1>2, <2>1
    <3>3. Len(w) # 0 => v[i + 1] = w[1]
      <4>1. Len(w) # 0 => 1 \in 1..Len(w)
        BY <1>1
      <4>. QED BY <1>2, <2>1, <4>1
    <3>. QED BY <1>1, <3>1, <3>2, <3>3
  <2>2. CASE i # 1
    <3>1. i - 1 \in 1..Len(w) /\ i \in 2..Len(v) /\ (i = Len(v) <=> i - 1 = Len(w))
      BY <1>1, <1>2, <2>2
    <3>2. v[i] = w[i - 1]
      BY <1>2, <3>1
    <3>3. ny[w[i - 1]] = nx[w[i - 1]]
      BY <1>3, <3>1
    <3>4. nx[w[i - 1]] = IF i - 1 = Len(w) THEN NULL ELSE w[i - 1 + 1]
      BY <1>1, <3>1, Zenon
    <3>5. i # Len(v) => i \in 1..Len(w) /\ v[i + 1] = w[i] /\ i - 1 + 1 = i
      BY <1>1, <1>2, <3>1
    <3>. QED BY <3>1, <3>2, <3>3, <3>4, <3>5
  <2>. QED BY <2>1, <2>2
<1>6. ASSUME NEW i \in 1..Len(v) PROVE qv[v[i]] = IF i = 1 THEN NULL ELSE v[i - 1]
  <2>1. CASE i = 1
    BY <1>2, <2>1
  <2>2. CASE i = 2
    <3>1. Len(w) # 0 /\ 1 \in 1..Len(w) /\ 2 \in 2..Len(v)
      BY <1>1, <1>2, <2>2
    <3>2. v[2] = w[1] /\ w[1] = h /\ h # NULL
      BY <1>1, <1>2, <1>3, <3>1, SlabPagesAssumption
    <3>. QED BY <1>2, <2>2, <3>2
  <2>3. CASE i # 1 /\ i # 2
    <3>1. /\ i - 1 \in 1..Len(w) /\ i \in 2..Len(v) /\ i - 1 # 1 /\ i - 1 \in 2..Len(v)
          /\ 1 \in 1..Len(w)
      BY <1>1, <1>2, <2>3
    <3>2. v[i] = w[i - 1] /\ v[i - 1] = w[i - 1 - 1]
      BY <1>2, <3>1, Zenon
    <3>3. w[i - 1] # h
      BY <1>1, <3>1 DEF OneToOne
    <3>4. qv[w[i - 1]] = pv[w[i - 1]]
      BY <1>3, <3>1, <3>3
    <3>5. pv[w[i - 1]] = w[i - 1 - 1]
      BY <1>1, <3>1, Zenon
    <3>. QED BY <2>3, <3>2, <3>4, <3>5
  <2>. QED BY <2>1, <2>2, <2>3
<1>7. p = IF Len(v) = 0 THEN NULL ELSE v[1]
  BY <1>1, <1>2
<1>8. IsList(p, ny, qv, v)
  BY <1>2, <1>4, <1>5, <1>6, <1>7 DEF IsList
<1>9. Range(v) = Range(w) \cup {p}
  <2>1. ASSUME NEW x \in Range(v) PROVE x \in Range(w) \cup {p}
    <3>1. PICK i \in 1..Len(v) : x = v[i]
      BY <1>2, RangeOf
    <3>2. CASE i = 1
      BY <1>2, <3>1, <3>2
    <3>3. CASE i # 1
      <4>1. i - 1 \in 1..Len(w) /\ x = w[i - 1]
        BY <1>1, <1>2, <3>1, <3>3
      <4>. QED BY <1>1, <4>1, RangeOf
    <3>. QED BY <3>2, <3>3
  <2>2. ASSUME NEW x \in Range(w) PROVE x \in Range(v)
    <3>1. PICK i \in 1..Len(w) : x = w[i]
      BY <1>1, RangeOf
    <3>2. i + 1 \in 1..Len(v) /\ x = v[i + 1]
      BY <1>1, <1>2, <3>1
    <3>. QED BY <1>2, <3>2, RangeOf
  <2>3. p \in Range(v)
    <3>1. 1 \in 1..Len(v)
      BY <1>1, <1>2
    <3>. QED BY <1>2, <3>1, RangeOf
  <2>. QED BY <2>1, <2>2, <2>3
<1>. QED BY <1>8, <1>9 DEF v

(* w without its k-th entry.                                               *)
Without(w, k) == [i \in 1..(Len(w) - 1) |-> IF i < k THEN w[i] ELSE w[i + 1]]

(* Unlink, seen from the list it unlinks from. The page may be the head,   *)
(* the last or between: prev and next say which.                           *)
LEMMA UnlinkList ==
  ASSUME NEW h, NEW nx, NEW pv, NEW w, IsList(h, nx, pv, w),
         NEW p \in Range(w), NEW ny, NEW qv,
         \A q \in Pages : ny[q] = IF q = pv[p] THEN nx[p] ELSE nx[q],
         \A q \in Pages : qv[q] = IF q = nx[p] THEN pv[p] ELSE pv[q]
  PROVE  \E v : IsList(IF pv[p] = NULL THEN nx[p] ELSE h, ny, qv, v) /\ Range(v) = Range(w) \ {p}
<1> DEFINE n == Len(w)
<1>1. /\ w \in Seq(Pages) /\ OneToOne(w) /\ n \in Nat
      /\ h = IF n = 0 THEN NULL ELSE w[1]
      /\ \A i \in 1..n : nx[w[i]] = IF i = n THEN NULL ELSE w[i + 1]
      /\ \A i \in 1..n : pv[w[i]] = IF i = 1 THEN NULL ELSE w[i - 1]
  BY DEF IsList
<1>p. PICK k \in 1..n : p = w[k]
  BY <1>1, RangeOf
<1> DEFINE v == Without(w, k)
<1>2. /\ v \in Seq(Pages) /\ Len(v) = n - 1
      /\ \A i \in 1..(n - 1) : v[i] = IF i < k THEN w[i] ELSE w[i + 1]
  <2>1. \A i \in 1..n : w[i] \in Pages
    BY <1>1
  <2>2. \A i \in 1..(n - 1) : i \in 1..n /\ i + 1 \in 1..n
    BY <1>1
  <2>3. \A i \in 1..(n - 1) : (IF i < k THEN w[i] ELSE w[i + 1]) \in Pages
    BY <2>1, <2>2
  <2>4. n - 1 \in Nat
    BY <1>1
  <2> DEFINE m == n - 1
  <2>5. v = [i \in 1..m |-> IF i < k THEN w[i] ELSE w[i + 1]]
    BY DEF Without
  <2> HIDE DEF v
  <2>6. v \in [1..m -> Pages]
    BY <2>3, <2>5
  <2>7. m \in Nat
    BY <2>4
  <2>8. \A i \in 1..m : v[i] = IF i < k THEN w[i] ELSE w[i + 1]
    BY <2>5
  <2> HIDE DEF m
  <2>9. v \in Seq(Pages) /\ Len(v) = m
    BY <2>6, <2>7
  <2>. QED BY <2>8, <2>9 DEF m
<1> HIDE DEF v, n
<1>3. \A i \in 1..n : w[i] \in Pages /\ w[i] # NULL
  BY <1>1, SlabPagesAssumption DEF n
<1>u. \A i, j \in 1..n : w[i] = w[j] => i = j
  BY <1>1 DEF OneToOne, n
<1>4. OneToOne(v)
  <2> SUFFICES ASSUME NEW i \in 1..Len(v), NEW j \in 1..Len(v), v[i] = v[j] PROVE i = j
    BY DEF OneToOne
  <2> DEFINE Old(x) == IF x < k THEN x ELSE x + 1
  <2>1. Old(i) \in 1..n /\ Old(j) \in 1..n /\ v[i] = w[Old(i)] /\ v[j] = w[Old(j)]
    <3>1. n \in Nat /\ Len(v) = n - 1 /\ k \in 1..n
      BY <1>1, <1>2, Zenon
    <3>2. Old(i) \in 1..n /\ Old(j) \in 1..n
      BY <3>1
    <3>3. v[i] = w[Old(i)] /\ v[j] = w[Old(j)]
      BY <1>2, <3>1, Zenon
    <3>. QED BY <3>2, <3>3, Zenon
  <2>2. Old(i) = Old(j)
    <3> HIDE DEF Old
    <3>. QED BY <2>1, <1>u, Zenon
  <2>. QED BY <1>1, <1>2, <2>2
<1>n. nx[p] = IF k = n THEN NULL ELSE w[k + 1]
  BY <1>1, <1>p
<1>v. pv[p] = IF k = 1 THEN NULL ELSE w[k - 1]
  BY <1>1, <1>p
<1>5. ASSUME NEW i \in 1..Len(v) PROVE ny[v[i]] = IF i = Len(v) THEN NULL ELSE v[i + 1]
  <2>0. i \in 1..(n - 1)
    BY <1>2
  <2>1. CASE i < k - 1
    <3>1. /\ i \in 1..n /\ i + 1 \in 1..(n - 1) /\ i + 1 < k /\ i < k /\ i # Len(v) /\ i # n
          /\ k # 1 /\ k - 1 \in 1..n /\ i # k - 1
      BY <1>1, <1>2, <2>0, <2>1
    <3>2. v[i] = w[i] /\ v[i + 1] = w[i + 1]
      BY <1>2, <2>0, <3>1
    <3>3. w[i] # pv[p]
      BY <1>u, <1>v, <3>1
    <3>4. ny[w[i]] = nx[w[i]]
      BY <1>3, <3>1, <3>3
    <3>5. nx[w[i]] = w[i + 1]
      BY <1>1, <3>1
    <3>. QED BY <3>1, <3>2, <3>4, <3>5
  <2>2. CASE i = k - 1
    <3>1. /\ i \in 1..n /\ i < k /\ (i = Len(v) <=> k = n) /\ k # 1 /\ i + 1 = k
      BY <1>1, <1>2, <2>0, <2>2
    <3>2. v[i] = w[i] /\ w[i] = pv[p]
      BY <1>2, <1>v, <2>0, <2>2, <3>1
    <3>3. ny[w[i]] = nx[p]
      BY <1>3, <3>1, <3>2
    <3>4. k # n => v[k] = w[k + 1]
      <4>1. k # n => k \in 1..(n - 1)
        BY <1>1
      <4>. QED BY <1>2, <4>1
    <3>. QED BY <1>n, <3>1, <3>2, <3>3, <3>4
  <2>3. CASE i > k - 1
    <3>1. /\ i + 1 \in 1..n /\ ~(i < k) /\ (i = Len(v) <=> i + 1 = n)
          /\ (k # 1 => k - 1 \in 1..n) /\ i + 1 # k - 1
      BY <1>1, <1>2, <2>0, <2>3
    <3>2. v[i] = w[i + 1]
      BY <1>2, <2>0, <3>1
    <3>3. w[i + 1] # pv[p]
      BY <1>u, <1>v, <1>3, <3>1
    <3>4. ny[w[i + 1]] = nx[w[i + 1]]
      BY <1>3, <3>1, <3>3
    <3>5. nx[w[i + 1]] = IF i + 1 = n THEN NULL ELSE w[i + 1 + 1]
      BY <1>1, <3>1, Zenon
    <3>6. i + 1 # n => v[i + 1] = w[i + 1 + 1]
      <4>1. i + 1 # n => i + 1 \in 1..(n - 1) /\ ~(i + 1 < k)
        BY <1>1, <3>1
      <4>. QED BY <1>2, <4>1
    <3>. QED BY <3>1, <3>2, <3>4, <3>5, <3>6
  <2>. QED BY <1>1, <2>0, <2>1, <2>2, <2>3
<1>6. ASSUME NEW i \in 1..Len(v) PROVE qv[v[i]] = IF i = 1 THEN NULL ELSE v[i - 1]
  <2>0. i \in 1..(n - 1)
    BY <1>2
  <2>1. CASE i < k
    <3>1. /\ i \in 1..n /\ (i # 1 => i - 1 \in 1..(n - 1) /\ i - 1 < k)
          /\ (k # n => k + 1 \in 1..n /\ i # k + 1)
      BY <1>1, <1>2, <2>0, <2>1
    <3>2. v[i] = w[i] /\ (i # 1 => v[i - 1] = w[i - 1])
      BY <1>2, <2>0, <2>1, <3>1
    <3>3. w[i] # nx[p]
      BY <1>u, <1>n, <1>3, <3>1
    <3>4. qv[w[i]] = pv[w[i]]
      BY <1>3, <3>1, <3>3
    <3>5. pv[w[i]] = IF i = 1 THEN NULL ELSE w[i - 1]
      BY <1>1, <3>1
    <3>. QED BY <3>2, <3>4, <3>5
  <2>2. CASE i = k
    <3>1. /\ k # n /\ k + 1 \in 1..n /\ ~(i < k) /\ (k # 1 => k - 1 \in 1..(n - 1) /\ k - 1 < k)
      BY <1>1, <1>2, <2>0, <2>2
    <3>2. v[i] = w[k + 1] /\ (k # 1 => v[k - 1] = w[k - 1])
      BY <1>2, <2>0, <2>2, <3>1
    <3>3. w[k + 1] = nx[p]
      BY <1>n, <3>1
    <3>4. qv[w[k + 1]] = pv[p]
      BY <1>3, <3>1, <3>3
    <3>. QED BY <1>v, <2>2, <3>2, <3>4
  <2>3. CASE i > k
    <3>1. /\ i + 1 \in 1..n /\ ~(i < k) /\ (k # n => k + 1 \in 1..n /\ i + 1 # k + 1)
          /\ i # 1 /\ i - 1 \in 1..(n - 1) /\ ~(i - 1 < k) /\ i + 1 # 1 /\ i - 1 + 1 = i /\ i + 1 - 1 = i
      BY <1>1, <1>2, <2>0, <2>3
    <3>2. v[i] = w[i + 1] /\ v[i - 1] = w[i]
      BY <1>2, <2>0, <3>1, Zenon
    <3>3. w[i + 1] # nx[p]
      BY <1>u, <1>n, <1>3, <3>1
    <3>4. qv[w[i + 1]] = pv[w[i + 1]]
      BY <1>3, <3>1, <3>3, Zenon
    <3>5. pv[w[i + 1]] = w[i]
      <4>1. i + 1 \in 1..n /\ i + 1 # 1 /\ i + 1 - 1 = i
        BY <3>1, Zenon
      <4>2. \A x \in 1..n : pv[w[x]] = IF x = 1 THEN NULL ELSE w[x - 1]
        BY <1>1, Zenon
      <4>. QED BY <4>1, <4>2
    <3>. QED BY <3>1, <3>2, <3>4, <3>5
  <2>. QED BY <1>1, <2>0, <2>1, <2>2, <2>3
<1>7. (IF pv[p] = NULL THEN nx[p] ELSE h) = IF Len(v) = 0 THEN NULL ELSE v[1]
  <2>1. CASE k = 1
    <3>1. pv[p] = NULL /\ nx[p] = IF n = 1 THEN NULL ELSE w[1 + 1]
      BY <1>n, <1>v, <2>1
    <3>2. Len(v) = 0 <=> n = 1
      BY <1>1, <1>2, <2>1
    <3>3. n # 1 => v[1] = w[1 + 1]
      <4>1. n # 1 => 1 \in 1..(n - 1)
        BY <1>1, <2>1
      <4>. QED BY <1>2, <2>1, <4>1
    <3>. QED BY <3>1, <3>2, <3>3
  <2>2. CASE k # 1
    <3>1. /\ k - 1 \in 1..n /\ 1 \in 1..(n - 1) /\ 1 < k /\ n # 0 /\ Len(v) # 0
      BY <1>1, <1>2, <2>2
    <3>2. pv[p] # NULL /\ h = w[1] /\ v[1] = w[1]
      BY <1>1, <1>2, <1>3, <1>v, <2>2, <3>1
    <3>. QED BY <3>1, <3>2
  <2>. QED BY <2>1, <2>2
<1>8. IsList(IF pv[p] = NULL THEN nx[p] ELSE h, ny, qv, v)
  BY <1>2, <1>4, <1>5, <1>6, <1>7 DEF IsList
<1>9. Range(v) = Range(w) \ {p}
  <2>1. ASSUME NEW x \in Range(v) PROVE x \in Range(w) \ {p}
    <3>1. PICK i \in 1..Len(v) : x = v[i]
      BY <1>2, RangeOf
    <3>2. PICK j \in 1..n : x = w[j] /\ j # k
      <4>1. CASE i < k
        <5>1. i \in 1..n /\ i # k /\ x = w[i]
          BY <1>1, <1>2, <3>1, <4>1
        <5>. QED BY <5>1
      <4>2. CASE ~(i < k)
        <5>1. i + 1 \in 1..n /\ i + 1 # k /\ x = w[i + 1]
          BY <1>1, <1>2, <3>1, <4>2
        <5>. QED BY <5>1
      <4>. QED BY <4>1, <4>2
    <3>3. x \in Range(w)
      BY <1>1, <3>2, RangeOf DEF n
    <3>. QED BY <1>p, <1>u, <3>2, <3>3
  <2>2. ASSUME NEW x \in Range(w) \ {p} PROVE x \in Range(v)
    <3>1. PICK j \in 1..n : x = w[j]
      BY <1>1, RangeOf DEF n
    <3>2. j # k
      BY <1>p, <3>1
    <3>3. PICK i \in 1..Len(v) : x = v[i]
      <4>1. CASE j < k
        <5>1. j \in 1..(n - 1)
          BY <1>1, <4>1
        <5>. QED BY <1>2, <3>1, <4>1, <5>1
      <4>2. CASE j > k
        <5>1. j - 1 \in 1..(n - 1) /\ ~(j - 1 < k) /\ j - 1 + 1 = j
          BY <1>1, <4>2
        <5>. QED BY <1>2, <3>1, <5>1
      <4>. QED BY <3>2, <4>1, <4>2
    <3>. QED BY <1>2, <3>3, RangeOf
  <2>. QED BY <2>1, <2>2
<1>. QED BY <1>8, <1>9

-----------------------------------------------------------------------------
(* The values of sc.                                                       *)
ClassState == [head : [Lists -> Link], next : [Pages -> Link], prev : [Pages -> Link]]

(* The three lists are lists, and no page is on two of them.               *)
Chains(c) ==
  /\ c \in ClassState
  /\ \A l \in Lists : IsList(c.head[l], c.next, c.prev, Walk(c, l))
  /\ \A l, m \in Lists : l # m => OnList(c, l) \cap OnList(c, m) = {}

(* A class whose heads and links describe three disjoint lists is sound,   *)
(* and its walks find those lists.                                         *)
LEMMA ChainsFrom ==
  ASSUME NEW c \in ClassState, NEW X,
         \A l \in Lists : \E v : IsList(c.head[l], c.next, c.prev, v) /\ Range(v) = X[l],
         \A l, m \in Lists : l # m => X[l] \cap X[m] = {}
  PROVE  Chains(c) /\ \A l \in Lists : OnList(c, l) = X[l]
<1>1. ASSUME NEW l \in Lists
      PROVE  IsList(c.head[l], c.next, c.prev, Walk(c, l)) /\ OnList(c, l) = X[l]
  <2>1. PICK v : IsList(c.head[l], c.next, c.prev, v) /\ Range(v) = X[l]
    OBVIOUS
  <2>2. Walk(c, l) = v
    BY <2>1, WalkIs, Zenon
  <2>. QED BY <2>1, <2>2 DEF OnList
<1>2. \A l, m \in Lists : l # m => OnList(c, l) \cap OnList(c, m) = {}
  BY <1>1
<1>. QED BY <1>1, <1>2 DEF Chains

(* What is known of a page by the list it is on.                           *)
LEMMA OnListPages ==
  ASSUME NEW c, Chains(c), NEW l \in Lists
  PROVE  /\ OnList(c, l) \subseteq Pages
         /\ c.head[l] = NULL <=> OnList(c, l) = {}
         /\ c.head[l] # NULL => c.head[l] \in OnList(c, l) /\ c.prev[c.head[l]] = NULL
         /\ \A p \in OnList(c, l) : /\ c.next[p] = NULL \/ c.next[p] \in OnList(c, l)
                                    /\ c.prev[p] = NULL \/ c.prev[p] \in OnList(c, l)
<1> DEFINE w == Walk(c, l)
<1>1. /\ IsList(c.head[l], c.next, c.prev, w) /\ w \in Seq(Pages) /\ OnList(c, l) = Range(w)
      /\ Len(w) \in Nat
  BY DEF Chains, IsList, OnList
<1> HIDE DEF w
<1>2. /\ OnList(c, l) \subseteq Pages
      /\ c.head[l] = NULL <=> OnList(c, l) = {}
      /\ c.head[l] # NULL => c.head[l] \in OnList(c, l) /\ c.prev[c.head[l]] = NULL
  BY <1>1, RangeOf, ListHead
<1>3. ASSUME NEW p \in OnList(c, l)
      PROVE  /\ c.next[p] = NULL \/ c.next[p] \in OnList(c, l)
             /\ c.prev[p] = NULL \/ c.prev[p] \in OnList(c, l)
  <2>1. PICK i \in 1..Len(w) : p = w[i]
    BY <1>1, RangeOf
  <2>2. /\ c.next[p] = IF i = Len(w) THEN NULL ELSE w[i + 1]
        /\ c.prev[p] = IF i = 1 THEN NULL ELSE w[i - 1]
    BY <1>1, <2>1 DEF IsList
  <2>3. /\ i # Len(w) => i + 1 \in 1..Len(w)
        /\ i # 1 => i - 1 \in 1..Len(w)
    BY <1>1
  <2>4. \A j \in 1..Len(w) : w[j] \in Range(w)
    BY <1>1, RangeOf
  <2>. QED BY <1>1, <2>2, <2>3, <2>4
<1>. QED BY <1>2, <1>3

(* Page p is on list l of d, and the other pages are where they were in c. *)
Joined(c, d, l, p) ==
  /\ Chains(d)
  /\ OnList(d, l) = OnList(c, l) \cup {p}
  /\ \A m \in Lists \ {l} : OnList(d, m) = OnList(c, m)

(* Page p is no longer on list l of d.                                     *)
Left(c, d, l, p) ==
  /\ Chains(d)
  /\ OnList(d, l) = OnList(c, l) \ {p}
  /\ \A m \in Lists \ {l} : OnList(d, m) = OnList(c, m)

(* d is c with p in front of list l, field by field.                       *)
Pushed(c, d, l, p) ==
  /\ d \in ClassState
  /\ d.head[l] = p /\ \A m \in Lists \ {l} : d.head[m] = c.head[m]
  /\ d.next[p] = c.head[l] /\ \A q \in Pages \ {p} : d.next[q] = c.next[q]
  /\ d.prev[p] = NULL
  /\ \A q \in Pages \ {p} : d.prev[q] = IF q = c.head[l] THEN p ELSE c.prev[q]

(* PushHead, field by field.                                               *)
LEMMA PushFields ==
  ASSUME NEW c \in ClassState, NEW l \in Lists, NEW p \in Pages, NEW d, d = PushHead(c, l, p)
  PROVE  Pushed(c, d, l, p)
<1>1. /\ c.head \in [Lists -> Link] /\ c.next \in [Pages -> Link] /\ c.prev \in [Pages -> Link]
  BY DEF ClassState
<1>2. /\ d.head = [c.head EXCEPT ![l] = p]
      /\ d.next = [c.next EXCEPT ![p] = c.head[l]]
      /\ d.prev = [q \in Pages |-> CASE q = p -> NULL
                                     [] q = c.head[l] /\ q # p -> p
                                     [] OTHER -> c.prev[q]]
      /\ d = [head |-> d.head, next |-> d.next, prev |-> d.prev]
  BY DEF PushHead
<1>3. /\ d.head \in [Lists -> Link] /\ d.head[l] = p
      /\ \A m \in Lists \ {l} : d.head[m] = c.head[m]
  BY <1>1, <1>2 DEF Link
<1>4. /\ d.next \in [Pages -> Link] /\ d.next[p] = c.head[l]
      /\ \A q \in Pages \ {p} : d.next[q] = c.next[q]
  BY <1>1, <1>2
<1>5. /\ d.prev[p] = NULL
      /\ \A q \in Pages \ {p} : d.prev[q] = IF q = c.head[l] THEN p ELSE c.prev[q]
  BY <1>2
<1>6. d.prev \in [Pages -> Link]
  <2>1. \A q \in Pages : d.prev[q] \in Link
    BY <1>1, <1>5 DEF Link
  <2>2. d.prev = [q \in Pages |-> d.prev[q]]
    BY <1>2
  <2>. QED BY <2>1, <2>2
<1>7. d \in ClassState
  BY <1>2, <1>3, <1>4, <1>6 DEF ClassState
<1>. QED BY <1>3, <1>4, <1>5, <1>7 DEF Pushed

(* Pushing a page that is on no list.                                      *)
LEMMA PushJoins ==
  ASSUME NEW c, Chains(c), NEW l \in Lists, NEW p \in Pages,
         \A m \in Lists : p \notin OnList(c, m)
  PROVE  Joined(c, PushHead(c, l, p), l, p)
<1> DEFINE d == PushHead(c, l, p)
           X == [m \in Lists |-> IF m = l THEN OnList(c, l) \cup {p} ELSE OnList(c, m)]
<1>0. c \in ClassState
  BY DEF Chains
<1>1. /\ d \in ClassState
      /\ d.head[l] = p /\ \A m \in Lists \ {l} : d.head[m] = c.head[m]
      /\ d.next[p] = c.head[l] /\ \A q \in Pages \ {p} : d.next[q] = c.next[q]
      /\ d.prev[p] = NULL
      /\ \A q \in Pages \ {p} : d.prev[q] = IF q = c.head[l] THEN p ELSE c.prev[q]
  BY <1>0, PushFields DEF Pushed
<1>2. /\ X[l] = OnList(c, l) \cup {p}
      /\ \A m \in Lists \ {l} : X[m] = OnList(c, m)
  OBVIOUS
<1> HIDE DEF d, X
<1>3. \E v : IsList(d.head[l], d.next, d.prev, v) /\ Range(v) = X[l]
  <2>1. IsList(c.head[l], c.next, c.prev, Walk(c, l)) /\ p \notin Range(Walk(c, l))
    BY DEF Chains, OnList
  <2>2. c.head[l] # NULL => c.head[l] \in Pages \ {p}
    BY OnListPages
  <2>3. c.head[l] # NULL => d.prev[c.head[l]] = p
    BY <1>1, <2>2
  <2>4. \A q \in Pages \ {p, c.head[l]} : d.prev[q] = c.prev[q]
    BY <1>1
  <2> DEFINE v == <<p>> \o Walk(c, l)
  <2>5. IsList(p, d.next, d.prev, v) /\ Range(v) = Range(Walk(c, l)) \cup {p}
    BY <1>1, <2>1, <2>3, <2>4, PushList
  <2> HIDE DEF v
  <2>. QED BY <1>1, <1>2, <2>5 DEF OnList
<1>4. ASSUME NEW m \in Lists \ {l}
      PROVE  \E v : IsList(d.head[m], d.next, d.prev, v) /\ Range(v) = X[m]
  <2>1. IsList(c.head[m], c.next, c.prev, Walk(c, m)) /\ OnList(c, m) = Range(Walk(c, m))
    BY DEF Chains, OnList
  <2>2. c.head[l] \notin OnList(c, m) /\ OnList(c, m) \subseteq Pages
    BY OnListPages, SlabPagesAssumption DEF Chains
  <2>3. \A q \in Range(Walk(c, m)) : d.next[q] = c.next[q] /\ d.prev[q] = c.prev[q]
    BY <1>1, <2>1, <2>2
  <2>4. IsList(c.head[m], d.next, d.prev, Walk(c, m))
    BY <2>1, <2>3, ListElsewhere
  <2>. QED BY <1>1, <1>2, <2>1, <2>4
<1>5. \A m \in Lists : \E v : IsList(d.head[m], d.next, d.prev, v) /\ Range(v) = X[m]
  BY <1>3, <1>4
<1>6. \A k, m \in Lists : k # m => X[k] \cap X[m] = {}
  BY <1>2 DEF Chains
<1>7. Chains(d) /\ \A m \in Lists : OnList(d, m) = X[m]
  BY <1>1, <1>5, <1>6, ChainsFrom
<1>8. Joined(c, d, l, p)
  BY <1>2, <1>7 DEF Joined
<1>. QED BY <1>8 DEF d

(* Unlink, field by field.                                                 *)
LEMMA UnlinkFields ==
  ASSUME NEW c \in ClassState, NEW l \in Lists, NEW p \in Pages, NEW d, d = Unlink(c, l, p)
  PROVE  /\ d \in ClassState
         /\ d.head[l] = IF c.prev[p] = NULL THEN c.next[p] ELSE c.head[l]
         /\ \A m \in Lists \ {l} : d.head[m] = c.head[m]
         /\ \A q \in Pages : d.next[q] = IF q = c.prev[p] THEN c.next[p] ELSE c.next[q]
         /\ \A q \in Pages : d.prev[q] = IF q = c.next[p] THEN c.prev[p] ELSE c.prev[q]
<1>1. /\ c.head \in [Lists -> Link] /\ c.next \in [Pages -> Link] /\ c.prev \in [Pages -> Link]
  BY DEF ClassState
<1>2. /\ d.head = IF c.prev[p] = NULL THEN [c.head EXCEPT ![l] = c.next[p]] ELSE c.head
      /\ d.next = [q \in Pages |-> IF q = c.prev[p] THEN c.next[p] ELSE c.next[q]]
      /\ d.prev = [q \in Pages |-> IF q = c.next[p] THEN c.prev[p] ELSE c.prev[q]]
      /\ d = [head |-> d.head, next |-> d.next, prev |-> d.prev]
  BY DEF Unlink
<1>3. /\ d.head \in [Lists -> Link]
      /\ d.head[l] = IF c.prev[p] = NULL THEN c.next[p] ELSE c.head[l]
      /\ \A m \in Lists \ {l} : d.head[m] = c.head[m]
  BY <1>1, <1>2
<1>4. /\ d.next \in [Pages -> Link] /\ d.prev \in [Pages -> Link]
  BY <1>1, <1>2
<1>5. d \in ClassState
  BY <1>2, <1>3, <1>4 DEF ClassState
<1>. QED BY <1>2, <1>3, <1>5, Zenon

(* Unlinking a page that is on the list its caller names.                  *)
LEMMA UnlinkLeaves ==
  ASSUME NEW c, Chains(c), NEW l \in Lists, NEW p \in OnList(c, l)
  PROVE  Left(c, Unlink(c, l, p), l, p)
<1> DEFINE d == Unlink(c, l, p)
           X == [m \in Lists |-> IF m = l THEN OnList(c, l) \ {p} ELSE OnList(c, m)]
<1>0. c \in ClassState /\ p \in Pages
  BY OnListPages DEF Chains
<1>1. /\ d \in ClassState
      /\ d.head[l] = IF c.prev[p] = NULL THEN c.next[p] ELSE c.head[l]
      /\ \A m \in Lists \ {l} : d.head[m] = c.head[m]
      /\ \A q \in Pages : d.next[q] = IF q = c.prev[p] THEN c.next[p] ELSE c.next[q]
      /\ \A q \in Pages : d.prev[q] = IF q = c.next[p] THEN c.prev[p] ELSE c.prev[q]
  BY <1>0, UnlinkFields
<1>2. /\ X[l] = OnList(c, l) \ {p}
      /\ \A m \in Lists \ {l} : X[m] = OnList(c, m)
  OBVIOUS
<1> HIDE DEF d, X
<1>3. \E v : IsList(d.head[l], d.next, d.prev, v) /\ Range(v) = X[l]
  <2> DEFINE w == Walk(c, l)
  <2>1. IsList(c.head[l], c.next, c.prev, w) /\ p \in Range(w) /\ Range(w) = OnList(c, l)
    BY DEF Chains, OnList
  <2> HIDE DEF w
  <2>2. \E v : /\ IsList(IF c.prev[p] = NULL THEN c.next[p] ELSE c.head[l], d.next, d.prev, v)
               /\ Range(v) = Range(w) \ {p}
    BY <1>1, <2>1, UnlinkList
  <2>3. d.head[l] = IF c.prev[p] = NULL THEN c.next[p] ELSE c.head[l]
    BY <1>1, Zenon
  <2>. QED BY <1>2, <2>1, <2>2, <2>3, Zenon
<1>4. ASSUME NEW m \in Lists \ {l}
      PROVE  \E v : IsList(d.head[m], d.next, d.prev, v) /\ Range(v) = X[m]
  <2>1. IsList(c.head[m], c.next, c.prev, Walk(c, m)) /\ OnList(c, m) = Range(Walk(c, m))
    BY DEF Chains, OnList
  <2>2. /\ c.next[p] \notin OnList(c, m) /\ c.prev[p] \notin OnList(c, m)
        /\ OnList(c, m) \subseteq Pages
    BY OnListPages, SlabPagesAssumption DEF Chains
  <2>3. \A q \in Range(Walk(c, m)) : d.next[q] = c.next[q] /\ d.prev[q] = c.prev[q]
    BY <1>1, <2>1, <2>2
  <2>4. IsList(c.head[m], d.next, d.prev, Walk(c, m))
    BY <2>1, <2>3, ListElsewhere
  <2>. QED BY <1>1, <1>2, <2>1, <2>4
<1>5. \A m \in Lists : \E v : IsList(d.head[m], d.next, d.prev, v) /\ Range(v) = X[m]
  BY <1>3, <1>4
<1>6. \A k, m \in Lists : k # m => X[k] \cap X[m] = {}
  BY <1>2 DEF Chains
<1>7. Chains(d) /\ \A m \in Lists : OnList(d, m) = X[m]
  BY <1>1, <1>5, <1>6, ChainsFrom
<1>8. Left(c, d, l, p)
  BY <1>2, <1>7 DEF Left
<1>. QED BY <1>8 DEF d

-----------------------------------------------------------------------------
(* The sweeps are recursive functions over the walk.  The values of such a *)
(* function exist, by induction on how far it has come.                    *)
Iterable(V, x, N, g) ==
  \E f \in [0..N -> V] : f[0] = x /\ \A k \in 1..N : f[k] = g[<<k, f[k - 1]>>]

(* A recursion that goes from k - 1 to k by g has a solution.              *)
LEMMA Iterates ==
  ASSUME NEW V, NEW x \in V, NEW N \in Nat, NEW g \in [(1..N) \X V -> V]
  PROVE  Iterable(V, x, N, g)
<1> DEFINE Done(n, f) == f[0] = x /\ \A k \in 1..n : f[k] = g[<<k, f[k - 1]>>]
           S == {n \in Nat : n <= N => \E f \in [0..n -> V] : Done(n, f)}
<1>1. 0 \in S
  <2> DEFINE f == [k \in 0..0 |-> x]
  <2>1. f \in [0..0 -> V] /\ Done(0, f)
    OBVIOUS
  <2>. QED BY <2>1, Zenon
<1>2. ASSUME NEW n \in Nat, n \in S PROVE n + 1 \in S
  <2>1. SUFFICES ASSUME n + 1 <= N PROVE \E f \in [0..(n + 1) -> V] : Done(n + 1, f)
    OBVIOUS
  <2>2. PICK f \in [0..n -> V] : Done(n, f)
    BY <1>2, <2>1
  <2> DEFINE y == g[<<n + 1, f[n]>>]
             e == [k \in 0..(n + 1) |-> IF k = n + 1 THEN y ELSE f[k]]
  <2>3. y \in V
    <3>1. <<n + 1, f[n]>> \in (1..N) \X V
      BY <2>1
    <3>. QED BY <3>1
  <2>4. e \in [0..(n + 1) -> V]
    <3> HIDE DEF y
    <3>. QED BY <2>3
  <2>5. \A k \in 0..n : e[k] = f[k]
    OBVIOUS
  <2>6. e[n + 1] = y
    OBVIOUS
  <2> HIDE DEF e
  <2>7. ASSUME NEW k \in 1..(n + 1) PROVE e[k] = g[<<k, e[k - 1]>>]
    <3>1. CASE k = n + 1
      <4>1. k - 1 = n /\ n \in 0..n
        BY <3>1
      <4>. QED BY <2>5, <2>6, <3>1, <4>1
    <3>2. CASE k # n + 1
      <4>1. k \in 1..n /\ k \in 0..n /\ k - 1 \in 0..n
        BY <3>2
      <4>. QED BY <2>2, <2>5, <4>1
    <3>. QED BY <3>1, <3>2
  <2>8. e[0] = x
    BY <2>2, <2>5
  <2>. QED BY <2>4, <2>7, <2>8, Zenon
<1>3. \A n \in Nat : n \in S
  <2> HIDE DEF S
  <2>. QED BY <1>1, <1>2, SetInduction
<1>. QED BY <1>3 DEF Iterable

(* f is the class after each page of a sweep.                              *)
Swept(c, l, S, w, f) ==
  f = [k \in 0..Len(w) |->
         IF k = 0 THEN c
         ELSE IF w[k] \in S THEN Unlink(f[k - 1], l, w[k]) ELSE f[k - 1]]

(* UnlinkAll's recursion has a solution.                                   *)
LEMMA SweepExists ==
  ASSUME NEW c \in ClassState, NEW l \in Lists, NEW S, NEW w \in Seq(Pages)
  PROVE  \E f : Swept(c, l, S, w, f)
<1> DEFINE V == ClassState
           N == Len(w)
           g == [a \in (1..N) \X V |-> IF w[a[1]] \in S THEN Unlink(a[2], l, w[a[1]]) ELSE a[2]]
<1>1. N \in Nat /\ \A k \in 1..N : w[k] \in Pages
  OBVIOUS
<1>2. ASSUME NEW k \in 1..N, NEW v \in V
      PROVE  g[<<k, v>>] = (IF w[k] \in S THEN Unlink(v, l, w[k]) ELSE v) /\ g[<<k, v>>] \in V
  <2>1. g[<<k, v>>] = IF w[k] \in S THEN Unlink(v, l, w[k]) ELSE v
    <3>1. <<k, v>> \in (1..N) \X V
      OBVIOUS
    <3>. QED BY <3>1
  <2>2. Unlink(v, l, w[k]) \in V
    BY <1>1, UnlinkFields
  <2>. QED BY <2>1, <2>2
<1>3. c \in V
  OBVIOUS
<1>a. g \in [(1..N) \X V -> V]
  <2>1. ASSUME NEW a \in (1..N) \X V PROVE g[a] \in V
    <3>1. a[1] \in 1..N /\ a[2] \in V /\ a = <<a[1], a[2]>>
      OBVIOUS
    <3> HIDE DEF g, V, N
    <3>. QED BY <1>2, <3>1
  <2>2. g = [a \in (1..N) \X V |-> g[a]]
    OBVIOUS
  <2> HIDE DEF g, V, N
  <2>. QED BY <2>1, <2>2
<1> HIDE DEF g, V, N
<1>4. PICK f \in [0..N -> V] : f[0] = c /\ \A k \in 1..N : f[k] = g[<<k, f[k - 1]>>]
  <2>1. Iterable(V, c, N, g)
    BY <1>1, <1>3, <1>a, Iterates, Zenon
  <2>. QED BY <2>1, Zenon DEF Iterable
<1>5. ASSUME NEW k \in 0..N
      PROVE  f[k] = IF k = 0 THEN c
                    ELSE IF w[k] \in S THEN Unlink(f[k - 1], l, w[k]) ELSE f[k - 1]
  <2>1. CASE k = 0
    BY <1>4, <2>1
  <2>2. CASE k # 0
    <3>1. k \in 1..N /\ k - 1 \in 0..N
      BY <1>1, <2>2
    <3>2. f[k - 1] \in V
      BY <1>4, <3>1
    <3>3. f[k] = g[<<k, f[k - 1]>>]
      BY <1>4, <3>1
    <3>. QED BY <1>2, <2>2, <3>1, <3>2, <3>3
  <2>. QED BY <2>1, <2>2
<1>6. f = [k \in 0..N |-> f[k]]
  BY <1>4
<1>7. f = [k \in 0..N |-> IF k = 0 THEN c
                          ELSE IF w[k] \in S THEN Unlink(f[k - 1], l, w[k]) ELSE f[k - 1]]
  BY <1>5, <1>6
<1>. QED BY <1>7 DEF Swept, N

(* d differs from c in that the pages in S are no longer on list l.        *)
AllLeft(c, d, l, S) ==
  /\ Chains(d)
  /\ OnList(d, l) = OnList(c, l) \ S
  /\ \A m \in Lists \ {l} : OnList(d, m) = OnList(c, m)

(* A sweep of list l takes the pages of S off it, and nothing else,        *)
(* although it unlinks the pages it stands on: by induction along the      *)
(* walk that was there at the start.                                       *)
LEMMA SweepLeaves ==
  ASSUME NEW c, Chains(c), NEW l \in Lists, NEW S
  PROVE  AllLeft(c, UnlinkAll(c, l, S), l, S)
<1> DEFINE w == Walk(c, l)
           f == CHOOSE h : Swept(c, l, S, w, h)
           Met(k) == {q \in S : \E i \in 1..k : q = w[i]}
           T == {k \in Nat : k <= Len(w) => AllLeft(c, f[k], l, Met(k))}
<1>1. UnlinkAll(c, l, S) = f[Len(w)]
  BY DEF UnlinkAll, Swept
<1>2. c \in ClassState /\ w \in Seq(Pages) /\ OneToOne(w) /\ OnList(c, l) = Range(w) /\ Len(w) \in Nat
  BY DEF Chains, IsList, OnList
<1> HIDE DEF w
<1>3. Swept(c, l, S, w, f)
  BY <1>2, SweepExists, Zenon
<1> HIDE DEF f
<1>4. /\ f[0] = c
      /\ \A k \in 1..Len(w) : f[k] = IF w[k] \in S THEN Unlink(f[k - 1], l, w[k]) ELSE f[k - 1]
  <2>1. \A k \in 0..Len(w) :
          f[k] = IF k = 0 THEN c
                 ELSE IF w[k] \in S THEN Unlink(f[k - 1], l, w[k]) ELSE f[k - 1]
    BY <1>3, Zenon DEF Swept
  <2>. QED BY <1>2, <2>1
<1>5. 0 \in T
  <2>1. Met(0) = {}
    OBVIOUS
  <2> HIDE DEF Met
  <2>. QED BY <1>4, <2>1 DEF AllLeft
<1>6. ASSUME NEW k \in Nat, k \in T PROVE k + 1 \in T
  <2>1. SUFFICES ASSUME k + 1 <= Len(w) PROVE AllLeft(c, f[k + 1], l, Met(k + 1))
    OBVIOUS
  <2>2. AllLeft(c, f[k], l, Met(k))
    BY <1>2, <1>6, <2>1
  <2>3. k + 1 \in 1..Len(w) /\ k + 1 - 1 = k
    BY <1>2, <2>1
  <2>4. f[k + 1] = IF w[k + 1] \in S THEN Unlink(f[k], l, w[k + 1]) ELSE f[k]
    BY <1>4, <2>3
  <2>5. Met(k + 1) = Met(k) \cup (S \cap {w[k + 1]})
    <3>1. 1..(k + 1) = (1..k) \cup {k + 1}
      OBVIOUS
    <3>. QED BY <3>1
  <2>6. w[k + 1] \in OnList(c, l) /\ w[k + 1] \notin Met(k)
    <3>1. \A i \in 1..k : i \in 1..Len(w) /\ i # k + 1
      BY <1>2, <2>3
    <3>. QED BY <1>2, <2>3, <3>1, RangeOf DEF OneToOne
  <2> HIDE DEF Met
  <2>7. CASE w[k + 1] \in S
    <3>1. Left(f[k], f[k + 1], l, w[k + 1])
      BY <2>2, <2>4, <2>6, <2>7, UnlinkLeaves DEF AllLeft
    <3>. QED BY <2>2, <2>5, <2>7, <3>1 DEF AllLeft, Left
  <2>8. CASE w[k + 1] \notin S
    BY <2>2, <2>4, <2>5, <2>8 DEF AllLeft
  <2>. QED BY <2>7, <2>8
<1>7. \A k \in Nat : k \in T
  <2> HIDE DEF T
  <2>. QED BY <1>5, <1>6, SetInduction
<1>8. AllLeft(c, f[Len(w)], l, Met(Len(w)))
  <2>1. Len(w) \in T
    <3> HIDE DEF T
    <3>. QED BY <1>2, <1>7
  <2> HIDE DEF Met
  <2>. QED BY <1>2, <2>1
<1>9. OnList(c, l) \ Met(Len(w)) = OnList(c, l) \ S
  BY <1>2, RangeOf
<1> HIDE DEF Met
<1>. QED BY <1>1, <1>8, <1>9 DEF AllLeft

(* Clearing the links of pages that are on no list.                        *)
LEMMA ForgetKeeps ==
  ASSUME NEW c, Chains(c), NEW S, \A m \in Lists : OnList(c, m) \cap S = {}
  PROVE  Chains(Forget(c, S)) /\ \A m \in Lists : OnList(Forget(c, S), m) = OnList(c, m)
<1> DEFINE d == Forget(c, S)
           X == [m \in Lists |-> OnList(c, m)]
<1>1. /\ c.head \in [Lists -> Link] /\ c.next \in [Pages -> Link] /\ c.prev \in [Pages -> Link]
      /\ c = [head |-> c.head, next |-> c.next, prev |-> c.prev]
  BY DEF Chains, ClassState
<1>2. /\ d.head = c.head
      /\ d.next = [p \in Pages |-> IF p \in S THEN NULL ELSE c.next[p]]
      /\ d.prev = [p \in Pages |-> IF p \in S THEN NULL ELSE c.prev[p]]
      /\ d = [head |-> d.head, next |-> d.next, prev |-> d.prev]
  <2> DEFINE nn == [p \in Pages |-> IF p \in S THEN NULL ELSE c.next[p]]
             pp == [p \in Pages |-> IF p \in S THEN NULL ELSE c.prev[p]]
  <2>1. d = [c EXCEPT !.next = nn, !.prev = pp]
    BY DEF Forget
  <2> HIDE DEF d, nn, pp
  <2>2. d.head = c.head /\ d.next = nn /\ d.prev = pp /\ d = [head |-> d.head, next |-> d.next, prev |-> d.prev]
    BY <1>1, <2>1, Zenon
  <2>. QED BY <2>2 DEF nn, pp
<1> HIDE DEF d
<1>3. d.next \in [Pages -> Link] /\ d.prev \in [Pages -> Link]
  BY <1>1, <1>2 DEF Link
<1>4. d \in ClassState
  BY <1>1, <1>2, <1>3 DEF ClassState
<1>5. ASSUME NEW m \in Lists
      PROVE  \E v : IsList(d.head[m], d.next, d.prev, v) /\ Range(v) = X[m]
  <2>1. IsList(c.head[m], c.next, c.prev, Walk(c, m)) /\ OnList(c, m) = Range(Walk(c, m))
    BY DEF Chains, OnList
  <2>2. OnList(c, m) \subseteq Pages
    BY OnListPages
  <2>3. \A q \in Range(Walk(c, m)) : d.next[q] = c.next[q] /\ d.prev[q] = c.prev[q]
    BY <1>2, <2>1, <2>2
  <2>4. IsList(c.head[m], d.next, d.prev, Walk(c, m))
    BY <2>1, <2>3, ListElsewhere
  <2>. QED BY <1>2, <2>1, <2>4, Zenon
<1>6. \A k, m \in Lists : k # m => X[k] \cap X[m] = {}
  BY DEF Chains
<1>7. \A m \in Lists : X[m] = OnList(c, m)
  OBVIOUS
<1> HIDE DEF X
<1>8. Chains(d) /\ \A m \in Lists : OnList(d, m) = X[m]
  BY <1>4, <1>5, <1>6, ChainsFrom, Zenon
<1>. QED BY <1>7, <1>8 DEF d

(* Clearing a head, as the loop over the empty pages does in the end.      *)
LEMMA HeadCleared ==
  ASSUME NEW c, Chains(c), NEW l \in Lists
  PROVE  AllLeft(c, [c EXCEPT !.head[l] = NULL], l, OnList(c, l))
<1> DEFINE d == [c EXCEPT !.head[l] = NULL]
           X == [m \in Lists |-> IF m = l THEN {} ELSE OnList(c, m)]
<1>1. /\ c.head \in [Lists -> Link] /\ c.next \in [Pages -> Link] /\ c.prev \in [Pages -> Link]
      /\ c = [head |-> c.head, next |-> c.next, prev |-> c.prev]
  BY DEF Chains, ClassState
<1>2. /\ d.head = [c.head EXCEPT ![l] = NULL] /\ d.next = c.next /\ d.prev = c.prev
      /\ d = [head |-> d.head, next |-> d.next, prev |-> d.prev]
  BY <1>1
<1> HIDE DEF d
<1>3. /\ d.head \in [Lists -> Link] /\ d.head[l] = NULL
      /\ \A m \in Lists \ {l} : d.head[m] = c.head[m]
  BY <1>1, <1>2 DEF Link
<1>4. d \in ClassState
  BY <1>1, <1>2, <1>3 DEF ClassState
<1>5. X[l] = {} /\ \A m \in Lists \ {l} : X[m] = OnList(c, m)
  OBVIOUS
<1> HIDE DEF X
<1>6. ASSUME NEW m \in Lists
      PROVE  \E v : IsList(d.head[m], d.next, d.prev, v) /\ Range(v) = X[m]
  <2>1. CASE m = l
    BY <1>3, <1>5, <2>1, EmptyList, Zenon
  <2>2. CASE m # l
    <3>1. IsList(c.head[m], c.next, c.prev, Walk(c, m)) /\ OnList(c, m) = Range(Walk(c, m))
      BY DEF Chains, OnList
    <3>. QED BY <1>2, <1>3, <1>5, <2>2, <3>1
  <2>. QED BY <2>1, <2>2
<1>7. \A k, m \in Lists : k # m => X[k] \cap X[m] = {}
  BY <1>5 DEF Chains
<1>8. Chains(d) /\ \A m \in Lists : OnList(d, m) = X[m]
  BY <1>4, <1>6, <1>7, ChainsFrom
<1>. QED BY <1>5, <1>8 DEF d, AllLeft

(* One turn of the loop of mp_reset over the full pages.                   *)
Turn(d, p) == PushHead([d EXCEPT !.head["full"] = d.next[p]], "partial", p)

(* f is the class after each turn of that loop.                            *)
Moved(c, w, f) == f = [k \in 0..Len(w) |-> IF k = 0 THEN c ELSE Turn(f[k - 1], w[k])]

(* One turn, field by field.                                               *)
LEMMA TurnFields ==
  ASSUME NEW c \in ClassState, NEW p \in Pages, NEW d, d = Turn(c, p)
  PROVE  /\ d \in ClassState
         /\ d.head["partial"] = p /\ d.head["full"] = c.next[p] /\ d.head["empty"] = c.head["empty"]
         /\ d.next[p] = c.head["partial"] /\ \A q \in Pages \ {p} : d.next[q] = c.next[q]
         /\ d.prev[p] = NULL
         /\ \A q \in Pages \ {p} : d.prev[q] = IF q = c.head["partial"] THEN p ELSE c.prev[q]
<1> DEFINE e == [c EXCEPT !.head["full"] = c.next[p]]
<1>1. /\ c.head \in [Lists -> Link] /\ c.next \in [Pages -> Link] /\ c.prev \in [Pages -> Link]
      /\ c = [head |-> c.head, next |-> c.next, prev |-> c.prev]
  BY DEF ClassState
<1>2. /\ e.head = [c.head EXCEPT !["full"] = c.next[p]] /\ e.next = c.next /\ e.prev = c.prev
      /\ e = [head |-> e.head, next |-> e.next, prev |-> e.prev]
  BY <1>1
<1>3. d = PushHead(e, "partial", p)
  BY DEF Turn
<1> HIDE DEF e
<1>4. /\ e.head \in [Lists -> Link] /\ e.head["full"] = c.next[p]
      /\ e.head["partial"] = c.head["partial"] /\ e.head["empty"] = c.head["empty"]
  BY <1>1, <1>2 DEF Lists
<1>5. e \in ClassState
  BY <1>1, <1>2, <1>4 DEF ClassState
<1>6. "partial" \in Lists /\ "full" \in Lists \ {"partial"} /\ "empty" \in Lists \ {"partial"}
  BY DEF Lists
<1>7. /\ d \in ClassState
      /\ d.head["partial"] = p /\ \A m \in Lists \ {"partial"} : d.head[m] = e.head[m]
      /\ d.next[p] = e.head["partial"] /\ \A q \in Pages \ {p} : d.next[q] = e.next[q]
      /\ d.prev[p] = NULL
      /\ \A q \in Pages \ {p} : d.prev[q] = IF q = e.head["partial"] THEN p ELSE e.prev[q]
  <2>1. Pushed(e, d, "partial", p)
    BY <1>3, <1>5, <1>6, PushFields
  <2>. QED BY <2>1 DEF Pushed
<1>. QED BY <1>2, <1>4, <1>6, <1>7

(* MoveFull's recursion has a solution.                                    *)
LEMMA MoveExists ==
  ASSUME NEW c \in ClassState, NEW w \in Seq(Pages)
  PROVE  \E f : Moved(c, w, f)
<1> DEFINE V == ClassState
           N == Len(w)
           g == [a \in (1..N) \X V |-> Turn(a[2], w[a[1]])]
<1>1. N \in Nat /\ \A k \in 1..N : w[k] \in Pages
  OBVIOUS
<1>2. ASSUME NEW k \in 1..N, NEW v \in V
      PROVE  g[<<k, v>>] = Turn(v, w[k]) /\ g[<<k, v>>] \in V
  <2>1. g[<<k, v>>] = Turn(v, w[k])
    <3>1. <<k, v>> \in (1..N) \X V
      OBVIOUS
    <3>. QED BY <3>1
  <2>2. Turn(v, w[k]) \in V
    BY <1>1, TurnFields, Zenon
  <2>. QED BY <2>1, <2>2
<1>3. c \in V
  OBVIOUS
<1>a. g \in [(1..N) \X V -> V]
  <2>1. ASSUME NEW a \in (1..N) \X V PROVE g[a] \in V
    <3>1. a[1] \in 1..N /\ a[2] \in V /\ a = <<a[1], a[2]>>
      OBVIOUS
    <3> HIDE DEF g, V, N
    <3>. QED BY <1>2, <3>1
  <2>2. g = [a \in (1..N) \X V |-> g[a]]
    OBVIOUS
  <2> HIDE DEF g, V, N
  <2>. QED BY <2>1, <2>2
<1> HIDE DEF g, V, N
<1>4. PICK f \in [0..N -> V] : f[0] = c /\ \A k \in 1..N : f[k] = g[<<k, f[k - 1]>>]
  <2>1. Iterable(V, c, N, g)
    BY <1>1, <1>3, <1>a, Iterates, Zenon
  <2>. QED BY <2>1, Zenon DEF Iterable
<1>5. ASSUME NEW k \in 0..N
      PROVE  f[k] = IF k = 0 THEN c ELSE Turn(f[k - 1], w[k])
  <2>1. CASE k = 0
    BY <1>4, <2>1
  <2>2. CASE k # 0
    <3>1. k \in 1..N /\ k - 1 \in 0..N
      BY <1>1, <2>2
    <3>2. f[k - 1] \in V
      BY <1>4, <3>1
    <3>3. f[k] = g[<<k, f[k - 1]>>]
      BY <1>4, <3>1
    <3>. QED BY <1>2, <2>2, <3>1, <3>2, <3>3
  <2>. QED BY <2>1, <2>2
<1>6. f = [k \in 0..N |-> f[k]]
  BY <1>4
<1>7. f = [k \in 0..N |-> IF k = 0 THEN c ELSE Turn(f[k - 1], w[k])]
  BY <1>5, <1>6
<1>. QED BY <1>7 DEF Moved, N

(* What holds after k turns: the rest of the full list is still linked     *)
(* forward (its first page keeps a stale prev until its own turn), and the *)
(* other two lists are whole.                                              *)
HalfMoved(c, w, d, k) ==
  /\ d \in ClassState
  /\ d.head["full"] = IF k = Len(w) THEN NULL ELSE w[k + 1]
  /\ \A i \in (k + 1)..Len(w) : d.next[w[i]] = IF i = Len(w) THEN NULL ELSE w[i + 1]
  /\ \E v : /\ IsList(d.head["partial"], d.next, d.prev, v)
            /\ Range(v) = OnList(c, "partial") \cup {w[i] : i \in 1..k}
  /\ \E v : /\ IsList(d.head["empty"], d.next, d.prev, v)
            /\ Range(v) = OnList(c, "empty")

(* One more turn: the page goes to the front of partial, and the rest of   *)
(* full is still linked forward.                                           *)
LEMMA MoveOne ==
  ASSUME NEW c, Chains(c), NEW w, w = Walk(c, "full"), NEW k \in Nat, k + 1 <= Len(w),
         NEW d, HalfMoved(c, w, d, k)
  PROVE  HalfMoved(c, w, Turn(d, w[k + 1]), k + 1)
<1> DEFINE p == w[k + 1]
           e == Turn(d, p)
<1>1. /\ w \in Seq(Pages) /\ OneToOne(w) /\ Len(w) \in Nat /\ Range(w) = OnList(c, "full")
      /\ k + 1 \in 1..Len(w) /\ k + 1 \in (k + 1)..Len(w)
  BY DEF Chains, IsList, Lists, OnList
<1>2. p \in Pages /\ p \in OnList(c, "full")
  BY <1>1, RangeOf
<1>3. /\ OnList(c, "full") \cap OnList(c, "partial") = {}
      /\ OnList(c, "full") \cap OnList(c, "empty") = {}
      /\ OnList(c, "partial") \cap OnList(c, "empty") = {}
  BY DEF Chains, Lists
<1>4. d \in ClassState
  BY DEF HalfMoved
<1>5. /\ e \in ClassState
      /\ e.head["partial"] = p /\ e.head["full"] = d.next[p] /\ e.head["empty"] = d.head["empty"]
      /\ e.next[p] = d.head["partial"] /\ \A q \in Pages \ {p} : e.next[q] = d.next[q]
      /\ e.prev[p] = NULL
      /\ \A q \in Pages \ {p} : e.prev[q] = IF q = d.head["partial"] THEN p ELSE d.prev[q]
  <2>1. d \in ClassState /\ p \in Pages /\ e = Turn(d, p)
    BY <1>2, <1>4, Zenon
  <2> HIDE DEF p, e
  <2>. QED BY <2>1, TurnFields
<1>6. \A i \in 1..Len(w) : w[i] \in Pages /\ (i # k + 1 => w[i] # p) /\ w[i] \in OnList(c, "full")
  BY <1>1, RangeOf DEF OneToOne
<1>7. d.next[p] = IF k + 1 = Len(w) THEN NULL ELSE w[k + 1 + 1]
  BY <1>1 DEF HalfMoved
<1> HIDE DEF e, p
<1>8. e.head["full"] = IF k + 1 = Len(w) THEN NULL ELSE w[k + 1 + 1]
  BY <1>5, <1>7
<1>9. ASSUME NEW i \in (k + 1 + 1)..Len(w)
      PROVE  e.next[w[i]] = IF i = Len(w) THEN NULL ELSE w[i + 1]
  <2>1. i \in 1..Len(w) /\ i # k + 1 /\ i \in (k + 1)..Len(w)
    BY <1>1
  <2>2. e.next[w[i]] = d.next[w[i]]
    BY <1>5, <1>6, <2>1
  <2>. QED BY <2>1, <2>2, Zenon DEF HalfMoved
<1>10. PICK v : /\ IsList(d.head["partial"], d.next, d.prev, v)
                /\ Range(v) = OnList(c, "partial") \cup {w[i] : i \in 1..k}
  BY DEF HalfMoved
<1>11. p \notin Range(v) /\ Range(v) \cap OnList(c, "empty") = {}
  <2>1. \A i \in 1..k : i \in 1..Len(w) /\ i # k + 1
    BY <1>1
  <2>2. p \notin {w[i] : i \in 1..k} /\ {w[i] : i \in 1..k} \subseteq OnList(c, "full")
    BY <1>6, <2>1
  <2>. QED BY <1>2, <1>3, <1>10, <2>2
<1>12. d.head["partial"] # NULL => d.head["partial"] \in Range(v) /\ d.head["partial"] \in Pages
  BY <1>10, ListHead, Zenon
<1>13. \E u : /\ IsList(e.head["partial"], e.next, e.prev, u)
              /\ Range(u) = OnList(c, "partial") \cup {w[i] : i \in 1..(k + 1)}
  <2>1. d.head["partial"] # NULL => e.prev[d.head["partial"]] = p
    BY <1>5, <1>11, <1>12
  <2>2. \A q \in Pages \ {p, d.head["partial"]} : e.prev[q] = d.prev[q]
    BY <1>5
  <2> DEFINE u == <<p>> \o v
  <2>3. IsList(p, e.next, e.prev, u) /\ Range(u) = Range(v) \cup {p}
    <3> DEFINE h == d.head["partial"]
               nx == d.next
               pv == d.prev
               ny == e.next
               qv == e.prev
    <3>1. /\ IsList(h, nx, pv, v) /\ p \in Pages /\ p \notin Range(v)
          /\ ny[p] = h /\ \A q \in Pages \ {p} : ny[q] = nx[q]
          /\ qv[p] = NULL /\ (h # NULL => qv[h] = p)
          /\ \A q \in Pages \ {p, h} : qv[q] = pv[q]
      BY <1>2, <1>5, <1>10, <1>11, <2>1, <2>2, Zenon
    <3> HIDE DEF h, nx, pv, ny, qv
    <3>2. IsList(p, ny, qv, u) /\ Range(u) = Range(v) \cup {p}
      BY <3>1, PushList
    <3>. QED BY <3>2, Zenon DEF ny, qv
  <2> HIDE DEF u
  <2>4. {w[i] : i \in 1..(k + 1)} = {w[i] : i \in 1..k} \cup {p}
    <3>1. 1..(k + 1) = (1..k) \cup {k + 1}
      OBVIOUS
    <3>. QED BY <3>1 DEF p
  <2>5. Range(u) = OnList(c, "partial") \cup {w[i] : i \in 1..(k + 1)}
    BY <1>10, <2>3, <2>4, Zenon
  <2>. QED BY <1>5, <2>3, <2>5, Zenon
<1>14. \E u : IsList(e.head["empty"], e.next, e.prev, u) /\ Range(u) = OnList(c, "empty")
  <2>1. PICK u : IsList(d.head["empty"], d.next, d.prev, u) /\ Range(u) = OnList(c, "empty")
    BY DEF HalfMoved
  <2>2. Range(u) \subseteq Pages
    BY <2>1, RangeOf, Zenon DEF IsList
  <2>3. p \notin Range(u) /\ d.head["partial"] \notin Range(u)
    BY <1>2, <1>3, <1>11, <1>12, <2>1, <2>2, SlabPagesAssumption, Zenon
  <2>4. \A q \in Range(u) : e.next[q] = d.next[q] /\ e.prev[q] = d.prev[q]
    BY <1>5, <2>2, <2>3, Zenon
  <2>5. IsList(d.head["empty"], e.next, e.prev, u)
    <3> DEFINE h == d.head["empty"]
               nx == d.next
               pv == d.prev
               ny == e.next
               qv == e.prev
    <3>1. IsList(h, nx, pv, u) /\ \A q \in Range(u) : ny[q] = nx[q] /\ qv[q] = pv[q]
      BY <2>1, <2>4, Zenon
    <3> HIDE DEF h, nx, pv, ny, qv
    <3>2. IsList(h, ny, qv, u)
      BY <3>1, ListElsewhere
    <3>. QED BY <3>2, Zenon DEF h, ny, qv
  <2>. QED BY <1>5, <2>1, <2>5
<1>15. HalfMoved(c, w, e, k + 1)
  BY <1>5, <1>8, <1>9, <1>13, <1>14, Zenon DEF HalfMoved
<1>. QED BY <1>15 DEF e, p

(* The loop of mp_reset moves every full page to partial and leaves full   *)
(* empty, although it does not unlink the pages it moves.                  *)
LEMMA FullMoved ==
  ASSUME NEW c, Chains(c)
  PROVE  LET d == MoveFull(c) IN
         /\ Chains(d)
         /\ OnList(d, "full") = {} /\ OnList(d, "empty") = OnList(c, "empty")
         /\ OnList(d, "partial") = OnList(c, "partial") \cup OnList(c, "full")
<1> DEFINE w == Walk(c, "full")
           f == CHOOSE h : Moved(c, w, h)
           T == {k \in Nat : k <= Len(w) => HalfMoved(c, w, f[k], k)}
           X == [m \in Lists |-> CASE m = "full" -> {}
                                   [] m = "partial" -> OnList(c, "partial") \cup OnList(c, "full")
                                   [] OTHER -> OnList(c, "empty")]
<1>1. MoveFull(c) = f[Len(w)]
  BY DEF MoveFull, Moved, Turn
<1>l. "full" \in Lists /\ "partial" \in Lists /\ "empty" \in Lists
  BY DEF Lists
<1>2. /\ c \in ClassState /\ w \in Seq(Pages) /\ OneToOne(w) /\ Len(w) \in Nat
      /\ OnList(c, "full") = Range(w) /\ IsList(c.head["full"], c.next, c.prev, w)
  <2>1. c \in ClassState /\ IsList(c.head["full"], c.next, c.prev, w)
    BY <1>l, Zenon DEF Chains
  <2>2. OnList(c, "full") = Range(w)
    BY Zenon DEF OnList
  <2> HIDE DEF w
  <2>3. w \in Seq(Pages) /\ OneToOne(w)
    BY <2>1, Zenon DEF IsList
  <2>4. Len(w) \in Nat
    BY <2>3
  <2>. QED BY <2>1, <2>2, <2>3, <2>4, Zenon
<1>w. w = Walk(c, "full")
  OBVIOUS
<1> HIDE DEF w
<1>3. Moved(c, w, f)
  BY <1>2, MoveExists, Zenon
<1> HIDE DEF f
<1>4. f[0] = c /\ \A k \in 1..Len(w) : f[k] = Turn(f[k - 1], w[k])
  <2>1. \A k \in 0..Len(w) : f[k] = IF k = 0 THEN c ELSE Turn(f[k - 1], w[k])
    BY <1>3, Zenon DEF Moved
  <2>2. Len(w) \in Nat
    BY <1>2, Zenon
  <2>3. 0 \in 0..Len(w) /\ \A k \in 1..Len(w) : k \in 0..Len(w) /\ k # 0
    BY <2>2
  <2>. QED BY <2>1, <2>3, Zenon
<1>5. 0 \in T
  <2>1. HalfMoved(c, w, c, 0)
    <3>1. c.head["full"] = IF 0 = Len(w) THEN NULL ELSE w[0 + 1]
      BY <1>2 DEF IsList
    <3>2. \A i \in (0 + 1)..Len(w) : c.next[w[i]] = IF i = Len(w) THEN NULL ELSE w[i + 1]
      BY <1>2 DEF IsList
    <3>3. /\ IsList(c.head["partial"], c.next, c.prev, Walk(c, "partial"))
          /\ Range(Walk(c, "partial")) = OnList(c, "partial")
          /\ IsList(c.head["empty"], c.next, c.prev, Walk(c, "empty"))
          /\ Range(Walk(c, "empty")) = OnList(c, "empty")
      BY <1>l, Zenon DEF Chains, OnList
    <3>4. {w[i] : i \in 1..0} = {}
      OBVIOUS
    <3>. QED BY <1>2, <3>1, <3>2, <3>3, <3>4, Zenon DEF HalfMoved
  <2>. QED BY <1>4, <2>1
<1>6. ASSUME NEW k \in Nat, k \in T PROVE k + 1 \in T
  <2>1. SUFFICES ASSUME k + 1 <= Len(w) PROVE HalfMoved(c, w, f[k + 1], k + 1)
    OBVIOUS
  <2>2. HalfMoved(c, w, f[k], k)
    BY <1>2, <1>6, <2>1
  <2>3. k + 1 \in 1..Len(w) /\ k + 1 - 1 = k
    BY <1>2, <2>1
  <2>4. f[k + 1] = Turn(f[k], w[k + 1])
    BY <1>4, <2>3
  <2>. QED BY <1>w, <2>1, <2>2, <2>4, MoveOne
<1>7. \A k \in Nat : k \in T
  <2> HIDE DEF T
  <2>. QED BY <1>5, <1>6, SetInduction
<1>8. HalfMoved(c, w, f[Len(w)], Len(w))
  <2>1. Len(w) \in T
    <3> HIDE DEF T
    <3>. QED BY <1>2, <1>7
  <2>. QED BY <1>2, <2>1
<1> DEFINE d == f[Len(w)]
<1>9. /\ d \in ClassState /\ d.head["full"] = NULL
      /\ \E v : /\ IsList(d.head["partial"], d.next, d.prev, v)
                /\ Range(v) = OnList(c, "partial") \cup {w[i] : i \in 1..Len(w)}
      /\ \E v : /\ IsList(d.head["empty"], d.next, d.prev, v)
                /\ Range(v) = OnList(c, "empty")
  BY <1>8, Zenon DEF HalfMoved
<1>10. {w[i] : i \in 1..Len(w)} = OnList(c, "full")
  BY <1>2, RangeOf
<1>11. /\ X["full"] = {} /\ X["empty"] = OnList(c, "empty")
       /\ X["partial"] = OnList(c, "partial") \cup OnList(c, "full")
  BY <1>l
<1> HIDE DEF d, X
<1>12. ASSUME NEW m \in Lists
       PROVE  \E v : IsList(d.head[m], d.next, d.prev, v) /\ Range(v) = X[m]
  <2>1. CASE m = "full"
    BY <1>9, <1>11, <2>1, EmptyList, Zenon
  <2>2. CASE m = "partial"
    BY <1>9, <1>10, <1>11, <2>2, Zenon
  <2>3. CASE m = "empty"
    BY <1>9, <1>11, <2>3
  <2>. QED BY <2>1, <2>2, <2>3 DEF Lists
<1>13. \A k, m \in Lists : k # m => X[k] \cap X[m] = {}
  BY <1>11 DEF Chains, Lists
<1>14. Chains(d) /\ \A m \in Lists : OnList(d, m) = X[m]
  BY <1>9, <1>12, <1>13, ChainsFrom, Zenon
<1>15. d = MoveFull(c)
  BY <1>1 DEF d
<1>. QED BY <1>l, <1>11, <1>14, <1>15, Zenon
=============================================================================
