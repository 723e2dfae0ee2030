------------------------- MODULE PercpuStackProofs -------------------------
(***************************************************************************)
(* The shape of the per-CPU stack, for any number of threads and slots.    *)
(* The first part is about linked lists: From, the walk the model makes    *)
(* over the links, returns w exactly when w is the list (IsList), and what *)
(* taking the first slot off or prepending a chain does to it.  The second *)
(* follows each atomic step through the stack and the places a slot can be *)
(* (the ...Shape lemmas).  PercpuFreelistProofs builds its theorems on it. *)
(***************************************************************************)
EXTENDS PercpuFreelist, FiniteSetTheorems, WellFoundedInduction, TLAPS

(* Induction over the naturals for a set instead of a predicate: a set     *)
(* that holds 0 and the successor of each of its members holds every       *)
(* natural number.                                                         *)
LEMMA SetInduction ==
  ASSUME NEW S, 0 \in S, \A n \in Nat : n \in S => n + 1 \in S
  PROVE  \A n \in Nat : n \in S
<1> DEFINE T == {n \in Nat : n \notin S}
           R == {ss \in Nat \X Nat : ss[1] < ss[2]}
<1>1. SUFFICES ASSUME T # {} PROVE FALSE
  OBVIOUS
<1>2. IsWellFoundedOn(R, Nat)
  BY NatLessThanWellFounded DEF OpToRel
<1>3. \E x \in T : \A y \in T : ~ (<<y, x>> \in R)
  <2> HIDE DEF R
  <2>. QED BY <1>1, <1>2, WFMin, T \subseteq Nat, Zenon
<1>4. PICK x \in T : \A y \in T : ~ (<<y, x>> \in R)
  BY <1>3
<1>5. x # 0 /\ x - 1 \in Nat
  OBVIOUS
<1>6. x - 1 \in T
  BY <1>5
<1>7. <<x-1, x>> \in R
  BY <1>5
<1>. QED BY <1>4, <1>6, <1>7

(* No slot is in the sequence twice.                                       *)
OneToOne(w) == \A i, j \in 1..Len(w) : w[i] = w[j] => i = j

(* The slots of w, in order, are what a walk from h along the links nx     *)
(* meets before NULL.                                                      *)
IsList(nx, h, w) ==
  /\ w \in Seq(Slots) /\ OneToOne(w)
  /\ h = IF Len(w) = 0 THEN NULL ELSE w[1]
  /\ \A i \in 1..Len(w) : nx[w[i]] = IF i = Len(w) THEN NULL ELSE w[i + 1]

(* The members of a sequence are its elements.                             *)
LEMMA MembersOf ==
  ASSUME NEW w \in Seq(Slots)
  PROVE  /\ Members(w) \subseteq Slots
         /\ \A x : x \in Members(w) <=> \E i \in 1..Len(w) : x = w[i]
         /\ \A i \in 1..Len(w) : w[i] \in Members(w) /\ w[i] \in Slots
<1>1. DOMAIN w = 1..Len(w) /\ \A i \in 1..Len(w) : w[i] \in Slots
  OBVIOUS
<1>. QED BY <1>1 DEF Members

(* One entry of a sequence of slots.                                       *)
LEMMA MemberAt ==
  ASSUME NEW w \in Seq(Slots), NEW i \in 1..Len(w)
  PROVE  w[i] \in Members(w) /\ w[i] \in Slots
BY MembersOf

(* A sequence without repetitions is as long as its set of members is      *)
(* large, so no stack is longer than the number of slots.                  *)
LEMMA LengthIsSize ==
  ASSUME NEW w \in Seq(Slots), OneToOne(w)
  PROVE  Len(w) = Cardinality(Members(w)) /\ Len(w) <= Cardinality(Slots)
<1>1. w \in [1..Len(w) -> Members(w)] /\ Len(w) \in Nat
  BY MembersOf
<1>2. w \in Bijection(1..Len(w), Members(w))
  <2>1. w \in Injection(1..Len(w), Members(w))
    BY <1>1 DEF OneToOne, Injection, IsInjective
  <2>2. w \in Surjection(1..Len(w), Members(w))
    BY <1>1, MembersOf DEF Surjection
  <2>. QED BY <2>1, <2>2 DEF Bijection
<1>3. Cardinality(Members(w)) = Len(w)
  BY <1>1, <1>2, FS_CountingElements DEF ExistsBijection
<1>4. IsFiniteSet(Slots) /\ Members(w) \subseteq Slots
  BY PercpuAssumption, MembersOf
<1>. QED BY <1>3, <1>4, FS_Subset

(* f is the walk of From: entry k is reached by k - 1 links from s.        *)
Follows(nx, s, N, f) ==
  f = [k \in 1..N |-> IF k = 1 THEN s
                      ELSE IF f[k - 1] \in Slots THEN nx[f[k - 1]] ELSE NULL]

(* There is one walk, by induction on its length.                          *)
LEMMA FollowsUnique ==
  ASSUME NEW nx, NEW s, NEW N \in Nat, NEW f, NEW g, Follows(nx, s, N, f), Follows(nx, s, N, g)
  PROVE  f = g
<1> DEFINE Onward(x) == IF x \in Slots THEN nx[x] ELSE NULL
           S == {n \in Nat : n + 1 <= N => f[n + 1] = g[n + 1]}
<1>1. /\ f = [k \in 1..N |-> IF k = 1 THEN s ELSE Onward(f[k - 1])]
      /\ g = [k \in 1..N |-> IF k = 1 THEN s ELSE Onward(g[k - 1])]
  BY DEF Follows
<1> HIDE DEF Onward
<1>2. \A k \in 1..N : /\ f[k] = IF k = 1 THEN s ELSE Onward(f[k - 1])
                      /\ g[k] = IF k = 1 THEN s ELSE Onward(g[k - 1])
  BY <1>1
<1>3. 0 \in S
  BY <1>2
<1>4. ASSUME NEW n \in Nat, n \in S PROVE n + 1 \in S
  <2>1. SUFFICES ASSUME n + 1 + 1 <= N PROVE f[n + 1 + 1] = g[n + 1 + 1]
    OBVIOUS
  <2>2. f[n + 1] = g[n + 1] /\ n + 1 + 1 \in 1..N /\ n + 1 + 1 # 1 /\ n + 1 + 1 - 1 = n + 1
    BY <1>4, <2>1
  <2>. QED BY <1>2, <2>2
<1>5. \A n \in Nat : n \in S
  <2> HIDE DEF S
  <2>. QED BY <1>3, <1>4, SetInduction
<1>6. \A k \in 1..N : f[k] = g[k]
  <2> SUFFICES ASSUME NEW k \in 1..N PROVE f[k] = g[k]
    OBVIOUS
  <2>1. k - 1 \in Nat /\ k - 1 + 1 = k /\ k <= N
    OBVIOUS
  <2>2. k - 1 \in S
    BY <1>5, <2>1
  <2>. QED BY <2>1, <2>2
<1>7. DOMAIN f = 1..N /\ DOMAIN g = 1..N /\ f = [k \in DOMAIN f |-> f[k]] /\ g = [k \in DOMAIN g |-> g[k]]
  BY <1>1
<1>. QED BY <1>6, <1>7

(* From, which counts the slots the walk of percpu_flush meets, returns    *)
(* exactly the list.                                                       *)
LEMMA FromIs ==
  ASSUME NEW nx, NEW h, NEW w, IsList(nx, h, w)
  PROVE  From(nx, h) = w
<1> DEFINE N == Cardinality(Slots) + 1
           at == CHOOSE f : Follows(nx, h, N, f)
           g == [k \in 1..N |-> IF k <= Len(w) THEN w[k] ELSE NULL]
<1>0. /\ w \in Seq(Slots) /\ OneToOne(w) /\ Len(w) \in Nat /\ Cardinality(Slots) \in Nat
      /\ Len(w) + 1 <= N /\ N \in Nat
  BY LengthIsSize, FS_CardinalityType, PercpuAssumption DEF IsList
<1> HIDE DEF N
<1>1. Follows(nx, h, N, g)
  <2>1. \A k \in 1..N : g[k] = IF k <= Len(w) THEN w[k] ELSE NULL
    OBVIOUS
  <2>2. g = [k \in 1..N |-> g[k]]
    OBVIOUS
  <2> HIDE DEF g
  <2>3. ASSUME NEW k \in 1..N
        PROVE  g[k] = IF k = 1 THEN h ELSE IF g[k - 1] \in Slots THEN nx[g[k - 1]] ELSE NULL
    <3>1. CASE k = 1
      BY <1>0, <2>1, <3>1 DEF IsList
    <3>2. CASE k # 1 /\ k - 1 <= Len(w)
      <4>1. k - 1 \in 1..Len(w) /\ k - 1 \in 1..N /\ k - 1 + 1 = k
        BY <1>0, <3>2
      <4>2. g[k - 1] = w[k - 1] /\ w[k - 1] \in Slots
        BY <1>0, <2>1, <4>1
      <4>3. nx[w[k - 1]] = IF k - 1 = Len(w) THEN NULL ELSE w[k]
        BY <4>1 DEF IsList
      <4>4. g[k] = IF k - 1 = Len(w) THEN NULL ELSE w[k]
        BY <1>0, <2>1, <3>2
      <4>. QED BY <3>2, <4>2, <4>3, <4>4
    <3>3. CASE k # 1 /\ ~(k - 1 <= Len(w))
      <4>1. g[k - 1] = NULL /\ g[k] = NULL
        BY <1>0, <2>1, <3>3
      <4>. QED BY <3>3, <4>1, PercpuAssumption
    <3>. QED BY <3>1, <3>2, <3>3
  <2>. QED BY <2>2, <2>3 DEF Follows
<1>2. at = g
  <2> HIDE DEF g
  <2>1. Follows(nx, h, N, at)
    BY <1>1
  <2> HIDE DEF at
  <2>. QED BY <1>0, <1>1, <2>1, FollowsUnique
<1>3. From(nx, h) = [k \in 1..Cardinality({k \in 1..N : at[k] # NULL}) |-> at[k]]
  BY DEF From, Follows, N
<1> HIDE DEF at
<1>4. {k \in 1..N : at[k] # NULL} = 1..Len(w)
  BY <1>0, <1>2, PercpuAssumption
<1>5. Cardinality(1..Len(w)) = Len(w)
  <2>1. \A b \in Int : Cardinality(1..b) = IF 1 > b THEN 0 ELSE b - 1 + 1
    BY FS_Interval
  <2>. QED BY <1>0, <2>1
<1>6. \A k \in 1..Len(w) : at[k] = w[k]
  BY <1>0, <1>2
<1>7. w = [k \in 1..Len(w) |-> w[k]]
  BY <1>0
<1>8. From(nx, h) = [k \in 1..Len(w) |-> at[k]]
  BY <1>3, <1>4, <1>5, Zenon
<1>. QED BY <1>6, <1>7, <1>8

(* A list is not affected by writes to the links of other slots.           *)
LEMMA ListElsewhere ==
  ASSUME NEW nx, NEW ny, NEW h, NEW w, IsList(nx, h, w), \A s \in Members(w) : ny[s] = nx[s]
  PROVE  IsList(ny, h, w) /\ From(ny, h) = w
<1>1. w \in Seq(Slots) /\ \A i \in 1..Len(w) : w[i] \in Members(w)
  BY MembersOf DEF IsList
<1>2. \A i \in 1..Len(w) : ny[w[i]] = nx[w[i]]
  BY <1>1
<1>3. IsList(ny, h, w)
  BY <1>2 DEF IsList
<1>. QED BY <1>3, FromIs

(* The list that starts at NULL is empty.                                  *)
LEMMA EmptyList ==
  ASSUME NEW nx
  PROVE  IsList(nx, NULL, <<>>) /\ From(nx, NULL) = <<>> /\ Members(<<>>) = {}
<1>1. IsList(nx, NULL, <<>>)
  BY DEF IsList, OneToOne
<1>2. Members(<<>>) = {}
  BY DEF Members
<1>. QED BY <1>1, <1>2, FromIs

(* A list is empty when its head is NULL, and else starts with its head.   *)
LEMMA NullIsEmpty ==
  ASSUME NEW nx, NEW h, NEW w, IsList(nx, h, w)
  PROVE  /\ h = NULL => w = <<>> /\ Members(w) = {}
         /\ h # NULL => Len(w) > 0 /\ w[1] = h /\ h \in Slots /\ h \in Members(w)
<1>1. w \in Seq(Slots) /\ h = IF Len(w) = 0 THEN NULL ELSE w[1]
  BY DEF IsList
<1>2. Len(w) \in Nat /\ (Len(w) > 0 => w[1] \in Slots)
  BY <1>1
<1>3. h = NULL => Len(w) = 0
  BY <1>1, <1>2, PercpuAssumption
<1>4. Len(w) = 0 => w = <<>>
  BY <1>1
<1>5. Len(w) > 0 => w[1] \in Members(w)
  BY <1>1, <1>2, MembersOf
<1>. QED BY <1>1, <1>2, <1>3, <1>4, <1>5, EmptyList

(* Following the first link gives the list without its first slot (the     *)
(* compare-and-swap of percpu_pop, the loop of percpu_flush).              *)
LEMMA DropFirst ==
  ASSUME NEW nx, NEW h, NEW w, IsList(nx, h, w), h # NULL
  PROVE  /\ IsList(nx, nx[h], Tail(w))
         /\ Len(Tail(w)) = Len(w) - 1
         /\ Members(w) = Members(Tail(w)) \cup {h} /\ h \notin Members(Tail(w))
         /\ h \in Slots
<1>1. /\ w \in Seq(Slots) /\ Len(w) \in Nat /\ Len(w) > 0 /\ w[1] = h /\ h \in Slots
      /\ OneToOne(w)
      /\ \A i \in 1..Len(w) : nx[w[i]] = IF i = Len(w) THEN NULL ELSE w[i + 1]
  BY NullIsEmpty DEF IsList
<1>2. /\ Tail(w) \in Seq(Slots) /\ Len(Tail(w)) = Len(w) - 1
      /\ \A i \in 1..(Len(w) - 1) : Tail(w)[i] = w[i + 1]
  BY <1>1
<1> DEFINE v == Tail(w)
<1> HIDE DEF v
<1>3. v \in Seq(Slots) /\ Len(v) = Len(w) - 1 /\ \A i \in 1..(Len(w) - 1) : v[i] = w[i + 1]
  BY <1>2 DEF v
<1>4. OneToOne(v)
  <2> SUFFICES ASSUME NEW i \in 1..Len(v), NEW j \in 1..Len(v), v[i] = v[j] PROVE i = j
    BY DEF OneToOne
  <2>1. w[i + 1] = w[j + 1] /\ i + 1 \in 1..Len(w) /\ j + 1 \in 1..Len(w)
    BY <1>1, <1>3
  <2>2. i + 1 = j + 1
    BY <1>1, <2>1 DEF OneToOne
  <2>. QED BY <1>1, <1>3, <2>2
<1>5. nx[h] = IF Len(v) = 0 THEN NULL ELSE v[1]
  <2>0. 1 \in 1..Len(w)
    BY <1>1
  <2>1. nx[w[1]] = IF 1 = Len(w) THEN NULL ELSE w[1 + 1]
    BY <1>1, <2>0, Zenon
  <2>. QED BY <1>1, <1>3, <2>1
<1>6. \A i \in 1..Len(v) : nx[v[i]] = IF i = Len(v) THEN NULL ELSE v[i + 1]
  <2> SUFFICES ASSUME NEW i \in 1..Len(v)
               PROVE  nx[v[i]] = IF i = Len(v) THEN NULL ELSE v[i + 1]
    OBVIOUS
  <2>1. i + 1 \in 1..Len(w) /\ v[i] = w[i + 1] /\ (i = Len(v) <=> i + 1 = Len(w))
    BY <1>1, <1>3
  <2>2. nx[w[i + 1]] = IF i + 1 = Len(w) THEN NULL ELSE w[i + 1 + 1]
    BY <1>1, <2>1
  <2>3. i # Len(v) => v[i + 1] = w[i + 1 + 1]
    BY <1>1, <1>3
  <2>. QED BY <2>1, <2>2, <2>3
<1>7. IsList(nx, nx[h], v)
  BY <1>3, <1>4, <1>5, <1>6 DEF IsList
<1>8. h \notin Members(v)
  <2> SUFFICES ASSUME h \in Members(v) PROVE FALSE
    OBVIOUS
  <2>1. PICK i \in 1..Len(v) : h = v[i]
    BY <1>3, MembersOf
  <2>2. i + 1 \in 1..Len(w) /\ 1 \in 1..Len(w) /\ w[i + 1] = w[1]
    BY <1>1, <1>3, <2>1
  <2>3. i + 1 = 1
    BY <1>1, <2>2 DEF OneToOne
  <2>. QED BY <1>1, <1>3, <2>3
<1>9. Members(w) = Members(v) \cup {h}
  <2>1. ASSUME NEW x \in Members(w) PROVE x \in Members(v) \cup {h}
    <3>1. PICK i \in 1..Len(w) : x = w[i]
      BY <1>1, MembersOf
    <3>2. CASE i = 1
      BY <1>1, <3>1, <3>2
    <3>3. CASE i # 1
      <4>1. i - 1 \in 1..Len(v) /\ x = v[i - 1]
        BY <1>1, <1>3, <3>1, <3>3
      <4>. QED BY <1>3, <4>1, MembersOf
    <3>. QED BY <3>2, <3>3
  <2>2. ASSUME NEW x \in Members(v) PROVE x \in Members(w)
    <3>1. PICK i \in 1..Len(v) : x = v[i]
      BY <1>3, MembersOf
    <3>2. i + 1 \in 1..Len(w) /\ x = w[i + 1]
      BY <1>1, <1>3, <3>1
    <3>. QED BY <1>1, <3>2, MembersOf
  <2>3. h \in Members(w)
    BY NullIsEmpty
  <2>. QED BY <2>1, <2>2, <2>3
<1>. QED BY <1>1, <1>3, <1>7, <1>8, <1>9, Zenon DEF v

(* c is a chain of distinct slots, each linked to the next, the last one   *)
(* to h.                                                                   *)
LinkedTo(nx, c, h) ==
  /\ c \in Seq(Slots) /\ Len(c) > 0 /\ OneToOne(c)
  /\ \A i \in 1..(Len(c) - 1) : nx[c[i]] = c[i + 1]
  /\ nx[c[Len(c)]] = h

(* Making the first slot of a chain the head, when the chain's last link   *)
(* is the old head, prepends the chain (the compare-and-swap of            *)
(* percpu_push and of percpu_refill).                                      *)
LEMMA Prepend ==
  ASSUME NEW nx, NEW h, NEW w, IsList(nx, h, w), NEW c, LinkedTo(nx, c, h),
         Members(c) \cap Members(w) = {}
  PROVE  /\ IsList(nx, c[1], c \o w)
         /\ Len(c \o w) = Len(c) + Len(w)
         /\ Members(c \o w) = Members(c) \cup Members(w)
<1>1. /\ w \in Seq(Slots) /\ Len(w) \in Nat /\ OneToOne(w)
      /\ h = IF Len(w) = 0 THEN NULL ELSE w[1]
      /\ \A i \in 1..Len(w) : nx[w[i]] = IF i = Len(w) THEN NULL ELSE w[i + 1]
  BY DEF IsList
<1>2. /\ c \in Seq(Slots) /\ Len(c) \in Nat /\ Len(c) > 0 /\ OneToOne(c)
      /\ \A i \in 1..(Len(c) - 1) : nx[c[i]] = c[i + 1]
      /\ nx[c[Len(c)]] = h
  BY DEF LinkedTo
<1> DEFINE v == c \o w
<1>3. /\ v \in Seq(Slots) /\ Len(v) = Len(c) + Len(w)
      /\ \A i \in 1..Len(v) : v[i] = IF i <= Len(c) THEN c[i] ELSE w[i - Len(c)]
  BY <1>1, <1>2
<1> HIDE DEF v
<1>a. \A i \in 1..Len(c) : v[i] = c[i] /\ i \in 1..Len(v)
  BY <1>1, <1>2, <1>3
<1>b. \A i \in 1..Len(w) : v[Len(c) + i] = w[i] /\ Len(c) + i \in 1..Len(v)
  <2> SUFFICES ASSUME NEW i \in 1..Len(w)
               PROVE  v[Len(c) + i] = w[i] /\ Len(c) + i \in 1..Len(v)
    OBVIOUS
  <2>1. Len(c) + i \in 1..Len(v) /\ ~(Len(c) + i <= Len(c)) /\ Len(c) + i - Len(c) = i
    BY <1>1, <1>2, <1>3
  <2>. QED BY <1>3, <2>1
<1>c. ASSUME NEW i \in 1..Len(v), ~(i \in 1..Len(c))
      PROVE  i - Len(c) \in 1..Len(w) /\ v[i] = w[i - Len(c)]
  BY <1>1, <1>2, <1>3, <1>c
<1>4. OneToOne(v)
  <2> SUFFICES ASSUME NEW i \in 1..Len(v), NEW j \in 1..Len(v), v[i] = v[j] PROVE i = j
    BY DEF OneToOne
  <2>1. CASE i \in 1..Len(c) /\ j \in 1..Len(c)
    BY <1>a, <1>2, <2>1 DEF OneToOne
  <2>2. CASE i \in 1..Len(c) /\ ~(j \in 1..Len(c))
    <3>1. v[i] \in Members(c)
      BY <1>a, <1>2, <2>2, MembersOf
    <3>2. v[j] \in Members(w)
      BY <1>c, <1>1, <2>2, MembersOf, Zenon
    <3>. QED BY <3>1, <3>2
  <2>3. CASE ~(i \in 1..Len(c)) /\ j \in 1..Len(c)
    <3>1. v[j] \in Members(c)
      BY <1>a, <1>2, <2>3, MembersOf
    <3>2. v[i] \in Members(w)
      BY <1>c, <1>1, <2>3, MembersOf, Zenon
    <3>. QED BY <3>1, <3>2
  <2>4. CASE ~(i \in 1..Len(c)) /\ ~(j \in 1..Len(c))
    <3>0. /\ i - Len(c) \in 1..Len(w) /\ j - Len(c) \in 1..Len(w)
          /\ w[i - Len(c)] = w[j - Len(c)]
      BY <1>c, <2>4
    <3>1. i - Len(c) = j - Len(c)
      BY <1>1, <3>0, Zenon DEF OneToOne
    <3>. QED BY <3>1, <1>2, <1>1, <1>3
  <2>. QED BY <2>1, <2>2, <2>3, <2>4
<1>5. c[1] = IF Len(v) = 0 THEN NULL ELSE v[1]
  BY <1>1, <1>2, <1>3, <1>a
<1>6. ASSUME NEW i \in 1..Len(v) PROVE nx[v[i]] = IF i = Len(v) THEN NULL ELSE v[i + 1]
  <2>1. CASE i \in 1..(Len(c) - 1)
    <3>1. i \in 1..Len(c) /\ i + 1 \in 1..Len(c) /\ i # Len(v)
      BY <1>1, <1>2, <1>3, <2>1
    <3>. QED BY <1>2, <1>a, <2>1, <3>1
  <2>2. CASE i = Len(c)
    <3>1. nx[v[i]] = h
      BY <1>2, <1>a, <2>2
    <3>2. CASE Len(w) = 0
      BY <1>1, <1>3, <2>2, <3>1, <3>2
    <3>3. CASE Len(w) # 0
      <4>1. 1 \in 1..Len(w) /\ i # Len(v)
        BY <1>1, <1>2, <1>3, <2>2, <3>3
      <4>2. v[i + 1] = w[1]
        BY <1>b, <4>1, <2>2
      <4>. QED BY <1>1, <3>1, <3>3, <4>1, <4>2
    <3>. QED BY <3>2, <3>3
  <2>3. CASE ~(i \in 1..Len(c))
    <3> DEFINE k == i - Len(c)
    <3>1. k \in 1..Len(w) /\ v[i] = w[k]
      BY <1>c, <2>3
    <3>2. i = Len(v) <=> k = Len(w)
      BY <1>1, <1>2, <1>3
    <3>3. k # Len(w) => k + 1 \in 1..Len(w)
      <4> HIDE DEF k
      <4>. QED BY <1>1, <3>1
    <3>5. Len(c) + (k + 1) = i + 1
      BY <1>1, <1>2, <1>3
    <3>4. k # Len(w) => v[i + 1] = w[k + 1]
      <4> HIDE DEF k
      <4>. QED BY <1>b, <3>3, <3>5
    <3> HIDE DEF k
    <3>. QED BY <1>1, <3>1, <3>2, <3>4
  <2>. QED BY <1>1, <1>2, <1>3, <2>1, <2>2, <2>3
<1>7. IsList(nx, c[1], v)
  BY <1>3, <1>4, <1>5, <1>6 DEF IsList
<1>8. Members(v) = Members(c) \cup Members(w)
  <2>1. ASSUME NEW x \in Members(v) PROVE x \in Members(c) \cup Members(w)
    <3>1. PICK i \in 1..Len(v) : x = v[i]
      BY <1>3, MembersOf
    <3>2. CASE i \in 1..Len(c)
      BY <1>a, <1>2, <3>1, <3>2, MembersOf
    <3>3. CASE ~(i \in 1..Len(c))
      BY <1>c, <1>1, <3>1, <3>3, MembersOf, Zenon
    <3>. QED BY <3>2, <3>3
  <2>2. ASSUME NEW x \in Members(c) PROVE x \in Members(v)
    <3>1. PICK i \in 1..Len(c) : x = c[i]
      BY <1>2, MembersOf
    <3>2. i \in 1..Len(v) /\ x = v[i]
      BY <1>a, <3>1
    <3>. QED BY <1>3, <3>2, MemberAt
  <2>3. ASSUME NEW x \in Members(w) PROVE x \in Members(v)
    <3>1. PICK i \in 1..Len(w) : x = w[i]
      BY <1>1, MembersOf
    <3>2. Len(c) + i \in 1..Len(v) /\ x = v[Len(c) + i]
      BY <1>b, <3>1
    <3>. QED BY <1>3, <3>2, MembersOf, Zenon
  <2>. QED BY <2>1, <2>2, <2>3
<1>. QED BY <1>3, <1>7, <1>8 DEF v

(* The slots on the entry's stack, from the head down.                     *)
Stack == From(next, head)

(* Where a thread holds a chain that is not on the stack yet, and where a  *)
(* flush holds the list it took.                                           *)
Chained == {"push", "push_cas", "refill_load", "refill_cas"}

Flushing == {"flush_count", "flush"}

(* The kinds of the variables the stack depends on.                        *)
Typed ==
  /\ head \in Slots \cup {NULL}
  /\ next \in [Slots -> Slots \cup {NULL, Header}]
  /\ pages \subseteq Slots /\ live \subseteq Slots
  /\ pc = [t \in Threads |-> pc[t]]
  /\ seen \in [Threads -> Slots \cup {NULL}]
  /\ chain \in [Threads -> Seq(Slots)]

(* What a thread in the middle of an operation knows: its chain is         *)
(* linked, before its compare-and-swap the last link is the head it        *)
(* loaded, and what a flush took is a list.                                *)
Local(t) ==
  /\ Len(chain[t]) <= MaxBatch
  /\ pc[t] \in Chained =>
       /\ Len(chain[t]) > 0 /\ OneToOne(chain[t])
       /\ \A i \in 1..(Len(chain[t]) - 1) : next[chain[t][i]] = chain[t][i + 1]
  /\ pc[t] \in {"push", "push_cas"} => Len(chain[t]) = 1
  /\ pc[t] \in {"push_cas", "refill_cas"} => next[chain[t][Len(chain[t])]] = seen[t]
  /\ pc[t] \in {"pop_next", "pop_cas"} => seen[t] \in Slots
  /\ pc[t] \in Flushing => IsList(next, seen[t], From(next, seen[t]))

(* Mine as a function, so that it can be a parameter.                      *)
Mines == [t \in Threads |-> Mine(t)]

(* Each slot is in one place: on the stack (S), on a page (P), with a      *)
(* caller (L), or with one thread (M).                                     *)
Parts(S, P, L, M) ==
  /\ S \cup P \cup L \cup UNION {M[t] : t \in Threads} = Slots
  /\ S \cap (P \cup L) = {} /\ P \cap L = {}
  /\ \A t \in Threads :
       /\ M[t] \cap (S \cup P \cup L) = {}
       /\ \A u \in Threads \ {t} : M[t] \cap M[u] = {}

(* The stack is a list, each thread's view is right, and each slot is in   *)
(* one place.                                                              *)
Shape ==
  /\ Typed
  /\ IsList(next, head, Stack)
  /\ \A t \in Threads : Local(t)
  /\ Parts(Members(Stack), pages, live, Mines)

(* Rearranging the stack, the pages, the callers' slots and what one       *)
(* thread holds keeps each slot in one place.                              *)
LEMMA PartsMove ==
  ASSUME NEW S, NEW P, NEW L, NEW M, Parts(S, P, L, M), NEW t \in Threads,
         NEW S2, NEW P2, NEW L2, NEW M2,
         \A u \in Threads \ {t} : M2[u] = M[u],
         S2 \cup P2 \cup L2 \cup M2[t] = S \cup P \cup L \cup M[t],
         S2 \cap P2 = {}, S2 \cap L2 = {}, P2 \cap L2 = {},
         M2[t] \cap (S2 \cup P2 \cup L2) = {}
  PROVE  Parts(S2, P2, L2, M2)
<1>1. ASSUME NEW u \in Threads \ {t}
      PROVE  M2[u] \cap (S2 \cup P2 \cup L2 \cup M2[t]) = {}
  <2>1. M[u] \cap (S \cup P \cup L) = {} /\ M[u] \cap M[t] = {}
    BY DEF Parts
  <2>. QED BY <2>1
<1>2. \A u \in Threads : M2[u] \cap (S2 \cup P2 \cup L2) = {}
  BY <1>1
<1>3. ASSUME NEW u \in Threads, NEW v \in Threads \ {u} PROVE M2[u] \cap M2[v] = {}
  <2>1. CASE u = t
    BY <1>1, <2>1
  <2>2. CASE v = t
    BY <1>1, <2>2
  <2>3. CASE u # t /\ v # t
    BY <2>3 DEF Parts
  <2>. QED BY <2>1, <2>2, <2>3
<1>4. S2 \cup P2 \cup L2 \cup UNION {M2[u] : u \in Threads} = Slots
  <2>1. ASSUME NEW x PROVE (x \in S2 \cup P2 \cup L2 \/ \E u \in Threads : x \in M2[u])
                       <=> (x \in S \cup P \cup L \/ \E u \in Threads : x \in M[u])
    <3>1. x \in S2 \cup P2 \cup L2 \cup M2[t] <=> x \in S \cup P \cup L \cup M[t]
      OBVIOUS
    <3>2. (\E u \in Threads : x \in M2[u]) <=> (x \in M2[t] \/ \E u \in Threads \ {t} : x \in M2[u])
      OBVIOUS
    <3>3. (\E u \in Threads : x \in M[u]) <=> (x \in M[t] \/ \E u \in Threads \ {t} : x \in M[u])
      OBVIOUS
    <3>4. (\E u \in Threads \ {t} : x \in M2[u]) <=> (\E u \in Threads \ {t} : x \in M[u])
      OBVIOUS
    <3>. QED BY <3>1, <3>2, <3>3, <3>4
  <2>2. S \cup P \cup L \cup UNION {M[u] : u \in Threads} = Slots
    BY DEF Parts
  <2>3. \A x : x \in UNION {M2[u] : u \in Threads} <=> \E u \in Threads : x \in M2[u]
    OBVIOUS
  <2>4. \A x : x \in UNION {M[u] : u \in Threads} <=> \E u \in Threads : x \in M[u]
    OBVIOUS
  <2>. QED BY <2>1, <2>2, <2>3, <2>4
<1>. QED BY <1>2, <1>3, <1>4 DEF Parts

(* What a thread holds, by where it is, before and after a step.           *)
LEMMA MineCases ==
  ASSUME NEW t \in Threads
  PROVE  /\ pc[t] \in Chained => Mine(t) = Members(chain[t])
         /\ pc[t] \in Flushing => Mine(t) = Members(From(next, seen[t]))
         /\ pc[t] \notin Chained \cup Flushing => Mine(t) = {}
         /\ pc'[t] \in Chained => Mine(t)' = Members(chain'[t])
         /\ pc'[t] \in Flushing => Mine(t)' = Members(From(next', seen'[t]))
         /\ pc'[t] \notin Chained \cup Flushing => Mine(t)' = {}
<1>1. Chained \cap Flushing = {}
  BY DEF Chained, Flushing
<1>2. /\ pc[t] \in Chained => Mine(t) = Members(chain[t])
      /\ pc[t] \in Flushing => Mine(t) = Members(From(next, seen[t]))
      /\ pc[t] \notin Chained \cup Flushing => Mine(t) = {}
  BY DEF Mine, Chained, Flushing
<1>3. /\ pc'[t] \in Chained => Mine(t)' = Members(chain'[t])
      /\ pc'[t] \in Flushing => Mine(t)' = Members(From(next', seen'[t]))
      /\ pc'[t] \notin Chained \cup Flushing => Mine(t)' = {}
  BY DEF Mine, Chained, Flushing
<1>. QED BY <1>2, <1>3

(* A step of t leaves the locals of the other threads alone.               *)
SameElsewhere(t) ==
  \A u \in Threads \ {t} : pc'[u] = pc[u] /\ seen'[u] = seen[u] /\ chain'[u] = chain[u]

(* A thread keeps what it knows and holds while another one steps and      *)
(* writes no link of a slot it holds.                                      *)
LEMMA Elsewhere ==
  ASSUME Shape, NEW t \in Threads, SameElsewhere(t), NEW u \in Threads \ {t},
         \A s \in Mine(u) : next'[s] = next[s]
  PROVE  Local(u)' /\ Mine(u)' = Mine(u)
<1>1. Local(u) /\ chain[u] \in Seq(Slots) /\ Len(chain[u]) \in Nat
  BY DEF Shape, Typed
<1>2. pc'[u] = pc[u] /\ seen'[u] = seen[u] /\ chain'[u] = chain[u]
  BY DEF SameElsewhere
<1>3. CASE pc[u] \in Chained
  <2>1. Mine(u) = Members(chain[u]) /\ Mine(u)' = Members(chain[u]) /\ pc[u] \notin Flushing
    BY <1>2, <1>3, MineCases DEF Chained, Flushing
  <2>2. \A i \in 1..Len(chain[u]) : next'[chain[u][i]] = next[chain[u][i]]
    BY <1>1, <2>1, MembersOf
  <2>3. \A i \in 1..(Len(chain[u]) - 1) : next'[chain[u][i]] = chain[u][i + 1]
    <3>1. \A i \in 1..(Len(chain[u]) - 1) : next[chain[u][i]] = chain[u][i + 1]
      BY <1>1, <1>3, Zenon DEF Local
    <3>2. \A i \in 1..(Len(chain[u]) - 1) : i \in 1..Len(chain[u])
      BY <1>1
    <3>. QED BY <2>2, <3>1, <3>2, Zenon
  <2>4. Len(chain[u]) > 0 /\ next'[chain[u][Len(chain[u])]] = next[chain[u][Len(chain[u])]]
    BY <1>1, <1>3, <2>2 DEF Local
  <2>. QED BY <1>1, <1>2, <1>3, <2>1, <2>3, <2>4, Zenon DEF Local
<1>4. CASE pc[u] \in Flushing
  <2>1. Mine(u) = Members(From(next, seen[u])) /\ Mine(u)' = Members(From(next', seen[u]))
    BY <1>2, <1>4, MineCases
  <2>2. IsList(next, seen[u], From(next, seen[u]))
    BY <1>1, <1>4, Zenon DEF Local
  <2>3. /\ IsList(next', seen[u], From(next, seen[u]))
        /\ From(next', seen[u]) = From(next, seen[u])
    BY <2>1, <2>2, ListElsewhere
  <2>4. pc[u] \notin Chained \cup {"pop_next", "pop_cas"}
    BY <1>4 DEF Chained, Flushing
  <2>5. Local(u)'
    BY <1>1, <1>2, <1>4, <2>3, <2>4, Zenon DEF Local, Chained
  <2>. QED BY <2>1, <2>3, <2>5
<1>5. CASE pc[u] \notin Chained \cup Flushing
  <2>1. Mine(u) = {} /\ Mine(u)' = {}
    BY <1>2, <1>5, MineCases
  <2>2. Local(u)'
    BY <1>1, <1>2, <1>5, Zenon DEF Local, Chained
  <2>. QED BY <2>1, <2>2
<1>. QED BY <1>3, <1>4, <1>5

(* The shape after a step of t follows from what the step does to the      *)
(* stack, the pages, the callers' slots and t: all the step may write are  *)
(* links of slots in these places.                                         *)
LEMMA Assemble ==
  ASSUME Shape, NEW t \in Threads, SameElsewhere(t), Typed', Local(t)',
         \A s \in Slots : next'[s] # next[s] => s \in Members(Stack) \cup pages \cup live \cup Mine(t),
         NEW w, IsList(next', head', w),
         Members(w) \cup pages' \cup live' \cup Mine(t)'
           = Members(Stack) \cup pages \cup live \cup Mine(t),
         Members(w) \cap pages' = {}, Members(w) \cap live' = {}, pages' \cap live' = {},
         Mine(t)' \cap (Members(w) \cup pages' \cup live') = {}
  PROVE  Shape' /\ Stack' = w
<1>1. Parts(Members(Stack), pages, live, Mines)
  BY DEF Shape
<1>2. ASSUME NEW u \in Threads \ {t} PROVE \A s \in Mine(u) : next'[s] = next[s]
  <2>1. Mines[u] = Mine(u) /\ Mines[t] = Mine(t)
    BY DEF Mines
  <2>2. /\ Mine(u) \cap (Members(Stack) \cup pages \cup live) = {}
        /\ Mine(u) \cap Mine(t) = {} /\ Mine(u) \subseteq Slots
    BY <1>1, <2>1 DEF Parts
  <2>. QED BY <2>2
<1>3. \A u \in Threads \ {t} : Local(u)' /\ Mine(u)' = Mine(u)
  BY <1>2, Elsewhere
<1>4. Stack' = w
  BY FromIs DEF Stack
<1>5. Parts(Members(w), pages', live', Mines')
  <2>1. \A u \in Threads : Mines[u] = Mine(u) /\ Mines'[u] = Mine(u)'
    BY DEF Mines
  <2>2. \A u \in Threads \ {t} : Mines'[u] = Mines[u]
    BY <1>3, <2>1
  <2>3. Members(w) \cup pages' \cup live' \cup Mines'[t]
           = Members(Stack) \cup pages \cup live \cup Mines[t]
    BY <2>1
  <2>4. Mines'[t] \cap (Members(w) \cup pages' \cup live') = {}
    BY <2>1
  <2>. QED BY <1>1, <2>2, <2>3, <2>4, PartsMove
<1>6. Parts(Members(Stack), pages, live, Mines)'
  BY <1>4, <1>5, Zenon DEF Parts
<1>7. IsList(next, head, Stack)'
  BY <1>4 DEF IsList
<1>8. \A u \in Threads : Local(u)'
  BY <1>3
<1>. QED BY <1>4, <1>6, <1>7, <1>8 DEF Shape

(* The stack, the pages, the callers and a thread hold no slot in common.  *)
LEMMA Apart ==
  ASSUME Shape, NEW t \in Threads
  PROVE  /\ Members(Stack) \cap pages = {} /\ Members(Stack) \cap live = {} /\ pages \cap live = {}
         /\ Mine(t) \cap (Members(Stack) \cup pages \cup live) = {}
         /\ Mine(t) \subseteq Slots /\ Members(Stack) \subseteq Slots
<1>1. Parts(Members(Stack), pages, live, Mines) /\ Mines[t] = Mine(t)
  BY DEF Shape, Mines
<1>. QED BY <1>1 DEF Parts

(* A step that changes only where t is keeps the shape.                    *)
LEMMA Quietly ==
  ASSUME Shape, NEW t \in Threads, SameElsewhere(t), Typed', Local(t)',
         UNCHANGED <<head, next, pages, live>>, Mine(t)' = Mine(t)
  PROVE  Shape' /\ Stack' = Stack
<1>1. IsList(next', head', Stack)
  BY Zenon DEF Shape, IsList
<1>. QED BY <1>1, Apart, Assemble

(* The chain of percpu_push is one slot.                                   *)
LEMMA LoneChain ==
  ASSUME NEW s \in Slots
  PROVE  /\ <<s>> \in Seq(Slots) /\ Len(<<s>>) = 1 /\ OneToOne(<<s>>)
         /\ Members(<<s>>) = {s} /\ <<s>>[1] = s
BY DEF OneToOne, Members

(* What percpu_push knows of its one slot, before and after it has linked  *)
(* the slot to the head it loaded.                                         *)
LEMMA LocalPush ==
  ASSUME NEW t \in Threads, Len(chain'[t]) = 1, OneToOne(chain'[t]),
         \/ pc'[t] = "push"
         \/ pc'[t] = "push_cas" /\ next'[chain'[t][1]] = seen'[t]
  PROVE  Local(t)'
<1>1. 1 <= MaxBatch /\ \A i \in 1..(1 - 1) : FALSE
  BY PercpuAssumption
<1>2. pc'[t] \notin Flushing /\ pc'[t] \notin {"pop_next", "pop_cas", "refill_cas"}
  BY DEF Flushing
<1>. QED BY <1>1, <1>2 DEF Local

(* A step of t to a label changes where t is and nobody else.              *)
LEMMA Moves ==
  ASSUME Typed, NEW t \in Threads, NEW label, Goto(t, label)
  PROVE  /\ pc' = [u \in Threads |-> pc'[u]] /\ pc'[t] = label
         /\ \A u \in Threads \ {t} : pc'[u] = pc[u]
BY Zenon DEF Typed, Goto

(* A load of the head by t changes what t has seen and nobody else.        *)
LEMMA Sees ==
  ASSUME Typed, NEW t \in Threads, NEW x \in Slots \cup {NULL}, seen' = [seen EXCEPT ![t] = x]
  PROVE  /\ seen' \in [Threads -> Slots \cup {NULL}] /\ seen'[t] = x
         /\ \A u \in Threads \ {t} : seen'[u] = seen[u]
BY DEF Typed

(* A new chain of t changes nobody else's chain.                           *)
LEMMA Holds ==
  ASSUME Typed, NEW t \in Threads, NEW q \in Seq(Slots), chain' = [chain EXCEPT ![t] = q]
  PROVE  /\ chain' \in [Threads -> Seq(Slots)] /\ chain'[t] = q
         /\ \A u \in Threads \ {t} : chain'[u] = chain[u]
BY DEF Typed

(* A write of one link leaves the other links alone.                       *)
LEMMA Links ==
  ASSUME Typed, NEW s \in Slots, NEW x \in Slots \cup {NULL, Header}, next' = [next EXCEPT ![s] = x]
  PROVE  /\ next' \in [Slots -> Slots \cup {NULL, Header}] /\ next'[s] = x
         /\ \A r \in Slots \ {s} : next'[r] = next[r]
BY DEF Typed

(* percpu_pop, from its test of the table pointer.                         *)
LEMMA PopStartShape ==
  ASSUME Shape, NEW t \in Threads, PopStart(t)
  PROVE  Shape' /\ Stack' = Stack
<1>1. Typed' /\ SameElsewhere(t) /\ UNCHANGED <<head, next, pages, live>>
  <2>1. Typed /\ Goto(t, "pop") /\ UNCHANGED <<head, next, pages, live, seen, chain>>
    BY DEF Shape, PopStart
  <2>. QED BY <2>1, Moves DEF Typed, SameElsewhere
<1>2. pc[t] = "idle" /\ pc'[t] = "pop" /\ chain' = chain
  BY DEF Shape, Typed, PopStart, Goto
<1>3. Mine(t)' = Mine(t)
  BY <1>2, MineCases DEF Chained, Flushing
<1>4. Local(t)'
  BY <1>2 DEF Shape, Local, Chained, Flushing
<1>. QED BY <1>1, <1>3, <1>4, Quietly

(* The load of the head in percpu_pop.                                     *)
LEMMA PopLoadShape ==
  ASSUME Shape, NEW t \in Threads, PopLoad(t)
  PROVE  Shape' /\ Stack' = Stack
<1>1. Typed' /\ SameElsewhere(t) /\ UNCHANGED <<head, next, pages, live>>
  <2>1. /\ Typed /\ Goto(t, IF head = NULL THEN "refill" ELSE "pop_next")
        /\ seen' = [seen EXCEPT ![t] = head] /\ UNCHANGED <<head, next, pages, live, chain>>
    BY DEF Shape, PopLoad
  <2>2. head \in Slots \cup {NULL}
    BY <2>1 DEF Typed
  <2>. QED BY <2>1, <2>2, Moves, Sees, Zenon DEF Typed, SameElsewhere
<1>2. /\ pc[t] = "pop" /\ pc'[t] = (IF head = NULL THEN "refill" ELSE "pop_next")
      /\ chain' = chain /\ seen'[t] = head /\ head \in Slots \cup {NULL}
  BY DEF Shape, Typed, PopLoad, Goto
<1>3. Mine(t)' = Mine(t)
  BY <1>2, MineCases, Zenon DEF Chained, Flushing
<1>4. Local(t)'
  BY <1>2, Zenon DEF Shape, Local, Chained, Flushing
<1>. QED BY <1>1, <1>3, <1>4, Quietly

(* The read of slot->next in percpu_pop.                                   *)
LEMMA PopNextShape ==
  ASSUME Shape, NEW t \in Threads, PopNext(t)
  PROVE  Shape' /\ Stack' = Stack
<1>1. Typed' /\ SameElsewhere(t) /\ UNCHANGED <<head, next, pages, live>>
  <2>1. Typed /\ Goto(t, "pop_cas") /\ UNCHANGED <<head, next, pages, live, seen, chain>>
    BY Zenon DEF Shape, PopNext
  <2>. QED BY <2>1, Moves DEF Typed, SameElsewhere
<1>2. pc[t] = "pop_next" /\ pc'[t] = "pop_cas" /\ chain' = chain /\ seen' = seen
  BY DEF Shape, Typed, PopNext, Goto
<1>3. Mine(t)' = Mine(t)
  BY <1>2, MineCases DEF Chained, Flushing
<1>4. Local(t)'
  BY <1>2 DEF Shape, Local, Chained, Flushing
<1>. QED BY <1>1, <1>3, <1>4, Quietly

(* The compare-and-swap of percpu_pop succeeded: the stack is one          *)
(* shorter; or it failed.                                                  *)
Popped(t) == pc'[t] = "pop_count" /\ Len(Stack') = Len(Stack) - 1
NotPopped(t) == pc'[t] = "refill" /\ Stack' = Stack

(* The compare-and-swap of percpu_pop, when the link it installs is the    *)
(* current one: the head leaves the stack and is with the caller.          *)
LEMMA PopCasShape ==
  ASSUME Shape, NEW t \in Threads, PopCas(t), ~stale'
  PROVE  Shape' /\ (Popped(t) \/ NotPopped(t))
<1>1. CASE Goto(t, "refill") /\ UNCHANGED <<head, live, next, stale>>
  <2>1. Typed' /\ SameElsewhere(t) /\ UNCHANGED <<head, next, pages, live>>
    <3>1. Typed /\ Goto(t, "refill") /\ UNCHANGED <<head, next, pages, live, seen, chain>>
      BY <1>1, Zenon DEF Shape, PopCas
    <3>. QED BY <3>1, Moves DEF Typed, SameElsewhere
  <2>2. pc[t] = "pop_cas" /\ pc'[t] = "refill" /\ chain' = chain
    BY <1>1 DEF Shape, Typed, PopCas, Goto
  <2>3. Mine(t)' = Mine(t)
    BY <2>2, MineCases, Zenon DEF Chained, Flushing
  <2>4. Local(t)'
    BY <2>2, Zenon DEF Shape, Local, Chained, Flushing
  <2>5. Shape' /\ Stack' = Stack
    BY <2>1, <2>3, <2>4, Quietly
  <2>. QED BY <2>2, <2>5 DEF NotPopped
<1>2. CASE /\ head = seen[t] /\ head' = after[t] /\ live' = live \cup {seen[t]}
           /\ next' = [next EXCEPT ![seen[t]] = Header]
           /\ stale' = (next[seen[t]] # after[t]) /\ Goto(t, "pop_count")
  <2>1. /\ pc[t] = "pop_cas" /\ pc'[t] = "pop_count" /\ chain' = chain /\ seen' = seen
        /\ pages' = pages /\ SameElsewhere(t)
    BY <1>2 DEF Shape, Typed, PopCas, Goto, SameElsewhere
  <2>2. head \in Slots /\ head' = next[head]
    BY <1>2, <2>1, Zenon DEF Shape, Local
  <2>3. /\ IsList(next, head', Tail(Stack)) /\ Len(Tail(Stack)) = Len(Stack) - 1
        /\ Members(Stack) = Members(Tail(Stack)) \cup {head} /\ head \notin Members(Tail(Stack))
    <3>1. IsList(next, head, Stack) /\ head # NULL
      BY <2>2, PercpuAssumption DEF Shape
    <3>. QED BY <2>2, <3>1, DropFirst
  <2>4. \A s \in Slots \ {head} : next'[s] = next[s]
    BY <1>2 DEF Shape, Typed
  <2>5. Members(Tail(Stack)) \subseteq Slots
    BY <2>3, MembersOf, Zenon DEF IsList
  <2>6. IsList(next', head', Tail(Stack))
    BY <2>3, <2>4, <2>5, ListElsewhere
  <2>7. head' \in Slots \cup {NULL}
    BY <2>6, NullIsEmpty
  <2>8. Typed'
    <3>1. Typed
      BY DEF Shape
    <3>2. next' \in [Slots -> Slots \cup {NULL, Header}]
      BY <1>2, <2>2, <3>1, Links, Zenon
    <3>3. pc' = [u \in Threads |-> pc'[u]]
      BY <1>2, <3>1, Moves
    <3>4. pages' \subseteq Slots /\ live' \subseteq Slots
      BY <1>2, <2>1, <2>2, <3>1 DEF Typed
    <3>. QED BY <2>1, <2>7, <3>1, <3>2, <3>3, <3>4 DEF Typed
  <2>9. Mine(t) = {} /\ Mine(t)' = {}
    BY <2>1, MineCases DEF Chained, Flushing
  <2>10. Local(t)'
    BY <2>1, Zenon DEF Shape, Local, Chained, Flushing
  <2>11. \A s \in Slots : next'[s] # next[s] => s \in Members(Stack) \cup pages \cup live \cup Mine(t)
    BY <2>3, <2>4
  <2>12. /\ Members(Tail(Stack)) \cup pages' \cup live' \cup Mine(t)'
              = Members(Stack) \cup pages \cup live \cup Mine(t)
         /\ Members(Tail(Stack)) \cap pages' = {} /\ Members(Tail(Stack)) \cap live' = {}
         /\ pages' \cap live' = {}
         /\ Mine(t)' \cap (Members(Tail(Stack)) \cup pages' \cup live') = {}
    BY <1>2, <2>1, <2>3, <2>9, Apart, Zenon
  <2>13. Shape' /\ Stack' = Tail(Stack)
    BY <2>1, <2>6, <2>8, <2>10, <2>11, <2>12, Assemble, Zenon
  <2>. QED BY <2>1, <2>3, <2>13 DEF Popped
<1>. QED BY <1>1, <1>2, Zenon DEF PopCas

(* The decrement of entry->count after a pop.                              *)
LEMMA PopCountShape ==
  ASSUME Shape, NEW t \in Threads, PopCount(t)
  PROVE  Shape' /\ Stack' = Stack
<1>1. Typed' /\ SameElsewhere(t) /\ UNCHANGED <<head, next, pages, live>>
  <2>1. /\ Typed /\ Goto(t, "idle") /\ seen' = [seen EXCEPT ![t] = NULL]
        /\ UNCHANGED <<head, next, pages, live, chain>>
    BY DEF Shape, PopCount, Return
  <2>. QED BY <2>1, Moves, Sees, Zenon DEF Typed, SameElsewhere
<1>2. pc[t] = "pop_count" /\ pc'[t] = "idle" /\ chain' = chain
  BY DEF Shape, Typed, PopCount, Goto, Return
<1>3. Mine(t)' = Mine(t)
  BY <1>2, MineCases DEF Chained, Flushing
<1>4. Local(t)'
  BY <1>2 DEF Shape, Local, Chained, Flushing
<1>. QED BY <1>1, <1>3, <1>4, Quietly

(* mp_free hands a slot to percpu_push, or to its page when there is no    *)
(* table.                                                                  *)
LEMMA PushStartShape ==
  ASSUME Shape, NEW t \in Threads, NEW s \in Slots, PushStart(t, s)
  PROVE  /\ Shape' /\ Stack' = Stack
         /\ pc'[t] \in {"idle", "push"} /\ (pc'[t] = "push" => table)
<1>0. /\ pc[t] = "idle" /\ s \in live /\ live' = live \ {s} /\ next' = next /\ head' = head
      /\ seen' = seen /\ Mine(t) = {}
  BY MineCases DEF PushStart, Chained, Flushing
<1>a. IsList(next', head', Stack)
  BY <1>0 DEF Shape
<1>b. \A x \in Slots : next'[x] # next[x] => x \in Members(Stack) \cup pages \cup live \cup Mine(t)
  BY <1>0
<1>1. CASE table /\ chain' = [chain EXCEPT ![t] = <<s>>] /\ Goto(t, "push") /\ UNCHANGED pages
  <2>1. Typed' /\ SameElsewhere(t)
    <3>1. Typed /\ <<s>> \in Seq(Slots)
      BY LoneChain DEF Shape
    <3>2. pages' \subseteq Slots /\ live' \subseteq Slots
      BY <1>0, <1>1, <3>1 DEF Typed
    <3>. QED BY <1>0, <1>1, <3>1, <3>2, Moves, Holds DEF Typed, SameElsewhere
  <2>2. pc'[t] = "push" /\ chain'[t] = <<s>>
    BY <1>1 DEF Shape, Typed, Goto
  <2>3. Mine(t)' = {s}
    BY <2>2, MineCases, LoneChain, Zenon DEF Chained
  <2>4. Local(t)'
    <3>1. Len(chain'[t]) = 1 /\ OneToOne(chain'[t]) /\ pc'[t] = "push"
      BY <2>2, LoneChain, Zenon
    <3>. QED BY <3>1, LocalPush
  <2>5. /\ Members(Stack) \cup pages' \cup live' \cup Mine(t)'
             = Members(Stack) \cup pages \cup live \cup Mine(t)
        /\ Members(Stack) \cap pages' = {} /\ Members(Stack) \cap live' = {} /\ pages' \cap live' = {}
        /\ Mine(t)' \cap (Members(Stack) \cup pages' \cup live') = {}
    BY <1>0, <1>1, <2>3, Apart
  <2>6. Shape' /\ Stack' = Stack
    BY <1>a, <1>b, <2>1, <2>4, <2>5, Assemble
  <2>. QED BY <1>1, <2>2, <2>6
<1>2. CASE ~table /\ pages' = pages \cup {s} /\ UNCHANGED <<chain, pc>>
  <2>1. Typed' /\ SameElsewhere(t)
    BY <1>0, <1>2 DEF Shape, Typed, SameElsewhere
  <2>2. pc'[t] = "idle"
    BY <1>0, <1>2
  <2>3. Mine(t)' = {}
    BY <2>2, MineCases, Zenon DEF Chained, Flushing
  <2>4. Local(t)'
    BY <1>2, <2>2, Zenon DEF Shape, Local, Chained, Flushing
  <2>5. /\ Members(Stack) \cup pages' \cup live' \cup Mine(t)'
             = Members(Stack) \cup pages \cup live \cup Mine(t)
        /\ Members(Stack) \cap pages' = {} /\ Members(Stack) \cap live' = {} /\ pages' \cap live' = {}
        /\ Mine(t)' \cap (Members(Stack) \cup pages' \cup live') = {}
    BY <1>0, <1>2, <2>3, Apart
  <2>6. Shape' /\ Stack' = Stack
    BY <1>a, <1>b, <2>1, <2>4, <2>5, Assemble
  <2>. QED BY <2>2, <2>6
<1>. QED BY <1>1, <1>2 DEF PushStart

(* percpu_push gives up at the maximum count, or loads the head and links  *)
(* its slot to it.                                                         *)
LEMMA PushLoadShape ==
  ASSUME Shape, NEW t \in Threads, PushLoad(t)
  PROVE  /\ Shape' /\ Stack' = Stack
         /\ pc'[t] \in {"idle", "push_cas"}
<1>0. /\ pc[t] = "push" /\ head' = head /\ live' = live /\ Typed /\ Local(t)
      /\ Mine(t) = Members(chain[t])
  BY MineCases, Zenon DEF PushLoad, Shape, Chained
<1> DEFINE s == chain[t][1]
<1>1. /\ chain[t] \in Seq(Slots) /\ Len(chain[t]) = 1 /\ OneToOne(chain[t])
      /\ s \in Slots /\ Mine(t) = {s} /\ chain[t][Len(chain[t])] = s
  <2>1. chain[t] \in Seq(Slots) /\ Len(chain[t]) = 1 /\ OneToOne(chain[t])
    BY <1>0 DEF Typed, Local, Chained
  <2>2. s \in Slots /\ Members(chain[t]) = {s} /\ chain[t][Len(chain[t])] = s
    BY <2>1, MembersOf
  <2>. QED BY <1>0, <2>1, <2>2
<1>2. head \in Slots \cup {NULL} /\ pages \subseteq Slots
  BY <1>0 DEF Typed
<1> HIDE DEF s
<1>a. s \notin Members(Stack)
  BY <1>1, Apart
<1>3. CASE /\ pages' = pages \cup {s} /\ chain' = [chain EXCEPT ![t] = <<>>]
           /\ Return(t) /\ UNCHANGED next
  <2>0. Goto(t, "idle") /\ seen' = [seen EXCEPT ![t] = NULL] /\ <<>> \in Seq(Slots)
    BY <1>3 DEF Return
  <2>1. Typed' /\ SameElsewhere(t) /\ pc'[t] = "idle" /\ chain'[t] = <<>>
    <3>1. pages' \subseteq Slots
      BY <1>1, <1>2, <1>3
    <3>. QED BY <1>0, <1>3, <2>0, <3>1, Moves, Sees, Holds DEF Typed, SameElsewhere
  <2>2. Mine(t)' = {}
    BY <2>1, MineCases DEF Chained, Flushing
  <2>3. Local(t)'
    BY <2>1, PercpuAssumption DEF Local, Chained, Flushing
  <2>4. IsList(next', head', Stack)
    BY <1>0, <1>3 DEF Shape
  <2>5. /\ Members(Stack) \cup pages' \cup live' \cup Mine(t)'
             = Members(Stack) \cup pages \cup live \cup Mine(t)
        /\ Members(Stack) \cap pages' = {} /\ Members(Stack) \cap live' = {} /\ pages' \cap live' = {}
        /\ Mine(t)' \cap (Members(Stack) \cup pages' \cup live') = {}
    BY <1>0, <1>1, <1>3, <2>2, Apart
  <2>6. Shape' /\ Stack' = Stack
    BY <1>3, <2>1, <2>3, <2>4, <2>5, Assemble
  <2>. QED BY <2>1, <2>6
<1>4. CASE /\ seen' = [seen EXCEPT ![t] = head] /\ next' = [next EXCEPT ![s] = head]
           /\ Goto(t, "push_cas") /\ UNCHANGED <<pages, chain, after>>
  <2>1. /\ Typed' /\ SameElsewhere(t) /\ pc'[t] = "push_cas" /\ seen'[t] = head
        /\ next'[s] = head /\ \A r \in Slots \ {s} : next'[r] = next[r]
    BY <1>0, <1>1, <1>2, <1>4, Moves, Sees, Links DEF Typed, SameElsewhere
  <2>2. Mine(t)' = {s}
    BY <1>0, <1>1, <1>4, <2>1, MineCases, Zenon DEF Chained
  <2>3. Local(t)'
    <3>1. chain' = chain /\ pc'[t] = "push_cas" /\ next'[s] = seen'[t]
      BY <1>4, <2>1, Zenon
    <3>2. Len(chain'[t]) = 1 /\ OneToOne(chain'[t]) /\ next'[chain'[t][1]] = seen'[t]
      BY <1>1, <3>1 DEF s
    <3>. QED BY <3>1, <3>2, LocalPush, Zenon
  <2>4. IsList(next', head', Stack)
    <3>1. \A r \in Members(Stack) : next'[r] = next[r]
      BY <2>1, <1>a, Apart, Zenon
    <3>. QED BY <1>0, <3>1, ListElsewhere, Zenon DEF Shape
  <2>5. /\ Members(Stack) \cup pages' \cup live' \cup Mine(t)'
             = Members(Stack) \cup pages \cup live \cup Mine(t)
        /\ Members(Stack) \cap pages' = {} /\ Members(Stack) \cap live' = {} /\ pages' \cap live' = {}
        /\ Mine(t)' \cap (Members(Stack) \cup pages' \cup live') = {}
    BY <1>0, <1>1, <1>4, <2>2, Apart, Zenon
  <2>6. \A r \in Slots : next'[r] # next[r] => r \in Members(Stack) \cup pages \cup live \cup Mine(t)
    BY <1>1, <2>1, Zenon
  <2>7. Shape' /\ Stack' = Stack
    BY <2>1, <2>3, <2>4, <2>5, <2>6, Assemble, Zenon
  <2>. QED BY <2>1, <2>7, Zenon
<1>. QED BY <1>3, <1>4 DEF PushLoad, s

(* The compare-and-swap that prepends a chain succeeded: the stack is      *)
(* longer by the chain; or it failed.                                      *)
Stacked(t, done) == pc'[t] = done /\ Len(Stack') = Len(Stack) + Len(chain[t])
NotStacked(t, retry) == pc'[t] = retry /\ Stack' = Stack

(* The compare-and-swap of percpu_push and percpu_refill: the head is      *)
(* still the one the chain's last slot is linked to, so the chain and the  *)
(* stack become one list.                                                  *)
LEMMA PutChainShape ==
  ASSUME Shape, NEW t \in Threads, NEW retry, PutChain(t, retry, "add_count"),
         \/ pc[t] = "push_cas" /\ retry = "push"
         \/ pc[t] = "refill_cas" /\ retry = "refill_load",
         UNCHANGED <<next, pages, live, seen, chain>>
  PROVE  Shape' /\ (Stacked(t, "add_count") \/ NotStacked(t, retry))
<1>0. /\ Typed /\ Local(t) /\ Mine(t) = Members(chain[t]) /\ pc[t] \in Chained /\ retry \in Chained
      /\ chain[t] \in Seq(Slots) /\ Len(chain[t]) \in Nat
  BY MineCases DEF Shape, Chained, Typed
<1>1. CASE head = seen[t] /\ head' = chain[t][1] /\ Goto(t, "add_count")
  <2>1. LinkedTo(next, chain[t], head)
    BY <1>0, <1>1, Zenon DEF Local, LinkedTo
  <2>2. Members(chain[t]) \cap Members(Stack) = {}
    BY <1>0, Apart, Zenon
  <2> DEFINE w == chain[t] \o Stack
  <2>3. /\ IsList(next', head', w) /\ Len(w) = Len(Stack) + Len(chain[t])
        /\ Members(w) = Members(chain[t]) \cup Members(Stack)
    <3>0. IsList(next, head, Stack)
      BY DEF Shape
    <3>1. IsList(next, head, Stack) /\ Stack \in Seq(Slots) /\ Len(Stack) \in Nat
      BY <3>0 DEF IsList
    <3>2. /\ IsList(next, chain[t][1], w) /\ Len(w) = Len(chain[t]) + Len(Stack)
          /\ Members(w) = Members(chain[t]) \cup Members(Stack)
      BY <2>1, <2>2, <3>1, Prepend
    <3> HIDE DEF w
    <3>. QED BY <1>0, <1>1, <3>1, <3>2
  <2> HIDE DEF w
  <2>4. Typed' /\ SameElsewhere(t) /\ pc'[t] = "add_count"
    <3>1. head' \in Slots \cup {NULL}
      BY <2>3, NullIsEmpty, Zenon
    <3>. QED BY <1>0, <1>1, <3>1, Moves, Zenon DEF Typed, SameElsewhere
  <2>5. Mine(t)' = {}
    BY <2>4, MineCases, Zenon DEF Chained, Flushing
  <2>6. Local(t)'
    BY <1>0, <2>4, Zenon DEF Local, Chained, Flushing
  <2>7. /\ Members(w) \cup pages' \cup live' \cup Mine(t)'
             = Members(Stack) \cup pages \cup live \cup Mine(t)
        /\ Members(w) \cap pages' = {} /\ Members(w) \cap live' = {} /\ pages' \cap live' = {}
        /\ Mine(t)' \cap (Members(w) \cup pages' \cup live') = {}
    BY <1>0, <2>3, <2>5, Apart, Zenon
  <2>8. Shape' /\ Stack' = w
    BY <2>3, <2>4, <2>6, <2>7, Assemble, Zenon
  <2>. QED BY <2>3, <2>4, <2>8, Zenon DEF Stacked
<1>2. CASE Goto(t, retry) /\ UNCHANGED head
  <2>1. Typed' /\ SameElsewhere(t) /\ pc'[t] = retry
    BY <1>0, <1>2, Moves, Zenon DEF Typed, SameElsewhere
  <2>2. Mine(t)' = Mine(t)
    BY <1>0, <2>1, MineCases, Zenon
  <2>3. Local(t)'
    BY <1>0, <2>1, Zenon DEF Local, Chained, Flushing
  <2>4. Shape' /\ Stack' = Stack
    BY <1>2, <2>1, <2>2, <2>3, Quietly, Zenon
  <2>. QED BY <2>1, <2>4, Zenon DEF NotStacked
<1>. QED BY <1>1, <1>2, Zenon DEF PutChain, StackHead

(* The addition to entry->count after a push or a refill.                  *)
LEMMA AddCountShape ==
  ASSUME Shape, NEW t \in Threads, AddCount(t)
  PROVE  Shape' /\ Stack' = Stack
<1>1. /\ Typed /\ Goto(t, "idle") /\ seen' = [seen EXCEPT ![t] = NULL]
      /\ chain' = [chain EXCEPT ![t] = <<>>] /\ <<>> \in Seq(Slots)
      /\ UNCHANGED <<head, next, pages, live>> /\ pc[t] = "add_count"
  BY DEF Shape, AddCount, Return
<1>2. Typed' /\ SameElsewhere(t) /\ pc'[t] = "idle" /\ chain'[t] = <<>>
  BY <1>1, Moves, Sees, Holds DEF Typed, SameElsewhere
<1>3. Mine(t)' = Mine(t)
  BY <1>1, <1>2, MineCases, Zenon DEF Chained, Flushing
<1>4. Local(t)'
  BY <1>2, PercpuAssumption DEF Local, Chained, Flushing
<1>. QED BY <1>1, <1>2, <1>3, <1>4, Quietly, Zenon

(* The links after percpu_refill has chained the slots of q.               *)
LinkUp(nx, q) ==
  [s \in Slots |-> IF \E i \in 1..(Len(q) - 1) : q[i] = s
                   THEN q[1 + CHOOSE i \in 1..(Len(q) - 1) : q[i] = s]
                   ELSE nx[s]]

(* percpu_refill's chain is linked, and no other link is written.          *)
LEMMA LinkUpChain ==
  ASSUME Typed, NEW q \in Seq(Slots), OneToOne(q)
  PROVE  /\ LinkUp(next, q) \in [Slots -> Slots \cup {NULL, Header}]
         /\ \A i \in 1..(Len(q) - 1) : LinkUp(next, q)[q[i]] = q[i + 1]
         /\ \A s \in Slots \ Members(q) : LinkUp(next, q)[s] = next[s]
<1> DEFINE pick(s) == CHOOSE i \in 1..(Len(q) - 1) : q[i] = s
           linked(s) == \E i \in 1..(Len(q) - 1) : q[i] = s
<1>0. Len(q) \in Nat /\ \A i \in 1..Len(q) : q[i] \in Slots
  OBVIOUS
<1>1. \A s : linked(s) => pick(s) \in 1..(Len(q) - 1) /\ q[pick(s)] = s
  OBVIOUS
<1>2. LinkUp(next, q) = [s \in Slots |-> IF linked(s) THEN q[1 + pick(s)] ELSE next[s]]
  BY DEF LinkUp
<1>3. \A i \in 1..(Len(q) - 1) : q[i] \in Slots /\ linked(q[i])
  BY <1>0
<1>4. \A s : linked(s) => 1 + pick(s) \in 1..Len(q)
  <2> SUFFICES ASSUME NEW s, linked(s) PROVE 1 + pick(s) \in 1..Len(q)
    OBVIOUS
  <2>1. pick(s) \in 1..(Len(q) - 1)
    BY <1>1
  <2> HIDE DEF pick
  <2>. QED BY <1>0, <2>1
<1> HIDE DEF pick
<1>5. ASSUME NEW i \in 1..(Len(q) - 1) PROVE LinkUp(next, q)[q[i]] = q[i + 1]
  <2>1. pick(q[i]) \in 1..(Len(q) - 1) /\ q[pick(q[i])] = q[i]
    BY <1>1, <1>3, Zenon
  <2>2. pick(q[i]) = i
    BY <1>0, <2>1 DEF OneToOne
  <2>3. LinkUp(next, q)[q[i]] = q[1 + pick(q[i])]
    BY <1>2, <1>3, Zenon
  <2>. QED BY <2>2, <2>3
<1>6. ASSUME NEW s \in Slots \ Members(q) PROVE LinkUp(next, q)[s] = next[s]
  <2>1. ~linked(s)
    BY <1>0, MembersOf
  <2>. QED BY <1>2, <2>1
<1>7. ASSUME NEW s \in Slots PROVE (IF linked(s) THEN q[1 + pick(s)] ELSE next[s]) \in Slots \cup {NULL, Header}
  <2>1. linked(s) => q[1 + pick(s)] \in Slots
    BY <1>0, <1>4
  <2>2. next[s] \in Slots \cup {NULL, Header}
    BY DEF Typed
  <2> HIDE DEF linked
  <2>. QED BY <2>1, <2>2
<1> HIDE DEF linked
<1>8. LinkUp(next, q) \in [Slots -> Slots \cup {NULL, Header}]
  BY <1>2, <1>7
<1>. QED BY <1>5, <1>6, <1>8, Zenon

(* percpu_refill chains between one and MP_PERCPU_MAX_BATCH distinct       *)
(* slots of the pages.                                                     *)
LEMMA ChainsAre ==
  ASSUME Typed, NEW q \in Chains
  PROVE  /\ q \in Seq(Slots) /\ Len(q) \in 1..MaxBatch /\ OneToOne(q)
         /\ Members(q) \subseteq pages
<1>1. PICK k \in 1..MaxBatch : q \in [1..k -> pages]
  BY DEF Chains
<1>2. k \in Nat /\ pages \subseteq Slots
  BY PercpuAssumption DEF Typed
<1>3. q \in Seq(Slots) /\ Len(q) = k
  BY <1>1, <1>2
<1>4. DOMAIN q = 1..Len(q)
  BY <1>3
<1>5. OneToOne(q)
  BY <1>4 DEF Chains, OneToOne
<1>6. Members(q) \subseteq pages
  BY <1>1 DEF Members
<1>. QED BY <1>3, <1>5, <1>6

(* percpu_refill takes slots from the pages and chains them, or returns.   *)
LEMMA RefillStartShape ==
  ASSUME Shape, NEW t \in Threads, RefillStart(t)
  PROVE  Shape' /\ Stack' = Stack /\ pc'[t] \in {"idle", "refill_load"}
<1>0. /\ pc[t] = "refill" /\ head' = head /\ live' = live /\ Typed /\ Local(t) /\ Mine(t) = {}
      /\ pages \subseteq Slots
  BY MineCases, Zenon DEF RefillStart, Shape, Typed, Chained, Flushing
<1>1. CASE \E q \in Chains :
             /\ pages' = pages \ Members(q) /\ chain' = [chain EXCEPT ![t] = q]
             /\ next' = LinkUp(next, q) /\ Goto(t, "refill_load") /\ UNCHANGED <<seen, after>>
  <2>1. PICK q \in Chains :
             /\ pages' = pages \ Members(q) /\ chain' = [chain EXCEPT ![t] = q]
             /\ next' = LinkUp(next, q) /\ Goto(t, "refill_load") /\ UNCHANGED <<seen, after>>
    BY <1>1, Zenon
  <2>2. /\ q \in Seq(Slots) /\ Len(q) \in 1..MaxBatch /\ OneToOne(q) /\ Members(q) \subseteq pages
    BY <1>0, ChainsAre
  <2>3. /\ next' \in [Slots -> Slots \cup {NULL, Header}]
        /\ \A i \in 1..(Len(q) - 1) : next'[q[i]] = q[i + 1]
        /\ \A s \in Slots \ Members(q) : next'[s] = next[s]
    BY <1>0, <2>1, <2>2, LinkUpChain
  <2>4. /\ Typed' /\ SameElsewhere(t) /\ pc'[t] = "refill_load" /\ chain'[t] = q
    <3>1. pages' \subseteq Slots
      BY <1>0, <2>1
    <3>. QED BY <1>0, <2>1, <2>2, <2>3, <3>1, Moves, Holds, Zenon DEF Typed, SameElsewhere
  <2>5. Mine(t)' = Members(q)
    BY <2>4, MineCases, Zenon DEF Chained
  <2>6. Local(t)'
    BY <2>2, <2>3, <2>4, PercpuAssumption DEF Local, Chained, Flushing
  <2>7. Members(q) \cap Members(Stack) = {} /\ Members(q) \cap live = {}
    BY <2>2, Apart
  <2>8. IsList(next', head', Stack)
    <3>1. \A s \in Members(Stack) : next'[s] = next[s]
      BY <2>3, <2>7, Apart
    <3>. QED BY <1>0, <3>1, ListElsewhere DEF Shape
  <2>9. /\ Members(Stack) \cup pages' \cup live' \cup Mine(t)'
             = Members(Stack) \cup pages \cup live \cup Mine(t)
        /\ Members(Stack) \cap pages' = {} /\ Members(Stack) \cap live' = {} /\ pages' \cap live' = {}
        /\ Mine(t)' \cap (Members(Stack) \cup pages' \cup live') = {}
    BY <1>0, <2>1, <2>2, <2>5, <2>7, Apart
  <2>10. \A s \in Slots : next'[s] # next[s] => s \in Members(Stack) \cup pages \cup live \cup Mine(t)
    BY <2>2, <2>3, Zenon
  <2>11. Shape' /\ Stack' = Stack
    BY <2>4, <2>6, <2>8, <2>9, <2>10, Assemble, Zenon
  <2>. QED BY <2>4, <2>11
<1>2. CASE Return(t) /\ UNCHANGED <<pages, chain, next>>
  <2>1. Goto(t, "idle") /\ seen' = [seen EXCEPT ![t] = NULL]
    BY <1>2 DEF Return
  <2>2. Typed' /\ SameElsewhere(t) /\ pc'[t] = "idle"
    BY <1>0, <1>2, <2>1, Moves, Sees DEF Typed, SameElsewhere
  <2>3. Mine(t)' = Mine(t)
    BY <1>0, <2>2, MineCases, Zenon DEF Chained, Flushing
  <2>4. Local(t)'
    BY <1>0, <1>2, <2>2, Zenon DEF Local, Chained, Flushing
  <2>. QED BY <1>0, <1>2, <2>2, <2>3, <2>4, Quietly, Zenon
<1>. QED
  <2>1. \/ \E q \in Chains :
             /\ pages' = pages \ {q[i] : i \in DOMAIN q} /\ chain' = [chain EXCEPT ![t] = q]
             /\ next' = LinkUp(next, q) /\ Goto(t, "refill_load") /\ UNCHANGED <<seen, after>>
        \/ Return(t) /\ UNCHANGED <<pages, chain, next>>
    BY Zenon DEF RefillStart, LinkUp
  <2>. QED BY <1>1, <1>2, <2>1 DEF Members

(* percpu_refill loads the head and links the last slot of its chain to    *)
(* it.                                                                     *)
LEMMA RefillLoadShape ==
  ASSUME Shape, NEW t \in Threads, RefillLoad(t)
  PROVE  Shape' /\ Stack' = Stack /\ pc'[t] = "refill_cas"
<1> DEFINE s == chain[t][Len(chain[t])]
<1>0. /\ pc[t] = "refill_load" /\ Typed /\ Local(t) /\ Mine(t) = Members(chain[t])
      /\ UNCHANGED <<head, pages, live, chain>> /\ head \in Slots \cup {NULL}
      /\ seen' = [seen EXCEPT ![t] = head] /\ next' = [next EXCEPT ![s] = head]
      /\ Goto(t, "refill_cas")
  BY MineCases, Zenon DEF RefillLoad, Shape, Typed, Chained
<1>1. /\ chain[t] \in Seq(Slots) /\ Len(chain[t]) \in Nat /\ Len(chain[t]) > 0
      /\ OneToOne(chain[t]) /\ Len(chain[t]) <= MaxBatch
      /\ \A i \in 1..(Len(chain[t]) - 1) : next[chain[t][i]] = chain[t][i + 1]
  BY <1>0 DEF Typed, Local, Chained
<1>2. s \in Slots /\ s \in Mine(t)
  <2>1. Len(chain[t]) \in 1..Len(chain[t])
    BY <1>1
  <2>2. s \in Members(chain[t]) /\ s \in Slots
    BY <1>1, <2>1, MemberAt
  <2>. QED BY <1>0, <2>2, Zenon
<1>3. \A i \in 1..(Len(chain[t]) - 1) : chain[t][i] # s /\ chain[t][i] \in Slots
  <2> SUFFICES ASSUME NEW i \in 1..(Len(chain[t]) - 1) PROVE chain[t][i] # s /\ chain[t][i] \in Slots
    OBVIOUS
  <2>1. i \in 1..Len(chain[t]) /\ Len(chain[t]) \in 1..Len(chain[t]) /\ i # Len(chain[t])
    BY <1>1
  <2>. QED BY <1>1, <2>1 DEF OneToOne
<1>4. /\ Typed' /\ SameElsewhere(t) /\ pc'[t] = "refill_cas" /\ seen'[t] = head
      /\ next'[s] = head /\ \A r \in Slots \ {s} : next'[r] = next[r]
  <2> HIDE DEF s
  <2>. QED BY <1>0, <1>2, Moves, Sees, Links, Zenon DEF Typed, SameElsewhere
<1>5. Mine(t)' = Mine(t)
  BY <1>0, <1>4, MineCases, Zenon DEF Chained
<1>6. Local(t)'
  <2>1. \A i \in 1..(Len(chain[t]) - 1) : next'[chain[t][i]] = chain[t][i + 1]
    BY <1>1, <1>3, <1>4, Zenon
  <2>. QED BY <1>0, <1>1, <1>4, <2>1, Zenon DEF Local, Chained, Flushing
<1> HIDE DEF s
<1>7. IsList(next', head', Stack)
  <2>1. \A r \in Members(Stack) : next'[r] = next[r]
    BY <1>2, <1>4, Apart
  <2>. QED BY <1>0, <2>1, ListElsewhere, Zenon DEF Shape
<1>8. /\ Members(Stack) \cup pages' \cup live' \cup Mine(t)'
           = Members(Stack) \cup pages \cup live \cup Mine(t)
      /\ Members(Stack) \cap pages' = {} /\ Members(Stack) \cap live' = {} /\ pages' \cap live' = {}
      /\ Mine(t)' \cap (Members(Stack) \cup pages' \cup live') = {}
  BY <1>0, <1>5, Apart, Zenon
<1>9. \A r \in Slots : next'[r] # next[r] => r \in Members(Stack) \cup pages \cup live \cup Mine(t)
  BY <1>2, <1>4
<1>10. Shape' /\ Stack' = Stack
  BY <1>4, <1>6, <1>7, <1>8, <1>9, Assemble, Zenon
<1>. QED BY <1>4, <1>10, Zenon

(* The exchange at the start of percpu_flush: the whole list moves from    *)
(* the stack to the thread.                                                *)
LEMMA TakeStackShape ==
  ASSUME Shape, NEW t \in Threads, TakeStack(t)
  PROVE  Shape' /\ Stack' = <<>> /\ pc'[t] = "flush_count"
<1>0. /\ pc[t] = "idle" /\ Typed /\ Local(t) /\ Mine(t) = {} /\ head \in Slots \cup {NULL}
      /\ seen' = [seen EXCEPT ![t] = head] /\ head' = NULL /\ Goto(t, "flush_count")
      /\ UNCHANGED <<next, pages, live, chain>>
  BY MineCases, Zenon DEF TakeStack, Shape, Typed, Chained, Flushing
<1>1. Typed' /\ SameElsewhere(t) /\ pc'[t] = "flush_count" /\ seen'[t] = head
  BY <1>0, Moves, Sees, Zenon DEF Typed, SameElsewhere
<1>2. From(next', seen'[t]) = Stack /\ IsList(next', seen'[t], Stack)
  BY <1>0, <1>1, Zenon DEF Stack, Shape
<1>3. Mine(t)' = Members(Stack)
  BY <1>1, <1>2, MineCases, Zenon DEF Flushing
<1>4. Local(t)'
  BY <1>0, <1>1, <1>2, Zenon DEF Local, Chained, Flushing
<1>5. IsList(next', head', <<>>) /\ Members(<<>>) = {}
  BY <1>0, EmptyList
<1>6. /\ Members(<<>>) \cup pages' \cup live' \cup Mine(t)'
           = Members(Stack) \cup pages \cup live \cup Mine(t)
      /\ Members(<<>>) \cap pages' = {} /\ Members(<<>>) \cap live' = {} /\ pages' \cap live' = {}
      /\ Mine(t)' \cap (Members(<<>>) \cup pages' \cup live') = {}
  BY <1>0, <1>3, <1>5, Apart
<1>7. \A s \in Slots : next'[s] # next[s] => s \in Members(Stack) \cup pages \cup live \cup Mine(t)
  BY <1>0
<1>8. Shape' /\ Stack' = <<>>
  BY <1>1, <1>4, <1>5, <1>6, <1>7, Assemble, Zenon
<1>. QED BY <1>1, <1>8

(* The store of 0 into entry->count in percpu_flush.                       *)
LEMMA FlushCountShape ==
  ASSUME Shape, NEW t \in Threads, FlushCount(t)
  PROVE  Shape' /\ Stack' = Stack
<1>0. /\ pc[t] = "flush_count" /\ Typed /\ Local(t) /\ Goto(t, "flush")
      /\ UNCHANGED <<head, next, pages, live, seen, chain>>
  BY DEF FlushCount, Shape
<1>1. Typed' /\ SameElsewhere(t) /\ pc'[t] = "flush"
  BY <1>0, Moves DEF Typed, SameElsewhere
<1>2. Mine(t)' = Mine(t)
  BY <1>0, <1>1, MineCases, Zenon DEF Flushing
<1>3. Local(t)'
  BY <1>0, <1>1, Zenon DEF Local, Chained, Flushing
<1>. QED BY <1>0, <1>1, <1>2, <1>3, Quietly, Zenon

(* One turn of percpu_flush's loop: the first slot of the taken list goes  *)
(* to its page.                                                            *)
LEMMA FlushOneShape ==
  ASSUME Shape, NEW t \in Threads, FlushOne(t)
  PROVE  Shape' /\ Stack' = Stack /\ pc' = pc
<1> DEFINE s == seen[t]
           w == From(next, s)
<1>0. /\ pc[t] = "flush" /\ Typed /\ Local(t) /\ s # NULL /\ pages' = pages \cup {s}
      /\ seen' = [seen EXCEPT ![t] = next[s]] /\ Mine(t) = Members(w) /\ IsList(next, s, w)
      /\ UNCHANGED <<head, next, live, pc, chain>> /\ pages \subseteq Slots
  BY MineCases, Zenon DEF FlushOne, Shape, Typed, Local, Flushing
<1> HIDE DEF s, w
<1>1. /\ IsList(next, next[s], Tail(w)) /\ Members(w) = Members(Tail(w)) \cup {s}
      /\ s \notin Members(Tail(w)) /\ s \in Slots
  BY <1>0, DropFirst, Zenon
<1>2. next[s] \in Slots \cup {NULL}
  BY <1>1, NullIsEmpty
<1>3. seen'[t] = next[s] /\ Typed' /\ SameElsewhere(t) /\ pc'[t] = "flush"
  <2>1. pages' \subseteq Slots
    BY <1>0, <1>1, Zenon
  <2>. QED BY <1>0, <1>2, <2>1, Sees, Zenon DEF Typed, SameElsewhere
<1>4. From(next', seen'[t]) = Tail(w) /\ IsList(next', seen'[t], Tail(w))
  BY <1>0, <1>1, <1>3, FromIs, Zenon
<1>5. Mine(t)' = Members(Tail(w))
  BY <1>3, <1>4, MineCases, Zenon DEF Flushing
<1>6. Local(t)'
  BY <1>0, <1>3, <1>4, Zenon DEF Local, Chained, Flushing
<1>7. IsList(next', head', Stack)
  BY <1>0 DEF Shape
<1>8. /\ Members(Stack) \cup pages' \cup live' \cup Mine(t)'
           = Members(Stack) \cup pages \cup live \cup Mine(t)
      /\ Members(Stack) \cap pages' = {} /\ Members(Stack) \cap live' = {} /\ pages' \cap live' = {}
      /\ Mine(t)' \cap (Members(Stack) \cup pages' \cup live') = {}
  <2>1. /\ Members(Stack) \cap pages = {} /\ Members(Stack) \cap live = {} /\ pages \cap live = {}
        /\ Members(w) \cap (Members(Stack) \cup pages \cup live) = {} /\ Mine(t) = Members(w)
    BY <1>0, Apart
  <2>2. pages' = pages \cup {s} /\ live' = live
    BY <1>0
  <2>. QED BY <1>1, <1>5, <2>1, <2>2
<1>9. \A r \in Slots : next'[r] # next[r] => r \in Members(Stack) \cup pages \cup live \cup Mine(t)
  BY <1>0
<1>10. Shape' /\ Stack' = Stack
  BY <1>3, <1>6, <1>7, <1>8, <1>9, Assemble, Zenon
<1>. QED BY <1>0, <1>10

(* A flush that has reached NULL holds no slot.                            *)
LEMMA FlushedEmpty ==
  ASSUME Shape, NEW t \in Threads, pc[t] \in Flushing, seen[t] = NULL
  PROVE  Mine(t) = {}
<1>1. IsList(next, seen[t], From(next, seen[t])) /\ Mine(t) = Members(From(next, seen[t]))
  BY MineCases, Zenon DEF Shape, Local
<1>. QED BY <1>1, NullIsEmpty, Zenon

(* The end of percpu_flush.                                                *)
LEMMA FlushEndShape ==
  ASSUME Shape, NEW t \in Threads, FlushEnd(t)
  PROVE  Shape' /\ Stack' = Stack
<1>0. /\ pc[t] = "flush" /\ Typed /\ Local(t) /\ seen[t] = NULL
      /\ Goto(t, "idle") /\ seen' = [seen EXCEPT ![t] = NULL]
      /\ UNCHANGED <<head, next, pages, live, chain>>
  BY DEF FlushEnd, Return, Shape
<1>1. Typed' /\ SameElsewhere(t) /\ pc'[t] = "idle"
  BY <1>0, Moves, Sees, Zenon DEF Typed, SameElsewhere
<1>2. Mine(t)' = Mine(t)
  BY <1>0, <1>1, MineCases, FlushedEmpty, Zenon DEF Chained, Flushing
<1>3. Local(t)'
  BY <1>0, <1>1, Zenon DEF Local, Chained, Flushing
<1>. QED BY <1>0, <1>1, <1>2, <1>3, Quietly, Zenon

(* percpu_destroy frees the table once its flush is done.                  *)
LEMMA FreeTableShape ==
  ASSUME Shape, NEW t \in Threads, FreeTable(t)
  PROVE  Shape' /\ Stack' = Stack /\ pc'[t] = "drop" /\ SameElsewhere(t)
<1>0. /\ pc[t] = "flush" /\ Typed /\ Local(t) /\ seen[t] = NULL /\ Goto(t, "drop")
      /\ UNCHANGED <<head, next, pages, live, seen, chain>>
  BY Zenon DEF FreeTable, Shape
<1>1. Typed' /\ SameElsewhere(t) /\ pc'[t] = "drop"
  BY <1>0, Moves DEF Typed, SameElsewhere
<1>2. Mine(t)' = Mine(t)
  BY <1>0, <1>1, MineCases, FlushedEmpty, Zenon DEF Chained, Flushing
<1>3. Local(t)'
  BY <1>0, <1>1, Zenon DEF Local, Chained, Flushing
<1>. QED BY <1>0, <1>1, <1>2, <1>3, Quietly, Zenon

(* mp_set_percpu_freelist sets the table pointer to NULL.                  *)
LEMMA DropTableShape ==
  ASSUME Shape, NEW t \in Threads, DropTable(t)
  PROVE  Shape' /\ Stack' = Stack /\ pc'[t] = "idle" /\ SameElsewhere(t)
<1>0. /\ pc[t] = "drop" /\ Typed /\ Local(t)
      /\ Goto(t, "idle") /\ seen' = [seen EXCEPT ![t] = NULL]
      /\ UNCHANGED <<head, next, pages, live, chain>>
  BY DEF DropTable, Return, Shape
<1>1. Typed' /\ SameElsewhere(t) /\ pc'[t] = "idle"
  BY <1>0, Moves, Sees, Zenon DEF Typed, SameElsewhere
<1>2. Mine(t)' = Mine(t)
  BY <1>0, <1>1, MineCases, Zenon DEF Chained, Flushing
<1>3. Local(t)'
  BY <1>0, <1>1, Zenon DEF Local, Chained, Flushing
<1>. QED BY <1>0, <1>1, <1>2, <1>3, Quietly, Zenon

(* A step that changes neither links, places nor threads keeps the shape.  *)
LEMMA StillShape ==
  ASSUME Shape, NEW t \in Threads, UNCHANGED <<head, next, pages, live, pc, seen, chain>>
  PROVE  Shape' /\ Stack' = Stack
<1>1. Typed' /\ SameElsewhere(t) /\ Local(t)
  BY DEF Shape, Typed, SameElsewhere
<1>2. Mine(t)' = Mine(t)
  BY MineCases, Zenon
<1>3. Local(t)'
  BY <1>1, Zenon DEF Local
<1>. QED BY <1>1, <1>2, <1>3, Quietly

=============================================================================
