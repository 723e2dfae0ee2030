------------------------ MODULE PercpuFreelistProofs ------------------------
(***************************************************************************)
(* The per-CPU stack and its counter, proved for any number of threads and *)
(* slots.  PercpuStackProofs has followed the stack through each step; the *)
(* first part here adds the life of the table and the counter (the ...Good *)
(* lemmas), the second shows when the compare-and-swap of percpu_pop       *)
(* cannot meet a stale link.                                               *)
(***************************************************************************)
EXTENDS PercpuStackProofs

(* While a freed table is still pointed to, its stack is empty and every   *)
(* other thread is idle; while there is no table, every thread is. What    *)
(* breaks this is recorded in cut.                                         *)
Life ==
  /\ \A t \in Threads : pc[t] = "drop" =>
       closing # {} /\ head = NULL /\ \A u \in Threads \ {t} : pc[u] = "idle"
  /\ ~table => head = NULL /\ \A u \in Threads : pc[u] = "idle"

(* The threads that have popped a slot and not yet decremented the count.  *)
PoppingBy(p) == {t \in Threads : p[t] = "pop_count"}

(* One pair for each slot that is on the stack and not yet in the count.   *)
AddingBy(p, ch) ==
  {a \in Threads \X (1..MaxBatch) : p[a[1]] = "add_count" /\ a[2] <= Len(ch[a[1]])}

(* No flush has met another operation, and none is between taking the      *)
(* stack and zeroing the count.                                            *)
Steady == ~raced /\ \A t \in Threads : pc[t] # "flush_count"

(* The count lags behind the stack by the pops and pushes whose second     *)
(* step is still to come, modulo its width.                                *)
Counted ==
  Steady => count = (Len(Stack) + Cardinality(PoppingBy(pc))
                                - Cardinality(AddingBy(pc, chain))) % Wrap

(* Stack, table and counter are right.                                     *)
Good == Shape /\ Life /\ Counted /\ count \in 0..(Wrap - 1)

(* The inductive invariant: right until one of the two cases the code      *)
(* does not exclude.                                                       *)
IInv == stale \/ cut \/ Good

(* The remainder of a division by a positive number, and of a number       *)
(* smaller than it.                                                        *)
LEMMA Remainder ==
  ASSUME NEW x \in Int, NEW W \in Nat \ {0}
  PROVE  /\ x % W \in 0..(W-1) /\ x \div W \in Int /\ x = W * (x \div W) + (x % W)
         /\ x \in 0..(W-1) => x % W = x
OBVIOUS
(* A multiple of W strictly between -W and W is 0.                         *)
LEMMA SmallMultiple ==
  ASSUME NEW k \in Int, NEW W \in Nat \ {0}, -W < W * k, W * k < W
  PROVE  k = 0
<1>1. CASE k >= 1
  BY <1>1
<1>2. CASE k <= -1
  BY <1>2
<1>. QED BY <1>1, <1>2
(* Adding before or after taking the remainder gives the same remainder:   *)
(* the wrapping arithmetic of entry->count.                                *)
LEMMA Modulo ==
  ASSUME NEW x \in Int, NEW d \in Int, NEW W \in Nat \ {0}
  PROVE  ((x % W) + d) % W = (x + d) % W
<1> DEFINE y == (x % W) + d
   p == x \div W
   q == y \div W
   r == (x + d) \div W
   a == y % W
   b == (x + d) % W
<1>1. y \in Int /\ x % W \in Int
  BY Remainder
<1>2. /\ a \in 0..(W-1) /\ q \in Int /\ y = W * q + a
  <2> HIDE DEF y
  <2>. QED BY <1>1, Remainder
<1>3. /\ b \in 0..(W-1) /\ r \in Int /\ x + d = W * r + b
  BY x + d \in Int, Remainder, Zenon
<1>4. p \in Int /\ x = W * p + (x % W)
  BY Remainder
<1>5. x + d = W * p + y
  BY <1>4, <1>1
<1> HIDE DEF y, p, q, r, a, b
<1>6. W * (p + q - r) = b - a
  <2>1. W * (p + q - r) = W * p + W * q - W * r
    BY <1>2, <1>3, <1>4
  <2>2. W * p \in Int /\ W * q \in Int /\ W * r \in Int
    BY <1>2, <1>3, <1>4
  <2>. QED BY <1>1, <1>2, <1>3, <1>5, <2>1, <2>2
<1>7. p + q - r = 0
  <2>1. p + q - r \in Int /\ -W < b - a /\ b - a < W
    BY <1>2, <1>3, <1>4
  <2>. QED BY <1>6, <2>1, SmallMultiple
<1>8. W * (p + q - r) = 0
  BY <1>7
<1>. QED BY <1>2, <1>3, <1>6, <1>8 DEF a, b, y

(* What thread t contributes to the lag of the count.                      *)
PopWeight(p, t) == IF p[t] = "pop_count" THEN 1 ELSE 0

AddWeight(p, ch, t) == IF p[t] = "add_count" THEN Len(ch[t]) ELSE 0

(* The pairs of the other threads.                                         *)
AddingElse(p, ch, t) == {a \in AddingBy(p, ch) : a[1] # t}

(* The sets that are counted are finite.                                   *)
LEMMA FiniteCounts ==
  ASSUME NEW p, NEW ch, NEW t
  PROVE  /\ IsFiniteSet(PoppingBy(p)) /\ IsFiniteSet(AddingBy(p, ch))
         /\ IsFiniteSet(AddingElse(p, ch, t))
         /\ Cardinality(PoppingBy(p)) \in Nat /\ Cardinality(AddingBy(p, ch)) \in Nat
         /\ Cardinality(AddingElse(p, ch, t)) \in Nat
<1>1. IsFiniteSet(Threads) /\ MaxBatch \in Nat
  BY PercpuAssumption
<1>2. IsFiniteSet(1..MaxBatch)
  BY <1>1, FS_Interval
<1>3. IsFiniteSet(Threads \X (1..MaxBatch))
  BY <1>1, <1>2, FS_Product
<1>4. /\ PoppingBy(p) \in SUBSET Threads /\ AddingBy(p, ch) \in SUBSET (Threads \X (1..MaxBatch))
      /\ AddingElse(p, ch, t) \in SUBSET (Threads \X (1..MaxBatch))
  BY DEF PoppingBy, AddingBy, AddingElse
<1>5. /\ IsFiniteSet(PoppingBy(p)) /\ IsFiniteSet(AddingBy(p, ch))
      /\ IsFiniteSet(AddingElse(p, ch, t))
  BY <1>1, <1>3, <1>4, FS_Subset
<1>. QED BY <1>5, FS_CardinalityType

(* A thread with n slots to add contributes n pairs.                       *)
LEMMA PairsOf ==
  ASSUME NEW t, NEW n \in Nat
  PROVE  IsFiniteSet({t} \X (1..n)) /\ Cardinality({t} \X (1..n)) = n
<1> DEFINE f == [i \in 1..n |-> <<t, i>>]
           S == {t} \X (1..n)
<1>1. f \in [1..n -> S]
  OBVIOUS
<1>2. \A i, j \in 1..n : f[i] = f[j] => i = j
  OBVIOUS
<1>3. \A x \in S : \E i \in 1..n : f[i] = x
  <2> SUFFICES ASSUME NEW x \in S PROVE \E i \in 1..n : f[i] = x
    OBVIOUS
  <2>1. x[1] = t /\ x[2] \in 1..n /\ x = <<x[1], x[2]>>
    OBVIOUS
  <2>. QED BY <2>1
<1> HIDE DEF f, S
<1>4. f \in Bijection(1..n, S)
  BY <1>1, <1>2, <1>3 DEF Bijection, Injection, Surjection, IsInjective
<1>5. ExistsBijection(1..n, S)
  BY <1>4 DEF ExistsBijection
<1>6. Cardinality(S) = n
  BY <1>5, FS_CountingElements
<1>7. IsFiniteSet(1..n)
  BY FS_Interval
<1>8. IsFiniteSet(S)
  BY <1>5, <1>7, FS_Bijection
<1>. QED BY <1>6, <1>8 DEF S

(* The counts, as the contribution of t and of the others.                 *)
LEMMA Tally ==
  ASSUME NEW p, NEW ch \in [Threads -> Seq(Slots)], NEW t \in Threads, Len(ch[t]) <= MaxBatch
  PROVE  /\ Cardinality(PoppingBy(p)) = Cardinality(PoppingBy(p) \ {t}) + PopWeight(p, t)
         /\ Cardinality(AddingBy(p, ch)) = Cardinality(AddingElse(p, ch, t)) + AddWeight(p, ch, t)
         /\ PopWeight(p, t) \in Nat /\ AddWeight(p, ch, t) \in Nat
<1>0. Len(ch[t]) \in Nat /\ MaxBatch \in Nat
  BY PercpuAssumption
<1> DEFINE n == AddWeight(p, ch, t)
           E == AddingElse(p, ch, t)
           A == AddingBy(p, ch)
           T == {t} \X (1..n)
<1>1. PopWeight(p, t) \in Nat /\ n \in Nat /\ n <= MaxBatch
  BY <1>0 DEF PopWeight, AddWeight
<1>2. Cardinality(PoppingBy(p)) = Cardinality(PoppingBy(p) \ {t}) + PopWeight(p, t)
  <2>1. Cardinality(PoppingBy(p) \ {t})
          = IF t \in PoppingBy(p) THEN Cardinality(PoppingBy(p)) - 1 ELSE Cardinality(PoppingBy(p))
    BY FiniteCounts, FS_RemoveElement, Zenon
  <2>2. t \in PoppingBy(p) <=> p[t] = "pop_count"
    BY DEF PoppingBy
  <2>3. Cardinality(PoppingBy(p)) \in Nat
    BY FiniteCounts, Zenon
  <2>. QED BY <2>1, <2>2, <2>3 DEF PopWeight
<1>3. A = E \cup T
  <2>1. ASSUME NEW a \in A PROVE a \in E \cup T
    <3>1. a \in Threads \X (1..MaxBatch) /\ p[a[1]] = "add_count" /\ a[2] <= Len(ch[a[1]])
      BY DEF AddingBy
    <3>2. a[1] = t => a[2] \in 1..n
      BY <1>0, <3>1 DEF AddWeight
    <3>3. a[1] = t => a \in T
      BY <3>1, <3>2
    <3>. QED BY <3>3 DEF AddingElse
  <2>2. ASSUME NEW a \in T PROVE a \in A
    <3>1. a = <<a[1], a[2]>> /\ a[1] = t /\ a[2] \in 1..n
      OBVIOUS
    <3>2. p[t] = "add_count" /\ n = Len(ch[t])
      BY <1>0, <3>1 DEF AddWeight
    <3>3. a[2] \in 1..MaxBatch /\ a[2] <= Len(ch[t])
      BY <1>0, <1>1, <3>1, <3>2
    <3>. QED BY <3>1, <3>2, <3>3 DEF AddingBy
  <2>3. E \subseteq A
    BY DEF AddingElse
  <2>. QED BY <2>1, <2>2, <2>3
<1>4. E \cap T = {}
  BY DEF AddingElse
<1>5. IsFiniteSet(E) /\ IsFiniteSet(T) /\ Cardinality(T) = n
  BY <1>1, FiniteCounts, PairsOf, Zenon
<1> HIDE DEF E, T, A, n
<1>6. Cardinality(E \cup T) = Cardinality(E) + Cardinality(T) - Cardinality(E \cap T)
  BY <1>5, FS_Union
<1>7. Cardinality(A) = Cardinality(E) + n
  <2>1. Cardinality(E \cap T) = 0 /\ Cardinality(E) \in Nat
    BY <1>4, <1>5, FS_EmptySet, FS_CardinalityType, Zenon
  <2>. QED BY <1>1, <1>3, <1>5, <1>6, <2>1
<1>. QED BY <1>1, <1>2, <1>7 DEF A, E, n

(* The part of the count's equation that a step of t can change.           *)
Balance(t) == Len(Stack) + PopWeight(pc, t) - AddWeight(pc, chain, t)

(* A step of t that changes count by as much as its part of the equation   *)
(* keeps the count right.                                                  *)
LEMMA Recount ==
  ASSUME Shape, Shape', NEW t \in Threads, SameElsewhere(t), Counted, pc[t] # "flush_count",
         count \in 0..(Wrap - 1),
         raced' = raced, NEW d \in Int, count' = (count + d) % Wrap, Balance(t)' = Balance(t) + d
  PROVE  Counted' /\ count' \in 0..(Wrap - 1)
<1> DEFINE P == Cardinality(PoppingBy(pc))
           P2 == Cardinality(PoppingBy(pc'))
           A == Cardinality(AddingBy(pc, chain))
           A2 == Cardinality(AddingBy(pc', chain'))
           p == PopWeight(pc, t)
           p2 == PopWeight(pc', t)
           a == AddWeight(pc, chain, t)
           a2 == AddWeight(pc', chain', t)
           n == Len(Stack)
           n2 == Len(Stack')
<1>0. Wrap \in Nat \ {0}
  BY PercpuAssumption, FS_CardinalityType
<1>1. /\ P = Cardinality(PoppingBy(pc) \ {t}) + p /\ A = Cardinality(AddingElse(pc, chain, t)) + a
      /\ p \in Nat /\ a \in Nat
  BY Tally, Zenon DEF Shape, Typed, Local
<1>2. /\ P2 = Cardinality(PoppingBy(pc') \ {t}) + p2 /\ A2 = Cardinality(AddingElse(pc', chain', t)) + a2
      /\ p2 \in Nat /\ a2 \in Nat
  BY Tally, Zenon DEF Shape, Typed, Local
<1>3. PoppingBy(pc') \ {t} = PoppingBy(pc) \ {t} /\ AddingElse(pc', chain', t) = AddingElse(pc, chain, t)
  <2>1. \A u \in Threads \ {t} : pc'[u] = pc[u] /\ chain'[u] = chain[u]
    BY DEF SameElsewhere
  <2>2. PoppingBy(pc') \ {t} = PoppingBy(pc) \ {t}
    BY <2>1 DEF PoppingBy
  <2>3. AddingElse(pc', chain', t) = AddingElse(pc, chain, t)
    BY <2>1 DEF AddingElse, AddingBy
  <2>. QED BY <2>2, <2>3
<1>4. /\ Cardinality(PoppingBy(pc) \ {t}) \in Nat /\ Cardinality(AddingElse(pc, chain, t)) \in Nat
      /\ P \in Nat /\ A \in Nat /\ P2 \in Nat /\ A2 \in Nat
  BY FiniteCounts, FS_RemoveElement, FS_CardinalityType, Zenon
<1>5. n \in Nat /\ n2 \in Nat
  BY DEF Shape, IsList
<1>6. n2 + p2 - a2 = n + p - a + d
  BY DEF Balance
<1>7. Counted <=> (Steady => count = (n + P - A) % Wrap)
  BY DEF Counted
<1>8. Counted' <=> (Steady' => count' = (n2 + P2 - A2) % Wrap)
  BY DEF Counted
<1>9. Steady' => Steady
  BY DEF Steady, SameElsewhere
<1> DEFINE C == Cardinality(PoppingBy(pc) \ {t})
           E == Cardinality(AddingElse(pc, chain, t))
<1>a. P = C + p /\ P2 = C + p2 /\ A = E + a /\ A2 = E + a2 /\ C \in Nat /\ E \in Nat
  BY <1>1, <1>2, <1>3, <1>4
<1> HIDE DEF P, P2, A, A2, p, p2, a, a2, n, n2, C, E
<1>10. n2 + P2 - A2 = (n + P - A) + d
  BY <1>1, <1>2, <1>5, <1>6, <1>a
<1>11. count' = (((n + P - A) % Wrap) + d) % Wrap => count' = (n2 + P2 - A2) % Wrap
  <2>1. n + P - A \in Int
    BY <1>4, <1>5
  <2>. QED BY <1>0, <1>10, <2>1, Modulo, Zenon
<1>12. Counted'
  BY <1>7, <1>8, <1>9, <1>11
<1>13. count' \in 0..(Wrap - 1)
  <2>1. count + d \in Int
    BY <1>0
  <2>. QED BY <1>0, <2>1, Remainder
<1>. QED BY <1>12, <1>13

(* The same when the step changes neither.                                 *)
LEMMA Kept ==
  ASSUME Shape, Shape', NEW t \in Threads, SameElsewhere(t), Counted, pc[t] # "flush_count",
         count \in 0..(Wrap - 1), raced' = raced, count' = count, Balance(t)' = Balance(t)
  PROVE  Counted' /\ count' \in 0..(Wrap - 1)
<1>1. Wrap \in Nat \ {0} /\ count \in Int
  BY PercpuAssumption, FS_CardinalityType
<1>2. (count + 0) % Wrap = count
  BY <1>1, Remainder
<1>3. Balance(t)' = Balance(t) + 0
  <2>1. Len(Stack) \in Nat /\ PopWeight(pc, t) \in Nat /\ AddWeight(pc, chain, t) \in Nat
    BY DEF Shape, IsList, Typed, PopWeight, AddWeight
  <2>. QED BY <2>1 DEF Balance
<1>. QED BY <1>2, <1>3, Recount

(* While a thread is inside an operation the table is neither freed nor    *)
(* missing.                                                                *)
LEMMA Busy ==
  ASSUME Life, NEW t \in Threads, pc[t] \notin {"idle", "drop"}
  PROVE  ~Freed /\ table
BY DEF Life, Freed

(* A step that does not free the table keeps Life.                         *)
LEMMA LifeKept ==
  ASSUME Life, NEW t \in Threads, SameElsewhere(t), ~Freed, table, table' = table, pc'[t] # "drop"
  PROVE  Life'
<1>1. \A u \in Threads : pc'[u] # "drop"
  BY DEF Freed, SameElsewhere
<1>. QED BY <1>1 DEF Life

(* No thread with a count to write: nothing lags.                          *)
LEMMA AllIdle ==
  ASSUME NEW p, NEW ch, \A u \in Threads : p[u] \notin {"pop_count", "add_count"}
  PROVE  Cardinality(PoppingBy(p)) = 0 /\ Cardinality(AddingBy(p, ch)) = 0
<1>1. PoppingBy(p) = {} /\ AddingBy(p, ch) = {}
  BY DEF PoppingBy, AddingBy
<1>. QED BY <1>1, FS_EmptySet

(* The form of an update of t's locals, for whatever value.                *)
LEMMA Elsewise ==
  ASSUME Typed, NEW t \in Threads,
         \/ \E label : Goto(t, label)
         \/ pc' = pc,
         \/ \E x : seen' = [seen EXCEPT ![t] = x]
         \/ seen' = seen,
         \/ \E q : chain' = [chain EXCEPT ![t] = q]
         \/ chain' = chain
  PROVE  SameElsewhere(t)
BY DEF Typed, Goto, SameElsewhere

(* A thread that returns is idle.                                          *)
LEMMA Returns ==
  ASSUME Typed, NEW t \in Threads, Return(t)
  PROVE  pc'[t] = "idle"
BY Moves DEF Return

(* The counter and the table after a step that changes the stack and the   *)
(* lag alike.                                                              *)
LEMMA GoodFrom ==
  ASSUME Good, Shape', NEW t \in Threads, SameElsewhere(t),
         pc[t] # "flush_count", pc[t] # "drop", pc'[t] # "drop", ~Freed, table,
         UNCHANGED <<table, raced, count>>, Balance(t)' = Balance(t)
  PROVE  Good'
<1>1. Life'
  BY LifeKept DEF Good
<1>2. Counted' /\ count' \in 0..(Wrap - 1)
  BY Kept DEF Good
<1>. QED BY <1>1, <1>2 DEF Good

(* percpu_pop, from its test of the table pointer, when the table is not   *)
(* freed.                                                                  *)
LEMMA PopStartGood ==
  ASSUME Good, NEW t \in Threads, PopStart(t), ~cut' PROVE Good'
<1>1. Shape' /\ Stack' = Stack
  BY PopStartShape DEF Good
<1>2. /\ pc[t] = "idle" /\ pc'[t] = "pop" /\ SameElsewhere(t) /\ ~Freed /\ table
      /\ UNCHANGED <<table, raced, count, chain>>
  BY Moves, Elsewise DEF Good, Shape, PopStart
<1>3. Balance(t)' = Balance(t)
  BY <1>1, <1>2 DEF Balance, PopWeight, AddWeight
<1>. QED BY <1>1, <1>2, <1>3, GoodFrom

(* The load of the head in percpu_pop.                                     *)
LEMMA PopLoadGood ==
  ASSUME Good, NEW t \in Threads, PopLoad(t) PROVE Good'
<1>1. Shape' /\ Stack' = Stack
  BY PopLoadShape DEF Good
<1>2. /\ pc[t] = "pop" /\ pc'[t] \in {"refill", "pop_next"} /\ SameElsewhere(t)
      /\ UNCHANGED <<table, raced, count, chain>>
  BY Moves, Elsewise, Zenon DEF Good, Shape, PopLoad, lifecycle
<1>3. Balance(t)' = Balance(t)
  BY <1>1, <1>2 DEF Balance, PopWeight, AddWeight
<1>4. ~Freed /\ table
  BY <1>2, Busy DEF Good
<1>. QED BY <1>1, <1>2, <1>3, <1>4, GoodFrom

(* The read of slot->next in percpu_pop.                                   *)
LEMMA PopNextGood ==
  ASSUME Good, NEW t \in Threads, PopNext(t) PROVE Good'
<1>1. Shape' /\ Stack' = Stack
  BY PopNextShape DEF Good
<1>2. /\ pc[t] = "pop_next" /\ pc'[t] = "pop_cas" /\ SameElsewhere(t)
      /\ UNCHANGED <<table, raced, count, chain>>
  BY Moves, Elsewise DEF Good, Shape, PopNext, lifecycle
<1>3. Balance(t)' = Balance(t)
  BY <1>1, <1>2 DEF Balance, PopWeight, AddWeight
<1>4. ~Freed /\ table
  BY <1>2, Busy DEF Good
<1>. QED BY <1>1, <1>2, <1>3, <1>4, GoodFrom

(* The lengths are natural numbers.                                        *)
LEMMA StackLength ==
  ASSUME Shape, NEW t \in Threads
  PROVE  Len(Stack) \in Nat /\ Len(chain[t]) \in Nat
BY DEF Shape, IsList, Typed

(* The compare-and-swap of percpu_pop: the stack is one shorter and one    *)
(* more decrement is due.                                                  *)
LEMMA PopCasGood ==
  ASSUME Good, NEW t \in Threads, PopCas(t), ~stale' PROVE Good'
<1>1. Shape' /\ (Popped(t) \/ NotPopped(t))
  BY PopCasShape DEF Good
<1>2. /\ pc[t] = "pop_cas" /\ pc'[t] \in {"refill", "pop_count"} /\ SameElsewhere(t)
      /\ UNCHANGED <<table, raced, count, chain>>
  BY Moves, Elsewise DEF Good, Shape, PopCas, lifecycle
<1>3. Balance(t)' = Balance(t)
  <2>1. CASE Popped(t)
    <3>1. Len(Stack) \in Nat
      BY StackLength DEF Good
    <3>. QED BY <1>2, <2>1, <3>1 DEF Popped, Balance, PopWeight, AddWeight
  <2>2. CASE NotPopped(t)
    BY <1>2, <2>2 DEF NotPopped, Balance, PopWeight, AddWeight
  <2>. QED BY <1>1, <2>1, <2>2
<1>4. ~Freed /\ table
  BY <1>2, Busy DEF Good
<1>. QED BY <1>1, <1>2, <1>3, <1>4, GoodFrom

(* The decrement after a pop.                                              *)
LEMMA PopCountGood ==
  ASSUME Good, NEW t \in Threads, PopCount(t) PROVE Good'
<1>1. Shape' /\ Stack' = Stack
  BY PopCountShape DEF Good
<1>2. /\ pc[t] = "pop_count" /\ pc'[t] = "idle" /\ SameElsewhere(t)
      /\ UNCHANGED <<table, raced, chain>> /\ count' = (count - 1) % Wrap
  BY Moves, Elsewise, Zenon DEF Good, Shape, PopCount, Return, lifecycle
<1>3. Balance(t)' = Balance(t) + (-1)
  <2>1. Len(Stack) \in Nat
    BY StackLength DEF Good
  <2>. QED BY <1>1, <1>2, <2>1 DEF Balance, PopWeight, AddWeight
<1>4. Counted' /\ count' \in 0..(Wrap - 1)
  <2>1. count' = (count + (-1)) % Wrap
    <3>1. count \in Int
      BY PercpuAssumption DEF Good
    <3>2. count - 1 = count + (-1)
      BY <3>1
    <3>. QED BY <1>2, <3>2
  <2>. QED BY <1>1, <1>2, <1>3, <2>1, Recount DEF Good
<1>5. Life'
  BY <1>2, Busy, LifeKept DEF Good
<1>. QED BY <1>1, <1>4, <1>5 DEF Good

(* mp_free hands a slot to percpu_push, when the table is not freed.       *)
LEMMA PushStartGood ==
  ASSUME Good, NEW t \in Threads, NEW s \in Slots, PushStart(t, s), ~cut' PROVE Good'
<1>1. Shape' /\ Stack' = Stack /\ pc'[t] \in {"idle", "push"} /\ (pc'[t] = "push" => table)
  BY PushStartShape DEF Good
<1>2. /\ pc[t] = "idle" /\ SameElsewhere(t) /\ UNCHANGED <<table, raced, count, head, closing>>
      /\ table => ~Freed
      /\ ~table => pc' = pc
  BY Elsewise, Zenon DEF Good, Shape, PushStart
<1>3. Balance(t)' = Balance(t)
  BY <1>1, <1>2 DEF Balance, PopWeight, AddWeight
<1>4. Life'
  <2>1. CASE table
    BY <1>1, <1>2, <2>1, LifeKept DEF Good
  <2>2. CASE ~table
    BY <1>2, <2>2 DEF Good, Life
  <2>. QED BY <2>1, <2>2
<1>5. Counted' /\ count' \in 0..(Wrap - 1)
  BY <1>1, <1>2, <1>3, Kept DEF Good
<1>. QED BY <1>1, <1>4, <1>5 DEF Good

(* percpu_push gives up, or loads the head and links its slot.             *)
LEMMA PushLoadGood ==
  ASSUME Good, NEW t \in Threads, PushLoad(t) PROVE Good'
<1>1. Shape' /\ Stack' = Stack /\ pc'[t] \in {"idle", "push_cas"}
  BY PushLoadShape DEF Good
<1>2. /\ pc[t] = "push" /\ SameElsewhere(t) /\ UNCHANGED <<table, raced, count>>
  BY Elsewise, Zenon DEF Good, Shape, PushLoad, Return, lifecycle
<1>3. Balance(t)' = Balance(t)
  BY <1>1, <1>2 DEF Balance, PopWeight, AddWeight
<1>4. ~Freed /\ table
  BY <1>2, Busy DEF Good
<1>. QED BY <1>1, <1>2, <1>3, <1>4, GoodFrom

(* The compare-and-swap of percpu_push and percpu_refill: the stack is     *)
(* longer and the addition is due.                                         *)
LEMMA PutChainGood ==
  ASSUME Good, NEW t \in Threads, NEW retry, PutChain(t, retry, "add_count"),
         \/ pc[t] = "push_cas" /\ retry = "push"
         \/ pc[t] = "refill_cas" /\ retry = "refill_load",
         UNCHANGED <<next, count, pages, live, seen, chain, raced, table>>
  PROVE  Good'
<1>1. Shape' /\ (Stacked(t, "add_count") \/ NotStacked(t, retry))
  BY PutChainShape DEF Good
<1>2. SameElsewhere(t)
  BY Elsewise DEF Good, Shape, PutChain
<1>3. Balance(t)' = Balance(t)
  <2>1. CASE Stacked(t, "add_count")
    <3>1. Len(Stack) \in Nat /\ Len(chain[t]) \in Nat
      BY StackLength DEF Good
    <3>2. /\ PopWeight(pc, t) = 0 /\ AddWeight(pc, chain, t) = 0
          /\ PopWeight(pc', t) = 0 /\ AddWeight(pc', chain', t) = Len(chain[t])
      BY <2>1 DEF Stacked, PopWeight, AddWeight
    <3>3. Len(Stack') = Len(Stack) + Len(chain[t])
      BY <2>1 DEF Stacked
    <3>. QED BY <3>1, <3>2, <3>3 DEF Balance
  <2>2. CASE NotStacked(t, retry)
    BY <2>2, Zenon DEF NotStacked, Balance, PopWeight, AddWeight
  <2>. QED BY <1>1, <2>1, <2>2
<1>4. ~Freed /\ table
  BY Busy DEF Good
<1>5. pc'[t] # "drop"
  BY <1>1 DEF Stacked, NotStacked
<1>. QED BY <1>1, <1>2, <1>3, <1>4, <1>5, GoodFrom

(* The addition after a push or a refill.                                  *)
LEMMA AddCountGood ==
  ASSUME Good, NEW t \in Threads, AddCount(t) PROVE Good'
<1>1. Shape' /\ Stack' = Stack
  BY AddCountShape DEF Good
<1>2. /\ pc[t] = "add_count" /\ pc'[t] = "idle" /\ SameElsewhere(t)
      /\ UNCHANGED <<table, raced>> /\ count' = (count + Len(chain[t])) % Wrap
  BY Moves, Elsewise, Zenon DEF Good, Shape, AddCount, Return, lifecycle
<1>3. Len(Stack) \in Nat /\ Len(chain[t]) \in Nat
  BY StackLength DEF Good
<1>4. Balance(t)' = Balance(t) + Len(chain[t])
  BY <1>1, <1>2, <1>3 DEF Balance, PopWeight, AddWeight
<1>5. Counted' /\ count' \in 0..(Wrap - 1)
  BY <1>1, <1>2, <1>3, <1>4, Recount DEF Good
<1>6. Life'
  BY <1>2, Busy, LifeKept DEF Good
<1>. QED BY <1>1, <1>5, <1>6 DEF Good

(* percpu_refill takes slots from the pages, or returns.                   *)
LEMMA RefillStartGood ==
  ASSUME Good, NEW t \in Threads, RefillStart(t) PROVE Good'
<1>1. Shape' /\ Stack' = Stack /\ pc'[t] \in {"idle", "refill_load"}
  BY RefillStartShape DEF Good
<1>2. /\ pc[t] = "refill" /\ SameElsewhere(t) /\ UNCHANGED <<table, raced, count>>
  BY Elsewise, Zenon DEF Good, Shape, RefillStart, Return, lifecycle
<1>3. Balance(t)' = Balance(t)
  BY <1>1, <1>2 DEF Balance, PopWeight, AddWeight
<1>4. ~Freed /\ table
  BY <1>2, Busy DEF Good
<1>. QED BY <1>1, <1>2, <1>3, <1>4, GoodFrom

(* percpu_refill links its chain to the head.                              *)
LEMMA RefillLoadGood ==
  ASSUME Good, NEW t \in Threads, RefillLoad(t) PROVE Good'
<1>1. Shape' /\ Stack' = Stack /\ pc'[t] = "refill_cas"
  BY RefillLoadShape DEF Good
<1>2. /\ pc[t] = "refill_load" /\ SameElsewhere(t) /\ UNCHANGED <<table, raced, count>>
  BY Elsewise, Zenon DEF Good, Shape, RefillLoad, lifecycle
<1>3. Balance(t)' = Balance(t)
  BY <1>1, <1>2 DEF Balance, PopWeight, AddWeight
<1>4. ~Freed /\ table
  BY <1>2, Busy DEF Good
<1>. QED BY <1>1, <1>2, <1>3, <1>4, GoodFrom

(* The exchange of percpu_flush: until it zeroes the count, the count is   *)
(* not the stack's.                                                        *)
LEMMA TakeStackGood ==
  ASSUME Good, NEW t \in Threads, TakeStack(t), ~Freed PROVE Good'
<1>1. Shape' /\ Stack' = <<>> /\ pc'[t] = "flush_count"
  BY TakeStackShape DEF Good
<1>2. SameElsewhere(t) /\ UNCHANGED <<table, count>> /\ table
  BY Elsewise, Zenon DEF Good, Shape, TakeStack
<1>3. ~Steady'
  BY <1>1 DEF Steady
<1>4. Life'
  BY <1>1, <1>2, LifeKept DEF Good
<1>. QED BY <1>1, <1>2, <1>3, <1>4 DEF Good, Counted

(* percpu_flush zeroes the count: right when no other operation is under   *)
(* way and nothing was pushed since the exchange.                          *)
LEMMA FlushCountGood ==
  ASSUME Good, NEW t \in Threads, FlushCount(t) PROVE Good'
<1>1. Shape' /\ Stack' = Stack
  BY FlushCountShape DEF Good
<1>2. /\ pc[t] = "flush_count" /\ pc'[t] = "flush" /\ SameElsewhere(t) /\ table' = table
      /\ count' = 0 /\ raced' = (raced \/ Met(t) \/ head # NULL)
  BY Moves, Elsewise DEF Good, Shape, FlushCount, lifecycle
<1>3. Life'
  BY <1>2, Busy, LifeKept DEF Good
<1>4. Counted'
  <2> SUFFICES ASSUME Steady'
               PROVE  count' = (Len(Stack') + Cardinality(PoppingBy(pc'))
                                            - Cardinality(AddingBy(pc', chain'))) % Wrap
    BY DEF Counted
  <2>1. ~Met(t) /\ head = NULL
    BY <1>2, Zenon DEF Steady
  <2>2. Len(Stack') = 0
    <3>1. IsList(next, head, Stack)
      BY DEF Good, Shape
    <3>. QED BY <1>1, <2>1, <3>1, NullIsEmpty
  <2>3. \A u \in Threads : pc'[u] \in {"idle", "flush"}
    BY <1>2, <2>1 DEF Met, SameElsewhere
  <2>4. Cardinality(PoppingBy(pc')) = 0 /\ Cardinality(AddingBy(pc', chain')) = 0
    BY <2>3, AllIdle
  <2>5. Wrap \in Nat \ {0}
    BY PercpuAssumption, FS_CardinalityType
  <2>6. 0 % Wrap = 0
    BY <2>5, Remainder
  <2>. QED BY <1>2, <2>2, <2>4, <2>6
<1>5. count' \in 0..(Wrap - 1)
  BY <1>2, PercpuAssumption, FS_CardinalityType
<1>. QED BY <1>1, <1>3, <1>4, <1>5 DEF Good

(* One turn of percpu_flush's loop.                                        *)
LEMMA FlushOneGood ==
  ASSUME Good, NEW t \in Threads, FlushOne(t) PROVE Good'
<1>1. Shape' /\ Stack' = Stack /\ pc' = pc
  BY FlushOneShape DEF Good
<1>2. /\ pc[t] = "flush" /\ SameElsewhere(t) /\ UNCHANGED <<table, raced, count>>
  BY Elsewise, Zenon DEF Good, Shape, FlushOne, lifecycle
<1>3. Balance(t)' = Balance(t)
  BY <1>1, <1>2 DEF Balance, PopWeight, AddWeight
<1>4. ~Freed /\ table
  BY <1>2, Busy DEF Good
<1>. QED BY <1>1, <1>2, <1>3, <1>4, GoodFrom

(* The end of percpu_flush.                                                *)
LEMMA FlushEndGood ==
  ASSUME Good, NEW t \in Threads, FlushEnd(t) PROVE Good'
<1>1. Shape' /\ Stack' = Stack
  BY FlushEndShape DEF Good
<1>2. /\ pc[t] = "flush" /\ pc'[t] = "idle" /\ SameElsewhere(t) /\ UNCHANGED <<table, raced, count>>
  BY Moves, Elsewise, Zenon DEF Good, Shape, FlushEnd, Return, lifecycle
<1>3. Balance(t)' = Balance(t)
  BY <1>1, <1>2 DEF Balance, PopWeight, AddWeight
<1>4. ~Freed /\ table
  BY <1>2, Busy DEF Good
<1>. QED BY <1>1, <1>2, <1>3, <1>4, GoodFrom

(* percpu_destroy frees the table when nobody else is in an operation and  *)
(* nothing was pushed late.                                                *)
LEMMA FreeTableGood ==
  ASSUME Good, NEW t \in Threads, FreeTable(t), ~cut' PROVE Good'
<1>1. Shape' /\ Stack' = Stack /\ pc'[t] = "drop" /\ SameElsewhere(t)
  BY FreeTableShape DEF Good
<1>2. /\ pc[t] = "flush" /\ UNCHANGED <<table, raced, count, chain, head, closing>>
      /\ t \in closing /\ ~Met(t) /\ head = NULL
  BY Zenon DEF FreeTable, LeftBehind
<1>3. Balance(t)' = Balance(t)
  BY <1>1, <1>2 DEF Balance, PopWeight, AddWeight
<1>4. Counted' /\ count' \in 0..(Wrap - 1)
  BY <1>1, <1>2, <1>3, Kept DEF Good
<1>5. table
  BY <1>2, Busy DEF Good
<1>6. \A u \in Threads \ {t} : pc'[u] = "idle"
  BY <1>1, <1>2 DEF Met, SameElsewhere
<1>7. Life'
  BY <1>1, <1>2, <1>5, <1>6 DEF Life
<1>. QED BY <1>1, <1>4, <1>7 DEF Good

(* mp_set_percpu_freelist sets the table pointer to NULL.                  *)
LEMMA DropTableGood ==
  ASSUME Good, NEW t \in Threads, DropTable(t) PROVE Good'
<1>1. Shape' /\ Stack' = Stack /\ pc'[t] = "idle" /\ SameElsewhere(t)
  BY DropTableShape DEF Good
<1>2. pc[t] = "drop" /\ UNCHANGED <<raced, count, chain, head>>
  BY Zenon DEF DropTable
<1>3. Balance(t)' = Balance(t)
  BY <1>1, <1>2 DEF Balance, PopWeight, AddWeight
<1>4. Counted' /\ count' \in 0..(Wrap - 1)
  BY <1>1, <1>2, <1>3, Kept DEF Good
<1>5. head = NULL /\ \A u \in Threads : pc'[u] = "idle"
  BY <1>1, <1>2 DEF Good, Life, SameElsewhere
<1>6. Life'
  BY <1>2, <1>5 DEF Life
<1>. QED BY <1>1, <1>4, <1>6 DEF Good

(* percpu_init: a table of empty entries.                                  *)
LEMMA EnableGood ==
  ASSUME Good, NEW t \in Threads, Enable(t) PROVE Good'
<1>1. /\ ~table /\ table' = TRUE /\ head' = NULL /\ count' = 0
      /\ UNCHANGED <<next, pages, live, pc, seen, chain>>
  BY DEF Enable
<1>2. head = NULL /\ \A u \in Threads : pc[u] = "idle"
  BY <1>1 DEF Good, Life
<1>3. Shape' /\ Stack' = Stack
  BY <1>1, <1>2, StillShape DEF Good
<1>4. Len(Stack) = 0
  BY <1>2, NullIsEmpty DEF Good, Shape
<1>5. Cardinality(PoppingBy(pc')) = 0 /\ Cardinality(AddingBy(pc', chain')) = 0
  BY <1>1, <1>2, AllIdle
<1>6. Wrap \in Nat \ {0}
  BY PercpuAssumption, FS_CardinalityType
<1>7. 0 % Wrap = 0
  BY <1>6, Remainder
<1>8. Counted' /\ count' \in 0..(Wrap - 1)
  BY <1>1, <1>3, <1>4, <1>5, <1>6, <1>7 DEF Counted
<1>9. Life'
  BY <1>1, <1>2 DEF Life
<1>. QED BY <1>3, <1>8, <1>9 DEF Good

(* A new pool: an empty stack, count 0, every slot on a page.              *)
LEMMA InitGood == Init => Good
<1> SUFFICES ASSUME Init PROVE Good
  OBVIOUS
<1>1. Stack = <<>> /\ IsList(next, head, Stack) /\ Members(Stack) = {}
  BY EmptyList DEF Init, Stack
<1>2. \A t \in Threads : pc[t] = "idle" /\ chain[t] = <<>> /\ seen[t] = NULL
  BY DEF Init
<1>3. Typed
  BY DEF Init, Typed
<1>4. \A t \in Threads : Local(t)
  BY <1>2, PercpuAssumption DEF Local, Chained, Flushing
<1>5. \A t \in Threads : Mine(t) = {} /\ Mines[t] = {}
  BY <1>2, MineCases DEF Mines, Chained, Flushing
<1>6. Parts(Members(Stack), pages, live, Mines)
  BY <1>1, <1>5 DEF Init, Parts
<1>7. Life
  BY <1>2 DEF Init, Life
<1>8. Cardinality(PoppingBy(pc)) = 0 /\ Cardinality(AddingBy(pc, chain)) = 0
  BY <1>2, AllIdle
<1>9. Wrap \in Nat \ {0}
  BY PercpuAssumption, FS_CardinalityType
<1>10. 0 % Wrap = 0
  BY <1>9, Remainder
<1>11. Counted /\ count \in 0..(Wrap - 1)
  BY <1>1, <1>8, <1>9, <1>10 DEF Init, Counted
<1>. QED BY <1>1, <1>3, <1>4, <1>6, <1>7, <1>11 DEF Good, Shape

(* Every step keeps the invariant.                                         *)
LEMMA NextKeeps ==
  ASSUME IInv, [Next]_vars PROVE IInv'
<1>1. CASE UNCHANGED vars
  <2>1. Stack' = Stack
    BY <1>1 DEF vars, Stack
  <2>2. \A t \in Threads : Mine(t)' = Mine(t)
    BY <1>1, MineCases DEF vars
  <2>3. Mines' = Mines
    BY <2>2 DEF Mines
  <2>4. (\A t \in Threads : Local(t)) => \A t \in Threads : Local(t)'
    BY <1>1, Zenon DEF vars, Local
  <2>5. Shape => Shape'
    <3>1. Typed => Typed'
      BY <1>1 DEF vars, Typed
    <3>2. IsList(next, head, Stack) => IsList(next, head, Stack)'
      BY <1>1, <2>1 DEF vars, IsList
    <3>3. Parts(Members(Stack), pages, live, Mines) => Parts(Members(Stack), pages, live, Mines)'
      BY <1>1, <2>1, <2>3 DEF vars, Parts
    <3>. QED BY <2>4, <3>1, <3>2, <3>3 DEF Shape
  <2>6. Life => Life'
    BY <1>1 DEF vars, Life
  <2>7. Counted => Counted'
    BY <1>1, <2>1 DEF vars, Counted, Steady
  <2>. QED BY <1>1, <2>5, <2>6, <2>7 DEF vars, IInv, Good
<1>2. CASE stale \/ cut
  <2>1. stale' = stale /\ cut' = cut
    BY <1>2 DEF Next, vars
  <2>. QED BY <1>2, <2>1 DEF IInv
<1>3. CASE ~stale /\ ~cut /\ Next
  <2> SUFFICES ASSUME ~stale', ~cut' PROVE Good'
    BY DEF IInv
  <2>1. Good
    BY <1>3 DEF IInv
  <2>2. PICK t \in Threads :
       \/ PopStart(t) \/ PopLoad(t) \/ PopNext(t) \/ PopCas(t) \/ PopCount(t)
       \/ \E s \in Slots : PushStart(t, s)
       \/ PushLoad(t) \/ PushCas(t) \/ AddCount(t)
       \/ RefillStart(t) \/ RefillLoad(t) \/ RefillCas(t)
       \/ FlushTake(t) \/ FlushCount(t) \/ FlushOne(t) \/ FlushEnd(t)
       \/ DisableStart(t) \/ FreeTable(t) \/ DropTable(t) \/ Enable(t)
    BY <1>3 DEF Next
  <2>3. CASE PopStart(t) \/ PopLoad(t) \/ PopNext(t) \/ PopCas(t) \/ PopCount(t)
    BY <2>1, <2>3, PopStartGood, PopLoadGood, PopNextGood, PopCasGood, PopCountGood
  <2>4. CASE (\E s \in Slots : PushStart(t, s)) \/ PushLoad(t) \/ AddCount(t)
    BY <2>1, <2>4, PushStartGood, PushLoadGood, AddCountGood
  <2>5. CASE PushCas(t)
    <3>1. /\ PutChain(t, "push", "add_count") /\ pc[t] = "push_cas"
          /\ UNCHANGED <<next, count, pages, live, seen, chain, raced, table>>
      BY <2>5 DEF PushCas, lifecycle
    <3>. QED BY <2>1, <3>1, PutChainGood
  <2>6. CASE RefillCas(t)
    <3>1. /\ PutChain(t, "refill_load", "add_count") /\ pc[t] = "refill_cas"
          /\ UNCHANGED <<next, count, pages, live, seen, chain, raced, table>>
      BY <2>6 DEF RefillCas, lifecycle
    <3>. QED BY <2>1, <3>1, PutChainGood
  <2>7. CASE RefillStart(t) \/ RefillLoad(t)
    BY <2>1, <2>7, RefillStartGood, RefillLoadGood
  <2>8. CASE FlushTake(t)
    BY <2>1, <2>8, TakeStackGood DEF FlushTake
  <2>9. CASE DisableStart(t)
    <3>1. TakeStack(t) /\ closing = {}
      BY <2>9 DEF DisableStart
    <3>2. ~Freed
      BY <2>1, <3>1 DEF Good, Life, Freed
    <3>. QED BY <2>1, <3>1, <3>2, TakeStackGood
  <2>10. CASE FlushCount(t) \/ FlushOne(t) \/ FlushEnd(t)
    BY <2>1, <2>10, FlushCountGood, FlushOneGood, FlushEndGood
  <2>11. CASE FreeTable(t) \/ DropTable(t) \/ Enable(t)
    BY <2>1, <2>11, FreeTableGood, DropTableGood, EnableGood
  <2>. QED BY <2>2, <2>3, <2>4, <2>5, <2>6, <2>7, <2>8, <2>9, <2>10, <2>11
<1>. QED BY <1>1, <1>2, <1>3

(* The invariant implies that each slot is in one place and, when no       *)
(* operation is under way, that the count is the length of the stack.      *)
LEMMA GoodIsSound == Good => EachSlotOnce /\ CountMatchesStack
<1> SUFFICES ASSUME Good PROVE EachSlotOnce /\ CountMatchesStack
  OBVIOUS
<1>1. IsList(next, head, Stack) /\ Stack \in Seq(Slots) /\ OneToOne(Stack)
  BY DEF Good, Shape, IsList
<1>2. Len(Stack) = Cardinality(Members(Stack)) /\ Len(Stack) <= Cardinality(Slots)
  BY <1>1, LengthIsSize
<1>3. EachSlotOnce
  <2>1. Parts(Members(Stack), pages, live, Mines)
    BY DEF Good, Shape
  <2>2. \A t \in Threads : Mines[t] = Mine(t)
    BY DEF Mines
  <2>3. {Mines[t] : t \in Threads} = {Mine(t) : t \in Threads}
    BY <2>2
  <2>. QED BY <1>2, <2>1, <2>2, <2>3 DEF EachSlotOnce, Parts, Stack
<1>4. CountMatchesStack
  <2> SUFFICES ASSUME Quiet, ~raced PROVE count = Len(Stack)
    BY DEF CountMatchesStack, Stack
  <2>1. Steady /\ \A u \in Threads : pc[u] \notin {"pop_count", "add_count"}
    BY DEF Quiet, Steady
  <2>2. Cardinality(PoppingBy(pc)) = 0 /\ Cardinality(AddingBy(pc, chain)) = 0
    BY <2>1, AllIdle
  <2>3. Len(Stack) \in Nat
    BY <1>1
  <2>4. count = Len(Stack) % Wrap
    BY <2>1, <2>2, <2>3 DEF Good, Counted
  <2>5. Wrap \in Nat \ {0} /\ Len(Stack) \in 0..(Wrap - 1)
    BY <1>2, <2>3, PercpuAssumption, FS_CardinalityType
  <2>6. \A x \in Int : x \in 0..(Wrap - 1) => x % Wrap = x
    BY <2>5, Remainder, Zenon
  <2>. QED BY <2>3, <2>4, <2>5, <2>6
<1>. QED BY <1>3, <1>4

(* percpu_pop, percpu_push, percpu_refill and percpu_flush, run by any     *)
(* number of threads in any interleaving of their atomic accesses, with    *)
(* mp_set_percpu_freelist freeing and allocating the table, neither lose   *)
(* nor duplicate a slot and keep the count right, unless percpu_pop has    *)
(* installed a link that changed after it was read, or the table was       *)
(* freed under an operation.                                               *)
THEOREM StackSound == Spec => []OnlyStaleLinksBreakIt
<1>1. Init => IInv
  BY InitGood DEF IInv
<1>2. IInv /\ [Next]_vars => IInv'
  BY NextKeeps
<1>3. IInv => OnlyStaleLinksBreakIt
  BY GoodIsSound DEF IInv, OnlyStaleLinksBreakIt
<1>. QED BY <1>1, <1>2, <1>3, PTL DEF Spec

(* The chain thread u has not put on the stack yet.                        *)
Held(u) == IF pc[u] \in Chained THEN Members(chain[u]) ELSE {}

(* The slot percpu_pop has seen at the head is not with a caller and in    *)
(* no chain, so it cannot come back to the stack; while it is there, its   *)
(* link is the one that was read.                                          *)
Settled(p) ==
  pc[p] \in {"pop_next", "pop_cas"} =>
    /\ seen[p] \notin live
    /\ \A u \in Threads : seen[p] \notin Held(u)
    /\ pc[p] = "pop_cas" /\ seen[p] \in Members(Stack) => next[seen[p]] = after[p]

(* The links that were read, one per thread.                               *)
AfterTyped == after = [t \in Threads |-> after[t]]

(* Where a thread that never allocates can be.                             *)
NeverPops == {"idle", "push", "push_cas", "add_count", "flush_count", "flush", "drop"}

(* The invariant of an entry with one popping thread.                      *)
Alone(p) ==
  /\ Good /\ Settled(p) /\ AfterTyped
  /\ \A u \in Threads \ {p} : pc[u] \in NeverPops

(* A step of u leaves the links the others read alone.                     *)
LEMMA AfterKept ==
  ASSUME AfterTyped, NEW u \in Threads,
         \/ \E x : after' = [after EXCEPT ![u] = x]
         \/ after' = after
  PROVE  AfterTyped' /\ \A t \in Threads \ {u} : after'[t] = after[t]
BY DEF AfterTyped

(* A step of another thread keeps the popper's slot out of callers and     *)
(* chains, when it puts on the stack only what it held and writes only     *)
(* links it held.                                                          *)
LEMMA SettledElsewhere ==
  ASSUME Shape, NEW p \in Threads, Settled(p), NEW u \in Threads \ {p}, SameElsewhere(u),
         after'[p] = after[p], live' \subseteq live, Held(u)' \subseteq live \cup Held(u),
         Members(Stack)' \subseteq Members(Stack) \cup Held(u),
         \A s \in Slots : next'[s] # next[s] => s \in Held(u)
  PROVE  Settled(p)'
<1> SUFFICES ASSUME pc'[p] \in {"pop_next", "pop_cas"}
             PROVE  /\ seen'[p] \notin live'
                    /\ \A v \in Threads : seen'[p] \notin Held(v)'
                    /\ pc'[p] = "pop_cas" /\ seen'[p] \in Members(Stack)' => next'[seen'[p]] = after'[p]
  BY DEF Settled
<1>1. pc'[p] = pc[p] /\ seen'[p] = seen[p]
  BY Zenon DEF SameElsewhere
<1>2. /\ seen[p] \notin live /\ \A v \in Threads : seen[p] \notin Held(v)
      /\ pc[p] = "pop_cas" /\ seen[p] \in Members(Stack) => next[seen[p]] = after[p]
      /\ seen[p] \in Slots
  BY <1>1, Zenon DEF Settled, Shape, Local
<1>3. \A v \in Threads \ {u} : Held(v)' = Held(v)
  BY Zenon DEF Held, SameElsewhere
<1>4. next'[seen[p]] = next[seen[p]]
  BY <1>2
<1>. QED BY <1>1, <1>2, <1>3, <1>4

(* percpu_push by another thread: its slot comes from a caller, so it is   *)
(* not the popper's.                                                       *)
LEMMA PushingSettled ==
  ASSUME Good, NEW p \in Threads, Settled(p), AfterTyped, NEW u \in Threads \ {p},
         (\E s \in Slots : PushStart(u, s)) \/ PushLoad(u) \/ PushCas(u) \/ AddCount(u), ~cut'
  PROVE  Settled(p)' /\ AfterTyped' /\ pc'[u] \in NeverPops /\ SameElsewhere(u)
<1>0. Shape /\ Typed /\ chain[u] \in Seq(Slots)
  BY Zenon DEF Good, Shape, Typed
<1>1. ASSUME NEW s \in Slots, PushStart(u, s)
      PROVE  Settled(p)' /\ AfterTyped' /\ pc'[u] \in NeverPops /\ SameElsewhere(u)
  <2>1. /\ Stack' = Stack /\ pc'[u] \in {"idle", "push"}
    BY <1>0, <1>1, PushStartShape, Zenon
  <2>2. /\ s \in live /\ live' \subseteq live /\ next' = next /\ after' = after
        /\ SameElsewhere(u) /\ (pc'[u] = "push" => chain' = [chain EXCEPT ![u] = <<s>>])
    BY <1>0, <1>1, Elsewise, Zenon DEF PushStart
  <2>3. Held(u)' \subseteq live
    <3>1. CASE pc'[u] = "push"
      BY <1>0, <2>2, <3>1, Holds, LoneChain DEF Held
    <3>2. CASE pc'[u] = "idle"
      BY <3>2 DEF Held, Chained
    <3>. QED BY <2>1, <3>1, <3>2
  <2>4. Settled(p)'
    BY <1>0, <2>1, <2>2, <2>3, SettledElsewhere, Zenon
  <2>. QED BY <2>1, <2>2, <2>4 DEF AfterTyped, NeverPops
<1>2. CASE PushLoad(u)
  <2>1. Stack' = Stack /\ pc'[u] \in {"idle", "push_cas"}
    BY <1>0, <1>2, PushLoadShape, Zenon
  <2>2. /\ pc[u] = "push" /\ live' = live /\ SameElsewhere(u)
        /\ AfterTyped' /\ after'[p] = after[p]
    BY <1>0, <1>2, Elsewise, AfterKept, Zenon DEF PushLoad, Return
  <2>3. chain[u][1] \in Held(u) /\ chain[u][1] \in Slots
    <3>1. Len(chain[u]) = 1
      BY <2>2, Zenon DEF Good, Shape, Local
    <3>2. Held(u) = Members(chain[u])
      BY <2>2, Zenon DEF Held, Chained
    <3>3. chain[u] \in Seq(Slots)
      BY <1>0, Zenon DEF Good, Shape, Typed
    <3>5. 1 \in 1..Len(chain[u])
      BY <3>1
    <3>4. chain[u][1] \in Members(chain[u]) /\ chain[u][1] \in Slots
      BY <3>3, <3>5, MemberAt, Zenon
    <3>. QED BY <3>2, <3>4
  <2>4. \A s \in Slots : next'[s] # next[s] => s \in Held(u)
    BY <1>0, <1>2, <2>3, Zenon DEF PushLoad, Typed
  <2>5. Held(u)' \subseteq Held(u)
    <3>1. CASE pc'[u] = "idle"
      BY <3>1, Zenon DEF Held, Chained
    <3>2. CASE pc'[u] = "push_cas"
      <4>1. chain' = chain
        BY <1>0, <1>2, <3>2, Moves DEF PushLoad, Return
      <4>. QED BY <2>2, <3>2, <4>1 DEF Held, Chained
    <3>. QED BY <2>1, <3>1, <3>2
  <2>6. Settled(p)'
    BY <1>0, <2>1, <2>2, <2>4, <2>5, SettledElsewhere, Zenon
  <2>. QED BY <2>1, <2>2, <2>6, Zenon DEF NeverPops
<1>3. CASE PushCas(u)
  <2>1. /\ pc[u] = "push_cas" /\ PutChain(u, "push", "add_count") /\ SameElsewhere(u)
        /\ UNCHANGED <<next, pages, live, seen, chain, after>>
        /\ pc'[u] \in {"push", "add_count"}
    BY <1>0, <1>3, Elsewise, Moves DEF PushCas, PutChain
  <2>2. Held(u) = Members(chain[u]) /\ Held(u)' \subseteq Held(u)
    BY <2>1 DEF Held, Chained
  <2>3. Members(Stack)' \subseteq Members(Stack) \cup Held(u)
    <3>1. Shape'
      BY <1>0, <2>1, PutChainShape, Zenon
    <3>2. Parts(Members(Stack), pages, live, Mines) /\ Parts(Members(Stack), pages, live, Mines)'
      BY <1>0, <3>1 DEF Shape
    <3>3. ASSUME NEW x \in Members(Stack)' PROVE x \in Members(Stack) \cup Held(u)
      <4>1. x \in Slots /\ x \notin pages /\ x \notin live /\ \A v \in Threads : x \notin Mine(v)'
        BY <2>1, <3>2 DEF Parts, Mines
      <4>2. x \in Members(Stack) \/ \E v \in Threads : x \in Mine(v)
        BY <3>2, <4>1 DEF Parts, Mines
      <4>3. \A v \in Threads \ {u} : Mine(v)' = Mine(v)
        BY <1>0, <2>1, Elsewhere, Zenon
      <4>4. Mine(u) = Held(u)
        BY <2>1, <2>2, MineCases, Zenon DEF Chained
      <4>. QED BY <4>1, <4>2, <4>3, <4>4
    <3>. QED BY <3>3
  <2>4. Settled(p)'
    BY <1>0, <2>1, <2>2, <2>3, SettledElsewhere, Zenon
  <2>. QED BY <2>1, <2>4 DEF AfterTyped, NeverPops
<1>4. CASE AddCount(u)
  <2>1. Stack' = Stack
    BY <1>0, <1>4, AddCountShape
  <2>2. /\ pc'[u] = "idle" /\ live' = live /\ next' = next /\ SameElsewhere(u)
        /\ AfterTyped' /\ after'[p] = after[p]
    BY <1>0, <1>4, Elsewise, Moves, AfterKept, Zenon DEF AddCount, Return
  <2>3. Held(u)' = {}
    BY <2>2 DEF Held, Chained
  <2>4. Settled(p)'
    BY <1>0, <2>1, <2>2, <2>3, SettledElsewhere, Zenon
  <2>. QED BY <2>2, <2>4, Zenon DEF NeverPops
<1>. QED BY <1>1, <1>2, <1>3, <1>4

(* percpu_flush, mp_set_percpu_freelist and percpu_init by another thread  *)
(* put nothing on the stack.                                               *)
LEMMA FlushingSettled ==
  ASSUME Good, NEW p \in Threads, Settled(p), AfterTyped, NEW u \in Threads \ {p},
         \/ TakeStack(u) \/ FlushCount(u) \/ FlushOne(u) \/ FlushEnd(u)
         \/ FreeTable(u) \/ DropTable(u) \/ Enable(u)
  PROVE  Settled(p)' /\ AfterTyped' /\ pc'[u] \in NeverPops /\ SameElsewhere(u)
<1>0. Shape /\ Typed
  BY DEF Good, Shape
<1>1. live' = live /\ next' = next
  BY Zenon DEF TakeStack, FlushCount, FlushOne, FlushEnd, FreeTable, DropTable, Enable
<1>2. AfterTyped' /\ after'[p] = after[p]
  BY AfterKept, Zenon DEF TakeStack, FlushCount, FlushOne, FlushEnd, FreeTable, DropTable, Enable, Return
<1>3. pc'[u] \in {"idle", "flush_count", "flush", "drop"}
  BY <1>0, Moves, Zenon DEF TakeStack, FlushCount, FlushOne, FlushEnd, FreeTable, DropTable, Enable, Return
<1>4. SameElsewhere(u)
  BY <1>0, Elsewise, Zenon DEF TakeStack, FlushCount, FlushOne, FlushEnd, FreeTable, DropTable, Enable, Return
<1>5. Stack' = Stack \/ Stack' = <<>>
  <2>1. CASE TakeStack(u)
    BY <1>0, <2>1, TakeStackShape
  <2>2. CASE FlushCount(u) \/ FlushOne(u) \/ FlushEnd(u)
    BY <1>0, <2>2, FlushCountShape, FlushOneShape, FlushEndShape
  <2>3. CASE FreeTable(u) \/ DropTable(u)
    BY <1>0, <2>3, FreeTableShape, DropTableShape
  <2>4. CASE Enable(u)
    <3>1. head' = NULL
      BY <2>4 DEF Enable
    <3>. QED BY <3>1, EmptyList DEF Stack
  <2>. QED BY <2>1, <2>2, <2>3, <2>4
<1>6. Members(Stack)' \subseteq Members(Stack)
  <2>1. Members(Stack)' = Members(Stack')
    BY DEF Members
  <2>. QED BY <1>5, <2>1, EmptyList
<1>7. Held(u)' = {}
  BY <1>3 DEF Held, Chained
<1>8. Settled(p)'
  BY <1>0, <1>1, <1>2, <1>4, <1>6, <1>7, SettledElsewhere, Zenon
<1>. QED BY <1>2, <1>3, <1>4, <1>8, Zenon DEF NeverPops

(* The popper's own steps; its compare-and-swap installs the current       *)
(* link.                                                                   *)
LEMMA PopperSettled ==
  ASSUME Good, NEW p \in Threads, Settled(p), AfterTyped,
         \/ PopStart(p) \/ PopLoad(p) \/ PopNext(p) \/ PopCas(p) \/ PopCount(p)
         \/ \E s \in Slots : PushStart(p, s)
         \/ PushLoad(p) \/ PushCas(p) \/ AddCount(p)
         \/ RefillStart(p) \/ RefillLoad(p) \/ RefillCas(p)
         \/ TakeStack(p) \/ FlushCount(p) \/ FlushOne(p) \/ FlushEnd(p)
         \/ FreeTable(p) \/ DropTable(p) \/ Enable(p)
  PROVE  Settled(p)' /\ AfterTyped' /\ SameElsewhere(p) /\ (~stale => ~stale')
<1>0. Shape /\ Typed
  BY DEF Good, Shape
<1>1. CASE PopLoad(p)
  <2>1. /\ pc'[p] \in {"refill", "pop_next"} /\ (pc'[p] = "pop_next" => head # NULL)
        /\ seen'[p] = head /\ SameElsewhere(p) /\ UNCHANGED <<head, live, after, stale, chain>>
    <3>1. head \in Slots \cup {NULL}
      BY <1>0 DEF Typed
    <3>2. /\ seen' = [seen EXCEPT ![p] = head]
          /\ Goto(p, IF head = NULL THEN "refill" ELSE "pop_next")
          /\ UNCHANGED <<head, live, after, stale, chain>>
      BY <1>1 DEF PopLoad
    <3>3. pc'[p] = IF head = NULL THEN "refill" ELSE "pop_next"
      BY <1>0, <3>2, Moves
    <3>4. seen'[p] = head
      BY <1>0, <3>1, <3>2, Sees, Zenon
    <3>5. SameElsewhere(p)
      BY <1>0, <3>2, Elsewise, Zenon
    <3>. QED BY <3>2, <3>3, <3>4, <3>5, Zenon
  <2>2. head # NULL => head \in Members(Stack)
    BY <1>0, NullIsEmpty DEF Shape
  <2>3. head \in Members(Stack) => head \notin live /\ \A u \in Threads : head \notin Mine(u)
    BY <1>0, Apart
  <2>4. \A u \in Threads : Held(u)' \subseteq Mine(u)
    <3>1. Held(p)' = {}
      BY <2>1, Zenon DEF Held, Chained
    <3>2. \A u \in Threads \ {p} : Held(u)' \subseteq Mine(u)
      BY <2>1, MineCases, Zenon DEF Held, SameElsewhere
    <3>. QED BY <3>1, <3>2
  <2>5. Settled(p)'
    BY <2>1, <2>2, <2>3, <2>4, Zenon DEF Settled
  <2>. QED BY <2>1, <2>5 DEF AfterTyped
<1>2. CASE PopNext(p)
  <2>1. /\ pc[p] = "pop_next" /\ pc'[p] = "pop_cas" /\ SameElsewhere(p)
        /\ UNCHANGED <<head, live, next, seen, stale, chain>>
        /\ AfterTyped' /\ after'[p] = next[seen[p]]
    BY <1>0, <1>2, Moves, Elsewise, AfterKept, Zenon DEF PopNext, AfterTyped
  <2>2. \A u \in Threads : Held(u)' \subseteq Held(u)
    BY <2>1, Zenon DEF Held, Chained, SameElsewhere
  <2>3. Settled(p)'
    BY <2>1, <2>2, Zenon DEF Settled
  <2>. QED BY <2>1, <2>3, Zenon
<1>3. CASE PopCas(p)
  <2>1. /\ pc[p] = "pop_cas" /\ pc'[p] \in {"refill", "pop_count"} /\ SameElsewhere(p) /\ after' = after
    BY <1>0, <1>3, Moves, Elsewise, Zenon DEF PopCas
  <2>2. ~stale => ~stale'
    <3>1. seen[p] \in Slots /\ seen[p] # NULL
      BY <2>1, PercpuAssumption, Zenon DEF Good, Shape, Local
    <3>2. head = seen[p] => seen[p] \in Members(Stack)
      BY <1>0, <3>1, NullIsEmpty DEF Shape
    <3>3. head = seen[p] => next[seen[p]] = after[p]
      BY <2>1, <3>2, Zenon DEF Settled
    <3>. QED BY <1>3, <3>3, Zenon DEF PopCas
  <2>. QED BY <2>1, <2>2 DEF Settled, AfterTyped
<1>4. CASE PopStart(p) \/ PopCount(p) \/ RefillStart(p) \/ RefillLoad(p) \/ RefillCas(p)
  <2>1. pc'[p] \notin {"pop_next", "pop_cas"}
    <3>1. CASE PopStart(p)
      BY <1>0, <3>1, Moves DEF PopStart
    <3>2. CASE PopCount(p)
      BY <1>0, <3>2, Returns, Zenon DEF PopCount
    <3>3. CASE RefillStart(p)
      BY <1>0, <3>3, Moves DEF RefillStart, Return
    <3>4. CASE RefillLoad(p)
      BY <1>0, <3>4, Moves DEF RefillLoad, Return
    <3>5. CASE RefillCas(p)
      BY <1>0, <3>5, Moves DEF RefillCas, PutChain
    <3>. QED BY <1>4, <3>1, <3>2, <3>3, <3>4, <3>5
  <2>2. SameElsewhere(p) /\ stale' = stale
    BY <1>0, <1>4, Elsewise, Zenon DEF PopStart, PopCount, RefillStart, RefillLoad, RefillCas, PutChain, Return
  <2>3. AfterTyped'
    BY <1>4, AfterKept, ZenonT(40) DEF PopStart, PopCount, RefillStart, RefillLoad, RefillCas, Return
  <2>. QED BY <2>1, <2>2, <2>3, Zenon DEF Settled
<1>5. CASE (\E s \in Slots : PushStart(p, s)) \/ PushLoad(p) \/ PushCas(p) \/ AddCount(p)
  <2>1. pc'[p] \notin {"pop_next", "pop_cas"}
    <3>1. CASE \E s \in Slots : PushStart(p, s)
      BY <1>0, <3>1, Moves DEF PushStart, Return
    <3>2. CASE PushLoad(p)
      <4>1. Return(p) \/ Goto(p, "push_cas")
        BY <3>2, Zenon DEF PushLoad
      <4>. QED BY <1>0, <4>1, Moves, Returns
    <3>3. CASE PushCas(p)
      BY <1>0, <3>3, Moves DEF PushCas, PutChain
    <3>4. CASE AddCount(p)
      BY <1>0, <3>4, Moves DEF AddCount, Return
    <3>. QED BY <1>5, <3>1, <3>2, <3>3, <3>4, Zenon
  <2>2. SameElsewhere(p) /\ stale' = stale
    BY <1>0, <1>5, Elsewise, Zenon DEF PushStart, PushLoad, PushCas, AddCount, PutChain, Return
  <2>3. AfterTyped'
    BY <1>5, AfterKept, Zenon DEF PushStart, PushLoad, PushCas, AddCount, Return
  <2>. QED BY <2>1, <2>2, <2>3 DEF Settled
<1>6. CASE \/ TakeStack(p) \/ FlushCount(p) \/ FlushOne(p) \/ FlushEnd(p)
           \/ FreeTable(p) \/ DropTable(p) \/ Enable(p)
  <2>1. pc'[p] \notin {"pop_next", "pop_cas"}
    <3>1. CASE TakeStack(p)
      BY <1>0, <3>1, Moves DEF TakeStack, Return
    <3>2. CASE FlushCount(p)
      BY <1>0, <3>2, Moves DEF FlushCount
    <3>3. CASE FlushOne(p)
      BY <1>0, <3>3, Moves, Zenon DEF FlushOne
    <3>4. CASE FlushEnd(p)
      BY <1>0, <3>4, Moves DEF FlushEnd, Return
    <3>5. CASE FreeTable(p)
      BY <1>0, <3>5, Moves DEF FreeTable
    <3>6. CASE DropTable(p)
      BY <1>0, <3>6, Moves DEF DropTable, Return
    <3>7. CASE Enable(p)
      BY <1>0, <3>7, Zenon DEF Enable
    <3>. QED BY <1>6, <3>1, <3>2, <3>3, <3>4, <3>5, <3>6, <3>7, Zenon
  <2>2. SameElsewhere(p) /\ stale' = stale
    BY <1>0, <1>6, Elsewise, Zenon DEF TakeStack, FlushCount, FlushOne, FlushEnd, FreeTable, DropTable, Enable, Return
  <2>3. AfterTyped'
    BY <1>6, AfterKept, Zenon DEF TakeStack, FlushCount, FlushOne, FlushEnd, FreeTable, DropTable, Enable, Return
  <2>. QED BY <2>1, <2>2, <2>3 DEF Settled
<1>. QED BY <1>1, <1>2, <1>3, <1>4, <1>5, <1>6, Zenon

(* The inductive invariant for one popping thread.                         *)
Undisturbed(p) == ~stale /\ (cut \/ Alone(p))

(* Every step keeps it.                                                    *)
LEMMA OnePopperStep ==
  ASSUME NEW p \in Threads, Poppers = {p}, Undisturbed(p), [Next]_vars
  PROVE  Undisturbed(p)'
<1>0. IInv /\ IInv'
  BY NextKeeps DEF Undisturbed, Alone, IInv
<1>1. CASE UNCHANGED vars
  <2>1. stale' = stale /\ cut' = cut /\ ~stale
    BY <1>1 DEF vars, Undisturbed
  <2>2. ASSUME ~cut PROVE Alone(p)'
    <3>1. Alone(p) /\ Good'
      BY <1>0, <2>1, <2>2 DEF Undisturbed, IInv
    <3>2. Settled(p)'
      BY <1>1, <3>1, Zenon DEF vars, Alone, Settled, Held, Stack
    <3>. QED BY <1>1, <3>1, <3>2 DEF vars, Alone, AfterTyped
  <2>. QED BY <2>1, <2>2 DEF Undisturbed
<1>2. CASE cut /\ Next
  BY <1>2 DEF Next, vars, Undisturbed
<1>3. CASE ~cut /\ Next
  <2>1. Alone(p) /\ Good /\ ~stale /\ Settled(p) /\ AfterTyped
    BY <1>3 DEF Undisturbed, Alone
  <2>2. PICK u \in Threads :
       \/ PopStart(u) \/ PopLoad(u) \/ PopNext(u) \/ PopCas(u) \/ PopCount(u)
       \/ \E s \in Slots : PushStart(u, s)
       \/ PushLoad(u) \/ PushCas(u) \/ AddCount(u)
       \/ RefillStart(u) \/ RefillLoad(u) \/ RefillCas(u)
       \/ FlushTake(u) \/ FlushCount(u) \/ FlushOne(u) \/ FlushEnd(u)
       \/ DisableStart(u) \/ FreeTable(u) \/ DropTable(u) \/ Enable(u)
    BY <1>3, <2>1, Zenon DEF Next
  <2>3. CASE u = p
    <3>1. Settled(p)' /\ AfterTyped' /\ SameElsewhere(p) /\ ~stale'
      BY <2>1, <2>2, <2>3, PopperSettled, Zenon DEF FlushTake, DisableStart
    <3>2. ~cut' => Good'
      BY <1>0, <3>1 DEF IInv
    <3>. QED BY <2>1, <3>1, <3>2, Zenon DEF Undisturbed, Alone, SameElsewhere
  <2>4. CASE u # p
    <3>1. pc[u] \in NeverPops /\ u \notin Poppers
      BY <2>1, <2>4 DEF Alone
    <3>2. \/ \E s \in Slots : PushStart(u, s)
          \/ PushLoad(u) \/ PushCas(u) \/ AddCount(u)
          \/ TakeStack(u) \/ FlushCount(u) \/ FlushOne(u) \/ FlushEnd(u)
          \/ FreeTable(u) \/ DropTable(u) \/ Enable(u)
      BY <2>2, <3>1, Zenon DEF NeverPops, PopStart, PopLoad, PopNext, PopCas, PopCount,
                        RefillStart, RefillLoad, RefillCas, FlushTake, DisableStart
    <3>3. stale' = stale
      BY <3>2, Zenon DEF PushStart, PushLoad, PushCas, AddCount, TakeStack, FlushCount, FlushOne,
                  FlushEnd, FreeTable, DropTable, Enable
    <3>4. ASSUME ~cut' PROVE Alone(p)'
      <4>1. Settled(p)' /\ AfterTyped' /\ pc'[u] \in NeverPops /\ SameElsewhere(u)
        BY <2>1, <2>4, <3>2, <3>4, PushingSettled, FlushingSettled
      <4>2. Good'
        BY <1>0, <2>1, <3>3, <3>4 DEF IInv
      <4>3. \A v \in Threads \ {p} : pc'[v] \in NeverPops
        BY <2>1, <4>1, Zenon DEF Alone, SameElsewhere
      <4>. QED BY <4>1, <4>2, <4>3 DEF Alone
    <3>. QED BY <2>1, <3>3, <3>4 DEF Undisturbed
  <2>. QED BY <2>3, <2>4
<1>. QED BY <1>1, <1>2, <1>3

(* When one thread only allocates from an entry, and any number of others  *)
(* free into it and flush it, the compare-and-swap of percpu_pop never     *)
(* installs a stale link: a slot leaves the stack and returns to it only   *)
(* through that thread. The stack and the count are then right until the   *)
(* table is freed under an operation.                                      *)
THEOREM OnePopperNeverStale ==
  ASSUME NEW p, Poppers = {p}
  PROVE  Spec => [](~stale /\ (~cut => EachSlotOnce /\ CountMatchesStack))
<1>0. p \in Threads
  BY PercpuAssumption
<1>1. Init => Undisturbed(p)
  <2> SUFFICES ASSUME Init PROVE Undisturbed(p)
    OBVIOUS
  <2>1. Good /\ \A t \in Threads : pc[t] = "idle"
    BY InitGood DEF Init
  <2>2. ~stale /\ AfterTyped
    BY DEF Init, AfterTyped
  <2>. QED BY <1>0, <2>1, <2>2 DEF Undisturbed, Alone, Settled, NeverPops
<1>2. Undisturbed(p) /\ [Next]_vars => Undisturbed(p)'
  BY <1>0, OnePopperStep
<1>3. Undisturbed(p) => ~stale /\ (~cut => EachSlotOnce /\ CountMatchesStack)
  BY GoodIsSound DEF Undisturbed, Alone
<1>. QED BY <1>1, <1>2, <1>3, PTL DEF Spec
=============================================================================
