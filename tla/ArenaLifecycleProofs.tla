------------------------- MODULE ArenaLifecycleProofs -------------------------
(***************************************************************************)
(* For any number of threads and blocks: when mp_alloc enters its blocks   *)
(* in the active list under the pool's lock (no MP_FLAG_FAST_PATH), the    *)
(* region of an arena is released at most once and never under a block in  *)
(* use.  The inductive invariant says, besides types, who can be where     *)
(* (Discipline), that the counter is exact (CountExact), what the thread   *)
(* that brought it to zero knows while it holds the lock (LastKnows), and  *)
(* what a claim means (ClaimMeans).                                        *)
(***************************************************************************)
EXTENDS ArenaLifecycle, FiniteSetTheorems, TLAPS

Used == {b \in Blocks : place[b] \in {"counted", "live"}}

Freeing == \E t \in Threads : pc[t] \in {"put", "uncount"}

Discipline ==
  /\ retired <=> ~attached
  /\ \A t \in Threads :
       /\ pc[t] \in {"put", "uncount", "check"} => lock = t
       /\ pc[t] \in {"count", "publish"} => t = Owner /\ attached
       /\ pc[t] = "retire" => t = Owner /\ ~attached
       /\ pc[t] \in {"count", "publish", "put"} => held[t] \in Blocks
       /\ pc[t] = "count" => place[held[t]] = "taken"
       /\ pc[t] = "publish" => place[held[t]] = "counted"
       /\ pc[t] = "put" => place[held[t]] = "freeing"
  /\ \A b \in Blocks :
       /\ place[b] = "taken" => pc[Owner] = "count" /\ held[Owner] = b
       /\ place[b] = "counted" => pc[Owner] = "publish" /\ held[Owner] = b
       /\ place[b] = "freeing" => \E t \in Threads : pc[t] = "put" /\ held[t] = b

CountExact == live_bytes = Cardinality(Used) + (IF Freeing THEN 1 ELSE 0)

(* The thread that brought live_bytes to zero still holds the lock, so the *)
(* owner may have taken a block since but cannot have returned from it.    *)
LastKnows ==
  \A t \in Threads : pc[t] = "check" /\ last[t] => \A b \in Blocks : place[b] # "live"

ClaimMeans ==
  /\ claimed =>
       /\ retired
       /\ \A b \in Blocks : place[b] \in {"free", "mailbox"}
       /\ \A t \in Threads : pc[t] \notin {"count", "publish", "put", "uncount"}
  /\ \A t \in Threads : pc[t] = "cleanup" =>
       /\ claimed /\ ~finished
       /\ \A u \in Threads : pc[u] = "cleanup" => u = t
  /\ finished => claimed
  /\ destroyed => ~attached /\ \A t \in Threads : pc[t] = "idle"
  /\ releases = IF finished \/ destroyed THEN 1 ELSE 0

ArenaInv == TypeOK /\ Discipline /\ CountExact /\ LastKnows /\ ClaimMeans

(* The blocks in use are finitely many.                                    *)
LEMMA UsedFinite == IsFiniteSet(Used) /\ Cardinality(Used) \in Nat
<1>1. Used \subseteq Blocks
  BY DEF Used
<1> QED
  BY <1>1, ArenaAssumption, FS_Subset, FS_CardinalityType

(* What one more or one less block in use does to the count.               *)
LEMMA UsedChanges ==
  /\ \A b \in Blocks \ Used : Cardinality(Used \cup {b}) = Cardinality(Used) + 1
  /\ \A b \in Used : Cardinality(Used \ {b}) = Cardinality(Used) - 1
  /\ Cardinality(Used) = 0 <=> Used = {}
BY UsedFinite, FS_AddElement, FS_RemoveElement, FS_EmptySet

(* A claim is made with every block free.  For the last freer this rests   *)
(* on the lock it holds: the owner cannot have returned a block, let alone *)
(* have retired, since.  For the retiring owner it is the counter.         *)
LEMMA ClaimIsSafe ==
  ASSUME ArenaInv, NEW t \in Threads,
         \/ pc[t] = "check" /\ last[t] /\ retired
         \/ pc[t] = "retire" /\ live_bytes = 0
  PROVE  /\ retired
         /\ \A b \in Blocks : place[b] \in {"free", "mailbox"}
         /\ \A u \in Threads : pc[u] \notin {"count", "publish", "put", "uncount"}
<1> USE ArenaAssumption DEF ArenaInv, TypeOK, Places, Labels
<1>1. CASE pc[t] = "check" /\ last[t] /\ retired
  BY <1>1 DEF Discipline, LastKnows
<1>2. CASE pc[t] = "retire" /\ live_bytes = 0
  <2>1. Cardinality(Used) = 0 /\ ~Freeing
    BY <1>2, UsedFinite DEF CountExact
  <2>2. Used = {}
    BY <2>1, UsedChanges
  <2>3. t = Owner /\ retired
    BY <1>2 DEF Discipline
  <2>4. \A u \in Threads : pc[u] \notin {"count", "publish", "put", "uncount"}
    BY <1>2, <2>1, <2>3 DEF Discipline, Freeing
  <2>5. \A b \in Blocks : place[b] \notin {"taken", "counted", "freeing"}
    BY <1>2, <2>3, <2>4 DEF Discipline
  <2> QED
    BY <2>2, <2>3, <2>4, <2>5 DEF Used
<1> QED
  BY <1>1, <1>2

(* Every step keeps the invariant.                                         *)
LEMMA ArenaInvStep ==
  ASSUME FastPath = FALSE, ArenaInv, [Next]_vars
  PROVE  ArenaInv'
<1> USE ArenaAssumption, UsedFinite DEF ArenaInv, TypeOK, Places, Labels, Goto
<1>1. ASSUME NEW t \in Threads, AllocTake(t) PROVE ArenaInv'
  <2>0. /\ pc[t] = "idle" /\ t = Owner /\ attached
        /\ UNCHANGED <<live_bytes, attached, retired, claimed, finished, releases, destroyed, lock, last>>
    BY <1>1 DEF AllocTake
  <2>1. CASE place' = Reaped /\ UNCHANGED <<held, pc>>
    <3>1. Used' = Used /\ (Freeing' <=> Freeing)
      BY <2>1 DEF Used, Freeing, Reaped
    <3> QED
      BY <2>0, <2>1, <3>1 DEF Discipline, CountExact, LastKnows, ClaimMeans, Reaped
  <2>2. ASSUME NEW b \in Blocks, Reaped[b] = "free",
               place' = [Reaped EXCEPT ![b] = "taken"],
               held' = [held EXCEPT ![t] = b], Goto(t, "count")
        PROVE  ArenaInv'
    <3>1. Used' = Used
      BY <2>2 DEF Used, Reaped
    <3>2. Freeing' <=> Freeing
      BY <2>0, <2>2 DEF Freeing
    <3>3. Discipline'
      BY <2>0, <2>2 DEF Discipline, Reaped
    <3>4. TypeOK'
      BY <2>0, <2>2 DEF Reaped
    <3>5. CountExact'
      BY <2>0, <3>1, <3>2 DEF CountExact
    <3>6. LastKnows'
      BY <2>0, <2>2 DEF LastKnows, Reaped
    <3>7. ~claimed /\ ~destroyed /\ ~finished /\ \A u \in Threads : pc[u] # "cleanup"
      BY <2>0 DEF ClaimMeans, Discipline
    <3>8. ClaimMeans'
      BY <2>0, <2>2, <3>7 DEF ClaimMeans
    <3> QED
      BY <3>3, <3>4, <3>5, <3>6, <3>8
  <2> QED
    BY <1>1, <2>1, <2>2 DEF AllocTake
<1>2. ASSUME NEW t \in Threads, AllocCount(t) PROVE ArenaInv'
  <2> USE <1>2 DEF AllocCount
  <2>1. held[t] \in Blocks \ Used /\ Used' = Used \cup {held[t]}
    BY DEF Discipline, Used
  <2>2. Freeing' <=> Freeing
    BY DEF Freeing
  <2>3. Discipline'
    BY DEF Discipline
  <2>4. CountExact'
    BY <2>1, <2>2, UsedChanges DEF CountExact
  <2>5. TypeOK' /\ LastKnows' /\ ClaimMeans'
    BY DEF Discipline, LastKnows, ClaimMeans
  <2> QED
    BY <2>3, <2>4, <2>5
<1>3. ASSUME NEW t \in Threads, AllocPublish(t) PROVE ArenaInv'
  <2> USE <1>3 DEF AllocPublish
  <2>1. Used' = Used
    BY DEF Discipline, Used
  <2>2. Freeing' <=> Freeing
    BY DEF Freeing
  <2>3. Discipline'
    BY DEF Discipline
  <2>4. CountExact'
    BY <2>1, <2>2 DEF CountExact
  <2>5. LastKnows'
    BY DEF Discipline, LastKnows
  <2>6. TypeOK' /\ ClaimMeans'
    BY DEF Discipline, ClaimMeans
  <2> QED
    BY <2>3, <2>4, <2>5, <2>6
<1>4. ASSUME NEW t \in Threads, NEW b \in Blocks, FreeLock(t, b) PROVE ArenaInv'
  <2> USE <1>4 DEF FreeLock
  <2>1. b \in Used /\ Used' = Used \ {b}
    BY DEF Used
  <2>2. Freeing' /\ ~Freeing
    BY DEF Freeing, Discipline
  <2>3. Discipline'
    BY DEF Discipline
  <2>4. CountExact'
    BY <2>1, <2>2, UsedChanges DEF CountExact
  <2>5. TypeOK' /\ LastKnows' /\ ClaimMeans'
    BY DEF LastKnows, ClaimMeans
  <2> QED
    BY <2>3, <2>4, <2>5
<1>5. ASSUME NEW t \in Threads, FreePut(t) PROVE ArenaInv'
  <2> USE <1>5 DEF FreePut
  <2>1. Used' = Used
    BY DEF Used, Discipline
  <2>2. Freeing' /\ Freeing
    BY DEF Freeing
  <2>3. Discipline'
    BY DEF Discipline
  <2>4. CountExact'
    BY <2>1, <2>2 DEF CountExact
  <2>5. TypeOK' /\ LastKnows' /\ ClaimMeans'
    BY DEF Discipline, LastKnows, ClaimMeans
  <2> QED
    BY <2>3, <2>4, <2>5
<1>6. ASSUME NEW t \in Threads, FreeUncount(t) PROVE ArenaInv'
  <2> USE <1>6 DEF FreeUncount
  <2>1. Used' = Used
    BY DEF Used
  <2>2. ~Freeing' /\ Freeing
    BY DEF Freeing, Discipline
  <2>3. Discipline'
    BY DEF Discipline
  <2>4. CountExact' /\ live_bytes' \in Nat
    BY <2>1, <2>2 DEF CountExact
  <2>5. live_bytes = 1 => Used = {}
    BY <2>2, UsedChanges DEF CountExact
  <2>6. LastKnows'
    BY <2>5 DEF LastKnows, Used
  <2>7. TypeOK' /\ ClaimMeans'
    BY <2>4 DEF ClaimMeans
  <2> QED
    BY <2>3, <2>4, <2>6, <2>7
<1>7. ASSUME NEW t \in Threads, FreeCheck(t) PROVE ArenaInv'
  <2> USE <1>7 DEF FreeCheck, Claim, Unlock
  <2>1. Used' = Used
    BY DEF Used
  <2>2. Freeing' <=> Freeing
    BY DEF Freeing
  <2>3. Discipline'
    BY DEF Discipline
  <2>4. CountExact'
    BY <2>1, <2>2 DEF CountExact
  <2>5. TypeOK' /\ LastKnows'
    BY DEF LastKnows
  <2>6. ClaimMeans'
    <3>1. CASE claimed' = claimed /\ pc' = [pc EXCEPT ![t] = "idle"]
      BY <3>1 DEF ClaimMeans
    <3>2. CASE last[t] /\ retired /\ ~claimed /\ claimed' = TRUE /\ pc' = [pc EXCEPT ![t] = "cleanup"]
      BY <3>2, ClaimIsSafe DEF ClaimMeans
    <3> QED
      BY <3>1, <3>2
  <2> QED
    BY <2>3, <2>4, <2>5, <2>6
<1>8. ASSUME NEW t \in Threads, RetireMark(t) PROVE ArenaInv'
  <2> USE <1>8 DEF RetireMark
  <2>1. Used' = Used
    BY DEF Used
  <2>2. Freeing' <=> Freeing
    BY DEF Freeing
  <2>3. Discipline'
    BY DEF Discipline
  <2>4. CountExact'
    BY <2>1, <2>2 DEF CountExact
  <2>5. TypeOK' /\ LastKnows'
    BY DEF LastKnows
  <2>6. ~claimed /\ ~destroyed /\ ~finished /\ \A u \in Threads : pc[u] # "cleanup"
    BY DEF ClaimMeans, Discipline
  <2>7. ClaimMeans'
    BY <2>6 DEF ClaimMeans
  <2> QED
    BY <2>3, <2>4, <2>5, <2>7
<1>9. ASSUME NEW t \in Threads, RetireCheck(t) PROVE ArenaInv'
  <2> USE <1>9 DEF RetireCheck, Claim, Unlock
  <2>1. Used' = Used
    BY DEF Used
  <2>2. Freeing' <=> Freeing
    BY DEF Freeing
  <2>3. Discipline'
    BY DEF Discipline
  <2>4. CountExact'
    BY <2>1, <2>2 DEF CountExact
  <2>5. TypeOK' /\ LastKnows'
    BY DEF LastKnows
  <2>6. ClaimMeans'
    <3>1. CASE claimed' = claimed /\ pc' = [pc EXCEPT ![t] = "idle"]
      BY <3>1 DEF ClaimMeans
    <3>2. CASE live_bytes = 0 /\ ~claimed /\ claimed' = TRUE /\ pc' = [pc EXCEPT ![t] = "cleanup"]
      BY <3>2, ClaimIsSafe DEF ClaimMeans
    <3> QED
      BY <3>1, <3>2
  <2> QED
    BY <2>3, <2>4, <2>5, <2>6
<1>10. ASSUME NEW t \in Threads, Cleanup(t) PROVE ArenaInv'
  <2> USE <1>10 DEF Cleanup, Unlock
  <2>1. Used' = Used
    BY DEF Used, Reaped
  <2>2. Freeing' <=> Freeing
    BY DEF Freeing
  <2>3. Discipline'
    BY DEF Discipline, Reaped, ClaimMeans
  <2>4. CountExact'
    BY <2>1, <2>2 DEF CountExact
  <2>5. TypeOK' /\ LastKnows' /\ ClaimMeans'
    BY DEF LastKnows, ClaimMeans, Reaped
  <2> QED
    BY <2>3, <2>4, <2>5
<1>11. CASE Destroy
  <2>1. Used' = Used /\ (Freeing' <=> Freeing)
    BY <1>11 DEF Destroy, Used, Freeing
  <2> QED
    BY <1>11, <2>1 DEF Destroy, Discipline, CountExact, LastKnows, ClaimMeans
<1>12. CASE UNCHANGED vars
  <2>1. Used' = Used /\ (Freeing' <=> Freeing)
    BY <1>12 DEF vars, Used, Freeing
  <2> QED
    BY <1>12, <2>1 DEF vars, Discipline, CountExact, LastKnows, ClaimMeans
<1> QED
  BY <1>1, <1>2, <1>3, <1>4, <1>5, <1>6, <1>7, <1>8, <1>9, <1>10, <1>11, <1>12
  DEF Next, Step, Call

(* Without MP_FLAG_FAST_PATH, no region is given back under a block in use *)
(* (the last freer's test of retired cannot be stale, because the owner    *)
(* needs the same lock to return a block), the cleaner is alone, and the   *)
(* region is given back at most once.                                      *)
THEOREM ArenaSafe ==
  ASSUME FastPath = FALSE
  PROVE  Spec => []ReleaseSafe
<1>1. Init => ArenaInv
  <2> SUFFICES ASSUME Init PROVE ArenaInv
    OBVIOUS
  <2>1. Used = {} /\ ~Freeing
    BY DEF Init, Used, Freeing
  <2>2. CountExact
    BY <2>1, UsedChanges DEF Init, CountExact
  <2>3. TypeOK
    BY ArenaAssumption DEF Init, TypeOK, Places, Labels
  <2> QED
    BY <2>2, <2>3, ArenaAssumption DEF Init, ArenaInv, Discipline, LastKnows, ClaimMeans
<1>2. ArenaInv /\ [Next]_vars => ArenaInv'
  BY ArenaInvStep
<1>3. ArenaInv => ReleaseSafe
  BY DEF ArenaInv, ClaimMeans, TypeOK, Labels, ReleaseSafe, NoLiveBlockReleased, SoleMutator,
         ReleasedOnce
<1> QED
  BY <1>1, <1>2, <1>3, PTL DEF Spec

=============================================================================
