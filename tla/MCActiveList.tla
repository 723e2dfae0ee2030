----------------------------- MODULE MCActiveList -----------------------------
(* The instance of ActiveList that TLC checks, and the pools on which       *)
(* mp_alloc_batch is compared with mp_alloc.                                *)
EXTENDS ActiveList, TLC

(* Every combination of the settings, and small amounts of everything a    *)
(* tier can give.                                                          *)
Pools ==
  [limit : {0, 5, 7}, fallback : BOOLEAN, reserve : {0, 4}, breaker : BOOLEAN,
   quota : {0, 2, 5}, aligned : BOOLEAN, static : BOOLEAN, ts : BOOLEAN, dirty : {FALSE}]

Accounts ==
  [active : {0, 2, 5}, peak : {4}, count : {0}, hist : {0}, used : BOOLEAN,
   tripped : {FALSE}, quota : {0, 3}, oom : {0}, alloc : {0},
   cache : {0, 1}, percpu : {0, 1}, pages : {0, 4}]

(* mp_alloc_batch does what as many calls of mp_alloc would, in every      *)
(* tier, at every limit, with the breaker and the reserve (BatchAgrees).   *)
BatchMatchesSingles ==
  calls = 0 /\ ~aligned =>
    \A c \in Pools, p \in Accounts, size \in {1, 3, 6}, n \in {1, 2, 4} :
      Tier(c, Charge(c, size)) = "slab" \/ p.cache + p.percpu = 0 =>
        BatchAgrees(c, p, size, n)

Symmetry == Permutations(Threads) \cup Permutations(Slots)
=============================================================================
