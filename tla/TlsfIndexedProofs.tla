--------------------------- MODULE TlsfIndexedProofs ---------------------------
(***************************************************************************)
(* A TLSF region together with its index, proved for every region size,    *)
(* request size and number of threads.  The first part is the index alone: *)
(* what the two mappings compute, that an insertion and a removal keep     *)
(* each block on the list of its size under bits that say so, and that the *)
(* search then finds a good fit.  The second carries TlsfPoolProofs over   *)
(* to the region with its index: every step keeps the index in step with   *)
(* the headers.                                                            *)
(***************************************************************************)
EXTENDS TlsfIndexed, TlsfPoolProofs

(* Induction as far as the bits of a 32-bit word go.                       *)
LEMMA BitInduction ==
  ASSUME NEW S, 0 \in S, \A n \in 0..30 : n \in S => n + 1 \in S
  PROVE  \A n \in 0..31 : n \in S
<1>1. \A n \in 0..8 : n \in S
  <2>1. 1 \in S /\ 2 \in S /\ 3 \in S /\ 4 \in S
    OBVIOUS
  <2>2. 5 \in S /\ 6 \in S /\ 7 \in S /\ 8 \in S
    BY <2>1
  <2>. QED BY <2>1, <2>2
<1>2. \A n \in 9..16 : n \in S
  <2>1. 9 \in S /\ 10 \in S /\ 11 \in S /\ 12 \in S
    BY <1>1
  <2>2. 13 \in S /\ 14 \in S /\ 15 \in S /\ 16 \in S
    BY <2>1
  <2>. QED BY <2>1, <2>2
<1>3. \A n \in 17..24 : n \in S
  <2>1. 17 \in S /\ 18 \in S /\ 19 \in S /\ 20 \in S
    BY <1>2
  <2>2. 21 \in S /\ 22 \in S /\ 23 \in S /\ 24 \in S
    BY <2>1
  <2>. QED BY <2>1, <2>2
<1>4. \A n \in 25..31 : n \in S
  <2>1. 25 \in S /\ 26 \in S /\ 27 \in S /\ 28 \in S
    BY <1>3
  <2>2. 29 \in S /\ 30 \in S /\ 31 \in S
    BY <2>1
  <2>. QED BY <2>1, <2>2
<1>. QED BY <1>1, <1>2, <1>3, <1>4

-----------------------------------------------------------------------------
(* Powers of two, as far as a 32-bit size has them; the prover knows the   *)
(* power of a number written out.                                          *)
LEMMA Power ==
  ASSUME NEW k \in 0..30
  PROVE  2^k \in Nat \ {0} /\ 2^(k + 1) = 2 * 2^k
<1>0. CASE k = 0 BY <1>0
<1>1. CASE k = 1 BY <1>1
<1>2. CASE k = 2 BY <1>2
<1>3. CASE k = 3 BY <1>3
<1>4. CASE k = 4 BY <1>4
<1>5. CASE k = 5 BY <1>5
<1>6. CASE k = 6 BY <1>6
<1>7. CASE k = 7 BY <1>7
<1>8. CASE k = 8 BY <1>8
<1>9. CASE k = 9 BY <1>9
<1>10. CASE k = 10 BY <1>10
<1>11. CASE k = 11 BY <1>11
<1>12. CASE k = 12 BY <1>12
<1>13. CASE k = 13 BY <1>13
<1>14. CASE k = 14 BY <1>14
<1>15. CASE k = 15 BY <1>15
<1>16. CASE k = 16 BY <1>16
<1>17. CASE k = 17 BY <1>17
<1>18. CASE k = 18 BY <1>18
<1>19. CASE k = 19 BY <1>19
<1>20. CASE k = 20 BY <1>20
<1>21. CASE k = 21 BY <1>21
<1>22. CASE k = 22 BY <1>22
<1>23. CASE k = 23 BY <1>23
<1>24. CASE k = 24 BY <1>24
<1>25. CASE k = 25 BY <1>25
<1>26. CASE k = 26 BY <1>26
<1>27. CASE k = 27 BY <1>27
<1>28. CASE k = 28 BY <1>28
<1>29. CASE k = 29 BY <1>29
<1>30. CASE k = 30 BY <1>30
<1>. QED BY <1>0, <1>1, <1>2, <1>3, <1>4, <1>5, <1>6, <1>7, <1>8, <1>9,
           <1>10, <1>11, <1>12, <1>13, <1>14, <1>15, <1>16, <1>17, <1>18, <1>19,
           <1>20, <1>21, <1>22, <1>23, <1>24, <1>25, <1>26, <1>27, <1>28, <1>29, <1>30

(* A larger exponent gives a larger power.                                 *)
LEMMA PowerGrows ==
  ASSUME NEW j \in 0..31, NEW k \in 0..31, j <= k
  PROVE  2^j \in Nat \ {0} /\ 2^k \in Nat \ {0} /\ 2^j <= 2^k
<1> DEFINE S == {n \in 0..31 : j + n <= 31 => 2^(j + n) \in Nat \ {0} /\ 2^j <= 2^(j + n)}
<1>1. 2^j \in Nat \ {0}
  <2>1. CASE j = 31
    BY <2>1
  <2>2. CASE j # 31
    <3>1. j \in 0..30
      BY <2>2
    <3>. QED BY <3>1, Power, Zenon
  <2>. QED BY <2>1, <2>2
<1>2. 0 \in S
  <2>1. j + 0 = j
    OBVIOUS
  <2>. QED BY <1>1, <2>1
<1>3. ASSUME NEW n \in 0..30, n \in S PROVE n + 1 \in S
  <2>1. SUFFICES ASSUME j + (n + 1) <= 31
                 PROVE  2^(j + (n + 1)) \in Nat \ {0} /\ 2^j <= 2^(j + (n + 1))
    OBVIOUS
  <2>2. j + n \in 0..30 /\ j + n <= 31 /\ j + (n + 1) = (j + n) + 1
    BY <2>1
  <2>3. 2^(j + n) \in Nat \ {0} /\ 2^j <= 2^(j + n)
    BY <1>3, <2>2
  <2>4. 2^((j + n) + 1) = 2 * 2^(j + n)
    BY <2>2, Power, Zenon
  <2>. QED BY <1>1, <2>2, <2>3, <2>4
<1>4. \A n \in 0..31 : n \in S
  <2> HIDE DEF S
  <2>. QED BY <1>2, <1>3, BitInduction
<1>5. k - j \in 0..31 /\ j + (k - j) = k /\ k <= 31
  OBVIOUS
<1>6. k - j \in S
  BY <1>4, <1>5
<1>. QED BY <1>1, <1>5, <1>6

(* TLSF_SL_COUNT, and a first-level class as that many segments.           *)
LEMMA Segments ==
  /\ SL \in {1, 2, 4, 8, 16}
  /\ \A j \in 0..26 : j + SlShift \in 0..30 /\ 2^(j + SlShift) = SL * 2^j
<1>1. SlShift \in 0..4
  BY TlsfIndexAssumption
<1>2. SL \in {1, 2, 4, 8, 16}
  <2>0. CASE SlShift = 0 BY <2>0 DEF SL
  <2>1. CASE SlShift = 1 BY <2>1 DEF SL
  <2>2. CASE SlShift = 2 BY <2>2 DEF SL
  <2>3. CASE SlShift = 3 BY <2>3 DEF SL
  <2>4. CASE SlShift = 4 BY <2>4 DEF SL
  <2>. QED BY <1>1, <2>0, <2>1, <2>2, <2>3, <2>4
<1>3. ASSUME NEW j \in 0..26 PROVE j + SlShift \in 0..30 /\ 2^(j + SlShift) = SL * 2^j
  <2> DEFINE p == 2^j
  <2>1. /\ 2^(j + 1) = 2 * p /\ 2^((j + 1) + 1) = 2 * 2^(j + 1)
        /\ 2^((j + 2) + 1) = 2 * 2^(j + 2) /\ 2^((j + 3) + 1) = 2 * 2^(j + 3)
        /\ p \in Nat
    <3>1. j \in 0..30 /\ j + 1 \in 0..30 /\ j + 2 \in 0..30 /\ j + 3 \in 0..30
      OBVIOUS
    <3>. QED BY <3>1, Power, Zenon
  <2>2. (j + 1) + 1 = j + 2 /\ (j + 2) + 1 = j + 3 /\ (j + 3) + 1 = j + 4 /\ j + 0 = j
    OBVIOUS
  <2>3. 2^(j + 2) = 4 * p /\ 2^(j + 3) = 8 * p /\ 2^(j + 4) = 16 * p
    BY <2>1, <2>2
  <2>5. CASE SlShift = 0 BY <2>1, <2>2, <2>5 DEF SL
  <2>6. CASE SlShift = 1 BY <2>1, <2>6 DEF SL
  <2>7. CASE SlShift = 2 BY <2>1, <2>3, <2>7 DEF SL
  <2>8. CASE SlShift = 3 BY <2>1, <2>3, <2>8 DEF SL
  <2>9. CASE SlShift = 4 BY <2>1, <2>3, <2>9 DEF SL
  <2>. QED BY <1>1, <2>5, <2>6, <2>7, <2>8, <2>9
<1>. QED BY <1>2, <1>3, Zenon

(* A shift to the right divides.                                           *)
LEMMA Quotient ==
  ASSUME NEW a \in Nat, NEW d \in Nat \ {0}
  PROVE  /\ a \div d \in Nat /\ d * (a \div d) <= a /\ a < d * (a \div d) + d
         /\ \A q \in Nat : d * q <= a => q <= a \div d
         /\ \A q \in Nat : a < d * q => a \div d < q
<1> DEFINE p == a \div d
<1>1. p \in Nat /\ a = d * p + (a % d) /\ a % d \in Nat /\ a % d < d
  OBVIOUS
<1> HIDE DEF p
<1>2. d * p <= a /\ a < d * p + d
  BY <1>1
<1>3. ASSUME NEW q \in Nat, d * q <= a PROVE q <= p
  <2>1. SUFFICES ASSUME q >= p + 1 PROVE FALSE
    BY <1>1
  <2>2. q = (p + 1) + (q - (p + 1)) /\ q - (p + 1) \in Nat
    BY <1>1, <2>1
  <2>3. d * q = d * p + d + d * (q - (p + 1)) /\ d * (q - (p + 1)) >= 0
    BY <1>1, <2>2
  <2>. QED BY <1>1, <1>2, <1>3, <2>3
<1>4. ASSUME NEW q \in Nat, a < d * q PROVE p < q
  <2>1. SUFFICES ASSUME p >= q PROVE FALSE
    BY <1>1
  <2>2. p - q \in Nat
    BY <1>1, <2>1
  <2>3. d * p = d * q + d * (p - q) /\ d * (p - q) >= 0
    BY <1>1, <2>2
  <2>. QED BY <1>1, <1>2, <1>4, <2>3
<1>. QED BY <1>1, <1>2, <1>3, <1>4 DEF p

(* tlsf_fls finds the leading bit of every size that has fewer than m.     *)
LEMMA Leading ==
  ASSUME NEW v \in Nat \ {0}, NEW m \in 0..31, v < 2^m
  PROVE  /\ Fls(v) \in 0..30 /\ Fls(v) < m
         /\ 2^Fls(v) \in Nat \ {0} /\ 2^Fls(v) <= v /\ v < 2 * 2^Fls(v)
         /\ 2^(Fls(v) + 1) = 2 * 2^Fls(v)
<1>1. ASSUME NEW k \in 0..30
      PROVE  /\ v \div 2^k = 1 <=> 2^k <= v /\ v < 2 * 2^k
             /\ 2^k \in Nat \ {0} /\ 2^(k + 1) = 2 * 2^k
  <2> DEFINE d == 2^k
  <2>1. d \in Nat \ {0} /\ 2^(k + 1) = 2 * d
    BY Power, Zenon
  <2> HIDE DEF d
  <2>2. /\ v \div d \in Nat /\ d * (v \div d) <= v /\ v < d * (v \div d) + d
        /\ d * 1 <= v => 1 <= v \div d
        /\ v < d * 2 => v \div d < 2
    BY <2>1, Quotient
  <2>3. v \div d = 1 <=> d <= v /\ v < 2 * d
    <3>1. ASSUME v \div d = 1 PROVE d <= v /\ v < 2 * d
      BY <2>1, <2>2, <3>1
    <3>2. ASSUME d <= v, v < 2 * d PROVE v \div d = 1
      <4>1. d * 1 = d /\ d * 2 = 2 * d
        BY <2>1
      <4>2. 1 <= v \div d /\ v \div d < 2
        BY <2>2, <3>2, <4>1
      <4>. QED BY <2>2, <4>2
    <3>. QED BY <3>1, <3>2
  <2>. QED BY <2>1, <2>3 DEF d
<1> DEFINE S == {n \in 0..31 : v < 2^n => \E k \in 0..30 : v \div 2^k = 1}
<1>2. 0 \in S
  OBVIOUS
<1>3. ASSUME NEW n \in 0..30, n \in S PROVE n + 1 \in S
  <2>1. SUFFICES ASSUME v < 2^(n + 1) PROVE \E k \in 0..30 : v \div 2^k = 1
    OBVIOUS
  <2>3. 2^(n + 1) = 2 * 2^n /\ 2^n \in Nat
    BY Power, Zenon
  <2>4. CASE v < 2^n
    BY <1>3, <2>4
  <2>5. CASE ~(v < 2^n)
    <3>1. 2^n <= v /\ v < 2 * 2^n
      BY <2>1, <2>3, <2>5
    <3>2. v \div 2^n = 1
      BY <1>1, <3>1
    <3>. QED BY <3>2, Zenon
  <2>. QED BY <2>4, <2>5
<1>4. \A n \in 0..31 : n \in S
  <2> HIDE DEF S
  <2>. QED BY <1>2, <1>3, BitInduction
<1>5. \E k \in 0..30 : v \div 2^k = 1
  <2>1. m \in S
    BY <1>4, Zenon
  <2>. QED BY <2>1
<1>6. Fls(v) \in 0..30 /\ v \div 2^Fls(v) = 1
  BY <1>5, Zenon DEF Fls
<1>7. /\ 2^Fls(v) \in Nat \ {0} /\ 2^Fls(v) <= v /\ v < 2 * 2^Fls(v)
      /\ 2^(Fls(v) + 1) = 2 * 2^Fls(v)
  BY <1>1, <1>6, Zenon
<1>8. Fls(v) < m
  <2>1. SUFFICES ASSUME m <= Fls(v) PROVE FALSE
    BY <1>6
  <2>2. 2^m <= 2^Fls(v) /\ 2^m \in Nat
    <3>1. Fls(v) \in 0..31
      BY <1>6
    <3>. QED BY <2>1, <3>1, PowerGrows, Zenon
  <2>. QED BY <1>7, <2>2
<1>. QED BY <1>6, <1>7, <1>8

(* The width of a segment of the class of size v, for v of SL units or     *)
(* more.                                                                   *)
Width(v) == 2^(Fls(v) - SlShift)

(* What the mappings take from a size of SL units or more: its class is SL *)
(* segments of one width, from the leading bit up.                         *)
LEMMA ClassOf ==
  ASSUME NEW v \in Nat, v >= SL, v < 2^FlMax
  PROVE  /\ Fls(v) \in 0..30 /\ Fls(v) <= FlMax - 1 /\ Fls(v) >= SlShift
         /\ Width(v) \in Nat \ {0} /\ 2^Fls(v) = SL * Width(v)
         /\ SL * Width(v) <= v /\ v < 2 * (SL * Width(v))
<1> DEFINE f == Fls(v)
<1>1. SlShift \in 0..4 /\ FlMax \in 0..31 /\ FlMax \in Nat /\ SL \in {1, 2, 4, 8, 16}
  BY TlsfIndexAssumption, Segments
<1>2. v \in Nat \ {0}
  BY <1>1
<1>3. /\ f \in 0..30 /\ f < FlMax /\ 2^f \in Nat \ {0} /\ 2^f <= v /\ v < 2 * 2^f
      /\ 2^(f + 1) = 2 * 2^f
  BY <1>1, <1>2, Leading, Zenon
<1> HIDE DEF f
<1>4. f >= SlShift
  <2>1. SUFFICES ASSUME f + 1 <= SlShift PROVE FALSE
    BY <1>1, <1>3
  <2>2. f + 1 \in 0..31 /\ SlShift \in 0..31
    BY <1>1, <1>3
  <2>3. 2^(f + 1) <= 2^SlShift
    BY <2>1, <2>2, PowerGrows, Zenon
  <2>4. 2 * 2^f <= SL
    BY <1>3, <2>3 DEF SL
  <2>. QED BY <1>1, <1>3, <2>4
<1> DEFINE j == f - SlShift
<1>5. j \in 0..30 /\ j + SlShift = f
  BY <1>1, <1>3, <1>4
<1>6. 2^j \in Nat \ {0}
  BY <1>5, Power, Zenon
<1>7. 2^f = SL * 2^j
  <2>1. CASE j \in 0..26
    <3>1. 2^(j + SlShift) = SL * 2^j
      BY <2>1, Segments, Zenon
    <3>. QED BY <1>5, <3>1
  <2>2. CASE j = 27 \/ j = 28 \/ j = 29 \/ j = 30
    <3>0. CASE SlShift = 0 BY <1>5, <1>6, <3>0 DEF SL
    <3>1. CASE SlShift = 1
      <4>1. 2^(j + 1) = 2 * 2^j
        BY <1>5, Power, Zenon
      <4>. QED BY <1>5, <1>6, <3>1, <4>1 DEF SL
    <3>2. CASE SlShift = 2
      <4>1. CASE j = 27 BY <1>5, <3>2, <4>1 DEF SL
      <4>2. CASE j = 28 BY <1>5, <3>2, <4>2 DEF SL
      <4>. QED BY <1>3, <1>5, <2>2, <3>2, <4>1, <4>2
    <3>3. CASE SlShift = 3
      <4>1. j = 27
        BY <1>3, <1>5, <2>2, <3>3
      <4>. QED BY <1>5, <3>3, <4>1 DEF SL
    <3>4. CASE SlShift = 4
      BY <1>3, <1>5, <2>2, <3>4
    <3>. QED BY <1>1, <3>0, <3>1, <3>2, <3>3, <3>4
  <2>. QED BY <1>5, <2>1, <2>2
<1>8. f <= FlMax - 1
  BY <1>1, <1>3
<1> DEFINE w == 2^j
<1>9. w \in Nat \ {0} /\ SL * w = 2^f
  BY <1>6, <1>7
<1>10. SL * w <= v /\ v < 2 * (SL * w)
  BY <1>3, <1>9
<1>. QED BY <1>3, <1>4, <1>8, <1>9, <1>10 DEF Width, f

(* The exclusive or of the mappings, on either side of a carry.            *)
LEMMA CarryBit ==
  ASSUME NEW v \in Nat, v >= SL
  PROVE  /\ v < 2 * SL => (v \div SL) % 2 = 1
         /\ v = 2 * SL => (v \div SL) % 2 = 0
<1>1. CASE SL = 1 BY <1>1
<1>2. CASE SL = 2 BY <1>2
<1>3. CASE SL = 4 BY <1>3
<1>4. CASE SL = 8 BY <1>4
<1>5. CASE SL = 16 BY <1>5
<1>. QED BY <1>1, <1>2, <1>3, <1>4, <1>5, Segments, Zenon

(* tlsf_mapping_insert: a small size has a list of its own, a larger one   *)
(* the list of its segment.                                                *)
LEMMA Inserted ==
  ASSUME NEW v \in Nat \ {0}, v < 2^FlMax
  PROVE  /\ v < SL => MappingInsert(v) = <<0, v>>
         /\ v >= SL => /\ MappingInsert(v) = <<Fls(v), (v \div Width(v)) - SL>>
                       /\ v \div Width(v) \in Nat
                       /\ SL <= v \div Width(v) /\ v \div Width(v) < 2 * SL
         /\ MappingInsert(v) \in Lists
<1>1. SL \in {1, 2, 4, 8, 16} /\ FlMax \in Nat /\ FlMax > 0
  BY Segments, TlsfIndexAssumption
<1>2. CASE v < SL
  <2>1. MappingInsert(v) = <<0, v>>
    BY <1>2 DEF MappingInsert
  <2>2. 0 \in 0..(FlMax - 1) /\ v \in 0..(SL - 1)
    BY <1>1, <1>2
  <2>3. ~(v >= SL)
    BY <1>1, <1>2
  <2>. QED BY <2>1, <2>2, <2>3 DEF Lists
<1>3. CASE ~(v < SL)
  <2> DEFINE d == Width(v)
             q == v \div d
  <2>1. v >= SL
    BY <1>1, <1>3
  <2>2. /\ Fls(v) \in 0..(FlMax - 1) /\ d \in Nat \ {0}
        /\ SL * d <= v /\ v < 2 * (SL * d)
    BY <1>1, <2>1, ClassOf
  <2> HIDE DEF d
  <2>3. q \in Nat /\ (d * SL <= v => SL <= q) /\ (v < d * (2 * SL) => q < 2 * SL)
    <3>1. SL \in Nat /\ 2 * SL \in Nat
      BY <1>1
    <3>. QED BY <2>2, <3>1, Quotient, Zenon
  <2>4. d * SL = SL * d /\ d * (2 * SL) = 2 * (SL * d)
    BY <1>1, <2>2
  <2>5. SL <= q /\ q < 2 * SL
    BY <2>2, <2>3, <2>4
  <2> HIDE DEF q
  <2>6. (q \div SL) % 2 = 1
    BY <2>3, <2>5, CarryBit
  <2>7. MappingInsert(v) = <<Fls(v), q - SL>>
    BY <1>3, <2>6 DEF MappingInsert, SegmentOf, q, d, Width
  <2>8. q - SL \in 0..(SL - 1)
    BY <1>1, <2>3, <2>5
  <2>. QED BY <1>3, <2>2, <2>3, <2>5, <2>7, <2>8 DEF Lists, q, d
<1>. QED BY <1>2, <1>3

(* A multiple grows with its factor.                                       *)
LEMMA Multiple ==
  ASSUME NEW d \in Nat, NEW a \in Nat, NEW b \in Nat, a <= b
  PROVE  d * a \in Nat /\ d * b \in Nat /\ d * a <= d * b
<1>1. b - a \in Nat /\ d * (b - a) \in Nat
  OBVIOUS
<1>2. d * b = d * a + d * (b - a)
  OBVIOUS
<1>3. d * a \in Nat /\ d * b \in Nat
  OBVIOUS
<1>. QED BY <1>1, <1>2, <1>3

(* The number of segments the search counts for n, the carry included.     *)
SegmentsFor(n) == (n + Width(n) - 1) \div Width(n)

(* tlsf_mapping_search: the segment at or above n, or, after a carry, one  *)
(* beyond the class of n, whatever the shift makes of it.                  *)
LEMMA Searched ==
  ASSUME NEW n \in Nat, n >= SL, n < 2^FlMax
  PROVE  LET w == SegmentsFor(n) IN
         /\ w \in Nat /\ SL <= w /\ w <= 2 * SL
         /\ GoodFit(n) = Width(n) * w /\ n <= Width(n) * w
         /\ MappingSearch(n)[1] = Fls(n) /\ MappingSearch(n)[2] \in Nat
         /\ w < 2 * SL => MappingSearch(n)[2] % 32 = w - SL
         /\ w = 2 * SL => MappingSearch(n)[2] % 32 >= SL
<1> DEFINE d == Width(n)
           w == (n + d - 1) \div d
<1>1. SL \in {1, 2, 4, 8, 16} /\ SL \in Nat /\ 2 * SL \in Nat
  BY Segments
<1>2. /\ d \in Nat \ {0} /\ Fls(n) \in 0..30
      /\ SL * d <= n /\ n < 2 * (SL * d)
  BY ClassOf
<1>3. d = 2^(Fls(n) - SlShift)
  BY DEF Width
<1> HIDE DEF d
<1>4. n + d - 1 \in Nat
  BY <1>2
<1>5. /\ w \in Nat /\ d * w <= n + d - 1 /\ n + d - 1 < d * w + d
      /\ d * SL <= n + d - 1 => SL <= w
      /\ n + d - 1 < d * (2 * SL + 1) => w < 2 * SL + 1
  <2>1. 2 * SL + 1 \in Nat
    BY <1>1
  <2> DEFINE a == n + d - 1
  <2>2. a \in Nat
    BY <1>4
  <2> HIDE DEF a
  <2>3. /\ a \div d \in Nat /\ d * (a \div d) <= a /\ a < d * (a \div d) + d
        /\ d * SL <= a => SL <= a \div d
        /\ a < d * (2 * SL + 1) => a \div d < 2 * SL + 1
    BY <1>1, <1>2, <2>1, <2>2, Quotient, Zenon
  <2>. QED BY <2>3 DEF a
<1> HIDE DEF w
<1>6. d * SL = SL * d /\ d * (2 * SL + 1) = 2 * (SL * d) + d /\ SL * d \in Nat
  BY <1>1, <1>2
<1>7. SL <= w /\ w < 2 * SL + 1
  BY <1>2, <1>5, <1>6
<1>8. w <= 2 * SL
  BY <1>1, <1>5, <1>7
<1>9. n <= d * w
  <2>1. d * w \in Nat
    BY <1>2, <1>5
  <2>. QED BY <1>2, <1>5, <2>1
<1>10. GoodFit(n) = d * w
  <2>1. ~(n < SL)
    BY <1>1
  <2>2. Segment(n) = d
    BY <1>3, <2>1 DEF Segment
  <2>3. GoodFit(n) = w * d
    BY <2>2 DEF GoodFit, w
  <2>. QED BY <1>2, <1>5, <2>3
<1>11. MappingSearch(n) = <<Fls(n), IF (w \div SL) % 2 = 1 THEN w - SL ELSE w + SL>>
  <2>1. ~(n < SL)
    BY <1>1
  <2>2. n + Rounding(n) = n + d - 1
    BY <1>2, <1>3 DEF Rounding
  <2>. QED BY <1>3, <2>1, <2>2 DEF MappingSearch, SegmentOf, w
<1>12. ASSUME w < 2 * SL PROVE MappingSearch(n)[2] % 32 = w - SL
  <2>1. (w \div SL) % 2 = 1
    BY <1>5, <1>7, <1>12, CarryBit
  <2>2. MappingSearch(n)[2] = w - SL
    BY <1>11, <2>1
  <2>3. w - SL \in 0..31
    BY <1>1, <1>5, <1>7, <1>12
  <2>. QED BY <2>2, <2>3
<1>13. ASSUME w = 2 * SL PROVE MappingSearch(n)[2] % 32 >= SL
  <2>1. (w \div SL) % 2 = 0
    BY <1>5, <1>7, <1>13, CarryBit
  <2>2. MappingSearch(n)[2] = 3 * SL
    BY <1>1, <1>11, <1>13, <2>1
  <2>. QED BY <1>1, <2>2
<1>14. MappingSearch(n)[1] = Fls(n) /\ MappingSearch(n)[2] \in Nat
  <2>1. w - SL \in Nat /\ w + SL \in Nat
    BY <1>1, <1>5, <1>7
  <2>. QED BY <1>11, <2>1
<1>15. w = SegmentsFor(n)
  BY DEF w, d, SegmentsFor
<1>. QED BY <1>5, <1>7, <1>8, <1>9, <1>10, <1>12, <1>13, <1>14, <1>15 DEF d

(* The lists the search for n looks at: in the class of n, from its        *)
(* segment up, and every class above.                                      *)
Reaches(l, n) ==
  \/ l[1] = MappingSearch(n)[1] /\ l[2] >= MappingSearch(n)[2] % 32
  \/ l[1] >= FirstAbove(MappingSearch(n)[1])

(* The search looks at the list of a block exactly when the block is at    *)
(* least the request rounded up to a segment, for two large sizes ...      *)
LEMMA LargeReached ==
  ASSUME NEW n \in Nat, n >= SL, n < 2^FlMax, NEW v \in Nat, v >= SL, v < 2^FlMax
  PROVE  Reaches(MappingInsert(v), n) <=> v >= GoodFit(n)
<1> DEFINE f == Fls(n)
           g == Fls(v)
           d == Width(n)
           e == Width(v)
           w == SegmentsFor(n)
           u == v \div e
<1>1. SL \in {1, 2, 4, 8, 16} /\ SL \in Nat /\ 2 * SL \in Nat
  BY Segments
<1>2. /\ f \in 0..30 /\ d \in Nat \ {0} /\ 2^f = SL * d
      /\ SL * d <= n /\ n < 2 * (SL * d)
  BY ClassOf
<1>3. /\ g \in 0..30 /\ e \in Nat \ {0} /\ 2^g = SL * e
      /\ SL * e <= v /\ v < 2 * (SL * e)
  BY ClassOf
<1>4. /\ w \in Nat /\ SL <= w /\ w <= 2 * SL
      /\ GoodFit(n) = d * w /\ n <= d * w
      /\ MappingSearch(n)[1] = f /\ MappingSearch(n)[2] \in Nat
      /\ w < 2 * SL => MappingSearch(n)[2] % 32 = w - SL
      /\ w = 2 * SL => MappingSearch(n)[2] % 32 >= SL
  BY Searched
<1>5. MappingInsert(v) = <<g, u - SL>> /\ u \in Nat /\ SL <= u /\ u < 2 * SL
  <2>1. v \in Nat \ {0}
    BY <1>1
  <2>. QED BY <2>1, Inserted
<1>6. g = f => e = d
  BY DEF Width
<1>7. d * u \in Nat /\ e * u <= v /\ (e * w <= v => w <= u)
  <2>1. e * u <= v /\ (e * w <= v => w <= u)
    BY <1>3, <1>4, Quotient
  <2>. QED BY <1>2, <1>5, <2>1
<1> HIDE DEF f, g, d, e, w, u
<1>8. Reaches(MappingInsert(v), n) <=>
        \/ g = f /\ u - SL >= MappingSearch(n)[2] % 32
        \/ g >= f + 1
  <2>1. FirstAbove(f) = f + 1
    BY <1>2 DEF FirstAbove
  <2>. QED BY <1>4, <1>5, <2>1 DEF Reaches
<1>9. SL * d \in Nat /\ SL * e \in Nat /\ d * w \in Nat
  BY <1>1, <1>2, <1>3, <1>4
<1>10. d * w <= 2 * (SL * d)
  <2>1. d * w <= d * (2 * SL)
    BY <1>1, <1>2, <1>4, Multiple
  <2>2. d * (2 * SL) = 2 * (SL * d)
    BY <1>1, <1>2
  <2>. QED BY <2>1, <2>2
<1>11. CASE g = f
  <2>1. CASE w < 2 * SL
    <3>1. Reaches(MappingInsert(v), n) <=> u >= w
      BY <1>1, <1>2, <1>4, <1>5, <1>8, <1>11, <2>1
    <3>2. v >= d * w => u >= w
      BY <1>4, <1>5, <1>6, <1>7, <1>9, <1>11
    <3>3. ASSUME u >= w PROVE v >= d * w
      <4>1. d * w <= d * u
        BY <1>2, <1>4, <1>5, <3>3, Multiple
      <4>2. d * u <= v
        BY <1>6, <1>7, <1>11
      <4>. QED BY <1>7, <1>9, <4>1, <4>2
    <3>. QED BY <1>4, <3>1, <3>2, <3>3
  <2>2. CASE w = 2 * SL
    <3> DEFINE s == MappingSearch(n)[2] % 32
    <3>1. s >= SL
      BY <1>4, <2>2
    <3>2. s \in Int
      BY <1>4
    <3> HIDE DEF s
    <3>3. ~(u - SL >= s)
      BY <1>1, <1>5, <3>1, <3>2
    <3>4. ~ Reaches(MappingInsert(v), n)
      BY <1>2, <1>8, <1>11, <3>3 DEF s
    <3>5. d * w = 2 * (SL * d)
      BY <1>1, <1>2, <2>2
    <3>6. ~(v >= d * w)
      BY <1>3, <1>6, <1>9, <1>11, <3>5
    <3>. QED BY <1>4, <3>4, <3>6
  <2>. QED BY <1>1, <1>4, <2>1, <2>2
<1>12. CASE g >= f + 1
  <2>1. f + 1 \in 0..31 /\ g \in 0..31
    BY <1>2, <1>3
  <2>2. 2^(f + 1) <= 2^g
    BY <1>12, <2>1, PowerGrows, Zenon
  <2>3. 2^(f + 1) = 2 * 2^f
    BY <1>2, Power, Zenon
  <2>4. 2 * (SL * d) <= SL * e
    BY <1>2, <1>3, <2>2, <2>3
  <2>5. v >= d * w
    BY <1>3, <1>9, <1>10, <2>4
  <2>. QED BY <1>4, <1>8, <1>12, <2>5
<1>13. CASE g + 1 <= f
  <2>1. g + 1 \in 0..31 /\ f \in 0..31
    BY <1>2, <1>3
  <2>2. 2^(g + 1) <= 2^f
    BY <1>13, <2>1, PowerGrows, Zenon
  <2>3. 2^(g + 1) = 2 * 2^g
    BY <1>3, Power, Zenon
  <2>4. 2 * (SL * e) <= SL * d
    BY <1>2, <1>3, <2>2, <2>3
  <2>5. ~(v >= d * w)
    BY <1>2, <1>3, <1>4, <1>9, <2>4
  <2>6. ~(g = f) /\ ~(g >= f + 1)
    BY <1>2, <1>3, <1>13
  <2>. QED BY <1>4, <1>8, <2>5, <2>6
<1>. QED BY <1>2, <1>3, <1>11, <1>12, <1>13

(* ... and for every two sizes.                                            *)
LEMMA Reached ==
  ASSUME NEW n \in Nat \ {0}, n < 2^FlMax, NEW v \in Nat \ {0}, v < 2^FlMax
  PROVE  /\ MappingSearch(n)[1] \in 0..(FlMax - 1) /\ MappingSearch(n)[2] \in Nat
         /\ GoodFit(n) \in Nat /\ n <= GoodFit(n)
         /\ Reaches(MappingInsert(v), n) <=> v >= GoodFit(n)
<1>1. SL \in {1, 2, 4, 8, 16} /\ SL \in Nat /\ FlMax \in 1..31
  BY Segments, TlsfIndexAssumption
<1>2. CASE n >= SL
  <2> DEFINE f == Fls(n)
  <2>1. f \in 0..30 /\ f <= FlMax - 1 /\ f >= SlShift /\ Width(n) \in Nat
    BY <1>2, ClassOf
  <2>2. /\ GoodFit(n) = Width(n) * SegmentsFor(n) /\ n <= Width(n) * SegmentsFor(n)
        /\ SegmentsFor(n) \in Nat
        /\ MappingSearch(n)[1] = f /\ MappingSearch(n)[2] \in Nat
    BY <1>2, Searched
  <2> HIDE DEF f
  <2>3. f \in 0..(FlMax - 1) /\ GoodFit(n) \in Nat /\ n <= GoodFit(n)
    BY <1>1, <2>1, <2>2
  <2>4. CASE v >= SL
    <3>1. Reaches(MappingInsert(v), n) <=> v >= GoodFit(n)
      BY <1>2, <2>4, LargeReached
    <3>. QED BY <2>2, <2>3, <3>1
  <2>5. CASE v < SL
    <3>1. MappingInsert(v) = <<0, v>>
      BY <2>5, Inserted
    <3>2. SlShift # 0
      <4>1. ASSUME SlShift = 0 PROVE SL = 1
        BY <4>1 DEF SL
      <4>. QED BY <1>1, <2>5, <4>1
    <3>3. f > 0 /\ FirstAbove(f) = f + 1
      BY <2>1, <3>2, TlsfIndexAssumption DEF FirstAbove
    <3>4. ~ Reaches(MappingInsert(v), n)
      BY <2>1, <2>2, <3>1, <3>3 DEF Reaches
    <3>5. ~(v >= GoodFit(n))
      BY <1>1, <1>2, <2>3, <2>5
    <3>. QED BY <2>2, <2>3, <3>4, <3>5
  <2>. QED BY <1>1, <2>4, <2>5
<1>3. CASE n < SL
  <2>1. MappingSearch(n) = <<0, n>>
    BY <1>3 DEF MappingSearch
  <2>2. GoodFit(n) = n
    <3>1. Segment(n) = 1
      BY <1>3 DEF Segment
    <3>2. ((n + 1 - 1) \div 1) * 1 = n
      OBVIOUS
    <3>. QED BY <3>1, <3>2 DEF GoodFit
  <2>3. n % 32 = n /\ FirstAbove(0) = 1
    BY <1>1, <1>3 DEF FirstAbove
  <2>4. 0 \in 0..(FlMax - 1)
    BY <1>1
  <2>5. CASE v >= SL
    <3>1. MappingInsert(v) = <<Fls(v), (v \div Width(v)) - SL>>
      BY <2>5, Inserted
    <3>2. Fls(v) \in 0..30 /\ Fls(v) >= SlShift
      BY <2>5, ClassOf
    <3>3. SlShift # 0
      <4>1. ASSUME SlShift = 0 PROVE SL = 1
        BY <4>1 DEF SL
      <4>. QED BY <1>1, <1>3, <4>1
    <3>4. Fls(v) >= 1
      BY <3>2, <3>3, TlsfIndexAssumption
    <3>5. Reaches(MappingInsert(v), n)
      BY <2>1, <2>3, <3>1, <3>4 DEF Reaches
    <3>6. v >= n
      BY <1>1, <1>3, <2>5
    <3>. QED BY <2>1, <2>2, <2>4, <3>5, <3>6
  <2>6. CASE v < SL
    <3>1. MappingInsert(v) = <<0, v>>
      BY <2>6, Inserted
    <3>2. Reaches(MappingInsert(v), n) <=> v >= n
      BY <2>1, <2>3, <3>1 DEF Reaches
    <3>. QED BY <2>1, <2>2, <2>4, <3>2
  <2>. QED BY <1>1, <2>5, <2>6
<1>. QED BY <1>1, <1>2, <1>3

-----------------------------------------------------------------------------
(* tlsf_ffs finds the lowest bit of a bitmap that has one.                 *)
LEMMA LowestBit ==
  ASSUME NEW bits, bits \subseteq 0..31, bits # {}
  PROVE  Ffs(bits) \in bits /\ \A c \in bits : Ffs(bits) <= c
<1>1. \E b \in bits : \A c \in bits : b <= c
  <2>1. SUFFICES ASSUME \A b \in bits : \E c \in bits : c < b PROVE FALSE
    OBVIOUS
  <2> DEFINE S == {n \in 0..31 : \A c \in bits : n <= c}
  <2>2. 0 \in S
    OBVIOUS
  <2>3. ASSUME NEW n \in 0..30, n \in S PROVE n + 1 \in S
    <3>1. n \notin bits
      BY <2>1, <2>3
    <3>2. ASSUME NEW c \in bits PROVE n + 1 <= c
      <4>1. c \in 0..31 /\ n <= c /\ n # c
        BY <2>3, <3>1
      <4>. QED BY <4>1
    <3>. QED BY <3>2
  <2>4. \A n \in 0..31 : n \in S
    <3> HIDE DEF S
    <3>. QED BY <2>2, <2>3, BitInduction
  <2>5. 31 \in S
    BY <2>4
  <2>6. PICK b \in bits : TRUE
    BY Zenon
  <2>7. PICK c \in bits : c < b
    BY <2>1
  <2>. QED BY <2>5, <2>7, b \in 0..31, c \in 0..31
<1>. QED BY <1>1, Zenon DEF Ffs

(* The blocks of a list, and that each is on it once.                      *)
On(list) == {list[i] : i \in DOMAIN list}
Once(list) == \A i, j \in DOMAIN list : list[i] = list[j] => i = j

(* A block put in front of a list.                                         *)
LEMMA Pushed ==
  ASSUME NEW list \in Seq(Nat), NEW b \in Nat, Once(list), b \notin On(list)
  PROVE  LET longer == <<b>> \o list IN
         /\ longer \in Seq(Nat) /\ longer # <<>> /\ Once(longer)
         /\ On(longer) = On(list) \cup {b}
<1> DEFINE longer == <<b>> \o list
           n == Len(list)
<1>1. n \in Nat /\ DOMAIN list = 1..n /\ list \in [1..n -> Nat]
  OBVIOUS
<1>2. longer \in Seq(Nat) /\ Len(longer) = n + 1 /\ DOMAIN longer = 1..(n + 1)
  OBVIOUS
<1>3. longer[1] = b
  OBVIOUS
<1>4. \A i \in 2..(n + 1) : longer[i] = list[i - 1] /\ i - 1 \in 1..n
  OBVIOUS
<1> HIDE DEF longer, n
<1>5. longer # <<>>
  BY <1>1, <1>2
<1>6. On(longer) = On(list) \cup {b}
  <2>1. ASSUME NEW c \in On(longer) PROVE c \in On(list) \cup {b}
    <3>1. PICK i \in 1..(n + 1) : c = longer[i]
      BY <1>2 DEF On
    <3>2. CASE i = 1
      BY <1>3, <3>1, <3>2
    <3>3. CASE i # 1
      <4>1. i \in 2..(n + 1)
        BY <1>1, <3>3
      <4>. QED BY <1>1, <1>4, <3>1, <4>1, Zenon DEF On
    <3>. QED BY <3>2, <3>3
  <2>2. ASSUME NEW c \in On(list) PROVE c \in On(longer)
    <3>1. PICK i \in 1..n : c = list[i]
      BY <1>1 DEF On
    <3>2. i + 1 \in 2..(n + 1) /\ i + 1 \in 1..(n + 1) /\ (i + 1) - 1 = i
      BY <1>1
    <3>3. longer[i + 1] = list[i]
      BY <1>4, <3>2
    <3>. QED BY <1>2, <3>1, <3>2, <3>3, Zenon DEF On
  <2>3. b \in On(longer)
    <3>1. 1 \in 1..(n + 1)
      BY <1>1
    <3>. QED BY <1>2, <1>3, <3>1, Zenon DEF On
  <2>. QED BY <2>1, <2>2, <2>3, Zenon
<1>7. Once(longer)
  <2>1. SUFFICES ASSUME NEW i \in 1..(n + 1), NEW j \in 1..(n + 1), longer[i] = longer[j]
                 PROVE  i = j
    BY <1>2 DEF Once
  <2>2. ASSUME NEW k \in 2..(n + 1) PROVE longer[k] # b
    <3>1. list[k - 1] \in On(list)
      BY <1>1, <1>4 DEF On
    <3>. QED BY <1>4, <3>1
  <2>3. CASE i = 1 \/ j = 1
    <3>1. (i = 1 \/ i \in 2..(n + 1)) /\ (j = 1 \/ j \in 2..(n + 1))
      BY <1>1
    <3>. QED BY <1>3, <2>1, <2>2, <2>3, <3>1
  <2>4. CASE i # 1 /\ j # 1
    <3>1. i \in 2..(n + 1) /\ j \in 2..(n + 1)
      BY <1>1, <2>4
    <3>2. list[i - 1] = list[j - 1] /\ i - 1 \in DOMAIN list /\ j - 1 \in DOMAIN list
      BY <1>1, <1>4, <2>1, <3>1
    <3>3. i - 1 = j - 1
      BY <3>2 DEF Once
    <3>. QED BY <1>1, <3>3
  <2>. QED BY <2>3, <2>4
<1>. QED BY <1>2, <1>5, <1>6, <1>7 DEF longer

(* A block taken out of a list.                                            *)
LEMMA TakenOut ==
  ASSUME NEW list \in Seq(Nat), Once(list), NEW b \in On(list)
  PROVE  /\ Unlinked(list, b) \in Seq(Nat) /\ Once(Unlinked(list, b))
         /\ On(Unlinked(list, b)) = On(list) \ {b}
         /\ Unlinked(list, b) = <<>> <=> Len(list) = 1
<1> DEFINE n == Len(list)
           at == CHOOSE i \in DOMAIN list : list[i] = b
           rest == [k \in 1..(n - 1) |-> IF k < at THEN list[k] ELSE list[k + 1]]
<1>1. n \in Nat /\ DOMAIN list = 1..n /\ list \in [1..n -> Nat]
  OBVIOUS
<1>2. at \in DOMAIN list /\ list[at] = b
  BY DEF On
<1>3. Unlinked(list, b) = rest
  BY DEF Unlinked
<1> HIDE DEF n, at
<1>4. at \in 1..n /\ n - 1 \in Nat
  BY <1>1, <1>2
<1>5. ASSUME NEW k \in 1..(n - 1)
      PROVE  /\ k < at => rest[k] = list[k] /\ k \in 1..n /\ k # at
             /\ ~(k < at) => rest[k] = list[k + 1] /\ k + 1 \in 1..n /\ k + 1 # at
  BY <1>1, <1>4
<1>6. rest \in [1..(n - 1) -> Nat]
  <2>1. ASSUME NEW k \in 1..(n - 1) PROVE (IF k < at THEN list[k] ELSE list[k + 1]) \in Nat
    <3>1. k \in 1..n /\ k + 1 \in 1..n
      BY <1>1, <1>4
    <3>. QED BY <1>1, <3>1
  <2>. QED BY <2>1
<1> HIDE DEF rest
<1>7. rest \in Seq(Nat) /\ Len(rest) = n - 1 /\ DOMAIN rest = 1..(n - 1)
  BY <1>4, <1>6
<1>8. rest = <<>> <=> n = 1
  BY <1>1, <1>4, <1>7
<1>9. On(rest) = On(list) \ {b}
  <2>1. ASSUME NEW c \in On(rest) PROVE c \in On(list) /\ c # b
    <3>1. PICK k \in 1..(n - 1) : c = rest[k]
      BY <1>7 DEF On
    <3>2. \E i \in 1..n : i # at /\ c = list[i]
      <4>1. CASE k < at
        BY <1>5, <3>1, <4>1
      <4>2. CASE ~(k < at)
        BY <1>5, <3>1, <4>2
      <4>. QED BY <4>1, <4>2
    <3>3. PICK i \in 1..n : i # at /\ c = list[i]
      BY <3>2
    <3>. QED BY <1>1, <1>2, <3>3 DEF On, Once
  <2>2. ASSUME NEW c \in On(list), c # b PROVE c \in On(rest)
    <3>1. PICK i \in 1..n : c = list[i]
      BY <1>1 DEF On
    <3>2. i # at
      BY <1>2, <2>2, <3>1
    <3>3. CASE i < at
      <4>1. i \in 1..(n - 1)
        BY <1>1, <1>4, <3>3
      <4>2. rest[i] = list[i]
        BY <1>5, <3>3, <4>1
      <4>. QED BY <1>7, <3>1, <4>1, <4>2, Zenon DEF On
    <3>4. CASE ~(i < at)
      <4>1. i - 1 \in 1..(n - 1) /\ ~(i - 1 < at) /\ (i - 1) + 1 = i
        BY <1>1, <1>4, <3>2, <3>4
      <4>2. rest[i - 1] = list[i]
        BY <1>5, <4>1
      <4>. QED BY <1>7, <3>1, <4>1, <4>2, Zenon DEF On
    <3>. QED BY <3>3, <3>4
  <2>. QED BY <2>1, <2>2
<1>10. Once(rest)
  <2>1. SUFFICES ASSUME NEW j \in 1..(n - 1), NEW k \in 1..(n - 1), rest[j] = rest[k]
                 PROVE  j = k
    BY <1>7 DEF Once
  <2> DEFINE From(i) == IF i < at THEN i ELSE i + 1
  <2>2. ASSUME NEW i \in 1..(n - 1) PROVE From(i) \in 1..n /\ rest[i] = list[From(i)]
    BY <1>5
  <2>3. From(j) = From(k)
    <3> HIDE DEF From
    <3>1. list[From(j)] = list[From(k)] /\ From(j) \in DOMAIN list /\ From(k) \in DOMAIN list
      BY <1>1, <2>1, <2>2
    <3>. QED BY <3>1 DEF Once
  <2>. QED BY <1>1, <1>4, <2>3
<1>. QED BY <1>3, <1>7, <1>8, <1>9, <1>10 DEF n

-----------------------------------------------------------------------------
(* The index x holds the blocks of L, which have the given sizes: each is  *)
(* on the list of its size, once, and a bit is set exactly when something  *)
(* is below it.                                                            *)
Index ==
  [blocks : [Lists -> Seq(Nat)],
   fl_bitmap : SUBSET (0..(FlMax - 1)),
   sl_bitmap : [0..(FlMax - 1) -> SUBSET (0..(SL - 1))]]

Holds(x, L, size) ==
  /\ x \in Index
  /\ \A l \in Lists : /\ On(x.blocks[l]) = {b \in L : MappingInsert(size[b]) = l}
                      /\ Once(x.blocks[l])
                      /\ l[2] \in x.sl_bitmap[l[1]] <=> x.blocks[l] # <<>>
  /\ \A fl \in 0..(FlMax - 1) : fl \in x.fl_bitmap <=> x.sl_bitmap[fl] # {}

(* Only the sizes of the blocks in the index matter.                       *)
LEMMA SizesOfOthers ==
  ASSUME NEW x, NEW L, NEW size, NEW size2, Holds(x, L, size),
         \A b \in L : size2[b] = size[b]
  PROVE  Holds(x, L, size2)
<1>1. ASSUME NEW l \in Lists
      PROVE  {b \in L : MappingInsert(size[b]) = l} = {b \in L : MappingInsert(size2[b]) = l}
  OBVIOUS
<1>. QED BY <1>1 DEF Holds

(* An index without blocks.                                                *)
LEMMA NothingHeld ==
  ASSUME NEW size
  PROVE  Holds(EmptyIndex, {}, size)
<1>1. EmptyIndex \in Index
  <2>1. <<>> \in Seq(Nat)
    OBVIOUS
  <2>2. {} \in SUBSET (0..(FlMax - 1)) /\ {} \in SUBSET (0..(SL - 1))
    OBVIOUS
  <2>3. /\ [l \in Lists |-> <<>>] \in [Lists -> Seq(Nat)]
        /\ [fl \in 0..(FlMax - 1) |-> {}] \in [0..(FlMax - 1) -> SUBSET (0..(SL - 1))]
    BY <2>1, <2>2
  <2>. QED BY <2>2, <2>3 DEF EmptyIndex, Index
<1>2. ASSUME NEW l \in Lists PROVE EmptyIndex.blocks[l] = <<>>
  BY DEF EmptyIndex
<1>3. ASSUME NEW fl \in 0..(FlMax - 1) PROVE EmptyIndex.sl_bitmap[fl] = {}
  BY DEF EmptyIndex
<1>4. EmptyIndex.fl_bitmap = {}
  BY DEF EmptyIndex
<1>5. On(<<>>) = {} /\ Once(<<>>)
  BY DEF On, Once
<1>6. ASSUME NEW l \in Lists PROVE l[1] \in 0..(FlMax - 1)
  BY DEF Lists
<1>. QED BY <1>1, <1>2, <1>3, <1>4, <1>5, <1>6 DEF Holds

(* tlsf_insert_free_block_nolock.                                          *)
LEMMA InsertHolds ==
  ASSUME NEW x, NEW L, NEW size, Holds(x, L, size),
         NEW b \in Nat, b \notin L, size[b] \in Nat \ {0}, size[b] < 2^FlMax
  PROVE  Holds(InsertFreeBlock(x, b, size[b]), L \cup {b}, size)
<1> DEFINE k == MappingInsert(size[b])
           y == InsertFreeBlock(x, b, size[b])
           longer == <<b>> \o x.blocks[k]
<1>1. k \in Lists
  BY Inserted
<1> HIDE DEF k
<1>2. k[1] \in 0..(FlMax - 1) /\ k[2] \in 0..(SL - 1) /\ k = <<k[1], k[2]>>
  BY <1>1 DEF Lists
<1>3. /\ x.blocks \in [Lists -> Seq(Nat)] /\ x.fl_bitmap \in SUBSET (0..(FlMax - 1))
      /\ x.sl_bitmap \in [0..(FlMax - 1) -> SUBSET (0..(SL - 1))]
  BY DEF Holds, Index
<1>4. y = [x EXCEPT !.blocks[k] = longer, !.fl_bitmap = @ \cup {k[1]},
                    !.sl_bitmap[k[1]] = @ \cup {k[2]}]
  BY DEF InsertFreeBlock, k
<1>5. /\ y.blocks = [x.blocks EXCEPT ![k] = longer]
      /\ y.fl_bitmap = x.fl_bitmap \cup {k[1]}
      /\ y.sl_bitmap = [x.sl_bitmap EXCEPT ![k[1]] = @ \cup {k[2]}]
      /\ y = [blocks |-> y.blocks, fl_bitmap |-> y.fl_bitmap, sl_bitmap |-> y.sl_bitmap]
  <2>1. x = [blocks |-> x.blocks, fl_bitmap |-> x.fl_bitmap, sl_bitmap |-> x.sl_bitmap]
    BY DEF Holds, Index
  <2>. QED BY <1>4, <2>1, Zenon
<1> HIDE DEF y, longer
<1>6. /\ longer \in Seq(Nat) /\ longer # <<>> /\ Once(longer)
      /\ On(longer) = On(x.blocks[k]) \cup {b}
  <2>1. x.blocks[k] \in Seq(Nat) /\ Once(x.blocks[k]) /\ b \notin On(x.blocks[k])
    BY <1>1, <1>3 DEF Holds
  <2> DEFINE list == x.blocks[k]
  <2>2. list \in Seq(Nat) /\ Once(list) /\ b \notin On(list)
    BY <2>1
  <2>3. longer = <<b>> \o list
    BY DEF longer
  <2> HIDE DEF list
  <2>4. longer \in Seq(Nat) /\ longer # <<>> /\ Once(longer) /\ On(longer) = On(list) \cup {b}
    BY <2>2, <2>3, Pushed
  <2>. QED BY <2>4 DEF list
<1>7. y \in Index
  <2>1. y.blocks \in [Lists -> Seq(Nat)]
    BY <1>1, <1>3, <1>5, <1>6
  <2>2. y.fl_bitmap \in SUBSET (0..(FlMax - 1))
    BY <1>2, <1>3, <1>5
  <2>3. y.sl_bitmap \in [0..(FlMax - 1) -> SUBSET (0..(SL - 1))]
    <3>1. x.sl_bitmap[k[1]] \cup {k[2]} \in SUBSET (0..(SL - 1))
      BY <1>2, <1>3, Zenon
    <3> DEFINE D == 0..(FlMax - 1)
               R == SUBSET (0..(SL - 1))
               v == x.sl_bitmap[k[1]] \cup {k[2]}
    <3>2. y.sl_bitmap = [x.sl_bitmap EXCEPT ![k[1]] = v] /\ x.sl_bitmap \in [D -> R] /\ v \in R
      BY <1>3, <1>5, <3>1
    <3> HIDE DEF D, R, v
    <3>. QED BY <3>2, Zenon DEF D, R
  <2>. QED BY <1>5, <2>1, <2>2, <2>3, Zenon DEF Index
<1>8. ASSUME NEW l \in Lists
      PROVE  /\ On(y.blocks[l]) = {c \in L \cup {b} : MappingInsert(size[c]) = l}
             /\ Once(y.blocks[l])
             /\ l[2] \in y.sl_bitmap[l[1]] <=> y.blocks[l] # <<>>
  <2>1. /\ On(x.blocks[l]) = {c \in L : MappingInsert(size[c]) = l} /\ Once(x.blocks[l])
        /\ l[2] \in x.sl_bitmap[l[1]] <=> x.blocks[l] # <<>>
    BY DEF Holds
  <2>2. l[1] \in 0..(FlMax - 1) /\ l = <<l[1], l[2]>>
    BY DEF Lists
  <2>3. CASE l = k
    <3>1. y.blocks[l] = longer
      BY <1>1, <1>3, <1>5, <2>3
    <3>2. l[2] \in y.sl_bitmap[l[1]]
      BY <1>2, <1>3, <1>5, <2>3, Zenon
    <3>3. On(longer) = {c \in L \cup {b} : MappingInsert(size[c]) = l}
      BY <1>6, <2>1, <2>3, Zenon DEF k
    <3>. QED BY <1>6, <3>1, <3>2, <3>3
  <2>4. CASE l # k
    <3>1. y.blocks[l] = x.blocks[l]
      BY <1>3, <1>5, <2>4, Zenon
    <3>2. l[2] \in y.sl_bitmap[l[1]] <=> l[2] \in x.sl_bitmap[l[1]]
      <4>1. l[1] # k[1] \/ l[2] # k[2]
        BY <1>2, <2>2, <2>4
      <4>. QED BY <1>2, <1>3, <1>5, <2>2, <4>1
    <3>3. {c \in L \cup {b} : MappingInsert(size[c]) = l} = {c \in L : MappingInsert(size[c]) = l}
      BY <2>4 DEF k
    <3>. QED BY <2>1, <3>1, <3>2, <3>3
  <2>. QED BY <2>3, <2>4
<1>9. ASSUME NEW fl \in 0..(FlMax - 1)
      PROVE  fl \in y.fl_bitmap <=> y.sl_bitmap[fl] # {}
  <2>1. fl \in x.fl_bitmap <=> x.sl_bitmap[fl] # {}
    BY DEF Holds
  <2>2. CASE fl = k[1]
    <3>1. y.sl_bitmap[fl] = x.sl_bitmap[fl] \cup {k[2]}
      BY <1>3, <1>5, <2>2, Zenon
    <3>2. fl \in y.fl_bitmap
      BY <1>5, <2>2
    <3>. QED BY <3>1, <3>2
  <2>3. CASE fl # k[1]
    BY <1>3, <1>5, <2>1, <2>3, Zenon
  <2>. QED BY <2>2, <2>3
<1>. QED BY <1>7, <1>8, <1>9, Zenon DEF Holds, y

(* tlsf_remove_free_block_nolock.                                          *)
LEMMA RemoveHolds ==
  ASSUME NEW x, NEW L, NEW size, Holds(x, L, size),
         NEW b \in L, size[b] \in Nat \ {0}, size[b] < 2^FlMax
  PROVE  Holds(RemoveFreeBlock(x, b, size[b]), L \ {b}, size)
<1> DEFINE k == MappingInsert(size[b])
           y == RemoveFreeBlock(x, b, size[b])
           rest == Unlinked(x.blocks[k], b)
           bits == BitsLeft(x, k)
           fls == IF bits = {} THEN x.fl_bitmap \ {k[1]} ELSE x.fl_bitmap
<1>1. k \in Lists
  BY Inserted
<1> HIDE DEF k
<1>2. k[1] \in 0..(FlMax - 1) /\ k[2] \in 0..(SL - 1) /\ k = <<k[1], k[2]>>
  BY <1>1 DEF Lists
<1>3. /\ x.blocks \in [Lists -> Seq(Nat)] /\ x.fl_bitmap \in SUBSET (0..(FlMax - 1))
      /\ x.sl_bitmap \in [0..(FlMax - 1) -> SUBSET (0..(SL - 1))]
  BY DEF Holds, Index
<1>4. y = [x EXCEPT !.blocks[k] = rest, !.fl_bitmap = fls, !.sl_bitmap[k[1]] = bits]
  BY DEF RemoveFreeBlock, k
<1> HIDE DEF rest, bits, fls
<1>5. /\ y.blocks = [x.blocks EXCEPT ![k] = rest]
      /\ y.fl_bitmap = fls
      /\ y.sl_bitmap = [x.sl_bitmap EXCEPT ![k[1]] = bits]
      /\ y = [blocks |-> y.blocks, fl_bitmap |-> y.fl_bitmap, sl_bitmap |-> y.sl_bitmap]
  <2>1. x = [blocks |-> x.blocks, fl_bitmap |-> x.fl_bitmap, sl_bitmap |-> x.sl_bitmap]
    BY DEF Holds, Index
  <2>. QED BY <1>4, <2>1, Zenon
<1> HIDE DEF y
<1>6. /\ rest \in Seq(Nat) /\ Once(rest)
      /\ On(rest) = On(x.blocks[k]) \ {b}
      /\ rest = <<>> <=> Len(x.blocks[k]) = 1
  <2> DEFINE list == x.blocks[k]
  <2>1. list \in Seq(Nat) /\ Once(list)
    BY <1>1, <1>3 DEF Holds
  <2>2. b \in On(list)
    BY <1>1 DEF Holds, k
  <2>3. rest = Unlinked(list, b)
    BY DEF rest
  <2> HIDE DEF list
  <2>4. /\ rest \in Seq(Nat) /\ Once(rest)
        /\ On(rest) = On(list) \ {b}
        /\ rest = <<>> <=> Len(list) = 1
    BY <2>1, <2>2, <2>3, TakenOut
  <2>. QED BY <2>4 DEF list
<1>7. /\ rest = <<>> => bits = x.sl_bitmap[k[1]] \ {k[2]}
      /\ rest # <<>> => bits = x.sl_bitmap[k[1]]
      /\ bits \in SUBSET (0..(SL - 1))
  <2>1. x.sl_bitmap[k[1]] \in SUBSET (0..(SL - 1))
    BY <1>2, <1>3, Zenon
  <2>2. bits = IF Len(x.blocks[k]) = 1 THEN x.sl_bitmap[k[1]] \ {k[2]} ELSE x.sl_bitmap[k[1]]
    BY DEF bits, BitsLeft
  <2>. QED BY <1>6, <2>1, <2>2
<1>8. y \in Index
  <2>1. y.blocks \in [Lists -> Seq(Nat)]
    BY <1>1, <1>3, <1>5, <1>6
  <2>2. y.fl_bitmap \in SUBSET (0..(FlMax - 1))
    BY <1>3, <1>5 DEF fls
  <2>3. y.sl_bitmap \in [0..(FlMax - 1) -> SUBSET (0..(SL - 1))]
    BY <1>3, <1>5, <1>7, Zenon
  <2>. QED BY <1>5, <2>1, <2>2, <2>3, Zenon DEF Index
<1>9. k[2] \in x.sl_bitmap[k[1]]
  <2>1. b \in On(x.blocks[k])
    BY <1>1 DEF Holds, k
  <2>2. x.blocks[k] # <<>>
    BY <2>1 DEF On
  <2>. QED BY <1>1, <2>2 DEF Holds
<1>10. ASSUME NEW l \in Lists
       PROVE  /\ On(y.blocks[l]) = {c \in L \ {b} : MappingInsert(size[c]) = l}
              /\ Once(y.blocks[l])
              /\ l[2] \in y.sl_bitmap[l[1]] <=> y.blocks[l] # <<>>
  <2>1. /\ On(x.blocks[l]) = {c \in L : MappingInsert(size[c]) = l} /\ Once(x.blocks[l])
        /\ l[2] \in x.sl_bitmap[l[1]] <=> x.blocks[l] # <<>>
    BY DEF Holds
  <2>2. l[1] \in 0..(FlMax - 1) /\ l = <<l[1], l[2]>>
    BY DEF Lists
  <2>3. CASE l = k
    <3>1. y.blocks[l] = rest
      BY <1>1, <1>3, <1>5, <2>3
    <3>2. y.sl_bitmap[l[1]] = bits
      BY <1>2, <1>3, <1>5, <2>3, Zenon
    <3>3. l[2] \in bits <=> rest # <<>>
      BY <1>7, <1>9, <2>3
    <3>4. On(rest) = {c \in L \ {b} : MappingInsert(size[c]) = l}
      BY <1>6, <2>1, <2>3
    <3>. QED BY <1>6, <3>1, <3>2, <3>3, <3>4
  <2>4. CASE l # k
    <3>1. y.blocks[l] = x.blocks[l]
      BY <1>3, <1>5, <2>4
    <3>2. l[2] \in y.sl_bitmap[l[1]] <=> l[2] \in x.sl_bitmap[l[1]]
      <4>1. CASE l[1] # k[1]
        BY <1>3, <1>5, <2>2, <4>1
      <4>2. CASE l[1] = k[1] /\ l[2] # k[2]
        <5>1. y.sl_bitmap[l[1]] = bits
          BY <1>2, <1>3, <1>5, <4>2, Zenon
        <5>. QED BY <1>7, <4>2, <5>1
      <4>. QED BY <1>2, <2>2, <2>4, <4>1, <4>2
    <3>3. {c \in L \ {b} : MappingInsert(size[c]) = l} = {c \in L : MappingInsert(size[c]) = l}
      BY <2>4 DEF k
    <3>. QED BY <2>1, <3>1, <3>2, <3>3
  <2>. QED BY <2>3, <2>4
<1>11. ASSUME NEW fl \in 0..(FlMax - 1)
       PROVE  fl \in y.fl_bitmap <=> y.sl_bitmap[fl] # {}
  <2>1. /\ fl \in x.fl_bitmap <=> x.sl_bitmap[fl] # {}
        /\ k[1] \in x.fl_bitmap
    BY <1>2, <1>9 DEF Holds
  <2>2. CASE fl = k[1]
    <3>1. y.sl_bitmap[fl] = bits
      BY <1>3, <1>5, <2>2, Zenon
    <3>2. fl \in fls <=> bits # {}
      BY <2>1, <2>2 DEF fls
    <3>. QED BY <1>5, <3>1, <3>2
  <2>3. CASE fl # k[1]
    <3>1. y.sl_bitmap[fl] = x.sl_bitmap[fl]
      BY <1>3, <1>5, <2>3
    <3>2. fl \in fls <=> fl \in x.fl_bitmap
      BY <2>3 DEF fls
    <3>. QED BY <1>5, <2>1, <3>1, <3>2
  <2>. QED BY <2>2, <2>3
<1>. QED BY <1>8, <1>10, <1>11, Zenon DEF Holds, y

(* A list under a set bit starts with a block of that list.                *)
LEMMA BitsLead ==
  ASSUME NEW x, NEW L, NEW size, Holds(x, L, size), NEW fl \in 0..(FlMax - 1),
         NEW sl \in x.sl_bitmap[fl]
  PROVE  LET b == x.blocks[<<fl, sl>>][1] IN
         b \in L /\ MappingInsert(size[b]) = <<fl, sl>>
<1> DEFINE l == <<fl, sl>>
           list == x.blocks[l]
<1>1. l \in Lists /\ l[1] = fl /\ l[2] = sl
  BY Zenon DEF Holds, Index, Lists
<1> HIDE DEF l
<1>2. list \in Seq(Nat) /\ list # <<>>
  BY <1>1 DEF Holds, Index
<1>3. On(list) = {b \in L : MappingInsert(size[b]) = l}
  BY <1>1 DEF Holds
<1> HIDE DEF list
<1>4. list[1] \in On(list)
  <2>1. 1 \in DOMAIN list
    BY <1>2
  <2>. QED BY <2>1 DEF On
<1>. QED BY <1>3, <1>4 DEF list, l

(* tlsf_find_suitable_block: the block it finds is large enough, and it    *)
(* finds one whenever one of the blocks reaches the request rounded up to  *)
(* a segment.                                                              *)
LEMMA GoodFitFound ==
  ASSUME NEW x, NEW L, L \subseteq Nat, NEW size, Holds(x, L, size),
         \A b \in L : size[b] \in Nat \ {0} /\ size[b] < 2^FlMax,
         NEW n \in Nat \ {0}, n < 2^FlMax
  PROVE  LET b == FindSuitableBlock(x, n) IN
         IF b = NoFit THEN \A c \in L : size[c] < GoodFit(n)
                      ELSE b \in L /\ size[b] >= n
<1> DEFINE fl == MappingSearch(n)[1]
           sl == MappingSearch(n)[2]
           sl_map == {s \in x.sl_bitmap[fl] : s >= sl % 32}
           fl_map == {f \in x.fl_bitmap : f >= FirstAbove(fl)}
           upper == Ffs(fl_map)
           found == FindSuitableBlock(x, n)
<1>1. /\ fl \in 0..(FlMax - 1) /\ sl \in Nat
      /\ GoodFit(n) \in Nat /\ n <= GoodFit(n)
  <2>1. n \in Nat \ {0} /\ n < 2^FlMax
    OBVIOUS
  <2>. QED BY <2>1, Reached
<1>2. ASSUME NEW b \in L PROVE Reaches(MappingInsert(size[b]), n) <=> size[b] >= GoodFit(n)
  BY Reached
<1>3. found = CASE sl_map # {} -> x.blocks[<<fl, Ffs(sl_map)>>][1]
                [] sl_map = {} /\ fl_map # {} -> x.blocks[<<upper, Ffs(x.sl_bitmap[upper])>>][1]
                [] OTHER -> NoFit
  BY DEF FindSuitableBlock
<1>4. /\ x.fl_bitmap \subseteq 0..(FlMax - 1) /\ FlMax \in Nat
      /\ 0..(FlMax - 1) \subseteq 0..31
      /\ \A f \in 0..(FlMax - 1) : x.sl_bitmap[f] \subseteq 0..31
      /\ \A f \in 0..(FlMax - 1) : f \in x.fl_bitmap <=> x.sl_bitmap[f] # {}
  <2>1. x \in Index /\ \A f \in 0..(FlMax - 1) : f \in x.fl_bitmap <=> x.sl_bitmap[f] # {}
    BY DEF Holds
  <2>2. 0..(SL - 1) \subseteq 0..31
    BY Segments
  <2>3. 0..(FlMax - 1) \subseteq 0..31 /\ FlMax \in Nat
    BY TlsfIndexAssumption
  <2>4. /\ x.fl_bitmap \subseteq 0..(FlMax - 1)
        /\ \A f \in 0..(FlMax - 1) : x.sl_bitmap[f] \subseteq 0..(SL - 1)
    BY <2>1, Zenon DEF Index
  <2>5. \A f \in 0..(FlMax - 1) : x.sl_bitmap[f] \subseteq 0..31
    BY <2>2, <2>4, Zenon
  <2>. QED BY <2>1, <2>3, <2>4, <2>5
<1>5. ASSUME NEW b \in L, Reaches(MappingInsert(size[b]), n)
      PROVE  b # NoFit /\ b \in L /\ size[b] >= n
  <2>1. size[b] \in Nat /\ size[b] >= GoodFit(n) /\ b \in Nat
    BY <1>2, <1>5
  <2>. QED BY <1>1, <2>1 DEF NoFit
<1> HIDE DEF found
<1>6. CASE sl_map # {}
  <2> DEFINE s == Ffs(sl_map)
             b == x.blocks[<<fl, s>>][1]
  <2>1. s \in sl_map
    <3> HIDE DEF sl_map
    <3>1. sl_map \subseteq 0..31
      BY <1>1, <1>4 DEF sl_map
    <3>. QED BY <1>6, <3>1, LowestBit, Zenon
  <2> HIDE DEF s
  <2>2. s \in x.sl_bitmap[fl] /\ s >= sl % 32
    BY <2>1
  <2>3. b \in L /\ MappingInsert(size[b]) = <<fl, s>>
    BY <1>1, <2>2, BitsLead
  <2>4. found = b
    BY <1>3, <1>6, Zenon DEF s
  <2> HIDE DEF b
  <2>5. Reaches(MappingInsert(size[b]), n)
    BY <2>2, <2>3 DEF Reaches
  <2>. QED BY <1>5, <2>3, <2>4, <2>5 DEF found
<1>7. CASE sl_map = {} /\ fl_map # {}
  <2> DEFINE u == upper
             s == Ffs(x.sl_bitmap[u])
             b == x.blocks[<<u, s>>][1]
  <2>1. u \in fl_map
    <3> HIDE DEF fl_map
    <3>1. fl_map \subseteq 0..31
      BY <1>4, Zenon DEF fl_map
    <3>. QED BY <1>7, <3>1, LowestBit, Zenon
  <2>2. found = b
    BY <1>3, <1>7, Zenon
  <2> HIDE DEF u
  <2>3. u \in 0..(FlMax - 1) /\ x.sl_bitmap[u] # {} /\ u >= FirstAbove(fl)
    BY <1>4, <2>1
  <2>4. s \in x.sl_bitmap[u]
    BY <1>4, <2>3, LowestBit
  <2> HIDE DEF s
  <2>5. b \in L /\ MappingInsert(size[b]) = <<u, s>>
    BY <2>3, <2>4, BitsLead
  <2> HIDE DEF b
  <2>6. Reaches(MappingInsert(size[b]), n)
    BY <2>3, <2>5 DEF Reaches
  <2>. QED BY <1>5, <2>2, <2>5, <2>6 DEF found
<1>8. CASE sl_map = {} /\ fl_map = {}
  <2>1. found = NoFit
    BY <1>3, <1>8, Zenon
  <2>2. ASSUME NEW c \in L PROVE size[c] < GoodFit(n)
    <3> DEFINE l == MappingInsert(size[c])
    <3>1. l \in Lists
      BY Inserted
    <3> HIDE DEF l
    <3>2. l[1] \in 0..(FlMax - 1) /\ l[2] \in x.sl_bitmap[l[1]]
      <4>1. c \in On(x.blocks[l])
        BY <3>1 DEF Holds, l
      <4>2. x.blocks[l] # <<>>
        BY <4>1 DEF On
      <4>. QED BY <3>1, <4>2 DEF Holds, Lists
    <3>3. l[1] \in x.fl_bitmap
      BY <1>4, <3>2
    <3>4. ~ Reaches(l, n)
      BY <1>8, <3>2, <3>3 DEF Reaches
    <3>5. ~(size[c] >= GoodFit(n)) /\ size[c] \in Nat
      BY <1>2, <3>4 DEF l
    <3>. QED BY <1>1, <3>5
  <2>. QED BY <2>1, <2>2 DEF found
<1>. QED BY <1>6, <1>7, <1>8

-----------------------------------------------------------------------------
-----------------------------------------------------------------------------
(* No two listed blocks are neighbours, and PREV_FREE is set after each    *)
(* (in a block, not in the sentinel): without the flag tlsf_free would not *)
(* merge the next block to come back.                                      *)
Apart(h) ==
  \A b \in h.listed :
    NextPhys(h, b) \notin h.listed /\ (NextPhys(h, b) # RegionSize => h.prev_free[NextPhys(h, b)])

(* The inductive invariant of the region with its index.                   *)
IndexedInv ==
  IInv /\ Holds(index, heap.listed, heap.size) /\ (~returned => Apart(heap))

(* Every block's size has a list.                                          *)
LEMMA SizeMapped ==
  ASSUME NEW h \in Heaps, Tiled(h), NEW b \in Starts(h)
  PROVE  b \in Nat /\ h.size[b] \in Nat \ {0} /\ h.size[b] < 2^FlMax
<1> DEFINE top == 2^FlMax
<1>1. /\ b \in Nat /\ h.size[b] \in Nat /\ h.size[b] > 0
      /\ b + h.size[b] <= RegionSize /\ RegionSize \in Nat
  BY Start, TlsfPoolAssumption DEF NextPhys
<1>2. top \in Nat /\ RegionSize < top
  <2>1. FlMax \in 0..31 /\ FlMax <= FlMax
    BY TlsfIndexAssumption
  <2>2. 2^FlMax \in Nat \ {0}
    BY <2>1, PowerGrows, Zenon
  <2>. QED BY <2>2, TlsfIndexedAssumption
<1> HIDE DEF top
<1>3. h.size[b] \in Nat \ {0} /\ h.size[b] < top
  BY <1>1, <1>2
<1>. QED BY <1>1, <1>3 DEF top

(* Two blocks do not have the same successor.                              *)
LEMMA OnePredecessor ==
  ASSUME NEW h, NEW E, Tagged(h, E), NEW b \in Starts(h), NEW c \in Starts(h),
         NextPhys(h, b) = NextPhys(h, c)
  PROVE  b = c
BY DEF Tagged

(* The end of tlsf_alloc and of tlsf_try_inplace_expand keeps the index in *)
(* step.                                                                   *)
LEMMA CarveHolds ==
  ASSUME NEW h, NEW S, NEW b, NEW n, Carvable(h, S, b, n), NEW g, g = Carve(h, b, h.size[b], n),
         NEW x, Holds(x, h.listed, h.size)
  PROVE  Holds(IndexCarve(x, b, h.size[b], n), g.listed, g.size)
<1> DEFINE s == b + n
           total == h.size[b]
<1>1. Carved(h, S, b, n, g)
  BY CarveSound
<1>2. /\ Splits(total - n) => Cut(h, b, n, g)
      /\ ~Splits(total - n) => Uncut(h, b, g)
  BY CarveSound
<1>3. h.listed \subseteq Starts(h) \ {b} /\ Starts(h) \subseteq Offsets
  BY Zenon DEF Carvable, Listing, Idle, Starts
<1>4. CASE ~Splits(total - n)
  BY <1>2, <1>4, Zenon DEF Uncut, IndexCarve
<1>5. CASE Splits(total - n)
  <2>1. /\ s \in Offsets /\ s \notin Starts(h) /\ g.listed = h.listed \cup {s}
        /\ g.size[s] = total - n /\ \A o \in Offsets \ {b, s} : g.size[o] = h.size[o]
    BY <1>2, <1>5, Zenon DEF Cut
  <2>2. IndexCarve(x, b, total, n) = InsertFreeBlock(x, s, g.size[s])
    BY <1>5, <2>1, Zenon DEF IndexCarve
  <2>3. \A c \in h.listed : g.size[c] = h.size[c]
    BY <1>3, <2>1, Zenon
  <2>4. Holds(x, h.listed, g.size)
    BY <2>3, SizesOfOthers
  <2>5. s \in Nat /\ g.size[s] \in Nat \ {0} /\ g.size[s] < 2^FlMax
    <3>1. g \in Heaps /\ Tiled(g) /\ s \in Starts(g)
      BY <1>1, <2>1, Zenon DEF Carved, Sound, Listing, Idle
    <3>. QED BY <3>1, SizeMapped, Zenon
  <2>6. s \notin h.listed
    BY <1>3, <2>1
  <2> HIDE DEF s, total
  <2>7. Holds(InsertFreeBlock(x, s, g.size[s]), h.listed \cup {s}, g.size)
    BY <2>4, <2>5, <2>6, InsertHolds, Zenon
  <2>. QED BY <2>1, <2>2, <2>7, Zenon DEF total
<1>. QED BY <1>4, <1>5

(* And no neighbours on the lists.                                         *)
LEMMA CarveApart ==
  ASSUME NEW h, NEW S, NEW b, NEW n, Carvable(h, S, b, n), NEW g, g = Carve(h, b, h.size[b], n),
         Apart(h), NextPhys(h, b) \notin h.listed
  PROVE  Apart(g)
<1> DEFINE s == b + n
           after == NextPhys(h, b)
<1>1. /\ Splits(h.size[b] - n) => Cut(h, b, n, g)
      /\ ~Splits(h.size[b] - n) => Uncut(h, b, g)
  BY CarveSound
<1>2. /\ h.listed \subseteq Starts(h) \ {b} /\ Starts(h) \subseteq Offsets /\ h \in Heaps
      /\ b \in Starts(h) /\ Tiled(h) /\ Tagged(h, {after})
  BY Zenon DEF Carvable, Listing, Idle, Starts
<1>3. ASSUME NEW c \in h.listed
      PROVE  /\ c \in Offsets /\ c \in Starts(h) /\ c # b /\ NextPhys(h, c) # after
             /\ NextPhys(h, c) \in Offsets /\ NextPhys(h, c) \in Starts(h) \cup {RegionSize}
             /\ NextPhys(h, c) \notin h.listed /\ (NextPhys(h, c) # RegionSize => h.prev_free[NextPhys(h, c)])
  <2>1. c \in Offsets /\ c \in Starts(h) /\ c # b
    BY <1>2
  <2>2. NextPhys(h, c) # after
    BY <1>2, <2>1, OnePredecessor, Zenon
  <2>3. NextPhys(h, c) \in Offsets /\ NextPhys(h, c) \in Starts(h) \cup {RegionSize}
    BY <1>2, <2>1, Start, Zenon DEF Tiled
  <2>. QED BY <2>1, <2>2, <2>3, Zenon DEF Apart
<1> HIDE DEF after
<1>4. CASE ~Splits(h.size[b] - n)
  <2>1. /\ g.listed = h.listed /\ g.size = h.size
        /\ \A o \in Offsets \ {after} : g.prev_free[o] = h.prev_free[o]
    BY <1>1, <1>4, Zenon DEF Uncut, after
  <2>. QED BY <1>3, <2>1, Zenon DEF Apart, NextPhys
<1>5. CASE Splits(h.size[b] - n)
  <2>1. /\ s \in Offsets /\ s \notin Starts(h) /\ s # RegionSize /\ g.listed = h.listed \cup {s}
        /\ \A o \in Offsets \ {b, s} : g.size[o] = h.size[o]
        /\ NextPhys(g, s) = after /\ g.prev_free[after]
        /\ \A o \in Offsets \ {s, after} : g.prev_free[o] = h.prev_free[o]
    BY <1>1, <1>5, Zenon DEF Cut, after
  <2>2. after \in Starts(h) \cup {RegionSize}
    BY <1>2 DEF Tiled, after
  <2> HIDE DEF s
  <2>3. ASSUME NEW c \in h.listed
        PROVE  NextPhys(g, c) \notin g.listed /\ (NextPhys(g, c) # RegionSize => g.prev_free[NextPhys(g, c)])
    <3>1. NextPhys(g, c) = NextPhys(h, c)
      BY <1>3, <2>1, Zenon DEF NextPhys
    <3>. QED BY <1>3, <2>1, <3>1
  <2>4. NextPhys(g, s) \notin g.listed /\ (NextPhys(g, s) # RegionSize => g.prev_free[NextPhys(g, s)])
    BY <2>1, <2>2, Zenon DEF after
  <2>. QED BY <2>1, <2>3, <2>4, Zenon DEF Apart
<1>. QED BY <1>4, <1>5

(* A merge of b with the block after it, which is on its list, leaves the  *)
(* index without that block, and no neighbours on the lists.               *)
LEMMA SwallowHolds ==
  ASSUME NEW h \in Heaps, Tiled(h), Tagged(h, {}), h.listed \subseteq Starts(h),
         NEW b \in Starts(h), b \notin h.listed, NEW n \in h.listed, n = NextPhys(h, b),
         NEW g, Swallowed(h, b, n, g), NEW x, Holds(x, h.listed, h.size)
  PROVE  /\ Holds(RemoveFreeBlock(x, n, h.size[n]), g.listed, g.size)
         /\ Apart(h) => Apart(g) /\ NextPhys(g, b) \notin g.listed
<1>1. /\ g.listed = h.listed \ {n} /\ \A o \in Offsets \ {b, n} : g.size[o] = h.size[o]
      /\ NextPhys(g, b) = NextPhys(h, n) /\ \A o \in Offsets \ {n} : g.prev_free[o] = h.prev_free[o]
  BY DEF Swallowed
<1>2. \A c \in g.listed : c \in Starts(h) /\ c \in Offsets \ {b, n}
  BY <1>1 DEF Starts
<1>3. Holds(RemoveFreeBlock(x, n, h.size[n]), g.listed, g.size)
  <2>1. h.size[n] \in Nat \ {0} /\ h.size[n] < 2^FlMax
    BY SizeMapped
  <2>2. Holds(RemoveFreeBlock(x, n, h.size[n]), h.listed \ {n}, h.size)
    BY <2>1, RemoveHolds, Zenon
  <2>3. \A c \in h.listed \ {n} : g.size[c] = h.size[c]
    BY <1>1, <1>2
  <2>. QED BY <1>1, <2>2, <2>3, SizesOfOthers
<1>4. ASSUME Apart(h), NEW c \in g.listed
      PROVE  NextPhys(g, c) \notin g.listed /\ (NextPhys(g, c) # RegionSize => g.prev_free[NextPhys(g, c)])
  <2>1. NextPhys(g, c) = NextPhys(h, c)
    BY <1>1, <1>2, Zenon DEF NextPhys
  <2>2. NextPhys(h, c) \in Offsets /\ NextPhys(h, c) # n
    BY <1>2, Start, OnePredecessor, Zenon
  <2>. QED BY <1>1, <1>4, <2>1, <2>2, Zenon DEF Apart
<1>. QED BY <1>1, <1>3, <1>4, Zenon DEF Apart

(* The end of tlsf_free puts the whole on its list, between blocks that    *)
(* are not.                                                                *)
LEMMA FinishHolds ==
  ASSUME NEW h \in Heaps, Tiled(h), h.listed \subseteq Starts(h), NEW S, NEW b \in Starts(h),
         b \notin h.listed, NEW g, Finished(h, S, b, g), NEW x, Holds(x, h.listed, h.size)
  PROVE  /\ Holds(InsertFreeBlock(x, b, h.size[b]), g.listed, g.size)
         /\ /\ Apart(h) /\ NextPhys(h, b) \notin h.listed
            /\ \A c \in h.listed : NextPhys(h, c) # b
            => Apart(g)
<1>1. /\ g.listed = h.listed \cup {b} /\ g.size = h.size /\ g.prev_free[NextPhys(h, b)]
      /\ \A o \in Offsets \ {NextPhys(h, b)} : g.prev_free[o] = h.prev_free[o]
  BY DEF Finished
<1>2. b \in Nat /\ h.size[b] \in Nat \ {0} /\ h.size[b] < 2^FlMax
  BY SizeMapped
<1>3. Holds(InsertFreeBlock(x, b, h.size[b]), g.listed, g.size)
  BY <1>1, <1>2, InsertHolds
<1>4. \A c \in h.listed : NextPhys(h, c) \in Offsets
  BY Start
<1>5. NextPhys(h, b) # b
  BY Start
<1>6. \A c : NextPhys(g, c) = NextPhys(h, c)
  BY <1>1 DEF NextPhys
<1>7. ASSUME Apart(h), NextPhys(h, b) \notin h.listed, \A c \in h.listed : NextPhys(h, c) # b,
             NEW c \in g.listed
      PROVE  NextPhys(g, c) \notin g.listed /\ (NextPhys(g, c) # RegionSize => g.prev_free[NextPhys(g, c)])
  <2>1. CASE c = b
    BY <1>1, <1>5, <1>6, <1>7, <2>1, Zenon
  <2>2. CASE c \in h.listed
    <3>1. NextPhys(h, c) \notin h.listed /\ (NextPhys(h, c) # RegionSize => h.prev_free[NextPhys(h, c)]) /\ NextPhys(h, c) \in Offsets
          /\ NextPhys(h, c) # b
      BY <1>4, <1>7, <2>2 DEF Apart
    <3>. QED BY <1>1, <1>6, <3>1, Zenon
  <2>. QED BY <1>1, <2>1, <2>2, Zenon
<1>. QED BY <1>3, <1>7, Zenon DEF Apart

(* tlsf_free keeps the index in step, and the lists free of neighbours,    *)
(* when it merges with no block on its way back (S).                       *)
LEMMA FreeHolds ==
  ASSUME NEW S, Sound(heap, S), NEW b \in Busy(heap), NEW g, g = FreeBlock(heap, b),
         S \subseteq Starts(g), S \cap g.listed = {}, Holds(index, heap.listed, heap.size)
  PROVE  /\ Holds(IndexFree(b), g.listed, g.size)
         /\ Apart(heap) => Apart(g)
<1> DEFINE n == NextPhys(heap, b)
           k == MergeNext(Flag(heap, b), b)
           p == k.prev_physical[b]
           m == MergePrev(k, b)
           x1 == IF heap.free[n] THEN RemoveFreeBlock(index, n, heap.size[n]) ELSE index
           x2 == RemoveFreeBlock(x1, p, k.size[p])
<1>1. /\ n = NextPhys(heap, b) /\ k = MergeNext(Flag(heap, b), b) /\ p = k.prev_physical[b]
      /\ m = MergePrev(k, b) /\ x1 = IF heap.free[n] THEN RemoveFreeBlock(index, n, heap.size[n]) ELSE index
      /\ x2 = RemoveFreeBlock(x1, p, k.size[p])
  BY Zenon
<1>2. /\ PrevMerges(k, b) => /\ g = Insert(MarkSuccessor(m, p), p)
                             /\ IndexFree(b) = InsertFreeBlock(x2, p, k.size[p] + k.size[b])
      /\ ~PrevMerges(k, b) => /\ g = Insert(MarkSuccessor(k, b), b)
                              /\ IndexFree(b) = InsertFreeBlock(x1, b, k.size[b])
  BY Zenon DEF FreeBlock, Flag, IndexFree
<1>f. n = NextPhys(heap, b) /\ k = MergeNext(Flag(heap, b), b)
  BY Zenon
<1> HIDE DEF n, k, p, m, x1, x2
<1>3. /\ Sound(k, S \cup {b}) /\ b \in Idle(k) /\ b \notin k.listed
      /\ heap.free[n] => n \in Idle(heap) /\ Swallowed(heap, b, n, k)
      /\ ~heap.free[n] => k.size = heap.size /\ k.prev_free = heap.prev_free /\ k.listed = heap.listed
  <2>1. Sound(k, S \cup {b}) /\ b \in Idle(k) /\ b \notin k.listed
    BY <1>f, FirstMerge, Zenon
  <2>2. heap.free[n] => n \in Idle(heap) /\ Swallowed(heap, b, n, k)
    BY <1>f, FirstMerge, Zenon
  <2>3. ASSUME ~heap.free[n]
        PROVE  k.size = heap.size /\ k.prev_free = heap.prev_free /\ k.listed = heap.listed
    <3>1. Untouched(heap, k)
      BY <1>f, <2>3, FirstMerge, Zenon
    <3>. QED BY <3>1, Zenon DEF Untouched
  <2>. QED BY <2>1, <2>2, <2>3, Zenon
<1>4. ~PrevMerges(k, b) => Finished(k, S, b, g)
  <2>1. (S \cup {b}) \cap Idle(k) \subseteq S \cup {b}
    OBVIOUS
  <2>. QED BY <1>2, <1>3, <2>1, FinishFree, Zenon
<1>5. PrevMerges(k, b) => MergedBack(k, S \cup {b}, b, p, m) /\ Finished(m, S, p, g)
  <2> SUFFICES ASSUME PrevMerges(k, b)
               PROVE  MergedBack(k, S \cup {b}, b, p, m) /\ Finished(m, S, p, g)
    BY Zenon
  <2> DEFINE T == S \cup {b}
             U == T \cup {p}
  <2>1. Sound(k, T)
    BY <1>3, Zenon
  <2> HIDE DEF T
  <2>2. MergedBack(k, T, b, p, m)
    BY <1>1, <1>3, <2>1, LastMerge, Zenon
  <2>3. Sound(m, U) /\ p \in Idle(m) /\ U \cap Idle(m) \subseteq S \cup {p}
    BY <2>2, Zenon DEF MergedBack, T
  <2> HIDE DEF U
  <2>4. g = Insert(MarkSuccessor(m, p), p)
    BY <1>2, Zenon
  <2>5. Finished(m, S, p, g)
    BY <2>3, <2>4, FinishFree, Zenon
  <2>. QED BY <2>2, <2>5, Zenon DEF T
<1>6. Starts(g) \subseteq Starts(k)
  <2>1. CASE PrevMerges(k, b)
    <3>1. g.size = m.size /\ Starts(m) = Starts(k) \ {b}
      BY <1>5, <2>1, Zenon DEF Finished, MergedBack
    <3>. QED BY <3>1 DEF Starts
  <2>2. CASE ~PrevMerges(k, b)
    BY <1>4, <2>2, Zenon DEF Finished, Starts
  <2>. QED BY <2>1, <2>2
<1>7. /\ heap \in Heaps /\ Tiled(heap) /\ Tagged(heap, {}) /\ heap.listed \subseteq Idle(heap)
      /\ Idle(heap) \subseteq heap.listed \cup S /\ heap.listed \subseteq Starts(heap)
      /\ b \in Starts(heap) /\ b \notin heap.listed
  BY Zenon DEF Sound, Listing, Idle, Busy
<1>8. heap.free[n] => n \in heap.listed
  BY <1>3, <1>6, <1>7, Zenon DEF Swallowed
<1>9. /\ Holds(x1, k.listed, k.size)
      /\ Apart(heap) => Apart(k) /\ NextPhys(k, b) \notin k.listed
  <2>1. CASE heap.free[n]
    <3>1. Holds(RemoveFreeBlock(index, n, heap.size[n]), k.listed, k.size)
          /\ (Apart(heap) => Apart(k) /\ NextPhys(k, b) \notin k.listed)
      BY <1>1, <1>3, <1>7, <1>8, <2>1, SwallowHolds, Zenon
    <3>. QED BY <1>1, <2>1, <3>1, Zenon
  <2>2. CASE ~heap.free[n]
    <3>1. k.size = heap.size /\ k.prev_free = heap.prev_free /\ k.listed = heap.listed /\ x1 = index
      BY <1>1, <1>3, <2>2, Zenon
    <3>2. NextPhys(k, b) = n /\ n \notin heap.listed
      BY <1>1, <1>7, <2>2, <3>1, Zenon DEF NextPhys, Idle
    <3>. QED BY <3>1, <3>2, Zenon DEF Apart, NextPhys
  <2>. QED BY <2>1, <2>2, Zenon
<1>10. /\ k \in Heaps /\ Tiled(k) /\ Tagged(k, {}) /\ k.listed \subseteq Idle(k)
       /\ k.listed \subseteq Starts(k) /\ b \in Starts(k) /\ Starts(k) \subseteq Offsets
       /\ Idle(k) \subseteq k.listed \cup S \cup {b}
  BY <1>3, Zenon DEF Sound, Listing, Idle, Starts
<1>11. CASE ~PrevMerges(k, b)
  <2>1. Finished(k, S, b, g) /\ IndexFree(b) = InsertFreeBlock(x1, b, k.size[b])
    BY <1>2, <1>4, <1>11, Zenon
  <2>2. ASSUME Apart(k), NEW c \in k.listed PROVE NextPhys(k, c) # b
    <3>1. SUFFICES ASSUME NextPhys(k, c) = b PROVE FALSE
      OBVIOUS
    <3>2. c \in Starts(k) /\ k.free[c] /\ c \in Nat /\ b # RegionSize
      BY <1>10, Start, TlsfPoolAssumption DEF Idle
    <3>3. k.prev_free[b] /\ k.prev_physical[b] = c
      BY <1>10, <2>2, <3>1, <3>2, Zenon DEF Apart, Tagged
    <3>. QED BY <1>11, <3>2, <3>3 DEF PrevMerges, NULL
  <2>3. /\ Holds(InsertFreeBlock(x1, b, k.size[b]), g.listed, g.size)
        /\ /\ Apart(k) /\ NextPhys(k, b) \notin k.listed
           /\ \A c \in k.listed : NextPhys(k, c) # b
           => Apart(g)
    BY <1>3, <1>9, <1>10, <2>1, FinishHolds, Zenon
  <2>. QED BY <1>9, <2>1, <2>2, <2>3, Zenon
<1>12. CASE PrevMerges(k, b)
  <2>1. /\ MergedBack(k, S \cup {b}, b, p, m) /\ Finished(m, S, p, g)
        /\ IndexFree(b) = InsertFreeBlock(x2, p, k.size[p] + k.size[b])
    BY <1>2, <1>5, <1>12, Zenon
  <2>2. p \in k.listed
    <3>1. p \in Idle(k) /\ p # b
      BY <2>1, Zenon DEF MergedBack
    <3>2. p \in g.listed
      BY <2>1, Zenon DEF Finished
    <3>. QED BY <1>10, <3>1, <3>2, Zenon
  <2>3. /\ m \in Heaps /\ Tiled(m) /\ m.listed \subseteq Starts(m) /\ p \in Starts(m)
        /\ p \notin m.listed
    BY <2>1, Zenon DEF MergedBack, Sound, Listing, Idle
  <2>4. /\ m.listed = k.listed \ {p} /\ m.size[p] = k.size[p] + k.size[b]
        /\ \A o \in Offsets \ {b, p} : m.size[o] = k.size[o]
        /\ NextPhys(m, p) = NextPhys(k, b) /\ NextPhys(k, p) = b
        /\ \A o \in Offsets \ {b} : m.prev_free[o] = k.prev_free[o]
    BY <2>1, Zenon DEF MergedBack
  <2>5. \A c \in m.listed : c \in Starts(k) /\ c \in Offsets \ {b, p} /\ c \in k.listed
    BY <1>3, <1>10, <2>4, Zenon
  <2>6. Holds(x2, m.listed, m.size)
    <3>1. k.size[p] \in Nat \ {0} /\ k.size[p] < 2^FlMax
      BY <1>10, <2>2, SizeMapped, Zenon
    <3>2. Holds(x2, k.listed \ {p}, k.size)
      BY <1>1, <1>9, <2>2, <3>1, RemoveHolds, Zenon
    <3>3. \A c \in k.listed \ {p} : m.size[c] = k.size[c]
      BY <2>4, <2>5, Zenon
    <3>. QED BY <2>4, <3>2, <3>3, SizesOfOthers
  <2>7. /\ Holds(InsertFreeBlock(x2, p, m.size[p]), g.listed, g.size)
        /\ /\ Apart(m) /\ NextPhys(m, p) \notin m.listed
           /\ \A c \in m.listed : NextPhys(m, c) # p
           => Apart(g)
    BY <2>1, <2>3, <2>6, FinishHolds, Zenon
  <2>8. ASSUME Apart(k), NEW c \in m.listed
        PROVE  /\ NextPhys(m, c) \notin m.listed /\ (NextPhys(m, c) # RegionSize => m.prev_free[NextPhys(m, c)])
               /\ NextPhys(m, c) # p
    <3>1. NextPhys(m, c) = NextPhys(k, c)
      BY <2>4, <2>5, Zenon DEF NextPhys
    <3>2. NextPhys(k, c) \in Offsets /\ NextPhys(k, c) # b
      BY <1>10, <2>2, <2>4, <2>5, Start, OnePredecessor, Zenon
    <3>3. NextPhys(k, c) \notin k.listed /\ (NextPhys(k, c) # RegionSize => k.prev_free[NextPhys(k, c)])
      BY <2>5, <2>8, Zenon DEF Apart
    <3>. QED BY <2>2, <2>4, <3>1, <3>2, <3>3, Zenon
  <2>9. Apart(heap) => Apart(m) /\ NextPhys(m, p) \notin m.listed
    BY <1>9, <2>4, <2>8, Zenon DEF Apart
  <2>10. Apart(heap) => Apart(g)
    BY <1>9, <2>7, <2>8, <2>9, Zenon
  <2>. QED BY <2>1, <2>4, <2>7, <2>10, Zenon
<1>. QED BY <1>11, <1>12

-----------------------------------------------------------------------------
(* The region is seeded with one block, and the index with it.             *)
LEMMA IndexedStart == IndexedInit => IndexedInv
<1> SUFFICES ASSUME IndexedInit PROVE IndexedInv
  OBVIOUS
<1>1. IInv
  BY PoolStart DEF IndexedInit
<1>2. heap.listed = {0} /\ heap.size[0] = SeedSize /\ 0 \in Offsets
  BY TlsfPoolAssumption DEF IndexedInit, Init, Offsets
<1>3. heap \in Heaps /\ Tiled(heap) /\ 0 \in Starts(heap)
  BY <1>1 DEF IInv, Sound, Tiled
<1>4. Holds(index, heap.listed, heap.size)
  <2>1. Holds(EmptyIndex, {}, heap.size)
    BY NothingHeld
  <2>2. 0 \in Nat /\ heap.size[0] \in Nat \ {0} /\ heap.size[0] < 2^FlMax
    BY <1>3, SizeMapped
  <2>3. Holds(InsertFreeBlock(EmptyIndex, 0, heap.size[0]), {} \cup {0}, heap.size)
    BY <2>1, <2>2, InsertHolds
  <2>. QED BY <1>2, <2>3 DEF IndexedInit
<1>5. Apart(heap)
  <2>1. NextPhys(heap, 0) = RegionSize /\ RegionSize # 0
    BY <1>2, TlsfPoolAssumption DEF NextPhys, SeedSize
  <2>. QED BY <1>2, <2>1 DEF Apart
<1>. QED BY <1>1, <1>4, <1>5 DEF IndexedInv

(* What the search returns is on a free list and large enough, and it      *)
(* returns something unless no listed block reaches the rounded request.   *)
LEMMA Found ==
  ASSUME IndexedInv, NEW n \in Nat \ {0}, n < 2^FlMax
  PROVE  LET b == FindSuitableBlock(index, n) IN
         IF b = NoFit THEN \A c \in heap.listed : heap.size[c] < GoodFit(n)
                      ELSE b \in heap.listed /\ Fits(b, n)
<1>1. /\ heap.listed \subseteq Nat
      /\ \A c \in heap.listed : heap.size[c] \in Nat \ {0} /\ heap.size[c] < 2^FlMax
  <2>1. heap \in Heaps /\ Tiled(heap) /\ heap.listed \subseteq Starts(heap)
    BY DEF IndexedInv, IInv, Sound, Listing, Idle
  <2>. QED BY <2>1, SizeMapped
<1>2. Holds(index, heap.listed, heap.size)
  BY DEF IndexedInv
<1>3. LET b == FindSuitableBlock(index, n) IN
      IF b = NoFit THEN \A c \in heap.listed : heap.size[c] < GoodFit(n)
                   ELSE b \in heap.listed /\ heap.size[b] >= n
  BY <1>1, <1>2, GoodFitFound, Zenon
<1>. QED BY <1>3 DEF Fits

(* tlsf_alloc takes the block the search returned: a step of TlsfPool.     *)
LEMMA IndexedAllocStep ==
  ASSUME IndexedInv, NEW t \in Threads, NEW n \in Requests, IndexedAlloc(t, n)
  PROVE  LET b == FindSuitableBlock(index, n) IN
         TlsfAlloc(t, n) /\ b \in heap.listed /\ heap.size[b] >= n
<1>1. n \in Nat \ {0} /\ n < 2^FlMax
  BY TlsfPoolAssumption, TlsfIndexedAssumption
<1>2. LET b == FindSuitableBlock(index, n) IN b \in heap.listed /\ Fits(b, n)
  BY <1>1, Found DEF IndexedAlloc
<1>. QED BY <1>2, Zenon DEF TlsfAlloc, IndexedAlloc, Fits

(* tlsf_alloc keeps the index in step.                                     *)
LEMMA IndexedAllocKeeps ==
  ASSUME IndexedInv, NEW t \in Threads, NEW n \in Requests, IndexedAlloc(t, n)
  PROVE  IndexedInv'
<1> DEFINE b == FindSuitableBlock(index, n)
           h == Remove(heap, b)
           x == RemoveFreeBlock(index, b, heap.size[b])
<1>1. IInv'
  BY IndexedAllocStep, AllocKeeps DEF IndexedInv
<1>2. /\ heap' = Carve(h, b, heap.size[b], n) /\ returned' = returned
      /\ index' = IndexCarve(x, b, heap.size[b], n)
  BY Zenon DEF IndexedAlloc, AllocBlock, IndexAlloc
<1>3. b \in heap.listed /\ heap.size[b] >= n
  BY IndexedAllocStep
<1>4. h = Remove(heap, b) /\ x = RemoveFreeBlock(index, b, heap.size[b])
  OBVIOUS
<1> HIDE DEF b, h, x
<1>5. /\ Carvable(h, Returning, b, n) /\ heap \in Heaps /\ b \in Starts(heap)
      /\ h.size = heap.size /\ h.listed = heap.listed \ {b} /\ h.prev_free = heap.prev_free
  BY <1>3, <1>4, AllocCarvable, Zenon DEF IndexedInv
<1>6. Holds(x, h.listed, h.size)
  <2>1. heap.size[b] \in Nat \ {0} /\ heap.size[b] < 2^FlMax
    BY <1>5, SizeMapped, Zenon DEF IndexedInv, IInv, Sound
  <2>2. b \in heap.listed /\ Holds(index, heap.listed, heap.size)
    BY <1>3, Zenon DEF IndexedInv
  <2>3. Holds(RemoveFreeBlock(index, b, heap.size[b]), heap.listed \ {b}, heap.size)
    BY <2>1, <2>2, RemoveHolds, Zenon
  <2>. QED BY <1>4, <1>5, <2>3, Zenon
<1>7. Holds(index', heap'.listed, heap'.size)
  BY <1>2, <1>5, <1>6, CarveHolds, Zenon
<1>8. Apart(heap) => Apart(heap')
  <2>1. Apart(heap) => Apart(h) /\ NextPhys(h, b) \notin h.listed
    BY <1>3, <1>5, Zenon DEF Apart, NextPhys
  <2>. QED BY <1>2, <1>5, <2>1, CarveApart
<1>. QED BY <1>1, <1>2, <1>7, <1>8 DEF IndexedInv

(* tlsf_free keeps the index in step.                                      *)
LEMMA IndexedFreeKeeps ==
  ASSUME IndexedInv, NEW t \in Threads, IndexedFree(t), ReturnsUndisturbed
  PROVE  IndexedInv'
<1>1. PICK b \in used : FreeHeld(t, b) /\ index' = IndexFree(b)
  BY DEF IndexedFree
<1>2. IInv'
  BY <1>1, FreeKeeps DEF IndexedInv, TlsfFree
<1>3. heap' = FreeBlock(heap, b) /\ back' = back /\ returned' = returned
  BY <1>1, Zenon DEF FreeHeld, IndexedFree
<1>4. b \in Busy(heap) /\ Sound(heap, Returning) /\ Returning \subseteq Starts(heap)
  BY Zenon DEF IndexedInv, IInv, Placed, Idle
<1>5. \A c \in Returning : heap'.size[c] = heap.size[c] /\ c \notin heap'.listed
  BY <1>3, InReturning, Zenon DEF ReturnsUndisturbed
<1>6. Returning \subseteq Starts(heap') /\ Returning \cap heap'.listed = {}
  BY <1>4, <1>5, Zenon DEF Starts
<1>7. /\ Holds(index', heap'.listed, heap'.size)
      /\ Apart(heap) => Apart(heap')
  BY <1>1, <1>3, <1>4, <1>6, FreeHolds, Zenon DEF IndexedInv
<1>. QED BY <1>2, <1>3, <1>7 DEF IndexedInv

(* tlsf_try_inplace_expand keeps the index in step: the block it takes was *)
(* on its list, since it was not on its way back.                          *)
LEMMA IndexedExpandKeeps ==
  ASSUME IndexedInv, NEW t \in Threads, NEW n \in Requests, IndexedExpand(t, n), ReturnsUndisturbed
  PROVE  IndexedInv'
<1>1. PICK b \in used : ExpandHeld(t, n, b) /\ index' = IndexExpand(n, b)
  BY DEF IndexedExpand
<1> DEFINE next == NextPhys(heap, b)
           h == Join(heap, b)
           x == RemoveFreeBlock(index, next, heap.size[next])
<1>2. IInv'
  BY <1>1, ExpandKeeps DEF IndexedInv, InplaceExpand
<1>3. /\ heap.free[next] /\ EnoughTogether(b, n) /\ back' = back /\ returned' = returned
      /\ heap' = Carve(Ahead(b), b, heap.size[b] + heap.size[next], n)
  BY <1>1, Zenon DEF ExpandHeld, Ahead, IndexedExpand
<1>4. /\ Carvable(h, Returning, b, n) /\ heap \in Heaps /\ b \in Busy(heap) /\ b \in Offsets
      /\ b \notin heap.listed /\ next \in Idle(heap)
      /\ Carve(Ahead(b), b, heap.size[b] + heap.size[next], n) = Carve(h, b, h.size[b], n)
  BY <1>3, ExpandCarvable, Zenon DEF IndexedInv
<1>5. /\ Joined(heap, b, next, h) /\ Starts(h) = Starts(heap) \ {next}
      /\ NextPhys(h, b) = NextPhys(heap, next)
  BY <1>3, ExpandCarvable, Zenon DEF IndexedInv
<1>6. heap' = Carve(h, b, h.size[b], n)
  BY <1>3, <1>4, Zenon
<1>7. index' = IndexCarve(x, b, h.size[b], n)
  BY <1>1, <1>5, Zenon DEF IndexExpand, Joined
<1>8. next = NextPhys(heap, b) /\ x = RemoveFreeBlock(index, next, heap.size[next])
  OBVIOUS
<1> HIDE DEF next, h, x
<1>9. /\ heap \in Heaps /\ Tiled(heap) /\ Tagged(heap, {}) /\ b \in Starts(heap)
      /\ heap.listed \subseteq Starts(heap) /\ next \in Starts(heap)
      /\ Idle(heap) = heap.listed \cup Returning
  BY <1>4, Zenon DEF IndexedInv, IInv, Sound, Listing, Idle, Busy, Placed
<1>10. next \in heap.listed
  <2>1. SUFFICES ASSUME next \in Returning PROVE FALSE
    BY <1>4, <1>9, Zenon
  <2>2. heap'.size[next] = heap.size[next] /\ next \notin heap'.listed
    BY <1>3, <2>1, InReturning, Zenon DEF ReturnsUndisturbed
  <2>3. heap.size[next] > 0 /\ next \in Offsets /\ next # b /\ heap.size[next] \in Nat
    <3>1. /\ heap.size[next] > 0 /\ next \in Offsets /\ heap.size[next] \in Nat
          /\ b \in Nat /\ next \in Nat
      BY <1>9, Start, Zenon
    <3>2. b < next
      BY <1>8, <1>9, Start, Zenon
    <3>. QED BY <3>1, <3>2
  <2>4. h.size[next] = 0
    BY <1>5 DEF Joined
  <2>5. Cut(h, b, n, heap') \/ Uncut(h, b, heap')
    BY <1>4, <1>6, CarveSound, Zenon
  <2>. QED BY <2>2, <2>3, <2>4, <2>5 DEF Cut, Uncut
<1>11. Swallowed(heap, b, next, h)
  BY <1>5, Zenon DEF Swallowed, Joined
<1>12. /\ Holds(x, h.listed, h.size)
       /\ Apart(heap) => Apart(h) /\ NextPhys(h, b) \notin h.listed
  BY <1>4, <1>8, <1>9, <1>10, <1>11, SwallowHolds, Zenon DEF IndexedInv
<1>13. Holds(index', heap'.listed, heap'.size)
  BY <1>4, <1>6, <1>7, <1>12, CarveHolds, Zenon
<1>14. Apart(heap) => Apart(heap')
  BY <1>4, <1>6, <1>12, CarveApart, Zenon
<1>. QED BY <1>2, <1>3, <1>13, <1>14, Zenon DEF IndexedInv

(* A cached block goes on the list of its size; this is where neighbours   *)
(* may come to be listed.                                                  *)
LEMMA IndexedReturnKeeps ==
  ASSUME IndexedInv, NEW t \in Threads, IndexedReturn(t)
  PROVE  IndexedInv'
<1>1. PICK b \in back[t] : index' = InsertFreeBlock(index, b, heap.size[b])
  BY DEF IndexedReturn
<1>2. IInv'
  BY CacheInsertKeeps DEF IndexedInv, IndexedReturn
<1>3. heap' = Insert(heap, b) /\ returned'
  <2>1. \A c \in back[t] : c = b
    BY DEF IndexedInv, IInv, Kinds
  <2>. QED BY <2>1 DEF IndexedReturn, CacheInsert
<1>4. heap'.listed = heap.listed \cup {b} /\ heap'.size = heap.size
  BY <1>3 DEF Insert, IndexedInv, IInv, Sound, Heaps
<1>5. b \in Starts(heap) /\ b \notin heap.listed
  BY <1>1, InReturning, Zenon DEF IndexedInv, IInv, Placed, Idle
<1>6. b \in Nat /\ heap.size[b] \in Nat \ {0} /\ heap.size[b] < 2^FlMax
  BY <1>5, SizeMapped, Zenon DEF IndexedInv, IInv, Sound
<1>7. Holds(index', heap'.listed, heap'.size)
  <2>1. Holds(index, heap.listed, heap.size) /\ index' = InsertFreeBlock(index, b, heap.size[b])
    BY <1>1, Zenon DEF IndexedInv
  <2>2. Holds(index', heap.listed \cup {b}, heap.size)
    BY <1>5, <1>6, <2>1, InsertHolds, Zenon
  <2>. QED BY <1>4, <2>2, Zenon
<1>. QED BY <1>2, <1>3, <1>7 DEF IndexedInv

(* The cache's other steps leave the lists alone.                          *)
LEMMA IndexedCacheKeeps ==
  ASSUME IndexedInv, NEW t \in Threads, CacheHit(t) \/ CachePush(t) \/ CachePublish(t),
         UNCHANGED <<index, returned>>
  PROVE  IndexedInv'
<1>1. IInv'
  BY CacheHitKeeps, CachePushKeeps, CachePublishKeeps DEF IndexedInv
<1>2. /\ heap'.listed = heap.listed /\ heap'.size = heap.size
      /\ heap'.prev_free = heap.prev_free
  <2>1. heap \in Heaps
    BY DEF IndexedInv, IInv, Sound
  <2>2. CASE CacheHit(t) \/ CachePush(t)
    BY <2>2, Zenon DEF CacheHit, CachePush
  <2>3. CASE CachePublish(t)
    BY <2>1, <2>3 DEF CachePublish, Heaps
  <2>. QED BY <2>2, <2>3
<1>3. Apart(heap) => Apart(heap')
  BY <1>2, Zenon DEF Apart, NextPhys
<1>. QED BY <1>1, <1>2, <1>3 DEF IndexedInv

(* A step of the region with its index is a step of the region alone.      *)
LEMMA IndexedStepIsStep ==
  ASSUME IndexedInv, IndexedNext
  PROVE  Next
<1>1. PICK t \in Threads :
        \/ (CacheHit(t) \/ CachePush(t) \/ CachePublish(t)) /\ UNCHANGED <<index, returned>>
        \/ IndexedReturn(t) \/ IndexedFree(t)
        \/ \E n \in Requests : IndexedAlloc(t, n) \/ IndexedExpand(t, n)
  BY DEF IndexedNext
<1>2. CASE CacheHit(t) \/ CachePush(t) \/ CachePublish(t)
  BY <1>2 DEF Next
<1>3. CASE IndexedReturn(t) \/ IndexedFree(t)
  BY <1>3, Zenon DEF Next, IndexedReturn, IndexedFree, TlsfFree
<1>4. CASE \E n \in Requests : IndexedAlloc(t, n) \/ IndexedExpand(t, n)
  <2>1. PICK n \in Requests : IndexedAlloc(t, n) \/ IndexedExpand(t, n)
    BY <1>4
  <2>2. TlsfAlloc(t, n) \/ InplaceExpand(t, n)
    BY <2>1, IndexedAllocStep, Zenon DEF IndexedExpand, InplaceExpand
  <2>. QED BY <2>2 DEF Next
<1>. QED BY <1>1, <1>2, <1>3, <1>4

(* Every step keeps the index in step.                                     *)
LEMMA IndexedStep ==
  ASSUME IndexedInv, [IndexedNext]_indexedVars, [ReturnsUndisturbed]_vars
  PROVE  IndexedInv'
<1>1. CASE UNCHANGED vars /\ UNCHANGED <<index, returned>>
  <2>1. IInv'
    BY <1>1, PoolStutter DEF IndexedInv
  <2>. QED BY <1>1, <2>1 DEF IndexedInv, vars
<1>2. CASE IndexedNext /\ (UNCHANGED vars \/ ReturnsUndisturbed)
  <2>1. ReturnsUndisturbed
    <3>1. CASE UNCHANGED vars
      <4>1. heap' = heap /\ back' = back
        BY <3>1 DEF vars
      <4>2. \A b \in Returning : b \notin heap.listed
        BY DEF IndexedInv, IInv, Placed
      <4>. QED BY <4>1, <4>2, InReturning DEF ReturnsUndisturbed
    <3>. QED BY <1>2, <3>1
  <2>2. PICK t \in Threads :
          \/ (CacheHit(t) \/ CachePush(t) \/ CachePublish(t)) /\ UNCHANGED <<index, returned>>
          \/ IndexedReturn(t) \/ IndexedFree(t)
          \/ \E n \in Requests : IndexedAlloc(t, n) \/ IndexedExpand(t, n)
    BY <1>2 DEF IndexedNext
  <2>3. CASE (CacheHit(t) \/ CachePush(t) \/ CachePublish(t)) /\ UNCHANGED <<index, returned>>
    BY <2>3, IndexedCacheKeeps
  <2>4. CASE IndexedReturn(t)
    BY <2>4, IndexedReturnKeeps
  <2>5. CASE IndexedFree(t)
    BY <2>1, <2>5, IndexedFreeKeeps
  <2>6. CASE \E n \in Requests : IndexedAlloc(t, n) \/ IndexedExpand(t, n)
    BY <2>1, <2>6, IndexedAllocKeeps, IndexedExpandKeeps
  <2>. QED BY <2>2, <2>3, <2>4, <2>5, <2>6
<1>. QED BY <1>1, <1>2 DEF indexedVars, vars

(* The invariant gives what SearchIsGoodFit says.                          *)
LEMMA SearchHolds == IndexedInv => SearchIsGoodFit
<1> SUFFICES ASSUME IndexedInv PROVE SearchIsGoodFit
  OBVIOUS
<1>1. Holds(index, heap.listed, heap.size)
  BY DEF IndexedInv
<1>2. ASSUME NEW n \in 1..RegionSize
      PROVE  LET b == FindSuitableBlock(index, n) IN
             IF b = NoFit THEN \A c \in heap.listed : heap.size[c] < GoodFit(n)
                          ELSE b \in heap.listed /\ Fits(b, n)
  <2> DEFINE top == 2^FlMax
  <2>1. top \in Nat /\ RegionSize < top /\ RegionSize \in Nat
    <3>1. FlMax \in 0..31 /\ FlMax <= FlMax
      BY TlsfIndexAssumption
    <3>2. 2^FlMax \in Nat \ {0}
      BY <3>1, PowerGrows, Zenon
    <3>. QED BY <3>2, TlsfIndexedAssumption, TlsfPoolAssumption
  <2> HIDE DEF top
  <2>2. n \in Nat \ {0} /\ n < top
    BY <2>1
  <2>. QED BY <2>2, Found DEF top
<1>3. \A c \in heap.listed : MappingInsert(heap.size[c]) \in Lists
  <2>1. heap \in Heaps /\ Tiled(heap) /\ heap.listed \subseteq Starts(heap)
    BY Zenon DEF IndexedInv, IInv, Sound, Listing, Idle
  <2>2. \A c \in heap.listed : heap.size[c] \in Nat \ {0} /\ heap.size[c] < 2^FlMax
    BY <2>1, SizeMapped
  <2>. QED BY <2>2, Inserted
<1>4. \A l \in Lists : On(index.blocks[l]) = {b \in heap.listed : MappingInsert(heap.size[b]) = l}
  BY <1>1 DEF Holds
<1>5. OnLists = UNION {On(index.blocks[l]) : l \in Lists}
  BY DEF OnLists, On
<1>6. OnLists = heap.listed
  <2>1. OnLists = UNION {{b \in heap.listed : MappingInsert(heap.size[b]) = l} : l \in Lists}
    BY <1>4, <1>5
  <2>. QED BY <1>3, <2>1
<1>7. ASSUME NEW l \in Lists, NEW i \in DOMAIN index.blocks[l]
      PROVE  MappingInsert(heap.size[index.blocks[l][i]]) = l
  <2>1. index.blocks[l][i] \in On(index.blocks[l])
    BY DEF On
  <2>. QED BY <1>4, <2>1
<1>. QED BY <1>1, <1>2, <1>6, <1>7, Zenon DEF SearchIsGoodFit, Holds

(* For every region size, request size, number of segments and of threads, *)
(* in every behaviour in which no block is merged while it is on its way   *)
(* back from a cache: the bitmaps and the lists agree with the headers, so *)
(* the search returns a listed block that is large enough, or there is     *)
(* none it promises to find.                                               *)
THEOREM SearchFindsGoodFit ==
  IndexedSpec /\ [][ReturnsUndisturbed]_vars => []SearchIsGoodFit
<1>1. IndexedInv /\ [IndexedNext]_indexedVars /\ [ReturnsUndisturbed]_vars => IndexedInv'
  BY IndexedStep
<1>. QED BY <1>1, IndexedStart, SearchHolds, PTL DEF IndexedSpec

(* Under the same condition: no two free blocks are neighbours until a     *)
(* block comes back from a thread's cache, and the boundary tags that      *)
(* tlsf_free merges by tell the truth.                                     *)
THEOREM FreeBlocksCoalesce ==
  IndexedSpec /\ [][ReturnsUndisturbed]_vars => []CoalescedUntilCacheReturns
<1>1. IndexedInv /\ [IndexedNext]_indexedVars /\ [ReturnsUndisturbed]_vars => IndexedInv'
  BY IndexedStep
<1>2. IndexedInv => CoalescedUntilCacheReturns
  BY TilingHolds DEF IndexedInv, Apart, CoalescedUntilCacheReturns
<1>. QED BY <1>1, <1>2, IndexedStart, PTL DEF IndexedSpec

(* Under the same condition the region with its index implements the       *)
(* region in which any block that is large enough may serve a request:     *)
(* tlsf_alloc, which takes what the search returns without looking at its  *)
(* size, always takes a free block of sufficient size.                     *)
THEOREM IndexImplementsPool ==
  IndexedSpec /\ [][ReturnsUndisturbed]_vars => ImplementsPool
<1>1. IndexedInv /\ [IndexedNext]_indexedVars /\ [ReturnsUndisturbed]_vars => IndexedInv'
  BY IndexedStep
<1>2. IndexedInv /\ [IndexedNext]_indexedVars => [Next]_vars
  BY IndexedStepIsStep DEF indexedVars, vars
<1>3. IndexedInit => Init
  BY DEF IndexedInit
<1>. QED BY <1>1, <1>2, <1>3, IndexedStart, PTL DEF IndexedSpec, ImplementsPool, Spec

(* With one thread the condition is met by the code itself.                *)
THEOREM OneThreadIndexed ==
  ASSUME NEW t, Threads = {t}
  PROVE  IndexedSpec => [](SearchIsGoodFit /\ CoalescedUntilCacheReturns) /\ ImplementsPool
<1>1. IndexedInv /\ [IndexedNext]_indexedVars => [ReturnsUndisturbed]_vars
  <2> SUFFICES ASSUME IndexedInv, [IndexedNext]_indexedVars PROVE [ReturnsUndisturbed]_vars
    OBVIOUS
  <2>1. CASE UNCHANGED indexedVars
    BY <2>1 DEF indexedVars, vars
  <2>2. CASE IndexedNext
    BY <2>2, IndexedStepIsStep, AloneUndisturbed, Zenon DEF IndexedInv
  <2>. QED BY <2>1, <2>2
<1>2. IndexedInv /\ [IndexedNext]_indexedVars /\ [ReturnsUndisturbed]_vars => IndexedInv'
  BY IndexedStep
<1>3. IndexedSpec => [][ReturnsUndisturbed]_vars
  BY <1>1, <1>2, IndexedStart, PTL DEF IndexedSpec
<1>. QED BY <1>3, SearchFindsGoodFit, FreeBlocksCoalesce, IndexImplementsPool, PTL
=============================================================================
