---------------------------------- MODULE Lz4 ----------------------------------
(***************************************************************************)
(* The block codec of src/src/cmem_compress.c as pure functions on         *)
(* sequences of bytes.  A compressed block is a sequence of groups: a      *)
(* token with two lengths, the literals, a two-byte offset and the match   *)
(* it refers to; the last group may have literals only.                    *)
(*                                                                         *)
(* All sizes of the format follow from the largest value of a nibble (15   *)
(* in the code), so that a small nibble gives a small codec with the same  *)
(* relations between its fields, in which short inputs already need length *)
(* extensions.                                                             *)
(***************************************************************************)
EXTENDS Integers, Sequences, FiniteSets, FiniteSetsExt

CONSTANTS
  TokenNibble,  \* CMEM_LZ4_TOKEN_NIBBLE: the largest value of a nibble
  MinMatch,     \* CMEM_LZ4_MIN_MATCH
  Probe         \* the longest match looked for (4096 in the code)

MaxExt == (TokenNibble + 1)^2 - 1     \* CMEM_LZ4_MAX_EXT, the largest byte
MaxDist == (MaxExt + 1)^2 - 1         \* CMEM_LZ4_MAX_DIST
Byte == 0..MaxExt

Least(a, b) == IF a < b THEN a ELSE b

(* cmem_lz4_write_len: a run of MaxExt bytes and a smaller one, which is   *)
(* there even when it is 0.                                                *)
WriteLenMutant(len) ==
  [i \in 1..(len \div MaxExt) |-> MaxExt]
    \o (IF len % MaxExt = 0 /\ len > 0 THEN <<>> ELSE <<len % MaxExt>>)

WriteLen(len) == [i \in 1..(len \div MaxExt) |-> MaxExt] \o <<len % MaxExt>>

Extension(len) ==
  IF len >= TokenNibble THEN WriteLen(len - TokenNibble) ELSE <<>>

Token(lit_len, match_len) ==
  Least(lit_len, TokenNibble) * (TokenNibble + 1) + Least(match_len, TokenNibble)

(* One group with a match of mlen bytes at distance off.                   *)
Group(literals, mlen, off) ==
  <<Token(Len(literals), mlen - MinMatch)>>
    \o Extension(Len(literals)) \o literals
    \o <<off % (MaxExt + 1), off \div (MaxExt + 1)>>
    \o Extension(mlen - MinMatch)

LastGroup(literals) ==
  IF literals = <<>> THEN <<>>
  ELSE <<Token(Len(literals), 0)>> \o Extension(Len(literals)) \o literals

(* How far the bytes from ip on repeat the ones off before them.           *)
MatchLen(src, ip, off) ==
  Max({len \in 0..Least(Len(src) - ip + 1, Probe) :
         \A k \in 0..(len - 1) : src[ip - off + k] = src[ip + k]})

(* The longest match at ip and, of several, the nearest: [len, off].       *)
BestMatch(src, ip) ==
  LET lens == [off \in 1..Least(ip - 1, MaxDist) |-> MatchLen(src, ip, off)]
      best == Max({0} \cup {lens[off] : off \in DOMAIN lens})
  IN  [len |-> best,
       off |-> IF best = 0 THEN 0
               ELSE Min({off \in DOMAIN lens : lens[off] = best})]

RECURSIVE Encode(_, _, _)
Encode(src, ip, anchor) ==
  IF ip > Len(src) THEN LastGroup(SubSeq(src, anchor, Len(src)))
  ELSE LET m == BestMatch(src, ip)
       IN  IF m.len < MinMatch THEN Encode(src, ip + 1, anchor)
           ELSE Group(SubSeq(src, anchor, ip - 1), m.len, m.off)
                  \o Encode(src, ip + m.len, ip + m.len)

(* cmem_lz4_compress writes nothing it takes back, so it runs out of space *)
(* exactly when the whole output is longer than dst_cap.                   *)
Compress(src) == Encode(src, 1, 1)
CompressFits(src, comp, dst_cap) == src # <<>> /\ Len(comp) <= dst_cap

-------------------------------------------------------------------------------
Failed == [ok |-> FALSE, out |-> <<>>]

(* The bytes that extend a length, from ip on.                             *)
RECURSIVE ReadLen(_, _, _)
ReadLen(src, ip, len) ==
  IF ip > Len(src) THEN [ok |-> FALSE, ip |-> ip, len |-> len]
  ELSE IF src[ip] # MaxExt THEN [ok |-> TRUE, ip |-> ip + 1, len |-> len + src[ip]]
  ELSE ReadLen(src, ip + 1, len + MaxExt)

Length(src, ip, nibble) ==
  IF nibble = TokenNibble THEN ReadLen(src, ip, nibble)
  ELSE [ok |-> TRUE, ip |-> ip, len |-> nibble]

(* The copy loop goes byte by byte, so a match longer than its distance    *)
(* repeats the bytes it has just written.                                  *)
CopyMatch(out, off, len) ==
  out \o [k \in 1..len |-> out[Len(out) - off + 1 + ((k - 1) % off)]]

RECURSIVE Decode(_, _, _, _)
Decode(src, ip, out, dst_size) ==
  IF ip > Len(src) THEN [ok |-> TRUE, out |-> out]
  ELSE
    LET lit   == Length(src, ip + 1, src[ip] \div (TokenNibble + 1))
        after == lit.ip + lit.len
        out1  == out \o SubSeq(src, lit.ip, after - 1)
        off   == src[after] + src[after + 1] * (MaxExt + 1)
        m     == Length(src, after + 2, src[ip] % (TokenNibble + 1))
        mlen  == m.len + MinMatch
    IN  IF ~lit.ok \/ Len(out) + lit.len > dst_size \/ after - 1 > Len(src)
        THEN Failed
        ELSE IF after > Len(src) THEN [ok |-> TRUE, out |-> out1]
        ELSE IF after + 1 > Len(src) THEN Failed
        ELSE IF off = 0 \/ off > Len(out1) THEN Failed
        ELSE IF ~m.ok \/ Len(out1) + mlen > dst_size THEN Failed
        ELSE Decode(src, m.ip, CopyMatch(out1, off, mlen), dst_size)

Decompress(src, dst_size) == Decode(src, 1, <<>>, dst_size)
===============================================================================
