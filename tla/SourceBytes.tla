---------------------------- MODULE SourceBytes -----------------------------
(***************************************************************************)
(* The source of one Encode as the match finders see it: bytes by          *)
(* position, what two positions have in common, and hashes.                *)
(***************************************************************************)
EXTENDS Integers, SequencesExt

CONSTANTS
  Trail,   (* bytes of the source's end that are not compressed: 31        *)
  Buckets, (* values of a hash                                             *)
  Farthest (* maxMatchDistance                                             *)

ASSUME SourceBytesAssumption ==
  /\ Trail \in Nat /\ Trail >= 3
  /\ Buckets \in Nat \ {0} /\ Farthest \in Nat \ {0}

VARIABLE src (* the source                                                 *)

Byte(p) == src[p + 1]

(* compressionLimit: where the compressed part of the source ends.         *)
CompressionLimit == Len(src) - Trail

AtMost(a, b)  == IF a < b THEN a ELSE b
AtLeast(a, b) == IF a > b THEN a ELSE b

(* commonMatchLengthUnchecked.                                             *)
CommonLength(front, back, limit) ==
  LET rest == AtLeast(limit - front, 0)
  IN  CHOOSE n \in 0 .. rest :
        /\ \A i \in 0 .. (n - 1) : Byte(front + i) = Byte(back + i)
        /\ n = rest \/ Byte(front + n) # Byte(back + n)

(* Which words of n bytes share a bucket is the hash function's choice:    *)
(* here those with the same sum.                                           *)
Hash(p, n) ==
  LET sum[i \in 0 .. n] == IF i = 0 THEN 0 ELSE sum[i - 1] + Byte(p + i - 1)
  IN  sum[n] % Buckets

(* The match m of a block that ends at blockEnd is in the source at p.     *)
TrueMatch(p, m, blockEnd) ==
  /\ m.distance \in 1 .. p /\ m.distance <= Farthest
  /\ p + m.length <= blockEnd
  /\ \A i \in 0 .. (m.length - 1) : Byte(p + i) = Byte(p + i - m.distance)

=============================================================================
