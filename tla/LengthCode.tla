----------------------------- MODULE LengthCode -----------------------------
(***************************************************************************)
(* The variable-length code of literal-run and match lengths, and the      *)
(* length fields of a token (tokens.go, literals.go, lz_decode.go).        *)
(*                                                                         *)
(* A length that does not fit the 3-bit field of its token leaves the      *)
(* field at its maximum and continues in the block's length stream with    *)
(* one, two or three bytes.  The code splits a byte into Direct values     *)
(* that stand for themselves (0..223) and Radix values (224..255) that     *)
(* carry 5 bits and announce another byte.  Direct, Radix and FieldCap are *)
(* constants so that a small instance reaches all three code lengths.      *)
(***************************************************************************)
EXTENDS Integers, Sequences

CONSTANTS
  Direct,  (* values of a byte that end a code: 224                        *)
  Radix,   (* values of a byte that continue it: 32                        *)
  FieldCap (* largest value of a length field of a token: 7                *)

ASSUME LengthCodeAssumption ==
  /\ Direct \in Nat \ {0}
  /\ Radix \in Nat \ {0}
  /\ FieldCap \in Nat \ {0, 1}

ByteSize == Direct + Radix
Byte     == 0 .. (ByteSize - 1)

MinMatch == 2

-----------------------------------------------------------------------------
(* Faulty: the values of two bytes are not taken off before the third.     *)
LongCodeUnbiased(value) ==
  LET first  == value - Direct
      second == first \div Radix
  IN  IF value < Direct
      THEN <<value>>
      ELSE IF second < Direct
           THEN <<Direct + (first % Radix), second>>
           ELSE <<Direct + (first % Radix),
                  Direct + (second % Radix),
                  (second \div Radix) % ByteSize>>

(* encodeLength: the bytes appended for a length value - overflow.  The    *)
(* third byte is a conversion to byte: it keeps the value modulo 256.      *)
EncodeLength(value) ==
  LET first  == value - Direct
      second == first \div Radix - Direct
  IN  IF value < Direct
      THEN <<value>>
      ELSE IF first \div Radix < Direct
           THEN <<Direct + (first % Radix), first \div Radix>>
           ELSE <<Direct + (first % Radix),
                  Direct + (second % Radix),
                  (second \div Radix) % ByteSize>>

(* The largest value three bytes can carry. *)
MaxCode ==
  Direct + Radix * Direct + Radix * Radix * ByteSize - 1

(* Reading one length at index p of the stream: the number of bytes read   *)
(* (0 when the stream ends inside the code, the decoder's ErrCorrupt) and  *)
(* the value.                                                              *)
CodeBytes(lengths, p) ==
  IF p > Len(lengths) THEN 0
  ELSE IF lengths[p] < Direct THEN 1
  ELSE IF p + 1 > Len(lengths) THEN 0
  ELSE IF lengths[p + 1] < Direct THEN 2
  ELSE IF p + 2 > Len(lengths) THEN 0
  ELSE 3

DecodeLength(lengths, p) ==
  CASE CodeBytes(lengths, p) = 1 -> lengths[p]
    [] CodeBytes(lengths, p) = 2 -> lengths[p + 1] * Radix + lengths[p]
    [] OTHER ->
         (lengths[p + 2] * Radix + lengths[p + 1]) * Radix + lengths[p]

-----------------------------------------------------------------------------
(* The literal field of a token and the length codes it adds (appendRun).  *)
LiteralField(run) == IF run >= FieldCap THEN FieldCap ELSE run

LiteralCodes(run) ==
  IF run >= FieldCap THEN EncodeLength(run - FieldCap) ELSE <<>>

(* appendMatchLengthWithMode: the match fields of the current token and,   *)
(* when the block is written without Huffman codes, of a second token that *)
(* continues a match of 9..16 bytes; a longer match escapes to the length  *)
(* stream with overflow 9.                                                 *)
LongestField == FieldCap - 1 + MinMatch

Splits(len, noHuffman) == noHuffman /\ len > LongestField /\ len <= 2 * LongestField

(* Faulty: no bias when the second field would be negative. *)
UnbiasedFields(len, noHuffman) ==
  IF len <= LongestField
  THEN <<len - MinMatch>>
  ELSE IF Splits(len, noHuffman)
       THEN <<FieldCap - 1, len - (LongestField + MinMatch)>>
       ELSE <<FieldCap>>

MatchFields(len, noHuffman) ==
  IF len <= LongestField
  THEN <<len - MinMatch>>
  ELSE IF Splits(len, noHuffman)
       THEN LET bias == IF len < LongestField + MinMatch THEN 1 ELSE 0
            IN  <<FieldCap - 1 - bias, len - (LongestField + MinMatch) + bias>>
       ELSE <<FieldCap>>

(* Faulty: a split match writes its length code as well. *)
CodesForSplit(len, noHuffman) ==
  IF len <= LongestField THEN <<>> ELSE EncodeLength(len - (FieldCap + MinMatch))

MatchCodes(len, noHuffman) ==
  IF len <= LongestField \/ Splits(len, noHuffman)
  THEN <<>>
  ELSE EncodeLength(len - (FieldCap + MinMatch))

=============================================================================
