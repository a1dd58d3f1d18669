----------------------------- MODULE TokenCodes -----------------------------
(***************************************************************************)
(* The length and distance codes with the widths of the program: one after *)
(* the other, every length a block can have and the distances around every *)
(* change of a code is written as the encoder does and read as the decoder *)
(* does (tokens.go, literals.go, distance.go, lz_decode.go).               *)
(***************************************************************************)
EXTENDS LengthCode, DistanceCode

CONSTANTS
  MaxLength,  (* longest run or match: maxBlockSize                        *)
  TopDistance (* a distance near the largest one                           *)

ASSUME TokenCodesAssumption ==
  /\ MaxLength \in Nat
  /\ TopDistance \in Nat /\ TopDistance > MaxLength

VARIABLE n         (* the length and the distances that are coded          *)

CodesInit == n = 0

Code == n < MaxLength /\ n' = n + 1

CodesNext == Code

CodesSpec == CodesInit /\ [][CodesNext]_n

-----------------------------------------------------------------------------
(* What the decoder reads for a literal run written between other codes.   *)
RunRead(run, before) ==
  LET lengths == before \o LiteralCodes(run) \o before
  IN  LiteralField(run)
        + (IF LiteralField(run) = FieldCap
           THEN DecodeLength(lengths, Len(before) + 1) ELSE 0)

(* The match length of one field. *)
FieldRead(field, lengths) ==
  field + MinMatch + (IF field = FieldCap THEN DecodeLength(lengths, 1) ELSE 0)

(* The bytes that the tokens of a match of len bytes copy. *)
MatchRead(len, noHuffman) ==
  LET fields  == MatchFields(len, noHuffman)
      lengths == MatchCodes(len, noHuffman)
  IN  FieldRead(fields[1], lengths)
        + (IF Len(fields) = 2 THEN FieldRead(fields[2], lengths) ELSE 0)

(* A run and a match of any length are read as they were written, also when*)
(* the match takes two tokens, from symbols that fit a byte and a field    *)
(* (encodeLength, appendRun, appendMatchLengthWithMode).                   *)
LengthsRoundTrip ==
  /\ RunRead(n, <<Direct - 1>>) = n
  /\ \A i \in DOMAIN LiteralCodes(n) : LiteralCodes(n)[i] \in Byte
  /\ n >= MinMatch =>
       \A noHuffman \in BOOLEAN :
         /\ MatchRead(n, noHuffman) = n
         /\ \A i \in DOMAIN MatchFields(n, noHuffman) :
              MatchFields(n, noHuffman)[i] \in 0 .. FieldCap
         /\ \A i \in DOMAIN MatchCodes(n, noHuffman) :
              MatchCodes(n, noHuffman)[i] \in Byte

Tested == {n, MaxStdDistance - n, TopDistance - n} \ {0}

(* A distance is read as it was written: in the bytes its field announces, *)
(* and as a distance token and extra bits that the decoder accepts         *)
(* (appendDistance, appendAdvancedDistance, decodeAdvancedDistanceOp).     *)
DistancesRoundTrip ==
  \A d \in Tested :
    /\ d <= MaxStdDistance =>
         StdDistance(0, StdField(0, d), StdBytes(0, d), 1) = d
    /\ LET code == FreshCode(d)
       IN  /\ FreshDistance(code) = d
           /\ code.low \in 0 .. (LowGroup - 1)
           /\ code.bits <= MaxExtraBits
           /\ code.extra < 2^(code.bits)

=============================================================================
