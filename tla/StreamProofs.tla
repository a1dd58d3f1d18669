---------------------------- MODULE StreamProofs ---------------------------
(***************************************************************************)
(* Proofs about the streams of a block.  The codes of lengths and          *)
(* distances, for any widths of a byte, of a field and of a length.  The   *)
(* extra bits of its distances, for any number of them, and one stream of  *)
(* Huffman codes, for any number of symbols, any lane, any codes of 1 to   *)
(* 11 bits and any bytes before the stream.  And the buffers the streams   *)
(* are written to: who may use one, for any number of encoders, streams,   *)
(* pools and block sizes.                                                  *)
(***************************************************************************)
EXTENDS TokenCodes, DistanceBits, HuffmanStream, ScratchPool, CodeLemmas

-----------------------------------------------------------------------------
(* Lengths and distances.                                                  *)


(* A literal run of any length is read back (appendRun). *)
LEMMA RunReadBack ==
  ASSUME NEW run \in 0 .. (MaxCode + FieldCap), NEW before \in Seq(Byte)
  PROVE  /\ RunRead(run, before) = run
         /\ LiteralCodes(run) \in Seq(Byte)
<1>0. FieldCap \in Nat /\ MaxCode \in Int
  BY LengthCodeAssumption DEF MaxCode, ByteSize
<1>1. CASE run >= FieldCap
  <2>1. run - FieldCap \in 0 .. MaxCode
    BY <1>0, <1>1
  <2>2. LiteralField(run) = FieldCap /\ LiteralCodes(run) = EncodeLength(run - FieldCap)
    BY <1>1 DEF LiteralField, LiteralCodes
  <2>3. /\ EncodeLength(run - FieldCap) \in Seq(Byte)
        /\ DecodeLength(before \o EncodeLength(run - FieldCap) \o before,
                        Len(before) + 1) = run - FieldCap
    BY <2>1, LengthReadBack
  <2>4. RunRead(run, before) = FieldCap + (run - FieldCap)
    BY <2>2, <2>3 DEF RunRead
  <2> QED
    BY <1>0, <2>2, <2>3, <2>4
<1>2. CASE ~(run >= FieldCap)
  <2>1. LiteralField(run) = run /\ LiteralCodes(run) = <<>> /\ run # FieldCap
    BY <1>0, <1>2 DEF LiteralField, LiteralCodes
  <2>2. RunRead(run, before) = run + 0
    BY <2>1 DEF RunRead
  <2> QED
    BY <2>1, <2>2
<1> QED
  BY <1>1, <1>2

(* A match of any length is read back, in one token or in two, and its     *)
(* fields fit a token (appendMatchLengthWithMode).                         *)
LEMMA MatchReadBack ==
  ASSUME NEW len \in MinMatch .. (MaxCode + FieldCap), NEW noHuffman \in BOOLEAN
  PROVE  /\ MatchRead(len, noHuffman) = len
         /\ MatchCodes(len, noHuffman) \in Seq(Byte)
         /\ MatchFields(len, noHuffman) \in Seq(0 .. FieldCap)
<1>0. /\ FieldCap \in Nat /\ FieldCap >= 2 /\ MaxCode \in Int /\ MinMatch = 2
      /\ LongestField = FieldCap + 1 /\ len \in Nat /\ len >= 2
  BY LengthCodeAssumption DEF MaxCode, ByteSize, MinMatch, LongestField
<1>1. CASE len <= LongestField
  <2>1. /\ MatchFields(len, noHuffman) = <<len - 2>>
        /\ MatchCodes(len, noHuffman) = <<>>
        /\ len - 2 \in 0 .. FieldCap /\ len - 2 # FieldCap
    BY <1>0, <1>1 DEF MatchFields, MatchCodes
  <2>2. FieldRead(len - 2, <<>>) = (len - 2) + 2 + 0
    BY <1>0, <2>1 DEF FieldRead
  <2>3. MatchRead(len, noHuffman) = FieldRead(len - 2, <<>>) + 0
    BY <2>1 DEF MatchRead
  <2> QED
    BY <1>0, <2>1, <2>2, <2>3
<1>2. CASE ~(len <= LongestField) /\ Splits(len, noHuffman)
  <2> DEFINE bias == IF len < LongestField + MinMatch THEN 1 ELSE 0
             one  == FieldCap - 1 - bias
             two  == len - (LongestField + MinMatch) + bias
  <2>1. /\ MatchFields(len, noHuffman) = <<one, two>>
        /\ MatchCodes(len, noHuffman) = <<>>
    BY <1>2 DEF MatchFields, MatchCodes
  <2>2. /\ one \in 0 .. FieldCap /\ one # FieldCap
        /\ two \in 0 .. FieldCap /\ two # FieldCap
        /\ (one + 2) + (two + 2) = len
    BY <1>0, <1>2 DEF Splits
  <2> HIDE DEF one, two
  <2>3. FieldRead(one, <<>>) = one + 2 + 0 /\ FieldRead(two, <<>>) = two + 2 + 0
    BY <1>0, <2>2 DEF FieldRead
  <2>4. MatchRead(len, noHuffman) = FieldRead(one, <<>>) + FieldRead(two, <<>>)
    BY <2>1 DEF MatchRead
  <2>5. MatchRead(len, noHuffman) = len
    BY <1>0, <2>2, <2>3, <2>4
  <2> QED
    BY <2>1, <2>2, <2>5
<1>3. CASE ~(len <= LongestField) /\ ~Splits(len, noHuffman)
  <2> DEFINE v == len - (FieldCap + MinMatch)
  <2>1. /\ MatchFields(len, noHuffman) = <<FieldCap>>
        /\ MatchCodes(len, noHuffman) = EncodeLength(v)
    BY <1>3 DEF MatchFields, MatchCodes
  <2>2. v \in 0 .. MaxCode /\ FieldCap + 2 + v = len
    BY <1>0, <1>3
  <2> HIDE DEF v
  <2>3. /\ EncodeLength(v) \in Seq(Byte)
        /\ DecodeLength(EncodeLength(v), 1) = v
    <3>1. /\ EncodeLength(v) \in Seq(Byte)
          /\ DecodeLength(<<>> \o EncodeLength(v) \o <<>>, Len(<<>>) + 1) = v
      <4>1. <<>> \in Seq(Byte)
        OBVIOUS
      <4> QED
        BY <2>2, <4>1, LengthReadBack
    <3>2. <<>> \o EncodeLength(v) \o <<>> = EncodeLength(v) /\ Len(<<>>) + 1 = 1
      BY <3>1, ConcatEmptySeq
    <3> QED
      BY <3>1, <3>2
  <2>4. FieldRead(FieldCap, EncodeLength(v)) = FieldCap + 2 + v
    BY <1>0, <2>3 DEF FieldRead
  <2>5. MatchRead(len, noHuffman) = FieldRead(FieldCap, EncodeLength(v)) + 0
    BY <2>1 DEF MatchRead
  <2>6. MatchRead(len, noHuffman) = len
    BY <1>0, <2>2, <2>4, <2>5
  <2>7. FieldCap \in 0 .. FieldCap
    BY <1>0
  <2> QED
    BY <2>1, <2>3, <2>6, <2>7
<1> QED
  BY <1>1, <1>2, <1>3

(* The entries of a sequence over S are in S.                              *)
LEMMA Elements ==
  ASSUME NEW S, NEW s \in Seq(S)
  PROVE  \A i \in DOMAIN s : s[i] \in S
OBVIOUS

(* Whatever three bytes can carry beyond a full field satisfies the        *)
(* round trip of runs and matches.                                         *)
LEMMA LengthsOf ==
  ASSUME n \in 0 .. (MaxCode + FieldCap)
  PROVE  LengthsRoundTrip
<1>1. <<Direct - 1>> \in Seq(Byte)
  BY LengthCodeAssumption DEF Byte, ByteSize
<1>2. RunRead(n, <<Direct - 1>>) = n /\ LiteralCodes(n) \in Seq(Byte)
  BY <1>1, RunReadBack
<1>3. ASSUME n >= MinMatch, NEW noHuffman \in BOOLEAN
      PROVE  /\ MatchRead(n, noHuffman) = n
             /\ MatchCodes(n, noHuffman) \in Seq(Byte)
             /\ MatchFields(n, noHuffman) \in Seq(0 .. FieldCap)
  <2>1. n \in MinMatch .. (MaxCode + FieldCap)
    BY <1>3 DEF MinMatch
  <2> QED
    BY <2>1, MatchReadBack
<1>4. \A i \in DOMAIN LiteralCodes(n) : LiteralCodes(n)[i] \in Byte
  BY <1>2
<1>5. ASSUME n >= MinMatch
      PROVE  \A noHuffman \in BOOLEAN :
               /\ MatchRead(n, noHuffman) = n
               /\ \A i \in DOMAIN MatchFields(n, noHuffman) :
                    MatchFields(n, noHuffman)[i] \in 0 .. FieldCap
               /\ \A i \in DOMAIN MatchCodes(n, noHuffman) :
                    MatchCodes(n, noHuffman)[i] \in Byte
  <2> TAKE noHuffman \in BOOLEAN
  <2>1. /\ MatchRead(n, noHuffman) = n
        /\ MatchCodes(n, noHuffman) \in Seq(Byte)
        /\ MatchFields(n, noHuffman) \in Seq(0 .. FieldCap)
    BY <1>3, <1>5
  <2>2. /\ \A i \in DOMAIN MatchCodes(n, noHuffman) :
              MatchCodes(n, noHuffman)[i] \in Byte
        /\ \A i \in DOMAIN MatchFields(n, noHuffman) :
              MatchFields(n, noHuffman)[i] \in 0 .. FieldCap
    BY <2>1, Elements, Zenon
  <2> QED
    BY <2>1, <2>2, Zenon
<1> QED
  BY <1>2, <1>4, <1>5, Zenon DEF LengthsRoundTrip

(* Every length that three bytes can carry is read as it was written, for  *)
(* any split of the byte and any field (encodeLength, appendRun,           *)
(* appendMatchLengthWithMode and the length reads of the decoders).        *)
THEOREM LengthsCoded ==
  ASSUME MaxLength <= MaxCode + FieldCap
  PROVE  CodesSpec => []LengthsRoundTrip
<1> DEFINE Counts == n \in 0 .. MaxLength
<1>1. CodesInit => Counts
  BY TokenCodesAssumption DEF CodesInit
<1>2. Counts /\ [CodesNext]_n => Counts'
  BY TokenCodesAssumption DEF CodesNext, Code
<1>3. Counts => LengthsRoundTrip
  <2> SUFFICES ASSUME Counts PROVE n \in 0 .. (MaxCode + FieldCap)
    BY LengthsOf
  <2>1. MaxCode \in Int /\ FieldCap \in Nat /\ MaxLength \in Nat
    BY LengthCodeAssumption, TokenCodesAssumption DEF MaxCode, ByteSize
  <2> QED
    BY <2>1
<1> QED
  BY <1>1, <1>2, <1>3, PTL DEF CodesSpec

(* A distance with a row that the extra bits reach is read back in both    *)
(* modes (appendDistance, appendAdvancedDistance).                         *)
LEMMA DistanceReadBack ==
  ASSUME NEW far \in Nat \ {0}, NEW d \in 1 .. far,
         MaxExtraBits \in 0 .. WordBits, VirtualRow(far) < 2^(MaxExtraBits + 1)
  PROVE  /\ d <= MaxStdDistance =>
              StdDistance(0, StdField(0, d), StdBytes(0, d), 1) = d
         /\ FreshDistance(FreshCode(d)) = d
         /\ FreshCode(d).low \in 0 .. (LowGroup - 1)
         /\ FreshCode(d).bits <= MaxExtraBits
         /\ FreshCode(d).extra < 2^(FreshCode(d).bits)
<1>1. ASSUME d <= MaxStdDistance
      PROVE  StdDistance(0, StdField(0, d), StdBytes(0, d), 1) = d
  <2>1. d \in 1 .. MaxStdDistance
    BY <1>1, DistanceCodeAssumption DEF MaxStdDistance
  <2>2. /\ StdBytes(0, d) \in Seq(0 .. (DistBase - 1))
        /\ 0 + Len(StdBytes(0, d)) <= Len(StdBytes(0, d))
    <3>1. StdBytes(0, d) \in Seq(0 .. (DistBase - 1))
      BY <2>1, StdTyped
    <3>2. Len(StdBytes(0, d)) \in Nat
      BY <3>1, LenProperties
    <3> QED
      BY <3>1, <3>2
  <2>3. Stands(StdBytes(0, d), 0, StdBytes(0, d))
    BY <2>2 DEF Stands
  <2>4. StdDistance(0, StdField(0, d), StdBytes(0, d), 0 + 1) = d
    BY <2>1, <2>3, StdReadAt
  <2> QED
    BY <2>4
<1>2. VirtualRow(d) < 2^(MaxExtraBits + 1) /\ VirtualRow(d) < 2^(WordBits + 1)
  BY RowBelow
<1>3. d \in Nat \ {0}
  OBVIOUS
<1> QED
  BY <1>1, <1>2, <1>3, FreshReadBack

(* Every distance up to the largest of each mode is read as it was         *)
(* written, from a code the decoder accepts, when the extra bits reach the *)
(* row of the largest (appendDistance, appendAdvancedDistance,             *)
(* decodeAdvancedDistanceOp).                                              *)
THEOREM DistancesCoded ==
  ASSUME MaxLength <= MaxStdDistance, MaxExtraBits <= WordBits,
         VirtualRow(MaxStdDistance) < 2^(MaxExtraBits + 1),
         VirtualRow(TopDistance) < 2^(MaxExtraBits + 1)
  PROVE  CodesSpec => []DistancesRoundTrip
<1> DEFINE Counts == n \in 0 .. MaxLength
<1>1. CodesInit => Counts
  BY TokenCodesAssumption DEF CodesInit
<1>2. Counts /\ [CodesNext]_n => Counts'
  BY TokenCodesAssumption DEF CodesNext, Code
<1>3. Counts => DistancesRoundTrip
  <2> SUFFICES ASSUME Counts, NEW d \in Tested
               PROVE  /\ d <= MaxStdDistance =>
                           StdDistance(0, StdField(0, d), StdBytes(0, d), 1) = d
                      /\ FreshDistance(FreshCode(d)) = d
                      /\ FreshCode(d).low \in 0 .. (LowGroup - 1)
                      /\ FreshCode(d).bits <= MaxExtraBits
                      /\ FreshCode(d).extra < 2^(FreshCode(d).bits)
    BY Zenon DEF DistancesRoundTrip
  <2>1. /\ MaxStdDistance \in Nat \ {0} /\ MaxLength \in Nat
        /\ TopDistance \in Nat \ {0} /\ TopDistance > MaxLength
        /\ MaxExtraBits \in 0 .. WordBits
    <3>1. DistBase * DistBase * DistBase \in Nat /\ DistBase * DistBase * DistBase > 1
      <4>1. DistBase \in Nat /\ DistBase > 1
        BY DistanceCodeAssumption
      <4>2. DistBase * DistBase \in Nat /\ DistBase * DistBase > 1
        BY <4>1
      <4> QED
        BY <4>1, <4>2
    <3> QED
      BY <3>1, TokenCodesAssumption, DistanceCodeAssumption DEF MaxStdDistance, WordBits
  <2>2. d \in 1 .. MaxStdDistance \/ d \in 1 .. TopDistance
    BY <2>1 DEF Tested
  <2>3. CASE d \in 1 .. MaxStdDistance
    BY <2>1, <2>3, DistanceReadBack
  <2>4. CASE d \in 1 .. TopDistance
    BY <2>1, <2>4, DistanceReadBack
  <2> QED
    BY <2>2, <2>3, <2>4
<1> QED
  BY <1>1, <1>2, <1>3, PTL DEF CodesSpec

-----------------------------------------------------------------------------
(* The extra bits of the distances.                                        *)

(* The stream bit behind value i.                                          *)
EndOf(list, i) == IF i = 0 THEN 0 ELSE list[i].first + list[i].width

(* Values lie side by side and fill the bytes, but for the last byte.      *)
SideBySide ==
  /\ \A i \in 1 .. Len(packed) : packed[i].first = EndOf(packed, i - 1)
  /\ \A i \in 0 .. Len(packed) : EndOf(packed, i) <= 8 * bytes + pending
  /\ IF at = "write" THEN EndOf(packed, Len(packed)) = 8 * bytes + pending
     ELSE pending = 0 /\ 8 * bytes < EndOf(packed, Len(packed)) + 8

(* The word ends where the next load begins, and has the bits for what is  *)
(* read before that load.                                                  *)
WordInPlace ==
  /\ at \in {"write", "open"} => unpacked = 0
  /\ (at = "done" /\ packed = <<>>) => unpacked = 0
  /\ at = "done" => unpacked = Len(packed)
  /\ at \in {"first", "second"} => unpacked < Len(packed)
  /\ at \in {"first", "second", "refill"} => packed # <<>>
  /\ (at \in {"first", "second", "refill", "done"} /\ packed # <<>>) =>
       /\ missed = {0}
       /\ low = EndOf(packed, unpacked)
       /\ 8 * pos = low + count
  /\ at = "first" => count >= 56
  /\ at = "second" => count >= 28
  /\ at # "corrupt"

BitsInv == BitsTypeOK /\ SideBySide /\ WordInPlace

-----------------------------------------------------------------------------
(* The byte of a bit, and the bit in that byte.                            *)
LEMMA ByteParts ==
  ASSUME NEW a \in Nat
  PROVE  /\ a \div 8 \in Nat /\ a % 8 \in 0 .. 7
         /\ a = 8 * (a \div 8) + (a % 8)
BY SMT

(* A load counts seven bytes and those bits that do not fill one.          *)
LEMMA RefillCount ==
  ASSUME NEW c \in 0 .. 63
  PROVE  /\ 56 + (c % 8) \in 56 .. 63
         /\ (63 - c) \div 8 \in Nat
         /\ 8 * ((63 - c) \div 8) + c = 56 + (c % 8)
BY SMT

(* Where values of a list of values begin and end.                         *)
LEMMA ValueTyped ==
  ASSUME NEW list \in Seq([first : Nat, width : 0 .. 28]), NEW i \in 1 .. Len(list)
  PROVE  /\ list[i] \in [first : Nat, width : 0 .. 28]
         /\ list[i].first \in Nat /\ list[i].width \in 0 .. 28
         /\ EndOf(list, i) \in Nat /\ EndOf(list, i) = list[i].first + list[i].width
<1>1. list[i] \in [first : Nat, width : 0 .. 28]
  BY ElementOfSeq
<1>2. list[i].first \in Nat /\ list[i].width \in 0 .. 28
  BY <1>1
<1>3. EndOf(list, i) = list[i].first + list[i].width
  BY DEF EndOf
<1> DEFINE from == list[i].first
           w    == list[i].width
<1>4. from \in Nat /\ w \in 0 .. 28 => from + w \in Nat
  <2> HIDE DEF from, w
  <2> QED
    OBVIOUS
<1> QED
  BY <1>1, <1>2, <1>3, <1>4

(* The end of the values up to i is a number. *)
LEMMA EndTyped ==
  ASSUME NEW list \in Seq([first : Nat, width : 0 .. 28]), NEW i \in 0 .. Len(list)
  PROVE  EndOf(list, i) \in Nat
<1>1. CASE i = 0
  BY <1>1 DEF EndOf
<1>2. CASE i \in 1 .. Len(list)
  BY <1>2, ValueTyped
<1> QED
  BY <1>1, <1>2

(* BitsInv holds at first. *)
LEMMA InitInv == BitsInit => BitsInv
BY DEF BitsInit, BitsInv, BitsTypeOK, SideBySide, WordInPlace, EndOf

-----------------------------------------------------------------------------
(* One step of the writer or the reader.                                   *)

(* The encoder adds the bits of a value: BitsInv stays. *)
LEMMA AppendInv ==
  ASSUME BitsInv, NEW width \in Widths, AppendValue(width)
  PROVE  BitsInv'
<1> USE DEF AppendValue
<1>1. width \in 0 .. 28
  BY DistanceBitsAssumption
<1> DEFINE value == [first |-> 8 * bytes + pending, width |-> width]
<1>2. /\ value \in [first : Nat, width : 0 .. 28]
      /\ packed' = Append(packed, value)
      /\ Len(packed') = Len(packed) + 1
      /\ packed'[Len(packed) + 1] = value
      /\ \A i \in 1 .. Len(packed) : packed'[i] = packed[i]
  BY <1>1 DEF BitsInv, BitsTypeOK
<1> HIDE DEF value
<1>3. /\ bytes' \in Nat /\ pending' \in 0 .. 7
      /\ 8 * bytes' + pending' = 8 * bytes + pending + width
  <2>1. pending + width \in Nat
    BY <1>1 DEF BitsInv, BitsTypeOK
  <2> QED
    BY <2>1, <1>1, ByteParts DEF BitsInv, BitsTypeOK
<1>4. BitsTypeOK'
  <2>1. packed' \in Seq([first : Nat, width : 0 .. 28])
    BY <1>2 DEF BitsInv, BitsTypeOK
  <2> QED
    BY <2>1, <1>2, <1>3 DEF BitsInv, BitsTypeOK, WordInPlace, unpackerVars
<1>5. /\ \A i \in 0 .. Len(packed) : EndOf(packed', i) = EndOf(packed, i)
      /\ EndOf(packed', Len(packed) + 1) = 8 * bytes' + pending'
  <2>1. EndOf(packed', Len(packed) + 1) = 8 * bytes + pending + width
    BY <1>1, <1>2 DEF EndOf, value, BitsInv, BitsTypeOK
  <2> QED
    BY <2>1, <1>2, <1>3 DEF EndOf
<1>6. SideBySide'
  <2>1. \A i \in 1 .. Len(packed)' : packed'[i].first = EndOf(packed', i - 1)
    <3> TAKE i \in 1 .. Len(packed)'
    <3>1. CASE i = Len(packed) + 1
      BY <3>1, <1>2, <1>5 DEF value, BitsInv, BitsTypeOK, SideBySide
    <3>2. CASE i \in 1 .. Len(packed)
      <4>1. packed'[i] = packed[i] /\ packed[i].first = EndOf(packed, i - 1)
        BY <3>2, <1>2 DEF BitsInv, SideBySide
      <4>2. i - 1 \in 0 .. Len(packed)
        BY <3>2
      <4>3. EndOf(packed', i - 1) = EndOf(packed, i - 1)
        BY <4>2, <1>5
      <4> QED
        BY <4>1, <4>3
    <3> QED
      BY SMTT(60), <3>1, <3>2, <1>2 DEF BitsInv, BitsTypeOK
  <2>2. \A i \in 0 .. Len(packed)' : EndOf(packed', i) <= 8 * bytes' + pending'
    <3> TAKE i \in 0 .. Len(packed)'
    <3>1. CASE i = Len(packed) + 1
      BY <3>1, <1>3, <1>5
    <3>2. CASE i \in 0 .. Len(packed)
      <4>1. EndOf(packed, i) <= 8 * bytes + pending
        BY <3>2 DEF BitsInv, SideBySide
      <4>2. EndOf(packed, i) \in Nat
        BY <3>2, EndTyped DEF BitsInv, BitsTypeOK
      <4> QED
        BY <4>1, <4>2, <3>2, <1>1, <1>3, <1>5 DEF BitsInv, BitsTypeOK
    <3> QED
      BY <3>1, <3>2, <1>2 DEF BitsInv, BitsTypeOK
  <2> QED
    BY <2>1, <2>2, <1>2, <1>5 DEF SideBySide
<1>7. WordInPlace'
  BY <1>2 DEF BitsInv, WordInPlace, unpackerVars
<1> QED
  BY <1>4, <1>6, <1>7 DEF BitsInv

(* The encoder adds the last, partly filled byte. *)
LEMMA FinishInv ==
  ASSUME BitsInv, FinishWriting
  PROVE  BitsInv'
<1>1. BitsTypeOK'
  BY DEF FinishWriting, BitsInv, BitsTypeOK, unpackerVars
<1>2. packed' = packed /\ \A i \in 0 .. Len(packed) : EndOf(packed, i) \in Nat
  BY EndTyped DEF FinishWriting, BitsInv, BitsTypeOK
<1>3. SideBySide'
  BY <1>2 DEF FinishWriting, BitsInv, BitsTypeOK, SideBySide
<1>4. WordInPlace'
  BY DEF FinishWriting, BitsInv, WordInPlace, unpackerVars
<1> QED
  BY <1>1, <1>3, <1>4 DEF BitsInv

(* The reader leaves the values where they are.                            *)
LEMMA ReaderKeeps ==
  ASSUME BitsInv, UNCHANGED packerVars, at # "write", at' # "write"
  PROVE  /\ SideBySide'
         /\ \A i \in 0 .. Len(packed) :
              EndOf(packed, i) \in Nat /\ EndOf(packed, i) <= 8 * bytes
         /\ \A i \in 1 .. Len(packed) :
              packed[i].first = EndOf(packed, i - 1) /\ packed[i].width \in 0 .. 28
<1>2. \A i \in 0 .. Len(packed) : EndOf(packed, i) \in Nat
  BY EndTyped DEF BitsInv, BitsTypeOK
<1>3. /\ bytes \in Nat /\ pending = 0
      /\ \A i \in 0 .. Len(packed) : EndOf(packed, i) <= 8 * bytes + pending
  BY DEF BitsInv, BitsTypeOK, SideBySide
<1>4. SideBySide'
  BY DEF BitsInv, SideBySide, packerVars
<1>5. \A i \in 1 .. Len(packed) :
        packed[i].first = EndOf(packed, i - 1) /\ packed[i].width \in 0 .. 28
  BY ValueTyped DEF BitsInv, BitsTypeOK, SideBySide
<1>6. \A i \in 0 .. Len(packed) : EndOf(packed, i) <= 8 * bytes
  <2> TAKE i \in 0 .. Len(packed)
  <2> DEFINE end == EndOf(packed, i)
  <2>1. end \in Nat /\ end <= 8 * bytes + pending
    BY <1>2, <1>3
  <2> HIDE DEF end
  <2>2. end <= 8 * bytes
    BY <2>1, <1>3
  <2> QED
    BY <2>2 DEF end
<1> QED
  BY <1>2, <1>4, <1>5, <1>6, Zenon

(* The decoder loads its first eight bytes. *)
LEMMA OpenInv ==
  ASSUME BitsInv, Open
  PROVE  BitsInv'
<1>1. Length >= 16
  BY DistanceBitsAssumption DEF Length, BitsInv, BitsTypeOK
<1>2. at' = IF packed = <<>> THEN "done" ELSE "first"
  BY <1>1, DistanceBitsAssumption DEF Open, Length, BitsInv, BitsTypeOK
<1>3. BitsTypeOK'
  BY <1>2 DEF Open, BitsInv, BitsTypeOK, packerVars
<1>4. SideBySide'
  BY <1>2, ReaderKeeps DEF Open
<1>5. unpacked = 0 /\ unpacked' = 0 /\ packed' = packed /\ EndOf(packed, 0) = 0
  BY DEF Open, BitsInv, WordInPlace, packerVars, EndOf
<1>6. packed # <<>> => Len(packed) > 0
  BY DEF BitsInv, BitsTypeOK
<1>7. WordInPlace'
  BY <1>2, <1>4, <1>5, <1>6 DEF Open, WordInPlace
<1> QED
  BY <1>3, <1>4, <1>7 DEF BitsInv

(* The decoder takes a value from its word. *)
LEMMA ReadInv ==
  ASSUME BitsInv, ReadValue
  PROVE  BitsInv'
<1>1. /\ at' # "write" /\ at' # "open" /\ at' # "corrupt" /\ at # "write"
      /\ UNCHANGED packerVars
      /\ packed' = packed /\ packed # <<>>
  BY DEF ReadValue, BitsInv, WordInPlace, packerVars
<1>2. /\ SideBySide'
      /\ \A i \in 0 .. Len(packed) : EndOf(packed, i) \in Nat
      /\ \A i \in 1 .. Len(packed) :
           packed[i].first = EndOf(packed, i - 1) /\ packed[i].width \in 0 .. 28
  BY <1>1, ReaderKeeps
<1>3. unpacked + 1 \in 1 .. Len(packed) /\ unpacked \in Nat
  BY DEF ReadValue, BitsInv, WordInPlace, BitsTypeOK
<1>4. /\ EndOf(packed, unpacked + 1) = EndOf(packed, unpacked) + Value.width
      /\ Value.width \in 0 .. 28
  <2>1. packed[unpacked + 1].first = EndOf(packed, unpacked)
    BY <1>2, <1>3
  <2> QED
    BY <2>1, <1>2, <1>3 DEF EndOf, Value
<1>5. /\ count \in 0 .. 63 /\ low \in Nat
      /\ at = "first" => count >= 56
      /\ at = "second" => count >= 28
      /\ missed = {0} /\ low = EndOf(packed, unpacked) /\ 8 * pos = low + count
  BY <1>1 DEF ReadValue, BitsInv, WordInPlace, BitsTypeOK
<1>6. count' \in 0 .. 63 /\ low' \in Nat /\ (at = "first" => count' >= 28)
  <2> DEFINE w == Value.width
  <2>1. w \in 0 .. 28 /\ count' = count - w /\ low' = low + w
    BY <1>4 DEF ReadValue
  <2>2. count >= 28
    BY <1>5 DEF ReadValue
  <2> HIDE DEF w
  <2> QED
    BY <2>1, <2>2, <1>5
<1>7. BitsTypeOK'
  BY <1>1, <1>3, <1>6 DEF ReadValue, BitsInv, BitsTypeOK, packerVars
<1>8. WordInPlace'
  <2>1. /\ low' = EndOf(packed', unpacked') /\ 8 * pos' = low' + count' /\ missed' = {0}
    <3> DEFINE w == Value.width
    <3>1. /\ w \in 0 .. 28 /\ EndOf(packed, unpacked + 1) = EndOf(packed, unpacked) + w
          /\ count' = count - w /\ low' = low + w /\ unpacked' = unpacked + 1
          /\ pos' = pos /\ missed' = missed /\ pos \in Nat
      BY <1>4 DEF ReadValue, BitsInv, BitsTypeOK
    <3> HIDE DEF w
    <3> QED
      BY <3>1, <1>1, <1>5
  <2>2. /\ at' = "done" => unpacked' = Len(packed)
        /\ at' = "second" => unpacked' < Len(packed)
        /\ at' # "first"
    BY <1>3 DEF ReadValue
  <2> QED
    BY <2>1, <2>2, <1>1, <1>6 DEF ReadValue, WordInPlace
<1> QED
  BY <1>2, <1>7, <1>8 DEF BitsInv

(* A load lies inside the block and its trailer: the word never ends more  *)
(* than seven bytes behind the values.                                     *)
LEMMA RefillInv ==
  ASSUME BitsInv, Refill
  PROVE  BitsInv'
<1>1. at = "refill" /\ at' # "write" /\ UNCHANGED packerVars /\ packed # <<>>
  BY DEF Refill, BitsInv, WordInPlace
<1>2. /\ SideBySide'
      /\ \A i \in 0 .. Len(packed) : EndOf(packed, i) \in Nat /\ EndOf(packed, i) <= 8 * bytes
  BY <1>1, ReaderKeeps
<1>3. /\ count \in 0 .. 63 /\ pos \in Nat /\ low \in Nat /\ bytes \in Nat
      /\ missed = {0} /\ low = EndOf(packed, unpacked) /\ 8 * pos = low + count
      /\ unpacked \in 0 .. Len(packed)
  BY <1>1 DEF BitsInv, WordInPlace, BitsTypeOK
<1>4. low <= 8 * bytes
  BY <1>2, <1>3
<1>5. pos < Length /\ pos + 8 <= Length
  BY <1>3, <1>4, DistanceBitsAssumption DEF Length
<1>6. /\ missed' = missed \cup {8 * pos - (low + count)}
      /\ pos' = pos + (63 - count) \div 8
      /\ count' = 56 + (count % 8)
      /\ at' = IF unpacked = Len(packed) THEN "done" ELSE "first"
      /\ UNCHANGED <<unpacked, low>>
  BY <1>3, <1>5, DistanceBitsAssumption DEF Refill, Length
<1>7. missed' = {0}
  BY <1>3, <1>6
<1>8. count' \in 56 .. 63 /\ pos' \in Nat /\ 8 * pos' = low' + count'
  <2> DEFINE loaded == (63 - count) \div 8
             left   == count % 8
  <2>1. 56 + left \in 56 .. 63 /\ loaded \in Nat /\ 8 * loaded + count = 56 + left
    BY <1>3, RefillCount
  <2>2. pos' = pos + loaded /\ count' = 56 + left /\ low' = low
    BY <1>6
  <2> HIDE DEF loaded, left
  <2> QED
    BY SMTT(60), <2>1, <2>2, <1>3
<1>9. BitsTypeOK'
  BY <1>1, <1>6, <1>7, <1>8 DEF BitsInv, BitsTypeOK, packerVars
<1>10. WordInPlace'
  BY SMTT(60), <1>1, <1>2, <1>3, <1>6, <1>7, <1>8 DEF WordInPlace, packerVars
<1> QED
  BY <1>2, <1>9, <1>10 DEF BitsInv

(* Every step keeps BitsInv. *)
LEMMA NextInv ==
  ASSUME BitsInv, [BitsNext]_bitsVars
  PROVE  BitsInv'
<1>1. ASSUME NEW width \in Widths, AppendValue(width)
      PROVE  BitsInv'
  BY <1>1, AppendInv
<1>2. CASE FinishWriting
  BY <1>2, FinishInv
<1>3. CASE Open
  BY <1>3, OpenInv
<1>4. CASE ReadValue
  BY <1>4, ReadInv
<1>5. CASE Refill
  BY <1>5, RefillInv
<1>6. CASE UNCHANGED bitsVars
  BY <1>6
     DEF bitsVars, packerVars, unpackerVars, BitsInv, BitsTypeOK, SideBySide, WordInPlace, EndOf
<1> QED
  BY <1>1, <1>2, <1>3, <1>4, <1>5, <1>6 DEF BitsNext

(* BitsInv holds in every state. *)
LEMMA BitsInvariant == BitsSpec => []BitsInv
<1>1. BitsInit => BitsInv
  BY InitInv
<1>2. BitsInv /\ [BitsNext]_bitsVars => BitsInv'
  BY NextInv
<1> QED
  BY <1>1, <1>2, PTL DEF BitsSpec

-----------------------------------------------------------------------------
(* Every variable of the bit writer and reader keeps its type.             *)
THEOREM BitsTypes == BitsSpec => []BitsTypeOK
<1>1. BitsInv => BitsTypeOK
  BY DEF BitsInv
<1> QED
  BY <1>1, BitsInvariant, PTL

(* However many distances a block has, each value is read from the bits it *)
(* was written to, all of them present in the word                         *)
(* (appendUnchecked, decodeAdvancedDistanceOp, renormalizeAdvancedDistance)*)
THEOREM ValuesRead == BitsSpec => []ValuesInPlace
<1>1. BitsInv => ValuesInPlace
  <2> SUFFICES ASSUME BitsInv, at \in {"first", "second"}
               PROVE  missed = {0} /\ low = Value.first /\ Value.width <= count
    BY DEF ValuesInPlace
  <2>1. /\ unpacked + 1 \in 1 .. Len(packed) /\ unpacked \in Nat
        /\ packed[unpacked + 1] \in [first : Nat, width : 0 .. 28]
    <3>1. unpacked + 1 \in 1 .. Len(packed) /\ unpacked \in Nat
      BY DEF BitsInv, WordInPlace, BitsTypeOK
    <3> QED
      BY <3>1, ValueTyped DEF BitsInv, BitsTypeOK
  <2>2. packed[unpacked + 1].first = EndOf(packed, unpacked)
    BY <2>1 DEF BitsInv, SideBySide
  <2>3. Value.first = EndOf(packed, unpacked) /\ Value.width \in 0 .. 28
    BY <2>1, <2>2 DEF Value
  <2>4. packed # <<>> /\ count \in 0 .. 63 /\ count >= 28
    BY DEF BitsInv, WordInPlace, BitsTypeOK
  <2>5. missed = {0} /\ low = EndOf(packed, unpacked)
    BY <2>4 DEF BitsInv, WordInPlace
  <2> DEFINE w == Value.width
  <2>6. w <= count
    <3>1. w \in 0 .. 28
      BY <2>3
    <3> HIDE DEF w
    <3> QED
      BY <3>1, <2>4
  <2> QED
    BY <2>3, <2>5, <2>6
<1> QED
  BY <1>1, BitsInvariant, PTL

(* The reader accepts every packed block and leaves off at the byte where  *)
(* the writer did (appendTo, decodeAdvancedDistancesWithState).            *)
THEOREM ReaderEnds == BitsSpec => []ReaderEndsWithWriter
<1>1. BitsInv => ReaderEndsWithWriter
  <2> SUFFICES ASSUME BitsInv, at = "done"
               PROVE  EndPosition = bytes
    BY DEF BitsInv, WordInPlace, ReaderEndsWithWriter
  <2>1. /\ unpacked = Len(packed) /\ Len(packed) \in Nat
        /\ bytes \in Nat /\ pos \in Nat /\ count \in 0 .. 63 /\ low \in Nat
    BY DEF BitsInv, WordInPlace, BitsTypeOK
  <2>2. EndOf(packed, unpacked) <= 8 * bytes /\ 8 * bytes < EndOf(packed, unpacked) + 8
    BY <2>1 DEF BitsInv, SideBySide, BitsTypeOK
  <2>3. CASE packed = <<>>
    BY <2>1, <2>2, <2>3 DEF EndPosition, EndOf
  <2>4. CASE packed # <<>>
    <3>1. low = EndOf(packed, unpacked) /\ 8 * pos = low + count
      BY <2>4 DEF BitsInv, WordInPlace
    <3>2. /\ count \div 8 \in Nat /\ count % 8 \in 0 .. 7
          /\ count = 8 * (count \div 8) + (count % 8)
      BY <2>1, ByteParts
    <3> QED
      BY <2>1, <2>2, <2>4, <3>1, <3>2 DEF EndPosition
  <2> QED
    BY <2>3, <2>4
<1> QED
  BY <1>1, BitsInvariant, PTL

-----------------------------------------------------------------------------
(* The Huffman codes of one stream.                                        *)

(* The bits written, and where the k-th of the codes ends.                 *)
Bits       == 8 * (BufferSize - room) + fill
End(cs, k) == IF k = 0 THEN 0 ELSE cs[k].first + cs[k].length

(* The codes lie one behind the other and end where the encoder writes.    *)
Chained ==
  /\ \A k \in 1 .. Len(codes) : codes[k].first = End(codes, k - 1)
  /\ \A k \in 0 .. Len(codes) : End(codes, k) <= End(codes, Len(codes))
  /\ End(codes, Len(codes)) = Bits
  /\ Bits <= 11 * Len(codes)

(* c codes have been handled, at most five of 11 bits since the last whole *)
(* bytes were let go; all five only if the last code is one of them.       *)
Round(c, bits, last) ==
  \E s \in 0 .. c :
    /\ c \in 5 * s .. 5 * s + 5
    /\ bits <= 7 + 11 * (c - 5 * s)
    /\ c = 5 * s + 5 => last

WriterInv ==
  /\ Len(codes) <= Symbols
  /\ room <= BufferSize
  /\ phase = "put" => Round(Len(codes), fill, Len(codes) = Symbols)
  /\ phase = "store" => /\ Round(Len(codes), fill, TRUE)
                        /\ Len(codes) < Symbols /\ Len(codes) % 5 = 0 /\ Len(codes) > 0
  /\ phase \in {"put", "store", "open"} => taken = 0

(* The window starts before the stream, and then holds all that is left of *)
(* it, or at most five codes have been read since the last refill.         *)
ReaderInv ==
  phase \in {"open", "read", "refill"} =>
    /\ Len(codes) = Symbols
    /\ Bits <= 8 * size
    /\ phase # "open" =>
         /\ 8 * (size - 8 - start) + used = End(codes, taken)
         /\ start < 0 \/ Round(taken, used, phase = "read" => taken = Symbols)
    /\ phase = "refill" => taken % 5 = 0 /\ taken > 0

CodesInv ==
  /\ StreamTypeOK
  /\ Chained
  /\ WriterInv
  /\ ReaderInv
  /\ phase # "corrupt"

-----------------------------------------------------------------------------
(* The size of the buffer, and when the encoder stores and the decoder     *)
(* refills, in symbols of this stream.                                     *)
LEMMA StreamSizes ==
  ASSUME shape \in Shapes
  PROVE  /\ Symbols \in Nat \ {0}
         /\ BufferSize \in Nat /\ 8 * BufferSize >= 11 * Symbols + 128
         /\ \A k \in Nat : StoresAfter(k) <=> k % 5 = 0 /\ k < Symbols
         /\ \A k \in Nat : RefillsAfter(k) => k % 5 = 0
         /\ \A k \in Nat : ~RefillsAfter(k) /\ k % 5 = 0 => k >= Symbols
<1>1. /\ shape.symbols \in Nat /\ shape.lane \in 0 .. 5 /\ shape.lane < shape.symbols
  BY HuffmanStreamAssumption
<1> DEFINE N == shape.symbols
           l == shape.lane
           q == N \div 30
<1>2. N \in Nat /\ l \in 0 .. 5 /\ l < N
  BY <1>1
<1>3. Symbols = (N - 1 - l) \div 6 + 1
  BY DEF Symbols
<1>4. RefillsAfter(0) = RefillsAfter(0) /\ \A k \in Nat :
        /\ StoresAfter(k) <=> k % 5 = 0 /\ l + 6 * (k - 5) < N - 30
        /\ RefillsAfter(k) <=> k % 5 = 0 /\ 6 * k <= 30 * q
  BY DEF StoresAfter, RefillsAfter
<1> HIDE DEF N, l
<1>5. /\ Symbols \in Nat \ {0}
      /\ 6 * (Symbols - 1) + l < N /\ N <= 6 * Symbols + l
  BY <1>2, <1>3
<1>6. BufferSize \in Nat /\ 8 * BufferSize >= 11 * Symbols + 128
  BY <1>5 DEF BufferSize
<1>7. \A k \in Nat : StoresAfter(k) <=> k % 5 = 0 /\ k < Symbols
  BY <1>2, <1>4, <1>5
<1>8. q \in Nat /\ N < 30 * q + 30
  BY <1>2
<1>9. ASSUME NEW k \in Nat, ~RefillsAfter(k), k % 5 = 0
      PROVE  k >= Symbols
  <2> HIDE DEF q
  <2>1. k > 5 * q
    BY <1>4, <1>8, <1>9
  <2>2. k >= 5 * q + 5
    <3>1. PICK m \in Nat : k = 5 * m
      <4>1. k \div 5 \in Nat /\ k = 5 * (k \div 5)
        BY <1>9
      <4> QED
        BY <4>1
    <3> QED
      BY <2>1, <3>1, <1>8
  <2> QED
    BY <2>2, <1>2, <1>5, <1>8
<1> QED
  BY <1>4, <1>5, <1>6, <1>7, <1>9

(* While codes are written, a store has room for eight bytes: the buffer   *)
(* has 16 bytes more than the longest codes need.                          *)
LEMMA RoomLeft ==
  ASSUME StreamTypeOK, Chained, Len(codes) <= Symbols, room <= BufferSize
  PROVE  room >= 8
<1>1. /\ BufferSize \in Nat /\ 8 * BufferSize >= 11 * Symbols + 128 /\ Symbols \in Nat
  BY StreamSizes DEF StreamTypeOK
<1>2. Bits <= 11 * Len(codes) /\ room \in Nat /\ fill \in 0 .. 64 /\ Len(codes) \in Nat
  BY DEF StreamTypeOK, Chained
<1>3. 8 * (BufferSize - room) <= 11 * Symbols
  BY <1>1, <1>2 DEF Bits
<1> QED
  BY <1>1, <1>2, <1>3

(* The parts of a code, and its end.                                       *)
LEMMA CodeParts ==
  ASSUME NEW cs \in Seq([first : Nat, length : 1 .. 11])
  PROVE  /\ \A k \in 1 .. Len(cs) : cs[k].first \in Nat /\ cs[k].length \in 1 .. 11
         /\ \A k \in 0 .. Len(cs) : End(cs, k) \in Nat
<1>1. ASSUME NEW k \in 1 .. Len(cs)
      PROVE  cs[k].first \in Nat /\ cs[k].length \in 1 .. 11
  <2> DEFINE C == [first : Nat, length : 1 .. 11]
  <2>1. cs[k] \in C
    <3> HIDE DEF C
    <3>1. cs \in Seq(C)
      BY DEF C
    <3> QED
      BY <3>1, ElementOfSeq
  <2> QED
    BY <2>1
<1>2. ASSUME NEW k \in 0 .. Len(cs)
      PROVE  End(cs, k) \in Nat
  <2>1. CASE k = 0
    BY <2>1 DEF End
  <2>2. CASE k # 0
    <3>1. k \in 1 .. Len(cs)
      BY <2>2
    <3>2. cs[k].first \in Nat /\ cs[k].length \in Nat
      <4>1. cs[k].first \in Nat /\ cs[k].length \in 1 .. 11
        BY <3>1, <1>1, Zenon
      <4> QED
        BY SMTT(60), <4>1
    <3>3. cs[k].first + cs[k].length \in Nat
      BY SMTT(60), <3>2
    <3> QED
      BY <2>2, <3>3 DEF End
  <2> QED
    BY <2>1, <2>2
<1> QED
  BY <1>1, <1>2

(* A code that is put down is chained to those before it.                  *)
LEMMA ChainGrows ==
  ASSUME StreamTypeOK, Chained, room <= BufferSize, NEW length \in 1 .. 11,
         codes' = Append(codes, [first  |-> 8 * (BufferSize - room) + fill,
                                 length |-> length]),
         fill' = fill + length, UNCHANGED <<shape, room>>
  PROVE  /\ codes' \in Seq([first : Nat, length : 1 .. 11])
         /\ Len(codes') = Len(codes) + 1
         /\ Chained'
<1> DEFINE code == [first |-> Bits, length |-> length]
           C    == [first : Nat, length : 1 .. 11]
<1>1. /\ codes \in Seq(C) /\ fill \in 0 .. 64 /\ room \in Nat /\ BufferSize \in Nat
      /\ Bits \in Nat
  <2>1. codes \in Seq(C) /\ fill \in 0 .. 64 /\ room \in Nat
    BY DEF StreamTypeOK
  <2>2. BufferSize \in Nat
    BY StreamSizes DEF StreamTypeOK
  <2>3. Bits \in Nat
    BY <2>1, <2>2 DEF Bits
  <2> QED
    BY <2>1, <2>2, <2>3
<1>2. code \in C /\ codes' = Append(codes, code)
  BY <1>1 DEF Bits
<1>3. /\ codes' \in Seq(C) /\ Len(codes') = Len(codes) + 1
      /\ \A k \in 1 .. Len(codes) : codes'[k] = codes[k]
      /\ codes'[Len(codes) + 1] = code
  <2> HIDE DEF C, code
  <2> QED
    BY SMTT(60), <1>1, <1>2, AppendProperties
<1>4. Len(codes) \in Nat
  BY <1>1, LenProperties
<1>5. Bits' = Bits + length
  <2>1. BufferSize' = BufferSize
    BY DEF BufferSize, Symbols
  <2> QED
    BY <1>1, <2>1 DEF Bits
<1> HIDE DEF code
<1>6. code.first = Bits /\ code.length = length
  BY DEF code
<1>7. ASSUME NEW k \in 0 .. Len(codes)
      PROVE  End(codes', k) = End(codes, k)
  BY <1>3, <1>4 DEF End
<1>8. End(codes', Len(codes) + 1) = Bits + length
  BY <1>3, <1>4, <1>6 DEF End
<1>9. /\ \A k \in 1 .. Len(codes) : codes[k].first = End(codes, k - 1)
      /\ \A k \in 0 .. Len(codes) : End(codes, k) <= End(codes, Len(codes))
      /\ End(codes, Len(codes)) = Bits
      /\ Bits <= 11 * Len(codes)
  BY DEF Chained
<1>10. \A k \in 0 .. Len(codes) : End(codes, k) \in Nat
  BY <1>1, CodeParts
<1>11. ASSUME NEW k \in 1 .. Len(codes')
       PROVE  codes'[k].first = End(codes', k - 1)
  <2>1. CASE k \in 1 .. Len(codes)
    <3>1. k - 1 \in 0 .. Len(codes)
      BY <2>1, <1>4
    <3>2. End(codes', k - 1) = End(codes, k - 1)
      BY <3>1, <1>7
    <3> QED
      BY <3>2, <2>1, <1>3, <1>9
  <2>2. CASE k = Len(codes) + 1
    <3>1. k - 1 = Len(codes) /\ Len(codes) \in 0 .. Len(codes)
      BY <2>2, <1>4
    <3>2. End(codes', Len(codes)) = End(codes, Len(codes))
      BY <3>1, <1>7
    <3>3. codes'[k].first = Bits
      BY <2>2, <1>3, <1>6
    <3> QED
      BY <3>1, <3>2, <3>3, <1>9
  <2> QED
    BY <2>1, <2>2, <1>3, <1>4
<1>12. ASSUME NEW k \in 0 .. Len(codes')
       PROVE  End(codes', k) <= Bits + length
  <2>1. CASE k \in 0 .. Len(codes)
    BY <2>1, <1>1, <1>7, <1>9, <1>10
  <2>2. CASE k = Len(codes) + 1
    BY <2>2, <1>8, <1>1
  <2> QED
    BY <2>1, <2>2, <1>3, <1>4
<1>13. Bits' <= 11 * Len(codes')
  BY <1>1, <1>3, <1>4, <1>5, <1>9
<1> QED
  BY <1>3, <1>5, <1>8, <1>11, <1>12, <1>13 DEF Chained

(* What is chained stays so while neither the codes nor the bits change.   *)
LEMMA ChainStays ==
  ASSUME Chained, UNCHANGED <<shape, codes>>, Bits' = Bits
  PROVE  Chained'
BY DEF Chained

-----------------------------------------------------------------------------
(* CodesInv holds at first. *)
LEMMA InitCodesInv == StreamInit => CodesInv
<1> SUFFICES ASSUME StreamInit
             PROVE  CodesInv
  OBVIOUS
<1>1. /\ shape \in Shapes /\ codes = <<>> /\ room = BufferSize /\ fill = 0 /\ size = 0
      /\ start = 0 /\ used = 0 /\ taken = 0 /\ phase = "put"
  BY DEF StreamInit
<1>2. BufferSize \in Nat /\ Symbols \in Nat \ {0}
  BY <1>1, StreamSizes
<1>3. Len(codes) = 0 /\ codes \in Seq([first : Nat, length : 1 .. 11])
  BY <1>1
<1>4. StreamTypeOK
  BY <1>1, <1>2, <1>3 DEF StreamTypeOK
<1>5. Bits = 0
  BY <1>1, <1>2 DEF Bits
<1>6. End(codes, 0) = 0
  BY DEF End
<1>7. Chained
  BY <1>3, <1>5, <1>6 DEF Chained
<1>8. Round(0, 0, 0 = Symbols)
  BY <1>2 DEF Round
<1>9. WriterInv
  BY <1>1, <1>2, <1>3, <1>8 DEF WriterInv
<1>10. ReaderInv
  BY <1>1 DEF ReaderInv
<1> QED
  BY <1>1, <1>4, <1>7, <1>9, <1>10 DEF CodesInv

(* PutCode: the sixth code never comes before a store.                     *)
LEMMA PutCodeKeeps ==
  ASSUME CodesInv, NEW length \in CodeLengths, PutCode(length)
  PROVE  CodesInv'
<1>1. /\ phase = "put" /\ Len(codes) < Symbols
      /\ codes' = Append(codes, [first  |-> 8 * (BufferSize - room) + fill,
                                 length |-> length])
      /\ fill' = fill + length
      /\ phase' = IF StoresAfter(Len(codes) + 1) THEN "store" ELSE "put"
      /\ UNCHANGED <<shape, room, size, start, used, taken>>
  BY DEF PutCode, streamReaderVars
<1>2. length \in 1 .. 11
  BY HuffmanStreamAssumption
<1>3. /\ StreamTypeOK /\ Chained /\ room <= BufferSize
      /\ Round(Len(codes), fill, Len(codes) = Symbols) /\ taken = 0
  BY <1>1 DEF CodesInv, WriterInv
<1>4. /\ codes' \in Seq([first : Nat, length : 1 .. 11])
      /\ Len(codes') = Len(codes) + 1 /\ Chained'
  BY <1>1, <1>2, <1>3, ChainGrows
<1>5. /\ BufferSize' = BufferSize /\ Symbols' = Symbols
  BY <1>1 DEF BufferSize, Symbols
<1>6. /\ Symbols \in Nat /\ BufferSize \in Nat /\ Len(codes) \in Nat
      /\ StoresAfter(Len(codes) + 1)
           <=> (Len(codes) + 1) % 5 = 0 /\ Len(codes) + 1 < Symbols
  <2>1. codes \in Seq([first : Nat, length : 1 .. 11]) /\ shape \in Shapes
    BY <1>3 DEF StreamTypeOK
  <2>2. Len(codes) \in Nat /\ Len(codes) + 1 \in Nat
    BY <2>1, LenProperties
  <2> QED
    BY <2>1, <2>2, StreamSizes
<1>7. PICK s \in 0 .. Len(codes) :
        /\ Len(codes) \in 5 * s .. 5 * s + 5
        /\ fill <= 7 + 11 * (Len(codes) - 5 * s)
        /\ Len(codes) = 5 * s + 5 => Len(codes) = Symbols
  BY <1>3 DEF Round
<1>8. fill \in 0 .. 64 /\ fill \in Int
  BY <1>3 DEF StreamTypeOK
<1>9. /\ s \in 0 .. Len(codes) + 1
      /\ Len(codes) + 1 \in 5 * s .. 5 * s + 5
      /\ fill' <= 7 + 11 * (Len(codes) + 1 - 5 * s) /\ fill' \in 0 .. 62
  BY SMTT(60), <1>1, <1>2, <1>6, <1>7, <1>8
<1>10. CASE StoresAfter(Len(codes) + 1)
  <2>1. Round(Len(codes) + 1, fill', TRUE)
    BY <1>9 DEF Round
  <2>2. phase' = "store"
    BY <1>1, <1>10
  <2>3. WriterInv'
    <3>1. /\ Len(codes') < Symbols' /\ Len(codes') % 5 = 0 /\ Len(codes') > 0
          /\ Len(codes') <= Symbols' /\ room' <= BufferSize' /\ taken' = 0
      BY <1>1, <1>3, <1>4, <1>5, <1>6, <1>10
    <3>2. Round(Len(codes'), fill', TRUE)
      BY <2>1, <1>4
    <3> QED
      BY <2>2, <3>1, <3>2 DEF WriterInv
  <2>4. ReaderInv'
    BY <2>2 DEF ReaderInv
  <2>5. StreamTypeOK'
    BY SMTT(60), <2>2, <1>1, <1>3, <1>4, <1>6, <1>9 DEF StreamTypeOK
  <2> QED
    BY <2>2, <2>3, <2>4, <2>5, <1>4 DEF CodesInv
<1>11. CASE ~StoresAfter(Len(codes) + 1)
  <2>1. Len(codes) + 1 = 5 * s + 5 => Len(codes) + 1 = Symbols
    <3>1. SUFFICES ASSUME Len(codes) + 1 = 5 * s + 5
                   PROVE  Len(codes) + 1 = Symbols
      OBVIOUS
    <3>2. (Len(codes) + 1) % 5 = 0
      BY <3>1, <1>7
    <3>3. ~(Len(codes) + 1 < Symbols)
      BY <3>2, <1>6, <1>11
    <3> QED
      BY <3>3, <1>1, <1>6
  <2>2. Round(Len(codes) + 1, fill', Len(codes) + 1 = Symbols)
    BY <2>1, <1>9 DEF Round
  <2>3. phase' = "put"
    BY <1>1, <1>11
  <2>4. WriterInv'
    BY <2>2, <2>3, <1>1, <1>3, <1>4, <1>5, <1>6 DEF WriterInv
  <2>5. ReaderInv'
    BY <2>3 DEF ReaderInv
  <2>6. StreamTypeOK'
    BY <2>3, <1>1, <1>3, <1>4, <1>6, <1>9 DEF StreamTypeOK
  <2> QED
    BY <2>3, <2>4, <2>5, <2>6, <1>4 DEF CodesInv
<1> QED
  BY <1>10, <1>11

(* The whole bytes of the word leave it, and no bit moves.                 *)
LEMMA BytesLeave ==
  ASSUME StreamTypeOK, Chained, Len(codes) <= Symbols, room <= BufferSize,
         room' = room - fill \div 8, fill' = fill % 8, UNCHANGED shape
  PROVE  /\ room' \in Nat /\ fill' \in 0 .. 7 /\ room' <= BufferSize' /\ Bits' = Bits
         /\ BufferSize' = BufferSize /\ Symbols' = Symbols
<1>1. BufferSize' = BufferSize /\ Symbols' = Symbols
  BY DEF BufferSize, Symbols
<1>2. fill \in 0 .. 64 /\ room \in Nat /\ room >= 8 /\ BufferSize \in Nat
  BY RoomLeft, StreamSizes DEF StreamTypeOK
<1>3. fill = 8 * (fill \div 8) + (fill % 8) /\ fill \div 8 \in 0 .. 8 /\ fill % 8 \in 0 .. 7
  BY <1>2
<1>4. Bits' = 8 * (BufferSize - room') + fill'
  BY <1>1 DEF Bits
<1>5. Bits' = Bits
  BY <1>2, <1>3, <1>4 DEF Bits
<1> QED
  BY <1>1, <1>2, <1>3, <1>5

(* StoreRound: five codes are let go at once.                              *)
LEMMA StoreRoundKeeps ==
  ASSUME CodesInv, StoreRound
  PROVE  CodesInv'
<1>1. /\ phase = "store" /\ phase' = "put"
      /\ room' = room - fill \div 8 /\ fill' = fill % 8
      /\ UNCHANGED <<shape, codes, size, start, used, taken>>
  BY DEF StoreRound, streamReaderVars
<1>2. /\ StreamTypeOK /\ Chained /\ room <= BufferSize /\ taken = 0
      /\ Len(codes) < Symbols /\ Len(codes) % 5 = 0 /\ Len(codes) > 0
  BY <1>1 DEF CodesInv, WriterInv
<1>3. Symbols \in Nat /\ Len(codes) \in Nat
  <2>1. codes \in Seq([first : Nat, length : 1 .. 11]) /\ shape \in Shapes
    BY <1>2 DEF StreamTypeOK
  <2> QED
    BY <2>1, StreamSizes, LenProperties
<1>4. /\ room' \in Nat /\ fill' \in 0 .. 7 /\ room' <= BufferSize' /\ Bits' = Bits
      /\ Symbols' = Symbols
  BY <1>1, <1>2, <1>3, BytesLeave
<1>5. Round(Len(codes), fill', Len(codes) = Symbols)
  <2> DEFINE s == Len(codes) \div 5
  <2>1. s \in 0 .. Len(codes) /\ Len(codes) = 5 * s
    BY <1>2, <1>3
  <2>2. /\ Len(codes) \in 5 * s .. 5 * s + 5
        /\ fill' <= 7 + 11 * (Len(codes) - 5 * s)
        /\ Len(codes) # 5 * s + 5
    BY <2>1, <1>4
  <2> QED
    BY <2>1, <2>2 DEF Round
<1>6. Chained'
  BY <1>1, <1>2, <1>4, ChainStays
<1>7. WriterInv'
  BY <1>1, <1>2, <1>3, <1>4, <1>5 DEF WriterInv
<1>8. ReaderInv'
  BY <1>1 DEF ReaderInv
<1>9. StreamTypeOK'
  BY <1>1, <1>2, <1>4 DEF StreamTypeOK
<1> QED
  BY <1>1, <1>6, <1>7, <1>8, <1>9 DEF CodesInv

(* The bytes that whole bytes and up to seven bits more need.              *)
LEMMA BytesFor ==
  ASSUME NEW all \in Int, NEW free \in Int, free <= all, NEW rest \in 0 .. 7,
         NEW bits, bits = 8 * (all - free) + rest,
         NEW taking, taking = all - free + (IF rest > 0 THEN 1 ELSE 0)
  PROVE  taking \in Nat /\ bits <= 8 * taking
<1>1. CASE rest > 0
  BY <1>1
<1>2. CASE rest = 0
  BY <1>2
<1> QED
  BY <1>1, <1>2

(* StoreRest: there is room for eight bytes, and the stream gets the bytes *)
(* that its bits need.                                                     *)
LEMMA StoreRestKeeps ==
  ASSUME CodesInv, StoreRest
  PROVE  CodesInv'
<1>1. /\ phase = "put" /\ Len(codes) = Symbols /\ phase' = "open"
      /\ room' = IF room >= 8 THEN room - fill \div 8 ELSE room
      /\ fill' = IF room >= 8 THEN fill % 8 ELSE fill
      /\ size' = BufferSize - room' + (IF fill' > 0 THEN 1 ELSE 0)
      /\ UNCHANGED <<shape, codes, start, used, taken>>
  BY DEF StoreRest, streamReaderVars
<1>2. StreamTypeOK /\ Chained /\ Len(codes) <= Symbols /\ room <= BufferSize /\ taken = 0
  BY <1>1 DEF CodesInv, WriterInv
<1>3. room >= 8
  BY <1>2, RoomLeft
<1>4. /\ room' \in Nat /\ fill' \in 0 .. 7 /\ room' <= BufferSize' /\ Bits' = Bits
      /\ BufferSize' = BufferSize /\ Symbols' = Symbols
  <2>1. room' = room - fill \div 8 /\ fill' = fill % 8 /\ UNCHANGED shape
    BY <1>1, <1>3
  <2> QED
    BY <2>1, <1>2, BytesLeave
<1>5. BufferSize \in Nat /\ Symbols \in Nat
  BY <1>2, StreamSizes DEF StreamTypeOK
<1>6. size' \in Nat /\ Bits' <= 8 * size'
  <2>1. Bits' = 8 * (BufferSize - room') + fill'
    BY <1>4 DEF Bits
  <2>2. /\ room' \in Int /\ BufferSize \in Int /\ room' <= BufferSize /\ fill' \in 0 .. 7
    BY <1>4, <1>5
  <2> QED
    BY ZenonT(60), <2>1, <2>2, <1>1, BytesFor
<1>7. Chained'
  BY <1>1, <1>2, <1>4, ChainStays
<1>8. WriterInv'
  BY <1>1, <1>2, <1>4 DEF WriterInv
<1>9. ReaderInv'
  BY <1>1, <1>4, <1>6 DEF ReaderInv
<1>10. StreamTypeOK'
  BY <1>1, <1>2, <1>4, <1>6 DEF StreamTypeOK
<1> QED
  BY <1>1, <1>7, <1>8, <1>9, <1>10 DEF CodesInv

(* What the reading steps leave alone.                                     *)
LEMMA WriterStays ==
  ASSUME CodesInv, UNCHANGED <<shape, codes, room, fill, size>>, phase' \in {"read", "refill"}
  PROVE  /\ Chained' /\ WriterInv' /\ Bits' = Bits /\ Symbols' = Symbols
         /\ shape' \in Shapes /\ codes' \in Seq([first : Nat, length : 1 .. 11])
         /\ room' \in Nat /\ fill' \in 0 .. 64 /\ size' \in Nat
<1>1. Symbols' = Symbols /\ BufferSize' = BufferSize
  BY DEF Symbols, BufferSize
<1>2. Bits' = Bits
  BY <1>1 DEF Bits
<1>3. Chained'
  BY <1>2, ChainStays DEF CodesInv
<1>4. WriterInv'
  BY <1>1 DEF CodesInv, WriterInv
<1> QED
  BY <1>1, <1>2, <1>3, <1>4 DEF CodesInv, StreamTypeOK

(* What is known of the constants of a stream and its lead.                *)
LEMMA LeadTyped ==
  ASSUME CodesInv
  PROVE  /\ shape.lead \in Nat /\ Before \in Nat /\ Before >= 8
         /\ Symbols \in Nat \ {0} /\ Len(codes) \in Nat
         /\ size \in Nat /\ start \in Int /\ used \in 0 .. 63
         /\ Bits \in Int
<1>1. StreamTypeOK
  BY DEF CodesInv
<1>2. shape.lead \in Nat
  BY <1>1, HuffmanStreamAssumption DEF StreamTypeOK
<1>3. codes \in Seq([first : Nat, length : 1 .. 11])
  BY <1>1 DEF StreamTypeOK
<1>4. Len(codes) \in Nat
  BY <1>3, LenProperties
<1>5. Symbols \in Nat \ {0} /\ BufferSize \in Nat
  BY <1>1, StreamSizes DEF StreamTypeOK
<1>6. size \in Nat /\ start \in Int /\ used \in 0 .. 63 /\ room \in Nat /\ fill \in 0 .. 64
  BY <1>1 DEF StreamTypeOK
<1>7. Bits \in Int
  BY <1>5, <1>6 DEF Bits
<1> QED
  BY <1>2, <1>4, <1>5, <1>6, <1>7, HuffmanStreamAssumption

(* OpenStream: the first window begins at most eight bytes before the      *)
(* stream, where the headers are.                                          *)
LEMMA OpenStreamKeeps ==
  ASSUME CodesInv, OpenStream
  PROVE  CodesInv'
<1>1. /\ phase = "open" /\ start' = size - 8 /\ used' = 0
      /\ phase' = IF Before + shape.lead + start' < 0 THEN "corrupt" ELSE "read"
      /\ UNCHANGED <<shape, codes, room, fill, size, taken>>
  BY DEF OpenStream, streamWriterVars
<1>2. /\ shape.lead \in Nat /\ Before \in Nat /\ Before >= 8
      /\ Symbols \in Nat \ {0} /\ Len(codes) \in Nat
      /\ size \in Nat
  BY LeadTyped
<1>3. phase' = "read" /\ start' \in Int
  BY <1>1, <1>2
<1>4. taken = 0 /\ Len(codes) = Symbols /\ Bits <= 8 * size
  BY <1>1 DEF CodesInv, WriterInv, ReaderInv
<1>5. /\ Chained' /\ WriterInv' /\ Bits' = Bits /\ Symbols' = Symbols
      /\ shape' \in Shapes /\ codes' \in Seq([first : Nat, length : 1 .. 11])
      /\ room' \in Nat /\ fill' \in 0 .. 64 /\ size' \in Nat
  BY <1>1, <1>3, WriterStays
<1>6. 8 * (size' - 8 - start') + used' = End(codes', taken')
  BY <1>1, <1>2, <1>4 DEF End
<1>7. Round(taken', used', phase' = "read" => taken' = Symbols')
  BY <1>1, <1>4 DEF Round
<1>8. ReaderInv'
  BY <1>1, <1>3, <1>4, <1>5, <1>6, <1>7 DEF ReaderInv
<1>9. StreamTypeOK'
  BY <1>1, <1>2, <1>3, <1>4, <1>5 DEF StreamTypeOK
<1> QED
  BY <1>3, <1>5, <1>8, <1>9 DEF CodesInv

(* The next code lies in the window, above the marker.                     *)
LEMMA CodeInWindow ==
  ASSUME CodesInv, phase = "read", taken < Symbols
  PROVE  /\ taken \in Nat /\ taken + 1 \in 1 .. Len(codes) /\ Len(codes) = Symbols
         /\ codes[taken + 1].length \in 1 .. 11
         /\ End(codes, taken + 1) = End(codes, taken) + codes[taken + 1].length
         /\ 8 * (size - 8 - start) + used = End(codes, taken)
         /\ codes[taken + 1].first = End(codes, taken)
         /\ used + codes[taken + 1].length <= 63
         /\ start < 0 \/ Round(taken + 1, used + codes[taken + 1].length, TRUE)
<1>1. /\ Len(codes) = Symbols /\ Bits <= 8 * size
      /\ 8 * (size - 8 - start) + used = End(codes, taken)
      /\ start < 0 \/ Round(taken, used, phase = "read" => taken = Symbols)
  BY DEF CodesInv, ReaderInv
<1>2. /\ Symbols \in Nat \ {0} /\ Len(codes) \in Nat /\ Bits \in Int
      /\ size \in Nat /\ start \in Int /\ used \in 0 .. 63
  BY LeadTyped
<1>3. taken \in Nat /\ taken + 1 \in 1 .. Len(codes) /\ taken \in 0 .. Len(codes)
  BY <1>1, <1>2 DEF CodesInv, StreamTypeOK
<1>4. codes \in Seq([first : Nat, length : 1 .. 11])
  BY DEF CodesInv, StreamTypeOK
<1>5. /\ codes[taken + 1].length \in 1 .. 11 /\ codes[taken + 1].first \in Nat
  BY <1>3, <1>4, CodeParts
<1>6. /\ codes[taken + 1].first = End(codes, taken)
      /\ End(codes, taken + 1) <= Bits
  <2>1. /\ codes[taken + 1].first = End(codes, (taken + 1) - 1)
        /\ taken + 1 \in 0 .. Len(codes)
        /\ End(codes, taken + 1) <= End(codes, Len(codes)) /\ End(codes, Len(codes)) = Bits
    <3>1. taken + 1 \in 0 .. Len(codes)
      BY <1>3
    <3> QED
      BY <3>1, <1>3 DEF CodesInv, Chained
  <2>2. (taken + 1) - 1 = taken
    BY <1>3
  <2> QED
    BY <2>1, <2>2
<1> DEFINE len == codes[taken + 1].length
<1>7. End(codes, taken + 1) = End(codes, taken) + len
  <2>1. End(codes, taken + 1) = codes[taken + 1].first + len
    BY <1>3 DEF End
  <2> QED
    BY <2>1, <1>6
<1>8. len \in 1 .. 11
  BY <1>5
<1> HIDE DEF len
<1>9. CASE start < 0
  <2>1. End(codes, taken) + len <= 8 * size
    <3>1. End(codes, taken) \in Int
      BY <1>5, <1>6
    <3>2. End(codes, taken) + len <= Bits
      BY <1>6, <1>7
    <3>3. Bits <= 8 * size
      BY <1>1
    <3> QED
      BY <3>1, <3>2, <3>3, <1>2, <1>8
  <2>2. used + len <= 63
    BY <2>1, <1>1, <1>2, <1>8, <1>9
  <2> QED
    BY <2>2, <1>9, <1>1, <1>3, <1>5, <1>6, <1>7 DEF len
<1>10. CASE ~(start < 0)
  <2>1. PICK s \in 0 .. taken :
          /\ taken \in 5 * s .. 5 * s + 5
          /\ used <= 7 + 11 * (taken - 5 * s)
          /\ taken = 5 * s + 5 => (phase = "read" => taken = Symbols)
    BY <1>1, <1>10 DEF Round
  <2>2. taken # 5 * s + 5
    BY <2>1, <1>2
  <2>3. /\ s \in 0 .. taken + 1 /\ taken + 1 \in 5 * s .. 5 * s + 5
        /\ used + len <= 7 + 11 * (taken + 1 - 5 * s) /\ used + len <= 63
    BY <2>1, <2>2, <1>2, <1>3, <1>8
  <2>4. Round(taken + 1, used + len, TRUE)
    <3> DEFINE c == taken + 1
               b == used + len
    <3>1. s \in 0 .. c /\ c \in 5 * s .. 5 * s + 5 /\ b <= 7 + 11 * (c - 5 * s)
      BY <2>3, <1>2, <1>3, <1>8
    <3> HIDE DEF c, b
    <3>2. Round(c, b, TRUE)
      BY <3>1 DEF Round
    <3> QED
      BY <3>2 DEF c, b
  <2> QED
    BY <2>3, <2>4, <1>1, <1>3, <1>5, <1>6, <1>7 DEF len
<1> QED
  BY <1>9, <1>10

(* ReadCode: at most five codes of a round fit the window.                 *)
LEMMA ReadCodeKeeps ==
  ASSUME CodesInv, ReadCode
  PROVE  CodesInv'
<1>1. /\ phase = "read" /\ taken < Symbols
      /\ used' = used + codes[taken + 1].length /\ taken' = taken + 1
      /\ phase' = IF RefillsAfter(taken + 1) THEN "refill" ELSE "read"
      /\ UNCHANGED <<shape, codes, room, fill, size, start>>
  BY DEF ReadCode, streamWriterVars
<1>2. /\ taken \in Nat /\ taken + 1 \in 1 .. Len(codes) /\ Len(codes) = Symbols
      /\ codes[taken + 1].length \in 1 .. 11
      /\ End(codes, taken + 1) = End(codes, taken) + codes[taken + 1].length
      /\ 8 * (size - 8 - start) + used = End(codes, taken)
      /\ used + codes[taken + 1].length <= 63
      /\ start < 0 \/ Round(taken + 1, used + codes[taken + 1].length, TRUE)
  BY <1>1, CodeInWindow
<1>3. /\ Symbols \in Nat \ {0} /\ Len(codes) \in Nat /\ size \in Nat /\ start \in Int
      /\ used \in 0 .. 63
  BY LeadTyped
<1>4. phase' \in {"read", "refill"}
  BY <1>1
<1>5. /\ Chained' /\ WriterInv' /\ Bits' = Bits /\ Symbols' = Symbols
      /\ shape' \in Shapes /\ codes' \in Seq([first : Nat, length : 1 .. 11])
      /\ room' \in Nat /\ fill' \in 0 .. 64 /\ size' \in Nat
  BY <1>1, <1>4, WriterStays
<1>6. Bits <= 8 * size
  BY <1>1 DEF CodesInv, ReaderInv
<1>7. 8 * (size' - 8 - start') + used' = End(codes', taken')
  <2>1. 8 * (size - 8 - start) + (used + codes[taken + 1].length) = End(codes, taken + 1)
    <3> DEFINE len == codes[taken + 1].length
               gone == 8 * (size - 8 - start)
    <3>1. len \in Int /\ gone \in Int
      BY SMTT(60), <1>2, <1>3
    <3>2. End(codes, taken + 1) = (gone + used) + len
      BY <1>2
    <3> HIDE DEF len, gone
    <3>3. gone + (used + len) = End(codes, taken + 1)
      BY <3>1, <3>2, <1>3
    <3> QED
      BY <3>3 DEF len, gone
  <2> QED
    BY <2>1, <1>1
<1>8. /\ RefillsAfter(taken + 1) => (taken + 1) % 5 = 0
      /\ ~RefillsAfter(taken + 1) /\ (taken + 1) % 5 = 0 => taken + 1 >= Symbols
  <2>1. shape \in Shapes /\ taken + 1 \in Nat
    BY <1>2 DEF CodesInv, StreamTypeOK
  <2> QED
    BY <2>1, StreamSizes
<1>9. start' < 0 \/ Round(taken', used', phase' = "read" => taken' = Symbols')
  <2>1. CASE start < 0
    BY <2>1, <1>1
  <2>2. CASE ~(start < 0)
    <3>1. Round(taken', used', TRUE)
      BY <2>2, <1>1, <1>2
    <3>2. PICK s \in 0 .. taken' :
            taken' \in 5 * s .. 5 * s + 5 /\ used' <= 7 + 11 * (taken' - 5 * s)
      BY <3>1 DEF Round
    <3>3. ASSUME taken' = 5 * s + 5, phase' = "read"
          PROVE  taken' = Symbols'
      <4>1. ~RefillsAfter(taken + 1)
        BY <3>3, <1>1
      <4>2. (taken + 1) % 5 = 0
        <5>1. taken + 1 = 5 * s + 5 /\ s \in Nat
          BY <3>3, <1>1, <1>2
        <5> QED
          BY <5>1
      <4>3. taken + 1 >= Symbols
        BY <4>1, <4>2, <1>8
      <4> QED
        BY <4>3, <1>1, <1>2, <1>3, <1>5
    <3>4. taken' = 5 * s + 5 => (phase' = "read" => taken' = Symbols')
      BY <3>3
    <3> QED
      BY <3>2, <3>4, Zenon DEF Round
  <2> QED
    BY <2>1, <2>2
<1>10. phase' = "refill" => taken' % 5 = 0 /\ taken' > 0
  <2>1. ASSUME phase' = "refill" PROVE taken' % 5 = 0
    BY <2>1, <1>1, <1>8
  <2>2. taken' > 0
    BY <1>1, <1>2
  <2> QED
    BY <2>1, <2>2
<1>11. ReaderInv'
  <2>1. /\ Len(codes') = Symbols' /\ Bits' <= 8 * size' /\ phase' # "open"
    BY <1>1, <1>2, <1>5, <1>6
  <2> QED
    BY <2>1, <1>7, <1>9, <1>10, Zenon DEF ReaderInv
<1>12. StreamTypeOK'
  <2>1. used' \in 0 .. 63
    <3> DEFINE len == codes[taken + 1].length
    <3>1. len \in 1 .. 11 /\ used' = used + len /\ used + len <= 63
      BY <1>1, <1>2
    <3> HIDE DEF len
    <3> QED
      BY <3>1, <1>3
  <2>2. taken' \in 0 .. Len(codes') /\ start' \in Int
    BY <1>1, <1>2, <1>3
  <2> QED
    BY <2>1, <2>2, <1>4, <1>5 DEF StreamTypeOK
<1> QED
  BY <1>4, <1>5, <1>11, <1>12 DEF CodesInv

(* RefillWindow: the window moves to the next bits, never before the       *)
(* source, or holds the rest of the stream already.                        *)
LEMMA RefillWindowKeeps ==
  ASSUME CodesInv, RefillWindow
  PROVE  CodesInv'
<1>1. /\ phase = "refill"
      /\ UNCHANGED <<shape, codes, room, fill, size, taken>>
  BY DEF RefillWindow, streamWriterVars
<1>2. /\ shape.lead \in Nat /\ Before \in Nat /\ Before >= 8
      /\ Symbols \in Nat \ {0} /\ Len(codes) \in Nat
      /\ size \in Nat /\ start \in Int /\ used \in 0 .. 63 /\ Bits \in Int
  BY LeadTyped
<1>3. /\ Len(codes) = Symbols /\ Bits <= 8 * size
      /\ 8 * (size - 8 - start) + used = End(codes, taken)
      /\ start < 0 \/ Round(taken, used, phase = "read" => taken = Symbols)
      /\ taken % 5 = 0 /\ taken > 0
  BY <1>1 DEF CodesInv, ReaderInv
<1>4. taken \in Nat /\ taken \in 0 .. Len(codes)
  BY <1>2 DEF CodesInv, StreamTypeOK
<1>5. /\ used = 8 * (used \div 8) + (used % 8) /\ used \div 8 \in 0 .. 7
      /\ used % 8 \in 0 .. 7
  BY <1>2
<1>6. \/ /\ start' = start - used \div 8 /\ used' = used % 8
         /\ shape.lead + start >= 0
         /\ phase' = IF Before + shape.lead + start' < 0 THEN "corrupt" ELSE "read"
      \/ /\ UNCHANGED <<start, used>> /\ phase' = "read"
         /\ ~(shape.lead + start >= 0)
  BY DEF RefillWindow
<1>7. /\ phase' = "read" /\ start' \in Int /\ used' \in 0 .. 63
      /\ 8 * (size - 8 - start') + used' = 8 * (size - 8 - start) + used
      /\ start < 0 => start' < 0
      /\ start' < 0 \/ used' <= 7
  <2>1. CASE /\ start' = start - used \div 8 /\ used' = used % 8
             /\ shape.lead + start >= 0
             /\ phase' = IF Before + shape.lead + start' < 0 THEN "corrupt" ELSE "read"
    <3>1. start' \in Int /\ start' <= start /\ start' >= start - 7
      BY <2>1, <1>2, <1>5
    <3>2. ~(Before + shape.lead + start' < 0)
      BY <2>1, <3>1, <1>2
    <3> QED
      BY <2>1, <3>1, <3>2, <1>2, <1>5
  <2>2. CASE UNCHANGED <<start, used>> /\ phase' = "read" /\ ~(shape.lead + start >= 0)
    BY <2>2, <1>2
  <2> QED
    BY <2>1, <2>2, <1>6
<1>8. /\ Chained' /\ WriterInv' /\ Bits' = Bits /\ Symbols' = Symbols
      /\ shape' \in Shapes /\ codes' \in Seq([first : Nat, length : 1 .. 11])
      /\ room' \in Nat /\ fill' \in 0 .. 64 /\ size' \in Nat
  BY <1>1, <1>7, WriterStays
<1>9. start' < 0 \/ Round(taken', used', phase' = "read" => taken' = Symbols')
  <2>1. SUFFICES ASSUME ~(start' < 0)
                 PROVE  Round(taken', used', phase' = "read" => taken' = Symbols')
    OBVIOUS
  <2> DEFINE s == taken \div 5
  <2>2. /\ s \in 0 .. taken' /\ taken' \in 5 * s .. 5 * s + 5 /\ taken' # 5 * s + 5
        /\ used' <= 7 + 11 * (taken' - 5 * s)
    <3>1. s \in 0 .. taken /\ taken = 5 * s
      BY <1>3, <1>4
    <3>2. used' <= 7 /\ taken' = taken
      BY <2>1, <1>1, <1>7
    <3> HIDE DEF s
    <3> QED
      BY <3>1, <3>2, <1>4, <1>7
  <2> HIDE DEF s
  <2> QED
    BY <2>2, Zenon DEF Round
<1>10. ReaderInv'
  <2>1. /\ Len(codes') = Symbols' /\ Bits' <= 8 * size' /\ phase' = "read"
        /\ 8 * (size' - 8 - start') + used' = End(codes', taken')
    BY <1>1, <1>3, <1>7, <1>8
  <2> QED
    BY <2>1, <1>9 DEF ReaderInv
<1>11. StreamTypeOK'
  BY <1>1, <1>4, <1>7, <1>8 DEF StreamTypeOK
<1> QED
  BY <1>7, <1>8, <1>10, <1>11 DEF CodesInv

(* CodesInv holds in every state. *)
LEMMA StreamInductive == StreamSpec => []CodesInv
<1>1. ASSUME CodesInv, UNCHANGED streamVars
      PROVE  CodesInv'
  <2>1. UNCHANGED <<shape, codes, room, fill, size, start, used, taken, phase>>
    BY <1>1 DEF streamVars, streamWriterVars, streamReaderVars
  <2>2. Symbols' = Symbols /\ BufferSize' = BufferSize
    BY <2>1 DEF Symbols, BufferSize
  <2>3. Bits' = Bits
    BY <2>1, <2>2 DEF Bits
  <2>4. Chained'
    BY <1>1, <2>1, <2>3, ChainStays DEF CodesInv
  <2>5. StreamTypeOK' /\ WriterInv' /\ ReaderInv'
    BY <1>1, <2>1, <2>2, <2>3 DEF CodesInv, StreamTypeOK, WriterInv, ReaderInv
  <2> QED
    BY <1>1, <2>1, <2>4, <2>5 DEF CodesInv
<1>2. CodesInv /\ [StreamNext]_streamVars => CodesInv'
  BY <1>1, PutCodeKeeps, StoreRoundKeeps, StoreRestKeeps, OpenStreamKeeps, ReadCodeKeeps,
     RefillWindowKeeps DEF StreamNext
<1> QED
  BY <1>2, InitCodesInv, PTL DEF StreamSpec

-----------------------------------------------------------------------------
(* The word of the encoder, its buffer and the window of the decoder keep  *)
(* their widths (encodeHuffmanStream, decodeHuffmanSymbols).               *)
THEOREM StreamTypes == StreamSpec => []StreamTypeOK
<1>1. CodesInv => StreamTypeOK
  BY DEF CodesInv
<1> QED
  BY <1>1, StreamInductive, PTL

(* No code is pushed out of the 64-bit word before it is stored, and every *)
(* store of eight bytes lies in the buffer: at most five codes of 11 bits  *)
(* follow the seven bits that stay (encodeHuffmanStream).                  *)
THEOREM EveryStoreFits == StreamSpec => []StoresFit
<1>1. CodesInv => StoresFit
  <2> SUFFICES ASSUME CodesInv
               PROVE  StoresFit
    OBVIOUS
  <2>1. fill <= 64
    BY DEF CodesInv, StreamTypeOK
  <2>2. room >= 8
    BY RoomLeft DEF CodesInv, WriterInv
  <2> QED
    BY <2>1, <2>2 DEF StoresFit
<1> QED
  BY <1>1, StreamInductive, PTL

(* The decoder reads every code from where it was written, above the       *)
(* marker, and never looks before the source: after a full round the       *)
(* window has room for five codes, and where it is not refilled it holds   *)
(* the rest of the stream (decodeHuffmanSymbols, renormalizeHuffmanFast).  *)
THEOREM EveryCodeInPlace == StreamSpec => []CodesInPlace
<1>1. CodesInv => CodesInPlace
  <2> SUFFICES ASSUME CodesInv
               PROVE  CodesInPlace
    OBVIOUS
  <2>1. phase # "corrupt"
    BY DEF CodesInv
  <2>2. ASSUME phase = "read", taken < Symbols
        PROVE  /\ 8 * (size - 8 - start) + used = codes[taken + 1].first
               /\ used + codes[taken + 1].length <= 63
    BY <2>2, CodeInWindow
  <2> QED
    BY <2>1, <2>2 DEF CodesInPlace
<1> QED
  BY <1>1, StreamInductive, PTL

-----------------------------------------------------------------------------
(* The buffers.                                                            *)

(* The pools hold free buffers of the right capacity, each once. *)
PoolInv ==
  /\ pool \in [PoolCaps -> Seq(Slices)]
  /\ PoolDistinct

(* A slice that a state keeps for later belongs to that state alone, also  *)
(* while a block is compressed on the copy: when the block falls back, the *)
(* encoder returns to it.                                                  *)
HeldExclusive ==
  \A e \in Encoders, s \in Slots :
    held[e][s] # Nil =>
      /\ ~InPool(held[e][s].array)
      /\ \A f \in Encoders, q \in Places :
           Use(f, q).array = held[e][s].array => f = e /\ q = s
      /\ \A f \in Encoders, t \in Slots :
           held[f][t].array = held[e][s].array => f = e /\ t = s

(* A slot of the copy as the block needs it. *)
Ready(e, s) ==
  IF s \in needed[e] THEN next[e][s].cap >= Need[block[e]][s] ELSE next[e][s] = Nil

(* What each phase of a block has done with the copy and the state.        *)
Phases ==
  \A e \in Encoders :
    /\ ~Working(e) => next[e] = NoBuffers
    /\ pc[e] \notin {"write", "free"} => tmp[e] = NoOutputs
    /\ pc[e] = "fill" => \A s \in Slots : s < turn[e] => Ready(e, s)
    /\ pc[e] \in {"write", "free"} => \A s \in Slots : Ready(e, s)
    /\ pc[e] = "close" => \A s \in Slots : s < turn[e] => held[e][s] = Nil
    /\ pc[e] = "drop" => /\ Fallbacks
                         /\ \A s \in Slots : s < turn[e] => next[e][s] = Nil

(* When blocks do not grow, no buffer is ever too small. *)
LargeEnough ==
  \A e \in Encoders, s \in Slots :
    /\ held[e][s] # Nil => held[e][s].cap >= Need[block[e]][s]
    /\ pc[e] = "fill" /\ next[e][s] # Nil => next[e][s].cap >= Need[block[e]][s]

(* The inductive invariant. *)
IInv ==
  /\ TypeOK
  /\ PoolDistinct
  /\ ExclusiveUse
  /\ RoomForBlock
  /\ Phases
  /\ Fallbacks => HeldExclusive
  /\ ~Growing => LargeEnough

-----------------------------------------------------------------------------
(* The nil slice and the slices of arrays (make, cap). *)
LEMMA NilFacts ==
  /\ Nil.cap = 0
  /\ Nil.array = NoArray
  /\ \A b \in Slices :
       /\ b # Nil
       /\ b.array \in Arrays
       /\ b.array # NoArray
       /\ b.cap \in Nat /\ b.cap > 0
BY ScratchPoolAssumption DEF Slices, Nil

(* releaseByteBuffer keeps the pools in order when the buffer is not       *)
(* already in one, and adds no other array to them.                        *)
LEMMA ReleasePool ==
  ASSUME PoolInv, NEW b \in Slices \cup {Nil},
         b # Nil => ~InPool(b.array), Release(b)
  PROVE  /\ PoolInv'
         /\ \A a : InPool(a)' => InPool(a) \/ (b # Nil /\ a = b.array)
<1>1. CASE pool' = pool
  BY <1>1 DEF PoolInv, PoolDistinct, InPool
<1>2. CASE /\ b.cap \in PoolCaps
           /\ pool' = [pool EXCEPT ![b.cap] = Append(@, b)]
  <2>1. b \in Slices
    BY <1>2, NilFacts, ScratchPoolAssumption DEF Nil
  <2>2. /\ pool' \in [PoolCaps -> Seq(Slices)]
        /\ \A c \in PoolCaps \ {b.cap} : pool'[c] = pool[c]
        /\ pool'[b.cap] = Append(pool[b.cap], b)
    BY <1>2, <2>1 DEF PoolInv
  <2>3. ASSUME NEW c \in PoolCaps, NEW i \in 1 .. Len(pool'[c])
        PROVE  \/ i \in 1 .. Len(pool[c]) /\ pool'[c][i] = pool[c][i]
               \/ c = b.cap /\ i = Len(pool[c]) + 1 /\ pool'[c][i] = b
    <3>1. CASE c # b.cap
      BY <2>2, <3>1
    <3>2. CASE c = b.cap
      <4>1. pool[c] \in Seq(Slices)
        BY DEF PoolInv
      <4>2. /\ Len(pool'[c]) = Len(pool[c]) + 1
            /\ \A k \in 1 .. Len(pool[c]) : pool'[c][k] = pool[c][k]
            /\ pool'[c][Len(pool[c]) + 1] = b
        BY <2>1, <2>2, <3>2, <4>1, AppendProperties
      <4> QED
        BY SMTT(60), <3>2, <4>1, <4>2
    <3> QED
      BY <3>1, <3>2
  <2>4. ASSUME NEW c \in PoolCaps, NEW i \in 1 .. Len(pool[c])
        PROVE  pool[c][i].array # b.array
    BY <2>1, <2>4, NilFacts DEF InPool
  <2>5. PoolDistinct'
    <3> SUFFICES ASSUME NEW c \in PoolCaps, NEW d \in PoolCaps,
                        NEW i \in 1 .. Len(pool'[c]), NEW j \in 1 .. Len(pool'[d])
                 PROVE  /\ pool'[c][i].cap = c
                        /\ pool'[c][i].array = pool'[d][j].array => c = d /\ i = j
      BY DEF PoolDistinct
    <3>1. CASE i \in 1 .. Len(pool[c]) /\ pool'[c][i] = pool[c][i]
      <4>1. CASE j \in 1 .. Len(pool[d]) /\ pool'[d][j] = pool[d][j]
        BY <3>1, <4>1 DEF PoolInv, PoolDistinct
      <4>2. CASE pool'[d][j] = b
        BY <3>1, <4>2, <2>4 DEF PoolInv, PoolDistinct
      <4> QED
        BY <2>3, <4>1, <4>2
    <3>2. CASE c = b.cap /\ i = Len(pool[c]) + 1 /\ pool'[c][i] = b
      <4>1. CASE j \in 1 .. Len(pool[d]) /\ pool'[d][j] = pool[d][j]
        BY <3>2, <4>1, <2>4
      <4>2. CASE d = b.cap /\ j = Len(pool[d]) + 1
        BY <3>2, <4>2
      <4> QED
        BY <2>3, <4>1, <4>2
    <3> QED
      BY <2>3, <3>1, <3>2
  <2>6. \A a : InPool(a)' => InPool(a) \/ (b # Nil /\ a = b.array)
    BY <2>1, <2>3, NilFacts DEF InPool
  <2> QED
    BY <2>2, <2>5, <2>6 DEF PoolInv
<1> QED
  BY <1>1, <1>2 DEF Release

(* acquireByteBuffer returns a buffer that is large enough and that, after *)
(* it, no pool holds; before it, it was in a pool or no slice had it.      *)
LEMMA AcquirePool ==
  ASSUME PoolInv, NEW asked \in Requests, asked > 0, Acquire(asked)
  PROVE  /\ PoolInv'
         /\ \A a : InPool(a)' => InPool(a) /\ a # Acquired(asked).array
         /\ Acquired(asked) \in Slices
         /\ Acquired(asked).cap >= asked
         /\ \/ InPool(Acquired(asked).array)
            \/ Acquired(asked).array \in Unreferenced
<1> DEFINE c == PoolOf(asked)
<1>0. asked \in Nat
  BY ScratchPoolAssumption DEF Requests, Sizes, Slots
<1>1. Pooled(asked) => c \in PoolCaps /\ c \in Nat /\ c > 0 /\ c >= asked
  <2> SUFFICES ASSUME Pooled(asked)
               PROVE  c \in PoolCaps /\ c \in Nat /\ c > 0 /\ c >= asked
    OBVIOUS
  <2>1. \E p \in PoolCaps : Covers(p, asked)
    BY PoolCapsAssumption DEF Pooled
  <2>2. c \in PoolCaps /\ Covers(c, asked)
    BY <2>1 DEF PoolOf
  <2>3. c \in Nat /\ c > 0
    <3> HIDE DEF c
    <3> QED
      BY <2>2, ScratchPoolAssumption
  <2> QED
    BY <2>2, <2>3 DEF Covers
<1>2. CASE HasFree(asked)
  <2>1. /\ c \in PoolCaps /\ c >= asked
        /\ Len(pool[c]) >= 1
        /\ Acquired(asked) = pool[c][1]
        /\ pool' = [pool EXCEPT ![c] = Tail(@)]
    BY <1>1, <1>2 DEF HasFree, Acquired, Acquire, PoolInv
  <2>2. /\ pool' \in [PoolCaps -> Seq(Slices)]
        /\ \A d \in PoolCaps \ {c} : pool'[d] = pool[d]
        /\ pool'[c] = Tail(pool[c])
    BY <2>1 DEF PoolInv
  <2>3. ASSUME NEW d \in PoolCaps, NEW i \in 1 .. Len(pool'[d])
        PROVE  /\ d # c => i \in 1 .. Len(pool[d]) /\ pool'[d][i] = pool[d][i]
               /\ d = c => i + 1 \in 1 .. Len(pool[d]) /\ pool'[d][i] = pool[d][i + 1]
    <3>1. pool[c] \in Seq(Slices) /\ pool[c] # <<>>
      BY <2>1 DEF PoolInv
    <3>2. /\ Len(pool'[c]) = Len(pool[c]) - 1
          /\ \A k \in 1 .. Len(pool'[c]) : pool'[c][k] = pool[c][k + 1]
      BY <2>2, <3>1, HeadTailProperties
    <3>3. CASE d # c
      BY <2>2, <3>3
    <3>4. CASE d = c
      <4>1. Len(pool[c]) \in Nat /\ i \in 1 .. (Len(pool[c]) - 1)
        BY <3>1, <3>2, <3>4, LenProperties
      <4> QED
        BY <3>2, <3>4, <4>1
    <3> QED
      BY <3>3, <3>4
  <2>4. PoolDistinct'
    <3> SUFFICES ASSUME NEW d \in PoolCaps, NEW f \in PoolCaps,
                        NEW i \in 1 .. Len(pool'[d]), NEW j \in 1 .. Len(pool'[f])
                 PROVE  /\ pool'[d][i].cap = d
                        /\ pool'[d][i].array = pool'[f][j].array => d = f /\ i = j
      BY DEF PoolDistinct
    <3> DEFINE old(k, m) == IF k = c THEN m + 1 ELSE m
    <3>1. /\ old(d, i) \in 1 .. Len(pool[d]) /\ pool'[d][i] = pool[d][old(d, i)]
          /\ old(f, j) \in 1 .. Len(pool[f]) /\ pool'[f][j] = pool[f][old(f, j)]
      <4>1. CASE d = c
        BY <2>3, <4>1
      <4>2. CASE d # c
        BY <2>3, <4>2
      <4> QED
        BY <4>1, <4>2
    <3>2. /\ pool[d][old(d, i)].cap = d
          /\ pool[d][old(d, i)].array = pool[f][old(f, j)].array
               => d = f /\ old(d, i) = old(f, j)
      <4> HIDE DEF old, c
      <4> QED
        BY <3>1 DEF PoolInv, PoolDistinct
    <3>3. d = f /\ old(d, i) = old(f, j) => i = j
      OBVIOUS
    <3> QED
      BY <3>1, <3>2, <3>3
  <2>5. \A a : InPool(a)' => InPool(a)
    <3> SUFFICES ASSUME NEW a, NEW d \in PoolCaps, NEW i \in 1 .. Len(pool'[d]),
                        pool'[d][i].array = a
                 PROVE  \E k \in 1 .. Len(pool[d]) : pool[d][k].array = a
      BY DEF InPool
    <3>1. CASE d # c
      BY <2>3, <3>1
    <3>2. CASE d = c
      BY <2>3, <3>2
    <3> QED
      BY <3>1, <3>2
  <2>6. Acquired(asked) \in Slices /\ Acquired(asked).cap = c /\ InPool(Acquired(asked).array)
    BY <2>1 DEF PoolInv, PoolDistinct, InPool
  <2>7. ASSUME NEW d \in PoolCaps, NEW i \in 1 .. Len(pool'[d])
        PROVE  pool'[d][i].array # Acquired(asked).array
    <3>1. 1 \in 1 .. Len(pool[c])
      BY <2>1 DEF PoolInv
    <3>2. CASE d # c
      BY <2>1, <2>3, <3>1, <3>2 DEF PoolInv, PoolDistinct
    <3>3. CASE d = c
      BY <2>1, <2>3, <3>1, <3>3 DEF PoolInv, PoolDistinct
    <3> QED
      BY <3>2, <3>3
  <2>8. \A a : InPool(a)' => a # Acquired(asked).array
    BY <2>7 DEF InPool
  <2> QED
    BY <2>1, <2>2, <2>4, <2>5, <2>6, <2>8 DEF PoolInv
<1>3. CASE ~HasFree(asked)
  <2>1. pool' = pool /\ Unreferenced # {}
    BY <1>3 DEF Acquire
  <2>2. Acquired(asked) = New(IF Pooled(asked) THEN c ELSE asked)
    BY <1>3 DEF Acquired
  <2>3. (IF Pooled(asked) THEN c ELSE asked) \in Nat \ {0}
    BY <1>0, <1>1
  <2>4. /\ Acquired(asked).array \in Unreferenced
        /\ Acquired(asked).array \in Arrays
        /\ Acquired(asked).cap >= asked
        /\ Acquired(asked) \in Slices
    <3> DEFINE a == CHOOSE x \in Unreferenced : TRUE
               k == IF Pooled(asked) THEN c ELSE asked
    <3>1. a \in Unreferenced
      BY <2>1
    <3>2. a \in Arrays
      BY <3>1 DEF Unreferenced
    <3>3. Acquired(asked) = [array |-> a, cap |-> k]
      BY <2>2 DEF New
    <3>4. k \in Nat \ {0} /\ k >= asked
      BY <1>0, <1>1, <2>3
    <3> HIDE DEF a, k
    <3> QED
      BY <3>1, <3>2, <3>3, <3>4 DEF Slices
  <2>5. ~InPool(Acquired(asked).array)
    BY <2>4 DEF Unreferenced
  <2> QED
    <3>1. PoolInv'
      BY <2>1 DEF PoolInv, PoolDistinct
    <3>2. \A a : InPool(a)' => InPool(a)
      BY <2>1 DEF InPool
    <3> QED
      BY <2>4, <2>5, <3>1, <3>2
<1> QED
  BY <1>2, <1>3

-----------------------------------------------------------------------------
(* The places of an encoder are its slots and its Huffman streams.         *)
LEMMA PlaceFacts ==
  /\ \A i \in Streams : i \in Places /\ i \notin Slots
  /\ \A s \in Slots : s \in Places /\ s \notin Streams
  /\ \A p \in Places : p \in Streams \/ p \in Slots
  /\ Slots \subseteq Nat
  /\ NSlots \in Slots /\ 1 \in Slots
BY ScratchPoolAssumption DEF Places, Slots, Streams, LastStream

(* What a place holds is a slice or nothing. *)
LEMMA UseType ==
  ASSUME TypeOK
  PROVE  /\ \A e \in Encoders, p \in Places : Use(e, p) \in Slices \cup {Nil}
         /\ \A e \in Encoders, s \in Slots :
              held[e][s] \in Slices \cup {Nil} /\ next[e][s] \in Slices \cup {Nil}
<1>1. ASSUME NEW e \in Encoders
      PROVE  /\ \A s \in Slots : /\ held[e][s] \in Slices \cup {Nil}
                                 /\ next[e][s] \in Slices \cup {Nil}
             /\ \A i \in Streams : tmp[e][i] \in Slices \cup {Nil}
  BY DEF TypeOK
<1>2. ASSUME NEW e \in Encoders, NEW p \in Places
      PROVE  Use(e, p) \in Slices \cup {Nil}
  BY <1>1, PlaceFacts DEF Use
<1> QED
  BY <1>1, <1>2

(* Streams that only let go of buffers, while the pools gain at most the   *)
(* array x, which no stream uses any more.                                 *)
LEMMA Shrink ==
  ASSUME TypeOK, NEW x,
         \A f \in Encoders, q \in Places : Use(f, q)' \in {Use(f, q), Nil},
         \A f \in Encoders, s \in Slots : held'[f][s] \in {held[f][s], Nil},
         \A a : InPool(a)' => InPool(a) \/ a = x,
         \A f \in Encoders, q \in Places : Use(f, q)' # Nil => Use(f, q).array # x
  PROVE  /\ ExclusiveUse => ExclusiveUse'
         /\ HeldExclusive
              /\ (\A f \in Encoders, s \in Slots :
                    held'[f][s] # Nil => held[f][s].array # x)
            => HeldExclusive'
<1>1. ASSUME ExclusiveUse,
             NEW e \in Encoders, NEW p \in Places, Use(e, p)' # Nil
      PROVE  /\ ~InPool(Use(e, p).array)'
             /\ \A f \in Encoders, q \in Places :
                  Use(f, q)'.array = Use(e, p)'.array => f = e /\ q = p
  <2>1. Use(e, p)' = Use(e, p) /\ Use(e, p) \in Slices
    BY <1>1, UseType
  <2>2. ~InPool(Use(e, p).array)'
    BY <1>1, <2>1 DEF ExclusiveUse
  <2>3. ASSUME NEW f \in Encoders, NEW q \in Places,
               Use(f, q)'.array = Use(e, p)'.array
        PROVE  f = e /\ q = p
    <3>1. Use(f, q)' = Use(f, q)
      BY <2>1, <2>3, NilFacts
    <3> QED
      BY <1>1, <2>1, <2>3, <3>1 DEF ExclusiveUse
  <2> QED
    BY <2>2, <2>3
<1>2. ASSUME HeldExclusive,
             \A f \in Encoders, s \in Slots : held'[f][s] # Nil => held[f][s].array # x,
             NEW e \in Encoders, NEW s \in Slots, held'[e][s] # Nil
      PROVE  /\ ~InPool(held[e][s].array)'
             /\ \A f \in Encoders, q \in Places :
                  Use(f, q)'.array = held'[e][s].array => f = e /\ q = s
             /\ \A f \in Encoders, t \in Slots :
                  held'[f][t].array = held'[e][s].array => f = e /\ t = s
  <2>1. held'[e][s] = held[e][s] /\ held[e][s] \in Slices
    BY <1>2, UseType
  <2>2. ~InPool(held[e][s].array)'
    BY <1>2, <2>1 DEF HeldExclusive
  <2>3. ASSUME NEW f \in Encoders, NEW q \in Places,
               Use(f, q)'.array = held'[e][s].array
        PROVE  f = e /\ q = s
    <3>1. Use(f, q)' = Use(f, q)
      BY <2>1, <2>3, NilFacts
    <3> QED
      BY <1>2, <2>1, <2>3, <3>1 DEF HeldExclusive
  <2>4. ASSUME NEW f \in Encoders, NEW t \in Slots,
               held'[f][t].array = held'[e][s].array
        PROVE  f = e /\ t = s
    <3>1. held'[f][t] = held[f][t]
      BY <2>1, <2>4, NilFacts
    <3> QED
      BY <1>2, <2>1, <2>4, <3>1 DEF HeldExclusive
  <2> QED
    BY <2>2, <2>3, <2>4
<1> QED
  BY <1>1, <1>2 DEF ExclusiveUse, HeldExclusive

(* A stream that gets a buffer no other slice has, from a pool or new.     *)
LEMMA Enter ==
  ASSUME TypeOK, NEW e \in Encoders, NEW p \in Places, NEW b \in Slices,
         Use(e, p)' = b,
         \A f \in Encoders, q \in Places :
           f # e \/ q # p => Use(f, q)' = Use(f, q),
         held' = held,
         \A a : InPool(a)' => InPool(a) /\ a # b.array,
         InPool(b.array) \/ b.array \in Unreferenced
  PROVE  /\ ExclusiveUse => ExclusiveUse'
         /\ HeldExclusive => HeldExclusive'
<1>2. ASSUME ExclusiveUse, NEW f \in Encoders, NEW q \in Places, f # e \/ q # p
      PROVE  Use(f, q)'.array # b.array
  <2>1. CASE Use(f, q) = Nil
    BY <1>2, <2>1, NilFacts
  <2>2. CASE InPool(b.array) /\ Use(f, q) # Nil
    BY <1>2, <2>2 DEF ExclusiveUse
  <2>3. CASE b.array \in Unreferenced
    <3>1. /\ \A i \in Streams : b.array # tmp[f][i].array
          /\ \A s \in Slots : b.array # held[f][s].array /\ b.array # next[f][s].array
      BY <2>3 DEF Unreferenced
    <3>2. q \in Streams \/ q \in Slots
      BY PlaceFacts
    <3>3. b.array # Use(f, q).array
      BY <3>1, <3>2 DEF Use
    <3> QED
      BY <1>2, <3>3
  <2> QED
    BY <2>1, <2>2, <2>3
<1>3. ASSUME HeldExclusive, NEW f \in Encoders, NEW s \in Slots
      PROVE  held[f][s].array # b.array
  <2>1. CASE held[f][s] = Nil
    BY <2>1, NilFacts
  <2>2. CASE InPool(b.array) /\ held[f][s] # Nil
    BY <1>3, <2>2 DEF HeldExclusive
  <2>3. CASE b.array \in Unreferenced
    BY <2>3 DEF Unreferenced
  <2> QED
    BY <2>1, <2>2, <2>3
<1>4. ~InPool(b.array)'
  OBVIOUS
<1>5. ASSUME ExclusiveUse,
             NEW f \in Encoders, NEW q \in Places, Use(f, q)' # Nil
      PROVE  /\ ~InPool(Use(f, q).array)'
             /\ \A g \in Encoders, r \in Places :
                  Use(g, r)'.array = Use(f, q)'.array => g = f /\ r = q
  <2>1. CASE f = e /\ q = p
    BY <1>2, <1>4, <1>5, <2>1
  <2>2. CASE f # e \/ q # p
    <3>1. Use(f, q)' = Use(f, q) /\ Use(f, q)'.array # b.array
      BY <1>2, <1>5, <2>2
    <3>2. ~InPool(Use(f, q).array)'
      BY <1>5, <3>1 DEF ExclusiveUse
    <3> QED
      BY <1>5, <3>1, <3>2 DEF ExclusiveUse
  <2> QED
    BY <2>1, <2>2
<1>6. ASSUME HeldExclusive, NEW f \in Encoders, NEW s \in Slots, held'[f][s] # Nil
      PROVE  /\ ~InPool(held[f][s].array)'
             /\ \A g \in Encoders, q \in Places :
                  Use(g, q)'.array = held'[f][s].array => g = f /\ q = s
             /\ \A g \in Encoders, t \in Slots :
                  held'[g][t].array = held'[f][s].array => g = f /\ t = s
  <2>1. held[f][s].array # b.array /\ held[f][s] # Nil
    BY <1>3, <1>6
  <2>2. ~InPool(held[f][s].array)'
    BY <1>6, <2>1 DEF HeldExclusive
  <2> QED
    BY <1>6, <2>1, <2>2 DEF HeldExclusive
<1> QED
  BY <1>5, <1>6 DEF ExclusiveUse, HeldExclusive

-----------------------------------------------------------------------------
(* The steps, one lemma for each action. *)

(* Advance moves to the next slot or to the first one and the next phase.  *)
LEMMA AdvanceFacts ==
  ASSUME TypeOK, NEW e \in Encoders, NEW after \in {"rest", "write"},
         Advance(e, after)
  PROVE  /\ turn' \in [Encoders -> Slots]
         /\ pc' \in [Encoders -> {"rest", "fill", "write", "free", "drop", "close"}]
         /\ \A f \in Encoders \ {e} : turn'[f] = turn[f] /\ pc'[f] = pc[f]
         /\ \/ /\ turn[e] = NSlots
               /\ pc'[e] = after
               /\ \A s \in Slots : s = turn[e] \/ s < turn[e]
            \/ /\ turn[e] # NSlots
               /\ pc'[e] = pc[e]
               /\ turn'[e] = turn[e] + 1
               /\ \A s \in Slots : s < turn'[e] => s = turn[e] \/ s < turn[e]
BY SMTT(60), ScratchPoolAssumption DEF TypeOK, Advance, Slots

(* A block begins on a copy of the state. *)
LEMMA BeginBlockStep ==
  ASSUME IInv, NEW e \in Encoders, NEW m \in Sizes, NEW slots \in SUBSET Slots,
         BeginBlock(e, m, slots)
  PROVE  IInv'
<1>1. TypeOK'
  BY PlaceFacts DEF IInv, TypeOK, BeginBlock
<1>2. /\ \A f \in Encoders, q \in Places : Use(f, q)' = Use(f, q)
      /\ \A a : InPool(a)' = InPool(a)
  BY PlaceFacts DEF IInv, TypeOK, BeginBlock, Use, Working, InPool
<1>3. PoolDistinct'
  BY DEF IInv, PoolDistinct, BeginBlock
<1>4. ExclusiveUse' /\ (Fallbacks => HeldExclusive')
  BY <1>2 DEF IInv, ExclusiveUse, HeldExclusive, BeginBlock
<1>5. RoomForBlock'
  BY DEF IInv, TypeOK, RoomForBlock, BeginBlock
<1>6. Phases'
  BY PlaceFacts DEF IInv, TypeOK, Phases, Working, Slots, Ready, BeginBlock
<1>7. ~Growing => LargeEnough'
  <2> SUFFICES ASSUME ~Growing, NEW f \in Encoders, NEW s \in Slots
               PROVE  /\ held[f][s] # Nil => held[f][s].cap >= Need[block'[f]][s]
                      /\ pc'[f] = "fill" /\ next'[f][s] # Nil
                           => next'[f][s].cap >= Need[block'[f]][s]
    BY DEF LargeEnough, BeginBlock
  <2>1. CASE f # e
    BY <2>1 DEF IInv, TypeOK, LargeEnough, BeginBlock
  <2>2. CASE f = e
    <3>1. Need[m][s] <= Need[block[e]][s]
      BY <2>2, ScratchPoolAssumption DEF IInv, TypeOK, BeginBlock
    <3>2. Need[m][s] \in Nat /\ Need[block[e]][s] \in Nat
      BY ScratchPoolAssumption DEF IInv, TypeOK
    <3>3. held[e][s] # Nil => held[e][s].cap \in Nat /\ held[e][s].cap >= Need[block[e]][s]
      BY UseType, NilFacts DEF IInv, LargeEnough
    <3>4. block'[e] = m /\ next'[e] = held[e]
      BY DEF IInv, TypeOK, BeginBlock
    <3> QED
      BY <2>2, <3>1, <3>2, <3>3, <3>4
  <2> QED
    BY <2>1, <2>2
<1> QED
  BY <1>1, <1>3, <1>4, <1>5, <1>6, <1>7 DEF IInv

(* A stream that the block does without loses its buffer. *)
LEMMA SkipSlotStep ==
  ASSUME IInv, NEW e \in Encoders, SkipSlot(e)
  PROVE  IInv'
<1>0. /\ pc[e] = "fill" /\ turn[e] \in Slots /\ turn[e] \notin needed[e]
      /\ next' = [next EXCEPT ![e][turn[e]] = Nil]
      /\ Advance(e, "write")
      /\ UNCHANGED <<pool, held, tmp, block, needed>>
  BY DEF IInv, TypeOK, SkipSlot
<1>1. /\ next' \in [Encoders -> [Slots -> Slices \cup {Nil}]]
      /\ next'[e][turn[e]] = Nil
      /\ \A f \in Encoders, s \in Slots :
           f # e \/ s # turn[e] => next'[f][s] = next[f][s]
      /\ \A f \in Encoders \ {e} : next'[f] = next[f]
  BY <1>0 DEF IInv, TypeOK
<1>2. /\ turn' \in [Encoders -> Slots]
      /\ pc' \in [Encoders -> {"rest", "fill", "write", "free", "drop", "close"}]
      /\ \A f \in Encoders \ {e} : turn'[f] = turn[f] /\ pc'[f] = pc[f]
      /\ \/ pc'[e] = "write" /\ \A s \in Slots : s = turn[e] \/ s < turn[e]
         \/ /\ pc'[e] = "fill"
            /\ \A s \in Slots : s < turn'[e] => s = turn[e] \/ s < turn[e]
  BY <1>0, AdvanceFacts DEF IInv
<1>3. TypeOK'
  BY <1>0, <1>1, <1>2 DEF IInv, TypeOK
<1>4. PoolDistinct'
  BY <1>0 DEF IInv, PoolDistinct
<1>5. ExclusiveUse' /\ (Fallbacks => HeldExclusive')
  <2>1. \A f \in Encoders, q \in Places :
          IF f = e /\ q = turn[e] THEN Use(f, q)' = Nil ELSE Use(f, q)' = Use(f, q)
    BY <1>0, <1>1, <1>2, PlaceFacts DEF Use, Working
  <2>2. \A a : InPool(a)' => InPool(a) \/ a = NoArray
    BY <1>0 DEF InPool
  <2>3. \A f \in Encoders, q \in Places : Use(f, q)' # Nil => Use(f, q).array # NoArray
    BY <2>1, UseType, NilFacts DEF IInv
  <2>4. \A f \in Encoders, s \in Slots : held'[f][s] # Nil => held[f][s].array # NoArray
    BY <1>0, UseType, NilFacts DEF IInv
  <2> QED
    BY <1>0, <2>1, <2>2, <2>3, <2>4, Shrink DEF IInv
<1>6. \A s \in Slots : s = turn[e] \/ s < turn[e] => Ready(e, s)'
  BY <1>0, <1>1 DEF IInv, Phases, Ready
<1>7. RoomForBlock'
  BY <1>0, <1>1, <1>2, <1>6 DEF IInv, TypeOK, RoomForBlock, Ready
<1>8. Phases'
  BY <1>0, <1>1, <1>2, <1>6 DEF IInv, Phases, Working, Ready
<1>9. ~Growing => LargeEnough'
  BY <1>0, <1>1, <1>2 DEF IInv, LargeEnough
<1> QED
  BY <1>3, <1>4, <1>5, <1>7, <1>8, <1>9 DEF IInv

(* A buffer that is large enough is kept. *)
LEMMA KeepSlotStep ==
  ASSUME IInv, NEW e \in Encoders, KeepSlot(e)
  PROVE  IInv'
<1>0. Advance(e, "write")
  BY DEF KeepSlot
<1>1. TypeOK'
  BY <1>0, AdvanceFacts DEF IInv, TypeOK, KeepSlot
<1>2. /\ \A f \in Encoders, q \in Places : Use(f, q)' = Use(f, q)
      /\ \A a : InPool(a)' = InPool(a)
  BY <1>0, AdvanceFacts DEF IInv, KeepSlot, Use, Working, InPool
<1>3. PoolDistinct'
  BY DEF IInv, PoolDistinct, KeepSlot
<1>4. ExclusiveUse' /\ (Fallbacks => HeldExclusive')
  BY <1>2 DEF IInv, ExclusiveUse, HeldExclusive, KeepSlot
<1>5. /\ \A s \in Slots : s = turn[e] \/ s < turn[e] => Ready(e, s)
      /\ \A f \in Encoders, s \in Slots : Ready(f, s)' = Ready(f, s)
  BY DEF IInv, Phases, KeepSlot, Slot, Wanted, Ready
<1>6. RoomForBlock'
  <2>1. TypeOK /\ RoomForBlock /\ UNCHANGED <<next, block, needed>>
    BY DEF IInv, KeepSlot
  <2>2. /\ \A f \in Encoders \ {e} : pc'[f] = pc[f]
        /\ pc'[e] = "write" => \A s \in Slots : Ready(e, s)
    BY <1>0, <1>5, <2>1, AdvanceFacts DEF KeepSlot
  <2>3. \A s \in needed[e] : s \in Slots
    BY <2>1 DEF TypeOK
  <2> QED
    BY <2>1, <2>2, <2>3 DEF RoomForBlock, Ready
<1>7. Phases'
  BY <1>0, <1>5, AdvanceFacts DEF IInv, Phases, Working, KeepSlot
<1>8. ~Growing => LargeEnough'
  BY <1>0, AdvanceFacts DEF IInv, LargeEnough, KeepSlot
<1> QED
  BY <1>1, <1>3, <1>4, <1>6, <1>7, <1>8 DEF IInv

(* The block is kept: the copy becomes the state. *)
LEMMA CommitStep ==
  ASSUME IInv, NEW e \in Encoders, Commit(e)
  PROVE  IInv'
<1>0. /\ pc[e] = "write" /\ pc'[e] = "rest" /\ tmp[e] = NoOutputs
      /\ held'[e] = next[e] /\ next'[e] = NoBuffers
      /\ \A f \in Encoders \ {e} :
           held'[f] = held[f] /\ next'[f] = next[f] /\ pc'[f] = pc[f]
      /\ UNCHANGED <<pool, tmp, turn, block, needed>>
  BY DEF IInv, TypeOK, Commit
<1>1. TypeOK'
  BY DEF IInv, TypeOK, Commit, NoBuffers
<1>2. /\ \A f \in Encoders, q \in Places : Use(f, q)' = Use(f, q)
      /\ \A a : InPool(a)' = InPool(a)
  BY <1>0, PlaceFacts DEF Use, Working, InPool
<1>3. PoolDistinct'
  BY <1>0 DEF IInv, PoolDistinct
<1>4. ExclusiveUse'
  BY <1>2 DEF IInv, ExclusiveUse
<1>5. Fallbacks => HeldExclusive'
  <2> SUFFICES ASSUME Fallbacks, NEW f \in Encoders, NEW s \in Slots, held'[f][s] # Nil
               PROVE  /\ ~InPool(held[f][s].array)'
                      /\ \A g \in Encoders, q \in Places :
                           Use(g, q)'.array = held'[f][s].array => g = f /\ q = s
                      /\ \A g \in Encoders, t \in Slots :
                           held'[g][t].array = held'[f][s].array => g = f /\ t = s
    BY DEF HeldExclusive
  <2>0. /\ \A t \in Slots : held'[e][t] = Use(e, t)
        /\ \A t \in Slots : t \in Places
    BY <1>0, PlaceFacts DEF Use, Working
  <2>1. CASE f = e
    <3>1. ASSUME NEW g \in Encoders, NEW t \in Slots,
                 held'[g][t].array = held'[e][s].array
          PROVE  g = e /\ t = s
      <4>1. CASE g = e
        BY <2>0, <2>1, <3>1, <4>1 DEF IInv, ExclusiveUse
      <4>2. CASE g # e
        <5>1. held[g][t].array = Use(e, s).array /\ Use(e, s) # Nil
          BY <1>0, <2>0, <2>1, <3>1, <4>2
        <5>2. held[g][t] # Nil
          BY <5>1, <2>0, UseType, NilFacts DEF IInv
        <5> QED
          BY <2>0, <4>2, <5>1, <5>2 DEF IInv, HeldExclusive
      <4> QED
        BY <4>1, <4>2
    <3> QED
      BY <1>2, <2>0, <2>1, <3>1 DEF IInv, ExclusiveUse
  <2>2. CASE f # e
    <3>1. held'[f][s] = held[f][s]
      BY <1>0, <2>2
    <3>2. ASSUME NEW t \in Slots, held'[e][t].array = held[f][s].array
          PROVE  FALSE
      BY <2>0, <2>2, <3>1, <3>2 DEF IInv, HeldExclusive
    <3> QED
      BY <1>0, <1>2, <2>2, <3>1, <3>2 DEF IInv, HeldExclusive
  <2> QED
    BY <2>1, <2>2
<1>6. RoomForBlock'
  BY <1>0 DEF IInv, TypeOK, RoomForBlock
<1>7. Phases'
  BY <1>0 DEF IInv, Phases, Working, Ready
<1>8. ~Growing => LargeEnough'
  BY <1>0 DEF IInv, LargeEnough, Phases, Ready
<1> QED
  BY <1>1, <1>3, <1>4, <1>5, <1>6, <1>7, <1>8 DEF IInv

(* The block is written raw: the state stays as it was. *)
LEMMA FallbackStep ==
  ASSUME IInv, NEW e \in Encoders, Fallback(e)
  PROVE  IInv'
<1>1. TypeOK'
  BY PlaceFacts DEF IInv, TypeOK, Fallback
<1>2. /\ \A f \in Encoders, q \in Places : Use(f, q)' = Use(f, q)
      /\ \A a : InPool(a)' = InPool(a)
  BY DEF IInv, TypeOK, Fallback, Use, Working, InPool
<1>3. PoolDistinct'
  BY DEF IInv, PoolDistinct, Fallback
<1>4. ExclusiveUse' /\ (Fallbacks => HeldExclusive')
  BY <1>2 DEF IInv, ExclusiveUse, HeldExclusive, Fallback
<1>5. RoomForBlock'
  <2>1. \A f \in Encoders : pc'[f] = "write" => pc[f] = "write"
    BY DEF IInv, TypeOK, Fallback
  <2> QED
    BY <2>1 DEF IInv, RoomForBlock, Fallback
<1>6. Phases'
  <2>1. \A f \in Encoders, s \in Slots : Ready(f, s)' = Ready(f, s)
    BY DEF Fallback, Ready
  <2>2. /\ Fallbacks /\ pc[e] = "write" /\ tmp[e] = NoOutputs
        /\ pc'[e] = "drop" /\ turn'[e] = 1
        /\ \A s \in Slots : ~(s < 1)
        /\ \A f \in Encoders \ {e} : pc'[f] = pc[f] /\ turn'[f] = turn[f]
        /\ UNCHANGED <<pool, held, next, tmp, block, needed>>
    BY DEF IInv, TypeOK, Slots, Fallback
  <2> QED
    BY <2>1, <2>2 DEF IInv, Phases, Working
<1>7. ~Growing => LargeEnough'
  BY DEF IInv, TypeOK, LargeEnough, Fallback
<1> QED
  BY <1>1, <1>3, <1>4, <1>5, <1>6, <1>7 DEF IInv

(* The encoder is closed. *)
LEMMA CloseStep ==
  ASSUME IInv, NEW e \in Encoders, Close(e)
  PROVE  IInv'
<1>1. TypeOK'
  BY PlaceFacts DEF IInv, TypeOK, Close
<1>2. /\ \A f \in Encoders, q \in Places : Use(f, q)' = Use(f, q)
      /\ \A a : InPool(a)' = InPool(a)
  BY DEF IInv, TypeOK, Close, Use, Working, InPool
<1>3. PoolDistinct'
  BY DEF IInv, PoolDistinct, Close
<1>4. ExclusiveUse' /\ (Fallbacks => HeldExclusive')
  BY <1>2 DEF IInv, ExclusiveUse, HeldExclusive, Close
<1>5. RoomForBlock'
  <2>1. \A f \in Encoders : pc'[f] = "write" => pc[f] = "write"
    BY DEF IInv, TypeOK, Close
  <2> QED
    BY <2>1 DEF IInv, RoomForBlock, Close
<1>6. Phases'
  <2>1. \A f \in Encoders, s \in Slots : Ready(f, s)' = Ready(f, s)
    BY DEF Close, Ready
  <2>2. /\ pc[e] = "rest" /\ pc'[e] = "close" /\ turn'[e] = 1
        /\ \A s \in Slots : ~(s < 1)
        /\ \A f \in Encoders \ {e} : pc'[f] = pc[f] /\ turn'[f] = turn[f]
        /\ UNCHANGED <<pool, held, next, tmp, block, needed>>
    BY DEF IInv, TypeOK, Slots, Close
  <2> QED
    BY <2>1, <2>2 DEF IInv, Phases, Working
<1>7. ~Growing => LargeEnough'
  BY DEF IInv, TypeOK, LargeEnough, Close
<1> QED
  BY <1>1, <1>3, <1>4, <1>5, <1>6, <1>7 DEF IInv

(* A buffer that is too small goes to a pool. *)
LEMMA ReleaseSmallStep ==
  ASSUME IInv, ~(Growing /\ Fallbacks), NEW e \in Encoders, ReleaseSmall(e)
  PROVE  IInv'
<1>0. /\ pc[e] = "fill" /\ turn[e] \in Slots /\ block[e] \in Sizes
      /\ Slot(e) = next[e][turn[e]] /\ Slot(e) \in Slices
      /\ Slot(e) = Use(e, turn[e])
      /\ Release(Slot(e))
      /\ next' = [next EXCEPT ![e][turn[e]] = Nil]
      /\ UNCHANGED <<held, tmp, pc, turn, block, needed>>
  <2>1. pc[e] = "fill" /\ turn[e] \in Slots /\ Slot(e) # Nil
    BY DEF IInv, TypeOK, ReleaseSmall
  <2>2. Slot(e) = next[e][turn[e]] /\ Slot(e) = Use(e, turn[e])
    BY <2>1, PlaceFacts DEF Slot, Use, Working
  <2>3. Slot(e) \in Slices
    BY <2>1, <2>2, UseType DEF IInv
  <2> QED
    BY <2>1, <2>2, <2>3 DEF IInv, TypeOK, ReleaseSmall
<1>1. ~Fallbacks
  <2> SUFFICES ASSUME ~Growing PROVE FALSE
    OBVIOUS
  <2>1. Slot(e).cap >= Wanted(e)
    BY <1>0 DEF IInv, LargeEnough, ReleaseSmall, Slot, Wanted
  <2>2. Slot(e).cap \in Nat /\ Wanted(e) \in Nat
    BY <1>0, NilFacts, ScratchPoolAssumption DEF Wanted
  <2> QED
    BY <2>1, <2>2 DEF ReleaseSmall
<1>2. ~InPool(Slot(e).array)
  BY <1>0, PlaceFacts, NilFacts DEF IInv, ExclusiveUse
<1>3. /\ PoolInv'
      /\ \A a : InPool(a)' => InPool(a) \/ a = Slot(e).array
  BY <1>0, <1>2, ReleasePool DEF IInv, TypeOK, PoolInv
<1>4. /\ next' \in [Encoders -> [Slots -> Slices \cup {Nil}]]
      /\ next'[e][turn[e]] = Nil
      /\ \A f \in Encoders, s \in Slots :
           f # e \/ s # turn[e] => next'[f][s] = next[f][s]
  BY <1>0 DEF IInv, TypeOK
<1>5. TypeOK'
  BY <1>0, <1>3, <1>4 DEF IInv, TypeOK, PoolInv
<1>6. ExclusiveUse'
  <2>1. /\ \A f \in Encoders, q \in Places :
             f # e \/ q # turn[e] => Use(f, q)' = Use(f, q)
        /\ \A q \in Places : q = turn[e] => Use(e, q)' = Nil
    BY <1>0, <1>4, PlaceFacts DEF Use, Working
  <2>2. \A f \in Encoders, q \in Places : Use(f, q)' \in {Use(f, q), Nil}
    BY <2>1
  <2>3. \A f \in Encoders, q \in Places : Use(f, q)' # Nil => Use(f, q).array # Slot(e).array
    BY <1>0, <2>1, PlaceFacts, NilFacts DEF IInv, ExclusiveUse
  <2> QED
    BY <1>0, <1>3, <2>2, <2>3, Shrink DEF IInv
<1>7. RoomForBlock' /\ Phases'
  <2>1. \A f \in Encoders : pc[f] # "fill" => f # e
    BY <1>0
  <2>2. RoomForBlock'
    BY <1>0, <1>4, <2>1 DEF IInv, RoomForBlock
  <2>3. Phases'
    <3> SUFFICES ASSUME NEW f \in Encoders
                 PROVE  /\ ~Working(f)' => next'[f] = NoBuffers
                        /\ pc[f] \notin {"write", "free"} => tmp[f] = NoOutputs
                        /\ pc[f] = "fill" => \A s \in Slots : s < turn[f] => Ready(f, s)'
                        /\ pc[f] \in {"write", "free"} => \A s \in Slots : Ready(f, s)'
                        /\ pc[f] = "close" => \A s \in Slots : s < turn[f] => held[f][s] = Nil
                        /\ pc[f] = "drop" => /\ Fallbacks
                                             /\ \A s \in Slots : s < turn[f] => next'[f][s] = Nil
      BY <1>0 DEF Phases
    <3>1. CASE f = e
      <4>1. \A s \in Slots : s < turn[e] => s # turn[e]
        BY <1>0, PlaceFacts
      <4> QED
        BY <1>0, <1>4, <3>1, <4>1 DEF IInv, Phases, Working, Ready
    <3>2. CASE f # e
      <4>1. next'[f] = next[f]
        BY <1>0, <3>2 DEF IInv, TypeOK
      <4> QED
        BY <1>0, <4>1 DEF IInv, Phases, Working, Ready
    <3> QED
      BY <3>1, <3>2
  <2> QED
    BY <2>2, <2>3
<1>8. ~Growing => LargeEnough'
  BY <1>0, <1>4 DEF IInv, LargeEnough
<1> QED
  BY <1>1, <1>3, <1>5, <1>6, <1>7, <1>8 DEF IInv, PoolInv

(* A slot gets a buffer from a pool or a new one. *)
LEMMA FillSlotStep ==
  ASSUME IInv, NEW e \in Encoders, FillSlot(e)
  PROVE  IInv'
<1> DEFINE b == Acquired(Wanted(e))
<1>0. /\ pc[e] = "fill" /\ turn[e] \in needed[e] /\ turn[e] \in Slots /\ block[e] \in Sizes
      /\ next[e][turn[e]] = Nil
      /\ Wanted(e) = Need[block[e]][turn[e]]
      /\ Wanted(e) \in Requests /\ Wanted(e) > 0
      /\ Acquire(Wanted(e))
      /\ next' = [next EXCEPT ![e][turn[e]] = b]
      /\ Advance(e, "write")
      /\ UNCHANGED <<held, tmp, block, needed>>
  BY DEF IInv, TypeOK, FillSlot, Slot, Wanted, Requests
<1>1. /\ PoolInv'
      /\ \A a : InPool(a)' => InPool(a) /\ a # b.array
      /\ b \in Slices
      /\ b.cap >= Wanted(e)
      /\ InPool(b.array) \/ b.array \in Unreferenced
  BY <1>0, AcquirePool DEF IInv, TypeOK, PoolInv
<1> HIDE DEF b
<1>2. /\ next' \in [Encoders -> [Slots -> Slices \cup {Nil}]]
      /\ next'[e][turn[e]] = b
      /\ \A f \in Encoders, s \in Slots :
           f # e \/ s # turn[e] => next'[f][s] = next[f][s]
      /\ \A f \in Encoders \ {e} : next'[f] = next[f]
  BY <1>0, <1>1 DEF IInv, TypeOK
<1>3. /\ turn' \in [Encoders -> Slots]
      /\ pc' \in [Encoders -> {"rest", "fill", "write", "free", "drop", "close"}]
      /\ \A f \in Encoders \ {e} : turn'[f] = turn[f] /\ pc'[f] = pc[f]
      /\ \/ pc'[e] = "write" /\ \A s \in Slots : s = turn[e] \/ s < turn[e]
         \/ /\ pc'[e] = "fill"
            /\ \A s \in Slots : s < turn'[e] => s = turn[e] \/ s < turn[e]
  BY <1>0, AdvanceFacts DEF IInv
<1>4. TypeOK'
  BY <1>0, <1>1, <1>2, <1>3 DEF IInv, TypeOK, PoolInv
<1>5. ExclusiveUse' /\ (Fallbacks => HeldExclusive')
  <2>1. PICK p \in Places : p = turn[e]
    BY <1>0, PlaceFacts
  <2>2. \A f \in Encoders, q \in Places :
          f # e \/ q # p => Use(f, q)' = Use(f, q)
    BY <1>0, <1>2, <1>3, <2>1, PlaceFacts DEF Use, Working
  <2>3. Use(e, p)' = b
    BY <1>0, <1>2, <1>3, <2>1, PlaceFacts DEF Use, Working
  <2> QED
    BY <1>0, <1>1, <2>2, <2>3, Enter DEF IInv
<1>6. ASSUME NEW s \in Slots, s = turn[e] \/ s < turn[e]
      PROVE  Ready(e, s)'
  <2>1. CASE s = turn[e]
    BY <1>0, <1>1, <1>2, <2>1 DEF Ready
  <2>2. CASE s # turn[e]
    BY <1>0, <1>2, <1>6, <2>2 DEF IInv, Phases, Ready
  <2> QED
    BY <2>1, <2>2
<1>7. RoomForBlock'
  BY <1>0, <1>2, <1>3, <1>6 DEF IInv, TypeOK, RoomForBlock, Ready
<1>8. Phases'
  BY <1>0, <1>2, <1>3, <1>6 DEF IInv, Phases, Working, Ready
<1>9. ~Growing => LargeEnough'
  BY <1>0, <1>1, <1>2, <1>3 DEF IInv, LargeEnough
<1> QED
  BY <1>1, <1>4, <1>5, <1>7, <1>8, <1>9 DEF IInv, PoolInv

(* append moves a stream to a larger array. *)
LEMMA GrowStep ==
  ASSUME IInv, NEW e \in Encoders, NEW t \in Slots, NEW c \in GrowCaps, Grow(e, t, c)
  PROVE  IInv'
<1> DEFINE b == New(c)
<1>0. /\ pc[e] = "write" /\ block[e] \in Sizes /\ t \in needed[e]
      /\ c > next[e][t].cap /\ Unreferenced # {}
      /\ next' = [next EXCEPT ![e][t] = b]
      /\ UNCHANGED <<pool, held, tmp, pc, turn, block, needed>>
  BY DEF IInv, TypeOK, Grow
<1>1. b \in Slices /\ b.array \in Unreferenced /\ b.cap = c /\ ~InPool(b.array)
  <2>1. b.array \in Unreferenced /\ b.cap = c
    BY <1>0 DEF New
  <2>2. c \in Nat \ {0}
    BY ScratchPoolAssumption
  <2> QED
    BY <2>1, <2>2 DEF New, Slices, Unreferenced
<1> HIDE DEF b
<1>2. /\ next' \in [Encoders -> [Slots -> Slices \cup {Nil}]]
      /\ next'[e][t] = b
      /\ \A f \in Encoders, s \in Slots :
           f # e \/ s # t => next'[f][s] = next[f][s]
      /\ \A f \in Encoders \ {e} : next'[f] = next[f]
  BY <1>0, <1>1 DEF IInv, TypeOK
<1>3. TypeOK'
  BY <1>0, <1>2 DEF IInv, TypeOK
<1>4. PoolDistinct'
  BY <1>0 DEF IInv, PoolDistinct
<1>5. ExclusiveUse' /\ (Fallbacks => HeldExclusive')
  <2>1. /\ \A f \in Encoders, q \in Places :
             f # e \/ q # t => Use(f, q)' = Use(f, q)
        /\ Use(e, t)' = b
    BY <1>0, <1>2, PlaceFacts DEF Use, Working
  <2>2. \A a : InPool(a)' => InPool(a) /\ a # b.array
    BY <1>0, <1>1 DEF InPool
  <2> QED
    BY <1>0, <1>1, <2>1, <2>2, PlaceFacts, Enter DEF IInv
<1>6. b.cap >= Need[block[e]][t]
  <2>1. next[e][t].cap >= Need[block[e]][t]
    BY <1>0 DEF IInv, RoomForBlock
  <2>2. next[e][t].cap \in Nat
    BY UseType, NilFacts DEF IInv
  <2>3. Need[block[e]][t] \in Nat
    BY <1>0, ScratchPoolAssumption
  <2>4. c \in Nat
    BY ScratchPoolAssumption
  <2> QED
    BY <1>0, <1>1, <2>1, <2>2, <2>3, <2>4
<1>7. RoomForBlock'
  <2> SUFFICES ASSUME NEW f \in Encoders, NEW s \in needed[f], pc[f] = "write"
               PROVE  next'[f][s].cap >= Need[block[f]][s]
    BY <1>0 DEF RoomForBlock
  <2>1. CASE f = e /\ s = t
    BY <1>2, <1>6, <2>1
  <2>2. CASE f # e \/ s # t
    BY <1>2, <2>2 DEF IInv, TypeOK, RoomForBlock
  <2> QED
    BY <2>1, <2>2
<1>8. Phases'
  <2>1. \A f \in Encoders, s \in Slots : Ready(f, s) => Ready(f, s)'
    BY <1>0, <1>2, <1>6 DEF Ready
  <2> QED
    BY <1>0, <1>2, <2>1 DEF IInv, Phases, Working
<1>9. ~Growing => LargeEnough'
  BY <1>0, <1>2 DEF IInv, LargeEnough
<1> QED
  BY <1>3, <1>4, <1>5, <1>7, <1>8, <1>9 DEF IInv

(* A Huffman stream takes its output buffer. *)
LEMMA TakeTmpStep ==
  ASSUME IInv, NEW e \in Encoders, NEW i \in Streams, NEW asked \in TmpSizes,
         TakeTmp(e, i, asked)
  PROVE  IInv'
<1> DEFINE b == Acquired(asked)
<1>0. /\ pc[e] = "write"
      /\ asked \in Requests /\ asked > 0
      /\ Acquire(asked)
      /\ tmp' = [tmp EXCEPT ![e][i] = b]
      /\ UNCHANGED <<held, next, turn, block, needed>>
  BY ScratchPoolAssumption DEF TakeTmp, Requests
<1>1. /\ PoolInv'
      /\ \A a : InPool(a)' => InPool(a) /\ a # b.array
      /\ b \in Slices
      /\ InPool(b.array) \/ b.array \in Unreferenced
  BY <1>0, AcquirePool DEF IInv, TypeOK, PoolInv
<1> HIDE DEF b
<1>2. /\ tmp' \in [Encoders -> [Streams -> Slices \cup {Nil}]]
      /\ tmp'[e][i] = b
      /\ \A f \in Encoders, j \in Streams : f # e \/ j # i => tmp'[f][j] = tmp[f][j]
      /\ \A f \in Encoders \ {e} : tmp'[f] = tmp[f]
  BY <1>0, <1>1 DEF IInv, TypeOK
<1>3. /\ pc' \in [Encoders -> {"rest", "fill", "write", "free", "drop", "close"}]
      /\ pc'[e] \in {"write", "free"}
      /\ \A f \in Encoders \ {e} : pc'[f] = pc[f]
  BY <1>0 DEF IInv, TypeOK, TakeTmp
<1>4. TypeOK'
  BY <1>0, <1>1, <1>2, <1>3 DEF IInv, TypeOK, PoolInv
<1>5. ExclusiveUse' /\ (Fallbacks => HeldExclusive')
  <2>1. \A f \in Encoders : Working(f)' = Working(f)
    BY <1>0, <1>3 DEF Working
  <2>2. /\ \A f \in Encoders, q \in Places :
             f # e \/ q # i => Use(f, q)' = Use(f, q)
        /\ Use(e, i)' = b
    BY <1>0, <1>2, <2>1 DEF Use
  <2> QED
    BY <1>0, <1>1, <2>2, PlaceFacts, Enter DEF IInv
<1>6. RoomForBlock'
  BY <1>0, <1>3 DEF IInv, RoomForBlock
<1>7. Phases'
  BY <1>0, <1>2, <1>3 DEF IInv, Phases, Working, Ready
<1>8. ~Growing => LargeEnough'
  BY <1>0, <1>3 DEF IInv, LargeEnough
<1> QED
  BY <1>1, <1>4, <1>5, <1>6, <1>7, <1>8 DEF IInv, PoolInv

(* A Huffman stream gives its output buffer back. *)
LEMMA DropTmpStep ==
  ASSUME IInv, NEW e \in Encoders, NEW i \in Streams, DropTmp(e, i)
  PROVE  IInv'
<1> DEFINE b == tmp[e][i]
<1>0. /\ pc[e] = "free"
      /\ b \in Slices /\ b = Use(e, i) /\ b # Nil
      /\ Release(b)
      /\ tmp' = [tmp EXCEPT ![e][i] = Nil]
      /\ UNCHANGED <<held, next, turn, block, needed>>
  BY DEF IInv, TypeOK, DropTmp, Use
<1>1. ~InPool(b.array)
  BY <1>0, PlaceFacts DEF IInv, ExclusiveUse
<1>2. /\ PoolInv'
      /\ \A a : InPool(a)' => InPool(a) \/ a = b.array
  BY <1>0, <1>1, ReleasePool DEF IInv, TypeOK, PoolInv
<1>3. /\ tmp' \in [Encoders -> [Streams -> Slices \cup {Nil}]]
      /\ tmp'[e][i] = Nil
      /\ \A f \in Encoders, j \in Streams : f # e \/ j # i => tmp'[f][j] = tmp[f][j]
      /\ \A f \in Encoders \ {e} : tmp'[f] = tmp[f]
  BY <1>0 DEF IInv, TypeOK
<1> HIDE DEF b
<1>4. /\ pc' \in [Encoders -> {"rest", "fill", "write", "free", "drop", "close"}]
      /\ pc'[e] \in {"write", "free"}
      /\ \A f \in Encoders \ {e} : pc'[f] = pc[f]
  BY <1>0 DEF IInv, TypeOK, DropTmp
<1>5. TypeOK'
  BY <1>0, <1>2, <1>3, <1>4 DEF IInv, TypeOK, PoolInv
<1>6. ExclusiveUse' /\ (Fallbacks => HeldExclusive')
  <2>1. \A f \in Encoders : Working(f)' = Working(f)
    BY <1>0, <1>4 DEF Working
  <2>2. /\ \A f \in Encoders, q \in Places :
             f # e \/ q # i => Use(f, q)' = Use(f, q)
        /\ Use(e, i)' = Nil
    BY <1>0, <1>3, <2>1 DEF Use
  <2>3. \A f \in Encoders, q \in Places : Use(f, q)' \in {Use(f, q), Nil}
    BY <2>2
  <2>4. \A f \in Encoders, q \in Places : Use(f, q)' # Nil => Use(f, q).array # b.array
    BY <1>0, <2>2, PlaceFacts DEF IInv, ExclusiveUse
  <2>5. HeldExclusive => \A f \in Encoders, s \in Slots :
          held'[f][s] # Nil => held[f][s].array # b.array
    BY <1>0, PlaceFacts DEF HeldExclusive
  <2> QED
    BY <1>0, <1>2, <2>3, <2>4, <2>5, Shrink DEF IInv
<1>7. \A s \in Slots : Ready(e, s)
  BY <1>0 DEF IInv, Phases
<1>8. RoomForBlock'
  BY <1>0, <1>4, <1>7 DEF IInv, TypeOK, RoomForBlock, Ready
<1>9. Phases'
  BY <1>0, <1>3, <1>4 DEF IInv, Phases, Working, Ready
<1>10. ~Growing => LargeEnough'
  BY <1>0, <1>4 DEF IInv, LargeEnough
<1> QED
  BY <1>2, <1>5, <1>6, <1>8, <1>9, <1>10 DEF IInv, PoolInv

(* After the last slot of the copy is dropped the encoder is back on the   *)
(* buffers of its state, which HeldExclusive kept to itself.               *)
LEMMA DropSlotStep ==
  ASSUME IInv, NEW e \in Encoders, DropSlot(e)
  PROVE  IInv'
<1> DEFINE k == turn[e]
           b == IF Slot(e).array = held[e][k].array THEN Nil ELSE Slot(e)
<1>0. /\ pc[e] = "drop" /\ k \in Slots /\ tmp[e] = NoOutputs /\ Fallbacks
      /\ Slot(e) = next[e][k] /\ Slot(e) = Use(e, k)
      /\ Slot(e) \in Slices \cup {Nil}
      /\ Release(b)
      /\ next' = [next EXCEPT ![e][k] = Nil]
      /\ Advance(e, "rest")
      /\ UNCHANGED <<held, tmp, block, needed>>
  <2>1. pc[e] = "drop" /\ k \in Slots /\ tmp[e] = NoOutputs /\ Fallbacks
    BY DEF IInv, TypeOK, Phases, DropSlot
  <2>2. Slot(e) = next[e][k] /\ Slot(e) = Use(e, k)
    BY <2>1, PlaceFacts DEF Slot, Use, Working
  <2>3. Slot(e) \in Slices \cup {Nil}
    BY <2>1, <2>2, UseType DEF IInv
  <2> QED
    BY <2>1, <2>2, <2>3 DEF DropSlot
<1>1. /\ b \in Slices \cup {Nil}
      /\ b # Nil => b = Slot(e) /\ b.array # held[e][k].array /\ ~InPool(b.array)
  BY <1>0, PlaceFacts DEF IInv, ExclusiveUse
<1> HIDE DEF b
<1>2. /\ PoolInv'
      /\ \A a : InPool(a)' => InPool(a) \/ (b # Nil /\ a = b.array)
  BY <1>0, <1>1, ReleasePool DEF IInv, TypeOK, PoolInv
<1>3. /\ next' \in [Encoders -> [Slots -> Slices \cup {Nil}]]
      /\ next'[e][k] = Nil
      /\ \A s \in Slots \ {k} : next'[e][s] = next[e][s]
      /\ \A f \in Encoders \ {e} : next'[f] = next[f]
  BY <1>0 DEF IInv, TypeOK
<1>4. /\ turn' \in [Encoders -> Slots]
      /\ pc' \in [Encoders -> {"rest", "fill", "write", "free", "drop", "close"}]
      /\ \A f \in Encoders \ {e} : turn'[f] = turn[f] /\ pc'[f] = pc[f]
      /\ \/ pc'[e] = "rest" /\ \A s \in Slots : s = k \/ s < k
         \/ /\ pc'[e] = "drop"
            /\ \A s \in Slots : s < turn'[e] => s = k \/ s < k
  BY <1>0, AdvanceFacts DEF IInv
<1>5. TypeOK'
  BY <1>0, <1>2, <1>3, <1>4 DEF IInv, TypeOK, PoolInv
<1>6. \A s \in Slots : s = k \/ s < k => next'[e][s] = Nil
  BY <1>0, <1>3 DEF IInv, Phases
<1>7. pc'[e] = "rest" => next'[e] = NoBuffers
  BY <1>3, <1>4, <1>6 DEF NoBuffers
<1>8. \A f \in Encoders, s \in Slots :
        held[f][s] # Nil => ~InPool(held[f][s].array)'
  <2> SUFFICES ASSUME NEW f \in Encoders, NEW s \in Slots, held[f][s] # Nil,
                      b # Nil, held[f][s].array = b.array
               PROVE  FALSE
    BY <1>0, <1>2 DEF IInv, HeldExclusive
  <2>1. Use(e, k).array = held[f][s].array
    BY <1>0, <1>1
  <2>2. f = e /\ s = k
    BY <1>0, <2>1, PlaceFacts DEF IInv, HeldExclusive
  <2> QED
    BY <1>1, <2>2
<1>9. \A f \in Encoders \ {e}, q \in Places : Use(f, q)' = Use(f, q)
  BY <1>0, <1>3, <1>4 DEF Use, Working
<1>10. ASSUME NEW q \in Places
       PROVE  \/ Use(e, q)' = Use(e, q)
              \/ Use(e, q)' = Nil
              \/ q \in Slots /\ Use(e, q)' = held[e][q]
  <2>1. CASE q \in Streams
    BY <1>0, <2>1 DEF Use
  <2>2. CASE q \in Slots /\ q \notin Streams /\ pc'[e] = "rest"
    BY <1>0, <2>2 DEF Use, Working
  <2>3. CASE q \in Slots /\ q \notin Streams /\ pc'[e] = "drop"
    <3>1. Use(e, q)' = next'[e][q] /\ Use(e, q) = next[e][q]
      BY <1>0, <2>3 DEF Use, Working
    <3> QED
      BY <1>3, <2>3, <3>1
  <2> QED
    BY <1>4, <2>1, <2>2, <2>3, PlaceFacts
<1>11. HeldExclusive'
  <2> SUFFICES ASSUME NEW f \in Encoders, NEW s \in Slots, held[f][s] # Nil
               PROVE  \A g \in Encoders, q \in Places :
                        Use(g, q)'.array = held[f][s].array => g = f /\ q = s
    BY <1>0, <1>8 DEF IInv, HeldExclusive
  <2> SUFFICES ASSUME NEW g \in Encoders, NEW q \in Places,
                      Use(g, q)'.array = held[f][s].array
               PROVE  g = f /\ q = s
    OBVIOUS
  <2>1. held[f][s].array # Nil.array
    BY UseType, NilFacts DEF IInv
  <2>2. CASE Use(g, q)' = Use(g, q)
    BY <1>0, <2>2 DEF IInv, HeldExclusive
  <2>3. CASE q \in Slots /\ g = e /\ Use(e, q)' = held[e][q]
    BY <1>0, <2>3 DEF IInv, HeldExclusive
  <2> QED
    BY <1>9, <1>10, <2>1, <2>2, <2>3
<1>12. ExclusiveUse'
  <2> SUFFICES ASSUME NEW f \in Encoders, NEW p \in Places, Use(f, p)' # Nil
               PROVE  /\ ~InPool(Use(f, p).array)'
                      /\ \A g \in Encoders, q \in Places :
                           Use(g, q)'.array = Use(f, p)'.array => g = f /\ q = p
    BY DEF ExclusiveUse
  <2>1. CASE f = e /\ p \in Slots /\ Use(e, p)' = held[e][p]
    BY <1>0, <1>8, <1>11, <2>1 DEF HeldExclusive
  <2>2. CASE Use(f, p)' = Use(f, p)
    <3>1. Use(f, p) \in Slices /\ Use(f, p).array # Nil.array
      BY <2>2, UseType, NilFacts DEF IInv
    <3>2. f = e /\ p \in Slots => p # k \/ Use(e, p)' = held[e][p]
      BY <1>0, <1>3, <1>4, PlaceFacts DEF Use, Working
    <3>3. CASE f = e /\ p = k
      BY <1>0, <2>1, <3>2, <3>3
    <3>4. CASE f # e \/ p # k
      <4>1. b # Nil => Use(f, p).array # b.array
        BY <1>0, <1>1, <2>2, <3>4, PlaceFacts DEF IInv, ExclusiveUse
      <4>2. ~InPool(Use(f, p).array)'
        BY <1>2, <2>2, <4>1 DEF IInv, ExclusiveUse
      <4>3. ASSUME NEW g \in Encoders, NEW q \in Places,
                   Use(g, q)'.array = Use(f, p)'.array
            PROVE  g = f /\ q = p
        <5>1. CASE Use(g, q)' = Use(g, q)
          BY <2>2, <4>3, <5>1 DEF IInv, ExclusiveUse
        <5>2. CASE g = e /\ q \in Slots /\ Use(e, q)' = held[e][q]
          <6>1. held[e][q] # Nil
            BY <2>2, <3>1, <4>3, <5>2
          <6> QED
            BY <1>0, <2>2, <4>3, <5>2, <6>1 DEF IInv, HeldExclusive
        <5> QED
          BY <1>9, <1>10, <2>2, <3>1, <4>3, <5>1, <5>2
      <4> QED
        BY <4>2, <4>3
    <3> QED
      BY <3>3, <3>4
  <2> QED
    BY <1>9, <1>10, <2>1, <2>2
<1>13. RoomForBlock'
  BY <1>0, <1>3, <1>4 DEF IInv, RoomForBlock
<1>14. Phases'
  BY <1>0, <1>3, <1>4, <1>6, <1>7 DEF IInv, Phases, Working, Ready
<1>15. ~Growing => LargeEnough'
  BY <1>0, <1>3, <1>4 DEF IInv, LargeEnough
<1> QED
  BY <1>2, <1>5, <1>11, <1>12, <1>13, <1>14, <1>15 DEF IInv, PoolInv

(* A closed encoder releases one slot. *)
LEMMA CloseSlotStep ==
  ASSUME IInv, NEW e \in Encoders, CloseSlot(e)
  PROVE  IInv'
<1> DEFINE k == turn[e]
           b == held[e][k]
<1>0. /\ pc[e] = "close" /\ k \in Slots /\ block[e] \in Sizes
      /\ b \in Slices \cup {Nil} /\ b = Use(e, k)
      /\ Release(b)
      /\ held' = [held EXCEPT ![e][k] = Nil]
      /\ Advance(e, "rest")
      /\ block' = [block EXCEPT ![e] = IF k = NSlots THEN MaxSize ELSE @]
      /\ UNCHANGED <<next, tmp, needed>>
  <2>1. pc[e] = "close" /\ k \in Slots /\ block[e] \in Sizes
    BY DEF IInv, TypeOK, CloseSlot
  <2>2. b = Use(e, k)
    BY <2>1, PlaceFacts DEF Use, Working
  <2>3. b \in Slices \cup {Nil}
    BY <2>1, UseType DEF IInv
  <2> QED
    BY <2>1, <2>2, <2>3 DEF CloseSlot
<1>1. b # Nil => ~InPool(b.array)
  BY <1>0, PlaceFacts DEF IInv, ExclusiveUse
<1> HIDE DEF b
<1>2. /\ PoolInv'
      /\ \A a : InPool(a)' => InPool(a) \/ a = b.array
  BY <1>0, <1>1, ReleasePool DEF IInv, TypeOK, PoolInv
<1>3. /\ held' \in [Encoders -> [Slots -> Slices \cup {Nil}]]
      /\ held'[e][k] = Nil
      /\ \A s \in Slots \ {k} : held'[e][s] = held[e][s]
      /\ \A f \in Encoders \ {e} : held'[f] = held[f]
  BY <1>0 DEF IInv, TypeOK
<1>4. /\ turn' \in [Encoders -> Slots]
      /\ pc' \in [Encoders -> {"rest", "fill", "write", "free", "drop", "close"}]
      /\ \A f \in Encoders \ {e} : turn'[f] = turn[f] /\ pc'[f] = pc[f]
      /\ \/ k = NSlots /\ pc'[e] = "rest" /\ \A s \in Slots : s = k \/ s < k
         \/ /\ k # NSlots /\ pc'[e] = "close"
            /\ \A s \in Slots : s < turn'[e] => s = k \/ s < k
  BY <1>0, AdvanceFacts DEF IInv
<1>5. /\ block' \in [Encoders -> Sizes]
      /\ \A f \in Encoders \ {e} : block'[f] = block[f]
      /\ k # NSlots => block'[e] = block[e]
  BY <1>0, ScratchPoolAssumption DEF IInv, TypeOK, Sizes
<1>6. TypeOK'
  BY <1>0, <1>2, <1>3, <1>4, <1>5 DEF IInv, TypeOK, PoolInv
<1>7. ExclusiveUse' /\ (Fallbacks => HeldExclusive')
  <2>1. /\ \A f \in Encoders, s \in Slots : held'[f][s] \in {held[f][s], Nil}
        /\ \A f \in Encoders, s \in Slots : held'[f][s] # Nil => f # e \/ s # k
    BY <1>0, <1>3
  <2>2. \A f \in Encoders, q \in Places :
          IF f = e /\ q = k THEN Use(f, q)' = Nil ELSE Use(f, q)' = Use(f, q)
    BY <1>0, <1>3, <1>4, PlaceFacts DEF Use, Working
  <2>3. \A f \in Encoders, q \in Places : Use(f, q)' # Nil => Use(f, q).array # b.array
    BY <1>0, <2>2, PlaceFacts, UseType, NilFacts DEF IInv, ExclusiveUse
  <2>4. HeldExclusive => \A f \in Encoders, s \in Slots :
          held'[f][s] # Nil => held[f][s].array # b.array
    <3> SUFFICES ASSUME HeldExclusive, NEW f \in Encoders, NEW s \in Slots,
                        held'[f][s] # Nil, held[f][s].array = b.array
                 PROVE  FALSE
      OBVIOUS
    <3>1. held[f][s] # Nil /\ (f # e \/ s # k)
      BY <2>1
    <3> QED
      BY <1>0, <3>1, PlaceFacts DEF HeldExclusive
  <2> QED
    BY ZenonT(60), <1>2, <2>1, <2>2, <2>3, <2>4, Shrink DEF IInv
<1>8. RoomForBlock'
  BY <1>0, <1>4, <1>5 DEF IInv, RoomForBlock
<1>9. \A s \in Slots : s = k \/ s < k => held'[e][s] = Nil
  BY <1>0, <1>3 DEF IInv, Phases
<1>10. Phases'
  BY <1>0, <1>3, <1>4, <1>5, <1>9 DEF IInv, Phases, Working, Ready
<1>11. ~Growing => LargeEnough'
  BY <1>0, <1>3, <1>4, <1>5, <1>9 DEF IInv, LargeEnough
<1> QED
  BY <1>2, <1>6, <1>7, <1>8, <1>10, <1>11 DEF IInv, PoolInv

-----------------------------------------------------------------------------
(* The invariant holds at first. *)
LEMMA InitIInv ==
  ASSUME Init
  PROVE  IInv
<1>1. TypeOK
  BY PlaceFacts, ScratchPoolAssumption DEF Init, TypeOK, NoBuffers, NoOutputs, Sizes
<1>2. \A e \in Encoders, p \in Places : Use(e, p) = Nil
  BY PlaceFacts DEF Init, Use, Working, NoBuffers, NoOutputs
<1>3. PoolDistinct
  BY DEF Init, PoolDistinct
<1>4. ExclusiveUse
  BY <1>2 DEF ExclusiveUse
<1>5. HeldExclusive /\ LargeEnough /\ RoomForBlock /\ Phases
  BY DEF Init, HeldExclusive, LargeEnough, RoomForBlock, Phases, Working, NoBuffers
<1> QED
  BY <1>1, <1>3, <1>4, <1>5 DEF IInv

(* Every step keeps the invariant, if blocks do not both grow and fall     *)
(* back.                                                                   *)
LEMMA NextIInv ==
  ASSUME ~(Growing /\ Fallbacks), IInv, [Next]_vars
  PROVE  IInv'
<1>1. CASE UNCHANGED vars
  <2>1. /\ \A f \in Encoders, q \in Places : Use(f, q)' = Use(f, q)
        /\ \A a : InPool(a)' = InPool(a)
    BY <1>1 DEF vars, Use, Working, InPool
  <2>2. TypeOK'
    BY <1>1 DEF IInv, vars, TypeOK
  <2>3. PoolDistinct' /\ RoomForBlock'
    BY <1>1 DEF IInv, vars, PoolDistinct, RoomForBlock
  <2>4. ExclusiveUse' /\ (Fallbacks => HeldExclusive')
    BY <1>1, <2>1 DEF IInv, vars, ExclusiveUse, HeldExclusive
  <2>5. Phases' /\ (~Growing => LargeEnough')
    BY <1>1 DEF IInv, vars, Phases, LargeEnough, Working, Ready
  <2> QED
    BY <2>2, <2>3, <2>4, <2>5 DEF IInv
<1>2. ASSUME NEW e \in Encoders, NEW m \in Sizes, NEW slots \in SUBSET Slots,
             BeginBlock(e, m, slots)
      PROVE  IInv'
  BY <1>2, BeginBlockStep
<1>3. ASSUME NEW e \in Encoders, KeepSlot(e)
      PROVE  IInv'
  BY <1>3, KeepSlotStep
<1>4. ASSUME NEW e \in Encoders, ReleaseSmall(e)
      PROVE  IInv'
  BY <1>4, ReleaseSmallStep
<1>5. ASSUME NEW e \in Encoders, FillSlot(e)
      PROVE  IInv'
  BY <1>5, FillSlotStep
<1>6. ASSUME NEW e \in Encoders, NEW s \in Slots, NEW c \in GrowCaps, Grow(e, s, c)
      PROVE  IInv'
  BY <1>6, GrowStep
<1>7. ASSUME NEW e \in Encoders, NEW i \in Streams, NEW asked \in TmpSizes, TakeTmp(e, i, asked)
      PROVE  IInv'
  BY <1>7, TakeTmpStep
<1>8. ASSUME NEW e \in Encoders, NEW i \in Streams, DropTmp(e, i)
      PROVE  IInv'
  BY <1>8, DropTmpStep
<1>9. ASSUME NEW e \in Encoders, Commit(e)
      PROVE  IInv'
  BY <1>9, CommitStep
<1>10. ASSUME NEW e \in Encoders, Fallback(e)
       PROVE  IInv'
  BY <1>10, FallbackStep
<1>11. ASSUME NEW e \in Encoders, DropSlot(e)
       PROVE  IInv'
  BY <1>11, DropSlotStep
<1>12. ASSUME NEW e \in Encoders, Close(e)
       PROVE  IInv'
  BY <1>12, CloseStep
<1>13. ASSUME NEW e \in Encoders, CloseSlot(e)
       PROVE  IInv'
  BY <1>13, CloseSlotStep
<1>14. ASSUME NEW e \in Encoders, SkipSlot(e)
       PROVE  IInv'
  BY <1>14, SkipSlotStep
<1> QED
  BY <1>1, <1>2, <1>3, <1>4, <1>5, <1>6, <1>7, <1>8, <1>9, <1>10, <1>11, <1>12, <1>13,
     <1>14
  DEF Next

(* As long as an encoder whose blocks grow never falls back to a raw block,*)
(* no buffer has two users and no pool holds one that is in use            *)
(* (compress_scratch.go): compressionByteBuffer gives away a buffer that   *)
(* the state may still need only when both happen.                         *)
THEOREM ScratchExclusive ==
  ASSUME ~(Growing /\ Fallbacks)
  PROVE  Spec => []ExclusiveUse
<1>1. Init => IInv
  BY InitIInv
<1>2. IInv /\ [Next]_vars => IInv'
  BY NextIInv
<1>3. IInv => ExclusiveUse
  BY DEF IInv
<1> QED
  BY <1>1, <1>2, <1>3, PTL DEF Spec

(* Under the same condition no buffer is released twice into the pools, and*)
(* each is in the pool of its capacity (releaseByteBuffer).                *)
THEOREM PoolsDistinct ==
  ASSUME ~(Growing /\ Fallbacks)
  PROVE  Spec => []PoolDistinct
<1>1. Init => IInv
  BY InitIInv
<1>2. IInv /\ [Next]_vars => IInv'
  BY NextIInv
<1>3. IInv => PoolDistinct
  BY DEF IInv
<1> QED
  BY <1>1, <1>2, <1>3, PTL DEF Spec

(* Under the same condition every stream of a block that is being          *)
(* compressed has the capacity newCompressionBlockLiterals reslices to.    *)
THEOREM StreamsHaveRoom ==
  ASSUME ~(Growing /\ Fallbacks)
  PROVE  Spec => []RoomForBlock
<1>1. Init => IInv
  BY InitIInv
<1>2. IInv /\ [Next]_vars => IInv'
  BY NextIInv
<1>3. IInv => RoomForBlock
  BY DEF IInv
<1> QED
  BY <1>1, <1>2, <1>3, PTL DEF Spec

(* Type correctness of the scratch buffers. *)
THEOREM ScratchTypes ==
  ASSUME ~(Growing /\ Fallbacks)
  PROVE  Spec => []TypeOK
<1>1. Init => IInv
  BY InitIInv
<1>2. IInv /\ [Next]_vars => IInv'
  BY NextIInv
<1>3. IInv => TypeOK
  BY DEF IInv
<1> QED
  BY <1>1, <1>2, <1>3, PTL DEF Spec

=============================================================================
