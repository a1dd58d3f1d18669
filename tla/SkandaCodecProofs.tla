------------------------- MODULE SkandaCodecProofs --------------------------
(***************************************************************************)
(* Proofs that Encode and Decode are a lossless channel, for every source, *)
(* every parse of true matches and every setting of the options.           *)
(***************************************************************************)
EXTENDS SkandaCodecInv

(* The widths as the provers need them. *)
LEMMA Widths ==
  /\ Direct \in Nat \ {0} /\ Radix \in Nat \ {0} /\ ByteSize \in Nat \ {0}
  /\ Byte = 0 .. (ByteSize - 1)
  /\ FieldCap \in Nat /\ FieldCap >= 2 /\ MaxCode \in Nat
  /\ MaxBlock \in Nat \ {0} /\ MaxBlock <= MaxCode + FieldCap
  /\ LastBytes \in Nat \ {0} /\ RawSlack \in Nat /\ Lanes \in Nat \ {0}
  /\ MinMatch = 2 /\ LongestField = FieldCap + 1
  /\ MaxDistance \in Nat \ {0}
<1>1. /\ Direct \in Nat \ {0} /\ Radix \in Nat \ {0} /\ ByteSize \in Nat \ {0}
      /\ FieldCap \in Nat /\ FieldCap >= 2
  BY LengthCodeAssumption DEF ByteSize
<1>2. MaxCode \in Nat
  <2>1. Radix * Radix * ByteSize \in Nat /\ Radix * Direct \in Nat
    BY <1>1
  <2> QED
    BY <1>1, <2>1 DEF MaxCode
<1>3. MaxDistance \in Nat \ {0}
  <2>1. DistBase * DistBase * DistBase \in Nat /\ DistBase * DistBase * DistBase > 1
    <3>1. DistBase \in Nat /\ DistBase >= 2
      BY DistanceCodeAssumption
    <3>2. DistBase * DistBase \in Nat /\ DistBase * DistBase >= 2 * DistBase
      BY <3>1, TimesMonotone
    <3>3. DistBase * DistBase >= 2
      BY <3>1, <3>2
    <3>4. 2 * DistBase <= DistBase * DistBase * DistBase
          /\ DistBase * DistBase * DistBase \in Nat
      BY <3>1, <3>2, <3>3, TimesMonotone
    <3> QED
      BY <3>1, <3>4
  <2> QED
    BY <2>1, SkandaCodecAssumption DEF MaxDistance, MaxStdDistance
<1> QED
  BY <1>1, <1>2, <1>3, SkandaCodecAssumption, CodesReach DEF Byte, MinMatch, LongestField

-----------------------------------------------------------------------------
(* The literals of a run of the source.                                    *)
RunEntries(es, from, run, distance) ==
  /\ es \in Seq(Entry)
  /\ Len(es) = run
  /\ \A i \in 1 .. run :
       /\ es[i].at = from + i - 1 /\ es[i].value = src[from + i]
       /\ from - distance >= 0 =>
            es[i].delta = (src[from + i] - src[from + i - distance]) % ByteSize

(* The literals of a run are the source bytes at its places. *)
LEMMA EntriesOf ==
  ASSUME src \in Seq(Byte), NEW from \in Nat, NEW run \in Nat, from + run <= Len(src),
         NEW distance \in Nat \ {0}
  PROVE  RunEntries(Entries(from, from + run, distance), from, run, distance)
<1> DEFINE delta(i) == IF from - distance >= 0
                       THEN (src[from + i] - src[from + i - distance]) % ByteSize
                       ELSE 0
           es == [i \in 1 .. run |->
                    [at |-> from + i - 1, value |-> src[from + i], delta |-> delta(i)]]
<1>0. Len(src) \in Nat /\ \A i \in 1 .. Len(src) : src[i] \in Byte
  BY LenProperties, ElementOfSeq
<1>1. Entries(from, from + run, distance) = es
  <2>1. (from + run) - from = run
    OBVIOUS
  <2> QED
    BY <2>1 DEF Entries
<1>2. ASSUME NEW i \in 1 .. run
      PROVE  src[from + i] \in Byte /\ delta(i) \in Byte /\ from + i - 1 \in Nat
  <2>1. from + i \in 1 .. Len(src)
    BY <1>0
  <2>2. src[from + i] \in Byte
    BY <1>0, <2>1
  <2>3. CASE from - distance >= 0
    <3>1. from + i - distance \in 1 .. Len(src)
      BY <1>0, <2>3
    <3>2. src[from + i - distance] \in Byte
      BY <1>0, <3>1
    <3>3. ByteSize \in Nat \ {0} /\ Byte = 0 .. (ByteSize - 1)
      BY Widths
    <3>4. (src[from + i] - src[from + i - distance]) % ByteSize \in Byte
      <4>1. src[from + i] - src[from + i - distance] \in Int
        BY SMTT(60), <2>2, <3>2, <3>3
      <4> QED
        BY <4>1, <3>3, ModRange
    <3> QED
      BY <2>2, <2>3, <3>4
  <2>4. CASE ~(from - distance >= 0)
    BY <2>2, <2>4, Widths
  <2> QED
    BY <2>3, <2>4
<1>3. \A i \in 1 .. run : es[i] = [at |-> from + i - 1, value |-> src[from + i], delta |-> delta(i)]
  OBVIOUS
<1>4. \A i \in 1 .. run : es[i] \in Entry
  <2> HIDE DEF delta
  <2> QED
    BY <1>2 DEF Entry
<1>5. es \in Seq(Entry) /\ Len(es) = run
  <2>1. es = [i \in 1 .. run |-> es[i]]
    OBVIOUS
  <2> HIDE DEF es
  <2> QED
    BY SMTT(60), <1>4, <2>1, IsASeq
<1>6. \A i \in 1 .. run :
        /\ es[i].at = from + i - 1 /\ es[i].value = src[from + i]
        /\ from - distance >= 0 =>
             es[i].delta = (src[from + i] - src[from + i - distance]) % ByteSize
  BY <1>3
<1> HIDE DEF es
<1> QED
  BY <1>1, <1>5, <1>6 DEF RunEntries

-----------------------------------------------------------------------------
(* Two codes, one behind the other.                                        *)
LEMMA StandsParts ==
  ASSUME NEW S, NEW s \in Seq(S), NEW p \in Nat, NEW one \in Seq(S), NEW two \in Seq(S),
         Stands(s, p, one \o two)
  PROVE  /\ Stands(s, p, one)
         /\ Stands(s, p + Len(one), two)
         /\ Len(one \o two) = Len(one) + Len(two)
<1>1. /\ Len(one \o two) = Len(one) + Len(two)
      /\ \A i \in 1 .. Len(one) + Len(two) :
           (one \o two)[i] = IF i <= Len(one) THEN one[i] ELSE two[i - Len(one)]
  BY ConcatProperties
<1>2. Len(one) \in Nat /\ Len(two) \in Nat /\ Len(s) \in Nat
  BY LenProperties
<1>3. \A k \in 1 .. Len(one) + Len(two) : s[p + k] = (one \o two)[k]
  BY <1>1 DEF Stands
<1>4. ASSUME NEW k \in 1 .. Len(one)
      PROVE  s[p + k] = one[k]
  <2>1. k \in 1 .. Len(one) + Len(two)
    BY <1>2
  <2> QED
    BY <2>1, <1>1, <1>3
<1>5. ASSUME NEW k \in 1 .. Len(two)
      PROVE  s[p + Len(one) + k] = two[k]
  <2>1. /\ Len(one) + k \in 1 .. Len(one) + Len(two) /\ ~(Len(one) + k <= Len(one))
        /\ Len(one) + k - Len(one) = k /\ p + (Len(one) + k) = p + Len(one) + k
    BY <1>2
  <2> QED
    BY <2>1, <1>1, <1>3
<1>6. p + Len(one) + Len(two) <= Len(s) /\ p + Len(one) <= Len(s)
  <2>1. p + (Len(one) + Len(two)) <= Len(s)
    BY <1>1 DEF Stands
  <2> QED
    BY <2>1, <1>2
<1> QED
  BY <1>1, <1>4, <1>5, <1>6 DEF Stands

(* A code of no symbols stands anywhere in a stream. *)
LEMMA StandsEmpty ==
  ASSUME NEW s, NEW p \in Nat, Len(s) \in Nat, p <= Len(s)
  PROVE  Stands(s, p, <<>>)
BY DEF Stands

(* What the decoder reads in a length stream s behind p symbols, for a     *)
(* field.                                                                  *)
Read(field, s, p) == IF field = FieldCap THEN DecodeLength(s, p + 1) ELSE 0
Took(field, s, p) == IF field = FieldCap THEN CodeBytes(s, p + 1) ELSE 0

(* A literal run is read as it was written. *)
LEMMA RunRead ==
  ASSUME NEW run \in 0 .. MaxBlock
  PROVE  /\ LiteralField(run) \in 0 .. FieldCap
         /\ LiteralCodes(run) \in Seq(Byte) /\ Len(LiteralCodes(run)) \in Nat
         /\ \A s \in Seq(Byte), p \in Nat :
              Stands(s, p, LiteralCodes(run)) =>
                /\ LiteralField(run) + Read(LiteralField(run), s, p) = run
                /\ Took(LiteralField(run), s, p) = Len(LiteralCodes(run))
                /\ ~(LiteralField(run) = FieldCap /\ CodeBytes(s, p + 1) = 0)
<1>1. CASE run >= FieldCap
  <2> DEFINE v == run - FieldCap
  <2>1. v \in 0 .. MaxCode
    BY Widths, <1>1
  <2>2. LiteralField(run) = FieldCap /\ LiteralCodes(run) = EncodeLength(v)
    BY <1>1 DEF LiteralField, LiteralCodes
  <2> HIDE DEF v
  <2>3. EncodeLength(v) \in Seq(Byte) /\ Len(EncodeLength(v)) \in 1 .. 3
    BY <2>1, EncodeTyped
  <2>4. FieldCap + v = run /\ FieldCap \in 0 .. FieldCap
    BY Widths DEF v
  <2>5. ASSUME NEW s \in Seq(Byte), NEW p \in Nat, Stands(s, p, EncodeLength(v))
        PROVE  /\ FieldCap + Read(FieldCap, s, p) = run
               /\ Took(FieldCap, s, p) = Len(EncodeLength(v))
               /\ CodeBytes(s, p + 1) # 0
    <3>1. DecodeLength(s, p + 1) = v /\ CodeBytes(s, p + 1) = Len(EncodeLength(v))
      BY <2>1, <2>5, LengthReadAt
    <3> QED
      BY <2>3, <2>4, <3>1 DEF Read, Took
  <2> QED
    BY <2>2, <2>3, <2>4, <2>5
<1>2. CASE ~(run >= FieldCap)
  <2>1. /\ LiteralField(run) = run /\ LiteralCodes(run) = <<>> /\ run # FieldCap
        /\ run \in 0 .. FieldCap
    BY Widths, <1>2 DEF LiteralField, LiteralCodes
  <2> QED
    BY <2>1 DEF Read, Took
<1> QED
  BY <1>1, <1>2

(* A match whose length one token holds is read as it was written.         *)
LEMMA MatchLenRead ==
  ASSUME NEW len \in MinMatch .. MaxBlock
  PROVE  /\ OneField(len) \in 0 .. FieldCap
         /\ OneCode(len) \in Seq(Byte) /\ Len(OneCode(len)) \in Nat
         /\ \A s \in Seq(Byte), p \in Nat :
              Stands(s, p, OneCode(len)) =>
                /\ OneField(len) + MinMatch + Read(OneField(len), s, p) = len
                /\ Took(OneField(len), s, p) = Len(OneCode(len))
                /\ ~(OneField(len) = FieldCap /\ CodeBytes(s, p + 1) = 0)
<1>1. CASE len <= LongestField
  <2>1. /\ OneField(len) = len - MinMatch /\ OneCode(len) = <<>>
        /\ len - MinMatch \in 0 .. FieldCap /\ len - MinMatch # FieldCap
        /\ len - MinMatch + MinMatch = len /\ len \in Nat
    BY Widths, <1>1 DEF OneField, OneCode
  <2> QED
    BY <2>1 DEF Read, Took
<1>2. CASE ~(len <= LongestField)
  <2> DEFINE v == len - (FieldCap + MinMatch)
  <2>1. v \in 0 .. MaxCode /\ FieldCap + MinMatch + v = len /\ FieldCap \in 0 .. FieldCap
    BY Widths, <1>2
  <2>2. OneField(len) = FieldCap /\ OneCode(len) = EncodeLength(v)
    BY <1>2 DEF OneField, OneCode
  <2> HIDE DEF v
  <2>3. EncodeLength(v) \in Seq(Byte) /\ Len(EncodeLength(v)) \in 1 .. 3
    BY <2>1, EncodeTyped
  <2>4. ASSUME NEW s \in Seq(Byte), NEW p \in Nat, Stands(s, p, EncodeLength(v))
        PROVE  /\ FieldCap + MinMatch + Read(FieldCap, s, p) = len
               /\ Took(FieldCap, s, p) = Len(EncodeLength(v))
               /\ CodeBytes(s, p + 1) # 0
    <3>1. DecodeLength(s, p + 1) = v /\ CodeBytes(s, p + 1) = Len(EncodeLength(v))
      BY <2>1, <2>4, LengthReadAt
    <3> QED
      BY <2>1, <2>3, <3>1 DEF Read, Took
  <2> QED
    BY <2>1, <2>2, <2>3, <2>4
<1> QED
  BY <1>1, <1>2

(* The two lengths of a match that takes two tokens.                       *)
LEMMA SplitLens ==
  ASSUME NEW len \in MinMatch .. MaxBlock, NEW noHuffman \in BOOLEAN
  PROVE  \/ /\ MatchFields(len, noHuffman) = <<OneField(len)>>
            /\ MatchCodes(len, noHuffman) = OneCode(len)
         \/ \E one, two \in MinMatch .. LongestField :
              /\ one + two = len
              /\ MatchFields(len, noHuffman) = <<one - MinMatch, two - MinMatch>>
              /\ MatchCodes(len, noHuffman) = <<>>
<1>1. CASE len <= LongestField \/ ~Splits(len, noHuffman)
  BY <1>1 DEF MatchFields, MatchCodes, OneField, OneCode
<1>2. CASE ~(len <= LongestField) /\ Splits(len, noHuffman)
  <2> DEFINE bias == IF len < LongestField + MinMatch THEN 1 ELSE 0
             one  == FieldCap - 1 - bias + MinMatch
             two  == len - (LongestField + MinMatch) + bias + MinMatch
  <2>1. len <= 2 * LongestField
    BY <1>2 DEF Splits
  <2>2. one \in MinMatch .. LongestField /\ two \in MinMatch .. LongestField /\ one + two = len
    BY <1>2, <2>1, Widths
  <2>3. /\ MatchFields(len, noHuffman)
             = <<FieldCap - 1 - bias, len - (LongestField + MinMatch) + bias>>
        /\ MatchCodes(len, noHuffman) = <<>>
    BY <1>2 DEF MatchFields, MatchCodes
  <2>4. /\ FieldCap - 1 - bias = one - MinMatch
        /\ len - (LongestField + MinMatch) + bias = two - MinMatch
    BY Widths
  <2> HIDE DEF one, two
  <2>5. MatchFields(len, noHuffman) = <<one - MinMatch, two - MinMatch>>
    BY <2>3, <2>4
  <2> QED
    BY <2>2, <2>3, <2>5
<1> QED
  BY <1>1, <1>2

-----------------------------------------------------------------------------
(* The row of a distance that a block can use fits the extra bits.         *)
LEMMA RowReached ==
  ASSUME Advanced, NEW d \in 1 .. MaxDistance
  PROVE  /\ MaxExtraBits \in 0 .. WordBits
         /\ VirtualRow(d) < 2^(MaxExtraBits + 1)
         /\ VirtualRow(d) < 2^(WordBits + 1)
<1>0. /\ LowGroup \in Nat \ {0} /\ MaxDistance \in Nat \ {0} /\ WordBits = 29
      /\ MaxExtraBits \in 0 .. WordBits
  BY DistanceCodeAssumption, Widths, CodesReach DEF WordBits
<1>1. VirtualRow(MaxDistance) < 2^(MaxExtraBits + 1)
  BY CodesReach
<1> QED
  BY <1>0, <1>1, RowBelow

(* A distance is written in symbols of its stream.                         *)
LEMMA DistTyped ==
  ASSUME NEW last \in Rep, NEW d \in 1 .. MaxDistance
  PROVE  /\ DistField(last, d) \in 0 .. 3
         /\ DistCodes(last, d) \in Seq(DistSymbols) /\ Len(DistCodes(last, d)) \in Nat
         /\ RepsNext(last, d) \in Rep
         /\ RepsNext(last, d)[1] = d
         /\ DistField(RepsNext(last, d), d) = 0
         /\ DistCodes(RepsNext(last, d), d) = <<>>
         /\ RepsNext(RepsNext(last, d), d) = RepsNext(last, d)
<1>0. MaxDistance \in Nat \ {0} /\ d \in Nat \ {0} /\ last[1] \in Nat
  BY Widths DEF Rep
<1>1. CASE Advanced
  <2>1. DistField(last, d) \in 0 .. 3
    BY <1>1 DEF DistField, AdvField
  <2>2. FreshCode(d) \in DistSymbols
    <3> DEFINE c == FreshCode(d)
    <3>1. /\ c.low \in 0 .. (LowGroup - 1) /\ c.bits \in 0 .. WordBits /\ c.extra \in Nat
          /\ c.bits <= MaxExtraBits
      BY <1>0, <1>1, RowReached, FreshReadBack
    <3>2. c = [low |-> c.low, bits |-> c.bits, extra |-> c.extra]
      BY DEF FreshCode
    <3>3. LowGroup \in Nat /\ MaxExtraBits \in Nat /\ WordBits \in Nat
      BY DistanceCodeAssumption DEF WordBits
    <3> HIDE DEF c
    <3>4. c \in [low : Nat, bits : 0 .. MaxExtraBits, extra : Nat]
      BY <3>1, <3>2, <3>3
    <3> QED
      BY <1>1, <3>4 DEF DistSymbols, c
  <2>3. DistCodes(last, d) \in Seq(DistSymbols) /\ Len(DistCodes(last, d)) \in Nat
    <3> DEFINE c == FreshCode(d)
    <3>1. c \in DistSymbols
      BY <2>2
    <3> HIDE DEF c
    <3>2. <<c>> \in Seq(DistSymbols) /\ <<>> \in Seq(DistSymbols)
      BY <3>1
    <3>3. DistCodes(last, d) = <<c>> \/ DistCodes(last, d) = <<>>
      BY <1>1 DEF DistCodes, c
    <3> QED
      BY <3>2, <3>3, LenProperties
  <2>4. RepsNext(last, d) = RepsWritten(last, d)
    BY <1>1 DEF RepsNext
  <2>5. RepsNext(last, d) \in Rep /\ RepsNext(last, d)[1] = d
    BY <1>0, <2>4 DEF RepsWritten, Rep
  <2> DEFINE next == RepsNext(last, d)
  <2> HIDE DEF next
  <2>6. DistField(next, d) = 0 /\ DistCodes(next, d) = <<>> /\ RepsNext(next, d) = next
    BY <1>1, <2>5 DEF DistField, DistCodes, RepsNext, AdvField, RepsWritten, next
  <2> QED
    BY <2>1, <2>3, <2>5, <2>6 DEF next
<1>2. CASE ~Advanced
  <2>1. d \in 1 .. MaxStdDistance
    <3>1. MaxStdDistance \in Int
      BY DistanceCodeAssumption DEF MaxStdDistance
    <3> QED
      BY <1>0, <1>2, <3>1, SkandaCodecAssumption DEF MaxDistance
  <2>2. /\ StdField(last[1], d) \in 0 .. 3
        /\ StdBytes(last[1], d) \in Seq(0 .. (DistBase - 1))
    BY <1>0, <2>1, StdTyped
  <2>3. /\ DistField(last, d) \in 0 .. 3
        /\ DistCodes(last, d) \in Seq(DistSymbols) /\ Len(DistCodes(last, d)) \in Nat
    BY <1>2, <2>2, LenProperties DEF DistField, DistCodes, DistSymbols
  <2>4. RepsNext(last, d) \in Rep /\ RepsNext(last, d)[1] = d
    BY <1>0, <1>2 DEF RepsNext, Rep
  <2>5. RepsNext(RepsNext(last, d), d) = RepsNext(last, d)
    BY <1>2 DEF RepsNext
  <2>6. StdField(d, d) = 0
    BY DEF StdField
  <2>7. DistField(RepsNext(last, d), d) = 0
    BY <1>2, <2>4, <2>6 DEF DistField
  <2>8. DistCodes(RepsNext(last, d), d) = <<>>
    <3>1. DistCodes(RepsNext(last, d), d) = SubSeq(StdDigits(d), 1, 0)
      BY <1>2, <2>4, <2>6 DEF DistCodes, StdBytes
    <3> QED
      BY <3>1, SubSeqEmpty
  <2> QED
    BY <2>3, <2>4, <2>5, <2>7, <2>8
<1> QED
  BY <1>1, <1>2

(* The decoder takes as many symbols of the distance stream as were        *)
(* written, and has the encoder's recent distances afterwards.             *)
DistTaken(field) == IF Advanced THEN (IF field = 3 THEN 1 ELSE 0) ELSE field

RepsFrom(last, field, s, p) ==
  IF Advanced
  THEN RepsRead(last, field, IF DistTaken(field) = 1 THEN FreshDistance(s[p + 1]) ELSE 0)
  ELSE <<StdDistance(last[1], field, s, p + 1), last[2], last[3]>>

(* The decoder has the distance and the recent distances of the encoder.   *)
LEMMA DistRead ==
  ASSUME NEW last \in Rep, NEW d \in 1 .. MaxDistance, NEW s, NEW p \in Nat,
         Stands(s, p, DistCodes(last, d))
  PROVE  /\ DistTaken(DistField(last, d)) = Len(DistCodes(last, d))
         /\ RepsFrom(last, DistField(last, d), s, p) = RepsNext(last, d)
<1>0. MaxDistance \in Nat \ {0} /\ d \in Nat \ {0} /\ last[1] \in Nat /\ last \in [1 .. 3 -> Nat]
  BY Widths DEF Rep
<1>1. CASE Advanced /\ AdvField(last, d) = 3
  <2>1. DistField(last, d) = 3 /\ DistCodes(last, d) = <<FreshCode(d)>>
    BY <1>1 DEF DistField, DistCodes
  <2>2. Len(<<FreshCode(d)>>) = 1 /\ <<FreshCode(d)>>[1] = FreshCode(d)
    OBVIOUS
  <2>3. s[p + 1] = FreshCode(d)
    BY <2>1, <2>2 DEF Stands
  <2>4. FreshDistance(s[p + 1]) = d
    BY <1>0, <1>1, <2>3, RowReached, FreshReadBack
  <2>5. DistTaken(3) = 1
    BY <1>1 DEF DistTaken
  <2>6. RepsFrom(last, 3, s, p) = RepsRead(last, AdvField(last, d), d)
    BY <1>1, <2>4, <2>5 DEF RepsFrom
  <2>7. RepsRead(last, AdvField(last, d), d) = RepsWritten(last, d)
    BY <1>0, RecentDistances
  <2> QED
    BY <1>1, <2>1, <2>2, <2>5, <2>6, <2>7 DEF RepsNext
<1>2. CASE Advanced /\ AdvField(last, d) # 3
  <2> DEFINE f == AdvField(last, d)
  <2>1. DistField(last, d) = f /\ DistCodes(last, d) = <<>> /\ f \in 0 .. 2
    BY <1>2 DEF DistField, DistCodes, AdvField
  <2>2. DistTaken(f) = 0
    BY <1>2 DEF DistTaken
  <2>3. RepsFrom(last, f, s, p) = RepsRead(last, f, 0)
    BY <1>2, <2>2 DEF RepsFrom
  <2>4. RepsRead(last, f, 0) = RepsRead(last, f, d)
    <3> HIDE DEF f
    <3>1. f = 0 \/ f = 1 \/ f = 2
      BY <2>1
    <3>2. 1 # 0 /\ 2 # 0 /\ 2 # 1
      OBVIOUS
    <3> QED
      BY <3>1, <3>2, Zenon DEF RepsRead
  <2>5. RepsRead(last, f, d) = RepsWritten(last, d)
    BY <1>0, RecentDistances
  <2>6. Len(<<>>) = 0
    OBVIOUS
  <2> QED
    BY <1>2, <2>1, <2>2, <2>3, <2>4, <2>5, <2>6 DEF RepsNext
<1>3. CASE ~Advanced
  <2>1. d \in 1 .. MaxStdDistance
    <3>1. MaxStdDistance \in Int
      BY DistanceCodeAssumption DEF MaxStdDistance
    <3> QED
      BY <1>0, <1>3, <3>1, SkandaCodecAssumption DEF MaxDistance
  <2> DEFINE f == StdField(last[1], d)
  <2>2. DistField(last, d) = f /\ DistCodes(last, d) = StdBytes(last[1], d)
    BY <1>3 DEF DistField, DistCodes
  <2>3. Len(StdBytes(last[1], d)) = f
    BY <1>0, <2>1, StdTyped
  <2>4. StdDistance(last[1], f, s, p + 1) = d
    BY <1>0, <2>1, <2>2, StdReadAt
  <2> HIDE DEF f
  <2> QED
    BY <1>3, <2>2, <2>3, <2>4 DEF DistTaken, RepsFrom, RepsNext
<1> QED
  BY <1>1, <1>2, <1>3

-----------------------------------------------------------------------------
(* A match that overlaps its source repeats the bytes before it.           *)
LEMMA MatchRepeats ==
  ASSUME NEW at \in Nat, NEW d \in Nat \ {0}, NEW len \in Nat, IsMatch(at, d, len)
  PROVE  \A i \in 1 .. len : src[at - d + 1 + ((i - 1) % d)] = src[at + i]
<1> DEFINE Off == {i \in 1 .. len : src[at - d + 1 + ((i - 1) % d)] # src[at + i]}
<1>1. SUFFICES ASSUME Off # {}
               PROVE  FALSE
  OBVIOUS
<1>2. PICK m \in Off : \A k \in Off : m <= k
  <2>1. Off \in SUBSET Nat
    OBVIOUS
  <2> HIDE DEF Off
  <2> QED
    BY <1>1, <2>1, LeastNatural
<1>3. /\ m \in 1 .. len /\ src[at + m] = src[at + m - d]
      /\ src[at - d + 1 + ((m - 1) % d)] # src[at + m]
      /\ \A k \in 1 .. len : k < m => src[at - d + 1 + ((k - 1) % d)] = src[at + k]
  <2>1. m \in 1 .. len /\ src[at - d + 1 + ((m - 1) % d)] # src[at + m]
    OBVIOUS
  <2>2. ASSUME NEW k \in 1 .. len, k < m
        PROVE  src[at - d + 1 + ((k - 1) % d)] = src[at + k]
    <3>1. k \notin Off
      BY <1>2, <2>1, <2>2
    <3> QED
      BY <3>1
  <2> QED
    BY <2>1, <2>2 DEF IsMatch
<1> HIDE DEF Off
<1>4. CASE m <= d
  <2>1. m - 1 \in 0 .. (d - 1)
    BY <1>3, <1>4
  <2>2. (m - 1) % d = m - 1
    BY <2>1, ModSmall
  <2>3. at - d + 1 + ((m - 1) % d) = at + m - d
    BY <1>3, <2>2
  <2> QED
    BY <1>3, <2>3
<1>5. CASE ~(m <= d)
  <2>1. m - d \in 1 .. len /\ m - d < m /\ m - 1 \in Nat /\ m - 1 >= d
    BY <1>3, <1>5
  <2>2. (m - 1) % d = (m - d - 1) % d
    <3>1. (m - 1) % d = (m - 1 - d) % d
      BY <2>1, ModShift
    <3>2. m - 1 - d = m - d - 1
      BY <1>3
    <3> QED
      BY <3>1, <3>2
  <2>3. src[at - d + 1 + ((m - d - 1) % d)] = src[at + (m - d)] /\ at + (m - d) = at + m - d
    BY <1>3, <2>1
  <2>4. src[at - d + 1 + ((m - 1) % d)] = src[at + m - d]
    BY <2>2, <2>3
  <2> QED
    BY <1>3, <2>4
<1> QED
  BY <1>4, <1>5, <1>3

-----------------------------------------------------------------------------
(* The literals of a lane are in the stream of that lane, in their order.  *)
LEMMA UsedParts ==
  ASSUME NEW literals, NEW split \in BOOLEAN, NEW lane, NEW m \in Nat, NEW n \in Nat
  PROVE  /\ Used(literals, split, lane, m) \in Nat
         /\ Used(literals, split, lane, m + n) =
              Used(literals, split, lane, m)
                + Cardinality({i \in 1 .. n : LaneOf(split, literals[m + i].at) = lane})
         /\ Used(literals, split, lane, m) <= Used(literals, split, lane, m + n)
<1> DEFINE T == {i \in Nat : LaneOf(split, literals[i].at) = lane}
           whole == {i \in 1 .. (m + n) : LaneOf(split, literals[i].at) = lane}
           left  == {i \in 1 .. m : LaneOf(split, literals[i].at) = lane}
           right == {i \in 1 .. n : LaneOf(split, literals[m + i].at) = lane}
<1>1. T \in SUBSET Nat
  OBVIOUS
<1>2. /\ {i \in 1 .. (m + n) : i \in T} = whole
      /\ {i \in 1 .. m : i \in T} = left
      /\ {i \in 1 .. n : m + i \in T} = right
  OBVIOUS
<1>3. /\ Used(literals, split, lane, m) = Cardinality(left)
      /\ Used(literals, split, lane, m + n) = Cardinality(whole)
  BY DEF Used
<1> HIDE DEF T
<1>4. /\ Cardinality({i \in 1 .. (m + n) : i \in T})
           = Cardinality({i \in 1 .. m : i \in T}) + Cardinality({i \in 1 .. n : m + i \in T})
      /\ Cardinality({i \in 1 .. m : i \in T}) \in Nat
      /\ Cardinality({i \in 1 .. n : m + i \in T}) \in Nat
  BY <1>1, CountParts
<1>5. /\ Cardinality(whole) = Cardinality(left) + Cardinality(right)
      /\ Cardinality(left) \in Nat /\ Cardinality(right) \in Nat
  BY <1>2, <1>4
<1>6. /\ Used(literals, split, lane, m) \in Nat
      /\ Used(literals, split, lane, m + n)
           = Used(literals, split, lane, m) + Cardinality(right)
      /\ Used(literals, split, lane, m) <= Used(literals, split, lane, m + n)
  <2> HIDE DEF whole, left, right
  <2> QED
    BY <1>3, <1>5
<1> QED
  BY <1>6

(* The literals of a lane are counted one after the other. *)
LEMMA UsedNext ==
  ASSUME NEW literals, NEW split \in BOOLEAN, NEW lane, NEW m \in Nat
  PROVE  /\ Used(literals, split, lane, 0) = 0
         /\ Used(literals, split, lane, m + 1) =
              Used(literals, split, lane, m)
                + (IF LaneOf(split, literals[m + 1].at) = lane THEN 1 ELSE 0)
<1>1. {i \in 1 .. 0 : LaneOf(split, literals[i].at) = lane} = {}
  OBVIOUS
<1>2. Used(literals, split, lane, 0) = 0
  BY <1>1, FS_EmptySet DEF Used
<1> DEFINE one == {i \in 1 .. 1 : LaneOf(split, literals[m + i].at) = lane}
<1>3. Used(literals, split, lane, m + 1) = Used(literals, split, lane, m) + Cardinality(one)
  BY UsedParts
<1>4. one = IF LaneOf(split, literals[m + 1].at) = lane THEN {1} ELSE {}
  OBVIOUS
<1>5. Cardinality({1}) = 1 /\ Cardinality({}) = 0
  BY FS_EmptySet, FS_Singleton
<1> HIDE DEF one
<1> QED
  BY <1>2, <1>3, <1>4, <1>5

(* The recursion of LaneStream has a solution.                             *)
SolvesLane(f, literals, mode, lane, m) ==
  f = [n \in 0 .. m |->
         IF n = 0 THEN <<>>
         ELSE IF LaneOf(mode.split, literals[n].at) = lane
              THEN Append(f[n - 1], Symbol(mode, literals[n]))
              ELSE f[n - 1]]

(* The recursive function behind a lane exists. *)
LEMMA LaneRecursion ==
  ASSUME NEW literals, NEW mode, NEW lane, NEW m \in Nat
  PROVE  \E f : SolvesLane(f, literals, mode, lane, m)
<1> DEFINE step(x, n) == IF LaneOf(mode.split, literals[n].at) = lane
                         THEN Append(x, Symbol(mode, literals[n]))
                         ELSE x
           Solves(f, k) == f = [n \in 0 .. k |-> IF n = 0 THEN <<>> ELSE step(f[n - 1], n)]
           Good == {k \in Nat : \E f : Solves(f, k)}
<1> HIDE DEF step
<1>1. 0 \in Good
  <2> DEFINE f == [n \in 0 .. 0 |-> <<>>]
  <2>1. \A n \in 0 .. 0 : n = 0
    OBVIOUS
  <2>2. Solves(f, 0)
    BY <2>1
  <2> QED
    BY <2>2
<1>2. ASSUME NEW k \in Good
      PROVE  k + 1 \in Good
  <2>1. k \in Nat
    OBVIOUS
  <2>2. PICK f : Solves(f, k)
    OBVIOUS
  <2> DEFINE g == [n \in 0 .. (k + 1) |-> IF n = k + 1 THEN step(f[k], n) ELSE f[n]]
  <2>3. \A n \in 0 .. k : f[n] = IF n = 0 THEN <<>> ELSE step(f[n - 1], n)
    BY <2>2
  <2>4. ASSUME NEW n \in 0 .. (k + 1)
        PROVE  g[n] = IF n = 0 THEN <<>> ELSE step(g[n - 1], n)
    <3>1. CASE n = 0
      <4>1. n \in 0 .. k /\ n # k + 1
        BY <2>1, <3>1
      <4> QED
        BY <2>3, <3>1, <4>1
    <3>2. CASE n = k + 1
      <4>1. n # 0 /\ n - 1 = k /\ k \in 0 .. (k + 1) /\ k # k + 1
        BY <2>1, <3>2
      <4>2. g[n] = step(f[k], n) /\ g[k] = f[k]
        BY <3>2, <4>1
      <4> QED
        BY <4>1, <4>2
    <3>3. CASE n # 0 /\ n # k + 1
      <4>1. n \in 0 .. k /\ n - 1 \in 0 .. (k + 1) /\ n - 1 # k + 1
        BY <2>1, <3>3
      <4>2. g[n] = f[n] /\ g[n - 1] = f[n - 1]
        BY <3>3, <4>1
      <4> QED
        BY <2>3, <3>3, <4>1, <4>2
    <3> QED
      BY <3>1, <3>2, <3>3
  <2>5. g = [n \in 0 .. (k + 1) |-> g[n]]
    OBVIOUS
  <2> HIDE DEF g
  <2>6. Solves(g, k + 1)
    BY <2>4, <2>5
  <2> HIDE DEF Solves
  <2> QED
    BY <2>1, <2>6
<1>3. Good \in SUBSET Nat
  OBVIOUS
<1>4. m \in Good
  <2> HIDE DEF Good
  <2> QED
    BY <1>1, <1>2, <1>3, NaturalsAll
<1>5. \E f : Solves(f, m)
  BY <1>4
<1> QED
  BY <1>5 DEF step, SolvesLane

(* A lane holds its literals in their order, as the mode codes them.       *)
LEMMA LaneFacts ==
  ASSUME NEW literals \in Seq(Entry), NEW mode \in [split : BOOLEAN, delta : BOOLEAN], NEW lane
  PROVE  /\ LaneStream(literals, mode, lane) \in Seq(Byte)
         /\ Len(LaneStream(literals, mode, lane))
              = Used(literals, mode.split, lane, Len(literals))
         /\ \A k \in 1 .. Len(literals) :
              LaneOf(mode.split, literals[k].at) = lane =>
                LaneStream(literals, mode, lane)[Used(literals, mode.split, lane, k)]
                  = Symbol(mode, literals[k])
<1> DEFINE first[n \in 0 .. Len(literals)] ==
             IF n = 0 THEN <<>>
             ELSE IF LaneOf(mode.split, literals[n].at) = lane
                  THEN Append(first[n - 1], Symbol(mode, literals[n]))
                  ELSE first[n - 1]
           used(n) == Used(literals, mode.split, lane, n)
           here(n) == LaneOf(mode.split, literals[n].at) = lane
<1>1. LaneStream(literals, mode, lane) = first[Len(literals)]
  BY DEF LaneStream
<1>2. /\ first[0] = <<>>
      /\ \A n \in Nat : n + 1 <= Len(literals) =>
           first[n + 1] = IF here(n + 1) THEN Append(first[n], Symbol(mode, literals[n + 1]))
                          ELSE first[n]
  <2>1. \A n \in 0 .. Len(literals) :
          first[n] = IF n = 0 THEN <<>>
                     ELSE IF here(n) THEN Append(first[n - 1], Symbol(mode, literals[n]))
                          ELSE first[n - 1]
    <3>1. \E f : SolvesLane(f, literals, mode, lane, Len(literals))
      BY LaneRecursion, LenProperties
    <3>2. first = CHOOSE f : SolvesLane(f, literals, mode, lane, Len(literals))
      BY DEF SolvesLane
    <3> HIDE DEF first
    <3>3. SolvesLane(first, literals, mode, lane, Len(literals))
      BY <3>1, <3>2, Zenon
    <3> QED
      BY <3>3 DEF SolvesLane
  <2> HIDE DEF first, here
  <2>2. first[0] = <<>>
    <3>1. 0 \in 0 .. Len(literals)
      BY LenProperties
    <3> QED
      BY <2>1, <3>1
  <2>3. ASSUME NEW n \in Nat, n + 1 <= Len(literals)
        PROVE  first[n + 1] = IF here(n + 1) THEN Append(first[n], Symbol(mode, literals[n + 1]))
                              ELSE first[n]
    <3>1. n + 1 \in 0 .. Len(literals) /\ n + 1 # 0 /\ n + 1 - 1 = n
      BY <2>3, LenProperties
    <3> QED
      BY <2>1, <3>1
  <2> QED
    BY <2>2, <2>3
<1> HIDE DEF first
<1>3. Len(literals) \in Nat /\ mode.split \in BOOLEAN
  BY LenProperties
<1>4. \A n \in 1 .. Len(literals) : Symbol(mode, literals[n]) \in Byte
  <2> TAKE n \in 1 .. Len(literals)
  <2>1. literals[n] \in Entry
    BY ElementOfSeq
  <2> QED
    BY <2>1 DEF Symbol, Entry
<1>5. /\ used(0) = 0
      /\ \A n \in Nat : used(n) \in Nat
      /\ \A n \in Nat : used(n + 1) = used(n) + (IF here(n + 1) THEN 1 ELSE 0)
  <2>1. used(0) = 0
    BY <1>3, UsedNext
  <2>2. ASSUME NEW n \in Nat
        PROVE  used(n) \in Nat
    <3>1. 0 \in Nat
      OBVIOUS
    <3> QED
      BY <1>3, <3>1, UsedParts, Zenon
  <2>3. ASSUME NEW n \in Nat
        PROVE  used(n + 1) = used(n) + (IF here(n + 1) THEN 1 ELSE 0)
    BY SMTT(60), <1>3, UsedNext
  <2> QED
    BY <2>1, <2>2, <2>3
<1> DEFINE GoodAt(n) ==
             /\ first[n] \in Seq(Byte) /\ Len(first[n]) = used(n)
             /\ \A k \in 1 .. n :
                  here(k) => used(k) \in 1 .. used(n) /\ first[n][used(k)] = Symbol(mode, literals[k])
           Good == {n \in Nat : n <= Len(literals) => GoodAt(n)}
<1> HIDE DEF used, here
<1>6. 0 \in Good
  <2>1. first[0] = <<>> /\ used(0) = 0
    BY <1>2, <1>5
  <2>2. <<>> \in Seq(Byte) /\ Len(<<>>) = 0
    OBVIOUS
  <2>3. \A k \in 1 .. 0 : FALSE
    OBVIOUS
  <2>4. GoodAt(0)
    BY <2>1, <2>2, <2>3
  <2> QED
    BY <2>4
<1>7. ASSUME NEW n \in Nat, n + 1 <= Len(literals), GoodAt(n)
      PROVE  GoodAt(n + 1)
  <2> DEFINE old == first[n]
             new == first[n + 1]
             e   == Symbol(mode, literals[n + 1])
  <2>1. old \in Seq(Byte) /\ Len(old) = used(n) /\ used(n) \in Nat /\ e \in Byte
    <3>1. n + 1 \in 1 .. Len(literals)
      BY <1>3, <1>7
    <3> QED
      BY <1>4, <1>5, <1>7, <3>1
  <2>2. \A k \in 1 .. n : here(k) => used(k) \in 1 .. used(n) /\ old[used(k)] = Symbol(mode, literals[k])
    BY <1>7
  <2>3. /\ here(n + 1) => new = Append(old, e) /\ used(n + 1) = used(n) + 1
        /\ ~here(n + 1) => new = old /\ used(n + 1) = used(n)
    <3> HIDE DEF GoodAt
    <3>1. used(n + 1) = used(n) + (IF here(n + 1) THEN 1 ELSE 0) /\ used(n) \in Nat
      BY <1>5
    <3>2. new = IF here(n + 1) THEN Append(old, e) ELSE old
      BY <1>2, <1>7
    <3> QED
      BY <3>1, <3>2
  <2>4. \A k \in 1 .. (n + 1) : k \in 1 .. n \/ k = n + 1
    OBVIOUS
  <2>5. CASE here(n + 1)
    <3>1. /\ new \in Seq(Byte) /\ Len(new) = used(n + 1)
          /\ \A i \in 1 .. used(n) : new[i] = old[i]
          /\ new[used(n + 1)] = e
      <4> HIDE DEF old, new, e, GoodAt
      <4>1. new = Append(old, e) /\ used(n + 1) = used(n) + 1
        BY <2>3, <2>5
      <4>2. /\ Append(old, e) \in Seq(Byte) /\ Len(Append(old, e)) = Len(old) + 1
            /\ \A i \in 1 .. Len(old) : Append(old, e)[i] = old[i]
            /\ Append(old, e)[Len(old) + 1] = e
        BY <2>1, AppendProperties
      <4> QED
        BY <2>1, <4>1, <4>2
    <3>2. ASSUME NEW k \in 1 .. (n + 1), here(k)
          PROVE  used(k) \in 1 .. used(n + 1) /\ new[used(k)] = Symbol(mode, literals[k])
      <4>1. CASE k = n + 1
        BY <4>1, <2>1, <2>3, <2>5, <3>1
      <4>2. CASE k \in 1 .. n
        <5>1. used(k) \in 1 .. used(n) /\ old[used(k)] = Symbol(mode, literals[k])
          BY <4>2, <2>2, <3>2
        <5> HIDE DEF old, new
        <5> QED
          BY <5>1, <2>1, <2>3, <2>5, <3>1
      <4> QED
        BY <4>1, <4>2, <2>4
    <3> QED
      BY <3>1, <3>2
  <2>6. CASE ~here(n + 1)
    <3>1. \A k \in 1 .. (n + 1) : here(k) => k \in 1 .. n
      BY <2>4, <2>6
    <3> QED
      BY <2>1, <2>2, <2>3, <2>6, <3>1
  <2> QED
    BY <2>5, <2>6
<1>8. GoodAt(Len(literals))
  <2>1. Good \in SUBSET Nat
    OBVIOUS
  <2>2. \A n \in Good : n + 1 \in Good
    <3> TAKE n \in Good
    <3>1. n \in Nat /\ (n <= Len(literals) => GoodAt(n))
      OBVIOUS
    <3>2. ASSUME n + 1 <= Len(literals)
          PROVE  GoodAt(n + 1)
      <4> HIDE DEF Good, GoodAt
      <4>1. GoodAt(n)
        BY <1>3, <3>1, <3>2
      <4> QED
        BY <1>7, <3>1, <3>2, <4>1
    <3>3. n + 1 \in Nat
      BY <3>1
    <3> HIDE DEF GoodAt
    <3> QED
      BY <3>2, <3>3
  <2>3. Len(literals) \in Good
    <3> HIDE DEF Good
    <3>1. Good = Nat
      BY <1>6, <2>2, <2>1, NaturalsAll
    <3> QED
      BY <1>3, <3>1
  <2> QED
    BY <1>3, <2>3
<1> QED
  BY <1>1, <1>8 DEF used, here

-----------------------------------------------------------------------------
(* Tokens.                                                                 *)
Typed(b) ==
  /\ b.tokens \in Seq(Tokens) /\ b.dists \in Seq(DistSymbols) /\ b.lens \in Seq(Byte)
  /\ b.literals \in Seq(Entry) /\ b.marks \in Seq(MarkSet)
  /\ b.start \in Nat /\ b.base \in Rep

(* What is known after a token is a mark. *)
LEMMA AfterTyped ==
  ASSUME NEW b, Typed(b), Len(b.marks) = Len(b.tokens), NEW t \in 0 .. Len(b.tokens)
  PROVE  After(b, t) \in MarkSet
<1>1. CASE t = 0
  BY <1>1 DEF Typed, After, First, MarkSet
<1>2. CASE t # 0
  <2>1. t \in 1 .. Len(b.marks)
    BY <1>2, LenProperties DEF Typed
  <2>2. b.marks[t] \in MarkSet
    BY <2>1, ElementOfSeq DEF Typed
  <2> QED
    BY <1>2, <2>2 DEF After
<1> QED
  BY <1>1, <1>2

(* Every token writes at least one byte, and none past the end. *)
LEMMA TokenGrows ==
  ASSUME NEW b, NEW delta, NEW end \in Nat, NEW t \in Nat, After(b, t - 1) \in MarkSet,
         TokenWritten(b, delta, end, t)
  PROVE  After(b, t - 1).out < After(b, t).out /\ After(b, t).out <= end
<1> DEFINE a == After(b, t - 1)
           c == After(b, t)
<1>0. a.out \in Nat
  BY DEF MarkSet
<1>1. CASE MatchWritten(b, delta, a, b.tokens[t], c, end)
  <2>1. PICK run \in 0 .. MaxBlock, len \in MinMatch .. MaxBlock :
          a.out + run + len <= end /\ c.out = a.out + run + len
    <3> HIDE DEF a, c
    <3> QED
      BY <1>1 DEF MatchWritten
  <2> QED
    BY <1>0, <2>1, Widths
<1>2. CASE TailWritten(b, delta, a, b.tokens[t], c, end)
  <2>1. PICK run \in 1 .. MaxBlock : a.out + run = end /\ c.out = end
    <3> HIDE DEF a, c
    <3> QED
      BY <1>2 DEF TailWritten
  <2> QED
    BY <1>0, <2>1, Widths
<1> QED
  BY <1>1, <1>2 DEF TokenWritten

(* b2 has the streams of b, perhaps with more symbols behind.              *)
Grown(b, b2) ==
  \E x \in Seq(Entry), y \in Seq(DistSymbols), z \in Seq(Byte) :
    /\ b2.literals = b.literals \o x
    /\ b2.dists = b.dists \o y
    /\ b2.lens = b.lens \o z

(* A token stays true of a block whose streams have grown.                 *)
LEMMA TokenKept ==
  ASSUME src \in Seq(Byte), NEW end \in Nat, end <= Len(src),
         NEW b, NEW b2, NEW delta, NEW delta2, delta2 => delta,
         Typed(b), Grown(b, b2),
         NEW t \in Nat, After(b2, t - 1) = After(b, t - 1), After(b2, t) = After(b, t),
         b2.tokens[t] = b.tokens[t],
         After(b, t - 1) \in MarkSet, TokenWritten(b, delta, end, t)
  PROVE  TokenWritten(b2, delta2, end, t)
<1> DEFINE a == After(b, t - 1)
           c == After(b, t)
           tok == b.tokens[t]
<1> HIDE DEF a, c, tok
<1>0. /\ a.out \in Nat /\ a.lit \in Nat /\ a.dist \in Nat /\ a.len \in Nat
      /\ a.reps \in Rep /\ a.reps[1] \in Nat \ {0}
  <2>1. a \in MarkSet
    BY DEF a
  <2>2. a.reps \in Rep
    BY <2>1 DEF MarkSet
  <2> QED
    BY <2>1, <2>2 DEF MarkSet, Rep
<1>01. /\ \A p \in Nat, code \in Seq(Entry) :
            Stands(b.literals, p, code) => Stands(b2.literals, p, code)
       /\ \A p \in Nat, code \in Seq(DistSymbols) :
            Stands(b.dists, p, code) => Stands(b2.dists, p, code)
       /\ \A p \in Nat, code \in Seq(Byte) :
            Stands(b.lens, p, code) => Stands(b2.lens, p, code)
  <2>1. PICK x \in Seq(Entry), y \in Seq(DistSymbols), z \in Seq(Byte) :
          /\ b2.literals = b.literals \o x
          /\ b2.dists = b.dists \o y
          /\ b2.lens = b.lens \o z
    BY DEF Grown
  <2>2. ASSUME NEW p \in Nat, NEW code \in Seq(Entry), Stands(b.literals, p, code)
        PROVE  Stands(b2.literals, p, code)
    BY <2>1, <2>2, StandsLonger DEF Typed
  <2>3. ASSUME NEW p \in Nat, NEW code \in Seq(DistSymbols), Stands(b.dists, p, code)
        PROVE  Stands(b2.dists, p, code)
    BY <2>1, <2>3, StandsLonger DEF Typed
  <2>4. ASSUME NEW p \in Nat, NEW code \in Seq(Byte), Stands(b.lens, p, code)
        PROVE  Stands(b2.lens, p, code)
    BY <2>1, <2>4, StandsLonger DEF Typed
  <2> QED
    BY <2>2, <2>3, <2>4
<1>1. ASSUME NEW run \in 0 .. MaxBlock, RunWritten(b, delta, a, tok, run, end)
      PROVE  RunWritten(b2, delta2, a, tok, run, end)
  <2> DEFINE es == Entries(a.out, a.out + run, a.reps[1])
  <2>1. a.out + run <= Len(src) /\ run \in Nat
    BY <1>0, <1>1, Widths, LenProperties DEF RunWritten
  <2>2. es \in Seq(Entry)
    BY <1>0, <2>1, EntriesOf, Zenon DEF RunEntries
  <2>3. Stands(b.literals, a.lit, es)
    BY <1>1 DEF RunWritten
  <2> HIDE DEF es
  <2>4. Stands(b2.literals, a.lit, es)
    BY <1>0, <1>01, <2>2, <2>3
  <2> QED
    BY <1>1, <2>4 DEF RunWritten, es
<1>2. CASE MatchWritten(b, delta, a, tok, c, end)
  <2>1. PICK run \in 0 .. MaxBlock, len \in MinMatch .. MaxBlock, d \in 1 .. MaxDistance :
          /\ RunWritten(b, delta, a, tok, run, end)
          /\ a.out + run + len <= end
          /\ IsMatch(a.out + run, d, len)
          /\ tok.dist = DistField(a.reps, d)
          /\ tok.len = OneField(len)
          /\ Stands(b.dists, a.dist, DistCodes(a.reps, d))
          /\ Stands(b.lens, a.len, LiteralCodes(run) \o OneCode(len))
          /\ c = [out  |-> a.out + run + len,
                  reps |-> RepsNext(a.reps, d),
                  dist |-> a.dist + Len(DistCodes(a.reps, d)),
                  len  |-> a.len + Len(LiteralCodes(run) \o OneCode(len)),
                  lit  |-> a.lit + run]
    BY <1>2 DEF MatchWritten
  <2>2. Stands(b2.dists, a.dist, DistCodes(a.reps, d))
    BY <1>0, <1>01, <2>1, DistTyped
  <2>3. Stands(b2.lens, a.len, LiteralCodes(run) \o OneCode(len))
    <3>1. LiteralCodes(run) \o OneCode(len) \in Seq(Byte)
      BY RunRead, MatchLenRead, ConcatProperties
    <3> QED
      BY <1>0, <1>01, <2>1, <3>1
  <2>4. MatchWritten(b2, delta2, a, tok, c, end)
    BY <1>1, <2>1, <2>2, <2>3 DEF MatchWritten
  <2> QED
    BY <2>4 DEF TokenWritten, a, c, tok
<1>3. CASE TailWritten(b, delta, a, tok, c, end)
  <2>1. PICK run \in 1 .. MaxBlock :
          /\ RunWritten(b, delta, a, tok, run, end)
          /\ tok.dist = 0 /\ tok.len = 0
          /\ Stands(b.lens, a.len, LiteralCodes(run))
          /\ a.out + run = end
          /\ c = [out  |-> end,
                  reps |-> a.reps,
                  dist |-> a.dist,
                  len  |-> a.len + Len(LiteralCodes(run)),
                  lit  |-> a.lit + run]
    BY <1>3 DEF TailWritten
  <2>2. run \in 0 .. MaxBlock
    OBVIOUS
  <2>3. Stands(b2.lens, a.len, LiteralCodes(run))
    BY <1>0, <1>01, <2>1, <2>2, RunRead
  <2>4. TailWritten(b2, delta2, a, tok, c, end)
    BY <1>1, <2>1, <2>2, <2>3 DEF TailWritten
  <2> QED
    BY <2>4 DEF TokenWritten, a, c, tok
<1> QED
  BY <1>2, <1>3 DEF TokenWritten, a, c, tok

(* One more token. *)
LEMMA AppendToken ==
  ASSUME src \in Seq(Byte), NEW end \in Nat, end <= Len(src),
         NEW w, NEW w2, Typed(w), Typed(w2), w2.start = w.start, w2.base = w.base,
         NEW delta, NEW delta2, delta2 => delta,
         NEW a \in MarkSet, TokensWritten(w, delta, a.out, a.reps, end),
         a.dist = Len(w.dists), a.len = Len(w.lens), a.lit = Len(w.literals),
         Grown(w, w2),
         NEW tok \in Tokens, w2.tokens = Append(w.tokens, tok),
         NEW c \in MarkSet, w2.marks = Append(w.marks, c),
         MatchWritten(w2, delta2, a, tok, c, end) \/ TailWritten(w2, delta2, a, tok, c, end),
         c.dist = Len(w2.dists), c.len = Len(w2.lens), c.lit = Len(w2.literals)
  PROVE  TokensWritten(w2, delta2, c.out, c.reps, end)
<1> DEFINE n == Len(w.tokens)
<1>1. /\ n \in Nat /\ Len(w2.tokens) = n + 1
      /\ \A t \in 1 .. n : w2.tokens[t] = w.tokens[t]
      /\ w2.tokens[n + 1] = tok
  BY SMTT(60), AppendProperties, LenProperties DEF Typed
<1>2. /\ Len(w.marks) = n /\ Len(w2.marks) = n + 1
      /\ \A t \in 1 .. n : w2.marks[t] = w.marks[t]
      /\ w2.marks[n + 1] = c
  <2>1. Len(w.marks) = n
    BY DEF TokensWritten
  <2>2. w.marks \in Seq(MarkSet)
    BY DEF Typed
  <2> HIDE DEF n
  <2> QED
    BY SMTT(60), <2>1, <2>2, AppendProperties
<1>3. After(w, n) = a
  <2>1. a = [out |-> a.out, reps |-> a.reps, dist |-> a.dist, len |-> a.len, lit |-> a.lit]
    BY DEF MarkSet
  <2> QED
    BY <2>1, Zenon DEF TokensWritten
<1>4. /\ \A t \in 0 .. n : After(w2, t) = After(w, t)
      /\ After(w2, n + 1) = c
  <2> HIDE DEF n
  <2>1. First(w2) = First(w)
    BY DEF First
  <2>2. ASSUME NEW t \in 0 .. n
        PROVE  After(w2, t) = After(w, t)
    <3>1. t = 0 \/ t \in 1 .. n
      BY <1>1
    <3> QED
      BY <2>1, <3>1, <1>2 DEF After
  <2>3. n + 1 # 0
    BY <1>1
  <2> QED
    BY <2>2, <2>3, <1>2 DEF After
<1> HIDE DEF n
<1>5. ASSUME NEW t \in 1 .. n
      PROVE  TokenWritten(w2, delta2, end, t)
  <2>1. /\ t \in Nat /\ t - 1 \in 0 .. n /\ t \in 0 .. n
    BY <1>1
  <2>2. After(w, t - 1) \in MarkSet
    BY <2>1, <1>2, AfterTyped DEF n
  <2>3. TokenWritten(w, delta, end, t)
    BY DEF TokensWritten, n
  <2>4. After(w2, t - 1) = After(w, t - 1) /\ After(w2, t) = After(w, t)
    BY <2>1, <1>4
  <2>5. w2.tokens[t] = w.tokens[t]
    BY <1>1
  <2>6. delta2 => delta
    OBVIOUS
  <2>7. Typed(w) /\ Grown(w, w2)
    OBVIOUS
  <2> QED
    BY <2>1, <2>2, <2>3, <2>4, <2>5, <2>6, <2>7, TokenKept, ZenonT(30)
<1>6. TokenWritten(w2, delta2, end, n + 1)
  <2>1. n + 1 - 1 = n /\ n \in 0 .. n
    BY <1>1
  <2>2. After(w2, n + 1 - 1) = a
    BY <2>1, <1>3, <1>4
  <2> QED
    BY <2>2, <1>1, <1>4 DEF TokenWritten
<1>7. \A t \in 1 .. Len(w2.tokens) : TokenWritten(w2, delta2, end, t)
  <2>1. \A t \in 1 .. n + 1 : t \in 1 .. n \/ t = n + 1
    BY SMTT(60), <1>1
  <2> QED
    BY <2>1, <1>1, <1>5, <1>6
<1>8. c = [out |-> c.out, reps |-> c.reps, dist |-> c.dist, len |-> c.len, lit |-> c.lit]
  BY DEF MarkSet
<1> QED
  BY <1>1, <1>2, <1>4, <1>7, <1>8 DEF TokensWritten

(* b2 is b with one more token, its symbols and the mark after it.         *)
Adds(b, b2, x, y, z, tok, c) ==
  /\ b2.start = b.start /\ b2.base = b.base
  /\ b2.literals = b.literals \o x
  /\ b2.dists = b.dists \o y
  /\ b2.lens = b.lens \o z
  /\ b2.tokens = Append(b.tokens, tok)
  /\ b2.marks = Append(b.marks, c)

(* The streams of b2 end with the symbols of that token.                   *)
Ends(b, b2, x, y, z) ==
  /\ Typed(b2)
  /\ Grown(b, b2)
  /\ Stands(b2.literals, Len(b.literals), x)
  /\ Stands(b2.dists, Len(b.dists), y)
  /\ Stands(b2.lens, Len(b.lens), z)
  /\ Len(b2.literals) = Len(b.literals) + Len(x)
  /\ Len(b2.dists) = Len(b.dists) + Len(y)
  /\ Len(b2.lens) = Len(b.lens) + Len(z)

(* A token adds to the ends of the streams. *)
LEMMA AddsTyped ==
  ASSUME NEW b, NEW b2, Typed(b), NEW x \in Seq(Entry), NEW y \in Seq(DistSymbols),
         NEW z \in Seq(Byte), NEW tok \in Tokens, NEW c \in MarkSet, Adds(b, b2, x, y, z, tok, c)
  PROVE  Ends(b, b2, x, y, z)
<1>1. /\ b.literals \in Seq(Entry) /\ b.dists \in Seq(DistSymbols) /\ b.lens \in Seq(Byte)
      /\ b.tokens \in Seq(Tokens) /\ b.marks \in Seq(MarkSet) /\ b.start \in Nat /\ b.base \in Rep
  BY DEF Typed
<1>2. /\ b2.literals \in Seq(Entry) /\ Len(b2.literals) = Len(b.literals) + Len(x)
      /\ Stands(b2.literals, Len(b.literals), x)
  BY SMTT(60), <1>1, ConcatProperties, StandsLast DEF Adds
<1>3. /\ b2.dists \in Seq(DistSymbols) /\ Len(b2.dists) = Len(b.dists) + Len(y)
      /\ Stands(b2.dists, Len(b.dists), y)
  BY SMTT(60), <1>1, ConcatProperties, StandsLast DEF Adds
<1>4. /\ b2.lens \in Seq(Byte) /\ Len(b2.lens) = Len(b.lens) + Len(z)
      /\ Stands(b2.lens, Len(b.lens), z)
  BY <1>1, ConcatProperties, StandsLast DEF Adds
<1>5. b2.tokens \in Seq(Tokens)
  BY <1>1, AppendProperties DEF Adds
<1>6. b2.marks \in Seq(MarkSet)
  BY <1>1, AppendProperties DEF Adds
<1>7. b2.start \in Nat /\ b2.base \in Rep
  BY <1>1 DEF Adds
<1>8. Grown(b, b2)
  BY DEF Adds, Grown
<1> QED
  BY <1>2, <1>3, <1>4, <1>5, <1>6, <1>7, <1>8 DEF Typed, Ends

(* One more token with a match, which one token holds.                     *)
LEMMA AddMatch ==
  ASSUME src \in Seq(Byte), NEW end \in Nat, end <= Len(src),
         NEW w, NEW w2, Typed(w), NEW delta, NEW delta2, delta2 => delta,
         NEW out \in Nat, NEW last \in Rep, TokensWritten(w, delta, out, last, end),
         NEW run \in 0 .. MaxBlock, NEW len \in MinMatch .. MaxBlock, NEW d \in 1 .. MaxDistance,
         out + run + len <= end, IsMatch(out + run, d, len),
         delta2 => HasRef(out, out + run, last[1]),
         NEW tok \in Tokens, NEW c \in MarkSet,
         Adds(w, w2, Entries(out, out + run, last[1]), DistCodes(last, d),
              LiteralCodes(run) \o OneCode(len), tok, c)
  PROVE  /\ tok.lit = LiteralField(run) /\ tok.dist = DistField(last, d)
         /\ tok.len = OneField(len)
         /\ c.out = out + run + len /\ c.reps = RepsNext(last, d)
         /\ c.dist = Len(w2.dists) /\ c.len = Len(w2.lens) /\ c.lit = Len(w2.literals)
         => /\ Typed(w2)
            /\ TokensWritten(w2, delta2, out + run + len, RepsNext(last, d), end)
<1> DEFINE es  == Entries(out, out + run, last[1])
           dc  == DistCodes(last, d)
           lc  == LiteralCodes(run) \o OneCode(len)
<1>1. last[1] \in Nat \ {0} /\ run \in Nat /\ len \in Nat /\ Len(src) \in Nat
  <2>1. last[1] \in Nat \ {0}
    BY DEF Rep
  <2>2. run \in Nat /\ len \in Nat
    BY Widths
  <2>3. Len(src) \in Nat
    BY LenProperties
  <2> QED
    BY <2>1, <2>2, <2>3
<1>2. out + run <= Len(src) /\ out + run <= end
  BY <1>1
<1>3. es \in Seq(Entry) /\ Len(es) = run
  <2>1. RunEntries(es, out, run, last[1])
    BY <1>1, <1>2, EntriesOf, Zenon
  <2> QED
    BY <2>1 DEF RunEntries
<1>4. dc \in Seq(DistSymbols)
  BY DistTyped
<1>5. lc \in Seq(Byte)
  BY RunRead, MatchLenRead, ConcatProperties
<1> HIDE DEF es, dc, lc
<1>6. Adds(w, w2, es, dc, lc, tok, c)
  BY DEF es, dc, lc
<1>7. /\ Typed(w2)
      /\ Grown(w, w2)
      /\ Stands(w2.literals, Len(w.literals), es)
      /\ Stands(w2.dists, Len(w.dists), dc)
      /\ Stands(w2.lens, Len(w.lens), lc)
      /\ Len(w2.literals) = Len(w.literals) + Len(es)
      /\ Len(w2.dists) = Len(w.dists) + Len(dc)
      /\ Len(w2.lens) = Len(w.lens) + Len(lc)
  <2>1. es \in Seq(Entry) /\ dc \in Seq(DistSymbols) /\ lc \in Seq(Byte)
    BY <1>3, <1>4, <1>5
  <2>2. tok \in Tokens /\ c \in MarkSet /\ Typed(w)
    OBVIOUS
  <2>3. Ends(w, w2, es, dc, lc)
    BY <2>1, <2>2, <1>6, AddsTyped, Zenon
  <2> QED
    BY <2>3 DEF Ends
<1> DEFINE a == [out |-> out, reps |-> last, dist |-> Len(w.dists), len |-> Len(w.lens),
                 lit |-> Len(w.literals)]
<1>8. /\ a \in MarkSet /\ a.out = out /\ a.reps = last /\ a.dist = Len(w.dists)
      /\ a.len = Len(w.lens) /\ a.lit = Len(w.literals)
  <2>1. Len(w.dists) \in Nat /\ Len(w.lens) \in Nat /\ Len(w.literals) \in Nat
    BY LenProperties DEF Typed
  <2> QED
    BY <2>1 DEF MarkSet
<1> HIDE DEF a
<1> HAVE /\ tok.lit = LiteralField(run) /\ tok.dist = DistField(last, d)
         /\ tok.len = OneField(len)
         /\ c.out = out + run + len /\ c.reps = RepsNext(last, d)
         /\ c.dist = Len(w2.dists) /\ c.len = Len(w2.lens) /\ c.lit = Len(w2.literals)
<1>9. RunWritten(w2, delta2, a, tok, run, end)
  BY <1>2, <1>7, <1>8 DEF RunWritten, es
<1>10. MatchWritten(w2, delta2, a, tok, c, end)
  <2>1. c = [out |-> c.out, reps |-> c.reps, dist |-> c.dist, len |-> c.len, lit |-> c.lit]
    BY DEF MarkSet
  <2>2. /\ c.out = a.out + run + len /\ c.reps = RepsNext(a.reps, d)
        /\ c.dist = a.dist + Len(dc) /\ c.len = a.len + Len(lc) /\ c.lit = a.lit + run
    BY <1>3, <1>7, <1>8
  <2>3. c = [out |-> a.out + run + len, reps |-> RepsNext(a.reps, d),
             dist |-> a.dist + Len(dc), len |-> a.len + Len(lc), lit |-> a.lit + run]
    BY <2>1, <2>2, Zenon
  <2> QED
    BY <2>3, <1>7, <1>8, <1>9 DEF MatchWritten, dc, lc
<1>11. Typed(w2) /\ w2.start = w.start /\ w2.base = w.base /\ w2.tokens = Append(w.tokens, tok)
       /\ w2.marks = Append(w.marks, c)
  BY <1>7 DEF Adds
<1>12. TokensWritten(w, delta, a.out, a.reps, end)
  BY <1>8
<1>13. TokensWritten(w2, delta2, c.out, c.reps, end)
  BY <1>7, <1>8, <1>10, <1>11, <1>12, AppendToken
<1> QED
  BY <1>7, <1>13

(* One more token with the last literals of a block.                       *)
LEMMA AddTail ==
  ASSUME src \in Seq(Byte), NEW end \in Nat, end <= Len(src),
         NEW w, NEW w2, Typed(w), NEW delta, NEW delta2, delta2 => delta,
         NEW out \in Nat, NEW last \in Rep, TokensWritten(w, delta, out, last, end),
         NEW run \in 1 .. MaxBlock, out + run <= end,
         delta2 => HasRef(out, out + run, last[1]),
         NEW tok \in Tokens, NEW c \in MarkSet,
         NEW no \in Seq(DistSymbols), Len(no) = 0,
         Adds(w, w2, Entries(out, out + run, last[1]), no, LiteralCodes(run), tok, c)
  PROVE  /\ tok.lit = LiteralField(run) /\ tok.dist = 0 /\ tok.len = 0
         /\ out + run = end /\ c.out = end /\ c.reps = last
         /\ c.dist = Len(w2.dists) /\ c.len = Len(w2.lens) /\ c.lit = Len(w2.literals)
         => /\ Typed(w2)
            /\ TokensWritten(w2, delta2, end, last, end)
<1> DEFINE es == Entries(out, out + run, last[1])
           lc == LiteralCodes(run)
<1>1. last[1] \in Nat \ {0} /\ run \in Nat /\ Len(src) \in Nat /\ run \in 0 .. MaxBlock
  <2>1. last[1] \in Nat \ {0}
    BY DEF Rep
  <2>2. run \in Nat /\ run \in 0 .. MaxBlock
    BY Widths
  <2>3. Len(src) \in Nat
    BY LenProperties
  <2> QED
    BY <2>1, <2>2, <2>3
<1>2. out + run <= Len(src) /\ out + run <= end
  BY <1>1
<1>3. es \in Seq(Entry) /\ Len(es) = run
  <2>1. RunEntries(es, out, run, last[1])
    BY <1>1, <1>2, EntriesOf, Zenon
  <2> QED
    BY <2>1 DEF RunEntries
<1>5. lc \in Seq(Byte)
  BY <1>1, RunRead
<1> HIDE DEF es, lc
<1>6. Adds(w, w2, es, no, lc, tok, c)
  BY DEF es, lc
<1>7. /\ Typed(w2)
      /\ Grown(w, w2)
      /\ Stands(w2.literals, Len(w.literals), es)
      /\ Stands(w2.lens, Len(w.lens), lc)
      /\ Len(w2.literals) = Len(w.literals) + Len(es)
      /\ Len(w2.dists) = Len(w.dists) + Len(no)
      /\ Len(w2.lens) = Len(w.lens) + Len(lc)
  <2>1. es \in Seq(Entry) /\ no \in Seq(DistSymbols) /\ lc \in Seq(Byte)
    BY <1>3, <1>5
  <2>2. tok \in Tokens /\ c \in MarkSet /\ Typed(w)
    OBVIOUS
  <2>3. Ends(w, w2, es, no, lc)
    BY <2>1, <2>2, <1>6, AddsTyped, Zenon
  <2> QED
    BY <2>3 DEF Ends
<1> DEFINE a == [out |-> out, reps |-> last, dist |-> Len(w.dists), len |-> Len(w.lens),
                 lit |-> Len(w.literals)]
<1>8. /\ a \in MarkSet /\ a.out = out /\ a.reps = last /\ a.dist = Len(w.dists)
      /\ a.len = Len(w.lens) /\ a.lit = Len(w.literals) /\ Len(w.dists) \in Nat
  <2>1. Len(w.dists) \in Nat /\ Len(w.lens) \in Nat /\ Len(w.literals) \in Nat
    BY LenProperties DEF Typed
  <2> QED
    BY <2>1 DEF MarkSet
<1> HIDE DEF a
<1> HAVE /\ tok.lit = LiteralField(run) /\ tok.dist = 0 /\ tok.len = 0
         /\ out + run = end /\ c.out = end /\ c.reps = last
         /\ c.dist = Len(w2.dists) /\ c.len = Len(w2.lens) /\ c.lit = Len(w2.literals)
<1>9. RunWritten(w2, delta2, a, tok, run, end)
  BY <1>2, <1>7, <1>8 DEF RunWritten, es
<1>10. TailWritten(w2, delta2, a, tok, c, end)
  <2>1. c = [out |-> c.out, reps |-> c.reps, dist |-> c.dist, len |-> c.len, lit |-> c.lit]
    BY DEF MarkSet
  <2>2. /\ c.out = end /\ c.reps = a.reps
        /\ c.dist = a.dist /\ c.len = a.len + Len(lc) /\ c.lit = a.lit + run
    BY <1>3, <1>7, <1>8
  <2>3. c = [out |-> end, reps |-> a.reps, dist |-> a.dist, len |-> a.len + Len(lc),
             lit |-> a.lit + run]
    BY <2>1, <2>2, Zenon
  <2> QED
    BY <2>3, <1>7, <1>8, <1>9 DEF TailWritten, lc
<1>11. Typed(w2) /\ w2.start = w.start /\ w2.base = w.base /\ w2.tokens = Append(w.tokens, tok)
       /\ w2.marks = Append(w.marks, c)
  BY <1>7 DEF Adds
<1>12. TokensWritten(w, delta, a.out, a.reps, end)
  BY <1>8
<1>13. TokensWritten(w2, delta2, c.out, c.reps, end)
  BY <1>7, <1>8, <1>10, <1>11, <1>12, AppendToken
<1> QED
  BY <1>7, <1>13

(* A sequence of one or two elements behind another. *)
LEMMA AppendBoth ==
  ASSUME NEW S, NEW s \in Seq(S), NEW a \in S, NEW b \in S
  PROVE  s \o <<a>> = Append(s, a) /\ s \o <<a, b>> = Append(Append(s, a), b)
<1>1. s \o <<a>> = Append(s, a)
  BY AppendIsConcat
<1> DEFINE two == <<a, b>>
           t1  == Append(s, a)
           t2  == Append(t1, b)
<1>2. two \in Seq(S) /\ Len(two) = 2 /\ two[1] = a /\ two[2] = b
  OBVIOUS
<1>3. t1 \in Seq(S) /\ Len(t1) = Len(s) + 1 /\ t1[Len(s) + 1] = a
      /\ \A i \in 1 .. Len(s) : t1[i] = s[i]
  BY AppendProperties
<1> HIDE DEF two, t1
<1>4. t2 \in Seq(S) /\ Len(t2) = Len(t1) + 1 /\ t2[Len(t1) + 1] = b
      /\ \A i \in 1 .. Len(t1) : t2[i] = t1[i]
  BY <1>3, AppendProperties
<1>5. s \o two \in Seq(S) /\ Len(s \o two) = Len(s) + Len(two)
      /\ \A i \in 1 .. Len(s) + Len(two) :
           (s \o two)[i] = IF i <= Len(s) THEN s[i] ELSE two[i - Len(s)]
  BY <1>2, ConcatProperties
<1> DEFINE st == s \o two
<1> HIDE DEF t2, st
<1>6. \A i \in 1 .. Len(st) : st[i] = t2[i]
  <2>1. Len(s) \in Nat
    BY LenProperties
  <2> TAKE i \in 1 .. Len(st)
  <2>2. i \in 1 .. (Len(s) + 2) /\ (i <= Len(s) \/ i = Len(s) + 1 \/ i = Len(s) + 2)
    BY <2>1, <1>2, <1>5 DEF st
  <2>3. CASE i <= Len(s)
    <3>1. i \in 1 .. Len(s) /\ i \in 1 .. Len(t1) /\ i \in 1 .. Len(s) + Len(two)
      BY <2>1, <2>2, <2>3, <1>2, <1>3
    <3> QED
      BY <3>1, <2>3, <1>3, <1>4, <1>5 DEF st
  <2>4. CASE i = Len(s) + 1
    <3>1. i \in 1 .. Len(t1) /\ i \in 1 .. Len(s) + Len(two) /\ ~(i <= Len(s)) /\ i - Len(s) = 1
      BY <2>1, <2>4, <1>2, <1>3
    <3> QED
      BY <3>1, <2>4, <1>2, <1>3, <1>4, <1>5 DEF st
  <2>5. CASE i = Len(s) + 2
    <3>1. i = Len(t1) + 1 /\ i \in 1 .. Len(s) + Len(two) /\ ~(i <= Len(s)) /\ i - Len(s) = 2
      BY <2>1, <2>5, <1>2, <1>3
    <3> QED
      BY <3>1, <1>2, <1>4, <1>5 DEF st
  <2> QED
    BY <2>2, <2>3, <2>4, <2>5
<1>7. st = t2
  <2>1. Len(st) = Len(t2) /\ st \in Seq(S) /\ t2 \in Seq(S)
    <3>1. Len(s) \in Nat
      BY LenProperties
    <3> QED
      BY <3>1, <1>2, <1>3, <1>4, <1>5 DEF st, t2
  <2> QED
    BY <2>1, <1>6, SeqEqual
<1> QED
  BY <1>1, <1>7 DEF st, two, t2, t1

(* Two marks are appended one by one. *)
LEMMA MarksAppended ==
  ASSUME NEW s \in Seq(MarkSet), NEW a \in MarkSet, NEW b \in MarkSet
  PROVE  s \o <<a, b>> = Append(Append(s, a), b)
<1>1. \A S : \A t \in Seq(S) : \A x, y \in S : t \o <<x, y>> = Append(Append(t, x), y)
  BY AppendBoth
<1> QED
  BY <1>1

(* Concatenation of bytes is associative. *)
LEMMA BytesJoined ==
  ASSUME NEW a \in Seq(Byte), NEW b \in Seq(Byte), NEW c \in Seq(Byte)
  PROVE  (a \o b) \o c = a \o (b \o c)
BY SMTT(60), ConcatAssociative

(* The block w2 is the block w, further on.                                *)
SameBlock(w, w2) == w2.start = w.start /\ w2.base = w.base /\ w2.end = w.end

(* What WorkWritten says of a block, for the lemmas that add tokens.       *)
LEMMA WorkParts ==
  ASSUME src \in Seq(Byte), NEW w, WorkWritten(w)
  PROVE  /\ Typed(w)
         /\ w.litStart \in Nat \ {0} /\ w.reps \in Rep /\ w.reps[1] \in Nat \ {0}
         /\ w.start \in Nat /\ w.end \in Nat /\ w.end <= Len(src)
         /\ w.start <= w.litStart /\ w.litStart <= w.end /\ w.end - w.litStart \in 0 .. MaxBlock
         /\ w.noHuffman \in BOOLEAN /\ w.deltaOK \in BOOLEAN
         /\ TokensWritten(w, w.deltaOK, w.litStart, w.reps, w.end)
<1>1. w \in WorkSet
  BY DEF WorkWritten
<1>2. /\ w.start \in Nat /\ w.base \in Rep /\ w.end \in Nat /\ w.litStart \in Nat
      /\ w.reps \in Rep /\ w.noHuffman \in BOOLEAN /\ w.deltaOK \in BOOLEAN
      /\ w.tokens \in Seq(Tokens) /\ w.dists \in Seq(DistSymbols) /\ w.lens \in Seq(Byte)
      /\ w.literals \in Seq(Entry) /\ w.marks \in Seq(MarkSet)
  BY <1>1 DEF WorkSet
<1>3. Typed(w)
  BY <1>2 DEF Typed
<1>4. w.reps[1] \in Nat \ {0}
  BY <1>2 DEF Rep
<1>5. /\ w.litStart # 0 /\ w.start <= w.litStart /\ w.litStart <= w.end
      /\ w.end <= w.start + MaxBlock /\ w.end <= Limit
  BY <1>2 DEF WorkWritten
<1>6. w.end <= Len(src) /\ w.end - w.litStart \in 0 .. MaxBlock
  <2>1. Len(src) \in Nat /\ LastBytes \in Nat /\ MaxBlock \in Nat
    BY LenProperties, Widths
  <2> QED
    BY SMTT(60), <2>1, <1>2, <1>5 DEF Limit
<1>7. TokensWritten(w, w.deltaOK, w.litStart, w.reps, w.end)
  BY DEF WorkWritten
<1> QED
  BY <1>2, <1>3, <1>4, <1>5, <1>6, <1>7

(* w2 has the fields of the block w with one more match.                   *)
Matched(w, w2, at, d, len) ==
  LET fields == MatchFields(len, w.noHuffman)
  IN  /\ DOMAIN w2 = DOMAIN w
      /\ w2 = [x \in DOMAIN w |-> w2[x]]
      /\ SameBlock(w, w2)
      /\ w2.noHuffman = w.noHuffman
      /\ w2.litStart = at + len
      /\ w2.reps = RepsNext(w.reps, d)
      /\ w2.literals = w.literals \o Entries(w.litStart, at, w.reps[1])
      /\ w2.deltaOK = (w.deltaOK /\ HasRef(w.litStart, at, w.reps[1]))
      /\ w2.dists = w.dists \o DistCodes(w.reps, d)
      /\ w2.lens = (w.lens \o LiteralCodes(at - w.litStart)) \o MatchCodes(len, w.noHuffman)
      /\ w2.tokens = Append(w.tokens, [lit  |-> LiteralField(at - w.litStart),
                                       dist |-> DistField(w.reps, d),
                                       len  |-> fields[1]])
                       \o [i \in 1 .. (Len(fields) - 1) |->
                             [lit |-> 0, dist |-> 0, len |-> fields[i + 1]]]
      /\ w2.marks = w.marks \o [i \in 1 .. Len(fields) |->
                                 Mark(IF i = Len(fields) THEN at + len
                                      ELSE at + MinMatch + fields[1], w2)]

(* WithMatch adds a run, a match and their tokens. *)
LEMMA MatchAdded ==
  ASSUME NEW w \in WorkSet, NEW at, NEW d, NEW len
  PROVE  Matched(w, WithMatch(w, at, d, len), at, d, len)
<1> DEFINE fields == MatchFields(len, w.noHuffman)
           first  == [lit |-> LiteralField(at - w.litStart),
                      dist |-> DistField(w.reps, d), len |-> fields[1]]
           rest   == [i \in 1 .. (Len(fields) - 1) |->
                        [lit |-> 0, dist |-> 0, len |-> fields[i + 1]]]
           ls == at + len
           rp == RepsNext(w.reps, d)
           li == w.literals \o Entries(w.litStart, at, w.reps[1])
           ok == w.deltaOK /\ HasRef(w.litStart, at, w.reps[1])
           tk == Append(w.tokens, first) \o rest
           ds == w.dists \o DistCodes(w.reps, d)
           le == (w.lens \o LiteralCodes(at - w.litStart)) \o MatchCodes(len, w.noHuffman)
           next   == [w EXCEPT !.litStart = ls, !.reps = rp, !.literals = li, !.deltaOK = ok,
                               !.tokens = tk, !.dists = ds, !.lens = le]
           marks  == w.marks \o [i \in 1 .. Len(fields) |->
                                   Mark(IF i = Len(fields) THEN at + len
                                        ELSE at + MinMatch + fields[1], next)]
           w2     == [next EXCEPT !.marks = marks]
<1>1. WithMatch(w, at, d, len) = w2
  BY DEF WithMatch
<1>2. DOMAIN w = {"start", "base", "end", "litStart", "reps", "noHuffman", "literals",
                  "deltaOK", "tokens", "dists", "lens", "marks"}
  BY DEF WorkSet
<1> HIDE DEF ls, rp, li, ok, tk, ds, le, marks
<1>3. /\ next.litStart = ls /\ next.reps = rp /\ next.literals = li /\ next.deltaOK = ok
      /\ next.tokens = tk /\ next.dists = ds /\ next.lens = le /\ next.start = w.start
      /\ next.base = w.base /\ next.end = w.end /\ next.noHuffman = w.noHuffman
      /\ DOMAIN next = DOMAIN w
  BY <1>2
<1> HIDE DEF next
<1>4. /\ w2.litStart = ls /\ w2.reps = rp /\ w2.literals = li /\ w2.deltaOK = ok
      /\ w2.tokens = tk /\ w2.dists = ds /\ w2.lens = le /\ w2.start = w.start
      /\ w2.base = w.base /\ w2.end = w.end /\ w2.noHuffman = w.noHuffman
      /\ w2.marks = marks /\ DOMAIN w2 = DOMAIN w
      /\ w2 = [x \in DOMAIN w |-> w2[x]]
  BY <1>2, <1>3
<1>5. \A out : Mark(out, next) = Mark(out, w2)
  BY <1>3, <1>4 DEF Mark
<1> HIDE DEF w2
<1>6. marks = w.marks \o [i \in 1 .. Len(fields) |->
                            Mark(IF i = Len(fields) THEN at + len
                                 ELSE at + MinMatch + fields[1], w2)]
  BY <1>5 DEF marks
<1> QED
  BY <1>1, <1>4, <1>6 DEF ls, rp, li, ok, tk, ds, le, SameBlock, Matched

(* A true match keeps what the tokens of the block say. *)
LEMMA MatchKeeps ==
  ASSUME src \in Seq(Byte), NEW w, WorkWritten(w), NEW at \in Nat, NEW d \in Nat \ {0},
         NEW len \in Nat, len >= MinMatch, at >= w.litStart, at + len <= w.end,
         IsMatch(at, d, len)
  PROVE  WorkWritten(WithMatch(w, at, d, len)) /\ SameBlock(w, WithMatch(w, at, d, len))
<1> DEFINE w2     == WithMatch(w, at, d, len)
           out    == w.litStart
           last   == w.reps
           run    == at - out
           end    == w.end
           fields == MatchFields(len, w.noHuffman)
           es     == Entries(out, at, last[1])
           dc     == DistCodes(last, d)
           lc     == LiteralCodes(run)
           next   == RepsNext(last, d)
<1>1. /\ w \in WorkSet /\ Typed(w)
      /\ out \in Nat \ {0} /\ last \in Rep /\ last[1] \in Nat \ {0}
      /\ w.start \in Nat /\ end \in Nat /\ end <= Len(src)
      /\ w.start <= out /\ out <= end /\ end - out \in 0 .. MaxBlock
      /\ w.noHuffman \in BOOLEAN /\ w.deltaOK \in BOOLEAN
      /\ TokensWritten(w, w.deltaOK, out, last, end)
  BY WorkParts DEF WorkWritten
<1>2. /\ run \in 0 .. MaxBlock /\ out + run = at /\ len \in MinMatch .. MaxBlock
      /\ d \in 1 .. MaxDistance /\ at + len \in Nat \ {0} /\ at + len >= w.start
      /\ out + run + len = at + len
  <2>1. d <= MaxDistance /\ MaxDistance \in Nat /\ MaxBlock \in Nat /\ MinMatch = 2
    BY Widths DEF IsMatch
  <2>2. at >= out /\ at + len <= end /\ len >= 2
    BY <2>1
  <2>3. /\ out \in Nat \ {0} /\ end \in Nat /\ w.start \in Nat /\ w.start <= out
        /\ end - out \in 0 .. MaxBlock
    BY <1>1
  <2> HIDE DEF out, end
  <2>4. at - out \in 0 .. MaxBlock /\ out + (at - out) = at
    BY <2>1, <2>2, <2>3
  <2>5. len \in 2 .. MaxBlock /\ d \in 1 .. MaxDistance
    BY <2>1, <2>2, <2>3
  <2>6. at + len \in Nat \ {0} /\ at + len >= w.start
    BY <2>2, <2>3
  <2> QED
    BY <2>1, <2>4, <2>5, <2>6
<1>3. /\ DOMAIN w2 = DOMAIN w
      /\ w2 = [x \in DOMAIN w |-> w2[x]]
      /\ SameBlock(w, w2)
      /\ w2.noHuffman = w.noHuffman
      /\ w2.litStart = at + len
      /\ w2.reps = next
      /\ w2.literals = w.literals \o es
      /\ w2.deltaOK = (w.deltaOK /\ HasRef(out, at, last[1]))
      /\ w2.dists = w.dists \o dc
      /\ w2.lens = (w.lens \o lc) \o MatchCodes(len, w.noHuffman)
      /\ w2.tokens = Append(w.tokens, [lit |-> LiteralField(run), dist |-> DistField(last, d),
                                       len |-> fields[1]])
                       \o [i \in 1 .. (Len(fields) - 1) |->
                             [lit |-> 0, dist |-> 0, len |-> fields[i + 1]]]
      /\ w2.marks = w.marks \o [i \in 1 .. Len(fields) |->
                         Mark(IF i = Len(fields) THEN at + len
                              ELSE at + MinMatch + fields[1], w2)]
  <2>1. Matched(w, w2, at, d, len)
    BY <1>1, MatchAdded
  <2> HIDE DEF w2
  <2> QED
    BY <2>1, Zenon DEF Matched
<1>4. /\ es \in Seq(Entry)
      /\ dc \in Seq(DistSymbols) /\ DistField(last, d) \in 0 .. 3
      /\ next \in Rep /\ next[1] = d /\ DistField(next, d) = 0 /\ DistCodes(next, d) = <<>>
      /\ RepsNext(next, d) = next
      /\ lc \in Seq(Byte) /\ LiteralField(run) \in 0 .. FieldCap
  <2>1. RunEntries(es, out, run, last[1])
    <3>1. run \in Nat /\ out + run <= Len(src) /\ out \in Nat
      BY SMTT(60), <1>1, <1>2
    <3>2. es = Entries(out, out + run, last[1])
      BY <1>2
    <3> QED
      BY <1>1, <3>1, <3>2, EntriesOf, Zenon
  <2>2. es \in Seq(Entry)
    BY <2>1 DEF RunEntries
  <2> HIDE DEF out, last, run, end, es
  <2> QED
    BY <1>1, <1>2, <2>2, DistTyped, RunRead
<1> HIDE DEF w2, out, last, run, end, fields, es, dc, lc, next
<1>5. SUFFICES Typed(w2) /\ TokensWritten(w2, w2.deltaOK, at + len, next, end)
  <2>1. w2 \in WorkSet
    <3>1. w2.deltaOK \in BOOLEAN
      BY <1>1, <1>3
    <3>2. /\ w2.start \in Nat /\ w2.base \in Rep /\ w2.end \in Nat /\ w2.litStart \in Nat
          /\ w2.reps \in Rep /\ w2.noHuffman \in BOOLEAN
      BY <1>1, <1>2, <1>3, <1>4 DEF SameBlock, end, WorkSet
    <3>3. /\ w2.tokens \in Seq(Tokens) /\ w2.dists \in Seq(DistSymbols)
          /\ w2.lens \in Seq(Byte) /\ w2.literals \in Seq(Entry) /\ w2.marks \in Seq(MarkSet)
      BY <1>5 DEF Typed
    <3>4. DOMAIN w2 = {"start", "base", "end", "litStart", "reps", "noHuffman", "literals",
                       "deltaOK", "tokens", "dists", "lens", "marks"}
          /\ w2 = [x \in DOMAIN w2 |-> w2[x]]
      BY <1>1, <1>3 DEF WorkSet
    <3> QED
      BY SMTT(60), <3>1, <3>2, <3>3, <3>4 DEF WorkSet
  <2>2. /\ w2.start < w2.end /\ w2.end <= Limit /\ w2.end <= w2.start + MaxBlock
    BY <1>3 DEF SameBlock, WorkWritten
  <2>3. w2.litStart \in w2.start .. w2.end /\ w2.litStart # 0
    <3>1. at + len <= end
      BY DEF end
    <3>2. w2.start = w.start /\ w2.end = end /\ w2.litStart = at + len
      BY <1>3 DEF SameBlock, end
    <3> QED
      BY <3>1, <3>2, <1>1, <1>2
  <2>4. TokensWritten(w2, w2.deltaOK, w2.litStart, w2.reps, w2.end)
    BY <1>3, <1>5 DEF SameBlock, end
  <2>5. WorkWritten(w2)
    BY <2>1, <2>2, <2>3, <2>4 DEF WorkWritten
  <2> QED
    BY <2>5, <1>3 DEF w2
<1>31. /\ w2.literals = w.literals \o es /\ w2.dists = w.dists \o dc
       /\ w2.lens = (w.lens \o lc) \o MatchCodes(len, w.noHuffman)
  BY <1>3, Zenon
<1>32. w2.tokens = Append(w.tokens, [lit |-> LiteralField(run), dist |-> DistField(last, d),
                                     len |-> fields[1]])
                     \o [i \in 1 .. (Len(fields) - 1) |->
                           [lit |-> 0, dist |-> 0, len |-> fields[i + 1]]]
  BY <1>3, Zenon
<1>33. w2.marks = w.marks \o [i \in 1 .. Len(fields) |->
                     Mark(IF i = Len(fields) THEN at + len
                          ELSE at + MinMatch + fields[1], w2)]
  BY <1>3, Zenon
<1>6. /\ w2.deltaOK => w.deltaOK
      /\ w2.deltaOK => HasRef(out, out + run, last[1])
  BY <1>2, <1>3
<1>7. /\ w2.literals \in Seq(Entry) /\ w2.dists \in Seq(DistSymbols)
      /\ Len(w2.literals) \in Nat /\ Len(w2.dists) \in Nat
      /\ w.lens \in Seq(Byte) /\ w.tokens \in Seq(Tokens) /\ w.marks \in Seq(MarkSet)
  <2>1. w2.literals \in Seq(Entry)
    BY <1>1, <1>31, <1>4, ConcatProperties DEF Typed
  <2>2. w2.dists \in Seq(DistSymbols)
    BY SMTT(60), <1>1, <1>31, <1>4, ConcatProperties DEF Typed
  <2> QED
    BY <2>1, <2>2, <1>1, LenProperties DEF Typed
<1>8. ASSUME NEW o \in Nat, Len(w2.lens) \in Nat
      PROVE  /\ Mark(o, w2) \in MarkSet /\ Mark(o, w2).out = o /\ Mark(o, w2).reps = next
             /\ Mark(o, w2).dist = Len(w2.dists) /\ Mark(o, w2).len = Len(w2.lens)
             /\ Mark(o, w2).lit = Len(w2.literals)
  BY <1>3, <1>4, <1>7, <1>8 DEF Mark, MarkSet
<1>9. CASE fields = <<OneField(len)>> /\ MatchCodes(len, w.noHuffman) = OneCode(len)
  <2> DEFINE tok == [lit |-> LiteralField(run), dist |-> DistField(last, d), len |-> OneField(len)]
             c   == Mark(at + len, w2)
  <2>1. OneField(len) \in 0 .. FieldCap /\ OneCode(len) \in Seq(Byte)
    BY <1>2, MatchLenRead
  <2>2. tok \in Tokens
    BY <1>4, <2>1 DEF Tokens
  <2>3. w2.lens = w.lens \o (lc \o OneCode(len)) /\ w2.lens \in Seq(Byte) /\ Len(w2.lens) \in Nat
    <3> DEFINE oc  == OneCode(len)
               old == w.lens
    <3>1. w2.lens = (old \o lc) \o oc
      BY <1>31, <1>9, Zenon
    <3>2. oc \in Seq(Byte) /\ lc \in Seq(Byte) /\ old \in Seq(Byte)
      BY <1>4, <1>7, <2>1
    <3> HIDE DEF oc, old
    <3>3. (old \o lc) \o oc = old \o (lc \o oc)
      BY ZenonT(60), <3>2, BytesJoined
    <3>4. old \o lc \in Seq(Byte)
      BY <3>2, ConcatProperties
    <3>5. w2.lens \in Seq(Byte)
      BY <3>1, <3>2, <3>4, ConcatProperties
    <3> QED
      BY <3>1, <3>3, <3>5, LenProperties DEF oc, old
  <2>4. /\ c \in MarkSet /\ c.out = at + len /\ c.reps = next /\ c.dist = Len(w2.dists)
        /\ c.len = Len(w2.lens) /\ c.lit = Len(w2.literals)
    <3>1. at + len \in Nat
      BY <1>2
    <3> QED
      BY <3>1, <1>8, <2>3
  <2>5. Len(fields) = 1 /\ fields[1] = OneField(len)
    BY <1>9
  <2>6. w2.tokens = Append(w.tokens, tok)
    <3>1. [i \in 1 .. (Len(fields) - 1) |-> [lit |-> 0, dist |-> 0, len |-> fields[i + 1]]] = <<>>
      BY <2>5
    <3>2. w2.tokens = Append(w.tokens, tok) \o <<>>
      BY <1>32, <2>5, <3>1
    <3> HIDE DEF tok
    <3> QED
      BY <1>7, <2>2, <3>2, AppendProperties, ConcatEmptySeq
  <2>7. w2.marks = Append(w.marks, c)
    <3>1. [i \in 1 .. Len(fields) |-> Mark(IF i = Len(fields) THEN at + len
                                           ELSE at + MinMatch + fields[1], w2)] = <<c>>
      BY <2>5
    <3> HIDE DEF c
    <3>2. w2.marks = w.marks \o <<c>>
      BY <1>33, <3>1, Zenon
    <3> QED
      BY SMTT(60), <1>7, <2>4, <3>2, AppendBoth
  <2>8. Adds(w, w2, Entries(out, out + run, last[1]), DistCodes(last, d),
             LiteralCodes(run) \o OneCode(len), tok, c)
    BY <1>2, <1>3, <2>3, <2>6, <2>7 DEF Adds, SameBlock, es, dc, lc
  <2>9. tok.lit = LiteralField(run) /\ tok.dist = DistField(last, d) /\ tok.len = OneField(len)
    OBVIOUS
  <2> HIDE DEF tok, c
  <2>10. out \in Nat /\ out + run + len <= end /\ IsMatch(out + run, d, len) /\ end \in Nat
         /\ end <= Len(src)
    BY <1>1, <1>2 DEF end
  <2>11. c.out = out + run + len /\ c.reps = RepsNext(last, d)
    BY <1>2, <2>4 DEF next
  <2>12. Typed(w2) /\ TokensWritten(w2, w2.deltaOK, out + run + len, RepsNext(last, d), end)
    BY <1>1, <1>2, <1>6, <2>2, <2>4, <2>8, <2>9, <2>10, <2>11, AddMatch, ZenonT(30)
  <2> QED
    BY <2>12, <1>2 DEF next
<1>10. ASSUME NEW one \in MinMatch .. LongestField, NEW two \in MinMatch .. LongestField,
              one + two = len, fields = <<one - MinMatch, two - MinMatch>>,
              MatchCodes(len, w.noHuffman) = <<>>
       PROVE  Typed(w2) /\ TokensWritten(w2, w2.deltaOK, at + len, next, end)
  <2> DEFINE tok1 == [lit |-> LiteralField(run), dist |-> DistField(last, d), len |-> one - MinMatch]
             tok2 == [lit |-> 0, dist |-> 0, len |-> two - MinMatch]
             c1   == Mark(at + one, w2)
             c2   == Mark(at + len, w2)
             none == Entries(at + one, at + one + 0, d)
             wm   == [start |-> w.start, base |-> w.base, literals |-> w2.literals,
                      dists |-> w2.dists, lens |-> w2.lens,
                      tokens |-> Append(w.tokens, tok1), marks |-> Append(w.marks, c1)]
  <2>1. /\ MinMatch = 2 /\ LongestField = FieldCap + 1 /\ FieldCap \in Nat /\ FieldCap >= 2
        /\ MaxBlock \in Nat
    BY Widths
  <2>2. /\ one \in MinMatch .. MaxBlock /\ two \in MinMatch .. MaxBlock /\ one \in Nat
        /\ two \in Nat /\ one <= LongestField /\ two <= LongestField
        /\ one - MinMatch \in 0 .. FieldCap /\ two - MinMatch \in 0 .. FieldCap
    BY <1>2, <1>10, <2>1
  <2>3. /\ OneField(one) = one - MinMatch /\ OneCode(one) = <<>>
        /\ OneField(two) = two - MinMatch /\ OneCode(two) = <<>>
        /\ LiteralField(0) = 0 /\ LiteralCodes(0) = <<>>
    BY <2>1, <2>2 DEF OneField, OneCode, LiteralField, LiteralCodes
  <2>4. tok1 \in Tokens /\ tok2 \in Tokens
    BY <1>4, <2>2, <2>1 DEF Tokens
  <2>5. w2.lens = w.lens \o lc /\ w2.lens \in Seq(Byte) /\ Len(w2.lens) \in Nat
        /\ lc \o <<>> = lc /\ <<>> \o <<>> = <<>>
    <3>1. w2.lens = (w.lens \o lc) \o <<>>
      BY <1>31, <1>10, Zenon
    <3>2. w.lens \o lc \in Seq(Byte)
      BY <1>4, <1>7, ConcatProperties
    <3>3. (w.lens \o lc) \o <<>> = w.lens \o lc /\ lc \o <<>> = lc
      BY <1>4, <3>2, ConcatEmptySeq
    <3>4. <<>> \o <<>> = <<>>
      BY EmptySeq, ConcatEmptySeq
    <3> QED
      BY <3>1, <3>2, <3>3, <3>4, LenProperties
  <2>6. at + one \in Nat /\ at + len \in Nat /\ at + one + two = at + len /\ at + one <= at + len
    BY <1>2, <1>10, <2>2
  <2>7. /\ c1 \in MarkSet /\ c1.out = at + one /\ c1.reps = next /\ c1.dist = Len(w2.dists)
        /\ c1.len = Len(w2.lens) /\ c1.lit = Len(w2.literals)
    BY <2>5, <2>6, <1>8
  <2>8. /\ c2 \in MarkSet /\ c2.out = at + len /\ c2.reps = next /\ c2.dist = Len(w2.dists)
        /\ c2.len = Len(w2.lens) /\ c2.lit = Len(w2.literals)
    BY <2>5, <2>6, <1>8
  <2>9. Len(fields) = 2 /\ fields[1] = one - MinMatch /\ fields[2] = two - MinMatch
        /\ at + MinMatch + (one - MinMatch) = at + one
    BY <1>10, <2>1, <2>2
  <2>10. w2.tokens = Append(Append(w.tokens, tok1), tok2)
    <3>1. [i \in 1 .. (Len(fields) - 1) |-> [lit |-> 0, dist |-> 0, len |-> fields[i + 1]]]
            = <<tok2>>
      BY <2>9
    <3>2. w2.tokens = Append(w.tokens, tok1) \o <<tok2>>
      BY <1>32, <2>9, <3>1
    <3> HIDE DEF tok1, tok2
    <3>3. Append(w.tokens, tok1) \in Seq(Tokens)
      BY <1>7, <2>4, AppendProperties
    <3>4. Append(w.tokens, tok1) \o <<tok2>> = Append(Append(w.tokens, tok1), tok2)
      BY <2>4, <3>3, AppendBoth, ZenonT(60)
    <3> QED
      BY <3>2, <3>4
  <2>11. w2.marks = Append(Append(w.marks, c1), c2)
    <3>1. [i \in 1 .. Len(fields) |-> Mark(IF i = Len(fields) THEN at + len
                                           ELSE at + MinMatch + fields[1], w2)] = <<c1, c2>>
      BY <2>9
    <3> HIDE DEF c1, c2
    <3>2. w2.marks = w.marks \o <<c1, c2>>
      BY <1>33, <3>1, Zenon
    <3>3. w.marks \in Seq(MarkSet) /\ c1 \in MarkSet /\ c2 \in MarkSet
      BY <1>7, <2>7, <2>8
    <3>4. w.marks \o <<c1, c2>> = Append(Append(w.marks, c1), c2)
      BY <3>3, MarksAppended
    <3> QED
      BY <3>2, <3>4
  <2>12. /\ wm.start = w.start /\ wm.base = w.base /\ wm.literals = w2.literals
         /\ wm.dists = w2.dists /\ wm.lens = w2.lens /\ wm.tokens = Append(w.tokens, tok1)
         /\ wm.marks = Append(w.marks, c1)
    OBVIOUS
  <2>13. /\ tok1.lit = LiteralField(run) /\ tok1.dist = DistField(last, d)
         /\ tok1.len = OneField(one)
         /\ tok2.lit = 0 /\ tok2.dist = 0 /\ tok2.len = OneField(two)
    BY <2>3
  <2>14. none = <<>> /\ HasRef(at + one, at + one + 0, d)
    BY <2>6 DEF Entries, HasRef
  <2> HIDE DEF tok1, tok2, c1, c2, wm, none
  <2>15. Typed(wm) /\ TokensWritten(wm, w2.deltaOK, out + run + one, next, end)
    <3>1. Adds(w, wm, Entries(out, out + run, last[1]), DistCodes(last, d),
               LiteralCodes(run) \o OneCode(one), tok1, c1)
      <4>1. LiteralCodes(run) \o OneCode(one) = lc
        BY <2>3, <2>5 DEF lc
      <4>2. Entries(out, out + run, last[1]) = es /\ DistCodes(last, d) = dc
        BY <1>2 DEF es, dc
      <4> QED
        BY <4>1, <4>2, <1>31, <2>5, <2>12 DEF Adds
    <3>2. out \in Nat /\ out + run + one <= end /\ IsMatch(out + run, d, one) /\ end \in Nat
          /\ end <= Len(src) /\ at + len <= end
      <4>1. at + len <= end
        BY DEF end
      <4>2. \A i \in 1 .. one : i \in 1 .. len
        BY <1>10, <2>2
      <4>3. IsMatch(at, d, one)
        BY <4>2 DEF IsMatch
      <4>4. at + one <= end
        BY <4>1, <2>6, <1>1
      <4> QED
        BY <1>1, <1>2, <4>1, <4>3, <4>4
    <3>3. /\ c1.out = out + run + one /\ c1.reps = RepsNext(last, d)
          /\ c1.dist = Len(wm.dists) /\ c1.len = Len(wm.lens) /\ c1.lit = Len(wm.literals)
      BY <1>2, <2>7, <2>12 DEF next
    <3>4. Typed(wm) /\ TokensWritten(wm, w2.deltaOK, out + run + one, RepsNext(last, d), end)
      BY <1>1, <1>2, <1>6, <2>2, <2>4, <2>7, <2>13, <3>1, <3>2, <3>3, AddMatch, ZenonT(30)
    <3> QED
      BY <3>4 DEF next
  <2>16. Typed(w2) /\ TokensWritten(w2, w2.deltaOK, (at + one) + 0 + two, RepsNext(next, d), end)
    <3>1. Adds(wm, w2, Entries(at + one, (at + one) + 0, next[1]), DistCodes(next, d),
               LiteralCodes(0) \o OneCode(two), tok2, c2)
      <4>1. /\ Entries(at + one, (at + one) + 0, next[1]) = <<>> /\ DistCodes(next, d) = <<>>
            /\ LiteralCodes(0) \o OneCode(two) = <<>>
        BY <1>4, <2>3, <2>5, <2>14 DEF none
      <4>2. /\ wm.literals \o <<>> = wm.literals /\ wm.dists \o <<>> = wm.dists
            /\ wm.lens \o <<>> = wm.lens
        BY <1>7, <2>5, <2>12, ConcatEmptySeq
      <4>3. /\ w2.start = wm.start /\ w2.base = wm.base /\ w2.literals = wm.literals
            /\ w2.dists = wm.dists /\ w2.lens = wm.lens /\ w2.tokens = Append(wm.tokens, tok2)
            /\ w2.marks = Append(wm.marks, c2)
        BY <1>3, <2>10, <2>11, <2>12 DEF SameBlock
      <4> QED
        BY <4>1, <4>2, <4>3, Zenon DEF Adds
    <3>2. (at + one) + 0 + two <= end /\ IsMatch((at + one) + 0, d, two) /\ end \in Nat
          /\ end <= Len(src)
      <4>1. at + len <= end
        BY DEF end
      <4>2. ASSUME NEW i \in 1 .. two
            PROVE  src[at + one + i] = src[at + one + i - d]
        <5>1. one + i \in 1 .. len
          BY <1>10, <2>2
        <5>2. src[at + (one + i)] = src[at + (one + i) - d]
          BY <5>1 DEF IsMatch
        <5>3. at + (one + i) = at + one + i
          BY <2>2
        <5> QED
          BY <5>2, <5>3
      <4>3. d <= at + one /\ d <= MaxDistance /\ (at + one) + 0 = at + one
        BY <2>2, <1>2 DEF IsMatch
      <4>4. IsMatch(at + one, d, two)
        BY <4>2, <4>3 DEF IsMatch
      <4>5. (at + one) + 0 + two <= end
        BY <4>1, <2>6
      <4> QED
        BY <1>1, <4>3, <4>4, <4>5
    <3>3. /\ tok2.lit = LiteralField(0) /\ tok2.dist = DistField(next, d)
          /\ tok2.len = OneField(two)
          /\ c2.out = (at + one) + 0 + two /\ c2.reps = RepsNext(next, d)
          /\ c2.dist = Len(w2.dists) /\ c2.len = Len(w2.lens) /\ c2.lit = Len(w2.literals)
      <4>1. (at + one) + 0 + two = at + len
        BY <2>6
      <4> QED
        BY <1>4, <2>3, <2>8, <2>13, <4>1
    <3>4. /\ TokensWritten(wm, w2.deltaOK, at + one, next, end) /\ next \in Rep
          /\ HasRef(at + one, (at + one) + 0, next[1]) /\ 0 \in 0 .. MaxBlock
      BY <1>2, <1>4, <2>1, <2>14, <2>15
    <3>5. /\ w2.deltaOK => w2.deltaOK
          /\ w2.deltaOK => HasRef(at + one, (at + one) + 0, next[1])
      BY <3>4
    <3>6. /\ at + one \in Nat /\ two \in MinMatch .. MaxBlock /\ d \in 1 .. MaxDistance
          /\ tok2 \in Tokens /\ c2 \in MarkSet /\ Typed(wm)
      BY <1>2, <2>2, <2>4, <2>6, <2>8, <2>15
    <3> QED
      BY <3>1, <3>2, <3>3, <3>4, <3>5, <3>6, AddMatch, ZenonT(300)
  <2>17. (at + one) + 0 + two = at + len
    BY <2>6
  <2> QED
    BY <2>16, <2>17, <1>4, Zenon
<1> QED
  BY <1>2, <1>1, <1>9, <1>10, SplitLens DEF fields

(* The block w2 is the block w with its last literals.                     *)
Tailed(w, w2) ==
  /\ DOMAIN w2 = DOMAIN w
  /\ w2 = [x \in DOMAIN w |-> w2[x]]
  /\ SameBlock(w, w2)
  /\ w2.noHuffman = w.noHuffman
  /\ w2.litStart = w.end
  /\ w2.reps = w.reps
  /\ w2.literals = w.literals \o Entries(w.litStart, w.end, w.reps[1])
  /\ w2.deltaOK = (w.deltaOK /\ HasRef(w.litStart, w.end, w.reps[1]))
  /\ w2.dists = w.dists
  /\ w2.lens = w.lens \o LiteralCodes(w.end - w.litStart)
  /\ w2.tokens = Append(w.tokens, [lit  |-> LiteralField(w.end - w.litStart),
                                   dist |-> 0, len |-> 0])
  /\ w2.marks = Append(w.marks, Mark(w.end, w2))

(* WithTail adds the literals at the end of the block. *)
LEMMA TailAdded ==
  ASSUME NEW w \in WorkSet, w.litStart < w.end
  PROVE  Tailed(w, WithTail(w))
<1> DEFINE last == [lit |-> LiteralField(w.end - w.litStart), dist |-> 0, len |-> 0]
           ls == w.end
           li == w.literals \o Entries(w.litStart, w.end, w.reps[1])
           ok == w.deltaOK /\ HasRef(w.litStart, w.end, w.reps[1])
           tk == Append(w.tokens, last)
           le == w.lens \o LiteralCodes(w.end - w.litStart)
           next == [w EXCEPT !.litStart = ls, !.literals = li, !.deltaOK = ok,
                             !.tokens = tk, !.lens = le]
           marks == Append(w.marks, Mark(ls, next))
           w2 == [next EXCEPT !.marks = marks]
<1>1. WithTail(w) = w2
  BY DEF WithTail
<1>2. DOMAIN w = {"start", "base", "end", "litStart", "reps", "noHuffman", "literals",
                  "deltaOK", "tokens", "dists", "lens", "marks"}
  BY DEF WorkSet
<1> HIDE DEF ls, li, ok, tk, le, marks
<1>3. /\ next.litStart = ls /\ next.reps = w.reps /\ next.literals = li /\ next.deltaOK = ok
      /\ next.tokens = tk /\ next.dists = w.dists /\ next.lens = le /\ next.start = w.start
      /\ next.base = w.base /\ next.end = w.end /\ next.noHuffman = w.noHuffman
      /\ DOMAIN next = DOMAIN w
  BY <1>2
<1> HIDE DEF next
<1>4. /\ w2.litStart = ls /\ w2.reps = w.reps /\ w2.literals = li /\ w2.deltaOK = ok
      /\ w2.tokens = tk /\ w2.dists = w.dists /\ w2.lens = le /\ w2.start = w.start
      /\ w2.base = w.base /\ w2.end = w.end /\ w2.noHuffman = w.noHuffman
      /\ w2.marks = marks /\ DOMAIN w2 = DOMAIN w
      /\ w2 = [x \in DOMAIN w |-> w2[x]]
  BY <1>2, <1>3
<1>5. Mark(ls, next) = Mark(ls, w2)
  BY <1>3, <1>4 DEF Mark
<1> HIDE DEF w2
<1>6. marks = Append(w.marks, Mark(ls, w2))
  BY <1>5 DEF marks
<1> QED
  BY <1>1, <1>4, <1>6 DEF ls, li, ok, tk, le, SameBlock, Tailed

(* The block with its last literals is complete. *)
LEMMA TailKeeps ==
  ASSUME src \in Seq(Byte), NEW w, WorkWritten(w)
  PROVE  /\ WorkWritten(WithTail(w)) /\ SameBlock(w, WithTail(w))
         /\ WithTail(w).litStart = w.end
<1>1. /\ w \in WorkSet /\ Typed(w)
      /\ w.litStart \in Nat \ {0} /\ w.reps \in Rep /\ w.reps[1] \in Nat \ {0}
      /\ w.start \in Nat /\ w.end \in Nat /\ w.end <= Len(src)
      /\ w.start <= w.litStart /\ w.litStart <= w.end /\ w.end - w.litStart \in 0 .. MaxBlock
      /\ w.noHuffman \in BOOLEAN /\ w.deltaOK \in BOOLEAN
      /\ TokensWritten(w, w.deltaOK, w.litStart, w.reps, w.end)
  BY WorkParts DEF WorkWritten
<1>2. CASE ~(w.litStart < w.end)
  <2>1. WithTail(w) = w
    BY <1>2 DEF WithTail
  <2>2. w.litStart = w.end
    BY <1>1, <1>2
  <2> QED
    BY <2>1, <2>2 DEF SameBlock
<1>3. CASE w.litStart < w.end
  <2> DEFINE w2   == WithTail(w)
             out  == w.litStart
             last == w.reps
             end  == w.end
             run  == end - out
             es   == Entries(out, end, last[1])
             lc   == LiteralCodes(run)
             tok  == [lit |-> LiteralField(run), dist |-> 0, len |-> 0]
             c    == Mark(end, w2)
  <2>1. Tailed(w, w2)
    BY <1>1, <1>3, TailAdded
  <2> HIDE DEF w2
  <2>2. /\ DOMAIN w2 = DOMAIN w /\ w2 = [x \in DOMAIN w |-> w2[x]]
        /\ SameBlock(w, w2) /\ w2.noHuffman = w.noHuffman /\ w2.litStart = end
        /\ w2.reps = last
    BY <2>1, Zenon DEF Tailed
  <2>3. /\ w2.literals = w.literals \o es /\ w2.dists = w.dists /\ w2.lens = w.lens \o lc
        /\ w2.tokens = Append(w.tokens, tok) /\ w2.marks = Append(w.marks, c)
    BY <2>1, Zenon DEF Tailed
  <2>4. /\ run \in 1 .. MaxBlock /\ run \in 0 .. MaxBlock /\ run \in Nat /\ out + run = end
        /\ out \in Nat
    <3> HIDE DEF out, end
    <3>1. end - out \in 0 .. MaxBlock /\ out < end /\ MaxBlock \in Nat /\ out \in Nat /\ end \in Nat
      BY <1>1, <1>3, Widths DEF out, end
    <3> QED
      BY <3>1
  <2>5. /\ w2.deltaOK \in BOOLEAN /\ (w2.deltaOK => w.deltaOK)
        /\ w2.deltaOK => HasRef(out, out + run, last[1])
    <3>1. w2.deltaOK = (w.deltaOK /\ HasRef(out, end, last[1]))
      BY <2>1, Zenon DEF Tailed
    <3> QED
      BY <3>1, <2>4, <1>1
  <2>6. es \in Seq(Entry)
    <3>1. RunEntries(Entries(out, out + run, last[1]), out, run, last[1])
      BY <1>1, <2>4, EntriesOf, Zenon
    <3> QED
      BY <2>4, <3>1 DEF RunEntries
  <2>7. lc \in Seq(Byte) /\ LiteralField(run) \in 0 .. FieldCap
    <3> HIDE DEF run
    <3> QED
      BY <2>4, RunRead DEF lc
  <2>8. /\ w.literals \in Seq(Entry) /\ w.dists \in Seq(DistSymbols) /\ w.lens \in Seq(Byte)
        /\ w.tokens \in Seq(Tokens) /\ w.marks \in Seq(MarkSet)
    BY <1>1 DEF Typed
  <2> HIDE DEF out, last, end, run, es, lc, tok, c
  <2>9. tok \in Tokens
    BY <2>7, Widths DEF Tokens, tok
  <2>10. /\ w2.literals \in Seq(Entry) /\ w2.dists \in Seq(DistSymbols) /\ w2.lens \in Seq(Byte)
         /\ Len(w2.literals) \in Nat /\ Len(w2.dists) \in Nat /\ Len(w2.lens) \in Nat
    <3>1. w2.literals \in Seq(Entry)
      BY <2>3, <2>6, <2>8, ConcatProperties
    <3>2. w2.lens \in Seq(Byte)
      BY <2>3, <2>7, <2>8, ConcatProperties
    <3> QED
      BY <2>3, <2>8, <3>1, <3>2, LenProperties
  <2>11. /\ c \in MarkSet /\ c.out = end /\ c.reps = last /\ c.dist = Len(w2.dists)
         /\ c.len = Len(w2.lens) /\ c.lit = Len(w2.literals)
    BY <1>1, <2>2, <2>10 DEF Mark, MarkSet, c, end, last
  <2>12. Adds(w, w2, Entries(out, out + run, last[1]), <<>>, LiteralCodes(run), tok, c)
    <3>1. w.dists \o <<>> = w.dists
      BY <2>8, ConcatEmptySeq
    <3>2. w2.start = w.start /\ w2.base = w.base
      BY <2>2 DEF SameBlock
    <3>3. Entries(out, out + run, last[1]) = es /\ LiteralCodes(run) = lc
      BY <2>4 DEF es, lc
    <3> QED
      BY <2>3, <3>1, <3>2, <3>3, Zenon DEF Adds
  <2>13. <<>> \in Seq(DistSymbols) /\ Len(<<>>) = 0 /\ out + run <= end
         /\ tok.lit = LiteralField(run) /\ tok.dist = 0 /\ tok.len = 0
         /\ end \in Nat /\ end <= Len(src) /\ TokensWritten(w, w.deltaOK, out, last, end)
         /\ last \in Rep
    BY <1>1, <2>4 DEF end, tok, out, last
  <2>14. Typed(w2) /\ TokensWritten(w2, w2.deltaOK, end, last, end)
    BY <1>1, <2>4, <2>5, <2>9, <2>11, <2>12, <2>13, AddTail, ZenonT(60)
  <2>15. w2 \in WorkSet
    <3>1. /\ w2.start \in Nat /\ w2.base \in Rep /\ w2.end \in Nat /\ w2.litStart \in Nat
          /\ w2.reps \in Rep /\ w2.noHuffman \in BOOLEAN
      BY <1>1, <2>2 DEF SameBlock, end, last, WorkSet
    <3>2. /\ w2.tokens \in Seq(Tokens) /\ w2.dists \in Seq(DistSymbols)
          /\ w2.lens \in Seq(Byte) /\ w2.literals \in Seq(Entry) /\ w2.marks \in Seq(MarkSet)
      BY <2>14 DEF Typed
    <3>3. DOMAIN w2 = {"start", "base", "end", "litStart", "reps", "noHuffman", "literals",
                       "deltaOK", "tokens", "dists", "lens", "marks"}
          /\ w2 = [x \in DOMAIN w2 |-> w2[x]]
      BY <1>1, <2>2 DEF WorkSet
    <3>4. w2.deltaOK \in BOOLEAN
      BY <2>5
    <3> QED
      BY <3>1, <3>2, <3>3, <3>4 DEF WorkSet
  <2>16. /\ w2.start < w2.end /\ w2.end <= Limit /\ w2.end <= w2.start + MaxBlock
    BY <2>2 DEF SameBlock, WorkWritten
  <2>17. w2.litStart \in w2.start .. w2.end /\ w2.litStart # 0 /\ w2.litStart = w.end
    BY <1>1, <1>3, <2>2 DEF SameBlock, end
  <2>18. TokensWritten(w2, w2.deltaOK, w2.litStart, w2.reps, w2.end)
    BY <2>2, <2>14 DEF SameBlock, end
  <2>19. WorkWritten(w2)
    BY <2>15, <2>16, <2>17, <2>18 DEF WorkWritten
  <2> QED
    BY <2>19, <2>2, <2>17 DEF w2
<1> QED
  BY <1>2, <1>3

-----------------------------------------------------------------------------
(* The blocks that the encoder writes.                                     *)
LEMMA RawMade ==
  ASSUME src \in Seq(Byte), state \in Rep, NEW from \in Nat, NEW to \in Nat,
         from <= to, to <= Len(src), NEW last \in BOOLEAN,
         last => to = Len(src), ~last => from < to /\ to <= Limit
  PROVE  /\ RawWritten(RawBlock(from, to, last))
         /\ RawBlock(from, to, last) \in RawBlocks
         /\ RawBlock(from, to, last).start = from
         /\ RawBlock(from, to, last).base = state
         /\ BlockEnd(RawBlock(from, to, last)) = to
         /\ BlockReps(RawBlock(from, to, last)) = state
         /\ IsLast(RawBlock(from, to, last)) <=> last
<1> DEFINE b    == RawBlock(from, to, last)
           data == SubSeq(src, from + 1, to)
<1>1. /\ b.kind = "raw" /\ b.data = data /\ b.last = last /\ b.start = from /\ b.base = state
      /\ b = [kind |-> "raw", data |-> data, last |-> last, start |-> from, base |-> state]
  BY DEF RawBlock
<1>2. data \in Seq(Byte) /\ Len(data) = to - from
  <2>1. \A i \in (from + 1) .. to : src[i] \in Byte
    <3>1. Len(src) \in Nat
      BY LenProperties
    <3> TAKE i \in (from + 1) .. to
    <3>2. i \in 1 .. Len(src)
      BY <3>1
    <3> QED
      BY <3>2, ElementOfSeq
  <2>2. /\ data \in Seq(Byte)
        /\ Len(data) = IF from + 1 <= to THEN to - (from + 1) + 1 ELSE 0
    BY <2>1, SubSeqProperties
  <2> HIDE DEF data
  <2> QED
    BY <2>2
<1> HIDE DEF b, data
<1>3. b \in RawBlocks
  BY <1>1, <1>2 DEF RawBlocks
<1>4. BlockEnd(b) = to /\ BlockReps(b) = state
  BY <1>1, <1>2 DEF BlockEnd, BlockReps
<1>5. RawWritten(b)
  BY <1>1, <1>3, <1>4 DEF RawWritten, data
<1>6. IsLast(b) <=> last
  BY <1>1 DEF IsLast
<1> QED
  BY <1>1, <1>3, <1>4, <1>5, <1>6 DEF b

(* The tokens of a block are those of the work it was made from.           *)
LEMMA TokensSame ==
  ASSUME src \in Seq(Byte), NEW end \in Nat, end <= Len(src), NEW w, NEW b, Typed(w),
         NEW delta, NEW delta2, delta2 => delta, NEW out, NEW last,
         b.start = w.start, b.base = w.base, b.tokens = w.tokens, b.dists = w.dists,
         b.lens = w.lens, b.literals = w.literals, b.marks = w.marks,
         TokensWritten(w, delta, out, last, end)
  PROVE  TokensWritten(b, delta2, out, last, end)
<1>1. Grown(w, b)
  <2>1. <<>> \in Seq(Entry) /\ <<>> \in Seq(DistSymbols) /\ <<>> \in Seq(Byte)
    BY EmptySeq
  <2>2. /\ b.literals = w.literals \o <<>> /\ b.dists = w.dists \o <<>>
        /\ b.lens = w.lens \o <<>>
    BY ConcatEmptySeq DEF Typed
  <2> QED
    BY <2>1, <2>2, Zenon DEF Grown
<1>2. \A t : After(b, t) = After(w, t)
  BY DEF After, First
<1>3. Len(w.marks) = Len(w.tokens) /\ \A t \in 1 .. Len(w.tokens) : TokenWritten(w, delta, end, t)
  BY DEF TokensWritten
<1>4. ASSUME NEW t \in 1 .. Len(w.tokens)
      PROVE  TokenWritten(b, delta2, end, t)
  <2>1. t \in Nat /\ t - 1 \in 0 .. Len(w.tokens)
    BY SMTT(60), LenProperties DEF Typed
  <2>2. After(w, t - 1) \in MarkSet
    BY <2>1, <1>3, AfterTyped
  <2>3. /\ After(b, t - 1) = After(w, t - 1) /\ After(b, t) = After(w, t)
        /\ b.tokens[t] = w.tokens[t]
    BY <1>2
  <2>4. TokenWritten(w, delta, end, t) /\ (delta2 => delta) /\ Typed(w)
    BY <1>3
  <2> QED
    BY <1>1, <2>1, <2>2, <2>3, <2>4, TokenKept, ZenonT(30)
<1> QED
  BY <1>2, <1>3, <1>4 DEF TokensWritten

(* A block that is complete says what the source holds. *)
LEMMA LzMade ==
  ASSUME src \in Seq(Byte), NEW w, WorkWritten(w), w.litStart = w.end, NEW mode \in Modes(w)
  PROVE  /\ LzWritten(LzBlock(w, mode))
         /\ LzBlock(w, mode) \in LzBlocks
         /\ LzBlock(w, mode).start = w.start
         /\ LzBlock(w, mode).base = w.base
         /\ BlockEnd(LzBlock(w, mode)) = w.end
         /\ BlockReps(LzBlock(w, mode)) = w.reps
         /\ ~IsLast(LzBlock(w, mode))
<1> DEFINE b     == LzBlock(w, mode)
           first == IF w.start = 0 THEN <<src[1]>> ELSE <<>>
           lanes == [lane \in 0 .. (Lanes - 1) |-> LaneStream(w.literals, mode, lane)]
<1>1. /\ b.kind = "lz" /\ b.size = w.end - w.start /\ b.first = first /\ b.mode = mode
      /\ b.lanes = lanes /\ b.tokens = w.tokens /\ b.dists = w.dists /\ b.lens = w.lens
      /\ b.start = w.start /\ b.base = w.base /\ b.literals = w.literals /\ b.marks = w.marks
  BY DEF LzBlock
<1>2. b = [kind |-> "lz", size |-> w.end - w.start, first |-> first, mode |-> mode,
           lanes |-> lanes, tokens |-> w.tokens, dists |-> w.dists, lens |-> w.lens,
           start |-> w.start, base |-> w.base, literals |-> w.literals, marks |-> w.marks]
  BY DEF LzBlock
<1>3. /\ w \in WorkSet /\ Typed(w) /\ w.reps \in Rep /\ w.base \in Rep
      /\ w.start \in Nat /\ w.end \in Nat /\ w.end <= Len(src) /\ w.start < w.end /\ w.end <= Limit
      /\ w.deltaOK \in BOOLEAN
      /\ TokensWritten(w, w.deltaOK, w.end, w.reps, w.end)
  BY WorkParts DEF WorkWritten, WorkSet
<1>4. mode \in [split : BOOLEAN, delta : BOOLEAN] /\ (mode.delta => w.deltaOK)
  BY DEF Modes
<1>5. first \in Seq(Byte)
  <2>1. Len(src) \in Nat /\ 1 \in 1 .. Len(src)
    BY <1>3, LenProperties
  <2>2. src[1] \in Byte
    BY <2>1, ElementOfSeq
  <2> QED
    BY <2>2
<1>6. lanes \in [0 .. (Lanes - 1) -> Seq(Byte)]
  <2>1. \A lane \in 0 .. (Lanes - 1) : LaneStream(w.literals, mode, lane) \in Seq(Byte)
    BY <1>3, <1>4, LaneFacts DEF Typed
  <2> QED
    BY <2>1
<1> HIDE DEF b, first, lanes
<1>7. b \in LzBlocks
  <2>1. /\ w.tokens \in Seq(Tokens) /\ w.dists \in Seq(DistSymbols) /\ w.lens \in Seq(Byte)
        /\ w.literals \in Seq(Entry) /\ w.marks \in Seq(MarkSet)
    BY <1>3 DEF Typed
  <2>2. w.end - w.start \in Nat
    BY <1>3
  <2> QED
    BY <1>2, <1>3, <1>4, <1>5, <1>6, <2>1, <2>2 DEF LzBlocks
<1>8. BlockEnd(b) = w.end
  BY <1>1, <1>3 DEF BlockEnd
<1>9. TokensWritten(b, b.mode.delta, w.end, w.reps, w.end)
  <2>1. mode.delta => w.deltaOK
    BY <1>4
  <2>2. TokensWritten(b, mode.delta, w.end, w.reps, w.end)
    BY <1>1, <1>3, <2>1, TokensSame, ZenonT(30)
  <2> QED
    BY <1>1, <2>2
<1>10. BlockReps(b) = w.reps
  <2>1. After(b, Len(b.tokens)) = [out |-> w.end, reps |-> w.reps, dist |-> Len(b.dists),
                                   len |-> Len(b.lens), lit |-> Len(b.literals)]
    BY <1>9, Zenon DEF TokensWritten
  <2>2. After(b, Len(b.tokens)).reps = w.reps
    BY <2>1
  <2> QED
    BY <1>1, <2>2 DEF BlockReps
<1>11. LzWritten(b)
  BY <1>1, <1>3, <1>7, <1>8, <1>9, <1>10 DEF LzWritten, first, lanes
<1>12. ~IsLast(b)
  BY <1>1 DEF IsLast
<1> QED
  BY <1>1, <1>7, <1>8, <1>10, <1>11, <1>12 DEF b

-----------------------------------------------------------------------------
(* The stream.                                                             *)

(* What a block says of the source does not change with the other          *)
(* variables.                                                              *)
LEMMA BlockKept ==
  ASSUME src' = src, NEW b
  PROVE  (RawWritten(b) \/ LzWritten(b))' <=> RawWritten(b) \/ LzWritten(b)
<1>1. \A a, tok, delta, run, end :
        RunWritten(b, delta, a, tok, run, end)' <=> RunWritten(b, delta, a, tok, run, end)
  BY DEF RunWritten, Entries
<1>2. \A at, d, len : IsMatch(at, d, len)' <=> IsMatch(at, d, len)
  BY DEF IsMatch
<1>3. \A delta, a, tok, c, end :
        MatchWritten(b, delta, a, tok, c, end)' <=> MatchWritten(b, delta, a, tok, c, end)
  BY SMTT(60), <1>1, <1>2 DEF MatchWritten
<1>4. \A delta, a, tok, c, end :
        TailWritten(b, delta, a, tok, c, end)' <=> TailWritten(b, delta, a, tok, c, end)
  BY <1>1 DEF TailWritten
<1>5. \A delta, end, t : TokenWritten(b, delta, end, t)' <=> TokenWritten(b, delta, end, t)
  BY <1>3, <1>4 DEF TokenWritten
<1>6. \A delta, out, last, end :
        TokensWritten(b, delta, out, last, end)' <=> TokensWritten(b, delta, out, last, end)
  BY <1>5 DEF TokensWritten
<1>7. Limit' = Limit
  BY DEF Limit
<1>8. LzWritten(b)' <=> LzWritten(b)
  BY <1>6, <1>7 DEF LzWritten
<1>9. RawWritten(b)' <=> RawWritten(b)
  BY <1>7 DEF RawWritten
<1> QED
  BY <1>8, <1>9

(* What a block in work says depends on the source alone. *)
LEMMA WorkKept ==
  ASSUME src' = src, NEW w
  PROVE  WorkWritten(w)' <=> WorkWritten(w)
<1>1. \A a, tok, delta, run, end :
        RunWritten(w, delta, a, tok, run, end)' <=> RunWritten(w, delta, a, tok, run, end)
  BY DEF RunWritten, Entries
<1>2. \A at, d, len : IsMatch(at, d, len)' <=> IsMatch(at, d, len)
  BY DEF IsMatch
<1>3. \A delta, a, tok, c, end :
        MatchWritten(w, delta, a, tok, c, end)' <=> MatchWritten(w, delta, a, tok, c, end)
  BY <1>1, <1>2 DEF MatchWritten
<1>4. \A delta, a, tok, c, end :
        TailWritten(w, delta, a, tok, c, end)' <=> TailWritten(w, delta, a, tok, c, end)
  BY <1>1 DEF TailWritten
<1>5. \A delta, end, t : TokenWritten(w, delta, end, t)' <=> TokenWritten(w, delta, end, t)
  BY <1>3, <1>4 DEF TokenWritten
<1>6. \A delta, out, last, end :
        TokensWritten(w, delta, out, last, end)' <=> TokensWritten(w, delta, out, last, end)
  BY <1>5 DEF TokensWritten
<1>7. Limit' = Limit
  BY DEF Limit
<1> QED
  BY <1>6, <1>7 DEF WorkWritten

(* What a stream says depends on the source alone. *)
LEMMA StreamKept ==
  ASSUME src' = src, NEW s, NEW e
  PROVE  StreamWritten(s, e)' <=> StreamWritten(s, e)
<1>1. \A b : (RawWritten(b) \/ LzWritten(b))' <=> RawWritten(b) \/ LzWritten(b)
  BY BlockKept
<1> QED
  BY <1>1 DEF StreamWritten

(* One more block, which continues the stream s.                           *)
LEMMA StreamGrows ==
  ASSUME NEW s \in Seq(RawBlocks \cup LzBlocks), NEW e, e # "done", StreamWritten(s, e),
         NEW b \in RawBlocks \cup LzBlocks, RawWritten(b) \/ LzWritten(b),
         b.start = EndAfter(s, Len(s)), b.base = RepsAt(s, Len(s)),
         NEW e2, IsLast(b) <=> e2 = "done"
  PROVE  /\ StreamWritten(Append(s, b), e2)
         /\ Append(s, b) \in Seq(RawBlocks \cup LzBlocks)
         /\ Len(Append(s, b)) = Len(s) + 1
         /\ EndAfter(Append(s, b), Len(Append(s, b))) = BlockEnd(b)
         /\ RepsAt(Append(s, b), Len(Append(s, b))) = BlockReps(b)
<1> DEFINE n  == Len(s)
           s2 == Append(s, b)
<1>1. /\ n \in Nat /\ s2 \in Seq(RawBlocks \cup LzBlocks) /\ Len(s2) = n + 1
      /\ \A k \in 1 .. n : s2[k] = s[k]
      /\ s2[n + 1] = b
  BY AppendProperties, LenProperties
<1>2. b.start = EndAfter(s, n) /\ b.base = RepsAt(s, n)
  OBVIOUS
<1>3. \A k \in 1 .. n :
        /\ RawWritten(s[k]) \/ LzWritten(s[k])
        /\ s[k].start = EndAfter(s, k - 1)
        /\ s[k].base = RepsAt(s, k - 1)
        /\ ~IsLast(s[k])
  BY DEF StreamWritten
<1> HIDE DEF n, s2
<1>4. \A k \in 0 .. n : EndAfter(s2, k) = EndAfter(s, k) /\ RepsAt(s2, k) = RepsAt(s, k)
  BY <1>1 DEF EndAfter, RepsAt
<1>5. EndAfter(s2, n + 1) = BlockEnd(b) /\ RepsAt(s2, n + 1) = BlockReps(b)
  BY <1>1 DEF EndAfter, RepsAt
<1>6. ASSUME NEW k \in 1 .. (n + 1)
      PROVE  /\ RawWritten(s2[k]) \/ LzWritten(s2[k])
             /\ s2[k].start = EndAfter(s2, k - 1)
             /\ s2[k].base = RepsAt(s2, k - 1)
             /\ IsLast(s2[k]) <=> k = n + 1 /\ e2 = "done"
  <2>1. k - 1 \in 0 .. n
    BY <1>1
  <2>2. CASE k \in 1 .. n
    <3>1. s2[k] = s[k] /\ k # n + 1
      BY <1>1, <2>2
    <3> QED
      BY <2>1, <2>2, <3>1, <1>3, <1>4
  <2>3. CASE k = n + 1
    <3>1. s2[k] = b /\ k - 1 = n
      BY <1>1, <2>3
    <3> QED
      BY <2>1, <2>3, <3>1, <1>2, <1>4
  <2> QED
    BY <1>1, <2>2, <2>3
<1>7. StreamWritten(s2, e2)
  BY <1>1, <1>6 DEF StreamWritten
<1> QED
  BY <1>1, <1>5, <1>7 DEF n, s2

-----------------------------------------------------------------------------
(* The steps of the encoder.                                               *)

(* A stream that was shown to be right is the new one. *)
LEMMA StreamNow ==
  ASSUME src' = src, NEW s, NEW e, stream' = s, enc' = e, StreamWritten(s, e)
  PROVE  StreamInv'
BY StreamKept DEF StreamInv

(* A block in work that was shown to be right is the new one. *)
LEMMA WorkNow ==
  ASSUME src' = src, NEW w, work' = w, WorkWritten(w)
  PROVE  WorkWritten(work)'
BY WorkKept

(* While the encoder is at work the decoder has not been called.           *)
LEMMA DecoderStays ==
  ASSUME DecoderInv, enc \in {"block", "parse"}, src' = src, UNCHANGED decVars
  PROVE  DecoderInv' /\ dec = "idle"
<1>1. dec = "idle"
  BY DEF DecoderInv
<1>2. size = -1 /\ dst = <<>> /\ cpos = 0 /\ reps = InitReps
  BY <1>1 DEF DecoderInv
<1>3. dst = SubSeq(src, 1, Len(dst)) /\ Len(dst) <= Len(src)
  BY DEF DecoderInv
<1>4. dst' = dst /\ size' = size /\ cpos' = cpos /\ reps' = reps /\ dec' = dec
  BY DEF decVars
<1> QED
  BY <1>1, <1>2, <1>3, <1>4 DEF DecoderInv

(* The source is a sequence of bytes. *)
LEMMA SourceTyped ==
  ASSUME src \in Sources
  PROVE  src \in Seq(Byte) /\ Len(src) \in Nat /\ Limit \in Int /\ Limit < Len(src)
<1>1. src \in Seq(Byte)
  BY SkandaCodecAssumption
<1>2. Len(src) \in Nat
  BY <1>1, LenProperties
<1> QED
  BY <1>1, <1>2, Widths DEF Limit

(* The initial recent distances are distances. *)
LEMMA InitRepsTyped == InitReps \in Rep
<1>1. InitReps \in [1 .. 3 -> Nat \ {0}]
  BY DEF InitReps
<1> QED
  BY <1>1 DEF Rep

(* A block that a step of Encode adds to the stream, and leaves the        *)
(* decoder alone.                                                          *)
LEMMA BlockAdded ==
  ASSUME IInv, enc \in {"block", "parse"}, NEW b \in RawBlocks \cup LzBlocks,
         RawWritten(b) \/ LzWritten(b), b.start = pos, b.base = state,
         stream' = Append(stream, b), src' = src, IsLast(b) <=> enc' = "done",
         UNCHANGED decVars
  PROVE  /\ StreamInv'
         /\ DecoderInv'
         /\ stream' \in Seq(RawBlocks \cup LzBlocks)
         /\ stream' # <<>>
         /\ EndAfter(stream', Len(stream')) = BlockEnd(b)
         /\ RepsAt(stream', Len(stream')) = BlockReps(b)
         /\ cpos' \in 0 .. Len(stream')
<1>1. /\ stream \in Seq(RawBlocks \cup LzBlocks) /\ StreamWritten(stream, enc)
      /\ b.start = EndAfter(stream, Len(stream)) /\ b.base = RepsAt(stream, Len(stream))
  BY DEF IInv, TypeOK, StreamInv, EncoderInv
<1>2. /\ StreamWritten(Append(stream, b), enc')
      /\ Append(stream, b) \in Seq(RawBlocks \cup LzBlocks)
      /\ Len(Append(stream, b)) = Len(stream) + 1
      /\ EndAfter(Append(stream, b), Len(Append(stream, b))) = BlockEnd(b)
      /\ RepsAt(Append(stream, b), Len(Append(stream, b))) = BlockReps(b)
  BY <1>1, StreamGrows
<1>3. StreamInv'
  BY <1>2, StreamNow
<1>4. DecoderInv'
  BY DecoderStays DEF IInv
<1>5. cpos' = 0
  BY DecoderStays DEF IInv, DecoderInv, decVars
<1>6. Len(stream') \in Nat /\ stream' # <<>>
  BY <1>1, <1>2, LenProperties
<1> QED
  BY <1>2, <1>3, <1>4, <1>5, <1>6

(* A short source is one raw block or none. *)
LEMMA EncodeShortKeeps ==
  ASSUME IInv, EncodeShort
  PROVE  IInv'
<1> DEFINE b == RawBlock(0, Len(src), TRUE)
<1>1. /\ enc = "block" /\ stream = <<>> /\ stream' = <<b>> /\ stop' \in BOOLEAN
      /\ enc' = "done" /\ src' = src /\ pos' = pos /\ state' = state /\ UNCHANGED decVars
  BY DEF EncodeShort
<1>2. /\ src \in Seq(Byte) /\ Len(src) \in Nat /\ src \in Sources /\ state \in Rep
      /\ pos \in 0 .. Len(src)
  BY SourceTyped DEF IInv, TypeOK
<1>3. pos = 0
  <2>1. pos = EndAfter(stream, Len(stream))
    BY <1>1 DEF IInv, EncoderInv
  <2> QED
    BY <1>1, <2>1 DEF EndAfter
<1>4. /\ RawWritten(b) /\ b \in RawBlocks /\ b.start = pos /\ b.base = state /\ IsLast(b)
  <2>1. /\ 0 \in Nat /\ 0 <= Len(src) /\ Len(src) <= Len(src) /\ TRUE \in BOOLEAN
        /\ TRUE => Len(src) = Len(src)
        /\ ~TRUE => 0 < Len(src) /\ Len(src) <= Limit
    BY <1>2
  <2>2. /\ RawWritten(b) /\ b \in RawBlocks /\ b.start = 0 /\ b.base = state
        /\ IsLast(b) <=> TRUE
    BY <1>2, <2>1, RawMade, Zenon
  <2> QED
    BY <1>3, <2>2
<1>5. stream' = Append(stream, b)
  BY <1>1
<1> HIDE DEF b
<1>6. /\ StreamInv' /\ DecoderInv'
      /\ stream' \in Seq(RawBlocks \cup LzBlocks) /\ stream' # <<>>
      /\ cpos' \in 0 .. Len(stream')
  BY <1>1, <1>4, <1>5, BlockAdded
<1>7. EncoderInv'
  BY <1>1, <1>6 DEF EncoderInv
<1>8. TypeOK'
  BY <1>1, <1>2, <1>6 DEF TypeOK, decVars, IInv
<1> QED
  BY <1>6, <1>7, <1>8 DEF IInv

(* A step of Encode that writes no block and stays in one.                 *)
LEMMA NoBlockAdded ==
  ASSUME IInv, enc \in {"block", "parse"}, enc' \in {"block", "parse"}, src' = src, stream' = stream,
         UNCHANGED decVars
  PROVE  /\ StreamInv'
         /\ DecoderInv'
         /\ stream' \in Seq(RawBlocks \cup LzBlocks)
         /\ cpos' \in 0 .. Len(stream')
<1>1. StreamWritten(stream, enc)
  BY DEF IInv, StreamInv
<1>2. StreamWritten(stream, enc')
  BY <1>1 DEF StreamWritten
<1>3. StreamInv'
  BY <1>2, StreamNow
<1>4. DecoderInv'
  BY DecoderStays DEF IInv
<1>5. stream' \in Seq(RawBlocks \cup LzBlocks) /\ cpos' \in 0 .. Len(stream')
  BY DEF IInv, TypeOK, decVars
<1> QED
  BY <1>3, <1>4, <1>5

(* A block begins on a copy of the state. *)
LEMMA BeginBlockKeeps ==
  ASSUME IInv, NEW end \in Nat, BeginBlock(end)
  PROVE  IInv'
<1>1. /\ enc = "block" /\ enc' = "parse" /\ src' = src /\ pos' = pos /\ state' = state
      /\ stream' = stream /\ stop' = stop /\ UNCHANGED decVars
      /\ pos < Limit /\ end \in (pos + 1) .. Limit /\ end <= pos + MaxBlock
  BY DEF BeginBlock
<1>2. PICK noHuffman \in NoHuffman :
       work' = [start     |-> pos,
                base      |-> state,
                end       |-> end,
                litStart  |-> IF pos = 0 THEN 1 ELSE pos,
                reps      |-> state,
                noHuffman |-> noHuffman,
                literals  |-> <<>>,
                deltaOK   |-> TRUE,
                tokens    |-> <<>>,
                dists     |-> <<>>,
                lens      |-> <<>>,
                marks     |-> <<>>]
  BY DEF BeginBlock
<1> DEFINE w == [start     |-> pos,
                base      |-> state,
                end       |-> end,
                litStart  |-> IF pos = 0 THEN 1 ELSE pos,
                reps      |-> state,
                noHuffman |-> noHuffman,
                literals  |-> <<>>,
                deltaOK   |-> TRUE,
                tokens    |-> <<>>,
                dists     |-> <<>>,
                lens      |-> <<>>,
                marks     |-> <<>>]
<1>3. /\ src \in Sources /\ state \in Rep /\ pos \in 0 .. Len(src) /\ stop \in BOOLEAN
      /\ size \in Nat \cup {-1} /\ dst \in Seq(Byte \cup {Unset}) /\ reps \in Rep
      /\ dec \in {"idle", "header", "tokens", "ok", "corrupt"}
      /\ pos = EndAfter(stream, Len(stream)) /\ state = RepsAt(stream, Len(stream))
  BY <1>1 DEF IInv, TypeOK, EncoderInv
<1>4. src \in Seq(Byte) /\ Len(src) \in Nat /\ Limit \in Int /\ pos \in Nat
  BY <1>3, SourceTyped
<1>5. WorkWritten(w)
  <2>1. w \in WorkSet
    <3>1. noHuffman \in BOOLEAN
      BY SkandaCodecAssumption
    <3>2. <<>> \in Seq(Entry) /\ <<>> \in Seq(Tokens) /\ <<>> \in Seq(DistSymbols)
          /\ <<>> \in Seq(Byte) /\ <<>> \in Seq(MarkSet)
      OBVIOUS
    <3>3. (IF pos = 0 THEN 1 ELSE pos) \in Nat
      BY <1>4
    <3> QED
      BY <1>3, <1>4, <3>1, <3>2, <3>3 DEF WorkSet
  <2>2. /\ w.start < w.end /\ w.end <= Limit /\ w.end <= w.start + MaxBlock
        /\ w.litStart \in w.start .. w.end /\ w.litStart # 0
    BY <1>1, <1>4, Widths
  <2>3. TokensWritten(w, w.deltaOK, w.litStart, w.reps, w.end)
    <3>1. Len(w.tokens) = 0 /\ Len(w.marks) = 0 /\ Len(w.dists) = 0 /\ Len(w.lens) = 0
          /\ Len(w.literals) = 0
      OBVIOUS
    <3>2. After(w, 0) = [out |-> w.litStart, reps |-> w.reps, dist |-> 0, len |-> 0, lit |-> 0]
      BY DEF After, First
    <3> HIDE DEF w
    <3> QED
      BY <3>1, <3>2 DEF TokensWritten
  <2> HIDE DEF w
  <2> QED
    BY <2>1, <2>2, <2>3 DEF WorkWritten
<1>6. work' = w /\ w.start = pos /\ w.base = state
  BY <1>2
<1> HIDE DEF w
<1>7. WorkWritten(work)'
  BY <1>1, <1>5, <1>6, WorkNow
<1>8. /\ StreamInv' /\ DecoderInv' /\ stream' \in Seq(RawBlocks \cup LzBlocks)
      /\ cpos' \in 0 .. Len(stream')
  BY <1>1, NoBlockAdded
<1>9. EncoderInv'
  BY <1>1, <1>3, <1>6, <1>7 DEF EncoderInv
<1>10. TypeOK'
  BY <1>1, <1>3, <1>8 DEF TypeOK, decVars
<1> QED
  BY <1>8, <1>9, <1>10 DEF IInv

(* A run and a match are written. *)
LEMMA EmitMatchKeeps ==
  ASSUME IInv, NEW at \in Nat, NEW distance \in Nat \ {0}, NEW len \in Nat, len >= MinMatch,
         EmitMatch(at, distance, len)
  PROVE  IInv'
<1>1. /\ enc = "parse" /\ enc' = "parse" /\ src' = src /\ pos' = pos /\ state' = state
      /\ stream' = stream /\ stop' = stop /\ UNCHANGED decVars
      /\ at >= work.litStart /\ at + len <= work.end /\ IsMatch(at, distance, len)
      /\ work' = WithMatch(work, at, distance, len)
  BY DEF EmitMatch
<1>2. /\ src \in Sources /\ state \in Rep /\ pos \in 0 .. Len(src) /\ stop \in BOOLEAN
      /\ size \in Nat \cup {-1} /\ dst \in Seq(Byte \cup {Unset}) /\ reps \in Rep
      /\ dec \in {"idle", "header", "tokens", "ok", "corrupt"}
      /\ pos = EndAfter(stream, Len(stream)) /\ state = RepsAt(stream, Len(stream))
      /\ WorkWritten(work) /\ work.start = pos /\ work.base = state
  BY <1>1 DEF IInv, TypeOK, EncoderInv
<1>3. /\ WorkWritten(WithMatch(work, at, distance, len))
      /\ SameBlock(work, WithMatch(work, at, distance, len))
  BY <1>1, <1>2, SourceTyped, MatchKeeps
<1>4. WorkWritten(work)' /\ work'.start = pos /\ work'.base = state
  BY <1>1, <1>2, <1>3, WorkNow DEF SameBlock
<1>5. /\ StreamInv' /\ DecoderInv' /\ stream' \in Seq(RawBlocks \cup LzBlocks)
      /\ cpos' \in 0 .. Len(stream')
  BY <1>1, NoBlockAdded
<1>6. EncoderInv'
  BY <1>1, <1>2, <1>4 DEF EncoderInv
<1>7. TypeOK'
  BY <1>1, <1>2, <1>5 DEF TypeOK, decVars
<1> QED
  BY <1>5, <1>6, <1>7 DEF IInv

(* A step of Encode that ends the block with b.                            *)
LEMMA BlockEnded ==
  ASSUME IInv, enc = "parse", BlockDone, NEW b \in RawBlocks \cup LzBlocks,
         RawWritten(b) \/ LzWritten(b), b.start = pos, b.base = state,
         stream' = Append(stream, b), ~IsLast(b), BlockEnd(b) = work.end,
         state' = BlockReps(b), BlockReps(b) \in Rep
  PROVE  IInv'
<1>1. /\ pos' = work.end /\ stop' \in BOOLEAN /\ src' = src /\ UNCHANGED decVars
      /\ enc' \in {"interrupted", "block"}
  BY DEF BlockDone
<1>2. /\ src \in Sources
      /\ size \in Nat \cup {-1} /\ dst \in Seq(Byte \cup {Unset}) /\ reps \in Rep
      /\ dec \in {"idle", "header", "tokens", "ok", "corrupt"} /\ WorkWritten(work)
  BY DEF IInv, TypeOK, EncoderInv
<1>3. work.end \in 0 .. Len(src)
  BY <1>2, SourceTyped, WorkParts
<1>4. IsLast(b) <=> enc' = "done"
  BY <1>1
<1>5. /\ StreamInv' /\ DecoderInv' /\ stream' \in Seq(RawBlocks \cup LzBlocks)
      /\ EndAfter(stream', Len(stream')) = BlockEnd(b)
      /\ RepsAt(stream', Len(stream')) = BlockReps(b)
      /\ cpos' \in 0 .. Len(stream')
  BY <1>1, <1>4, BlockAdded
<1>6. (pos = EndAfter(stream, Len(stream)) /\ state = RepsAt(stream, Len(stream)))'
  <2>1. \A k : EndAfter(stream, k)' = EndAfter(stream', k) /\ RepsAt(stream, k)' = RepsAt(stream', k)
    BY DEF EndAfter, RepsAt, BlockEnd, BlockReps, After, First
  <2> QED
    BY <1>1, <1>5, <2>1
<1>7. EncoderInv'
  BY <1>1, <1>6 DEF EncoderInv
<1>8. TypeOK'
  BY <1>1, <1>2, <1>3, <1>5 DEF TypeOK, decVars
<1> QED
  BY <1>5, <1>7, <1>8 DEF IInv

(* The compressed block is kept. *)
LEMMA KeepCompressedKeeps ==
  ASSUME IInv, NEW mode, KeepCompressed(mode)
  PROVE  IInv'
<1> DEFINE w == WithTail(work)
           b == LzBlock(w, mode)
<1>1. /\ enc = "parse" /\ mode \in Modes(w) /\ stream' = Append(stream, b)
      /\ state' = w.reps /\ BlockDone
  BY DEF KeepCompressed
<1>2. /\ src \in Seq(Byte) /\ WorkWritten(work) /\ work.start = pos /\ work.base = state
  BY <1>1, SourceTyped DEF IInv, TypeOK, EncoderInv
<1>3. WorkWritten(w) /\ SameBlock(work, w) /\ w.litStart = w.end
  <2>1. src \in Seq(Byte) /\ WorkWritten(work)
    BY <1>2
  <2>2. /\ WorkWritten(WithTail(work)) /\ SameBlock(work, WithTail(work))
        /\ WithTail(work).litStart = work.end
    BY <2>1, TailKeeps
  <2> QED
    BY <2>2 DEF SameBlock
<1>4. w.reps \in Rep
  BY <1>2, <1>3, WorkParts
<1> HIDE DEF w
<1>5. /\ LzWritten(b) /\ b \in LzBlocks /\ b.start = w.start /\ b.base = w.base
      /\ BlockEnd(b) = w.end /\ BlockReps(b) = w.reps /\ ~IsLast(b)
  BY <1>1, <1>2, <1>3, LzMade
<1> HIDE DEF b
<1> QED
  BY <1>1, <1>2, <1>3, <1>4, <1>5, BlockEnded DEF SameBlock

(* The block is written raw and the copy is dropped. *)
LEMMA KeepRawKeeps ==
  ASSUME IInv, KeepRaw
  PROVE  IInv'
<1> DEFINE b == RawBlock(pos, work.end, FALSE)
<1>1. enc = "parse" /\ stream' = Append(stream, b) /\ state' = state /\ BlockDone
  BY DEF KeepRaw
<1>2. /\ src \in Seq(Byte) /\ WorkWritten(work) /\ work.start = pos /\ state \in Rep
  BY <1>1, SourceTyped DEF IInv, TypeOK, EncoderInv
<1>3. /\ pos \in Nat /\ work.end \in Nat /\ pos <= work.end /\ work.end <= Len(src)
      /\ FALSE \in BOOLEAN /\ FALSE => work.end = Len(src)
      /\ ~FALSE => pos < work.end /\ work.end <= Limit
  BY <1>2, WorkParts DEF WorkWritten
<1>4. /\ RawWritten(b) /\ b \in RawBlocks /\ b.start = pos /\ b.base = state
      /\ BlockEnd(b) = work.end /\ BlockReps(b) = state
      /\ IsLast(b) <=> FALSE
  BY <1>2, <1>3, RawMade, ZenonT(60)
<1> HIDE DEF b
<1>5. /\ b \in RawBlocks \cup LzBlocks /\ (RawWritten(b) \/ LzWritten(b))
      /\ b.start = pos /\ b.base = state /\ ~IsLast(b) /\ BlockEnd(b) = work.end
      /\ state' = BlockReps(b) /\ BlockReps(b) \in Rep
  BY <1>1, <1>2, <1>4
<1> QED
  BY <1>1, <1>5, BlockEnded, Zenon

(* The last bytes are written. *)
LEMMA FinishStreamKeeps ==
  ASSUME IInv, FinishStream
  PROVE  IInv'
<1> DEFINE b == RawBlock(pos, Len(src), TRUE)
<1>1. /\ enc = "block" /\ stream' = Append(stream, b) /\ stop' \in BOOLEAN
      /\ enc' = "done" /\ src' = src /\ pos' = pos /\ state' = state /\ UNCHANGED decVars
  BY DEF FinishStream
<1>2. /\ src \in Seq(Byte) /\ Len(src) \in Nat /\ src \in Sources /\ state \in Rep
      /\ pos \in 0 .. Len(src)
  BY SourceTyped DEF IInv, TypeOK
<1>3. /\ pos \in Nat /\ pos <= Len(src) /\ Len(src) <= Len(src) /\ TRUE \in BOOLEAN
      /\ TRUE => Len(src) = Len(src)
      /\ ~TRUE => pos < Len(src) /\ Len(src) <= Limit
  BY <1>2
<1>4. /\ RawWritten(b) /\ b \in RawBlocks /\ b.start = pos /\ b.base = state
      /\ IsLast(b) <=> TRUE
  BY <1>2, <1>3, RawMade, Zenon
<1> HIDE DEF b
<1>5. /\ StreamInv' /\ DecoderInv'
      /\ stream' \in Seq(RawBlocks \cup LzBlocks) /\ stream' # <<>>
      /\ cpos' \in 0 .. Len(stream')
  BY <1>1, <1>4, BlockAdded
<1>6. EncoderInv'
  BY <1>1, <1>5 DEF EncoderInv
<1>7. TypeOK'
  BY <1>1, <1>2, <1>5 DEF TypeOK, decVars, IInv
<1> QED
  BY <1>5, <1>6, <1>7 DEF IInv

-----------------------------------------------------------------------------
(* The steps of the decoder: the literals of a token.                      *)

(* How many of the i literals from position from on go to a lane, and      *)
(* where the literals of a run stand in their lanes.                       *)
Shared(split, lane, from, i) == Cardinality({j \in 1 .. i : LaneOf(split, from + j - 1) = lane})

(* The places of a run in the lanes. *)
LEMMA RunPlaces ==
  ASSUME NEW literals, NEW split \in BOOLEAN, NEW p \in Nat, NEW from \in Nat, NEW run \in Nat,
         NEW distance, NEW es, Stands(literals, p, es), RunEntries(es, from, run, distance),
         NEW lane, NEW i \in 0 .. run
  PROVE  Used(literals, split, lane, p) + Shared(split, lane, from, i)
           = Used(literals, split, lane, p + i)
<1>1. ASSUME NEW j \in 1 .. i
      PROVE  literals[p + j].at = from + j - 1
  <2>1. j \in 1 .. run
    OBVIOUS
  <2>2. literals[p + j] = es[j] /\ es[j].at = from + j - 1
    BY <2>1 DEF Stands, RunEntries
  <2> QED
    BY <2>2
<1>2. {j \in 1 .. i : LaneOf(split, from + j - 1) = lane}
        = {j \in 1 .. i : LaneOf(split, literals[p + j].at) = lane}
  BY <1>1
<1>3. i \in Nat
  OBVIOUS
<1>4. Used(literals, split, lane, p + i)
        = Used(literals, split, lane, p)
            + Cardinality({j \in 1 .. i : LaneOf(split, literals[p + j].at) = lane})
  BY <1>3, UsedParts
<1> QED
  BY <1>2, <1>4 DEF Shared

(* A literal belongs to one of the lanes. *)
LEMMA LaneInRange ==
  ASSUME NEW split, NEW at \in Nat
  PROVE  LaneOf(split, at) \in 0 .. (Lanes - 1)
<1>1. at % Lanes \in 0 .. (Lanes - 1) /\ 0 \in 0 .. (Lanes - 1)
  BY Widths, ModRange
<1> QED
  BY <1>1 DEF LaneOf

(* The decoder finds the run es of a block behind p literals.              *)
LanesAt(p) ==
  cur.lane = [lane \in 0 .. (Lanes - 1) |-> Used(Block.literals, Block.mode.split, lane, p)]

CodedAs(out, run, es) ==
  \A i \in 1 .. run :
    /\ RunIndex(out, i) <= Len(Block.lanes[RunLane(out, i)])
    /\ Block.lanes[RunLane(out, i)][RunIndex(out, i)] = Symbol(Block.mode, es[i])

(* The decoder finds a run where the encoder put it. *)
LEMMA RunFound ==
  ASSUME LzWritten(Block), NEW p \in Nat, LanesAt(p), NEW out, NEW run \in Nat, Len(out) \in Nat,
         NEW distance, NEW es, Stands(Block.literals, p, es), RunEntries(es, Len(out), run, distance)
  PROVE  /\ CodedAs(out, run, es)
         /\ LanesAfter(out, run) =
              [lane \in 0 .. (Lanes - 1) |->
                 Used(Block.literals, Block.mode.split, lane, p + run)]
<1> DEFINE literals == Block.literals
           split    == Block.mode.split
           from     == Len(out)
<1>1. /\ literals \in Seq(Entry) /\ Block.mode \in [split : BOOLEAN, delta : BOOLEAN]
      /\ split \in BOOLEAN /\ Len(literals) \in Nat
      /\ Block.lanes = [lane \in 0 .. (Lanes - 1) |-> LaneStream(literals, Block.mode, lane)]
  <2>1. Block \in LzBlocks
    BY DEF LzWritten
  <2>2. Block.literals \in Seq(Entry) /\ Block.mode \in [split : BOOLEAN, delta : BOOLEAN]
    BY <2>1 DEF LzBlocks
  <2>3. Block.lanes = [lane \in 0 .. (Lanes - 1) |-> LaneStream(Block.literals, Block.mode, lane)]
    BY DEF LzWritten
  <2> QED
    BY <2>2, <2>3, LenProperties
<1>2. from \in Nat
  OBVIOUS
<1>3. cur.lane = [lane \in 0 .. (Lanes - 1) |-> Used(literals, split, lane, p)]
  BY DEF LanesAt
<1>4. Len(es) = run /\ p + run <= Len(literals)
  BY DEF RunEntries, Stands
<1>5. \A i : RunLane(out, i) = LaneOf(split, from + i - 1)
  BY DEF RunLane
<1> HIDE DEF literals, split, from
<1>6. ASSUME NEW lane, NEW i \in 0 .. run
      PROVE  Used(literals, split, lane, p) + Shared(split, lane, from, i)
               = Used(literals, split, lane, p + i)
  <2>1. Stands(literals, p, es) /\ RunEntries(es, from, run, distance)
    BY DEF literals, from
  <2> QED
    BY <1>1, <1>2, <2>1, RunPlaces
<1>7. ASSUME NEW i \in 1 .. run
      PROVE  /\ RunIndex(out, i) <= Len(Block.lanes[RunLane(out, i)])
             /\ Block.lanes[RunLane(out, i)][RunIndex(out, i)] = Symbol(Block.mode, es[i])
  <2> DEFINE lane == LaneOf(split, from + i - 1)
  <2>1. from + i - 1 \in Nat /\ i \in 0 .. run
    BY <1>2
  <2>2. lane \in 0 .. (Lanes - 1)
    BY <2>1, LaneInRange
  <2>3. RunLane(out, i) = lane
    BY <1>5
  <2>4. RunIndex(out, i) = Used(literals, split, lane, p + i)
    <3>1. RunIndex(out, i) = cur.lane[lane]
            + Shared(split, lane, from, i)
      <4>1. {j \in 1 .. i : RunLane(out, j) = RunLane(out, i)}
              = {j \in 1 .. i : LaneOf(split, from + j - 1) = lane}
        BY <1>5
      <4> QED
        BY <2>3, <4>1 DEF RunIndex, Shared
    <3> QED
      BY <1>3, <1>6, <2>1, <2>2, <3>1
  <2>5. literals[p + i] = es[i] /\ es[i].at = from + i - 1
    BY <1>4 DEF Stands, RunEntries, literals, from
  <2>6. Block.lanes[lane] = LaneStream(literals, Block.mode, lane)
    BY <1>1, <2>2
  <2>7. p + i \in 1 .. Len(literals) /\ LaneOf(split, literals[p + i].at) = lane
    BY <1>1, <1>4, <2>5
  <2> HIDE DEF lane
  <2>8. /\ Len(Block.lanes[lane]) = Used(literals, split, lane, Len(literals))
        /\ Block.lanes[lane][Used(literals, split, lane, p + i)] = Symbol(Block.mode, literals[p + i])
    BY <1>1, <2>6, <2>7, LaneFacts DEF split
  <2>9. Used(literals, split, lane, p + i) <= Used(literals, split, lane, Len(literals))
    <3>1. p + i \in Nat /\ Len(literals) - (p + i) \in Nat
          /\ (p + i) + (Len(literals) - (p + i)) = Len(literals)
      BY <1>1, <2>7
    <3>2. Used(literals, split, lane, p + i)
            <= Used(literals, split, lane, (p + i) + (Len(literals) - (p + i)))
      BY <1>1, <3>1, UsedParts
    <3> QED
      BY <3>1, <3>2
  <2> QED
    BY <2>3, <2>4, <2>5, <2>8, <2>9
<1>8. LanesAfter(out, run) = [lane \in 0 .. (Lanes - 1) |-> Used(literals, split, lane, p + run)]
  <2>1. ASSUME NEW lane \in 0 .. (Lanes - 1)
        PROVE  cur.lane[lane] + Cardinality({i \in 1 .. run : RunLane(out, i) = lane})
                 = Used(literals, split, lane, p + run)
    <3>1. {i \in 1 .. run : RunLane(out, i) = lane}
            = {i \in 1 .. run : LaneOf(split, from + i - 1) = lane}
      BY <1>5
    <3>2. cur.lane[lane] = Used(literals, split, lane, p)
      BY <1>3
    <3>3. run \in 0 .. run
      OBVIOUS
    <3> QED
      BY <1>6, <3>1, <3>2, <3>3 DEF Shared
  <2> QED
    BY <2>1 DEF LanesAfter
<1> QED
  BY <1>7, <1>8 DEF CodedAs, literals, split

(* The bytes of a run: a delta is undone with the byte it refers to, which *)
(* may be one of the run.                                                  *)
SolvesRun(f, out, n, distance) ==
  f = [i \in 1 .. n |->
         IF ~Block.mode.delta THEN Block.lanes[RunLane(out, i)][RunIndex(out, i)]
         ELSE (Block.lanes[RunLane(out, i)][RunIndex(out, i)]
                 + (IF i <= distance THEN out[Len(out) + i - distance]
                                     ELSE f[i - distance])) % ByteSize]

RunBytes(from, run) == [i \in 1 .. run |-> src[from + i]]
AgreesTo(out, n)    == Len(out) = n /\ \A i \in 1 .. n : out[i] = src[i]

(* The decoder undoes the delta of a run, byte after byte. *)
LEMMA RunDecoded ==
  ASSUME src \in Seq(Byte), LzWritten(Block), NEW from \in Nat, NEW run \in Nat,
         from + run <= Len(src), NEW distance \in Nat \ {0}, NEW out, NEW es,
         AgreesTo(out, from),
         RunEntries(es, from, run, distance), CodedAs(out, run, es),
         Block.mode.delta => HasRef(from, from + run, distance)
  PROVE  LiteralRun(out, run, distance) = RunBytes(from, run)
<1>0. Len(out) = from /\ \A i \in 1 .. from : out[i] = src[i]
  BY DEF AgreesTo
<1> DEFINE coded(i) == Block.lanes[RunLane(out, i)][RunIndex(out, i)]
           delta    == Block.mode.delta
           bytes    == [i \in 1 .. run |-> src[from + i]]
           value(f, i) == IF ~delta THEN coded(i)
                          ELSE (coded(i) + (IF i <= distance THEN out[from + i - distance]
                                                             ELSE f[i - distance])) % ByteSize
           f0[i \in 1 .. run] ==
             IF ~Block.mode.delta THEN Block.lanes[RunLane(out, i)][RunIndex(out, i)]
             ELSE (Block.lanes[RunLane(out, i)][RunIndex(out, i)]
                     + (IF i <= distance THEN out[Len(out) + i - distance]
                                         ELSE f0[i - distance])) % ByteSize
<1>1. \A f : SolvesRun(f, out, run, distance) <=> f = [i \in 1 .. run |-> value(f, i)]
  BY <1>0 DEF SolvesRun
<1>2. f0 = CHOOSE f : SolvesRun(f, out, run, distance)
  BY DEF SolvesRun
<1>3. LiteralRun(out, run, distance) = [i \in 1 .. run |-> f0[i]]
  BY DEF LiteralRun
<1> HIDE DEF f0
<1>4. /\ \A i \in 1 .. Len(src) : src[i] \in 0 .. (ByteSize - 1)
      /\ ByteSize \in Nat \ {0} /\ Len(src) \in Nat
  BY Widths, ElementOfSeq, LenProperties
<1>5. \A i \in 1 .. run :
        coded(i) = IF delta THEN (src[from + i] - src[from + i - distance]) % ByteSize
                   ELSE src[from + i]
  <2> TAKE i \in 1 .. run
  <2>1. coded(i) = Symbol(Block.mode, es[i])
    BY DEF CodedAs
  <2>2. delta => from - distance >= 0
    <3>1. ~(from + run <= from)
      OBVIOUS
    <3> QED
      BY <3>1 DEF HasRef
  <2>3. /\ es[i].value = src[from + i]
        /\ delta => es[i].delta = (src[from + i] - src[from + i - distance]) % ByteSize
    BY <2>2 DEF RunEntries
  <2> QED
    BY <2>1, <2>3 DEF Symbol
<1>6. run # 0 /\ delta => from - distance >= 0
  <2>1. run # 0 => ~(from + run <= from)
    OBVIOUS
  <2> QED
    BY <2>1 DEF HasRef
<1> HIDE DEF coded, delta
<1>7. ASSUME NEW i \in 1 .. run, NEW f, i > distance => f[i - distance] = src[from + (i - distance)]
      PROVE  value(f, i) = src[from + i]
  <2>1. CASE ~delta
    BY <1>5, <2>1
  <2>2. CASE delta
    <3> DEFINE x == src[from + i - distance]
               v == src[from + i]
    <3>1. from - distance >= 0
      BY <1>6, <2>2
    <3>2. from + i - distance \in 1 .. Len(src) /\ from + i \in 1 .. Len(src)
      BY <1>4, <3>1
    <3>3. (IF i <= distance THEN out[from + i - distance] ELSE f[i - distance]) = x
      <4>1. CASE i <= distance
        <5>1. from + i - distance \in 1 .. from
          BY <3>1, <4>1
        <5> QED
          BY <1>0, <4>1, <5>1
      <4>2. CASE ~(i <= distance)
        <5>1. from + (i - distance) = from + i - distance
          OBVIOUS
        <5> QED
          BY <1>7, <4>2, <5>1
      <4> QED
        BY <4>1, <4>2
    <3>4. x \in 0 .. (ByteSize - 1) /\ v \in 0 .. (ByteSize - 1)
      BY <1>4, <3>2
    <3>5. value(f, i) = (((v - x) % ByteSize) + x) % ByteSize
      BY <1>5, <2>2, <3>3
    <3> HIDE DEF x, v
    <3>6. value(f, i) = v
      BY <1>4, <3>4, <3>5, ModBack
    <3> QED
      BY <3>6 DEF v
  <2> QED
    BY <2>1, <2>2
<1>8. SolvesRun(bytes, out, run, distance)
  <2>1. \A i \in 1 .. run : value(bytes, i) = src[from + i]
    <3> TAKE i \in 1 .. run
    <3>1. i > distance => bytes[i - distance] = src[from + (i - distance)]
      OBVIOUS
    <3> HIDE DEF bytes, value
    <3> QED
      BY <1>7, <3>1
  <2>2. bytes = [i \in 1 .. run |-> value(bytes, i)]
    <3> HIDE DEF value
    <3> QED
      BY <2>1
  <2> HIDE DEF value, bytes
  <2> QED
    BY <1>1, <2>2
<1>9. SolvesRun(f0, out, run, distance)
  BY <1>2, <1>8, Zenon
<1>10. f0 = [i \in 1 .. run |-> value(f0, i)]
  BY <1>1, <1>9
<1> DEFINE Good == {k \in Nat : \A i \in 1 .. run : i <= k => f0[i] = src[from + i]}
<1> HIDE DEF value
<1>11. 0 \in Good
  OBVIOUS
<1>12. ASSUME NEW k \in Nat, k \in Good
       PROVE  k + 1 \in Good
  <2>1. ASSUME NEW i \in 1 .. run, i <= k + 1
        PROVE  f0[i] = src[from + i]
    <3>1. i > distance => f0[i - distance] = src[from + (i - distance)]
      <4>1. ASSUME i > distance
            PROVE  i - distance \in 1 .. run /\ i - distance <= k
        BY <2>1, <4>1
      <4> QED
        BY <1>12, <4>1
    <3>2. value(f0, i) = src[from + i]
      BY <1>7, <3>1
    <3> QED
      BY <1>10, <3>2
  <2> QED
    BY <2>1
<1>13. Good \in SUBSET Nat
  OBVIOUS
<1>14. run \in Good
  <2> HIDE DEF Good
  <2> QED
    BY <1>11, <1>12, <1>13, NaturalsAll
<1>15. \A i \in 1 .. run : f0[i] = src[from + i]
  BY <1>14
<1> QED
  BY <1>3, <1>15 DEF RunBytes

(* In a block the decoder is at the mark a, with a prefix of the source.   *)
InBlock(a) ==
  /\ src \in Seq(Byte)
  /\ LzWritten(Block)
  /\ cur.end = BlockEnd(Block) /\ cur.end \in Nat /\ cur.end <= Len(src)
  /\ a \in MarkSet /\ AtMark(a)
  /\ dst = SubSeq(src, 1, Len(dst)) /\ Len(dst) <= Len(src)
  /\ \A i \in 1 .. Len(dst) : dst[i] = src[i]

(* A prefix of the source agrees with it. *)
LEMMA PrefixByte ==
  ASSUME src \in Seq(Byte), NEW out, Len(out) \in Nat, out = SubSeq(src, 1, Len(out)),
         Len(out) <= Len(src)
  PROVE  \A i \in 1 .. Len(out) : out[i] = src[i]
<1> DEFINE n == Len(out)
<1>1. n \in Nat /\ n <= Len(src) /\ Len(src) \in Nat
  BY LenProperties
<1>2. SubSeq(src, 1, n) = [i \in 1 .. n |-> src[i]]
  <2> HIDE DEF n
  <2> QED
    BY <1>1
<1> QED
  BY <1>2

(* A prefix of the source that grows by the bytes that follow it.          *)
LEMMA PrefixGrows ==
  ASSUME src \in Seq(Byte), NEW n \in Nat, NEW run \in Nat, n + run <= Len(src)
  PROVE  /\ SubSeq(src, 1, n) \o [i \in 1 .. run |-> src[n + i]] = SubSeq(src, 1, n + run)
         /\ Len(SubSeq(src, 1, n + run)) = n + run
         /\ SubSeq(src, 1, n + run) \in Seq(Byte)
<1>1. Len(src) \in Nat /\ \A i \in 1 .. Len(src) : src[i] \in Byte
  BY LenProperties, ElementOfSeq
<1> DEFINE one == SubSeq(src, 1, n)
           two == [i \in 1 .. run |-> src[n + i]]
           all == SubSeq(src, 1, n + run)
<1>2. /\ one = [i \in 1 .. n |-> src[i]] /\ all = [i \in 1 .. (n + run) |-> src[i]]
  BY <1>1
<1>3. one \in Seq(Byte) /\ Len(one) = n /\ all \in Seq(Byte) /\ Len(all) = n + run
  <2>1. \A i \in 1 .. (n + run) : src[i] \in Byte
    BY <1>1
  <2>2. n + run \in Nat /\ \A i \in 1 .. n : src[i] \in Byte
    BY <2>1
  <2> HIDE DEF one, all
  <2> QED
    BY <1>2, <2>1, <2>2
<1>4. two \in Seq(Byte) /\ Len(two) = run
  <2>1. \A i \in 1 .. run : src[n + i] \in Byte
    <3> TAKE i \in 1 .. run
    <3>1. n + i \in 1 .. Len(src)
      BY <1>1
    <3> QED
      BY <1>1, <3>1
  <2> QED
    BY <2>1
<1>5. one \o two = all
  <2>1. /\ one \o two \in Seq(Byte) /\ Len(one \o two) = n + run
        /\ \A i \in 1 .. (n + run) : (one \o two)[i] = IF i <= n THEN one[i] ELSE two[i - n]
    <3> HIDE DEF one, two
    <3> QED
      BY <1>3, <1>4, ConcatProperties
  <2>2. ASSUME NEW i \in 1 .. (n + run)
        PROVE  (one \o two)[i] = all[i]
    <3>1. CASE i <= n
      BY <1>2, <2>1, <3>1
    <3>2. CASE ~(i <= n)
      <4>1. i - n \in 1 .. run /\ n + (i - n) = i
        BY <3>2
      <4> QED
        BY <1>2, <2>1, <3>2, <4>1
    <3> QED
      BY <3>1, <3>2
  <2> HIDE DEF one, two, all
  <2> QED
    BY <1>3, <2>1, <2>2, SeqEqual
<1> QED
  BY <1>3, <1>5

(* The decoder reads the literals of a token as they were written.         *)
LiteralsRead(a, run, more) ==
  /\ LitLen = run /\ ~BadLiterals
  /\ LitEnd = cur.len + Len(LiteralCodes(run)) /\ LitEnd \in Nat
  /\ Stands(Block.lens, LitEnd, more)
  /\ dst \o Literals = SubSeq(src, 1, Len(dst) + run)
  /\ Len(dst \o Literals) = Len(dst) + run /\ dst \o Literals \in Seq(Byte)
  /\ LanesAfter(dst, LitLen) =
       [lane \in 0 .. (Lanes - 1) |->
          Used(Block.literals, Block.mode.split, lane, a.lit + run)]

(* The decoder reads the literals of a token. *)
LEMMA ReadLiterals ==
  ASSUME NEW a, InBlock(a), NEW run \in 0 .. MaxBlock,
         RunWritten(Block, Block.mode.delta, a, Token, run, cur.end),
         NEW more \in Seq(Byte), Stands(Block.lens, a.len, LiteralCodes(run) \o more)
  PROVE  LiteralsRead(a, run, more)
<1> DEFINE from == Len(dst)
           last == cur.reps[1]
           es   == Entries(from, from + run, last)
<1>1. /\ src \in Seq(Byte) /\ LzWritten(Block) /\ cur.end \in Nat /\ cur.end <= Len(src)
      /\ dst = SubSeq(src, 1, from) /\ from <= Len(src)
      /\ \A i \in 1 .. from : dst[i] = src[i]
      /\ from = a.out /\ cur.reps = a.reps /\ cur.len = a.len
      /\ LanesAt(a.lit)
  BY DEF InBlock, AtMark, LanesAt
<1>2. /\ a.out \in Nat /\ a.reps \in Rep /\ a.len \in Nat /\ a.lit \in Nat
  BY DEF InBlock, MarkSet
<1>3. from \in Nat /\ last \in Nat \ {0} /\ cur.len \in Nat /\ run \in Nat
  BY <1>1, <1>2, Widths DEF Rep
<1>4. /\ from + run <= cur.end
      /\ Token.lit = LiteralField(run)
      /\ Stands(Block.literals, a.lit, es)
      /\ Block.mode.delta => HasRef(from, from + run, last)
  BY <1>1 DEF RunWritten
<1>5. from + run <= Len(src) /\ Len(src) \in Nat
  BY <1>1, <1>3, <1>4, LenProperties
<1> HIDE DEF from, last
<1>6. RunEntries(es, from, run, last)
  BY <1>1, <1>3, <1>5, EntriesOf
<1> HIDE DEF es
<1>7. Block.lens \in Seq(Byte)
  BY <1>1 DEF LzWritten, LzBlocks
<1>8. /\ LiteralCodes(run) \in Seq(Byte) /\ Len(LiteralCodes(run)) \in Nat
      /\ Stands(Block.lens, cur.len, LiteralCodes(run))
      /\ Stands(Block.lens, cur.len + Len(LiteralCodes(run)), more)
  <2>1. LiteralCodes(run) \in Seq(Byte) /\ Len(LiteralCodes(run)) \in Nat
    BY RunRead
  <2> QED
    BY <1>1, <1>3, <1>7, <2>1, StandsParts
<1>9. /\ Token.lit + Read(Token.lit, Block.lens, cur.len) = run
      /\ Took(Token.lit, Block.lens, cur.len) = Len(LiteralCodes(run))
      /\ ~(Token.lit = FieldCap /\ CodeBytes(Block.lens, cur.len + 1) = 0)
  BY <1>3, <1>4, <1>7, <1>8, RunRead
<1>10. LitLen = run
  BY <1>9 DEF LitLen, FieldExtra, Read
<1>11. LitEnd = cur.len + Len(LiteralCodes(run)) /\ LitEnd \in Nat
  BY <1>3, <1>8, <1>9 DEF LitEnd, FieldBytes, Took
<1>12. /\ CodedAs(dst, run, es)
       /\ LanesAfter(dst, run) =
            [lane \in 0 .. (Lanes - 1) |->
               Used(Block.literals, Block.mode.split, lane, a.lit + run)]
  <2>1. /\ Len(dst) \in Nat /\ RunEntries(es, Len(dst), run, last)
        /\ LzWritten(Block) /\ a.lit \in Nat /\ LanesAt(a.lit) /\ run \in Nat
        /\ Stands(Block.literals, a.lit, es)
    BY <1>1, <1>2, <1>3, <1>4, <1>6 DEF from
  <2> QED
    BY <2>1, RunFound, ZenonT(60)
<1>13. Literals = [i \in 1 .. run |-> src[from + i]]
  <2>1. LiteralRun(dst, run, last) = [i \in 1 .. run |-> src[from + i]]
    <3>1. AgreesTo(dst, from)
      BY <1>1 DEF from, AgreesTo
    <3>2. LiteralRun(dst, run, last) = RunBytes(from, run)
      <4>1. /\ src \in Seq(Byte) /\ LzWritten(Block) /\ from \in Nat /\ run \in Nat
            /\ from + run <= Len(src) /\ last \in Nat \ {0}
        BY <1>1, <1>3, <1>5
      <4>2. Block.mode.delta => HasRef(from, from + run, last)
        BY <1>4
      <4>3. CodedAs(dst, run, es)
        BY <1>12
      <4> QED
        BY <4>1, <4>2, <4>3, <1>6, <3>1, RunDecoded, ZenonT(30)
    <3> QED
      BY <3>2 DEF RunBytes
  <2> QED
    BY <1>10, <2>1 DEF Literals, last
<1>14. /\ dst \o Literals = SubSeq(src, 1, from + run)
       /\ Len(dst \o Literals) = from + run /\ dst \o Literals \in Seq(Byte)
  BY ZenonT(60), <1>1, <1>3, <1>5, <1>13, PrefixGrows
<1>15. ~BadLiterals
  <2>1. ~FieldCut(Token.lit, cur.len + 1)
    BY <1>9 DEF FieldCut
  <2>2. ~(Len(dst) + LitLen > cur.end)
    BY <1>3, <1>1, <1>4, <1>10 DEF from
  <2>3. LiteralsPresent(dst, LitLen)
    BY <1>10, <1>12 DEF LiteralsPresent, CodedAs
  <2>4. ~(Block.mode.delta /\ LitLen > 0 /\ cur.reps[1] \notin 1 .. Len(dst))
    <3>1. SUFFICES ASSUME Block.mode.delta, run > 0
                   PROVE  last \in 1 .. from
      BY <1>10 DEF last, from
    <3>2. HasRef(from, from + run, last) /\ ~(from + run <= from)
      BY <1>3, <1>4, <3>1
    <3>3. from - last >= 0
      BY <3>2 DEF HasRef
    <3> QED
      BY <1>3, <3>3
  <2> QED
    BY <2>1, <2>2, <2>3, <2>4 DEF BadLiterals
<1> QED
  BY <1>8, <1>10, <1>11, <1>12, <1>14, <1>15 DEF LiteralsRead, from

-----------------------------------------------------------------------------
(* The match of a token.                                                   *)

(* A match copies what the source holds next.                              *)
LEMMA MatchCopied ==
  ASSUME src \in Seq(Byte), NEW at \in Nat, NEW d \in Nat \ {0}, d <= at, NEW len \in Nat,
         IsMatch(at, d, len), NEW out, AgreesTo(out, at)
  PROVE  MatchRun(out, d, len) = RunBytes(at, len)
<1>1. ASSUME NEW i \in 1 .. len
      PROVE  out[Len(out) - d + 1 + ((i - 1) % d)] = src[at + i]
  <2>1. Len(out) = at /\ \A j \in 1 .. at : out[j] = src[j]
    BY DEF AgreesTo
  <2>2. (i - 1) % d \in 0 .. (d - 1)
    <3>1. i - 1 \in Int
      OBVIOUS
    <3> QED
      BY <3>1, ModRange
  <2>3. at - d + 1 + ((i - 1) % d) \in 1 .. at
    BY <2>2
  <2>4. src[at - d + 1 + ((i - 1) % d)] = src[at + i]
    BY MatchRepeats
  <2> QED
    BY <2>1, <2>3, <2>4
<1> QED
  BY <1>1 DEF MatchRun, RunBytes

(* The decoder reads the match of a token as it was written.               *)
MatchFound(a, run, len, d) ==
  /\ ~BadMatch
  /\ cur.dist + DistUsed = a.dist + Len(DistCodes(a.reps, d))
  /\ RepsAfter = RepsNext(a.reps, d)
  /\ MatchEnd = LitEnd + Len(OneCode(len))
  /\ MatchLen = len
  /\ Distance = d

(* The decoder reads the distance and the length of a token. *)
LEMMA ReadMatch ==
  ASSUME NEW a, InBlock(a), NEW run \in 0 .. MaxBlock, NEW len \in MinMatch .. MaxBlock,
         NEW d \in 1 .. MaxDistance, LiteralsRead(a, run, OneCode(len)),
         a.out + run + len <= cur.end, IsMatch(a.out + run, d, len),
         Token.dist = DistField(a.reps, d), Token.len = OneField(len),
         Stands(Block.dists, a.dist, DistCodes(a.reps, d))
  PROVE  MatchFound(a, run, len, d)
<1>1. /\ src \in Seq(Byte) /\ LzWritten(Block) /\ cur.end \in Nat
      /\ Len(dst) = a.out /\ cur.reps = a.reps /\ cur.dist = a.dist
  BY DEF InBlock, AtMark
<1>2. /\ a.out \in Nat /\ a.reps \in Rep /\ a.dist \in Nat
  BY DEF InBlock, MarkSet
<1>3. /\ LitLen = run /\ LitEnd \in Nat /\ Stands(Block.lens, LitEnd, OneCode(len))
  BY DEF LiteralsRead
<1>4. /\ DistTaken(Token.dist) = Len(DistCodes(a.reps, d))
      /\ RepsFrom(a.reps, Token.dist, Block.dists, a.dist) = RepsNext(a.reps, d)
  BY <1>2, DistRead
<1>5. /\ DistUsed = Len(DistCodes(a.reps, d))
  BY <1>4 DEF DistUsed, DistTaken
<1>6. RepsAfter = RepsNext(a.reps, d)
  BY <1>1, <1>4 DEF RepsAfter, RepsFrom, Fresh, DistUsed, DistTaken
<1>7. Distance = d
  BY <1>2, <1>6, DistTyped DEF Distance
<1>8. Block.lens \in Seq(Byte)
  BY <1>1 DEF LzWritten, LzBlocks
<1>9. /\ OneField(len) + MinMatch + Read(OneField(len), Block.lens, LitEnd) = len
      /\ Took(OneField(len), Block.lens, LitEnd) = Len(OneCode(len))
      /\ ~(OneField(len) = FieldCap /\ CodeBytes(Block.lens, LitEnd + 1) = 0)
  BY <1>3, <1>8, MatchLenRead
<1>10. MatchLen = len
  BY <1>9 DEF MatchLen, FieldExtra, Read
<1>11. MatchEnd = LitEnd + Len(OneCode(len))
  BY <1>9 DEF MatchEnd, FieldBytes, Took
<1>12. ~BadMatch
  <2>1. ~(cur.dist + DistUsed > Len(Block.dists))
    <3>1. Len(DistCodes(a.reps, d)) \in Nat /\ Len(Block.dists) \in Nat
      <4>1. Block.dists \in Seq(DistSymbols)
        BY <1>1 DEF LzWritten, LzBlocks
      <4> QED
        BY <1>2, <4>1, DistTyped, LenProperties
    <3>2. a.dist + Len(DistCodes(a.reps, d)) <= Len(Block.dists)
      BY DEF Stands
    <3> QED
      BY <1>1, <1>2, <1>5, <3>1, <3>2
  <2>2. Distance \in 1 .. (Len(dst) + LitLen)
    <3>1. d <= a.out + run
      BY DEF IsMatch
    <3> QED
      BY <1>1, <1>2, <1>3, <1>7, <3>1, Widths
  <2>3. ~FieldCut(Token.len, LitEnd + 1)
    BY <1>9 DEF FieldCut
  <2>4. ~(Len(dst) + LitLen + MatchLen > cur.end)
    <3>1. Len(dst) + LitLen + MatchLen = a.out + run + len
      BY <1>1, <1>3, <1>10
    <3>2. a.out + run + len \in Nat
      BY <1>2, Widths
    <3> QED
      BY <1>1, <3>1, <3>2
  <2> QED
    BY <2>1, <2>2, <2>3, <2>4 DEF BadMatch
<1> QED
  BY <1>1, <1>5, <1>6, <1>7, <1>10, <1>11, <1>12 DEF MatchFound

-----------------------------------------------------------------------------
(* A token.                                                                *)

(* The block at the cursor is one that the encoder wrote. *)
LEMMA BlockWritten ==
  ASSUME IInv, cpos < Len(stream)
  PROVE  /\ RawWritten(Block) \/ LzWritten(Block)
         /\ Block.start = EndAfter(stream, cpos) /\ Block.base = RepsAt(stream, cpos)
         /\ cpos + 1 = Len(stream) /\ enc = "done" <=> IsLast(Block)
         /\ EndAfter(stream, cpos + 1) = BlockEnd(Block)
         /\ RepsAt(stream, cpos + 1) = BlockReps(Block)
         /\ cpos + 1 \in 0 .. Len(stream) /\ cpos \in Nat
         /\ src \in Sources /\ src \in Seq(Byte) /\ Len(src) \in Nat
<1>1. /\ src \in Sources /\ cpos \in 0 .. Len(stream) /\ StreamWritten(stream, enc)
      /\ stream \in Seq(RawBlocks \cup LzBlocks)
  BY DEF IInv, TypeOK, StreamInv
<1>2. cpos + 1 \in 1 .. Len(stream) /\ cpos + 1 # 0 /\ (cpos + 1) - 1 = cpos /\ cpos \in Nat
      /\ Len(stream) \in Nat /\ cpos + 1 \in 0 .. Len(stream)
  BY <1>1, LenProperties
<1>3. /\ RawWritten(Block) \/ LzWritten(Block)
      /\ Block.start = EndAfter(stream, cpos) /\ Block.base = RepsAt(stream, cpos)
      /\ cpos + 1 = Len(stream) /\ enc = "done" <=> IsLast(Block)
  BY <1>1, <1>2 DEF StreamWritten, Block
<1>4. /\ EndAfter(stream, cpos + 1) = BlockEnd(Block)
      /\ RepsAt(stream, cpos + 1) = BlockReps(Block)
  BY <1>2 DEF EndAfter, RepsAt, Block
<1>5. src \in Seq(Byte) /\ Len(src) \in Nat
  BY <1>1, SourceTyped
<1> QED
  BY <1>1, <1>2, <1>3, <1>4, <1>5

(* The decoder in a block, and where it is when it has decoded a token.    *)
LEMMA InTokens ==
  ASSUME IInv, dec = "tokens"
  PROVE  /\ LzWritten(Block) /\ Typed(Block) /\ InBlock(After(Block, cur.tok))
         /\ cur \in CurSet /\ cur.tok \in 0 .. Len(Block.tokens) /\ Len(Block.tokens) \in Nat
         /\ cur.left => cur.tok = Len(Block.tokens)
         /\ TokensWritten(Block, Block.mode.delta, cur.end, BlockReps(Block), cur.end)
         /\ cur.end <= size /\ size \in Nat /\ cur.end = BlockEnd(Block)
         /\ cpos < Len(stream) /\ Block.kind = "lz" /\ reps = Block.base
<1>1. /\ dst = SubSeq(src, 1, Len(dst)) /\ Len(dst) <= Len(src)
      /\ size \in Nat /\ cpos < Len(stream) /\ Block.kind = "lz" /\ reps = Block.base
      /\ cur.tok \in 0 .. Len(Block.tokens) /\ AtMark(After(Block, cur.tok))
      /\ cur \in CurSet /\ (cur.left => cur.tok = Len(Block.tokens))
      /\ cur.end = BlockEnd(Block) /\ cur.end <= size
  BY DEF IInv, DecoderInv
<1>2. /\ RawWritten(Block) \/ LzWritten(Block)
      /\ src \in Sources /\ src \in Seq(Byte) /\ Len(src) \in Nat
  BY <1>1, BlockWritten
<1>3. LzWritten(Block)
  BY <1>1, <1>2 DEF RawWritten, RawBlocks
<1>4. Typed(Block) /\ Block.tokens \in Seq(Tokens)
  BY <1>3 DEF LzWritten, LzBlocks, Typed
<1>5. /\ TokensWritten(Block, Block.mode.delta, cur.end, BlockReps(Block), cur.end)
      /\ Len(Block.marks) = Len(Block.tokens)
  BY <1>1, <1>3 DEF LzWritten, TokensWritten
<1>6. After(Block, cur.tok) \in MarkSet
  BY <1>1, <1>4, <1>5, AfterTyped
<1>7. cur.end \in Nat /\ cur.end <= Len(src)
  <2>1. cur.end \in Nat
    BY <1>1 DEF CurSet
  <2>2. BlockEnd(Block) <= Limit /\ Limit \in Int /\ Limit < Len(src)
    BY <1>2, <1>3, SourceTyped DEF LzWritten
  <2> QED
    BY <1>1, <1>2, <2>1, <2>2
<1>8. Len(dst) \in Nat
  BY <1>1, <1>6 DEF AtMark, MarkSet
<1>9. \A i \in 1 .. Len(dst) : dst[i] = src[i]
  BY <1>1, <1>2, <1>8, PrefixByte
<1>10. InBlock(After(Block, cur.tok))
  BY <1>1, <1>2, <1>3, <1>6, <1>7, <1>9 DEF InBlock
<1>11. Len(Block.tokens) \in Nat
  BY <1>4, LenProperties
<1> QED
  BY <1>1, <1>3, <1>4, <1>5, <1>10, <1>11

(* The decoder goes on to the mark c of its next token.                    *)
Moves(c) ==
  /\ dec' = "tokens" /\ UNCHANGED <<encVars, size, cpos, reps>>
  /\ cur' \in CurSet
  /\ cur'.tok = cur.tok + 1 /\ cur'.end = cur.end
  /\ cur'.left => cur.tok + 1 = Len(Block.tokens)
  /\ dst' = SubSeq(src, 1, c.out) /\ cur'.reps = c.reps
  /\ cur'.dist = c.dist /\ cur'.len = c.len
  /\ cur'.lane = [lane \in 0 .. (Lanes - 1) |->
                    Used(Block.literals, Block.mode.split, lane, c.lit)]

(* A decoder that reaches the next mark keeps the invariant. *)
LEMMA MovesKeeps ==
  ASSUME IInv, dec = "tokens", cur.tok < Len(Block.tokens), NEW c,
         c = After(Block, cur.tok + 1), Moves(c)
  PROVE  /\ IInv'
         /\ Len(dst') > Len(dst) /\ Len(dst') <= size /\ size # -1 /\ dec' = dec
         /\ src' = src /\ enc' = enc /\ size' = size
<1> DEFINE a == After(Block, cur.tok)
           n == Len(Block.tokens)
<1>1. /\ LzWritten(Block) /\ Typed(Block) /\ InBlock(a)
      /\ cur \in CurSet /\ cur.tok \in 0 .. n /\ n \in Nat
      /\ TokensWritten(Block, Block.mode.delta, cur.end, BlockReps(Block), cur.end)
      /\ cur.end <= size /\ size \in Nat /\ cur.end = BlockEnd(Block)
      /\ cpos < Len(stream) /\ Block.kind = "lz" /\ reps = Block.base
  BY InTokens
<1>2. cur.tok + 1 \in 1 .. n /\ cur.tok + 1 \in 0 .. n /\ cur.tok + 1 \in Nat
      /\ (cur.tok + 1) - 1 = cur.tok
  BY <1>1
<1>3. c \in MarkSet
  <2>1. Len(Block.marks) = Len(Block.tokens)
    BY <1>1 DEF TokensWritten
  <2> QED
    BY <1>1, <1>2, <2>1, AfterTyped
<1>4. a.out < c.out /\ c.out <= cur.end
  <2>1. TokenWritten(Block, Block.mode.delta, cur.end, cur.tok + 1)
    BY <1>1, <1>2 DEF TokensWritten
  <2>2. cur.end \in Nat /\ After(Block, (cur.tok + 1) - 1) \in MarkSet
    BY <1>1, <1>2 DEF InBlock
  <2>3. After(Block, (cur.tok + 1) - 1).out < After(Block, cur.tok + 1).out
        /\ After(Block, cur.tok + 1).out <= cur.end
    BY <1>2, <2>1, <2>2, TokenGrows, Zenon
  <2> QED
    BY <1>2, <2>3
<1>5. /\ src \in Seq(Byte) /\ a.out = Len(dst) /\ cur.end <= Len(src) /\ cur.end \in Nat
      /\ Len(src) \in Nat /\ a.out \in Nat /\ c.out \in Nat
  BY <1>1, <1>3, LenProperties DEF InBlock, AtMark, MarkSet
<1>6. Len(dst') = c.out /\ dst' \in Seq(Byte) /\ c.out <= Len(src)
  <2>1. c.out <= Len(src) /\ 0 + c.out <= Len(src) /\ 0 + c.out = c.out /\ 0 \in Nat
    BY <1>4, <1>5
  <2>2. /\ Len(SubSeq(src, 1, 0 + c.out)) = 0 + c.out
        /\ SubSeq(src, 1, 0 + c.out) \in Seq(Byte)
    BY <1>5, <2>1, PrefixGrows
  <2> QED
    BY <2>1, <2>2 DEF Moves
<1>7. /\ src' = src /\ pos' = pos /\ state' = state /\ work' = work /\ stream' = stream
      /\ enc' = enc /\ stop' = stop /\ size' = size /\ cpos' = cpos /\ reps' = reps
      /\ dec' = "tokens"
  BY DEF Moves, encVars
<1>8. TypeOK'
  <2>1. dst' \in Seq(Byte \cup {Unset})
    BY <1>6
  <2> QED
    BY <1>7, <2>1 DEF IInv, TypeOK
<1>9. StreamInv'
  BY <1>7, StreamNow DEF IInv, StreamInv
<1>10. EncoderInv'
  <2>1. enc \in {"done", "interrupted"}
    BY DEF IInv, DecoderInv
  <2> QED
    BY <1>7, <2>1 DEF IInv, EncoderInv
<1>11. Block' = Block
  BY <1>7 DEF Block
<1>12. AtMark(After(Block, cur.tok))'
  <2>1. After(Block, cur.tok)' = c
    BY <1>11, <1>2 DEF Moves, After
  <2>2. /\ Len(dst') = c.out /\ cur'.reps = c.reps /\ cur'.dist = c.dist /\ cur'.len = c.len
        /\ cur'.lane = [lane \in 0 .. (Lanes - 1) |->
                           Used(Block.literals, Block.mode.split, lane, c.lit)]
    BY <1>6 DEF Moves
  <2> HIDE DEF a, n
  <2> QED
    BY <1>11, <2>1, <2>2 DEF AtMark
<1>13. DecoderInv'
  <2>1. /\ enc \in {"done", "interrupted"}
    BY DEF IInv, DecoderInv
  <2>2. BlockEnd(Block)' = BlockEnd(Block)
    BY <1>11 DEF BlockEnd
  <2>3. /\ cur'.tok = cur.tok + 1 /\ cur'.end = cur.end /\ cur' \in CurSet
        /\ cur'.left => cur.tok + 1 = n
        /\ dst' = SubSeq(src, 1, Len(dst'))
    BY <1>6 DEF Moves
  <2> QED
    BY <1>1, <1>2, <1>6, <1>7, <1>11, <1>12, <2>1, <2>2, <2>3 DEF DecoderInv
<1> QED
  BY <1>1, <1>4, <1>5, <1>6, <1>7, <1>8, <1>9, <1>10, <1>13 DEF IInv

(* What a step of the decoder says of the output, for the channel.         *)
Delivers ==
  /\ Len(dst') > Len(dst) /\ Len(dst') <= size /\ size # -1 /\ dec' = dec
  /\ src' = src /\ enc' = enc /\ size' = size

MatchMark(a, run, len, d) ==
  [out  |-> a.out + run + len,
   reps |-> RepsNext(a.reps, d),
   dist |-> a.dist + Len(DistCodes(a.reps, d)),
   len  |-> a.len + Len(LiteralCodes(run) \o OneCode(len)),
   lit  |-> a.lit + run]

(* A token with a match brings the decoder to its mark. *)
LEMMA TakesMatch ==
  ASSUME IInv, DecodeToken, NEW a, InBlock(a),
         NEW run \in 0 .. MaxBlock, NEW len \in MinMatch .. MaxBlock, NEW d \in 1 .. MaxDistance,
         LiteralsRead(a, run, OneCode(len)), MatchFound(a, run, len, d),
         a.out + run + len <= cur.end, IsMatch(a.out + run, d, len),
         NEW c \in MarkSet
  PROVE  c = MatchMark(a, run, len, d) => Moves(c)
<1>1. /\ dec = "tokens" /\ cur.tok < Len(Block.tokens) /\ ~cur.left
  BY DEF DecodeToken, InLoop
<1>2. /\ cur \in CurSet /\ cur.tok \in 0 .. Len(Block.tokens)
      /\ cur.end <= size /\ size \in Nat
  BY <1>1, InTokens
<1>3. /\ src \in Seq(Byte) /\ cur.end \in Nat /\ cur.end <= Len(src) /\ Len(dst) = a.out
      /\ dst = SubSeq(src, 1, Len(dst)) /\ Len(src) \in Nat
      /\ a.out \in Nat /\ a.reps \in Rep /\ a.dist \in Nat /\ a.len \in Nat /\ a.lit \in Nat
      /\ cur.reps = a.reps /\ cur.dist = a.dist /\ cur.len = a.len
      /\ a.out + run + len <= cur.end /\ run \in Nat /\ len \in Nat /\ len >= 2
  BY SMTT(60), LenProperties, Widths DEF InBlock, AtMark, MarkSet
<1>n. /\ a.out \in Nat /\ a.dist \in Nat /\ a.len \in Nat /\ a.lit \in Nat /\ Len(src) \in Nat
      /\ run \in Nat /\ len \in Nat /\ len >= 2 /\ cur.end \in Nat /\ cur.end <= Len(src)
      /\ a.out + run + len <= cur.end
  BY <1>3
<1>4. /\ LitLen = run /\ ~BadLiterals
      /\ LitEnd = cur.len + Len(LiteralCodes(run)) /\ LitEnd \in Nat
      /\ dst \o Literals = SubSeq(src, 1, Len(dst) + run)
      /\ Len(dst \o Literals) = Len(dst) + run /\ dst \o Literals \in Seq(Byte)
      /\ LanesAfter(dst, LitLen) =
           [lane \in 0 .. (Lanes - 1) |->
              Used(Block.literals, Block.mode.split, lane, a.lit + run)]
  BY DEF LiteralsRead
<1>5. /\ ~BadMatch
      /\ cur.dist + DistUsed = a.dist + Len(DistCodes(a.reps, d))
      /\ RepsAfter = RepsNext(a.reps, d)
      /\ MatchEnd = LitEnd + Len(OneCode(len))
      /\ MatchLen = len
      /\ Distance = d
  BY DEF MatchFound
<1> DEFINE out  == dst \o Literals
           lane == LanesAfter(dst, LitLen)
           lit  == [cur EXCEPT !.tok = @ + 1, !.len = LitEnd, !.lane = lane]
           next == [lit EXCEPT !.dist = @ + DistUsed, !.len = MatchEnd, !.reps = RepsAfter]
<1>6. ~(Len(out) >= cur.end)
  <2> HIDE DEF out
  <2>1. Len(out) = a.out + run
    BY <1>3, <1>4 DEF out
  <2> QED
    BY SMTT(60), <1>3, <2>1
<1>7. /\ dst' = out \o MatchRun(out, Distance, MatchLen)
      /\ cur' = next
      /\ UNCHANGED <<encVars, size, cpos, reps, dec>>
  BY <1>4, <1>5, <1>6 DEF DecodeToken
<1>8. dst' = SubSeq(src, 1, a.out + run + len)
  <2> HIDE DEF out
  <2> DEFINE at == a.out + run
  <2>1. at \in Nat /\ at + len <= Len(src) /\ at <= Len(src) /\ d \in Nat \ {0}
    <3>1. d \in Nat \ {0}
      BY <1>3, Widths
    <3> QED
      BY SMTT(60), <1>n, <3>1
  <2> HIDE DEF at
  <2>2. IsMatch(at, d, len)
    BY DEF at
  <2>3. d <= at
    BY <2>2 DEF IsMatch
  <2>4. Len(out) = at /\ out = SubSeq(src, 1, at)
    BY <1>3, <1>4 DEF out, at
  <2>5. AgreesTo(out, at)
    <3>1. \A i \in 1 .. Len(out) : out[i] = src[i]
      BY <1>3, <2>1, <2>4, PrefixByte
    <3> QED
      BY <2>4, <3>1 DEF AgreesTo
  <2>6. MatchRun(out, d, len) = RunBytes(at, len)
    BY <1>3, <2>1, <2>2, <2>3, <2>5, MatchCopied
  <2>7. SubSeq(src, 1, at) \o [i \in 1 .. len |-> src[at + i]] = SubSeq(src, 1, at + len)
    BY <1>3, <2>1, PrefixGrows
  <2> QED
    BY <1>5, <1>7, <2>4, <2>6, <2>7 DEF RunBytes, at
<1>9. /\ cur'.tok = cur.tok + 1 /\ cur'.end = cur.end /\ cur'.left = cur.left
      /\ cur'.reps = RepsAfter /\ cur'.dist = cur.dist + DistUsed /\ cur'.len = MatchEnd
      /\ cur'.lane = lane
      /\ cur' = [tok |-> cur.tok + 1, dist |-> cur.dist + DistUsed, len |-> MatchEnd,
                 left |-> cur.left, reps |-> RepsAfter, lane |-> lane, end |-> cur.end]
  <2> HIDE DEF lane
  <2> QED
    BY <1>2, <1>7 DEF CurSet
<1> HIDE DEF lane, lit, next, out
<1>10. Len(LiteralCodes(run) \o OneCode(len)) = Len(LiteralCodes(run)) + Len(OneCode(len))
       /\ Len(LiteralCodes(run)) \in Nat /\ Len(OneCode(len)) \in Nat
  BY RunRead, MatchLenRead, ConcatProperties
<1>11. lane \in [0 .. (Lanes - 1) -> Nat]
  <2>1. \A l : Used(Block.literals, Block.mode.split, l, a.lit + run) \in Nat
    <3>1. Block.mode.split \in BOOLEAN
      BY <1>2 DEF InBlock, LzWritten, LzBlocks
    <3>2. a.lit + run \in Nat
      BY <1>n
    <3> QED
      BY <3>1, <3>2, UsedParts
  <2> QED
    BY <1>4, <2>1 DEF lane
<1>12. ASSUME c = MatchMark(a, run, len, d)
       PROVE  Moves(c)
  <2>1. /\ c.out = a.out + run + len /\ c.reps = RepsNext(a.reps, d)
        /\ c.dist = a.dist + Len(DistCodes(a.reps, d))
        /\ c.len = a.len + Len(LiteralCodes(run) \o OneCode(len))
        /\ c.lit = a.lit + run
    BY <1>12 DEF MatchMark
  <2>2. c.out \in Nat /\ c.reps \in Rep /\ c.dist \in Nat /\ c.len \in Nat
    BY DEF MarkSet
  <2>3. cur'.reps = c.reps /\ cur'.dist = c.dist
    BY <1>5, <1>9, <2>1
  <2>4. cur'.len = c.len
    <3>1. LitEnd = a.len + Len(LiteralCodes(run)) /\ cur'.len = LitEnd + Len(OneCode(len))
      BY <1>3, <1>4, <1>5, <1>9
    <3>2. c.len = a.len + (Len(LiteralCodes(run)) + Len(OneCode(len)))
      BY <1>10, <2>1
    <3> QED
      BY <1>n, <1>10, <3>1, <3>2
  <2>5. dst' = SubSeq(src, 1, c.out)
    BY <1>8, <2>1
  <2>6. cur'.lane = [l \in 0 .. (Lanes - 1) |->
                      Used(Block.literals, Block.mode.split, l, c.lit)]
    BY <1>4, <1>9, <2>1 DEF lane
  <2>7. cur' \in CurSet
    <3>1. /\ cur.tok + 1 \in Nat /\ cur.dist + DistUsed \in Nat /\ MatchEnd \in Nat
          /\ cur.left \in BOOLEAN /\ RepsAfter \in Rep /\ cur.end \in Nat
      BY SMTT(60), <1>2, <1>9, <2>2, <2>3, <2>4 DEF CurSet
    <3> QED
      BY <1>9, <1>11, <3>1 DEF CurSet
  <2> QED
    BY <1>1, <1>7, <1>9, <2>3, <2>4, <2>5, <2>6, <2>7 DEF Moves
<1> QED
  BY <1>12

TailMark(a, run, end) ==
  [out  |-> end,
   reps |-> a.reps,
   dist |-> a.dist,
   len  |-> a.len + Len(LiteralCodes(run)),
   lit  |-> a.lit + run]

(* The last token brings the decoder to the end of the block. *)
LEMMA TakesTail ==
  ASSUME IInv, DecodeToken, NEW a, InBlock(a), NEW run \in 1 .. MaxBlock,
         LiteralsRead(a, run, <<>>), NEW c \in MarkSet, cur.tok + 1 = Len(Block.tokens)
  PROVE  a.out + run = cur.end /\ c = TailMark(a, run, cur.end) => Moves(c)
<1>1. /\ dec = "tokens" /\ cur.tok < Len(Block.tokens) /\ ~cur.left
  BY DEF DecodeToken, InLoop
<1>2. /\ cur \in CurSet /\ cur.tok \in 0 .. Len(Block.tokens)
      /\ cur.end <= size /\ size \in Nat
  BY <1>1, InTokens
<1>3. /\ src \in Seq(Byte) /\ cur.end \in Nat /\ cur.end <= Len(src) /\ Len(dst) = a.out
      /\ a.out \in Nat /\ a.reps \in Rep /\ a.dist \in Nat /\ a.len \in Nat /\ a.lit \in Nat
      /\ cur.reps = a.reps /\ cur.dist = a.dist /\ cur.len = a.len /\ run \in Nat
  BY LenProperties, Widths DEF InBlock, AtMark, MarkSet
<1>n. a.lit \in Nat /\ run \in Nat /\ a.lit + run \in Nat
  <2>1. a.lit \in Nat /\ run \in Nat
    BY <1>3
  <2> QED
    BY <2>1
<1>4. /\ LitLen = run /\ ~BadLiterals
      /\ LitEnd = cur.len + Len(LiteralCodes(run)) /\ LitEnd \in Nat
      /\ dst \o Literals = SubSeq(src, 1, Len(dst) + run)
      /\ Len(dst \o Literals) = Len(dst) + run
      /\ LanesAfter(dst, LitLen) =
           [lane \in 0 .. (Lanes - 1) |->
              Used(Block.literals, Block.mode.split, lane, a.lit + run)]
  BY DEF LiteralsRead
<1> DEFINE out  == dst \o Literals
           lane == LanesAfter(dst, LitLen)
           lit  == [cur EXCEPT !.tok = @ + 1, !.len = LitEnd, !.lane = lane]
<1>5. lane \in [0 .. (Lanes - 1) -> Nat]
  <2>1. \A l : Used(Block.literals, Block.mode.split, l, a.lit + run) \in Nat
    <3>1. Block.mode.split \in BOOLEAN
      BY DEF InBlock, LzWritten, LzBlocks
    <3> QED
      BY <1>n, <3>1, UsedParts
  <2> QED
    BY <1>4, <2>1
<1>6. ASSUME a.out + run = cur.end, c = TailMark(a, run, cur.end)
      PROVE  Moves(c)
  <2>1. /\ c.out = cur.end /\ c.reps = a.reps /\ c.dist = a.dist
        /\ c.len = a.len + Len(LiteralCodes(run)) /\ c.lit = a.lit + run
    BY <1>6 DEF TailMark
  <2>2. Len(out) >= cur.end
    <3> HIDE DEF out
    <3>1. Len(out) = cur.end
      BY <1>3, <1>4, <1>6 DEF out
    <3> QED
      BY <1>3, <3>1
  <2>3. /\ dst' = out
        /\ cur' = [lit EXCEPT !.left = TRUE]
        /\ UNCHANGED <<encVars, size, cpos, reps, dec>>
    BY <1>4, <2>2 DEF DecodeToken
  <2>4. /\ cur'.tok = cur.tok + 1 /\ cur'.end = cur.end /\ cur'.left
        /\ cur'.reps = cur.reps /\ cur'.dist = cur.dist /\ cur'.len = LitEnd
        /\ cur'.lane = lane
        /\ cur' = [tok |-> cur.tok + 1, dist |-> cur.dist, len |-> LitEnd,
                   left |-> TRUE, reps |-> cur.reps, lane |-> lane, end |-> cur.end]
    <3> HIDE DEF lane
    <3> QED
      BY <1>2, <2>3 DEF CurSet
  <2> HIDE DEF lane, lit, out
  <2>5. dst' = SubSeq(src, 1, c.out)
    BY <1>3, <1>4, <1>6, <2>1, <2>3 DEF out
  <2>6. cur'.lane = [l \in 0 .. (Lanes - 1) |->
                      Used(Block.literals, Block.mode.split, l, c.lit)]
    BY <1>4, <2>1, <2>4 DEF lane
  <2>7. cur' \in CurSet
    <3>1. cur.tok + 1 \in Nat /\ cur.dist \in Nat /\ cur.reps \in Rep
      BY <1>2 DEF CurSet
    <3> QED
      BY <1>3, <1>4, <1>5, <2>4, <3>1 DEF CurSet
  <2>8. cur'.reps = c.reps /\ cur'.dist = c.dist /\ cur'.len = c.len
    BY <1>3, <1>4, <2>1, <2>4
  <2> QED
    BY <1>1, <2>3, <2>4, <2>5, <2>6, <2>7, <2>8 DEF Moves
<1> QED
  BY <1>6

(* Every iteration of a token loop reaches the next mark. *)
LEMMA DecodeTokenKeeps ==
  ASSUME IInv, DecodeToken
  PROVE  IInv' /\ Delivers
<1> DEFINE a == After(Block, cur.tok)
           c == After(Block, cur.tok + 1)
           n == Len(Block.tokens)
<1>1. /\ dec = "tokens" /\ cur.tok < n /\ ~cur.left
  BY DEF DecodeToken, InLoop
<1>2. /\ LzWritten(Block) /\ Typed(Block) /\ InBlock(a)
      /\ cur \in CurSet /\ cur.tok \in 0 .. n /\ n \in Nat
      /\ TokensWritten(Block, Block.mode.delta, cur.end, BlockReps(Block), cur.end)
      /\ cur.end \in Nat
  BY <1>1, InTokens DEF InBlock
<1>3. cur.tok + 1 \in 1 .. n /\ cur.tok + 1 \in 0 .. n /\ (cur.tok + 1) - 1 = cur.tok
  BY <1>1, <1>2
<1>4. /\ TokenWritten(Block, Block.mode.delta, cur.end, cur.tok + 1)
      /\ Len(Block.marks) = Len(Block.tokens)
  BY <1>2, <1>3 DEF TokensWritten
<1>5. a \in MarkSet /\ c \in MarkSet
  BY <1>2, <1>3, <1>4, AfterTyped
<1>6. \/ MatchWritten(Block, Block.mode.delta, a, Token, c, cur.end)
      \/ TailWritten(Block, Block.mode.delta, a, Token, c, cur.end)
  BY <1>3, <1>4 DEF TokenWritten, Token
<1>7. Block.lens \in Seq(Byte) /\ a.len \in Nat
  BY <1>2, <1>5 DEF LzWritten, LzBlocks, MarkSet
<1> HIDE DEF a, c, n
<1>8. CASE MatchWritten(Block, Block.mode.delta, a, Token, c, cur.end)
  <2>1. PICK run \in 0 .. MaxBlock, len \in MinMatch .. MaxBlock, d \in 1 .. MaxDistance :
             /\ RunWritten(Block, Block.mode.delta, a, Token, run, cur.end)
             /\ a.out + run + len <= cur.end
             /\ IsMatch(a.out + run, d, len)
             /\ Token.dist = DistField(a.reps, d)
             /\ Token.len = OneField(len)
             /\ Stands(Block.dists, a.dist, DistCodes(a.reps, d))
             /\ Stands(Block.lens, a.len, LiteralCodes(run) \o OneCode(len))
             /\ c = MatchMark(a, run, len, d)
    BY <1>8 DEF MatchWritten, MatchMark
  <2>2. OneCode(len) \in Seq(Byte)
    BY MatchLenRead
  <2>3. LiteralsRead(a, run, OneCode(len))
    BY <1>2, <2>1, <2>2, ReadLiterals
  <2>4. MatchFound(a, run, len, d)
    BY <1>2, <2>1, <2>3, ReadMatch
  <2>5. Moves(c)
    BY <1>2, <1>5, <2>1, <2>3, <2>4, TakesMatch
  <2> QED
    BY <1>1, <2>5, MovesKeeps DEF Delivers, c, n
<1>9. CASE TailWritten(Block, Block.mode.delta, a, Token, c, cur.end)
  <2>1. PICK run \in 1 .. MaxBlock :
             /\ RunWritten(Block, Block.mode.delta, a, Token, run, cur.end)
             /\ Stands(Block.lens, a.len, LiteralCodes(run))
             /\ a.out + run = cur.end
             /\ c = TailMark(a, run, cur.end)
    BY <1>9 DEF TailWritten, TailMark
  <2>2. run \in 0 .. MaxBlock /\ <<>> \in Seq(Byte)
    OBVIOUS
  <2>3. LiteralCodes(run) \o <<>> = LiteralCodes(run)
    <3>1. LiteralCodes(run) \in Seq(Byte)
      BY <2>2, RunRead
    <3> QED
      BY <3>1
  <2>4. LiteralsRead(a, run, <<>>)
    BY <1>2, <2>1, <2>2, <2>3, ReadLiterals
  <2>5. cur.tok + 1 = n
    <3>1. SUFFICES ASSUME cur.tok + 1 < n
                   PROVE  FALSE
      BY <1>1, <1>2
    <3>2. /\ cur.tok + 2 \in 1 .. n /\ (cur.tok + 2) - 1 = cur.tok + 1 /\ cur.tok + 2 \in Nat
      BY <1>2, <3>1
    <3>3. TokenWritten(Block, Block.mode.delta, cur.end, cur.tok + 2)
      BY <1>2, <3>2 DEF TokensWritten, n
    <3>4. After(Block, (cur.tok + 2) - 1) \in MarkSet /\ After(Block, (cur.tok + 2) - 1) = c
      BY <1>5, <3>2 DEF c
    <3>5. After(Block, (cur.tok + 2) - 1).out < After(Block, cur.tok + 2).out
          /\ After(Block, cur.tok + 2).out <= cur.end
      BY <1>2, <3>2, <3>3, <3>4, TokenGrows, Zenon
    <3>6. c.out = cur.end
      BY <2>1 DEF TailMark
    <3>7. After(Block, cur.tok + 2).out \in Int
      <4>1. cur.tok + 2 \in 0 .. Len(Block.tokens)
        BY <1>2, <3>2 DEF n
      <4>2. After(Block, cur.tok + 2) \in MarkSet
        BY <1>2, <1>4, <4>1, AfterTyped
      <4> QED
        BY <4>2 DEF MarkSet
    <3> QED
      BY <1>2, <3>4, <3>5, <3>6, <3>7
  <2>6. Moves(c)
    BY <1>2, <1>5, <2>1, <2>4, <2>5, TakesTail DEF n
  <2> QED
    BY <1>1, <2>6, MovesKeeps DEF Delivers, c, n
<1> QED
  BY <1>6, <1>8, <1>9

-----------------------------------------------------------------------------
(* The other steps of the decoder.                                         *)

(* A step of Decode that leaves what Encode has written.                   *)
LEMMA EncoderStays ==
  ASSUME IInv, src' = src, pos' = pos, state' = state, stream' = stream, enc' = enc,
         work' = work, enc \in {"done", "interrupted"}
  PROVE  StreamInv' /\ EncoderInv'
<1>1. StreamInv'
  BY StreamNow DEF IInv, StreamInv
<1>2. EncoderInv'
  BY DEF IInv, EncoderInv
<1> QED
  BY <1>1, <1>2

(* Decode begins. *)
LEMMA StartDecodeKeeps ==
  ASSUME IInv, NEW n \in Nat, StartDecode(n)
  PROVE  /\ IInv'
         /\ size = -1 /\ size' \in Nat /\ dec = "idle" /\ dec' = "header"
         /\ src' = src /\ enc' = enc /\ dst' = dst
<1>1. /\ enc \in {"done", "interrupted"} /\ dec = "idle" /\ size' = n /\ stop' = FALSE
      /\ dec' = "header" /\ src' = src /\ pos' = pos /\ state' = state /\ work' = work
      /\ stream' = stream /\ enc' = enc /\ dst' = dst /\ cpos' = cpos /\ reps' = reps
      /\ cur' = cur
  BY DEF StartDecode
<1>2. StreamInv' /\ EncoderInv'
  BY <1>1, EncoderStays
<1>3. size = -1 /\ dst = <<>> /\ cpos = 0 /\ reps = InitReps
  BY <1>1 DEF IInv, DecoderInv
<1>4. TypeOK'
  BY <1>1 DEF IInv, TypeOK
<1>5. DecoderInv'
  <2>1. dst = SubSeq(src, 1, Len(dst)) /\ Len(dst) <= Len(src) /\ Len(dst) = 0
    BY <1>3 DEF IInv, DecoderInv
  <2>2. EndAfter(stream, 0)' = 0 /\ RepsAt(stream, 0)' = InitReps
    BY DEF EndAfter, RepsAt
  <2>3. EndAfter(stream, cpos)' = 0 /\ RepsAt(stream, cpos)' = InitReps
    BY <1>1, <1>3 DEF EndAfter, RepsAt
  <2>4. enc = "done" => 0 < Len(stream)
    <3>1. stream \in Seq(RawBlocks \cup LzBlocks) /\ (enc = "done" => stream # <<>>)
      BY DEF IInv, TypeOK, EncoderInv
    <3> QED
      BY <3>1, EmptySeq, LenProperties
  <2> QED
    BY <1>1, <1>3, <2>1, <2>3, <2>4 DEF DecoderInv
<1> QED
  BY <1>1, <1>2, <1>3, <1>4, <1>5 DEF IInv

(* The decoder rejects, and says so of the channel.                        *)
Rejects ==
  /\ size # -1 /\ (enc = "interrupted" \/ size # Len(src))
  /\ dec \in {"header", "tokens"} /\ dec' = "corrupt"
  /\ src' = src /\ enc' = enc /\ size' = size /\ dst' = dst

(* A rejection comes only after an interruption or for a wrong size.       *)
LEMMA CorruptKeeps ==
  ASSUME IInv, dec \in {"header", "tokens"}, Corrupt, enc = "interrupted" \/ size # Len(src)
  PROVE  IInv' /\ Rejects
<1>1. /\ dec' = "corrupt" /\ src' = src /\ pos' = pos /\ state' = state /\ work' = work
      /\ stream' = stream /\ enc' = enc /\ stop' = stop /\ size' = size /\ dst' = dst
      /\ cpos' = cpos /\ reps' = reps /\ cur' = cur
  BY DEF Corrupt, encVars
<1>2. enc \in {"done", "interrupted"} /\ size \in Nat
      /\ dst = SubSeq(src, 1, Len(dst)) /\ Len(dst) <= Len(src)
  BY DEF IInv, DecoderInv
<1>3. StreamInv' /\ EncoderInv'
  BY <1>1, <1>2, EncoderStays
<1>4. TypeOK'
  BY <1>1 DEF IInv, TypeOK
<1>5. DecoderInv'
  BY <1>1, <1>2 DEF DecoderInv
<1> QED
  BY <1>1, <1>2, <1>3, <1>4, <1>5 DEF IInv, Rejects

(* A stream that ends early is rejected. *)
LEMMA MissingHeaderKeeps ==
  ASSUME IInv, MissingHeader
  PROVE  IInv' /\ Rejects
<1>1. dec = "header" /\ cpos = Len(stream) /\ Corrupt
  BY DEF MissingHeader
<1>2. enc \in {"done", "interrupted"} /\ (enc = "done" => cpos < Len(stream))
      /\ stream \in Seq(RawBlocks \cup LzBlocks)
  BY <1>1 DEF IInv, TypeOK, DecoderInv
<1>3. enc = "interrupted"
  BY <1>1, <1>2, LenProperties
<1> QED
  BY <1>1, <1>3, CorruptKeeps

(* Between blocks: what the decoder knows of the next one.                 *)
LEMMA AtHeader ==
  ASSUME IInv, dec = "header", cpos < Len(stream)
  PROVE  /\ src \in Seq(Byte) /\ Len(src) \in Nat /\ size \in Nat
         /\ dst = SubSeq(src, 1, Len(dst)) /\ Len(dst) \in Nat /\ Len(dst) <= Len(src)
         /\ Len(dst) <= size
         /\ Block.start = Len(dst) /\ Block.base = reps
         /\ RawWritten(Block) \/ LzWritten(Block)
         /\ cpos + 1 = Len(stream) /\ enc = "done" <=> IsLast(Block)
         /\ enc \in {"done", "interrupted"}
         /\ EndAfter(stream, cpos + 1) = BlockEnd(Block)
         /\ RepsAt(stream, cpos + 1) = BlockReps(Block)
         /\ cpos + 1 \in 0 .. Len(stream) /\ cpos \in Nat /\ Len(stream) \in Nat
<1>1. /\ dst = SubSeq(src, 1, Len(dst)) /\ Len(dst) <= Len(src) /\ Len(dst) <= size
      /\ size \in Nat /\ enc \in {"done", "interrupted"}
      /\ Len(dst) = EndAfter(stream, cpos) /\ reps = RepsAt(stream, cpos)
  BY DEF IInv, DecoderInv
<1>2. dst \in Seq(Byte \cup {Unset}) /\ stream \in Seq(RawBlocks \cup LzBlocks)
  BY DEF IInv, TypeOK
<1>3. Len(dst) \in Nat /\ Len(stream) \in Nat
  BY <1>2, LenProperties
<1> QED
  BY <1>1, <1>3, BlockWritten

(* The decoder goes on, between blocks or in one, with the output out.     *)
Goes(out) ==
  /\ dst' = out /\ src' = src /\ enc' = enc /\ size' = size /\ size # -1
  /\ dec \in {"header", "tokens"} /\ dec' \in {"header", "tokens"}
  /\ out = dst \/ (Len(out) > Len(dst) /\ Len(out) <= size)

Accepts ==
  /\ size = Len(src) /\ enc = "done" /\ dec = "header" /\ dst' = src /\ dec' = "ok"
  /\ src' = src /\ enc' = enc /\ size' = size /\ size # -1

(* The decoder goes past a block.                                          *)
LEMMA NextHeader ==
  ASSUME IInv, dec \in {"header", "tokens"}, cpos < Len(stream), ~IsLast(Block),
         dec' = "header", UNCHANGED <<encVars, size>>, cpos' = cpos + 1,
         reps' = BlockReps(Block), BlockReps(Block) \in Rep,
         dst' = SubSeq(src, 1, BlockEnd(Block)), Len(dst') = BlockEnd(Block),
         dst' \in Seq(Byte), BlockEnd(Block) <= Len(src), BlockEnd(Block) <= size
  PROVE  IInv'
<1>1. /\ src' = src /\ pos' = pos /\ state' = state /\ work' = work /\ stream' = stream
      /\ enc' = enc /\ stop' = stop /\ size' = size
  BY DEF encVars
<1>2. /\ enc \in {"done", "interrupted"} /\ size \in Nat
  BY DEF IInv, DecoderInv
<1>3. /\ cpos + 1 = Len(stream) /\ enc = "done" <=> IsLast(Block)
      /\ EndAfter(stream, cpos + 1) = BlockEnd(Block)
      /\ RepsAt(stream, cpos + 1) = BlockReps(Block)
      /\ cpos + 1 \in 0 .. Len(stream) /\ cpos \in Nat
  BY BlockWritten
<1>4. StreamInv' /\ EncoderInv'
  BY <1>1, <1>2, EncoderStays
<1>5. TypeOK'
  <2>1. dst' \in Seq(Byte \cup {Unset})
    OBVIOUS
  <2> QED
    BY <1>1, <1>3, <2>1 DEF IInv, TypeOK
<1>6. /\ EndAfter(stream, cpos)' = BlockEnd(Block)
      /\ RepsAt(stream, cpos)' = BlockReps(Block)
  <2>1. \A k : EndAfter(stream, k)' = EndAfter(stream', k) /\ RepsAt(stream, k)' = RepsAt(stream', k)
    BY DEF EndAfter, RepsAt
  <2>2. EndAfter(stream, cpos)' = EndAfter(stream, cpos + 1)
        /\ RepsAt(stream, cpos)' = RepsAt(stream, cpos + 1)
    BY <1>1, <2>1 DEF EndAfter, RepsAt
  <2> QED
    BY <1>3, <2>2
<1>7. enc = "done" => cpos + 1 < Len(stream)
  <2>1. stream \in Seq(RawBlocks \cup LzBlocks)
    BY DEF IInv, TypeOK
  <2> QED
    BY <1>3, <2>1, LenProperties
<1>8. DecoderInv'
  BY <1>1, <1>2, <1>6, <1>7 DEF DecoderInv
<1> QED
  BY <1>4, <1>5, <1>8 DEF IInv

(* A raw block is copied, or does not fit. *)
LEMMA DecodeRawKeeps ==
  ASSUME IInv, DecodeRaw
  PROVE  IInv' /\ (Rejects \/ Accepts \/ \E out : Goes(out))
<1> DEFINE n   == Len(dst)
           end == BlockEnd(Block)
           out == dst \o Block.data
<1>1. dec = "header" /\ cpos < Len(stream) /\ Block.kind = "raw"
  BY DEF DecodeRaw
<1>2. /\ src \in Seq(Byte) /\ Len(src) \in Nat /\ size \in Nat
      /\ dst = SubSeq(src, 1, n) /\ n \in Nat /\ n <= Len(src) /\ n <= size
      /\ Block.start = n /\ Block.base = reps
      /\ RawWritten(Block) \/ LzWritten(Block)
      /\ enc \in {"done", "interrupted"}
      /\ cpos + 1 \in 0 .. Len(stream)
  BY <1>1, AtHeader
<1>3. cpos + 1 = Len(stream) /\ enc = "done" <=> IsLast(Block)
  BY <1>1, AtHeader
<1>4. RawWritten(Block)
  BY <1>1, <1>2 DEF LzWritten, LzBlocks
<1>5. /\ Block \in RawBlocks /\ Block.data = SubSeq(src, n + 1, end)
      /\ Block.last \in BOOLEAN /\ Len(Block.data) \in Nat
      /\ IF Block.last THEN end = Len(src) ELSE n < end /\ end <= Limit
      /\ end = n + Len(Block.data)
  BY <1>1, <1>2, <1>4, LenProperties DEF RawWritten, RawBlocks, BlockEnd
<1>6. IsLast(Block) <=> Block.last
  BY <1>1 DEF IsLast
<1>7. BlockReps(Block) = reps /\ reps \in Rep
  BY <1>1, <1>2 DEF BlockReps, IInv, TypeOK
<1> HIDE DEF n, end
<1>8. end \in Nat /\ n <= end /\ end <= Len(src)
  <2>1. end \in Nat /\ n <= end
    BY <1>2, <1>5
  <2>2. Limit \in Int /\ Limit < Len(src)
    BY SourceTyped DEF IInv, TypeOK
  <2> QED
    BY <1>2, <1>5, <2>1, <2>2
<1>9. out = SubSeq(src, 1, end) /\ Len(out) = end /\ out \in Seq(Byte)
  <2> DEFINE k == end - n
  <2>1. k \in Nat /\ n + k = end
    BY <1>2, <1>8
  <2>2. SubSeq(src, n + 1, end) = [i \in 1 .. k |-> src[n + i]]
    <3>1. SubSeq(src, n + 1, end) = [i \in 1 .. (end - (n + 1) + 1) |-> src[n + 1 + i - 1]]
      BY <1>2, <1>8
    <3>2. end - (n + 1) + 1 = k /\ \A i \in 1 .. k : n + 1 + i - 1 = n + i
      BY <1>2, <1>8
    <3> HIDE DEF k
    <3> QED
      BY <3>1, <3>2
  <2> HIDE DEF k
  <2>3. SubSeq(src, 1, n) \o [i \in 1 .. k |-> src[n + i]] = SubSeq(src, 1, n + k)
        /\ Len(SubSeq(src, 1, n + k)) = n + k /\ SubSeq(src, 1, n + k) \in Seq(Byte)
    BY <1>2, <1>8, <2>1, PrefixGrows
  <2> QED
    BY <1>2, <1>5, <2>1, <2>2, <2>3
<1> HIDE DEF out
<1>10. CASE Len(out) > size \/ (Block.last /\ Len(out) # size)
  <2>1. Corrupt
    BY <1>10 DEF DecodeRaw, out
  <2>2. size # Len(src)
    BY <1>2, <1>5, <1>8, <1>9, <1>10
  <2> QED
    BY <1>1, <2>1, <2>2, CorruptKeeps
<1>11. CASE ~(Len(out) > size \/ (Block.last /\ Len(out) # size))
  <2>1. /\ dst' = out /\ cpos' = cpos + 1 /\ dec' = IF Block.last THEN "ok" ELSE "header"
        /\ UNCHANGED <<encVars, size, reps, cur>>
    BY <1>11 DEF DecodeRaw, out
  <2>2. /\ src' = src /\ pos' = pos /\ state' = state /\ work' = work /\ stream' = stream
        /\ enc' = enc /\ stop' = stop /\ size' = size /\ reps' = reps
    BY <2>1 DEF encVars
  <2>3. end <= size
    BY <1>2, <1>8, <1>9, <1>11
  <2>4. CASE Block.last
    <3>1. size = Len(src) /\ end = Len(src) /\ enc = "done" /\ out = src
      <4>1. size = Len(src) /\ end = Len(src)
        BY <1>5, <1>9, <1>11, <2>4
      <4>2. enc = "done"
        BY <1>3, <1>6, <2>4
      <4>3. SubSeq(src, 1, Len(src)) = src
        BY <1>2
      <4> QED
        BY <1>9, <4>1, <4>2, <4>3
    <3>2. StreamInv' /\ EncoderInv'
      BY <2>2, <3>1, EncoderStays
    <3>3. TypeOK'
      <4>1. dst' \in Seq(Byte \cup {Unset})
        BY <1>9, <2>1
      <4> QED
        BY <1>2, <2>1, <2>2, <2>4, <4>1 DEF IInv, TypeOK
    <3>4. DecoderInv'
      BY <1>2, <1>8, <1>9, <2>1, <2>2, <2>4, <3>1 DEF DecoderInv
    <3>5. Accepts
      BY <1>1, <1>2, <2>1, <2>2, <2>4, <3>1 DEF Accepts
    <3> QED
      BY <3>2, <3>3, <3>4, <3>5 DEF IInv
  <2>5. CASE ~Block.last
    <3>1. IInv'
      BY <1>1, <1>6, <1>7, <1>8, <1>9, <2>1, <2>2, <2>3, <2>5, NextHeader DEF end
    <3>2. Goes(out)
      <4>1. Len(out) > n /\ size # -1
        BY <1>2, <1>5, <1>8, <1>9, <2>5
      <4> QED
        BY <1>1, <1>9, <2>1, <2>2, <2>3, <2>5, <4>1 DEF Goes, n
    <3> QED
      BY <3>1, <3>2
  <2> QED
    BY <2>4, <2>5, <1>5
<1> QED
  BY <1>10, <1>11

(* A compressed block is opened, or does not fit. *)
LEMMA OpenBlockKeeps ==
  ASSUME IInv, OpenBlock
  PROVE  IInv' /\ (Rejects \/ \E out : Goes(out))
<1> DEFINE n   == Len(dst)
           end == n + Block.size
<1>1. dec = "header" /\ cpos < Len(stream) /\ Block.kind = "lz"
  BY DEF OpenBlock
<1>2. /\ src \in Seq(Byte) /\ Len(src) \in Nat /\ size \in Nat
      /\ dst = SubSeq(src, 1, n) /\ n \in Nat /\ n <= Len(src) /\ n <= size
      /\ Block.start = n /\ Block.base = reps
      /\ RawWritten(Block) \/ LzWritten(Block)
      /\ enc \in {"done", "interrupted"}
  BY <1>1, AtHeader
<1>3. LzWritten(Block)
  BY <1>1, <1>2 DEF RawWritten, RawBlocks
<1>4. /\ Block \in LzBlocks /\ Block.size \in Nat /\ end = BlockEnd(Block)
      /\ n < end /\ end <= Limit
      /\ Block.first = IF n = 0 THEN <<src[1]>> ELSE <<>>
      /\ Len(Block.tokens) \in Nat /\ Block.dists \in Seq(DistSymbols)
      /\ Block.base \in Rep /\ Block.mode.split \in BOOLEAN
  <2>1. Block \in LzBlocks
    BY <1>3 DEF LzWritten
  <2>2. /\ Block.size \in Nat /\ Block.tokens \in Seq(Tokens) /\ Block.dists \in Seq(DistSymbols)
        /\ Block.base \in Rep /\ Block.mode.split \in BOOLEAN
    BY <2>1 DEF LzBlocks
  <2>3. end = BlockEnd(Block)
    BY <1>1, <1>2 DEF BlockEnd
  <2>4. n < end /\ end <= Limit /\ Block.first = IF n = 0 THEN <<src[1]>> ELSE <<>>
    BY <1>2, <1>3, <2>3 DEF LzWritten
  <2> QED
    BY <2>1, <2>2, <2>3, <2>4, LenProperties
<1>5. end \in Nat /\ Limit = Len(src) - LastBytes /\ LastBytes \in Nat
  BY <1>2, <1>4, Widths DEF Limit
<1>6. dst = <<>> <=> n = 0
  BY <1>2
<1>7. ~TooWide
  <2>1. SUFFICES ASSUME Advanced, NEW i \in DOMAIN Block.dists
                 PROVE  ~(Block.dists[i].bits > MaxExtraBits)
    BY DEF TooWide
  <2>2. Block.dists[i] \in DistSymbols
    BY <1>4
  <2>3. Block.dists[i].bits \in 0 .. MaxExtraBits
    BY <2>1, <2>2 DEF DistSymbols
  <2> QED
    BY <2>3, DistanceCodeAssumption
<1>8. ~(dst = <<>> /\ (Block.size = 0 \/ Block.first = <<>>))
  BY <1>2, <1>4, <1>6
<1> HIDE DEF n, end
<1>9. CASE end > size \/ (size >= LastBytes /\ end > size - LastBytes)
  <2>1. Corrupt
    BY <1>9 DEF OpenBlock, end, n
  <2>2. size # Len(src)
    BY <1>2, <1>4, <1>5, <1>9
  <2> QED
    BY <1>1, <2>1, <2>2, CorruptKeeps
<1>10. CASE ~(end > size \/ (size >= LastBytes /\ end > size - LastBytes))
  <2> DEFINE out == IF dst = <<>> THEN Block.first ELSE dst
  <2>1. /\ dst' = out
        /\ cur' = [tok |-> 0, dist |-> 0, len |-> 0, left |-> FALSE, reps |-> reps,
                   lane |-> [lane \in 0 .. (Lanes - 1) |-> 0], end |-> end]
        /\ dec' = "tokens"
        /\ UNCHANGED <<encVars, size, cpos, reps>>
    BY <1>7, <1>8, <1>10 DEF OpenBlock, end, n
  <2>2. /\ src' = src /\ pos' = pos /\ state' = state /\ work' = work /\ stream' = stream
        /\ enc' = enc /\ stop' = stop /\ size' = size /\ reps' = reps /\ cpos' = cpos
    BY <2>1 DEF encVars
  <2>3. Len(out) = (IF n = 0 THEN 1 ELSE n) /\ out \in Seq(Byte)
        /\ out = SubSeq(src, 1, Len(out)) /\ Len(out) <= end
    <3>1. CASE n = 0
      <4>1. out = <<src[1]>> /\ 1 <= Len(src) /\ 1 <= end
        BY <1>2, <1>4, <1>5, <1>6, <3>1, Widths
      <4>2. src[1] \in Byte
        BY <1>2, <4>1, ElementOfSeq
      <4>3. SubSeq(src, 1, 1) = <<src[1]>>
        <5>1. SubSeq(src, 1, 1) = [i \in 1 .. 1 |-> src[i]]
          BY <1>2, <4>1
        <5>2. Len(SubSeq(src, 1, 1)) = 1 /\ SubSeq(src, 1, 1) \in Seq(Byte)
          BY <1>2, <4>1, <4>2, <5>1
        <5>3. <<src[1]>> \in Seq(Byte) /\ Len(<<src[1]>>) = 1 /\ <<src[1]>>[1] = src[1]
          BY <4>2
        <5>4. \A i \in 1 .. 1 : SubSeq(src, 1, 1)[i] = <<src[1]>>[i]
          BY <5>1, <5>3
        <5> QED
          BY <5>2, <5>3, <5>4, SeqEqual
      <4>4. Len(<<src[1]>>) = 1 /\ <<src[1]>> \in Seq(Byte)
        BY <4>2
      <4> HIDE DEF out
      <4> QED
        BY <3>1, <4>1, <4>3, <4>4
    <3>2. CASE n # 0
      <4>1. out = dst /\ Len(out) = n
        BY <1>6, <3>2 DEF n
      <4>2. SubSeq(src, 1, n) \in Seq(Byte)
        BY <1>2
      <4> QED
        BY SMTT(60), <1>2, <1>4, <1>5, <3>2, <4>1, <4>2
    <3> QED
      BY <3>1, <3>2
  <2> HIDE DEF out
  <2>4. end <= size /\ end <= Len(src)
    BY SMTT(60), <1>2, <1>4, <1>5, <1>10, Widths
  <2>5. StreamInv' /\ EncoderInv'
    BY <1>2, <2>2, EncoderStays
  <2>6. TypeOK'
    <3>1. dst' \in Seq(Byte \cup {Unset})
      BY <2>1, <2>3
    <3> QED
      BY <2>1, <2>2, <3>1 DEF IInv, TypeOK
  <2>7. Block' = Block
    BY <2>2 DEF Block
  <2>8. AtMark(After(Block, cur.tok))'
    <3>1. \A lane : Used(Block.literals, Block.mode.split, lane, 0) = 0
      BY <1>4, UsedNext
    <3>2. cur'.tok = 0 /\ cur'.reps = reps /\ cur'.dist = 0 /\ cur'.len = 0
          /\ cur'.lane = [lane \in 0 .. (Lanes - 1) |-> 0]
      BY <2>1
    <3>3. After(Block, cur.tok)' = First(Block)
      BY <2>7, <3>2 DEF After, First
    <3>4. First(Block) = [out |-> IF n = 0 THEN 1 ELSE n, reps |-> reps,
                          dist |-> 0, len |-> 0, lit |-> 0]
      BY <1>2 DEF First
    <3>5. Len(dst') = IF n = 0 THEN 1 ELSE n
      BY <2>1, <2>3
    <3>6. cur'.lane = [lane \in 0 .. (Lanes - 1) |->
                         Used(Block.literals, Block.mode.split, lane, 0)]
      BY <3>1, <3>2
    <3> QED
      BY <2>7, <3>2, <3>3, <3>4, <3>5, <3>6 DEF AtMark
  <2>9. cur' \in CurSet /\ cur'.tok = 0 /\ ~cur'.left /\ cur'.end = end
    <3>1. reps \in Rep
      BY <1>2, <1>4
    <3>2. [lane \in 0 .. (Lanes - 1) |-> 0] \in [0 .. (Lanes - 1) -> Nat]
      OBVIOUS
    <3> QED
      BY <1>5, <2>1, <3>1, <3>2 DEF CurSet
  <2>10. DecoderInv'
    <3>1. BlockEnd(Block)' = end
      BY <1>4, <2>7 DEF BlockEnd
    <3>2. Len(dst') <= Len(src) /\ dst' = SubSeq(src, 1, Len(dst'))
      BY <1>2, <1>5, <2>1, <2>3, <2>4
    <3> QED
      BY <1>1, <1>2, <1>4, <2>1, <2>2, <2>4, <2>7, <2>8, <2>9, <3>1, <3>2 DEF DecoderInv
  <2>11. Goes(out)
    <3>1. out = dst \/ (Len(out) > Len(dst) /\ Len(out) <= size)
      <4>1. CASE n = 0
        BY <1>2, <1>5, <2>3, <2>4, <4>1 DEF n
      <4>2. CASE n # 0
        BY <1>6, <4>2 DEF out
      <4> QED
        BY <4>1, <4>2
    <3>2. size # -1
      BY <1>2
    <3> QED
      BY <1>1, <2>1, <2>2, <3>1, <3>2 DEF Goes
  <2> QED
    BY <2>5, <2>6, <2>10, <2>11 DEF IInv
<1> QED
  BY <1>9, <1>10

(* The loop of a block ends with its last token, and the block full.       *)
LEMMA LoopEnds ==
  ASSUME IInv, dec = "tokens", ~InLoop
  PROVE  /\ cur.tok = Len(Block.tokens)
         /\ Len(dst) = cur.end
         /\ cur.reps = BlockReps(Block)
         /\ cur.dist = Len(Block.dists)
         /\ cur.len = Len(Block.lens)
         /\ cur.lane = [lane \in 0 .. (Lanes - 1) |->
                          Used(Block.literals, Block.mode.split, lane, Len(Block.literals))]
<1> DEFINE a == After(Block, cur.tok)
           n == Len(Block.tokens)
<1>1. /\ LzWritten(Block) /\ Typed(Block) /\ InBlock(a)
      /\ cur.tok \in 0 .. n /\ n \in Nat /\ (cur.left => cur.tok = n)
      /\ TokensWritten(Block, Block.mode.delta, cur.end, BlockReps(Block), cur.end)
      /\ cur.end <= size /\ size \in Nat
  BY InTokens
<1>2. /\ a \in MarkSet /\ AtMark(a) /\ cur.end \in Nat
  BY <1>1 DEF InBlock
<1>3. Len(dst) = a.out /\ a.out \in Nat
  BY <1>2 DEF AtMark, MarkSet
<1>4. cur.tok = n
  <2>1. SUFFICES ASSUME cur.tok # n
                 PROVE  FALSE
    OBVIOUS
  <2>2. cur.tok < n /\ cur.tok + 1 \in 1 .. n /\ (cur.tok + 1) - 1 = cur.tok /\ cur.tok + 1 \in Nat
        /\ cur.tok + 1 \in 0 .. n
    BY <1>1, <2>1
  <2>3. ~cur.left
    BY <1>1, <2>1
  <2>4. Len(dst) >= cur.end
    <3>1. ~(Len(dst) < IF TestsDst THEN size ELSE cur.end)
      BY <2>2, <2>3 DEF InLoop
    <3> QED
      BY <1>1, <1>2, <1>3, <3>1
  <2>5. TokenWritten(Block, Block.mode.delta, cur.end, cur.tok + 1)
        /\ Len(Block.marks) = Len(Block.tokens)
    BY <1>1, <2>2 DEF TokensWritten
  <2>6. After(Block, (cur.tok + 1) - 1) = a
    BY <2>2
  <2>7. After(Block, cur.tok + 1) \in MarkSet
    BY <1>1, <2>2, <2>5, AfterTyped
  <2> HIDE DEF a, n
  <2>8. After(Block, (cur.tok + 1) - 1) \in MarkSet
    BY <1>2, <2>6
  <2>9. After(Block, (cur.tok + 1) - 1).out < After(Block, cur.tok + 1).out
        /\ After(Block, cur.tok + 1).out <= cur.end
    BY <1>2, <2>2, <2>5, <2>8, TokenGrows, Zenon
  <2>10. After(Block, cur.tok + 1).out \in Nat
    BY <2>7 DEF MarkSet
  <2> QED
    BY <1>2, <1>3, <2>4, <2>6, <2>9, <2>10
<1>5. a = [out |-> cur.end, reps |-> BlockReps(Block), dist |-> Len(Block.dists),
           len |-> Len(Block.lens), lit |-> Len(Block.literals)]
  BY <1>1, <1>4 DEF TokensWritten
<1> HIDE DEF a, n
<1>6. /\ a.out = cur.end /\ a.reps = BlockReps(Block) /\ a.dist = Len(Block.dists)
      /\ a.len = Len(Block.lens) /\ a.lit = Len(Block.literals)
  BY <1>5
<1> QED
  BY <1>2, <1>4, <1>6 DEF AtMark, n

(* The token loop ends with the block. *)
LEMMA CloseBlockKeeps ==
  ASSUME IInv, CloseBlock
  PROVE  IInv' /\ \E out : Goes(out)
<1>1. dec = "tokens" /\ ~InLoop
  BY DEF CloseBlock
<1>2. /\ LzWritten(Block) /\ InBlock(After(Block, cur.tok))
      /\ cur.end <= size /\ size \in Nat /\ cur.end = BlockEnd(Block)
      /\ cpos < Len(stream) /\ Block.kind = "lz"
      /\ cur \in CurSet
  BY <1>1, InTokens
<1>3. Len(dst) = cur.end /\ cur.reps = BlockReps(Block)
  BY <1>1, LoopEnds
<1>4. /\ src \in Seq(Byte) /\ cur.end \in Nat /\ cur.end <= Len(src)
      /\ dst = SubSeq(src, 1, Len(dst)) /\ cur.reps \in Rep /\ Len(src) \in Nat
  BY <1>2, LenProperties DEF InBlock, CurSet
<1>5. SubSeq(src, 1, cur.end) \in Seq(Byte)
  BY <1>4
<1>6. ~(Advanced /\ Len(dst) < cur.end)
  BY <1>3, <1>4
<1>7. /\ dst' = dst \o [i \in 1 .. (cur.end - Len(dst)) |-> Unset]
      /\ reps' = cur.reps /\ cpos' = cpos + 1 /\ cur' = NoCur /\ dec' = "header"
      /\ UNCHANGED <<encVars, size>>
  BY <1>6 DEF CloseBlock
<1>8. dst' = dst
  <2>1. [i \in 1 .. (cur.end - Len(dst)) |-> Unset] = <<>>
    <3>1. 1 .. (cur.end - Len(dst)) = {}
      BY <1>3, <1>4
    <3> QED
      BY <3>1
  <2>2. dst \in Seq(Byte)
    BY <1>3, <1>4, <1>5
  <2>3. dst \o <<>> = dst
    BY <2>2
  <2>4. dst' = dst \o <<>>
    BY <1>7, <2>1
  <2> QED
    BY <2>3, <2>4
<1>9. ~IsLast(Block)
  BY <1>2 DEF IsLast
<1>10. IInv'
  BY <1>1, <1>2, <1>3, <1>4, <1>5, <1>7, <1>8, <1>9, NextHeader
<1>11. Goes(dst)
  <2>1. src' = src /\ enc' = enc /\ size' = size /\ size # -1 /\ dec' = "header"
    BY <1>2, <1>7 DEF encVars
  <2> QED
    BY <1>1, <1>8, <2>1 DEF Goes
<1> QED
  BY <1>10, <1>11

-----------------------------------------------------------------------------
(* The invariant.                                                          *)

(* The invariant holds at first. *)
LEMMA InitIInv == Init => IInv
<1> SUFFICES ASSUME Init
             PROVE  IInv
  OBVIOUS
<1>1. /\ src \in Sources /\ pos = 0 /\ state = InitReps /\ work = NoWork /\ stream = <<>>
      /\ enc = "block" /\ stop = FALSE /\ size = -1 /\ dst = <<>> /\ cpos = 0
      /\ reps = InitReps /\ cur = NoCur /\ dec = "idle"
  BY DEF Init
<1>2. src \in Seq(Byte) /\ Len(src) \in Nat
  BY <1>1, SourceTyped
<1>3. stream \in Seq(RawBlocks \cup LzBlocks) /\ Len(stream) = 0
      /\ dst \in Seq(Byte \cup {Unset}) /\ Len(dst) = 0
  BY <1>1
<1>4. TypeOK
  <2>1. pos \in 0 .. Len(src) /\ cpos \in 0 .. Len(stream) /\ size \in Nat \cup {-1}
    BY <1>1, <1>2, <1>3
  <2>2. state \in Rep /\ reps \in Rep
    BY <1>1, InitRepsTyped
  <2>3. stop \in BOOLEAN /\ enc \in {"block", "parse", "done", "interrupted"}
        /\ dec \in {"idle", "header", "tokens", "ok", "corrupt"}
    BY <1>1
  <2> QED
    BY <1>1, <1>3, <2>1, <2>2, <2>3 DEF TypeOK
<1>5. StreamInv
  BY <1>3 DEF StreamInv, StreamWritten
<1>6. EncoderInv
  BY <1>1, <1>3 DEF EncoderInv, EndAfter, RepsAt
<1>7. DecoderInv
  <2>1. SubSeq(src, 1, 0) = <<>>
    BY <1>2
  <2> QED
    BY <1>1, <1>2, <1>3, <2>1 DEF DecoderInv
<1> QED
  BY <1>4, <1>5, <1>6, <1>7 DEF IInv

(* A stuttering step keeps the invariant. *)
LEMMA StutterIInv ==
  ASSUME IInv, UNCHANGED vars
  PROVE  IInv'
<1>1. /\ src' = src /\ pos' = pos /\ state' = state /\ work' = work /\ stream' = stream
      /\ enc' = enc /\ stop' = stop /\ size' = size /\ dst' = dst /\ cpos' = cpos
      /\ reps' = reps /\ cur' = cur /\ dec' = dec
  BY DEF vars, encVars, decVars
<1>2. TypeOK'
  BY <1>1 DEF IInv, TypeOK
<1>3. StreamInv'
  BY <1>1, StreamNow DEF IInv, StreamInv
<1>4. EncoderInv'
  BY <1>1, WorkNow DEF IInv, EncoderInv
<1>5. DecoderInv'
  <2>1. /\ EndAfter(stream, cpos)' = EndAfter(stream, cpos)
        /\ RepsAt(stream, cpos)' = RepsAt(stream, cpos)
    BY <1>1 DEF EndAfter, RepsAt
  <2>2. Block' = Block
    BY <1>1 DEF Block
  <2>3. BlockEnd(Block)' = BlockEnd(Block)
    BY <2>2 DEF BlockEnd
  <2>4. AtMark(After(Block, cur.tok))' <=> AtMark(After(Block, cur.tok))
    BY <1>1, <2>2 DEF AtMark, After, First
  <2> QED
    BY <1>1, <2>1, <2>2, <2>3, <2>4 DEF IInv, DecoderInv
<1> QED
  BY <1>2, <1>3, <1>4, <1>5 DEF IInv

(* Every step keeps the invariant. *)
LEMMA NextIInv ==
  ASSUME IInv, [Next]_vars
  PROVE  IInv'
<1>1. CASE EncodeShort
  BY <1>1, EncodeShortKeeps
<1>2. ASSUME NEW end \in 1 .. Len(src), BeginBlock(end)
      PROVE  IInv'
  <2>1. end \in Nat
    OBVIOUS
  <2> QED
    BY <1>2, <2>1, BeginBlockKeeps
<1>3. ASSUME NEW at \in 1 .. Len(src), NEW distance \in 1 .. Len(src),
             NEW len \in MinMatch .. Len(src), EmitMatch(at, distance, len)
      PROVE  IInv'
  <2>1. at \in Nat /\ distance \in Nat \ {0} /\ len \in Nat /\ len >= MinMatch
    BY DEF MinMatch
  <2> QED
    BY <1>3, <2>1, EmitMatchKeeps
<1>4. ASSUME NEW mode \in [split : BOOLEAN, delta : BOOLEAN], KeepCompressed(mode)
      PROVE  IInv'
  BY <1>4, KeepCompressedKeeps
<1>5. CASE KeepRaw
  BY <1>5, KeepRawKeeps
<1>6. CASE FinishStream
  BY <1>6, FinishStreamKeeps
<1>7. ASSUME NEW n \in {Len(src) - 1, Len(src), Len(src) + 1} \cap Nat, StartDecode(n)
      PROVE  IInv'
  BY <1>7, StartDecodeKeeps
<1>8. CASE MissingHeader
  BY <1>8, MissingHeaderKeeps
<1>9. CASE DecodeRaw
  BY <1>9, DecodeRawKeeps
<1>10. CASE OpenBlock
  BY <1>10, OpenBlockKeeps
<1>11. CASE DecodeToken
  BY <1>11, DecodeTokenKeeps
<1>12. CASE CloseBlock
  BY <1>12, CloseBlockKeeps
<1>13. CASE Returned
  BY <1>13, StutterIInv DEF Returned
<1>14. CASE UNCHANGED vars
  BY <1>14, StutterIInv
<1> QED
  BY <1>1, <1>2, <1>3, <1>4, <1>5, <1>6, <1>7, <1>8, <1>9, <1>10, <1>11, <1>12, <1>13, <1>14
     DEF Next, Encode, Decode

(* Every state of the codec satisfies the inductive invariant: what each   *)
(* block, token and mark says of the source, and where the encoder and the *)
(* decoder are in it.                                                      *)
THEOREM Invariant == Spec => []IInv
<1>1. Init => IInv
  BY InitIInv
<1>2. IInv /\ [Next]_vars => IInv'
  BY NextIInv
<1> QED
  BY <1>1, <1>2, PTL DEF Spec

(* Every symbol of a block fits the byte or the field of a token that the  *)
(* encoder stores it in (appendRun, appendMatchLengthWithMode,             *)
(* appendAdvancedDistance).                                                *)
THEOREM SymbolsFit == Spec => []TypeOK
<1>1. IInv => TypeOK
  BY DEF IInv
<1> QED
  BY <1>1, Invariant, PTL

(* A block is decoded with the recent distances it was encoded with,       *)
(* whatever blocks before it fell back to raw (Encode, decodeBlocks).      *)
THEOREM SameDistances == Spec => []RepSync
<1>1. IInv => RepSync
  BY DEF IInv, DecoderInv, RepSync
<1> QED
  BY <1>1, Invariant, PTL

(* After each token the decoder is where the encoder was when it had       *)
(* written it.                                                             *)
THEOREM TokenByToken == Spec => []Lockstep
<1>1. ASSUME IInv
      PROVE  Lockstep
  <2>1. SUFFICES ASSUME dec = "tokens", cur.tok > 0
                 PROVE  LET mark == Block.marks[cur.tok]
                        IN  /\ Len(dst) = mark.out
                            /\ cur.reps = mark.reps
                            /\ cur.dist = mark.dist
                            /\ cur.len  = mark.len
    BY DEF Lockstep
  <2>2. AtMark(After(Block, cur.tok)) /\ cur.tok \in 0 .. Len(Block.tokens)
    BY <1>1, <2>1 DEF IInv, DecoderInv
  <2>3. cur.tok # 0
    BY <2>1, <2>2
  <2>4. After(Block, cur.tok) = Block.marks[cur.tok]
    BY <2>3 DEF After
  <2> QED
    BY <2>2, <2>4 DEF AtMark
<1> QED
  BY <1>1, Invariant, PTL

(* The loop of a block ends with the block full and every one of its       *)
(* streams used up, in every decoder, those that do not check it included. *)
THEOREM NothingLeft == Spec => []StreamsConsumed
<1>1. ASSUME IInv
      PROVE  StreamsConsumed
  <2>1. SUFFICES ASSUME dec = "tokens", ~InLoop
                 PROVE  /\ Len(dst) = cur.end
                        /\ cur.tok  = Len(Block.tokens)
                        /\ cur.dist = Len(Block.dists)
                        /\ cur.len  = Len(Block.lens)
                        /\ \A lane \in 0 .. (Lanes - 1) :
                             cur.lane[lane] = Len(Block.lanes[lane])
    BY DEF StreamsConsumed
  <2>2. /\ cur.tok = Len(Block.tokens)
        /\ Len(dst) = cur.end
        /\ cur.dist = Len(Block.dists)
        /\ cur.len = Len(Block.lens)
        /\ cur.lane = [lane \in 0 .. (Lanes - 1) |->
                         Used(Block.literals, Block.mode.split, lane, Len(Block.literals))]
    BY <1>1, <2>1, LoopEnds
  <2>3. LzWritten(Block)
    BY <1>1, <2>1, InTokens
  <2>4. /\ Block.lanes = [lane \in 0 .. (Lanes - 1) |->
                            LaneStream(Block.literals, Block.mode, lane)]
        /\ Block.literals \in Seq(Entry) /\ Block.mode \in [split : BOOLEAN, delta : BOOLEAN]
    BY <2>3 DEF LzWritten, LzBlocks
  <2>5. ASSUME NEW lane \in 0 .. (Lanes - 1)
        PROVE  cur.lane[lane] = Len(Block.lanes[lane])
    <3>1. Len(LaneStream(Block.literals, Block.mode, lane))
            = Used(Block.literals, Block.mode.split, lane, Len(Block.literals))
      BY <2>4, LaneFacts
    <3>2. Block.lanes[lane] = LaneStream(Block.literals, Block.mode, lane)
      BY <2>4
    <3>3. cur.lane[lane] = Used(Block.literals, Block.mode.split, lane, Len(Block.literals))
      BY <2>2
    <3> QED
      BY <3>1, <3>2, <3>3
  <2> QED
    BY <2>2, <2>5
<1> QED
  BY <1>1, Invariant, PTL

-----------------------------------------------------------------------------
(* The channel.                                                            *)

Verdict == IF dec \in {"ok", "corrupt"} THEN dec ELSE "none"

(* What a step of the codec is to the channel: its variables are the       *)
(* source, whether Encode was interrupted, the size, dst and the verdict.  *)
LEMMA ChannelStep ==
  [Channel!Next]_(Channel!vars) <=>
    \/ /\ size = -1 /\ enc # "interrupted" /\ enc' = "interrupted"
       /\ src' = src /\ size' = size /\ dst' = dst /\ Verdict' = Verdict
    \/ /\ size = -1 /\ size' \in Nat
       /\ src' = src /\ (enc = "interrupted")' = (enc = "interrupted")
       /\ dst' = dst /\ Verdict' = Verdict
    \/ /\ size # -1 /\ Verdict = "none" /\ Channel!IsStrictPrefix(dst, dst')
       /\ Channel!IsPrefix(dst', src) /\ Len(dst') <= size
       /\ src' = src /\ (enc = "interrupted")' = (enc = "interrupted")
       /\ size' = size /\ Verdict' = Verdict
    \/ /\ size = Len(src) /\ enc # "interrupted" /\ Verdict = "none"
       /\ dst' = src /\ Verdict' = "ok"
       /\ src' = src /\ (enc = "interrupted")' = (enc = "interrupted") /\ size' = size
    \/ /\ size # -1 /\ (enc = "interrupted" \/ size # Len(src)) /\ Verdict = "none"
       /\ Verdict' = "corrupt"
       /\ src' = src /\ (enc = "interrupted")' = (enc = "interrupted")
       /\ size' = size /\ dst' = dst
    \/ /\ src' = src /\ (enc = "interrupted")' = (enc = "interrupted")
       /\ size' = size /\ dst' = dst /\ Verdict' = Verdict
BY DEF Verdict, Channel!Next, Channel!vars, Channel!Interrupt, Channel!Open, Channel!Produce,
       Channel!Accept, Channel!Reject, Channel!NoRoom

(* Beginnings of the source are prefixes. *)
LEMMA PrefixOf ==
  ASSUME src \in Seq(Byte), NEW m \in Nat, NEW n \in Nat, m <= n, n <= Len(src)
  PROVE  /\ Channel!IsPrefix(SubSeq(src, 1, n), src)
         /\ Channel!IsPrefix(SubSeq(src, 1, m), SubSeq(src, 1, n))
  BY DEF Channel!IsPrefix

(* Each kind of step that the lemmas above speak of is a step of the       *)
(* channel or none.                                                        *)
LEMMA EncoderQuiet ==
  ASSUME IInv, enc \in {"block", "parse"}, src' = src, UNCHANGED decVars
  PROVE  [Channel!Next]_(Channel!vars)
<1>1. dec = "idle"
  BY DecoderStays DEF IInv
<1>2. size = -1
  BY <1>1 DEF IInv, DecoderInv
<1>3. size' = size /\ dst' = dst /\ dec' = dec
  BY DEF decVars
<1>4. Verdict' = Verdict
  BY <1>3 DEF Verdict
<1>5. CASE enc' = "interrupted"
  BY <1>2, <1>3, <1>4, <1>5, ChannelStep
<1>6. CASE enc' # "interrupted"
  BY <1>2, <1>3, <1>4, <1>6, ChannelStep
<1> QED
  BY <1>5, <1>6

(* A rejection is a step of the channel. *)
LEMMA RejectsStep ==
  ASSUME Rejects
  PROVE  [Channel!Next]_(Channel!vars)
<1>1. Verdict = "none" /\ Verdict' = "corrupt"
  BY DEF Rejects, Verdict
<1>2. /\ size # -1 /\ (enc = "interrupted" \/ size # Len(src))
      /\ src' = src /\ enc' = enc /\ size' = size /\ dst' = dst
  BY DEF Rejects
<1> QED
  BY <1>1, <1>2, ChannelStep

(* An acceptance is a step of the channel. *)
LEMMA AcceptsStep ==
  ASSUME Accepts
  PROVE  [Channel!Next]_(Channel!vars)
<1>1. Verdict = "none" /\ Verdict' = "ok"
  BY DEF Accepts, Verdict
<1>2. /\ size = Len(src) /\ enc # "interrupted" /\ dst' = src
      /\ src' = src /\ enc' = enc /\ size' = size
  BY DEF Accepts
<1> QED
  BY <1>1, <1>2, ChannelStep

(* More of the source in the output is a step of the channel. *)
LEMMA GoesStep ==
  ASSUME IInv, IInv', NEW out, Goes(out)
  PROVE  [Channel!Next]_(Channel!vars)
<1>1. /\ dst' = out /\ src' = src /\ enc' = enc /\ size' = size /\ size # -1
      /\ out = dst \/ (Len(out) > Len(dst) /\ Len(out) <= size)
  BY DEF Goes
<1>2. Verdict = "none" /\ Verdict' = "none"
  BY DEF Goes, Verdict
<1>3. CASE out = dst
  BY <1>1, <1>2, <1>3, ChannelStep
<1>4. CASE Len(out) > Len(dst) /\ Len(out) <= size
  <2>1. /\ dst = SubSeq(src, 1, Len(dst)) /\ Len(dst) <= Len(src)
        /\ out = SubSeq(src, 1, Len(out)) /\ Len(out) <= Len(src)
    BY <1>1 DEF IInv, DecoderInv
  <2>2. Len(dst) \in Nat /\ Len(out) \in Nat /\ src \in Seq(Byte)
    <3>1. dst \in Seq(Byte \cup {Unset}) /\ dst' \in Seq(Byte \cup {Unset}) /\ src \in Sources
      BY DEF IInv, TypeOK
    <3> QED
      BY <1>1, <3>1, SourceTyped, LenProperties
  <2>3. Channel!IsPrefix(out, src) /\ Channel!IsPrefix(dst, out)
    <3>1. Len(dst) <= Len(out)
      BY <1>4, <2>2
    <3>2. /\ Channel!IsPrefix(SubSeq(src, 1, Len(out)), src)
          /\ Channel!IsPrefix(SubSeq(src, 1, Len(dst)), SubSeq(src, 1, Len(out)))
      BY <2>1, <2>2, <3>1, PrefixOf
    <3> QED
      BY <2>1, <3>2
  <2>4. dst # out
    BY <1>4, <2>2
  <2>5. Channel!IsStrictPrefix(dst, dst') /\ Channel!IsPrefix(dst', src) /\ Len(dst') <= size
    BY <1>1, <1>4, <2>3, <2>4 DEF Channel!IsStrictPrefix
  <2> QED
    BY <1>1, <1>2, <2>5, ChannelStep
<1> QED
  BY <1>1, <1>3, <1>4

(* Every step is a step of the channel or none. *)
LEMMA RefineStep ==
  ASSUME IInv, [Next]_vars
  PROVE  [Channel!Next]_(Channel!vars)
<1>0. IInv'
  BY NextIInv
<1>1. CASE EncodeShort
  BY <1>1, EncoderQuiet DEF EncodeShort
<1>2. ASSUME NEW end \in 1 .. Len(src), BeginBlock(end)
      PROVE  [Channel!Next]_(Channel!vars)
  BY <1>2, EncoderQuiet DEF BeginBlock
<1>3. ASSUME NEW at \in 1 .. Len(src), NEW distance \in 1 .. Len(src),
             NEW len \in MinMatch .. Len(src), EmitMatch(at, distance, len)
      PROVE  [Channel!Next]_(Channel!vars)
  BY <1>3, EncoderQuiet DEF EmitMatch
<1>4. ASSUME NEW mode \in [split : BOOLEAN, delta : BOOLEAN], KeepCompressed(mode)
      PROVE  [Channel!Next]_(Channel!vars)
  BY <1>4, EncoderQuiet DEF KeepCompressed, BlockDone
<1>5. CASE KeepRaw
  BY <1>5, EncoderQuiet DEF KeepRaw, BlockDone
<1>6. CASE FinishStream
  BY <1>6, EncoderQuiet DEF FinishStream
<1>7. ASSUME NEW n \in {Len(src) - 1, Len(src), Len(src) + 1} \cap Nat, StartDecode(n)
      PROVE  [Channel!Next]_(Channel!vars)
  <2>1. /\ size = -1 /\ size' \in Nat /\ dec = "idle" /\ dec' = "header"
        /\ src' = src /\ enc' = enc /\ dst' = dst
    BY <1>7, StartDecodeKeeps
  <2>2. Verdict' = Verdict
    BY <2>1 DEF Verdict
  <2> QED
    BY <2>1, <2>2, ChannelStep
<1>8. CASE MissingHeader
  BY <1>8, MissingHeaderKeeps, RejectsStep
<1>9. CASE DecodeRaw
  BY <1>0, <1>9, DecodeRawKeeps, RejectsStep, AcceptsStep, GoesStep
<1>10. CASE OpenBlock
  BY <1>0, <1>10, OpenBlockKeeps, RejectsStep, GoesStep
<1>11. CASE DecodeToken
  <2>1. Delivers /\ dec = "tokens"
    BY <1>11, DecodeTokenKeeps DEF DecodeToken, InLoop
  <2>2. Goes(dst')
    BY <2>1 DEF Delivers, Goes
  <2> QED
    BY <1>0, <2>2, GoesStep
<1>12. CASE CloseBlock
  BY <1>0, <1>12, CloseBlockKeeps, GoesStep
<1>13. CASE UNCHANGED vars
  <2>1. src' = src /\ enc' = enc /\ size' = size /\ dst' = dst /\ dec' = dec
    BY <1>13 DEF vars, encVars, decVars
  <2>2. Verdict' = Verdict
    BY <2>1 DEF Verdict
  <2> QED
    BY <2>1, <2>2, ChannelStep
<1> QED
  BY <1>1, <1>2, <1>3, <1>4, <1>5, <1>6, <1>7, <1>8, <1>9, <1>10, <1>11, <1>12, <1>13
     DEF Next, Encode, Decode, Returned

(* The initial states are those of the channel. *)
LEMMA RefineInit == Init => Channel!Init
BY DEF Init, Channel!Init, Channel!NoRoom

(* Encode followed by Decode is a lossless channel: what reaches dst is a  *)
(* prefix of the source, grows only, is accepted only as the whole source  *)
(* in an output of its size, and is rejected only when Encode was          *)
(* interrupted or the output has another size (Encode, Decode).            *)
THEOREM EncodeDecodeLossless == Spec => Lossless
<1>1. Init => Channel!Init
  BY RefineInit
<1>2. IInv /\ [Next]_vars => [Channel!Next]_(Channel!vars)
  BY RefineStep
<1> QED
  BY <1>1, <1>2, Invariant, PTL DEF Spec, Lossless, Channel!Spec

=============================================================================
