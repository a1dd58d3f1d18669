----------------------------- MODULE CodeLemmas -----------------------------
(***************************************************************************)
(* What the length and distance codes write is what they read, for any     *)
(* widths and wherever a code stands in its stream.                        *)
(***************************************************************************)
EXTENDS LengthCode, DistanceCode, NaturalLemmas, SequenceTheorems, TLAPS

(* The symbols of code stand in stream behind the first p ones.            *)
Stands(stream, p, code) ==
  /\ p + Len(code) <= Len(stream)
  /\ \A k \in 1 .. Len(code) : stream[p + k] = code[k]

(* A code stays where it is when a stream grows.                           *)
LEMMA StandsLonger ==
  ASSUME NEW S, NEW stream \in Seq(S), NEW more \in Seq(S), NEW p \in Nat, NEW code \in Seq(S),
         Stands(stream, p, code)
  PROVE  Stands(stream \o more, p, code)
<1>1. /\ Len(stream \o more) = Len(stream) + Len(more)
      /\ \A i \in 1 .. Len(stream) + Len(more) :
           (stream \o more)[i] = IF i <= Len(stream) THEN stream[i] ELSE more[i - Len(stream)]
  BY ConcatProperties
<1>2. Len(stream) \in Nat /\ Len(more) \in Nat /\ Len(code) \in Nat
  BY LenProperties
<1>3. ASSUME NEW k \in 1 .. Len(code)
      PROVE  (stream \o more)[p + k] = code[k]
  <2>1. p + k \in 1 .. Len(stream) + Len(more) /\ p + k <= Len(stream)
    BY <1>2 DEF Stands
  <2> QED
    BY <2>1, <1>1 DEF Stands
<1> QED
  BY <1>1, <1>2, <1>3 DEF Stands

(* A code that is appended stands at the end.                              *)
LEMMA StandsLast ==
  ASSUME NEW S, NEW stream \in Seq(S), NEW code \in Seq(S)
  PROVE  Stands(stream \o code, Len(stream), code)
<1>1. /\ Len(stream \o code) = Len(stream) + Len(code)
      /\ \A i \in 1 .. Len(stream) + Len(code) :
           (stream \o code)[i] = IF i <= Len(stream) THEN stream[i] ELSE code[i - Len(stream)]
  BY ConcatProperties
<1>2. Len(stream) \in Nat /\ Len(code) \in Nat
  BY LenProperties
<1>3. ASSUME NEW k \in 1 .. Len(code)
      PROVE  (stream \o code)[Len(stream) + k] = code[k]
  <2>1. /\ Len(stream) + k \in 1 .. Len(stream) + Len(code)
        /\ ~(Len(stream) + k <= Len(stream)) /\ Len(stream) + k - Len(stream) = k
    BY <1>2
  <2> QED
    BY <2>1, <1>1
<1> QED
  BY <1>1, <1>2, <1>3 DEF Stands

-----------------------------------------------------------------------------
(* What encodeLength appends, one case for each number of bytes. *)
LEMMA EncodeCases ==
  ASSUME NEW v \in 0 .. MaxCode
  PROVE  \/ /\ v < Direct
            /\ EncodeLength(v) = <<v>>
         \/ \E a \in 0 .. (Radix - 1), b \in 0 .. (Direct - 1) :
              /\ v = b * Radix + Direct + a
              /\ EncodeLength(v) = <<Direct + a, b>>
         \/ \E a, b \in 0 .. (Radix - 1), c \in Byte :
              /\ v = (c * Radix + Direct + b) * Radix + Direct + a
              /\ EncodeLength(v) = <<Direct + a, Direct + b, c>>
<1> DEFINE first  == v - Direct
           q      == first \div Radix
           a      == first % Radix
           second == q - Direct
           c      == second \div Radix
           b      == second % Radix
<1>0. /\ Direct \in Nat \ {0} /\ Radix \in Nat \ {0}
      /\ ByteSize \in Nat \ {0} /\ ByteSize = Direct + Radix
  BY LengthCodeAssumption DEF ByteSize
<1>01. /\ Radix * Radix * ByteSize \in Nat /\ Radix * Direct \in Nat
       /\ MaxCode = Direct + Radix * Direct + Radix * Radix * ByteSize - 1
       /\ MaxCode \in Nat
  BY <1>0 DEF MaxCode
<1>02. v \in Nat /\ v < Direct + Radix * Direct + Radix * Radix * ByteSize
  BY <1>0, <1>01
<1>1. CASE v < Direct
  BY <1>1 DEF EncodeLength
<1>2. CASE ~(v < Direct) /\ q < Direct
  <2>1. first \in Nat
    BY <1>0, <1>02, <1>2
  <2>2. q \in Nat /\ a \in 0 .. (Radix - 1) /\ first = Radix * q + a
    BY <2>1, <1>0, DivMod
  <2>3. EncodeLength(v) = <<Direct + a, q>>
    BY <1>2 DEF EncodeLength
  <2> HIDE DEF q, a
  <2>4. v = q * Radix + Direct + a
    <3>1. Radix * q = q * Radix /\ q * Radix \in Nat
      BY <2>2, <1>0
    <3> QED
      BY <2>2, <3>1, <1>0, <1>02
  <2>5. q \in 0 .. (Direct - 1)
    BY <2>2, <1>2, <1>0
  <2> QED
    BY <2>2, <2>3, <2>4, <2>5
<1>3. CASE ~(v < Direct) /\ ~(q < Direct)
  <2>1. first \in Nat
    BY <1>0, <1>02, <1>3
  <2>2. q \in Nat /\ a \in 0 .. (Radix - 1) /\ first = Radix * q + a
    BY <2>1, <1>0, DivMod
  <2>3. second \in Nat
    BY <2>2, <1>3, <1>0
  <2>4. c \in Nat /\ b \in 0 .. (Radix - 1) /\ second = Radix * c + b
    BY <2>3, <1>0, DivMod
  <2>5. c < ByteSize
    <3>1. first < Radix * (Direct + Radix * ByteSize)
      <4>1. Radix * (Direct + Radix * ByteSize) = Radix * Direct + Radix * Radix * ByteSize
        BY <1>0
      <4> QED
        BY <4>1, <1>0, <1>01, <1>02, <2>1
    <3>2. Radix * ByteSize \in Nat /\ Direct + Radix * ByteSize \in Nat
      BY <1>0
    <3>3. q < Direct + Radix * ByteSize
      BY <3>1, <3>2, <2>1, <1>0, DivLess
    <3>4. second < Radix * ByteSize
      BY <3>2, <3>3, <2>2, <1>0
    <3> QED
      BY <3>4, <2>3, <1>0, DivLess
  <2>6. c \in Byte /\ c % ByteSize = c
    BY <2>4, <2>5, <1>0, ModSmall DEF Byte
  <2>7. EncodeLength(v) = <<Direct + a, Direct + b, c>>
    BY <1>3, <2>6 DEF EncodeLength
  <2>8. q = c * Radix + Direct + b
    <3> HIDE DEF q, c, b
    <3>1. Radix * c = c * Radix /\ c * Radix \in Nat
      BY <2>4, <1>0
    <3> QED
      BY <2>2, <2>4, <3>1, <1>0
  <2>9. v = q * Radix + Direct + a
    <3> HIDE DEF q, a
    <3>1. Radix * q = q * Radix /\ q * Radix \in Nat
      BY <2>2, <1>0
    <3> QED
      BY <2>2, <3>1, <1>0, <1>02
  <2> HIDE DEF a, b, c, q
  <2> QED
    BY <2>2, <2>4, <2>6, <2>7, <2>8, <2>9
<1> QED
  BY <1>1, <1>2, <1>3

(* Every length up to MaxCode is written in symbols of a byte, and the     *)
(* decoder reads it back, in as many bytes, where it stands.               *)
LEMMA LengthReadAt ==
  ASSUME NEW v \in 0 .. MaxCode, NEW s \in Seq(Byte), NEW p \in Nat,
         Stands(s, p, EncodeLength(v))
  PROVE  /\ CodeBytes(s, p + 1) = Len(EncodeLength(v))
         /\ DecodeLength(s, p + 1) = v
<1> DEFINE code == EncodeLength(v)
<1>0. /\ Direct \in Nat \ {0} /\ Radix \in Nat \ {0}
      /\ Byte = 0 .. (Direct + Radix - 1) /\ Len(s) \in Nat
  BY LengthCodeAssumption, LenProperties DEF Byte, ByteSize
<1>1. CASE v < Direct /\ code = <<v>>
  <2>1. Len(code) = 1 /\ code[1] = v
    BY <1>1
  <2>2. s[p + 1] = v /\ ~(p + 1 > Len(s))
    BY <1>0, <2>1 DEF Stands
  <2>3. CodeBytes(s, p + 1) = 1
    BY <1>1, <2>2 DEF CodeBytes
  <2> QED
    BY <2>1, <2>2, <2>3 DEF DecodeLength
<1>2. CASE \E a \in 0 .. (Radix - 1), b \in 0 .. (Direct - 1) :
             v = b * Radix + Direct + a /\ code = <<Direct + a, b>>
  <2>1. PICK a \in 0 .. (Radix - 1), b \in 0 .. (Direct - 1) :
             v = b * Radix + Direct + a /\ code = <<Direct + a, b>>
    BY <1>2
  <2>2. Len(code) = 2 /\ code[1] = Direct + a /\ code[2] = b
    BY <2>1
  <2>3. /\ s[p + 1] = Direct + a /\ s[p + 2] = b
        /\ ~(p + 1 > Len(s)) /\ ~(p + 1 + 1 > Len(s)) /\ p + 1 + 1 = p + 2
        /\ ~(Direct + a < Direct) /\ b < Direct
    BY SMTT(60), <1>0, <2>2 DEF Stands
  <2>4. CodeBytes(s, p + 1) = 2
    BY <2>3 DEF CodeBytes
  <2>5. DecodeLength(s, p + 1) = b * Radix + (Direct + a)
    BY <2>3, <2>4 DEF DecodeLength
  <2>6. b * Radix \in Nat
    BY <1>0
  <2>7. DecodeLength(s, p + 1) = v
    BY <1>0, <2>1, <2>5, <2>6
  <2> QED
    BY <2>2, <2>4, <2>7
<1>3. CASE \E a, b \in 0 .. (Radix - 1), c \in Byte :
             /\ v = (c * Radix + Direct + b) * Radix + Direct + a
             /\ code = <<Direct + a, Direct + b, c>>
  <2>1. PICK a \in 0 .. (Radix - 1), b \in 0 .. (Radix - 1), c \in Byte :
             /\ v = (c * Radix + Direct + b) * Radix + Direct + a
             /\ code = <<Direct + a, Direct + b, c>>
    BY <1>3
  <2>2. Len(code) = 3 /\ code[1] = Direct + a /\ code[2] = Direct + b /\ code[3] = c
    BY <2>1
  <2>3. /\ s[p + 1] = Direct + a /\ s[p + 2] = Direct + b /\ s[p + 3] = c
        /\ ~(p + 1 > Len(s)) /\ ~(p + 1 + 1 > Len(s)) /\ ~(p + 1 + 2 > Len(s))
        /\ p + 1 + 1 = p + 2 /\ p + 1 + 2 = p + 3
        /\ ~(Direct + a < Direct) /\ ~(Direct + b < Direct)
    <3>1. p + 3 <= Len(s)
      BY <2>2 DEF Stands
    <3>2. s[p + 1] = Direct + a /\ s[p + 2] = Direct + b /\ s[p + 3] = c
      BY <2>2 DEF Stands
    <3> QED
      BY SMTT(60), <1>0, <3>1, <3>2
  <2>4. CodeBytes(s, p + 1) = 3
    BY <2>3 DEF CodeBytes
  <2>5. DecodeLength(s, p + 1) = (c * Radix + (Direct + b)) * Radix + (Direct + a)
    BY SMTT(60), <2>3, <2>4 DEF DecodeLength
  <2>6. (c * Radix + (Direct + b)) * Radix + (Direct + a) = v
    <3>1. c * Radix \in Nat
      BY <1>0
    <3>2. c * Radix + (Direct + b) = c * Radix + Direct + b
      BY <1>0, <3>1
    <3>3. (c * Radix + Direct + b) * Radix \in Nat
      BY <1>0, <3>1
    <3> QED
      BY <1>0, <2>1, <3>2, <3>3
  <2> QED
    BY <2>2, <2>4, <2>5, <2>6
<1> QED
  BY <1>1, <1>2, <1>3, EncodeCases

(* The code of a length is one to three bytes. *)
LEMMA EncodeTyped ==
  ASSUME NEW v \in 0 .. MaxCode
  PROVE  EncodeLength(v) \in Seq(Byte) /\ Len(EncodeLength(v)) \in 1 .. 3
<1>0. /\ Direct \in Nat \ {0} /\ Radix \in Nat \ {0}
      /\ Byte = 0 .. (Direct + Radix - 1)
  BY LengthCodeAssumption DEF Byte, ByteSize
<1>1. CASE v < Direct /\ EncodeLength(v) = <<v>>
  BY <1>0, <1>1
<1>2. ASSUME NEW a \in 0 .. (Radix - 1), NEW b \in 0 .. (Direct - 1),
             EncodeLength(v) = <<Direct + a, b>>
      PROVE  EncodeLength(v) \in Seq(Byte) /\ Len(EncodeLength(v)) \in 1 .. 3
  <2>1. Direct + a \in Byte /\ b \in Byte
    BY <1>0
  <2> QED
    BY <1>2, <2>1
<1>3. ASSUME NEW a \in 0 .. (Radix - 1), NEW b \in 0 .. (Radix - 1), NEW c \in Byte,
             EncodeLength(v) = <<Direct + a, Direct + b, c>>
      PROVE  EncodeLength(v) \in Seq(Byte) /\ Len(EncodeLength(v)) \in 1 .. 3
  <2>1. Direct + a \in Byte /\ Direct + b \in Byte
    BY <1>0
  <2> QED
    BY <1>3, <2>1
<1> QED
  BY <1>1, <1>2, <1>3, EncodeCases

(* A code between other ones, seen from its first byte. *)
LEMMA Embedded ==
  ASSUME NEW before \in Seq(Byte), NEW code \in Seq(Byte), NEW after \in Seq(Byte)
  PROVE  LET s == before \o code \o after
         IN  /\ s \in Seq(Byte)
             /\ Len(before) \in Nat
             /\ Len(s) = Len(before) + Len(code) + Len(after)
             /\ \A k \in 1 .. Len(code) : s[Len(before) + k] = code[k]
<1> DEFINE t == before \o code
           s == t \o after
<1>1. /\ t \in Seq(Byte) /\ Len(t) = Len(before) + Len(code)
      /\ \A k \in 1 .. Len(t) :
           t[k] = IF k <= Len(before) THEN before[k] ELSE code[k - Len(before)]
  BY ConcatProperties
<1> HIDE DEF t
<1>2. /\ s \in Seq(Byte) /\ Len(s) = Len(t) + Len(after)
      /\ \A k \in 1 .. Len(s) :
           s[k] = IF k <= Len(t) THEN t[k] ELSE after[k - Len(t)]
  <2>1. t \in Seq(Byte)
    BY <1>1
  <2> QED
    BY <2>1, ConcatProperties
<1>3. Len(before) \in Nat /\ Len(code) \in Nat /\ Len(after) \in Nat
  BY LenProperties
<1>4. ASSUME NEW k \in 1 .. Len(code)
      PROVE  s[Len(before) + k] = code[k]
  <2>1. /\ Len(before) + k \in 1 .. Len(t) /\ Len(before) + k \in 1 .. Len(s)
        /\ ~(Len(before) + k <= Len(before))
        /\ Len(before) + k - Len(before) = k
    BY <1>1, <1>2, <1>3
  <2> QED
    BY <1>1, <1>2, <2>1
<1> QED
  BY <1>1, <1>2, <1>3, <1>4 DEF t

(* The same between other codes (encodeLength, the length reads of the     *)
(* decoders).                                                              *)
THEOREM LengthReadBack ==
  ASSUME NEW v \in 0 .. MaxCode, NEW before \in Seq(Byte), NEW after \in Seq(Byte)
  PROVE  /\ EncodeLength(v) \in Seq(Byte)
         /\ CodeBytes(before \o EncodeLength(v) \o after, Len(before) + 1)
              = Len(EncodeLength(v))
         /\ DecodeLength(before \o EncodeLength(v) \o after, Len(before) + 1) = v
<1> DEFINE code == EncodeLength(v)
           s    == before \o code \o after
<1>1. code \in Seq(Byte)
  BY EncodeTyped
<1> HIDE DEF code
<1>2. /\ s \in Seq(Byte) /\ Len(before) \in Nat
      /\ Len(s) = Len(before) + Len(code) + Len(after)
      /\ \A k \in 1 .. Len(code) : s[Len(before) + k] = code[k]
  BY <1>1, Embedded
<1>3. Len(code) \in Nat /\ Len(after) \in Nat
  BY <1>1, LenProperties
<1> HIDE DEF s
<1>4. Stands(s, Len(before), code)
  BY <1>2, <1>3 DEF Stands
<1>5. CodeBytes(s, Len(before) + 1) = Len(code) /\ DecodeLength(s, Len(before) + 1) = v
  BY <1>2, <1>4, LengthReadAt DEF code
<1> QED
  BY <1>1, <1>5 DEF s, code

-----------------------------------------------------------------------------
(* The decoder's recent distances after a match are those the encoder had  *)
(* after writing it, and the first of them is the distance of the match    *)
(* (appendAdvancedDistance, the switch of the advanced decoders).          *)
THEOREM RecentDistances ==
  ASSUME NEW reps \in [1 .. 3 -> Nat], NEW d \in Nat
  PROVE  /\ RepsRead(reps, AdvField(reps, d), d) = RepsWritten(reps, d)
         /\ RepsWritten(reps, d)[1] = d
<1>1. CASE d = reps[1]
  BY <1>1 DEF RepsRead, AdvField, RepsWritten
<1>2. CASE d # reps[1] /\ d = reps[2]
  <2>1. AdvField(reps, d) = 1
    BY <1>2 DEF AdvField
  <2> QED
    BY <2>1, <1>2 DEF RepsRead, RepsWritten
<1>3. CASE d # reps[1] /\ d # reps[2] /\ d = reps[3]
  <2>1. AdvField(reps, d) = 2
    BY <1>3 DEF AdvField
  <2> QED
    BY <2>1, <1>3 DEF RepsRead, RepsWritten
<1>4. CASE d # reps[1] /\ d # reps[2] /\ d # reps[3]
  <2>1. AdvField(reps, d) = 3
    BY <1>4 DEF AdvField
  <2> QED
    BY <2>1, <1>4 DEF RepsRead, RepsWritten
<1> QED
  BY <1>1, <1>2, <1>3, <1>4

(* Whether a standard distance is read depends on the bytes that its field *)
(* announces (appendDistance, the switch of the decoders).                 *)
LEMMA StdTyped ==
  ASSUME NEW last \in Nat, NEW d \in 1 .. MaxStdDistance
  PROVE  /\ StdField(last, d) \in 0 .. 3
         /\ StdBytes(last, d) \in Seq(0 .. (DistBase - 1))
         /\ Len(StdBytes(last, d)) = StdField(last, d)
         /\ \A k \in 1 .. StdField(last, d) : StdBytes(last, d)[k] = StdDigits(d)[k]
<1>0. DistBase \in Nat \ {0} /\ DistBase * DistBase \in Nat \ {0} /\ d \in Nat
  BY DistanceCodeAssumption
<1>1. /\ d % DistBase \in 0 .. (DistBase - 1)
      /\ d \div DistBase \in Nat /\ d \div (DistBase * DistBase) \in Nat
  BY <1>0, DivMod
<1>2. /\ (d \div DistBase) % DistBase \in 0 .. (DistBase - 1)
      /\ (d \div (DistBase * DistBase)) % DistBase \in 0 .. (DistBase - 1)
  BY <1>0, <1>1, DivMod
<1>3. \A k \in 1 .. 3 : StdDigits(d)[k] \in 0 .. (DistBase - 1)
  <2> DEFINE x == d % DistBase
             y == (d \div DistBase) % DistBase
             z == (d \div (DistBase * DistBase)) % DistBase
  <2>1. /\ x \in 0 .. (DistBase - 1) /\ y \in 0 .. (DistBase - 1) /\ z \in 0 .. (DistBase - 1)
        /\ StdDigits(d) = <<x, y, z>>
    BY <1>1, <1>2 DEF StdDigits
  <2> HIDE DEF x, y, z
  <2> QED
    BY <2>1
<1>4. StdField(last, d) \in 0 .. 3
  BY DEF StdField
<1> DEFINE f == StdField(last, d)
           g == StdDigits(d)
<1> HIDE DEF f, g
<1>5. /\ SubSeq(g, 1, f) \in Seq(0 .. (DistBase - 1))
      /\ Len(SubSeq(g, 1, f)) = IF 1 <= f THEN f - 1 + 1 ELSE 0
      /\ \A k \in 1 .. f - 1 + 1 : SubSeq(g, 1, f)[k] = g[1 + k - 1]
  <2>1. \A k \in 1 .. f : g[k] \in 0 .. (DistBase - 1)
    BY <1>3, <1>4 DEF f, g
  <2>2. f \in Int
    BY <1>4 DEF f
  <2> QED
    BY <2>1, <2>2, SubSeqProperties
<1>6. /\ SubSeq(g, 1, f) \in Seq(0 .. (DistBase - 1)) /\ Len(SubSeq(g, 1, f)) = f
      /\ \A k \in 1 .. f : SubSeq(g, 1, f)[k] = g[k]
  BY <1>4, <1>5 DEF f
<1> QED
  BY <1>4, <1>6 DEF StdBytes, f, g

(* A standard distance is read back wherever its bytes stand. *)
LEMMA StdReadAt ==
  ASSUME NEW last \in Nat, NEW d \in 1 .. MaxStdDistance,
         NEW s, NEW p \in Nat, Stands(s, p, StdBytes(last, d))
  PROVE  StdDistance(last, StdField(last, d), s, p + 1) = d
<1> DEFINE f == StdField(last, d)
           x == d % DistBase
           q == d \div DistBase
           y == q % DistBase
           r == d \div (DistBase * DistBase)
           z == r % DistBase
<1>0. DistBase \in Nat \ {0, 1} /\ DistBase * DistBase \in Nat \ {0} /\ d \in Nat
  BY DistanceCodeAssumption
<1>1. f \in 0 .. 3 /\ \A k \in 1 .. f : s[p + k] = StdDigits(d)[k]
  BY StdTyped DEF Stands
<1>2. /\ x \in 0 .. (DistBase - 1) /\ q \in Nat /\ d = DistBase * q + x
  BY <1>0, DivMod
<1>3. y \in 0 .. (DistBase - 1) /\ q \div DistBase \in Nat /\ q = DistBase * (q \div DistBase) + y
  BY <1>0, <1>2, DivMod
<1>4. /\ 1 <= f => s[p + 1] = x
      /\ 2 <= f => s[p + 2] = y
      /\ 3 <= f => s[p + 3] = z
  BY <1>1 DEF StdDigits
<1>5. CASE f = 0
  <2>1. d = last
    BY <1>5 DEF StdField
  <2> QED
    BY <1>5, <2>1 DEF StdDistance
<1>6. CASE f = 1
  <2>1. d < DistBase
    BY <1>6 DEF StdField
  <2>2. x = d
    BY <2>1, <1>0, ModSmall
  <2>3. s[p + 1] = d
    BY <1>4, <1>6, <2>2
  <2> QED
    BY <1>6, <2>3 DEF StdDistance
<1>7. CASE f = 2
  <2>1. d < DistBase * DistBase
    BY <1>7 DEF StdField
  <2>2. q < DistBase
    BY <2>1, <1>0, DivLess
  <2>3. y = q
    BY SMTT(60), <2>2, <1>0, <1>2, ModSmall
  <2>4. s[p + 1] + DistBase * s[p + 1 + 1] = d
    <3>1. s[p + 1] = x /\ s[p + 1 + 1] = q
      BY <1>4, <1>7, <2>3
    <3> HIDE DEF x, q
    <3> QED
      BY <3>1, <1>0, <1>2
  <2>5. StdDistance(last, 2, s, p + 1) = s[p + 1] + DistBase * s[p + 1 + 1]
    <3>1. 2 # 0 /\ 2 # 1
      OBVIOUS
    <3> QED
      BY <3>1, Zenon DEF StdDistance
  <2> QED
    BY <1>7, <2>4, <2>5
<1>8. CASE f = 3
  <2>1. d < DistBase * DistBase * DistBase
    BY <1>0 DEF MaxStdDistance
  <2>2. r \in Nat /\ r < DistBase
    <3>1. d < (DistBase * DistBase) * DistBase
      BY <2>1
    <3> DEFINE BB == DistBase * DistBase
    <3>2. BB \in Nat \ {0} /\ d < BB * DistBase
      BY <1>0, <3>1
    <3> HIDE DEF BB
    <3>3. d \div BB \in Nat /\ d \div BB < DistBase
      BY <1>0, <3>2, DivLess, DivMod
    <3> QED
      BY <3>3 DEF BB
  <2>3. z = r
    BY <2>2, <1>0, ModSmall
  <2>4. q \div DistBase = r
    <3> DEFINE t == q \div DistBase
    <3>1. t \in Nat /\ q = DistBase * t + y
      BY <1>3
    <3>2. DistBase * DistBase * r <= d /\ d < DistBase * DistBase * r + DistBase * DistBase
      <4> DEFINE BB == DistBase * DistBase
      <4>1. BB \in Nat \ {0}
        BY <1>0
      <4> HIDE DEF BB
      <4>2. (d \div BB) \in Nat /\ (d % BB) \in 0 .. (BB - 1) /\ d = BB * (d \div BB) + (d % BB)
        BY <4>1, <1>0, DivMod
      <4>3. BB * (d \div BB) \in Nat
        BY <4>1, <4>2
      <4>4. BB * (d \div BB) <= d /\ d < BB * (d \div BB) + BB
        BY <4>1, <4>2, <4>3
      <4> QED
        BY <4>4 DEF BB
    <3>3. d = DistBase * (DistBase * t + y) + x
      BY <3>1, <1>2
    <3>31. r \in Nat
      BY <2>2
    <3> HIDE DEF t, x, y, q, r
    <3>4. d = DistBase * DistBase * t + (DistBase * y + x)
      BY <3>1, <3>3, <1>0, <1>2, <1>3
    <3>5. DistBase * y + x \in 0 .. (DistBase * DistBase - 1)
      <4>1. PICK k \in Nat : DistBase = y + 1 + k
        <5>1. DistBase - y - 1 \in Nat /\ DistBase = y + 1 + (DistBase - y - 1)
          BY <1>0, <1>3
        <5> QED
          BY <5>1
      <4>2. DistBase * DistBase = DistBase * y + DistBase + DistBase * k
        BY <4>1, <1>0, <1>3
      <4>3. DistBase * k \in Nat /\ DistBase * y \in Nat
        BY <4>1, <1>0, <1>3
      <4> QED
        BY <4>2, <4>3, <1>0, <1>2
    <3> DEFINE BB == DistBase * DistBase
               rest == DistBase * y + x
    <3>6. /\ BB \in Nat \ {0} /\ rest \in 0 .. (BB - 1) /\ d = BB * t + rest
          /\ BB * r <= d /\ d < BB * r + BB
      BY <3>2, <3>4, <3>5, <1>0
    <3> HIDE DEF BB, rest
    <3>7. ASSUME t < r PROVE FALSE
      <4>1. PICK k \in Nat : r = t + 1 + k
        <5>1. r - t - 1 \in Nat /\ r = t + 1 + (r - t - 1)
          BY <3>1, <3>7, <3>31
        <5> QED
          BY <5>1
      <4>2. BB * r = BB * t + BB + BB * k /\ BB * k \in Nat /\ BB * t \in Nat
        BY <4>1, <3>1, <3>6
      <4> QED
        BY <4>2, <3>6
    <3>8. ASSUME r < t PROVE FALSE
      <4>1. PICK k \in Nat : t = r + 1 + k
        <5>1. t - r - 1 \in Nat /\ t = r + 1 + (t - r - 1)
          BY <3>1, <3>8, <3>31
        <5> QED
          BY <5>1
      <4>2. BB * t = BB * r + BB + BB * k /\ BB * k \in Nat /\ BB * r \in Nat
        BY <4>1, <3>31, <3>6
      <4> QED
        BY <4>2, <3>6
    <3>9. t = r
      BY <3>7, <3>8, <3>1, <3>31
    <3> QED
      BY <3>9 DEF t, q, r
  <2>5. s[p + 1] = x /\ s[p + 1 + 1] = y /\ s[p + 1 + 2] = r
    BY <1>4, <1>8, <2>3
  <2>6. x + DistBase * (y + DistBase * r) = d
    <3>1. q = DistBase * r + y
      BY <1>3, <2>4
    <3> HIDE DEF x, y, q, r
    <3>2. DistBase * r \in Nat
      BY <1>0, <2>2
    <3> QED
      BY <3>1, <3>2, <1>0, <1>2, <1>3
  <2>7. s[p + 1] + DistBase * (s[p + 1 + 1] + DistBase * s[p + 1 + 2]) = d
    BY <2>5, <2>6
  <2>8. StdDistance(last, 3, s, p + 1)
          = s[p + 1] + DistBase * (s[p + 1 + 1] + DistBase * s[p + 1 + 2])
    <3>1. 3 # 0 /\ 3 # 1 /\ 3 # 2
      OBVIOUS
    <3> QED
      BY <3>1, Zenon DEF StdDistance
  <2> QED
    BY <1>8, <2>7, <2>8
<1> QED
  BY <1>1, <1>5, <1>6, <1>7, <1>8

-----------------------------------------------------------------------------
(* The powers of two of a word.                                            *)
LEMMA PowerStep ==
  ASSUME NEW n \in 0 .. WordBits
  PROVE  2^n \in Nat \ {0} /\ 2^(n + 1) = 2 * 2^n
<1>0. CASE n = 0
  BY <1>0, 2^0 = 1, 2^1 = 2
<1>1. CASE n = 1
  BY <1>1, 2^1 = 2, 2^2 = 4
<1>2. CASE n = 2
  BY <1>2, 2^2 = 4, 2^3 = 8
<1>3. CASE n = 3
  BY <1>3, 2^3 = 8, 2^4 = 16
<1>4. CASE n = 4
  BY <1>4, 2^4 = 16, 2^5 = 32
<1>5. CASE n = 5
  BY <1>5, 2^5 = 32, 2^6 = 64
<1>6. CASE n = 6
  BY <1>6, 2^6 = 64, 2^7 = 128
<1>7. CASE n = 7
  BY <1>7, 2^7 = 128, 2^8 = 256
<1>8. CASE n = 8
  BY <1>8, 2^8 = 256, 2^9 = 512
<1>9. CASE n = 9
  BY <1>9, 2^9 = 512, 2^10 = 1024
<1>10. CASE n = 10
  BY <1>10, 2^10 = 1024, 2^11 = 2048
<1>11. CASE n = 11
  BY <1>11, 2^11 = 2048, 2^12 = 4096
<1>12. CASE n = 12
  BY <1>12, 2^12 = 4096, 2^13 = 8192
<1>13. CASE n = 13
  BY <1>13, 2^13 = 8192, 2^14 = 16384
<1>14. CASE n = 14
  BY <1>14, 2^14 = 16384, 2^15 = 32768
<1>15. CASE n = 15
  BY <1>15, 2^15 = 32768, 2^16 = 65536
<1>16. CASE n = 16
  BY <1>16, 2^16 = 65536, 2^17 = 131072
<1>17. CASE n = 17
  BY <1>17, 2^17 = 131072, 2^18 = 262144
<1>18. CASE n = 18
  BY <1>18, 2^18 = 262144, 2^19 = 524288
<1>19. CASE n = 19
  BY <1>19, 2^19 = 524288, 2^20 = 1048576
<1>20. CASE n = 20
  BY <1>20, 2^20 = 1048576, 2^21 = 2097152
<1>21. CASE n = 21
  BY <1>21, 2^21 = 2097152, 2^22 = 4194304
<1>22. CASE n = 22
  BY <1>22, 2^22 = 4194304, 2^23 = 8388608
<1>23. CASE n = 23
  BY <1>23, 2^23 = 8388608, 2^24 = 16777216
<1>24. CASE n = 24
  BY <1>24, 2^24 = 16777216, 2^25 = 33554432
<1>25. CASE n = 25
  BY <1>25, 2^25 = 33554432, 2^26 = 67108864
<1>26. CASE n = 26
  BY <1>26, 2^26 = 67108864, 2^27 = 134217728
<1>27. CASE n = 27
  BY <1>27, 2^27 = 134217728, 2^28 = 268435456
<1>28. CASE n = 28
  BY <1>28, 2^28 = 268435456, 2^29 = 536870912
<1>29. CASE n = 29
  BY <1>29, 2^29 = 536870912, 2^30 = 1073741824
<1> QED
  BY <1>0, <1>1, <1>2, <1>3, <1>4, <1>5, <1>6, <1>7, <1>8, <1>9,
     <1>10, <1>11, <1>12, <1>13, <1>14, <1>15, <1>16, <1>17, <1>18, <1>19,
     <1>20, <1>21, <1>22, <1>23, <1>24, <1>25, <1>26, <1>27, <1>28, <1>29 DEF WordBits

(* Powers keep the order of their exponents.                               *)
LEMMA PowerOrder ==
  ASSUME NEW m \in 0 .. WordBits, NEW n \in 0 .. WordBits, m < n
  PROVE  2^(m + 1) <= 2^n
<1> DEFINE Good == {k \in Nat : m + 1 + k <= WordBits => 2^(m + 1) <= 2^(m + 1 + k)}
<1>0. WordBits = 29
  BY DEF WordBits
<1>1. 0 \in Good
  <2>1. 2^(m + 1) \in Nat
    <3>1. 2^m \in Nat /\ 2^(m + 1) = 2 * 2^m
      BY PowerStep
    <3> QED
      BY <3>1
  <2>2. m + 1 + 0 = m + 1
    OBVIOUS
  <2> QED
    BY <2>1, <2>2
<1>2. ASSUME NEW k \in Good
      PROVE  k + 1 \in Good
  <2>1. SUFFICES ASSUME m + 1 + (k + 1) <= WordBits
                 PROVE  2^(m + 1) <= 2^(m + 1 + (k + 1))
    OBVIOUS
  <2>2. m + 1 + k \in 0 .. WordBits /\ m + 1 + (k + 1) = (m + 1 + k) + 1 /\ m + 1 \in 0 .. WordBits
    BY <2>1, <1>0
  <2>3. 2^(m + 1) <= 2^(m + 1 + k)
    BY <2>2
  <2>4. /\ 2^(m + 1 + (k + 1)) = 2 * 2^(m + 1 + k)
        /\ 2^(m + 1 + k) \in Nat /\ 2^(m + 1) \in Nat
    BY <2>2, PowerStep
  <2> QED
    BY <2>3, <2>4
<1>3. Good \in SUBSET Nat
  OBVIOUS
<1> HIDE DEF Good
<1>4. n - m - 1 \in Good
  <2>1. Good = Nat
    BY <1>1, <1>2, <1>3, NaturalsAll
  <2> QED
    BY <2>1
<1>5. m + 1 + (n - m - 1) = n
  OBVIOUS
<1> QED
  BY <1>4, <1>5, <1>0 DEF Good

(* The row of a distance has an exponent, and only one.                    *)
LEMMA ExtraBitsOf ==
  ASSUME NEW row \in Nat \ {0}, row < 2^(WordBits + 1)
  PROVE  /\ ExtraBits(row) \in 0 .. WordBits
         /\ 2^(ExtraBits(row)) <= row /\ row < 2^(ExtraBits(row) + 1)
<1>0. WordBits = 29
  BY DEF WordBits
<1> DEFINE Above == {n \in Nat : n <= WordBits /\ row < 2^(n + 1)}
<1>1. WordBits \in Above
  BY <1>0
<1>2. PICK n \in Above : \A k \in Above : n <= k
  BY <1>1, LeastNatural
<1>3. 2^n <= row
  <2>1. CASE n = 0
    <3>1. 2^0 = 1
      OBVIOUS
    <3> QED
      BY <2>1, <3>1
  <2>2. CASE n # 0
    <3>1. n - 1 \in Nat /\ n - 1 \notin Above /\ n - 1 <= WordBits /\ (n - 1) + 1 = n
      BY <1>0, <1>2, <2>2
    <3>2. ~(row < 2^n)
      BY <3>1
    <3>3. 2^n \in Nat
      BY <1>2, PowerStep
    <3> QED
      BY <3>2, <3>3
  <2> QED
    BY <2>1, <2>2
<1>4. \E k \in 0 .. WordBits : 2^k <= row /\ row < 2^(k + 1)
  BY <1>2, <1>3
<1> QED
  BY <1>4, Zenon DEF ExtraBits

(* A distance below one whose row fits the extra bits fits them.           *)
LEMMA RowBelow ==
  ASSUME NEW far \in Nat \ {0}, NEW d \in 1 .. far,
         MaxExtraBits \in 0 .. WordBits, VirtualRow(far) < 2^(MaxExtraBits + 1)
  PROVE  /\ VirtualRow(d) < 2^(MaxExtraBits + 1)
         /\ VirtualRow(d) < 2^(WordBits + 1)
<1>0. LowGroup \in Nat \ {0} /\ WordBits = 29 /\ MaxExtraBits \in 0 .. WordBits
  BY DistanceCodeAssumption DEF WordBits
<1> DEFINE top == VirtualRow(far)
<1>1. /\ top \in Nat /\ top < 2^(MaxExtraBits + 1)
      /\ far + LowGroup - 1 < LowGroup * (top + 1)
  <2>1. far + LowGroup - 1 \in Nat
    BY <1>0
  <2>2. /\ top \in Nat
        /\ (far + LowGroup - 1) % LowGroup \in 0 .. (LowGroup - 1)
        /\ far + LowGroup - 1
             = LowGroup * top + ((far + LowGroup - 1) % LowGroup)
    BY <1>0, <2>1, DivMod DEF VirtualRow
  <2>3. top < 2^(MaxExtraBits + 1)
    OBVIOUS
  <2> HIDE DEF top
  <2>4. LowGroup * (top + 1) = LowGroup * top + LowGroup /\ LowGroup * top \in Nat
    BY <1>0, <2>2
  <2> QED
    BY <1>0, <2>2, <2>3, <2>4
<1> HIDE DEF top
<1>2. VirtualRow(d) \in Nat /\ VirtualRow(d) <= top
  <2> DEFINE x == d + LowGroup - 1
             m == top + 1
  <2>1. x \in Nat /\ m \in Nat /\ x < LowGroup * m
    BY <1>0, <1>1
  <2> HIDE DEF x, m
  <2>2. x \div LowGroup < m /\ x \div LowGroup \in Nat
    BY <1>0, <2>1, DivLess, DivMod
  <2>3. VirtualRow(d) = x \div LowGroup
    BY DEF VirtualRow, x
  <2> QED
    BY <1>1, <2>2, <2>3 DEF m
<1>3. 2^(MaxExtraBits + 1) \in Nat /\ 2^(MaxExtraBits + 1) <= 2^(WordBits + 1)
      /\ 2^(WordBits + 1) \in Nat
  <2>1. /\ 2^MaxExtraBits \in Nat /\ 2^(MaxExtraBits + 1) = 2 * 2^MaxExtraBits
        /\ 2^WordBits \in Nat /\ 2^(WordBits + 1) = 2 * 2^WordBits
    <3>1. WordBits \in 0 .. WordBits
      BY <1>0
    <3> QED
      BY <1>0, <3>1, PowerStep
  <2>2. CASE MaxExtraBits = WordBits
    BY <2>1, <2>2
  <2>3. CASE MaxExtraBits < WordBits
    <3>1. 2^(MaxExtraBits + 1) <= 2^WordBits
      <4>1. WordBits \in 0 .. WordBits
        BY <1>0
      <4> QED
        BY <1>0, <2>3, <4>1, PowerOrder
    <3> QED
      BY <2>1, <3>1
  <2> QED
    BY <1>0, <2>2, <2>3
<1> QED
  BY <1>0, <1>1, <1>2, <1>3

(* A fresh distance is read as it was written, from a code with no more    *)
(* extra bits than its row needs (appendAdvancedDistance,                  *)
(* decodeAdvancedDistanceOp).                                              *)
THEOREM FreshReadBack ==
  ASSUME NEW d \in Nat \ {0}, VirtualRow(d) < 2^(WordBits + 1)
  PROVE  /\ FreshDistance(FreshCode(d)) = d
         /\ FreshCode(d).low \in 0 .. (LowGroup - 1)
         /\ FreshCode(d).bits \in 0 .. WordBits
         /\ FreshCode(d).extra \in Nat /\ FreshCode(d).extra < 2^(FreshCode(d).bits)
         /\ \A m \in 0 .. WordBits : VirtualRow(d) < 2^(m + 1) => FreshCode(d).bits <= m
<1> DEFINE row == VirtualRow(d)
           n   == ExtraBits(row)
           a   == (d + LowGroup - 1) % LowGroup
           x   == row % (2^n)
<1>0. LowGroup \in Nat \ {0} /\ d + LowGroup - 1 \in Nat
  BY DistanceCodeAssumption
<1>1. a \in 0 .. (LowGroup - 1) /\ row \in Nat /\ d + LowGroup - 1 = LowGroup * row + a
  BY <1>0, DivMod DEF VirtualRow
<1> HIDE DEF row, a
<1>2. row # 0
  <2> SUFFICES ASSUME row = 0
               PROVE  FALSE
    OBVIOUS
  <2>1. LowGroup * row = 0
    BY <1>0
  <2> QED
    BY <2>1, <1>0, <1>1
<1>3. n \in 0 .. WordBits /\ 2^n <= row /\ row < 2^(n + 1)
  BY <1>1, <1>2, ExtraBitsOf DEF row
<1> HIDE DEF n
<1>4. 2^n \in Nat \ {0} /\ 2^(n + 1) = 2 * 2^n
  BY <1>3, PowerStep
<1>5. x = row - 2^n /\ x \in Nat /\ x < 2^n
  <2> DEFINE P == 2^n
  <2>1. P \in Nat \ {0} /\ P <= row /\ row < 2 * P
    BY <1>3, <1>4
  <2> HIDE DEF P
  <2>2. row % P = (row - P) % P
    BY <2>1, <1>1, ModShift
  <2>3. row - P \in 0 .. (P - 1)
    BY <2>1, <1>1
  <2>4. (row - P) % P = row - P
    BY <2>1, <2>3, ModSmall
  <2>5. row % P = row - P /\ row - P \in Nat /\ row - P < P
    BY <2>1, <2>2, <2>3, <2>4
  <2> QED
    BY <2>5 DEF P
<1> HIDE DEF x
<1>6. FreshCode(d) = [low |-> LowGroup - 1 - a, bits |-> n, extra |-> x]
  BY DEF FreshCode, row, n, a, x
<1>7. FreshDistance(FreshCode(d)) = d
  <2>1. x + 2^n = row
    BY <1>1, <1>4, <1>5
  <2>2. FreshDistance(FreshCode(d)) = LowGroup * (x + 2^n) - (LowGroup - 1 - a)
    BY <1>6 DEF FreshDistance
  <2>3. FreshDistance(FreshCode(d)) = LowGroup * row - (LowGroup - 1 - a)
    BY <2>1, <2>2
  <2>4. LowGroup * row \in Nat
    BY <1>0, <1>1
  <2> QED
    BY <2>3, <2>4, <1>0, <1>1
<1>8. ASSUME NEW m \in 0 .. WordBits, row < 2^(m + 1)
      PROVE  n <= m
  <2> SUFFICES ASSUME m < n
               PROVE  FALSE
    BY <1>3
  <2>1. 2^(m + 1) <= 2^n
    BY <1>3, PowerOrder
  <2>2. 2^(m + 1) \in Nat
    BY PowerStep
  <2> QED
    BY <2>1, <2>2, <1>1, <1>3, <1>4, <1>8
<1>9. /\ FreshCode(d).low \in 0 .. (LowGroup - 1) /\ FreshCode(d).bits = n
      /\ FreshCode(d).extra = x
  BY <1>6, <1>0, <1>1
<1> QED
  BY <1>3, <1>5, <1>7, <1>8, <1>9 DEF row

=============================================================================
