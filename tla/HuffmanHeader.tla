---------------------------- MODULE HuffmanHeader ----------------------------
(***************************************************************************)
(* The header of Huffman-coded data: the code lengths of the symbols, as   *)
(* runs written with a second prefix code, the precode, whose own lengths  *)
(* come first (generateHuffmanHeaderData, encodeHuffmanHeaderInto,         *)
(* decodeHuffmanHeader).  The bits of the header are left out: it is the   *)
(* sequence of its fields.                                                 *)
(***************************************************************************)
EXTENDS PrefixCode

CONSTANTS
  NSymbols, (* symbols of the data: 256                                    *)
  MaxCode,  (* longest code of a symbol: 11                                *)
  MaxPre,   (* longest code of the precode: 7                              *)
  MaxSkip   (* most precode lengths that are skipped: 5                    *)

ASSUME HuffmanHeaderAssumption ==
  /\ NSymbols \in Nat /\ MaxCode \in Nat \ {0} /\ MaxPre \in Nat \ {0}
  /\ NSymbols <= 2^MaxCode
  /\ MaxCode + 1 <= 2^MaxPre
  /\ MaxSkip \in 0 .. MaxCode

Symbol   == 0 .. (NSymbols - 1)
Unused   == MaxCode + 1
Precodes == 1 .. Unused

(* A set of symbols or of lengths, in order.                               *)
Ascending(S) ==
  SelectSeq([i \in 1 .. (NSymbols + Unused) |-> i - 1], LAMBDA s : s \in S)

(* Lengths are written up to the last used symbol, and never for the very  *)
(* last one, which the decoder works out.                                  *)
LengthCount(lens) ==
  LET used == {s \in Symbol : lens[s] # Unused}
      top  == 1 + CHOOSE s \in used : \A t \in used : t <= s
  IN  IF top = NSymbols THEN NSymbols - 1 ELSE top

(* A run of equal lengths: the length, then a bit for each binary digit of *)
(* the run but the highest, lowest digit first.                            *)
RunStarts(lens) ==
  {s \in 0 .. (LengthCount(lens) - 1) : s = 0 \/ lens[s] # lens[s - 1]}

RunLength(lens, s) ==
  LET ends == {t \in (s + 1) .. LengthCount(lens) :
                 t = LengthCount(lens) \/ lens[t] # lens[s]}
  IN  (CHOOSE t \in ends : \A u \in ends : t <= u) - s

RunOps(length, n) ==
  <<[length |-> length, bit |-> 0]>>
    \o [j \in 1 .. Log2(n) |-> [length |-> length, bit |-> (n \div 2^(j - 1)) % 2]]

PrecodeOps(lens) ==
  LET starts == Ascending(RunStarts(lens))
  IN  FlattenSeq([i \in DOMAIN starts |->
                    RunOps(lens[starts[i]], RunLength(lens, starts[i]))])

(* Faulty: a precode with one symbol stays one. *)
PlainHistogram(lens) ==
  LET ops == PrecodeOps(lens)
  IN  [p \in Precodes |-> Cardinality({i \in DOMAIN ops : ops[i].length = p})]

(* precodeHist: a precode of one symbol would have no code, so that another*)
(* one is counted with it.                                                 *)
PrecodeHistogram(lens) ==
  LET ops == PrecodeOps(lens)
      of(p) == Cardinality({i \in DOMAIN ops : ops[i].length = p})
      lone == {p \in Precodes : of(p) = Len(ops)}
  IN  [p \in Precodes |->
         of(p) - (IF p \in lone THEN 1 ELSE 0)
               + (IF \E q \in lone : p = 1 + (q % Unused) THEN 1 ELSE 0)]

(* The precode lengths that are written: some unused ones at the front are *)
(* skipped, and those behind the one that fills the code space.            *)
Skipped(preLens) ==
  CHOOSE k \in 0 .. MaxSkip :
    /\ \A p \in 1 .. k : preLens[p] = MaxPre + 1
    /\ k < MaxSkip => preLens[k + 1] # MaxPre + 1

UsedBy(preLens, from, to) ==
  MapThenSumSet(LAMBDA p : Share(preLens[p], MaxPre), from .. to)

WrittenLengths(preLens) ==
  LET first == Skipped(preLens) + 1
      last  == CHOOSE p \in first .. MaxCode :
                 /\ p = MaxCode \/ UsedBy(preLens, first, p) = 2^MaxPre
                 /\ \A q \in first .. (p - 1) : UsedBy(preLens, first, q) # 2^MaxPre
  IN  SubSeq(preLens, first, last)

Header(lens, preLens) ==
  [skip    |-> Skipped(preLens),
   lengths |-> WrittenLengths(preLens),
   ops     |-> PrecodeOps(lens)]

-----------------------------------------------------------------------------
(* The decoder.                                                            *)

Corrupt == <<>>

(* The space left belongs to one more symbol, if a code can have it.       *)
LeftOver(used, max) == max - Log2(2^max - used)

(* Symbols by length, in the order they are read.                          *)
ReadPrecode(header) ==
  LET lengthOf(p) == header.lengths[p - header.skip]
      read == (header.skip + 1) .. (header.skip + Len(header.lengths))
      used == MapThenSumSet(LAMBDA p : Share(lengthOf(p), MaxPre), read)
      named(k) == Ascending({p \in read : lengthOf(p) = k})
      full == used = 2^MaxPre
  IN  IF used > 2^MaxPre \/ used < 2^MaxPre \div 2 THEN Corrupt
      ELSE [k \in 1 .. MaxPre |->
              named(k) \o (IF ~full /\ k = LeftOver(used, MaxPre)
                           THEN <<Unused>> ELSE <<>>)]

(* precodeOp: a new length, or a bit that makes the run longer.            *)
ReadOp(d, op) ==
  LET repeat == IF op.length = d.last THEN (1 + op.bit) * 2^(d.digits) ELSE 1
  IN  [last      |-> op.length,
       digits    |-> IF op.length = d.last THEN d.digits + 1 ELSE 0,
       read      |-> d.read + repeat,
       used      |-> d.used + repeat * Share(op.length, MaxCode),
       taken     |-> d.taken + 1,
       symbolsOf |-> [d.symbolsOf EXCEPT ![op.length] =
                        @ \o [i \in 1 .. repeat |-> d.read + i - 1]]]

ReadMore(d) == d.read < NSymbols - 1 /\ d.used # 2^MaxCode

(* The loop over the operations, and the last symbol.                      *)
ReadLengths(header) ==
  LET begin == [last |-> 0, digits |-> 0, read |-> 0, used |-> 0, taken |-> 0,
                symbolsOf |-> [k \in 1 .. Unused |-> <<>>]]
      d == FoldLeft(LAMBDA e, op : IF ReadMore(e) THEN ReadOp(e, op) ELSE e,
                    begin, header.ops)
  IN  IF \/ d.taken # Len(header.ops) \/ ReadMore(d)
         \/ d.used > 2^MaxCode \/ d.used < 2^MaxCode \div 2
         \/ d.read > NSymbols - 1
      THEN Corrupt
      ELSE IF d.used = 2^MaxCode THEN d.symbolsOf
      ELSE [d.symbolsOf EXCEPT ![LeftOver(d.used, MaxCode)] =
              Append(@, NSymbols - 1)]

=============================================================================
