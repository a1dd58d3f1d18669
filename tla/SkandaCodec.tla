----------------------------- MODULE SkandaCodec -----------------------------
(***************************************************************************)
(* One Encode and one Decode of its output (encoder.go, compressor_levels. *)
(* go, literals.go, tokens.go, decoder.go, lz_decode.go).                  *)
(*                                                                         *)
(* The encoder cuts the source into blocks.  A block is first compressed   *)
(* on a copy of the encoder's recent distances; if the result is not       *)
(* smaller than the raw block, the copy is dropped and the raw block is    *)
(* written.  The decoder keeps recent distances of its own and meets only  *)
(* the blocks that were kept.                                              *)
(*                                                                         *)
(* Which matches a level finds, how large a block compresses to and which  *)
(* literal mode costs least are choices here: every parse of true matches, *)
(* every outcome and every mode the options allow.  The entropy layer is   *)
(* left out: a stream holds its symbols.                                   *)
(***************************************************************************)
EXTENDS LengthCode, DistanceCode, FiniteSets

CONSTANTS
  Sources,   (* the sources to compress                                    *)
  LastBytes, (* bytes of the source's end that stay raw: 31                *)
  RawSlack,  (* a source of at most LastBytes + RawSlack: 32               *)
  MaxBlock,  (* levelMaxBlockSize                                          *)
  Window,    (* farthest match: (1 << windowLog) - 1                       *)
  Splitter,  (* TRUE when getBlockSize picks the block size                *)
  Advanced,  (* advanced distances: decSpeedBias < 0.1                     *)
  Collect,   (* delta and position literals: decSpeedBias < 0.6            *)
  NoHuffman, (* the values noHuffman takes: a subset of BOOLEAN            *)
  Lanes      (* literal streams of the position mode: 4                    *)

ASSUME SkandaCodecAssumption ==
  /\ Sources \subseteq Seq(Byte)
  /\ LastBytes \in Nat \ {0}
  /\ RawSlack \in Nat
  /\ MaxBlock \in Nat \ {0}
  /\ Window \in Nat \ {0}
  /\ Splitter \in BOOLEAN /\ Advanced \in BOOLEAN /\ Collect \in BOOLEAN
  /\ NoHuffman \subseteq BOOLEAN
  /\ Lanes \in Nat \ {0}

(* maxMatchDistance. *)
MaxDistance ==
  IF Advanced \/ Window < MaxStdDistance THEN Window ELSE MaxStdDistance

(* The codes reach what a block can need: no run or match is longer than a *)
(* block (2^18 - 1 bytes against 269,535), and no row of distances needs   *)
(* more extra bits than the decoder accepts (windowLog <= 31).             *)
ASSUME CodesReach ==
  /\ MaxBlock <= MaxCode + FieldCap
  /\ Advanced => MaxExtraBits <= WordBits /\ VirtualRow(MaxDistance) < 2^(MaxExtraBits + 1)

VARIABLES
  src,    (* the source                                                    *)
  pos,    (* where the next block starts                                   *)
  state,  (* compressState.repOffsets: the recent distances                *)
  work,   (* the block being compressed, with its copy of the state        *)
  stream, (* the blocks written                                            *)
  enc,    (* where Encode is: "block", "parse", "done", "interrupted"      *)
  stop,   (* the last answer of the progress callback                      *)
  size,   (* len(dst) given to Decode, -1 before the call                  *)
  dst,    (* the bytes of dst written so far                               *)
  cpos,   (* blocks consumed                                               *)
  reps,   (* repOffsets[3..5] of the decoder                               *)
  cur,    (* the decoder's cursors into the streams of a block             *)
  dec     (* where Decode is: "idle", "header", "tokens", "ok",            *)
          (* "corrupt"                                                     *)

encVars == <<src, pos, state, work, stream, enc, stop>>
decVars == <<size, dst, cpos, reps, cur, dec>>
vars    == <<encVars, decVars>>

Limit == Len(src) - LastBytes

(* A byte of dst that no step has written. *)
Unset == -1

NoWork == [start |-> 0]
NoCur  == [tok |-> 0]

-----------------------------------------------------------------------------
(* Literals.  An entry is one literal byte: its place in the source, its   *)
(* value and its difference to the byte one recent distance before it.     *)

(* appendRun: the literals of src[from .. to - 1] (from 0).  The first run *)
(* with no byte to refer to ends delta mode for the block.                 *)
HasRef(from, to, distance) == to <= from \/ from - distance >= 0

Entries(from, to, distance) ==
  [i \in 1 .. (to - from) |->
     [at    |-> from + i - 1,
      value |-> src[from + i],
      delta |-> IF from - distance >= 0
                THEN (src[from + i] - src[from + i - distance]) % ByteSize
                ELSE 0]]

(* The stream a literal goes to: its position modulo Lanes in the position *)
(* mode, the one stream otherwise.                                         *)
LaneOf(split, at) == IF split THEN at % Lanes ELSE 0

Symbol(mode, e) == IF mode.delta THEN e.delta ELSE e.value

LaneStream(literals, mode, lane) ==
  LET first[n \in 0 .. Len(literals)] ==
        IF n = 0 THEN <<>>
        ELSE IF LaneOf(mode.split, literals[n].at) = lane
             THEN Append(first[n - 1], Symbol(mode, literals[n]))
             ELSE first[n - 1]
  IN  first[Len(literals)]

-----------------------------------------------------------------------------
(* The encoder.                                                            *)

(* The bytes of src[from .. to - 1] as they are.  Where a block starts and *)
(* the recent distances there, start and base, are not written.            *)
RawBlock(from, to, last) ==
  [kind |-> "raw", data |-> SubSeq(src, from + 1, to), last |-> last,
   start |-> from, base |-> state]

(* A source that is too short for a compressed block. *)
EncodeShort ==
  /\ enc = "block" /\ stream = <<>>
  /\ Len(src) <= LastBytes + RawSlack
  /\ stream' = <<RawBlock(0, Len(src), TRUE)>>
  /\ stop' \in BOOLEAN
  /\ enc' = "done"
  /\ UNCHANGED <<src, pos, state, work, decVars>>

(* The next block: its size, and the start of its compression on a copy of *)
(* the state.  The first byte of the source is never a literal.            *)
BeginBlock(end) ==
  /\ enc = "block"
  /\ Len(src) > LastBytes + RawSlack
  /\ pos < Limit
  /\ end \in (pos + 1) .. Limit
  /\ end <= pos + MaxBlock
  /\ Splitter \/ end = pos + MaxBlock \/ end = Limit
  /\ \E noHuffman \in NoHuffman :
       work' = [start     |-> pos,
                base      |-> state,
                end       |-> end,
                litStart  |-> IF pos = 0 THEN 1 ELSE pos,
                reps      |-> state,
                noHuffman |-> noHuffman,
                literals  |-> <<>>,
                deltaOK   |-> TRUE,
                tokens    |-> <<>>,
                dists     |-> <<>>,
                lens      |-> <<>>,
                marks     |-> <<>>]
  /\ enc' = "parse"
  /\ UNCHANGED <<src, pos, state, stream, stop, decVars>>

(* The match of len bytes at source position at exists.                    *)
IsMatch(at, distance, len) ==
  /\ distance <= at
  /\ distance <= MaxDistance
  /\ \A i \in 1 .. len : src[at + i] = src[at + i - distance]

(* Where the decoder has to be after a token: how far the output reaches,  *)
(* the recent distances, and how many symbols of the distances, lengths    *)
(* and literals are used.                                                  *)
Mark(out, w) ==
  [out |-> out, reps |-> w.reps, dist |-> Len(w.dists), len |-> Len(w.lens),
   lit |-> Len(w.literals)]

(* appendDistance and appendAdvancedDistance: the field of the token, the  *)
(* symbols it adds and the recent distances after it.                      *)
DistField(last, d) == IF Advanced THEN AdvField(last, d) ELSE StdField(last[1], d)

DistCodes(last, d) ==
  IF ~Advanced THEN StdBytes(last[1], d)
  ELSE IF AdvField(last, d) = 3 THEN <<FreshCode(d)>> ELSE <<>>

RepsNext(last, d) ==
  IF Advanced THEN RepsWritten(last, d) ELSE <<d, last[2], last[3]>>

(* One literal run, then one match of len bytes at source position at:     *)
(* appendRun, the distance, and appendMatchLengthWithMode, which may need  *)
(* a second token.                                                         *)
WithMatch(w, at, distance, len) ==
  LET fields == MatchFields(len, w.noHuffman)
      first  == [lit |-> LiteralField(at - w.litStart),
                 dist |-> DistField(w.reps, distance), len |-> fields[1]]
      rest   == [i \in 1 .. (Len(fields) - 1) |->
                   [lit |-> 0, dist |-> 0, len |-> fields[i + 1]]]
      next   == [w EXCEPT
                   !.litStart = at + len,
                   !.reps     = RepsNext(@, distance),
                   !.literals = @ \o Entries(w.litStart, at, w.reps[1]),
                   !.deltaOK  = @ /\ HasRef(w.litStart, at, w.reps[1]),
                   !.tokens   = Append(@, first) \o rest,
                   !.dists    = @ \o DistCodes(w.reps, distance),
                   !.lens     = @ \o LiteralCodes(at - w.litStart)
                                  \o MatchCodes(len, w.noHuffman)]
  IN  [next EXCEPT
         !.marks = @ \o [i \in 1 .. Len(fields) |->
                           Mark(IF i = Len(fields) THEN at + len
                                ELSE at + MinMatch + fields[1], next)]]

EmitMatch(at, distance, len) ==
  /\ enc = "parse"
  /\ at >= work.litStart
  /\ at + len <= work.end
  /\ IsMatch(at, distance, len)
  /\ work' = WithMatch(work, at, distance, len)
  /\ UNCHANGED <<src, pos, state, stream, enc, stop, decVars>>

(* Faulty: a block that ends with a match gets a token all the same.       *)
TailAlways(w) ==
  LET next == [w EXCEPT
                 !.litStart = w.end,
                 !.literals = @ \o Entries(w.litStart, w.end, w.reps[1]),
                 !.tokens   = Append(@, [lit  |-> LiteralField(w.end - w.litStart),
                                         dist |-> 0, len |-> 0]),
                 !.lens     = @ \o LiteralCodes(w.end - w.litStart)]
  IN  [next EXCEPT !.marks = Append(@, Mark(w.end, next))]

(* The literals after the last match of a block.                           *)
WithTail(w) ==
  LET last == [lit |-> LiteralField(w.end - w.litStart), dist |-> 0, len |-> 0]
      next == [w EXCEPT
                 !.litStart = w.end,
                 !.literals = @ \o Entries(w.litStart, w.end, w.reps[1]),
                 !.deltaOK  = @ /\ HasRef(w.litStart, w.end, w.reps[1]),
                 !.tokens   = Append(@, last),
                 !.lens     = @ \o LiteralCodes(w.end - w.litStart)]
  IN  IF w.litStart < w.end
      THEN [next EXCEPT !.marks = Append(@, Mark(w.end, next))]
      ELSE w

(* The literal modes the block may be written in: delta needs a reference  *)
(* for every literal.                                                      *)
Modes(w) ==
  {mode \in [split : BOOLEAN, delta : BOOLEAN] :
     /\ mode.split => Collect
     /\ mode.delta => Collect /\ w.deltaOK}

(* start, base, literals and marks are not written.                        *)
LzBlock(w, mode) ==
  [kind     |-> "lz",
   size     |-> w.end - w.start,
   first    |-> IF w.start = 0 THEN <<src[1]>> ELSE <<>>,
   mode     |-> mode,
   lanes    |-> [lane \in 0 .. (Lanes - 1) |-> LaneStream(w.literals, mode, lane)],
   tokens   |-> w.tokens,
   dists    |-> w.dists,
   lens     |-> w.lens,
   start    |-> w.start,
   base     |-> w.base,
   literals |-> w.literals,
   marks    |-> w.marks]

(* After a block: the progress callback, whose TRUE ends Encode. *)
BlockDone ==
  /\ pos' = work.end
  /\ work' = NoWork
  /\ stop' \in BOOLEAN
  /\ enc' = IF stop' THEN "interrupted" ELSE "block"
  /\ UNCHANGED <<src, decVars>>

(* Faulty: the copy of the state is dropped with a block that is written.  *)
KeepOldState(mode) ==
  /\ enc = "parse"
  /\ LET done == WithTail(work)
     IN  /\ mode \in Modes(done)
         /\ stream' = Append(stream, LzBlock(done, mode))
         /\ state' = state
  /\ BlockDone

(* The compressed block is smaller: it is written, and the copy of the     *)
(* state becomes the state.                                                *)
KeepCompressed(mode) ==
  /\ enc = "parse"
  /\ LET done == WithTail(work)
     IN  /\ mode \in Modes(done)
         /\ stream' = Append(stream, LzBlock(done, mode))
         /\ state' = done.reps
  /\ BlockDone

(* Faulty: the state keeps the distances of a block that is not written.   *)
RawKeepsReps ==
  /\ enc = "parse"
  /\ stream' = Append(stream, RawBlock(pos, work.end, FALSE))
  /\ state' = WithTail(work).reps
  /\ BlockDone

(* The compressed block is not smaller: the raw bytes are written, and the *)
(* copy of the state is dropped.                                           *)
KeepRaw ==
  /\ enc = "parse"
  /\ stream' = Append(stream, RawBlock(pos, work.end, FALSE))
  /\ state' = state
  /\ BlockDone

(* Faulty: the end of the last block is missed by one. *)
FinishPastLimit ==
  /\ enc = "block"
  /\ Len(src) > LastBytes + RawSlack
  /\ pos > Limit
  /\ stream' = Append(stream, RawBlock(pos, Len(src), TRUE))
  /\ stop' \in BOOLEAN
  /\ enc' = "done"
  /\ UNCHANGED <<src, pos, state, work, decVars>>

(* The last bytes of the source. *)
FinishStream ==
  /\ enc = "block"
  /\ Len(src) > LastBytes + RawSlack
  /\ pos >= Limit
  /\ stream' = Append(stream, RawBlock(pos, Len(src), TRUE))
  /\ stop' \in BOOLEAN
  /\ enc' = "done"
  /\ UNCHANGED <<src, pos, state, work, decVars>>

-----------------------------------------------------------------------------
(* The decoder.                                                            *)

(* Decode is called with the stream that Encode returned and an output of  *)
(* the right size or not.                                                  *)
StartDecode(n) ==
  /\ enc \in {"done", "interrupted"}
  /\ dec = "idle"
  /\ size' = n
  /\ stop' = FALSE
  /\ dec' = "header"
  /\ UNCHANGED <<src, pos, state, work, stream, enc, dst, cpos, reps, cur>>

Corrupt ==
  /\ dec' = "corrupt"
  /\ UNCHANGED <<encVars, size, dst, cpos, reps, cur>>

Block == stream[cpos + 1]

(* readHeader at the end of the stream. *)
MissingHeader ==
  /\ dec = "header"
  /\ cpos = Len(stream)
  /\ Corrupt

DecodeRaw ==
  /\ dec = "header"
  /\ cpos < Len(stream)
  /\ Block.kind = "raw"
  /\ LET out == dst \o Block.data
     IN  IF Len(out) > size \/ (Block.last /\ Len(out) # size)
         THEN Corrupt
         ELSE /\ dst' = out
              /\ cpos' = cpos + 1
              /\ dec' = IF Block.last THEN "ok" ELSE "header"
              /\ UNCHANGED <<encVars, size, reps, cur>>

(* decodeAdvancedDistanceOp refuses an extra field of more than 28 bits.   *)
TooWide ==
  /\ Advanced
  /\ \E i \in DOMAIN Block.dists : Block.dists[i].bits > MaxExtraBits

(* The checks before a compressed block, and its first byte. *)
OpenBlock ==
  /\ dec = "header"
  /\ cpos < Len(stream)
  /\ Block.kind = "lz"
  /\ LET end == Len(dst) + Block.size
     IN  IF \/ end > size
            \/ size >= LastBytes /\ end > size - LastBytes
            \/ dst = <<>> /\ (Block.size = 0 \/ Block.first = <<>>)
            \/ TooWide
         THEN Corrupt
         ELSE /\ dst' = IF dst = <<>> THEN Block.first ELSE dst
              /\ cur' = [tok |-> 0, dist |-> 0, len |-> 0, left |-> FALSE,
                         reps |-> reps,
                         lane |-> [lane \in 0 .. (Lanes - 1) |-> 0],
                         end |-> end]
              /\ dec' = "tokens"
              /\ UNCHANGED <<encVars, size, cpos, reps>>

(* A length field, and the code in the length stream that continues it     *)
(* when it is at its maximum.                                              *)
FieldBytes(field, p) == IF field = FieldCap THEN CodeBytes(Block.lens, p) ELSE 0
FieldExtra(field, p) == IF field = FieldCap THEN DecodeLength(Block.lens, p) ELSE 0
FieldCut(field, p)   == field = FieldCap /\ CodeBytes(Block.lens, p) = 0

(* copyLiterals and reconstructDeltaLiterals: a run of n literals after    *)
(* the output out.  A delta may refer to a byte of the same run.           *)
RunLane(out, i) == LaneOf(Block.mode.split, Len(out) + i - 1)

RunIndex(out, i) ==
  cur.lane[RunLane(out, i)]
    + Cardinality({j \in 1 .. i : RunLane(out, j) = RunLane(out, i)})

LiteralsPresent(out, n) ==
  \A i \in 1 .. n : RunIndex(out, i) <= Len(Block.lanes[RunLane(out, i)])

(* Faulty: a delta does not see the bytes of its own run. *)
DeltaOfOutput(out, n, distance) ==
  [i \in 1 .. n |->
     LET coded == Block.lanes[RunLane(out, i)][RunIndex(out, i)]
     IN  IF Block.mode.delta /\ i <= distance
         THEN (coded + out[Len(out) + i - distance]) % ByteSize
         ELSE coded]

LiteralRun(out, n, distance) ==
  LET coded(i) == Block.lanes[RunLane(out, i)][RunIndex(out, i)]
      run[i \in 1 .. n] ==
        IF ~Block.mode.delta THEN coded(i)
        ELSE (coded(i) + (IF i <= distance THEN out[Len(out) + i - distance]
                                           ELSE run[i - distance])) % ByteSize
  IN  [i \in 1 .. n |-> run[i]]

LanesAfter(out, n) ==
  [lane \in 0 .. (Lanes - 1) |->
     cur.lane[lane] + Cardinality({i \in 1 .. n : RunLane(out, i) = lane})]

(* Faulty: a copy that does not see the bytes it has just written.         *)
CopyOnce(out, distance, n) ==
  [i \in 1 .. n |-> IF i <= distance THEN out[Len(out) - distance + i] ELSE 0]

(* copyMatch: a distance shorter than the match repeats its bytes.         *)
MatchRun(out, distance, n) ==
  [i \in 1 .. n |-> out[Len(out) - distance + 1 + ((i - 1) % distance)]]

(* The loop of a block ends with its tokens or with its bytes.  Some of    *)
(* the decoders test the end of dst instead of the end of the block: they  *)
(* go on after a match that fills the block when tokens are left.          *)
TestsDst ==
  IF Block.mode.split THEN ~Advanced ELSE Block.mode.delta

InLoop ==
  /\ dec = "tokens"
  /\ ~cur.left
  /\ cur.tok < Len(Block.tokens)
  /\ Len(dst) < IF TestsDst THEN size ELSE cur.end

Token == Block.tokens[cur.tok + 1]

(* The literals of a token.                                                *)
LitLen   == Token.lit + FieldExtra(Token.lit, cur.len + 1)
LitEnd   == cur.len + FieldBytes(Token.lit, cur.len + 1)
Literals == LiteralRun(dst, LitLen, cur.reps[1])

BadLiterals ==
  \/ FieldCut(Token.lit, cur.len + 1)
  \/ Len(dst) + LitLen > cur.end
  \/ ~LiteralsPresent(dst, LitLen)
  \/ Block.mode.delta /\ LitLen > 0 /\ cur.reps[1] \notin 1 .. Len(dst)

(* The match of a token: what it takes from the distance stream, the       *)
(* recent distances after it, the first of which is its distance, and its  *)
(* length.                                                                 *)
DistUsed ==
  IF Advanced THEN (IF Token.dist = 3 THEN 1 ELSE 0) ELSE Token.dist

Fresh == IF DistUsed = 1 THEN FreshDistance(Block.dists[cur.dist + 1]) ELSE 0

RepsAfter ==
  IF Advanced
  THEN RepsRead(cur.reps, Token.dist, Fresh)
  ELSE <<StdDistance(cur.reps[1], Token.dist, Block.dists, cur.dist + 1),
         cur.reps[2], cur.reps[3]>>

Distance == RepsAfter[1]

MatchLen == Token.len + MinMatch + FieldExtra(Token.len, LitEnd + 1)
MatchEnd == LitEnd + FieldBytes(Token.len, LitEnd + 1)

BadMatch ==
  \/ cur.dist + DistUsed > Len(Block.dists)
  \/ Distance \notin 1 .. (Len(dst) + LitLen)
  \/ FieldCut(Token.len, LitEnd + 1)
  \/ Len(dst) + LitLen + MatchLen > cur.end

(* One iteration of the loop.  A token whose literals fill the block has   *)
(* no match and ends the loop.                                             *)
DecodeToken ==
  /\ InLoop
  /\ IF BadLiterals THEN Corrupt
     ELSE LET out == dst \o Literals
              lit == [cur EXCEPT !.tok  = @ + 1,
                                 !.len  = LitEnd,
                                 !.lane = LanesAfter(dst, LitLen)]
          IN  IF Len(out) >= cur.end
              THEN /\ dst' = out
                   /\ cur' = [lit EXCEPT !.left = TRUE]
                   /\ UNCHANGED <<encVars, size, cpos, reps, dec>>
              ELSE IF BadMatch THEN Corrupt
              ELSE /\ dst' = out \o MatchRun(out, Distance, MatchLen)
                   /\ cur' = [lit EXCEPT !.dist = @ + DistUsed,
                                         !.len  = MatchEnd,
                                         !.reps = RepsAfter]
                   /\ UNCHANGED <<encVars, size, cpos, reps, dec>>

(* The end of a block.  Only the advanced decoders check that the block is *)
(* full; after a standard one the position moves to its end all the same.  *)
CloseBlock ==
  /\ dec = "tokens"
  /\ ~InLoop
  /\ IF Advanced /\ Len(dst) < cur.end
     THEN Corrupt
     ELSE /\ dst' = dst \o [i \in 1 .. (cur.end - Len(dst)) |-> Unset]
          /\ reps' = cur.reps
          /\ cpos' = cpos + 1
          /\ cur' = NoCur
          /\ dec' = "header"
          /\ UNCHANGED <<encVars, size>>

-----------------------------------------------------------------------------
Init ==
  /\ src \in Sources
  /\ pos = 0
  /\ state = InitReps
  /\ work = NoWork
  /\ stream = <<>>
  /\ enc = "block"
  /\ stop = FALSE
  /\ size = -1
  /\ dst = <<>>
  /\ cpos = 0
  /\ reps = InitReps
  /\ cur = NoCur
  /\ dec = "idle"

Encode ==
  \/ EncodeShort
  \/ \E end \in 1 .. Len(src) : BeginBlock(end)
  \/ \E at, distance \in 1 .. Len(src), len \in MinMatch .. Len(src) :
       EmitMatch(at, distance, len)
  \/ \E mode \in [split : BOOLEAN, delta : BOOLEAN] : KeepCompressed(mode)
  \/ KeepRaw
  \/ FinishStream

Decode ==
  \/ \E n \in {Len(src) - 1, Len(src), Len(src) + 1} \cap Nat : StartDecode(n)
  \/ MissingHeader
  \/ DecodeRaw
  \/ OpenBlock
  \/ DecodeToken
  \/ CloseBlock

(* Both calls have returned. *)
Returned ==
  /\ dec \in {"ok", "corrupt"}
  /\ UNCHANGED vars

Next == Encode \/ Decode \/ Returned

Spec == Init /\ [][Next]_vars

(* A call that has not returned keeps running: nothing in it waits.        *)
FairSpec == Spec /\ WF_vars(Encode \/ Decode)

-----------------------------------------------------------------------------
(* Properties.                                                             *)

Rep     == [1 .. 3 -> Nat \ {0}]
MarkSet == [out : Nat, reps : Rep, dist : Nat, len : Nat, lit : Nat]
Tokens  == [lit : 0 .. FieldCap, dist : 0 .. 3, len : 0 .. FieldCap]
Entry   == [at : Nat, value : Byte, delta : Byte]
DistSymbols ==
  IF Advanced THEN [low : Nat, bits : 0 .. MaxExtraBits, extra : Nat] ELSE 0 .. (DistBase - 1)
RawBlocks == [kind : {"raw"}, data : Seq(Byte), last : BOOLEAN, start : Nat, base : Rep]
LzBlocks ==
  [kind : {"lz"}, size : Nat, first : Seq(Byte),
   mode : [split : BOOLEAN, delta : BOOLEAN],
   lanes : [0 .. (Lanes - 1) -> Seq(Byte)], tokens : Seq(Tokens),
   dists : Seq(DistSymbols), lens : Seq(Byte),
   start : Nat, base : Rep, literals : Seq(Entry), marks : Seq(MarkSet)]

(* What the codec keeps has its type, but for work and cur, whose streams  *)
(* and cursors are those of a block of the stream: in particular every     *)
(* symbol fits the byte, or the field of a token, that the encoder stores  *)
(* it in.                                                                  *)
TypeOK ==
  /\ src \in Sources
  /\ pos \in 0 .. Len(src)
  /\ state \in Rep
  /\ stream \in Seq(RawBlocks \cup LzBlocks)
  /\ enc \in {"block", "parse", "done", "interrupted"}
  /\ stop \in BOOLEAN
  /\ size \in Nat \cup {-1}
  /\ dst \in Seq(Byte \cup {Unset})
  /\ cpos \in 0 .. Len(stream)
  /\ reps \in Rep
  /\ dec \in {"idle", "header", "tokens", "ok", "corrupt"}

(* Encode then Decode is a lossless channel (encoder.go, decoder.go): the  *)
(* decoder's output is a prefix of the source at every step, it accepts    *)
(* exactly the whole source in an output of its size, and it rejects only  *)
(* an interrupted stream or an output of another size.                     *)
Channel ==
  INSTANCE LosslessChannel WITH
    Inputs  <- Sources,
    input   <- src,
    cut     <- enc = "interrupted",
    room    <- size,
    output  <- dst,
    verdict <- IF dec \in {"ok", "corrupt"} THEN dec ELSE "none"

Lossless == Channel!Spec

(* Encode and Decode return: every run of the program reaches a verdict.   *)
Answered == Channel!Answered

(* Each compressed block is decoded with the recent distances it was       *)
(* encoded with, whatever blocks before it fell back to raw (encoder.go    *)
(* drops the copy of the state of such a block).                           *)
RepSync == dec = "tokens" => reps = Block.base

(* After each token the decoder is where the encoder was when it had       *)
(* written that token: the same output position, recent distances, and     *)
(* shares of the distance and length streams.                              *)
Lockstep ==
  (dec = "tokens" /\ cur.tok > 0) =>
    LET mark == Block.marks[cur.tok]
    IN  /\ Len(dst) = mark.out
        /\ cur.reps = mark.reps
        /\ cur.dist = mark.dist
        /\ cur.len  = mark.len

(* The loop of the decoder ends with the block full and every one of its   *)
(* streams used up: a block has no symbol that no token asked for, and the *)
(* standard decoders, which do not check it, leave no byte unwritten.      *)
StreamsConsumed ==
  (dec = "tokens" /\ ~InLoop) =>
    /\ Len(dst) = cur.end
    /\ cur.tok  = Len(Block.tokens)
    /\ cur.dist = Len(Block.dists)
    /\ cur.len  = Len(Block.lens)
    /\ \A lane \in 0 .. (Lanes - 1) : cur.lane[lane] = Len(Block.lanes[lane])

(* "Returning true stops compression early and causes Encode or Compress   *)
(* to return ErrInterrupted" (ProgressFunc, api.go).                       *)
StopHonoured == (stop /\ enc \in {"done", "interrupted"}) => enc = "interrupted"

=============================================================================
