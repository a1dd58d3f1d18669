--------------------------- MODULE SkandaCodecInv ---------------------------
(***************************************************************************)
(* The inductive invariant of SkandaCodec: what each token of a block says *)
(* of the source, where the blocks of the stream follow each other, and    *)
(* how far the encoder and the decoder are.                                *)
(***************************************************************************)
EXTENDS SkandaCodec, CodeLemmas

(* The mark before the first token of a block b, and after its t-th.       *)
(* The first byte of the source is written apart.                          *)
First(b) == [out |-> IF b.start = 0 THEN 1 ELSE b.start, reps |-> b.base,
             dist |-> 0, len |-> 0, lit |-> 0]

After(b, t) == IF t = 0 THEN First(b) ELSE b.marks[t]

(* The literals of a token that follows mark a: a run of src, which has    *)
(* something to refer to when the block is written in delta mode.          *)
RunWritten(b, delta, a, tok, run, end) ==
  /\ a.out + run <= end
  /\ tok.lit = LiteralField(run)
  /\ Stands(b.literals, a.lit, Entries(a.out, a.out + run, a.reps[1]))
  /\ delta => HasRef(a.out, a.out + run, a.reps[1])

(* The field and the length code of a match that one token holds.          *)
OneField(len) == IF len <= LongestField THEN len - MinMatch ELSE FieldCap

OneCode(len) ==
  IF len <= LongestField THEN <<>> ELSE EncodeLength(len - (FieldCap + MinMatch))

(* A token with a match, from mark a to mark c, in a block that ends at    *)
(* end.                                                                    *)
MatchWritten(b, delta, a, tok, c, end) ==
  \E run \in 0 .. MaxBlock, len \in MinMatch .. MaxBlock, d \in 1 .. MaxDistance :
    /\ RunWritten(b, delta, a, tok, run, end)
    /\ a.out + run + len <= end
    /\ IsMatch(a.out + run, d, len)
    /\ tok.dist = DistField(a.reps, d)
    /\ tok.len = OneField(len)
    /\ Stands(b.dists, a.dist, DistCodes(a.reps, d))
    /\ Stands(b.lens, a.len, LiteralCodes(run) \o OneCode(len))
    /\ c = [out  |-> a.out + run + len,
            reps |-> RepsNext(a.reps, d),
            dist |-> a.dist + Len(DistCodes(a.reps, d)),
            len  |-> a.len + Len(LiteralCodes(run) \o OneCode(len)),
            lit  |-> a.lit + run]

(* A token with the last literals of a block.                              *)
TailWritten(b, delta, a, tok, c, end) ==
  \E run \in 1 .. MaxBlock :
    /\ RunWritten(b, delta, a, tok, run, end)
    /\ tok.dist = 0 /\ tok.len = 0
    /\ Stands(b.lens, a.len, LiteralCodes(run))
    /\ a.out + run = end
    /\ c = [out  |-> end,
            reps |-> a.reps,
            dist |-> a.dist,
            len  |-> a.len + Len(LiteralCodes(run)),
            lit  |-> a.lit + run]

TokenWritten(b, delta, end, t) ==
  \/ MatchWritten(b, delta, After(b, t - 1), b.tokens[t], After(b, t), end)
  \/ TailWritten(b, delta, After(b, t - 1), b.tokens[t], After(b, t), end)

(* The tokens of b, up to position out of a block that ends at end, say    *)
(* what src holds, and nothing in its streams is left over.                *)
TokensWritten(b, delta, out, reps1, end) ==
  /\ Len(b.marks) = Len(b.tokens)
  /\ \A t \in 1 .. Len(b.tokens) : TokenWritten(b, delta, end, t)
  /\ After(b, Len(b.tokens)) =
       [out |-> out, reps |-> reps1, dist |-> Len(b.dists), len |-> Len(b.lens),
        lit |-> Len(b.literals)]

-----------------------------------------------------------------------------
(* The blocks of the stream.                                               *)
BlockEnd(b) == b.start + IF b.kind = "raw" THEN Len(b.data) ELSE b.size

BlockReps(b) == IF b.kind = "raw" THEN b.base ELSE After(b, Len(b.tokens)).reps

RawWritten(b) ==
  /\ b \in RawBlocks
  /\ b.data = SubSeq(src, b.start + 1, BlockEnd(b))
  /\ IF b.last THEN BlockEnd(b) = Len(src)
     ELSE b.start < BlockEnd(b) /\ BlockEnd(b) <= Limit

LzWritten(b) ==
  /\ b \in LzBlocks
  /\ b.start < BlockEnd(b) /\ BlockEnd(b) <= Limit
  /\ b.first = IF b.start = 0 THEN <<src[1]>> ELSE <<>>
  /\ b.lanes = [lane \in 0 .. (Lanes - 1) |-> LaneStream(b.literals, b.mode, lane)]
  /\ TokensWritten(b, b.mode.delta, BlockEnd(b), BlockReps(b), BlockEnd(b))

(* Where the first k blocks of s end, and the recent distances there.      *)
EndAfter(s, k) == IF k = 0 THEN 0 ELSE BlockEnd(s[k])
RepsAt(s, k)   == IF k = 0 THEN InitReps ELSE BlockReps(s[k])

IsLast(b) == b.kind = "raw" /\ b.last

(* The blocks of s, written by an encoder that is at e.                    *)
StreamWritten(s, e) ==
  \A k \in 1 .. Len(s) :
    /\ RawWritten(s[k]) \/ LzWritten(s[k])
    /\ s[k].start = EndAfter(s, k - 1)
    /\ s[k].base = RepsAt(s, k - 1)
    /\ IsLast(s[k]) <=> k = Len(s) /\ e = "done"

StreamInv == StreamWritten(stream, enc)

(* The encoder: the block it compresses continues the stream.              *)
WorkSet ==
  [start : Nat, base : Rep, end : Nat, litStart : Nat, reps : Rep, noHuffman : BOOLEAN,
   literals : Seq(Entry), deltaOK : BOOLEAN, tokens : Seq(Tokens),
   dists : Seq(DistSymbols), lens : Seq(Byte), marks : Seq(MarkSet)]

WorkWritten(w) ==
  /\ w \in WorkSet
  /\ w.start < w.end /\ w.end <= Limit /\ w.end <= w.start + MaxBlock
  /\ w.litStart \in w.start .. w.end /\ w.litStart # 0
  /\ TokensWritten(w, w.deltaOK, w.litStart, w.reps, w.end)

EncoderInv ==
  /\ enc \in {"block", "parse"} =>
       pos = EndAfter(stream, Len(stream)) /\ state = RepsAt(stream, Len(stream))
  /\ enc = "parse" => WorkWritten(work) /\ work.start = pos /\ work.base = state
  /\ enc = "done" => stream # <<>>

(* The decoder: dst is a prefix of src.  Between blocks it is where the    *)
(* blocks before cpos end; in a block it is at the mark of the last token. *)
Used(literals, split, lane, n) ==
  Cardinality({i \in 1 .. n : LaneOf(split, literals[i].at) = lane})

CurSet ==
  [tok : Nat, dist : Nat, len : Nat, left : BOOLEAN, reps : Rep,
   lane : [0 .. (Lanes - 1) -> Nat], end : Nat]

AtMark(a) ==
  /\ Len(dst) = a.out /\ cur.reps = a.reps /\ cur.dist = a.dist /\ cur.len = a.len
  /\ cur.lane = [lane \in 0 .. (Lanes - 1) |-> Used(Block.literals, Block.mode.split, lane, a.lit)]

DecoderInv ==
  /\ dst = SubSeq(src, 1, Len(dst)) /\ Len(dst) <= Len(src)
  /\ dec = "idle" => size = -1 /\ dst = <<>> /\ cpos = 0 /\ reps = InitReps
  /\ dec # "idle" => size \in Nat /\ enc \in {"done", "interrupted"}
  /\ dec = "header" =>
       /\ Len(dst) = EndAfter(stream, cpos) /\ reps = RepsAt(stream, cpos)
       /\ enc = "done" => cpos < Len(stream)
       /\ Len(dst) <= size
  /\ dec = "tokens" =>
       /\ cpos < Len(stream) /\ Block.kind = "lz"
       /\ reps = Block.base
       /\ cur.tok \in 0 .. Len(Block.tokens)
       /\ AtMark(After(Block, cur.tok))
       /\ cur \in CurSet /\ (cur.left => cur.tok = Len(Block.tokens))
       /\ cur.end = BlockEnd(Block) /\ cur.end <= size
  /\ dec = "ok" => size = Len(src) /\ enc = "done" /\ dst = src
  /\ dec = "corrupt" => enc = "interrupted" \/ size # Len(src)

IInv == TypeOK /\ StreamInv /\ EncoderInv /\ DecoderInv

=============================================================================
