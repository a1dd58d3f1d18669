--------------------------- MODULE BlockSplitter ----------------------------
(***************************************************************************)
(* The block splitter (block_splitter.go) in the loop of Encode.           *)
(*                                                                         *)
(* getBlockSize cuts what is left of the source, at most MaxBlock bytes,   *)
(* into subdivisions of SubSize bytes, and looks for a boundary at which   *)
(* two blocks are estimated smaller than one.  The histograms of the       *)
(* subdivisions behind the boundary are moved to the front and serve again *)
(* in the next call.  An encoder that is used again for a source of the    *)
(* same size keeps its splitter.                                           *)
(*                                                                         *)
(* A histogram is modelled by how often each byte of each source is        *)
(* counted in it, as a literal or in a match.  Sums and differences of     *)
(* counters are those of integers: the code's are modulo 2^32.  What an    *)
(* estimate yields is a choice.                                            *)
(***************************************************************************)
EXTENDS Integers

CONSTANTS
  Sources,         (* the sources one encoder is given, one after another  *)
  Limits,          (* possible values of limit = len(src) - lastBytes      *)
  LastBytes,       (* bytes of the source's end that stay raw: 31          *)
  MaxSubdivisions, (* 2, or 64 from optimal2 on                            *)
  SubSize,         (* subdivisionSize: 131072 or 4096                      *)
  HeaderSize,      (* bytes of a block header: 3                           *)
  BoundShare,      (* CompressBound: one byte for every 1024 of the source *)
  BoundFixed       (* and 128 more                                         *)

ASSUME BlockSplitterAssumption ==
  /\ Limits \subseteq Nat \ {0}
  /\ LastBytes \in Nat
  /\ MaxSubdivisions \in Nat \ {0, 1}
  /\ SubSize \in Nat \ {0}
  /\ HeaderSize \in Nat
  /\ BoundShare \in Nat \ {0} /\ HeaderSize * BoundShare <= SubSize
  /\ BoundFixed \in Nat /\ 2 * HeaderSize <= BoundFixed

(* maxBlockSize: subdivisionSize is (maxBlockSize + 1) / subdivisions, so  *)
(* the last subdivision of a full block is one byte shorter.               *)
MaxBlock == MaxSubdivisions * SubSize - 1

VARIABLES
  source, (* the source of the current or last call of Encode              *)
  limit,  (* where its blocks end; the same in every call                  *)
  pos,    (* where the next block starts                                   *)
  blocks, (* blocks written                                                *)
  hist,   (* histograms                                                    *)
  reuse,  (* reuseSubdivisions                                             *)
  model,  (* the histogram that bestModel, and after the call costModel,   *)
          (* was made from                                                 *)
  call,   (* the locals of getBlockSize                                    *)
  phase   (* "block", "fill", "sum", "sweep", "compress"; "idle" between   *)
          (* calls of Encode                                               *)

vars == <<source, limit, pos, blocks, hist, reuse, model, call, phase>>

-----------------------------------------------------------------------------
Positions == UNION {0 .. (l - 1) : l \in Limits}
Bytes     == Sources \X Positions
Hists     == 0 .. (MaxSubdivisions - 1)

Smaller(a, b) == IF a < b THEN a ELSE b

Empty            == [b \in Bytes |-> 0]
Added(h, g)      == [b \in Bytes |-> h[b] + g[b]]
Subtracted(h, g) == [b \in Bytes |-> h[b] - g[b]]

(* approximateSymbolHistogram: every byte from .. to - 1 once.             *)
CountOf(from, to) ==
  [b \in Bytes |-> IF b[1] = source /\ from <= b[2] /\ b[2] < to THEN 1 ELSE 0]

Idle == [max |-> 0, count |-> 0, i |-> 0, left |-> Empty, right |-> Empty, best |-> 0]

(* The subdivisions of a block of max bytes.                               *)
CountFor(max) ==
  LET count == (max + SubSize - 1) \div SubSize
  IN  IF count < 1 THEN 1
      ELSE IF count > MaxSubdivisions THEN MaxSubdivisions ELSE count

-----------------------------------------------------------------------------
Init ==
  /\ source \in Sources
  /\ limit \in Limits
  /\ pos = 0
  /\ blocks = 0
  /\ hist = [k \in Hists |-> Empty]
  /\ reuse = 0
  /\ model = Empty
  /\ call = Idle
  /\ phase = "block"

(* Faulty: the size offered is not limited. *)
OfferedRest == limit - pos

(* The largest size that the loop of Encode offers.                        *)
Offered == Smaller(MaxBlock, limit - pos)

(* getBlockSize is called for the next block.                              *)
Begin ==
  /\ phase = "block"
  /\ pos < limit
  /\ LET count == CountFor(Offered)
         kept  == IF reuse > count THEN 0 ELSE reuse
     IN  /\ reuse' = kept
         /\ call' = [Idle EXCEPT !.max = Offered, !.count = count, !.i = kept]
  /\ phase' = "fill"
  /\ UNCHANGED <<source, limit, pos, blocks, hist, model>>

(* The histogram of a subdivision that none is left for.                   *)
Fill ==
  /\ phase = "fill"
  /\ call.i < call.count
  /\ LET from == call.i * SubSize
     IN  hist' = [hist EXCEPT ![call.i] =
                    CountOf(pos + from, pos + Smaller(from + SubSize, call.max))]
  /\ call' = [call EXCEPT !.i = @ + 1]
  /\ UNCHANGED <<source, limit, pos, blocks, reuse, model, phase>>

(* The histogram of the whole block: the first one, and then the others.   *)
First ==
  /\ phase = "fill"
  /\ call.i = call.count
  /\ call' = [call EXCEPT !.i = 1, !.left = hist[0]]
  /\ phase' = "sum"
  /\ UNCHANGED <<source, limit, pos, blocks, hist, reuse, model>>

Add ==
  /\ phase = "sum"
  /\ call.i < call.count
  /\ call' = [call EXCEPT !.i = @ + 1, !.left = Added(@, hist[call.i])]
  /\ UNCHANGED <<source, limit, pos, blocks, hist, reuse, model, phase>>

(* The estimate of the undivided block.                                    *)
Whole ==
  /\ phase = "sum"
  /\ call.i = call.count
  /\ call' = [call EXCEPT !.i = call.count - 1, !.best = call.max]
  /\ model' = call.left
  /\ phase' = "sweep"
  /\ UNCHANGED <<source, limit, pos, blocks, hist, reuse>>

(* Faulty: a better boundary leaves the right part as it is. *)
SplitKeepsRight ==
  /\ phase = "sweep"
  /\ call.i > 0
  /\ \E better \in BOOLEAN :
       LET left == Subtracted(call.left, hist[call.i])
       IN  /\ call' = [call EXCEPT !.i = @ - 1, !.left = left,
                          !.right = Added(@, hist[call.i]),
                          !.best = IF better THEN call.i * SubSize ELSE @]
           /\ model' = IF better THEN left ELSE model
  /\ UNCHANGED <<source, limit, pos, blocks, hist, reuse, phase>>

(* Faulty: a better boundary leaves the costs of the whole block.          *)
SplitKeepsModel ==
  /\ phase = "sweep"
  /\ call.i > 0
  /\ \E better \in BOOLEAN :
       call' = [call EXCEPT !.i = @ - 1, !.left = Subtracted(@, hist[call.i]),
                  !.right = IF better THEN Empty ELSE Added(@, hist[call.i]),
                  !.best = IF better THEN call.i * SubSize ELSE @]
  /\ UNCHANGED <<source, limit, pos, blocks, hist, reuse, model, phase>>

(* The boundary before subdivision i, from the end: the two sides may be   *)
(* estimated better than the best block so far.                            *)
Split ==
  /\ phase = "sweep"
  /\ call.i > 0
  /\ \E better \in BOOLEAN :
       LET left == Subtracted(call.left, hist[call.i])
       IN  /\ call' = [call EXCEPT !.i = @ - 1, !.left = left,
                          !.right = IF better THEN Empty ELSE Added(@, hist[call.i]),
                          !.best = IF better THEN call.i * SubSize ELSE @]
           /\ model' = IF better THEN left ELSE model
  /\ UNCHANGED <<source, limit, pos, blocks, hist, reuse, phase>>

(* copy(histograms[:count - used], histograms[used:count]).                *)
MovedFront(used, count) ==
  [k \in Hists |-> IF k < count - used THEN hist[k + used] ELSE hist[k]]

(* The boundary is settled; the histograms behind it are kept.             *)
Settle ==
  /\ phase = "sweep"
  /\ call.i = 0
  /\ IF call.best # call.max
     THEN LET used == call.best \div SubSize
          IN  /\ hist' = MovedFront(used, call.count)
              /\ reuse' = call.count - used
     ELSE reuse' = 0 /\ UNCHANGED hist
  /\ phase' = "compress"
  /\ UNCHANGED <<source, limit, pos, blocks, model, call>>

(* Faulty: the bytes after the last full subdivision are dropped.          *)
FullSubdivisions == (call.best \div SubSize) * SubSize

(* The size that getBlockSize returns.                                     *)
BlockSize ==
  IF call.best <= 0 \/ call.best > call.max THEN call.max ELSE call.best

(* The block is compressed with costModel and written; the progress        *)
(* callback may end Encode, the last bytes do.                             *)
WriteBlock ==
  /\ phase = "compress"
  /\ pos' = pos + BlockSize
  /\ blocks' = blocks + 1
  /\ call' = Idle
  /\ \/ phase' = "idle"
     \/ phase' = "block" /\ pos' < limit
  /\ UNCHANGED <<source, limit, hist, reuse, model>>

(* Faulty: reset leaves the number of kept histograms. *)
ResetKeepsReuse ==
  /\ phase = "idle"
  /\ source' \in Sources
  /\ pos' = 0 /\ blocks' = 0
  /\ model' = Empty
  /\ phase' = "block"
  /\ UNCHANGED <<limit, hist, reuse, call>>

(* The encoder is used again: reset leaves the histograms as they are.     *)
Reuse ==
  /\ phase = "idle"
  /\ source' \in Sources
  /\ pos' = 0 /\ blocks' = 0
  /\ reuse' = 0
  /\ model' = Empty
  /\ phase' = "block"
  /\ UNCHANGED <<limit, hist, call>>

Encode == Begin \/ Fill \/ First \/ Add \/ Whole \/ Split \/ Settle \/ WriteBlock

Next == Encode \/ Reuse

Spec == Init /\ [][Next]_vars

-----------------------------------------------------------------------------
Phases == {"block", "fill", "sum", "sweep", "compress", "idle"}

(* The types of the variables. *)
TypeOK ==
  /\ source \in Sources
  /\ limit \in Limits
  /\ pos \in 0 .. limit
  /\ blocks \in Nat
  /\ hist \in [Hists -> [Bytes -> Int]]
  /\ reuse \in 0 .. MaxSubdivisions
  /\ model \in [Bytes -> Int]
  /\ call \in [max   : 0 .. MaxBlock,
               count : 0 .. MaxSubdivisions,
               i     : 0 .. MaxSubdivisions,
               left  : [Bytes -> Int],
               right : [Bytes -> Int],
               best  : 0 .. MaxBlock]
  /\ phase \in Phases

(* h counts the bytes from .. to - 1 of the source being compressed, each  *)
(* once, and no other.  The last byte of a subdivision may be missing: it  *)
(* is in no histogram when the subdivision was the last of a full block.   *)
Describes(h, from, to) ==
  \A b \in Bytes :
    IF b[1] = source /\ from <= b[2] /\ b[2] < to
    THEN h[b] = 1 \/ (h[b] = 0 /\ (b[2] + 1 - pos) % SubSize = 0)
    ELSE h[b] = 0

(* A histogram that is kept for the next call, or used in this one, is     *)
(* that of the subdivision it now stands for, in this source               *)
(* (reuseSubdivisions, the copy of the histograms, reset).                 *)
HistogramsCurrent ==
  LET valid == CASE phase = "block" -> reuse
                 [] phase = "fill"  -> call.i
                 [] phase \in {"sum", "sweep"} -> call.count
                 [] OTHER           -> 0
  IN  \A k \in Hists :
        k < valid => Describes(hist[k], pos + k * SubSize,
                               Smaller(pos + (k + 1) * SubSize, limit))

(* The two sides that are compared with the best estimate are together the *)
(* bytes of the best block, so a boundary is taken only if it is better    *)
(* for the same bytes (left.subtract, right.add, right.reset).             *)
SameBytesCompared ==
  phase = "sweep" =>
    Describes(Added(call.left, call.right), pos, pos + call.best)

(* The costs that the optimal parser starts with come from the bytes of    *)
(* the block it parses (bestModel, initialCostModel).                      *)
ModelOfBlock ==
  phase = "compress" => Describes(model, pos, pos + BlockSize)

CompressBound(size) == size + size \div BoundShare + BoundFixed

(* CompressBound is enough also when every block is written raw: no block  *)
(* takes more than its raw form, and the last bytes have a header.         *)
BoundHolds ==
  pos + HeaderSize * blocks + HeaderSize + LastBytes
    <= CompressBound(limit + LastBytes)

(* The sizes are those that Encode needs. *)
Sequence == INSTANCE BlockSequence WITH start <- pos

BlocksTile == Sequence!Spec

=============================================================================
