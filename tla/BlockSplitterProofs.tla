------------------------- MODULE BlockSplitterProofs ------------------------
(***************************************************************************)
(* Proofs about BlockSplitter for any subdivisions and sources.            *)
(***************************************************************************)
EXTENDS BlockSplitter, NaturalLemmas, TLAPS

(* The constants as numbers. *)
LEMMA Constants ==
  /\ MaxSubdivisions \in Nat /\ MaxSubdivisions >= 2
  /\ SubSize \in Nat /\ SubSize >= 1
  /\ MaxSubdivisions * SubSize \in Nat
  /\ MaxBlock \in Nat /\ MaxBlock >= SubSize
  /\ MaxBlock + 1 = MaxSubdivisions * SubSize
<1>1. /\ MaxSubdivisions \in Nat /\ MaxSubdivisions >= 2
      /\ SubSize \in Nat /\ SubSize >= 1
  BY BlockSplitterAssumption
<1>2. 2 * SubSize <= MaxSubdivisions * SubSize /\ MaxSubdivisions * SubSize \in Nat
  BY <1>1, TimesMonotone
<1> QED
  BY <1>1, <1>2 DEF MaxBlock

(* The subdivisions of a block: the last one is not empty. *)
LEMMA CountBounds ==
  ASSUME NEW max \in 1 .. MaxBlock
  PROVE  /\ CountFor(max) \in 1 .. MaxSubdivisions
         /\ (CountFor(max) - 1) * SubSize < max
         /\ max <= CountFor(max) * SubSize
<1> DEFINE x == max + SubSize - 1
           c == x \div SubSize
           r == x % SubSize
<1>1. x \in Nat /\ SubSize \in Nat \ {0}
  BY Constants
<1>2. c \in Nat /\ r \in 0 .. (SubSize - 1) /\ x = SubSize * c + r
  BY <1>1, DivMod
<1>3. c < MaxSubdivisions + 1
  <2>1. SubSize * (MaxSubdivisions + 1) = MaxSubdivisions * SubSize + SubSize
    BY Constants
  <2>2. x < SubSize * (MaxSubdivisions + 1)
    BY <2>1, Constants
  <2> QED
    BY <1>1, <2>2, Constants, DivLess
<1> HIDE DEF c, r
<1>4. c >= 1
  <2>1. CASE c = 0
    <3>1. SubSize * c = 0
      BY <2>1, <1>1
    <3> QED
      BY <1>1, <1>2, <3>1, Constants
  <2> QED
    BY <2>1, <1>2
<1>5. (c - 1) * SubSize < max /\ max <= c * SubSize
  <2>1. /\ (c - 1) * SubSize = SubSize * c - SubSize /\ SubSize * c \in Nat
        /\ c * SubSize = SubSize * c
    BY <1>2, Constants
  <2> QED
    BY <1>2, <2>1, Constants
<1>6. CountFor(max) = c
  BY <1>2, <1>3, <1>4, Constants DEF CountFor, c
<1> QED
  BY <1>2, <1>3, <1>4, <1>5, <1>6, Constants

-----------------------------------------------------------------------------
(* What a call of getBlockSize keeps: the block is not empty, it is the    *)
(* offered one or at least a subdivision, and a boundary that is still to  *)
(* be tried lies inside the offered block.                                 *)
CallOK ==
  /\ phase \in {"fill", "sum", "sweep", "compress"} =>
       /\ pos < limit
       /\ call.max = Offered
       /\ call.count \in 1 .. MaxSubdivisions
       /\ (call.count - 1) * SubSize < call.max
       /\ call.max <= call.count * SubSize
  /\ phase \in {"fill", "sum"} => call.i <= call.count
  /\ phase = "sweep" => call.i <= call.count - 1
  /\ phase \in {"sweep", "compress"} =>
       /\ call.best \in 1 .. call.max
       /\ call.best = call.max \/ call.best >= SubSize

(* Only the block that ends at the limit may be smaller than a             *)
(* subdivision, so there are few blocks.                                   *)
FewBlocks ==
  /\ phase = "block" => pos < limit
  /\ pos < limit => blocks * SubSize <= pos
  /\ blocks * SubSize <= pos + SubSize

IInv == TypeOK /\ CallOK /\ FewBlocks

(* Histograms and their sums and differences are functions on Bytes.       *)
LEMMA HistTypes ==
  /\ Empty \in [Bytes -> Int]
  /\ \A f, g \in [Bytes -> Int] :
       Added(f, g) \in [Bytes -> Int] /\ Subtracted(f, g) \in [Bytes -> Int]
  /\ \A from, to : CountOf(from, to) \in [Bytes -> Int]
BY DEF Empty, Added, Subtracted, CountOf

(* The initial states. *)
LEMMA InitOK == Init => IInv
<1> SUFFICES ASSUME Init PROVE IInv
  OBVIOUS
<1>1. limit \in Nat /\ limit > 0
  BY BlockSplitterAssumption DEF Init
<1>2. Idle \in [max   : 0 .. MaxBlock, count : 0 .. MaxSubdivisions,
                i     : 0 .. MaxSubdivisions, left  : [Bytes -> Int],
                right : [Bytes -> Int], best  : 0 .. MaxBlock]
  BY HistTypes, Constants DEF Idle
<1>3. TypeOK
  BY <1>1, <1>2, HistTypes, Constants DEF Init, TypeOK, Phases
<1>4. CallOK
  BY DEF Init, CallOK
<1>5. FewBlocks
  BY <1>1, Constants DEF Init, FewBlocks
<1> QED
  BY <1>3, <1>4, <1>5 DEF IInv

(* The steps of one call of getBlockSize leave the position alone.         *)
LEMMA BeginOK == IInv /\ Begin => IInv'
<1> SUFFICES ASSUME IInv, Begin PROVE IInv'
  OBVIOUS
<1> DEFINE count == CountFor(Offered)
           kept  == IF reuse > count THEN 0 ELSE reuse
<1>1. limit \in Nat /\ pos \in Nat /\ pos < limit /\ reuse \in 0 .. MaxSubdivisions
  BY BlockSplitterAssumption DEF IInv, TypeOK, Begin
<1>2. Offered \in 1 .. MaxBlock /\ Offered \in 0 .. MaxBlock
  BY <1>1, Constants DEF Offered, Smaller
<1>3. /\ count \in 1 .. MaxSubdivisions
      /\ (count - 1) * SubSize < Offered /\ Offered <= count * SubSize
  BY <1>2, CountBounds
<1>4. kept \in 0 .. MaxSubdivisions /\ kept <= count
  BY <1>1, <1>3, Constants
<1> HIDE DEF count
<1>5. /\ call' = [max |-> Offered, count |-> count, i |-> kept,
                  left |-> Empty, right |-> Empty, best |-> 0]
      /\ reuse' = kept /\ phase' = "fill"
      /\ UNCHANGED <<source, limit, pos, blocks, hist, model>>
  BY DEF Begin, Idle, count
<1> HIDE DEF kept
<1>6. call' \in [max   : 0 .. MaxBlock, count : 0 .. MaxSubdivisions,
                 i     : 0 .. MaxSubdivisions, left  : [Bytes -> Int],
                 right : [Bytes -> Int], best  : 0 .. MaxBlock]
  <2>1. 0 \in 0 .. MaxBlock /\ count \in 0 .. MaxSubdivisions
    BY <1>3, Constants
  <2> QED
    BY <1>2, <1>4, <1>5, <2>1, HistTypes
<1>7. TypeOK'
  BY <1>4, <1>5, <1>6 DEF IInv, TypeOK, Phases
<1>8. Offered' = Offered
  BY <1>5 DEF Offered
<1>9. CallOK'
  BY <1>1, <1>3, <1>4, <1>5, <1>8 DEF CallOK
<1>10. FewBlocks'
  BY <1>5 DEF IInv, FewBlocks
<1> QED
  BY <1>7, <1>9, <1>10 DEF IInv

(* A histogram is filled: IInv stays. *)
LEMMA FillOK == IInv /\ Fill => IInv'
<1> SUFFICES ASSUME IInv, Fill PROVE IInv'
  OBVIOUS
<1> USE DEF IInv
<1>1. call.i + 1 \in 0 .. MaxSubdivisions /\ call.i + 1 <= call.count
  BY Constants DEF TypeOK, CallOK, Fill
<1>2. hist' \in [Hists -> [Bytes -> Int]]
  BY HistTypes DEF Fill, TypeOK
<1>3. call' = [call EXCEPT !.i = call.i + 1]
  BY DEF Fill
<1>4. TypeOK'
  BY <1>1, <1>2, <1>3 DEF TypeOK, Fill
<1>5. CallOK'
  <2>1. Offered' = Offered
    BY DEF Fill, Offered
  <2>2. /\ call'.max = call.max /\ call'.count = call.count /\ call'.i = call.i + 1
    BY <1>3 DEF TypeOK
  <2> QED
    BY <1>1, <2>1, <2>2 DEF CallOK, Fill
<1>6. FewBlocks'
  BY DEF FewBlocks, Fill
<1> QED
  BY <1>4, <1>5, <1>6

(* The sum begins with the first histogram. *)
LEMMA FirstOK == IInv /\ First => IInv'
<1> SUFFICES ASSUME IInv, First PROVE IInv'
  OBVIOUS
<1> USE DEF IInv
<1>1. call' = [call EXCEPT !.i = 1, !.left = hist[0]] /\ phase' = "sum"
  BY DEF First
<1>2. hist[0] \in [Bytes -> Int] /\ 1 \in 0 .. MaxSubdivisions
  <2>1. 0 \in Hists /\ 1 \in 0 .. MaxSubdivisions
    BY Constants DEF Hists
  <2> QED
    BY <2>1 DEF TypeOK
<1>3. TypeOK'
  BY <1>1, <1>2 DEF TypeOK, First, Phases
<1>4. CallOK'
  <2>1. Offered' = Offered
    BY DEF First, Offered
  <2>2. /\ call'.max = call.max /\ call'.count = call.count /\ call'.i = 1
    BY <1>1 DEF TypeOK
  <2> QED
    BY <1>1, <2>1, <2>2, Constants DEF CallOK, First
<1>5. FewBlocks'
  BY DEF FewBlocks, First
<1> QED
  BY <1>3, <1>4, <1>5

(* A subdivision joins the block. *)
LEMMA AddOK == IInv /\ Add => IInv'
<1> SUFFICES ASSUME IInv, Add PROVE IInv'
  OBVIOUS
<1> USE DEF IInv
<1>1. call' = [call EXCEPT !.i = call.i + 1, !.left = Added(call.left, hist[call.i])]
  BY DEF Add
<1>2. call.i + 1 \in 0 .. MaxSubdivisions /\ call.i + 1 <= call.count
  BY Constants DEF TypeOK, CallOK, Add
<1>3. Added(call.left, hist[call.i]) \in [Bytes -> Int]
  <2>1. call.i \in Hists
    BY <1>2, Constants DEF Hists, TypeOK
  <2> QED
    BY <2>1, HistTypes DEF TypeOK
<1>4. TypeOK'
  BY <1>1, <1>2, <1>3 DEF TypeOK, Add
<1>5. CallOK'
  <2>1. Offered' = Offered
    BY DEF Add, Offered
  <2>2. /\ call'.max = call.max /\ call'.count = call.count /\ call'.i = call.i + 1
    BY <1>1 DEF TypeOK
  <2> QED
    BY <1>2, <2>1, <2>2 DEF CallOK, Add
<1>6. FewBlocks'
  BY DEF FewBlocks, Add
<1> QED
  BY <1>4, <1>5, <1>6

(* The undivided block is compared. *)
LEMMA WholeOK == IInv /\ Whole => IInv'
<1> SUFFICES ASSUME IInv, Whole PROVE IInv'
  OBVIOUS
<1> USE DEF IInv
<1>1. call' = [call EXCEPT !.i = call.count - 1, !.best = call.max] /\ phase' = "sweep"
  BY DEF Whole
<1>2. call.count - 1 \in 0 .. MaxSubdivisions /\ call.max \in 1 .. MaxBlock
  <2>1. Offered >= 1
    BY BlockSplitterAssumption, Constants DEF Offered, Smaller, TypeOK, CallOK, Whole
  <2> QED
    BY <2>1, Constants DEF TypeOK, CallOK, Whole
<1>3. TypeOK'
  BY <1>1, <1>2 DEF TypeOK, Whole, Phases
<1>4. CallOK'
  <2>1. Offered' = Offered
    BY DEF Whole, Offered
  <2>2. /\ call'.max = call.max /\ call'.count = call.count
        /\ call'.i = call.count - 1 /\ call'.best = call.max
    BY <1>1 DEF TypeOK
  <2> QED
    BY <1>1, <1>2, <2>1, <2>2, Constants DEF CallOK, Whole
<1>5. FewBlocks'
  BY DEF FewBlocks, Whole
<1> QED
  BY <1>3, <1>4, <1>5

(* A boundary is tried. *)
LEMMA SplitOK == IInv /\ Split => IInv'
<1> SUFFICES ASSUME IInv, Split PROVE IInv'
  OBVIOUS
<1> USE DEF IInv
<1>1. /\ call.i \in Nat /\ call.i > 0 /\ call.i <= call.count - 1
      /\ call.count \in Nat /\ call.count <= MaxSubdivisions
  BY DEF TypeOK, CallOK, Split
<1>2. /\ call.i * SubSize \in Nat /\ call.i * SubSize >= SubSize
      /\ call.i * SubSize < call.max
  <2>1. SubSize <= call.i * SubSize /\ call.i * SubSize \in Nat
    <3>1. 1 * SubSize <= call.i * SubSize /\ call.i * SubSize \in Nat
      BY <1>1, Constants, TimesMonotone
    <3> QED
      BY <3>1, Constants
  <2>2. call.i * SubSize <= (call.count - 1) * SubSize /\ (call.count - 1) * SubSize \in Nat
    <3>1. call.count - 1 \in Nat
      BY <1>1
    <3> QED
      BY <1>1, <3>1, Constants, TimesMonotone
  <2>3. (call.count - 1) * SubSize < call.max /\ call.max \in Nat
    BY DEF TypeOK, CallOK, Split
  <2> QED
    BY <2>1, <2>2, <2>3, Constants
<1>3. PICK better \in BOOLEAN :
        /\ call' = [call EXCEPT !.i = call.i - 1,
                      !.left = Subtracted(call.left, hist[call.i]),
                      !.right = IF better THEN Empty ELSE Added(call.right, hist[call.i]),
                      !.best = IF better THEN call.i * SubSize ELSE call.best]
        /\ model' = IF better THEN Subtracted(call.left, hist[call.i]) ELSE model
  BY DEF Split
<1>4. /\ Subtracted(call.left, hist[call.i]) \in [Bytes -> Int]
      /\ Added(call.right, hist[call.i]) \in [Bytes -> Int]
      /\ Empty \in [Bytes -> Int]
  <2>1. call.i \in Hists
    BY <1>1, Constants DEF Hists
  <2> QED
    BY <2>1, HistTypes DEF TypeOK
<1> DEFINE best == IF better THEN call.i * SubSize ELSE call.best
<1>5. /\ best \in 0 .. MaxBlock /\ best \in 1 .. call.max
      /\ best = call.max \/ best >= SubSize
      /\ call.i - 1 \in 0 .. MaxSubdivisions
  BY <1>1, <1>2, Constants DEF TypeOK, CallOK, Split
<1>6. /\ call' = [max |-> call.max, count |-> call.count, i |-> call.i - 1,
                  left |-> Subtracted(call.left, hist[call.i]),
                  right |-> IF better THEN Empty ELSE Added(call.right, hist[call.i]),
                  best |-> best]
  BY <1>3 DEF TypeOK
<1> HIDE DEF best
<1>7. TypeOK'
  BY <1>3, <1>4, <1>5, <1>6 DEF TypeOK, Split
<1>8. CallOK'
  <2>1. Offered' = Offered
    BY DEF Split, Offered
  <2>2. /\ call'.max = call.max /\ call'.count = call.count
        /\ call'.i = call.i - 1 /\ call'.best = best
    BY <1>6
  <2> QED
    BY <1>1, <1>5, <2>1, <2>2 DEF CallOK, Split
<1>9. FewBlocks'
  BY DEF FewBlocks, Split
<1> QED
  BY <1>7, <1>8, <1>9

(* The boundary is settled, the rest is kept. *)
LEMMA SettleOK == IInv /\ Settle => IInv'
<1> SUFFICES ASSUME IInv, Settle PROVE IInv'
  OBVIOUS
<1> USE DEF IInv
<1> DEFINE used == call.best \div SubSize
<1>1. /\ call.best \in Nat /\ call.best <= call.count * SubSize
      /\ call.count \in Nat /\ call.count <= MaxSubdivisions
      /\ call.count * SubSize \in Nat
  BY Constants DEF TypeOK, CallOK, Settle
<1>2. used \in Nat /\ used <= call.count
  <2>1. SubSize * (call.count + 1) = call.count * SubSize + SubSize
    BY <1>1, Constants
  <2>2. call.best < SubSize * (call.count + 1)
    BY <1>1, <2>1, Constants
  <2>3. SubSize \in Nat \ {0} /\ call.count + 1 \in Nat
    BY <1>1, Constants
  <2>4. used \in Nat /\ used < call.count + 1
    BY <1>1, <2>2, <2>3, DivMod, DivLess
  <2> QED
    BY <1>1, <2>4
<1> HIDE DEF used
<1>3. MovedFront(used, call.count) \in [Hists -> [Bytes -> Int]]
  <2>1. ASSUME NEW k \in Hists, k < call.count - used PROVE k + used \in Hists
    BY <1>1, <1>2, <2>1, Constants DEF Hists
  <2> QED
    BY <2>1 DEF MovedFront, TypeOK
<1>4. /\ hist' \in [Hists -> [Bytes -> Int]]
      /\ reuse' \in 0 .. MaxSubdivisions
  <2>1. call.count - used \in 0 .. MaxSubdivisions /\ 0 \in 0 .. MaxSubdivisions
    BY <1>1, <1>2, Constants
  <2> QED
    BY <1>3, <2>1 DEF Settle, TypeOK, used
<1>5. TypeOK'
  BY <1>4 DEF TypeOK, Settle, Phases
<1>6. CallOK'
  <2>1. Offered' = Offered
    BY DEF Settle, Offered
  <2> QED
    BY <2>1 DEF CallOK, Settle
<1>7. FewBlocks'
  BY DEF FewBlocks, Settle
<1> QED
  BY <1>5, <1>6, <1>7

(* A block that is written is not empty, does not pass the limit, and is   *)
(* smaller than a subdivision only at the limit.                           *)
LEMMA BlockFits ==
  ASSUME IInv, phase = "compress"
  PROVE  /\ BlockSize \in 1 .. MaxBlock
         /\ pos + BlockSize \in 1 .. limit
         /\ BlockSize >= SubSize \/ pos + BlockSize = limit
         /\ limit \in Nat /\ pos \in Nat /\ pos < limit
<1>1. limit \in Nat /\ pos \in Nat /\ pos < limit
  BY BlockSplitterAssumption DEF IInv, TypeOK, CallOK
<1>2. /\ call.max = Offered
      /\ call.best \in 1 .. call.max
      /\ call.best = call.max \/ call.best >= SubSize
  BY DEF IInv, CallOK
<1>3. BlockSize = call.best
  BY <1>1, <1>2, Constants DEF BlockSize, Offered, Smaller
<1> QED
  BY <1>1, <1>2, <1>3, Constants DEF Offered, Smaller

(* The block is written. *)
LEMMA WriteBlockOK == IInv /\ WriteBlock => IInv'
<1> SUFFICES ASSUME IInv, WriteBlock PROVE IInv'
  OBVIOUS
<1>1. /\ BlockSize \in 1 .. MaxBlock
      /\ pos + BlockSize \in 1 .. limit
      /\ BlockSize >= SubSize \/ pos + BlockSize = limit
      /\ limit \in Nat /\ pos \in Nat /\ pos < limit
  BY BlockFits DEF WriteBlock
<1>2. pos' = pos + BlockSize /\ blocks' = blocks + 1 /\ limit' = limit
  BY DEF WriteBlock
<1>3. Idle \in [max   : 0 .. MaxBlock, count : 0 .. MaxSubdivisions,
                i     : 0 .. MaxSubdivisions, left  : [Bytes -> Int],
                right : [Bytes -> Int], best  : 0 .. MaxBlock]
  BY HistTypes, Constants DEF Idle
<1>4. TypeOK'
  <2>1. pos' \in 0 .. limit'
    BY <1>1, <1>2
  <2> HIDE DEF Idle
  <2> QED
    BY <1>2, <1>3, <2>1 DEF IInv, TypeOK, WriteBlock, Phases
<1>5. CallOK'
  BY DEF WriteBlock, CallOK
<1>6. FewBlocks'
  <2>1. blocks \in Nat /\ blocks * SubSize <= pos
    BY <1>1 DEF IInv, TypeOK, FewBlocks
  <2>2. (blocks + 1) * SubSize = blocks * SubSize + SubSize /\ blocks * SubSize \in Nat
    BY <2>1, Constants
  <2>3. /\ pos' < limit' => blocks' * SubSize <= pos'
        /\ blocks' * SubSize <= pos' + SubSize
    BY <1>1, <1>2, <2>1, <2>2, Constants
  <2>4. phase' = "block" => pos' < limit'
    BY <1>2 DEF WriteBlock
  <2> QED
    BY <2>3, <2>4 DEF FewBlocks
<1> QED
  BY <1>4, <1>5, <1>6 DEF IInv

(* The next source begins. *)
LEMMA ReuseOK == IInv /\ Reuse => IInv'
<1> SUFFICES ASSUME IInv, Reuse PROVE IInv'
  OBVIOUS
<1>1. limit \in Nat /\ limit > 0
  BY BlockSplitterAssumption DEF IInv, TypeOK
<1>2. TypeOK'
  BY <1>1, HistTypes, Constants DEF IInv, TypeOK, Reuse, Phases
<1>3. CallOK'
  BY DEF Reuse, CallOK
<1>4. FewBlocks'
  BY <1>1, Constants DEF Reuse, FewBlocks
<1> QED
  BY <1>2, <1>3, <1>4 DEF IInv

(* Every reachable state satisfies the invariant. *)
LEMMA Inductive == Spec => []IInv
<1>1. IInv /\ UNCHANGED vars => IInv'
  BY DEF vars, IInv, TypeOK, CallOK, FewBlocks, Offered
<1>2. IInv /\ [Next]_vars => IInv'
  BY <1>1, BeginOK, FillOK, FirstOK, AddOK, WholeOK, SplitOK, SettleOK,
     WriteBlockOK, ReuseOK DEF Next, Encode
<1> QED
  BY <1>2, InitOK, PTL DEF Spec

-----------------------------------------------------------------------------
(* Every variable of the splitter and of the loop of Encode keeps its type *)
(* (getBlockSize, Encode).                                                 *)
THEOREM SplitterTypes == Spec => []TypeOK
<1>1. IInv => TypeOK
  BY DEF IInv
<1> QED
  BY <1>1, Inductive, PTL

(* The blocks of a source tile it up to the limit: getBlockSize returns a  *)
(* size that Encode can use, whatever the estimates say.                   *)
THEOREM SplitterTiles == Spec => BlocksTile
<1>1. Init => Sequence!Init
  BY DEF Init, Sequence!Init
<1>2. IInv /\ [Next]_vars => [Sequence!Next]_<<pos, limit>>
  <2> SUFFICES ASSUME IInv, [Next]_vars PROVE [Sequence!Next]_<<pos, limit>>
    OBVIOUS
  <2>1. CASE WriteBlock
    <3>1. /\ BlockSize \in 1 .. MaxBlock
          /\ pos + BlockSize \in 1 .. limit
          /\ limit \in Nat /\ pos \in Nat /\ pos < limit
      BY <2>1, BlockFits DEF WriteBlock
    <3>2. pos' = pos + BlockSize /\ limit' = limit
      BY <2>1 DEF WriteBlock
    <3>3. Sequence!Block
      BY <3>1, <3>2, Constants DEF Sequence!Block
    <3> QED
      BY <3>3 DEF Sequence!Next
  <2>2. CASE Reuse
    BY SMTT(60), <2>2 DEF Reuse, Sequence!Next, Sequence!Restart
  <2>3. CASE Begin \/ Fill \/ First \/ Add \/ Whole \/ Split \/ Settle \/ UNCHANGED vars
    BY <2>3 DEF Begin, Fill, First, Add, Whole, Split, Settle, vars
  <2> QED
    BY <2>1, <2>2, <2>3 DEF Next, Encode
<1> QED
  BY <1>1, <1>2, Inductive, PTL DEF Spec, BlocksTile, Sequence!Spec

(* A quotient is at least every number of which the divisor's multiple     *)
(* fits the dividend.                                                      *)
LEMMA DivAtLeast ==
  ASSUME NEW x \in Nat, NEW r \in Nat \ {0}, NEW m \in Nat, m * r <= x
  PROVE  m <= x \div r
<1> DEFINE q == x \div r
           a == x % r
<1>1. q \in Nat /\ a \in 0 .. (r - 1) /\ x = r * q + a
  BY DivMod
<1> HIDE DEF q, a
<1>2. SUFFICES ASSUME q + 1 <= m PROVE FALSE
  BY <1>1 DEF q
<1>3. (q + 1) * r <= m * r /\ (q + 1) * r = r * q + r
  BY <1>1, <1>2, TimesMonotone
<1>4. r * q \in Nat /\ m * r \in Nat
  BY <1>1
<1> QED
  BY <1>1, <1>3, <1>4

(* The output of Encode fits CompressBound even if every block is written  *)
(* raw, however small the splitter makes the blocks (CompressBound,        *)
(* api.go).                                                                *)
THEOREM SplitterBound == Spec => []BoundHolds
<1>1. IInv => BoundHolds
  <2> SUFFICES ASSUME IInv PROVE BoundHolds
    OBVIOUS
  <2> DEFINE size  == limit + LastBytes
             share == size \div BoundShare
             b     == blocks - 1
  <2>1. /\ limit \in Nat /\ pos \in Nat /\ pos <= limit /\ blocks \in Nat
        /\ blocks * SubSize <= pos + SubSize
    BY BlockSplitterAssumption DEF IInv, TypeOK, FewBlocks
  <2>2. /\ LastBytes \in Nat /\ HeaderSize \in Nat /\ BoundFixed \in Nat
        /\ BoundShare \in Nat \ {0} /\ HeaderSize * BoundShare <= SubSize
        /\ 2 * HeaderSize <= BoundFixed /\ size \in Nat
    BY <2>1, BlockSplitterAssumption
  <2>3. share \in Nat
    BY <2>2, DivMod
  <2>4. HeaderSize * blocks <= share + HeaderSize
    <3>1. CASE blocks = 0
      <4>1. HeaderSize * blocks = 0
        BY <3>1, <2>2
      <4> HIDE DEF share
      <4> QED
        BY <4>1, <2>2, <2>3
    <3>2. CASE blocks # 0
      <4>1. b \in Nat /\ blocks = b + 1
        BY <3>2, <2>1
      <4> HIDE DEF b
      <4>2. b * SubSize <= pos /\ b * SubSize \in Nat
        <5>1. blocks * SubSize = b * SubSize + SubSize /\ b * SubSize \in Nat
          BY <4>1, Constants
        <5> QED
          BY <5>1, <2>1, Constants
      <4>3. /\ (HeaderSize * BoundShare) * b \in Nat
            /\ (HeaderSize * BoundShare) * b <= SubSize * b
        BY <2>2, <4>1, Constants, TimesMonotone
      <4>4. /\ (b * HeaderSize) * BoundShare = (HeaderSize * BoundShare) * b
            /\ SubSize * b = b * SubSize
            /\ b * HeaderSize \in Nat
        BY <2>2, <4>1, Constants
      <4>5. (b * HeaderSize) * BoundShare <= size
        BY <2>1, <2>2, <4>2, <4>3, <4>4
      <4>6. b * HeaderSize <= share
        BY <2>2, <4>4, <4>5, DivAtLeast
      <4>7. HeaderSize * blocks = b * HeaderSize + HeaderSize
        BY <2>2, <4>1
      <4> HIDE DEF share
      <4> QED
        BY <2>2, <2>3, <4>4, <4>6, <4>7
    <3> QED
      BY <3>1, <3>2
  <2>5. HeaderSize * blocks \in Nat
    BY <2>1, <2>2
  <2> HIDE DEF share
  <2>6. pos + HeaderSize * blocks + HeaderSize + LastBytes <= size + share + BoundFixed
    BY <2>1, <2>2, <2>3, <2>4, <2>5
  <2> QED
    BY <2>6 DEF BoundHolds, CompressBound, share
<1> QED
  BY <1>1, Inductive, PTL

-----------------------------------------------------------------------------
(* The bytes behind the histograms.  Subdivision k of a block that starts  *)
(* at p has the bytes p + From(k) .. p + To(p, k) - 1.                     *)
From(k)      == k * SubSize
OfferedAt(p) == Smaller(MaxBlock, limit - p)
To(p, k)     == Smaller(From(k + 1), OfferedAt(p))

(* Describes, for a block that starts at p.                                *)
DescribesAt(p, h, from, to) ==
  \A b \in Bytes :
    IF b[1] = source /\ from <= b[2] /\ b[2] < to
    THEN h[b] = 1 \/ (h[b] = 0 /\ (b[2] + 1 - p) % SubSize = 0)
    ELSE h[b] = 0

OfPart(p, h, k) == DescribesAt(p, h, p + From(k), p + To(p, k))

(* The first n histograms are those of the first n subdivisions at p.      *)
PartsAt(p, n) == \A k \in Hists : k < n => OfPart(p, hist[k], k)

(* h is the first n histograms put together.                               *)
Joined(h, n) ==
  \A b \in Bytes :
    /\ \A k \in 0 .. (n - 1) :
         (b[1] = source /\ pos + From(k) <= b[2] /\ b[2] < pos + From(k + 1))
           => h[b] = hist[k][b]
    /\ ~(b[1] = source /\ pos <= b[2] /\ b[2] < pos + From(n)) => h[b] = 0

(* The block of the first n subdivisions is the best so far, and the two   *)
(* sides that are compared with it have its bytes.                         *)
BestIs(n) ==
  /\ call.best = From(n) \/ (n = call.count /\ call.best = call.max)
  /\ Joined(Added(call.left, call.right), n)
  /\ Joined(model, n)

(* The histograms that are kept are current, and serve again after the     *)
(* block; the sums are those of the subdivisions behind them.              *)
BytesInv ==
  /\ reuse < MaxSubdivisions
  /\ phase = "block" => PartsAt(pos, reuse)
  /\ phase = "fill" => PartsAt(pos, call.i) /\ call.right = Empty
  /\ phase = "sum" => /\ PartsAt(pos, call.count) /\ call.right = Empty
                      /\ Joined(call.left, call.i) /\ call.i >= 1
  /\ phase = "sweep" => /\ PartsAt(pos, call.count)
                        /\ Joined(call.left, call.i + 1)
                        /\ \E n \in 1 .. call.count : BestIs(n)
  /\ phase = "compress" => /\ PartsAt(pos + call.best, reuse)
                           /\ Describes(model, pos, pos + call.best)

(* Where the subdivisions begin.                                           *)
LEMMA FromFacts ==
  ASSUME NEW k \in Nat
  PROVE  /\ From(k) \in Nat /\ From(0) = 0 /\ From(k + 1) = From(k) + SubSize
         /\ From(k + 1) \in Nat
         /\ \A j \in Nat : j <= k => From(j) \in Nat /\ From(j) <= From(k)
         /\ \A j \in Nat : j < k => From(j + 1) <= From(k)
<1>0. SubSize \in Nat
  BY Constants
<1>1. From(k) \in Nat /\ From(0) = 0 /\ From(k + 1) = From(k) + SubSize
  BY <1>0 DEF From
<1>2. ASSUME NEW j \in Nat, j <= k
      PROVE  From(j) \in Nat /\ From(j) <= From(k)
  BY <1>0, <1>2, TimesMonotone DEF From
<1>3. ASSUME NEW j \in Nat, j < k
      PROVE  From(j + 1) <= From(k)
  <2>1. j + 1 \in Nat /\ j + 1 <= k
    BY <1>3
  <2> QED
    BY <2>1, <1>2
<1>4. From(k + 1) \in Nat
  BY <1>0, <1>1
<1> QED
  BY <1>1, <1>2, <1>3, <1>4

(* The bytes are those of the sources.                                     *)
LEMMA ByteTyped ==
  ASSUME NEW b \in Bytes
  PROVE  b[2] \in Nat
<1>1. b[2] \in Positions
  BY DEF Bytes
<1>2. PICK l \in Limits : b[2] \in 0 .. (l - 1)
  BY <1>1 DEF Positions
<1> QED
  BY <1>2, BlockSplitterAssumption

(* The offered size, and the ends of its parts.                            *)
LEMMA ToFacts ==
  ASSUME NEW p \in Nat, limit \in Nat, p <= limit, NEW k \in Nat
  PROVE  /\ OfferedAt(p) \in Nat /\ OfferedAt(p) <= MaxBlock /\ OfferedAt(p) <= limit - p
         /\ OfferedAt(p) = MaxBlock \/ OfferedAt(p) = limit - p
         /\ To(p, k) \in Nat /\ To(p, k) <= From(k + 1) /\ To(p, k) <= OfferedAt(p)
         /\ To(p, k) = From(k + 1) \/ To(p, k) = OfferedAt(p)
<1>1. MaxBlock \in Nat /\ limit - p \in Nat
  BY Constants
<1>2. /\ OfferedAt(p) \in Nat /\ OfferedAt(p) <= MaxBlock /\ OfferedAt(p) <= limit - p
      /\ OfferedAt(p) = MaxBlock \/ OfferedAt(p) = limit - p
  BY <1>1 DEF OfferedAt, Smaller
<1>3. From(k + 1) \in Nat
  BY FromFacts
<1>4. /\ To(p, k) \in Nat /\ To(p, k) <= From(k + 1) /\ To(p, k) <= OfferedAt(p)
      /\ To(p, k) = From(k + 1) \/ To(p, k) = OfferedAt(p)
  <2> HIDE DEF OfferedAt
  <2> QED
    BY <1>2, <1>3 DEF To, Smaller
<1> QED
  BY <1>2, <1>4

(* A byte that ends a subdivision may be added to what is described.       *)
LEMMA Widen ==
  ASSUME NEW p \in Nat, NEW h, NEW from \in Nat, NEW to \in Nat, DescribesAt(p, h, from, to),
         (to + 1 - p) % SubSize = 0
  PROVE  DescribesAt(p, h, from, to + 1)
<1> SUFFICES ASSUME NEW b \in Bytes
             PROVE  IF b[1] = source /\ from <= b[2] /\ b[2] < to + 1
                    THEN h[b] = 1 \/ (h[b] = 0 /\ (b[2] + 1 - p) % SubSize = 0)
                    ELSE h[b] = 0
  BY DEF DescribesAt
<1>1. IF b[1] = source /\ from <= b[2] /\ b[2] < to
      THEN h[b] = 1 \/ (h[b] = 0 /\ (b[2] + 1 - p) % SubSize = 0)
      ELSE h[b] = 0
  BY DEF DescribesAt
<1>2. b[2] \in Nat
  BY ByteTyped
<1>3. CASE b[1] = source /\ from <= b[2] /\ b[2] < to
  BY <1>1, <1>2, <1>3
<1>4. CASE ~(b[1] = source /\ from <= b[2] /\ b[2] < to)
  <2>1. h[b] = 0
    BY <1>1, <1>4
  <2>2. (b[1] = source /\ from <= b[2] /\ b[2] < to + 1) => b[2] = to
    BY <1>2, <1>4
  <2>3. b[2] = to => (b[2] + 1 - p) % SubSize = 0
    OBVIOUS
  <2> QED
    BY <2>1, <2>2, <2>3
<1> QED
  BY <1>3, <1>4

(* A part is described for any block that starts a whole number of         *)
(* subdivisions before.                                                    *)
LEMMA Rebase ==
  ASSUME NEW p \in Nat, NEW m \in Nat, NEW h, NEW from \in Nat, NEW to \in Nat,
         DescribesAt(p, h, from, to), p + From(m) <= from
  PROVE  DescribesAt(p + From(m), h, from, to)
<1>0. From(m) \in Nat /\ SubSize \in Nat \ {0} /\ From(m) = m * SubSize
  BY FromFacts, Constants DEF From
<1> SUFFICES ASSUME NEW b \in Bytes, b[1] = source, from <= b[2], b[2] < to,
                    (b[2] + 1 - p) % SubSize = 0
             PROVE  (b[2] + 1 - (p + From(m))) % SubSize = 0
  BY DEF DescribesAt
<1>1. b[2] \in Nat
  BY ByteTyped
<1> DEFINE x == b[2] + 1 - p
           y == b[2] + 1 - (p + From(m))
<1>2. x \in Nat /\ y \in Nat /\ x = y + m * SubSize /\ x % SubSize = 0
  BY <1>0, <1>1
<1> HIDE DEF x, y
<1>3. y % SubSize = x % SubSize
  BY ZenonT(60), <1>0, <1>2, ModMultiple
<1> QED
  BY <1>2, <1>3 DEF y

(* A byte of a block is in one of its subdivisions.                        *)
LEMMA PartOf ==
  ASSUME NEW n \in Nat, NEW x \in Nat, x < From(n)
  PROVE  \E k \in 0 .. (n - 1) : From(k) <= x /\ x < From(k + 1)
<1> DEFINE k == x \div SubSize
           a == x % SubSize
<1>0. SubSize \in Nat \ {0}
  BY Constants
<1>1. k \in Nat /\ a \in 0 .. (SubSize - 1) /\ x = SubSize * k + a
  BY <1>0, DivMod
<1> HIDE DEF k, a
<1>2. SubSize * k = From(k)
  BY <1>0, <1>1 DEF From
<1>3. From(k) <= x /\ x < From(k + 1) /\ From(k) \in Nat
  <2>1. From(k) \in Nat /\ From(k + 1) = From(k) + SubSize
    BY <1>1, FromFacts
  <2>2. x = From(k) + a
    BY <1>1, <1>2
  <2> QED
    BY <2>1, <2>2, <1>0, <1>1
<1>4. k < n
  <2>1. SUFFICES ASSUME n <= k
                 PROVE  FALSE
    BY <1>1
  <2>2. From(n) \in Nat /\ From(n) <= From(k)
    BY <1>1, <2>1, FromFacts
  <2> QED
    BY <2>2, <1>3
<1>5. k \in 0 .. (n - 1)
  BY <1>1, <1>4
<1> QED
  BY <1>3, <1>5

(* Outside of its part a histogram counts nothing.                         *)
LEMMA NoneOutside ==
  ASSUME NEW p \in Nat, limit \in Nat, p <= limit, NEW h, NEW k \in Nat, OfPart(p, h, k),
         NEW b \in Bytes,
         ~(b[1] = source /\ p + From(k) <= b[2] /\ b[2] < p + From(k + 1))
  PROVE  h[b] = 0
<1>1. To(p, k) <= From(k + 1) /\ To(p, k) \in Nat /\ From(k + 1) \in Nat
  BY ToFacts, FromFacts
<1>2. b[2] \in Nat
  BY ByteTyped
<1>3. ~(b[1] = source /\ p + From(k) <= b[2] /\ b[2] < p + To(p, k))
  BY <1>1, <1>2
<1> QED
  BY <1>3 DEF OfPart, DescribesAt

(* What is joined grows by the next histogram.                             *)
LEMMA JoinNext ==
  ASSUME pos \in Nat, limit \in Nat, pos <= limit, NEW n \in Nat, NEW h \in [Bytes -> Int],
         hist[n] \in [Bytes -> Int], Joined(h, n), OfPart(pos, hist[n], n)
  PROVE  Joined(Added(h, hist[n]), n + 1)
<1> DEFINE g == Added(h, hist[n])
<1>1. /\ From(n) \in Nat /\ From(n + 1) \in Nat /\ From(n) <= From(n + 1)
      /\ \A k \in 0 .. (n - 1) : From(k + 1) \in Nat /\ From(k + 1) <= From(n)
  BY FromFacts, Constants
<1>2. ASSUME NEW b \in Bytes
      PROVE  g[b] = h[b] + hist[n][b] /\ h[b] \in Int /\ hist[n][b] \in Int /\ b[2] \in Nat
  BY ByteTyped DEF Added
<1> HIDE DEF g
<1>3. ASSUME NEW b \in Bytes, NEW k \in 0 .. n, b[1] = source,
             pos + From(k) <= b[2], b[2] < pos + From(k + 1)
      PROVE  g[b] = hist[k][b]
  <2>1. CASE k = n
    <3>1. ~(b[1] = source /\ pos <= b[2] /\ b[2] < pos + From(n))
      BY <1>1, <1>2, <1>3, <2>1
    <3>2. h[b] = 0
      BY <3>1 DEF Joined
    <3> QED
      BY <3>2, <2>1, <1>2
  <2>2. CASE k # n
    <3>1. k \in 0 .. (n - 1)
      BY <2>2
    <3>2. ~(pos + From(n) <= b[2])
      BY <3>1, <1>1, <1>2, <1>3
    <3>3. hist[n][b] = 0
      BY <3>2, NoneOutside
    <3>4. h[b] = hist[k][b]
      BY <3>1, <1>3 DEF Joined
    <3> QED
      BY <3>3, <3>4, <1>2
  <2> QED
    BY <2>1, <2>2
<1>4. ASSUME NEW b \in Bytes, ~(b[1] = source /\ pos <= b[2] /\ b[2] < pos + From(n + 1))
      PROVE  g[b] = 0
  <2>1. ~(b[1] = source /\ pos <= b[2] /\ b[2] < pos + From(n))
    BY <1>1, <1>2, <1>4
  <2>2. h[b] = 0
    BY <2>1 DEF Joined
  <2>3. ~(b[1] = source /\ pos + From(n) <= b[2] /\ b[2] < pos + From(n + 1))
    BY <1>1, <1>2, <1>4
  <2>4. hist[n][b] = 0
    BY <2>3, NoneOutside
  <2> QED
    BY <2>2, <2>4, <1>2
<1>5. (n + 1) - 1 = n
  OBVIOUS
<1> QED
  BY <1>3, <1>4, <1>5 DEF Joined, g

(* What is joined shrinks by its last histogram.                           *)
LEMMA JoinLess ==
  ASSUME pos \in Nat, limit \in Nat, pos <= limit, NEW n \in Nat, NEW h \in [Bytes -> Int],
         hist[n] \in [Bytes -> Int], Joined(h, n + 1), OfPart(pos, hist[n], n)
  PROVE  Joined(Subtracted(h, hist[n]), n)
<1> DEFINE g == Subtracted(h, hist[n])
<1>1. /\ From(n) \in Nat /\ From(n + 1) \in Nat /\ From(n) <= From(n + 1)
      /\ \A k \in 0 .. (n - 1) : From(k + 1) \in Nat /\ From(k + 1) <= From(n)
  BY FromFacts, Constants
<1>2. ASSUME NEW b \in Bytes
      PROVE  g[b] = h[b] - hist[n][b] /\ h[b] \in Int /\ hist[n][b] \in Int /\ b[2] \in Nat
  BY ByteTyped DEF Subtracted
<1> HIDE DEF g
<1>3. ASSUME NEW b \in Bytes, NEW k \in 0 .. (n - 1), b[1] = source,
             pos + From(k) <= b[2], b[2] < pos + From(k + 1)
      PROVE  g[b] = hist[k][b]
  <2>1. ~(pos + From(n) <= b[2])
    BY <1>1, <1>2, <1>3
  <2>2. hist[n][b] = 0
    BY <2>1, NoneOutside
  <2>3. k \in 0 .. ((n + 1) - 1)
    OBVIOUS
  <2>4. h[b] = hist[k][b]
    BY <2>3, <1>3 DEF Joined
  <2> QED
    BY <2>2, <2>4, <1>2
<1>4. ASSUME NEW b \in Bytes, ~(b[1] = source /\ pos <= b[2] /\ b[2] < pos + From(n))
      PROVE  g[b] = 0
  <2>1. CASE b[1] = source /\ pos + From(n) <= b[2] /\ b[2] < pos + From(n + 1)
    <3>1. n \in 0 .. ((n + 1) - 1)
      OBVIOUS
    <3>2. h[b] = hist[n][b]
      BY <3>1, <2>1 DEF Joined
    <3> QED
      BY <3>2, <1>2
  <2>2. CASE ~(b[1] = source /\ pos + From(n) <= b[2] /\ b[2] < pos + From(n + 1))
    <3>1. hist[n][b] = 0
      BY <2>2, NoneOutside
    <3>2. ~(b[1] = source /\ pos <= b[2] /\ b[2] < pos + From(n + 1))
      BY <2>2, <1>1, <1>2, <1>4
    <3>3. h[b] = 0
      BY <3>2 DEF Joined
    <3> QED
      BY <3>1, <3>3, <1>2
  <2> QED
    BY <2>1, <2>2
<1> QED
  BY <1>3, <1>4 DEF Joined, g

(* Subdivisions begin at multiples of their size.                          *)
LEMMA FromMultiple ==
  ASSUME NEW n \in Nat
  PROVE  From(n) % SubSize = 0 /\ From(n) \div SubSize = n
<1>0. SubSize \in Nat \ {0} /\ 0 \in Nat /\ 0 \in 0 .. (SubSize - 1)
  BY Constants
<1>1. (0 + n * SubSize) % SubSize = 0 % SubSize /\ (n * SubSize) \div SubSize = n
  BY <1>0, ModMultiple
<1>2. 0 % SubSize = 0
  BY <1>0, ModSmall
<1>3. 0 + n * SubSize = n * SubSize
  BY <1>0
<1> QED
  BY <1>1, <1>2, <1>3 DEF From

(* What is joined does not depend on the histograms behind it.             *)
LEMMA JoinSame ==
  ASSUME NEW h, NEW n, Joined(h, n), NEW g, \A b \in Bytes : g[b] = h[b]
  PROVE  Joined(g, n)
BY Zenon DEF Joined

(* The joined histograms of a block describe its bytes.                    *)
LEMMA JoinDescribes ==
  ASSUME pos \in Nat, limit \in Nat, pos <= limit, NEW count \in 1 .. MaxSubdivisions,
         PartsAt(pos, count), OfferedAt(pos) <= From(count),
         NEW n \in 1 .. count, NEW h, Joined(h, n), NEW best \in Nat,
         best <= OfferedAt(pos), best = From(n) \/ (n = count /\ best = OfferedAt(pos))
  PROVE  Describes(h, pos, pos + best)
<1>0. /\ count \in Nat /\ n \in Nat /\ best <= From(n) /\ From(n) \in Nat
      /\ MaxSubdivisions \in Nat
  <2>1. count \in Nat /\ n \in Nat /\ MaxSubdivisions \in Nat
    BY Constants
  <2>2. From(n) \in Nat
    BY <2>1, FromFacts
  <2>3. best <= From(n)
    BY <2>2
  <2> QED
    BY <2>1, <2>2, <2>3
<1>1. ASSUME NEW b \in Bytes, b[1] = source, pos <= b[2], b[2] < pos + From(n)
      PROVE  /\ b[2] < pos + best =>
                  h[b] = 1 \/ (h[b] = 0 /\ (b[2] + 1 - pos) % SubSize = 0)
             /\ ~(b[2] < pos + best) => h[b] = 0
  <2> DEFINE x == b[2] - pos
  <2>1. x \in Nat /\ x < From(n) /\ b[2] \in Nat
    BY ByteTyped, <1>0, <1>1
  <2>2. PICK k \in 0 .. (n - 1) : From(k) <= x /\ x < From(k + 1)
    BY <1>0, <2>1, PartOf
  <2>3. k \in Hists /\ k < count /\ k \in Nat
    BY <1>0 DEF Hists
  <2>4. OfPart(pos, hist[k], k)
    BY <2>3 DEF PartsAt
  <2>5. /\ From(k) \in Nat /\ From(k + 1) \in Nat
        /\ To(pos, k) \in Nat /\ To(pos, k) <= OfferedAt(pos) /\ OfferedAt(pos) \in Nat
        /\ To(pos, k) = From(k + 1) \/ To(pos, k) = OfferedAt(pos)
    BY <2>3, FromFacts, ToFacts
  <2>6. pos + From(k) <= b[2] /\ b[2] < pos + From(k + 1)
    BY <2>1, <2>2, <2>5
  <2>7. h[b] = hist[k][b]
    BY <1>1, <2>6 DEF Joined
  <2>8. IF b[2] < pos + To(pos, k)
        THEN hist[k][b] = 1 \/ (hist[k][b] = 0 /\ (b[2] + 1 - pos) % SubSize = 0)
        ELSE hist[k][b] = 0
    BY <1>1, <2>4, <2>6 DEF OfPart, DescribesAt
  <2>9. b[2] < pos + best => b[2] < pos + To(pos, k)
    BY <2>1, <2>5, <2>6
  <2>10. ~(b[2] < pos + best) => ~(b[2] < pos + To(pos, k))
    BY <1>0, <1>1, <2>1, <2>5
  <2> QED
    BY <2>7, <2>8, <2>9, <2>10
<1>2. ASSUME NEW b \in Bytes, ~(b[1] = source /\ pos <= b[2] /\ b[2] < pos + From(n))
      PROVE  h[b] = 0 /\ ~(b[1] = source /\ pos <= b[2] /\ b[2] < pos + best)
  <2>1. h[b] = 0
    BY <1>2 DEF Joined
  <2>2. b[2] \in Nat
    BY ByteTyped
  <2> QED
    BY <2>1, <2>2, <1>0, <1>2
<1> SUFFICES ASSUME NEW b \in Bytes
             PROVE  IF b[1] = source /\ pos <= b[2] /\ b[2] < pos + best
                    THEN h[b] = 1 \/ (h[b] = 0 /\ (b[2] + 1 - pos) % SubSize = 0)
                    ELSE h[b] = 0
  BY DEF Describes
<1>3. CASE b[1] = source /\ pos <= b[2] /\ b[2] < pos + From(n)
  BY <1>1, <1>3
<1>4. CASE ~(b[1] = source /\ pos <= b[2] /\ b[2] < pos + From(n))
  BY <1>2, <1>4
<1> QED
  BY <1>3, <1>4

(* A part is described up to the next subdivision or the limit.            *)
LEMMA PartCurrent ==
  ASSUME pos \in Nat, limit \in Nat, pos <= limit, NEW k \in Hists, NEW h,
         OfPart(pos, h, k)
  PROVE  Describes(h, pos + k * SubSize, Smaller(pos + (k + 1) * SubSize, limit))
<1> DEFINE f == From(k)
           t == From(k + 1)
           e == To(pos, k)
           m == OfferedAt(pos)
<1>0. /\ k \in Nat /\ k + 1 \in Nat /\ k + 1 <= MaxSubdivisions /\ MaxSubdivisions \in Nat
      /\ f = k * SubSize /\ t = (k + 1) * SubSize /\ MaxBlock + 1 = From(MaxSubdivisions)
  BY Constants DEF Hists, From
<1>1. f \in Nat /\ t \in Nat /\ t <= MaxBlock + 1
  BY <1>0, FromFacts
<1>2. /\ m \in Nat /\ m <= MaxBlock /\ m <= limit - pos
      /\ m = MaxBlock \/ m = limit - pos
      /\ e \in Nat /\ e <= t /\ e <= m
      /\ e = t \/ e = m
  BY <1>0, ToFacts
<1>3. MaxBlock \in Nat
  BY Constants
<1>4. DescribesAt(pos, h, pos + f, pos + e)
  BY DEF OfPart
<1>5. t % SubSize = 0
  BY <1>0, FromMultiple
<1> HIDE DEF f, t, e, m
<1> DEFINE to == Smaller(pos + t, limit)
<1>6. to = pos + e \/ (to = pos + e + 1 /\ pos + e + 1 = pos + t)
  BY <1>1, <1>2, <1>3 DEF Smaller
<1>7. DescribesAt(pos, h, pos + f, to)
  <2>1. CASE to = pos + e
    BY <2>1, <1>4
  <2>2. CASE to = pos + e + 1 /\ pos + e + 1 = pos + t
    <3>1. pos + e + 1 - pos = t
      BY <2>2, <1>1, <1>2
    <3>2. pos + f \in Nat /\ pos + e \in Nat /\ ((pos + e) + 1 - pos) % SubSize = 0
      BY <3>1, <1>1, <1>2, <1>5
    <3>3. DescribesAt(pos, h, pos + f, (pos + e) + 1)
      BY <3>2, <1>4, Widen
    <3> QED
      BY <3>3, <2>2
  <2> QED
    BY <2>1, <2>2, <1>6
<1>8. Describes(h, pos + f, to)
  BY <1>7, Zenon DEF Describes, DescribesAt
<1> QED
  BY <1>8, <1>0

(* A part behind a boundary is the part of a block that starts there.      *)
LEMMA PartMoved ==
  ASSUME pos \in Nat, limit \in Nat, pos <= limit, NEW count \in 1 .. MaxSubdivisions,
         NEW n \in 1 .. count, NEW k \in Nat, k + n < count, NEW h,
         OfPart(pos, h, k + n), From(n) <= OfferedAt(pos)
  PROVE  OfPart(pos + From(n), h, k)
<1> DEFINE p == pos + From(n)
           f == From(n)
           t == From(k + 1)
           e == To(pos, k + n)
           d == To(p, k)
           m == OfferedAt(pos)
           q == OfferedAt(p)
<1>0. /\ n \in Nat /\ k + n \in Nat /\ count \in Nat /\ MaxSubdivisions \in Nat /\ SubSize \in Nat
      /\ MaxBlock \in Nat /\ SubSize >= 1 /\ MaxBlock + 1 = From(MaxSubdivisions)
  BY Constants DEF From
<1>1. From(k + n) = f + From(k) /\ From(k + n + 1) = f + t /\ f \in Nat /\ t \in Nat
      /\ From(k) \in Nat
  <2>1. /\ From(k + n) \in Nat /\ From(n) \in Nat /\ From(k) \in Nat
        /\ From(k + n + 1) = From(k + n) + SubSize /\ From(k + 1) = From(k) + SubSize
    BY <1>0, FromFacts
  <2>2. (k + n) * SubSize = n * SubSize + k * SubSize
    BY <1>0
  <2>3. From(k + n) = From(n) + From(k)
    BY <2>2 DEF From
  <2> QED
    BY <2>1, <2>3, <1>0
<1>2. /\ f + t <= MaxBlock + 1 /\ t <= MaxBlock
  <2>1. k + n + 1 \in Nat /\ k + n + 1 <= MaxSubdivisions
    BY <1>0
  <2>2. From(k + n + 1) <= From(MaxSubdivisions)
    BY <2>1, <1>0, FromFacts
  <2>3. From(1) \in Nat /\ From(1) <= From(n) /\ From(1) = From(0) + SubSize /\ From(0) = 0
    <3>1. 0 \in Nat /\ 1 \in Nat /\ 1 <= n /\ 0 + 1 = 1
      OBVIOUS
    <3> QED
      BY <3>1, <1>0, FromFacts
  <2> QED
    BY <2>2, <2>3, <1>0, <1>1
<1>3. /\ m \in Nat /\ m <= MaxBlock /\ m <= limit - pos
      /\ m = MaxBlock \/ m = limit - pos
      /\ e \in Nat /\ e <= f + t /\ e <= m
      /\ e = f + t \/ e = m
  BY <1>0, <1>1, ToFacts
<1>4. f <= m /\ p \in Nat /\ p <= limit
  BY <1>1, <1>3
<1>5. /\ q \in Nat /\ q <= MaxBlock /\ q <= limit - p
      /\ q = MaxBlock \/ q = limit - p
      /\ d \in Nat /\ d <= t /\ d <= q
      /\ d = t \/ d = q
  BY <1>4, ToFacts
<1>6. pos + e = p + d \/ (pos + e + 1 = p + d /\ e + 1 = f + t)
  <2>1. p = pos + f
    OBVIOUS
  <2> HIDE DEF p, f, t, e, d, m, q
  <2> QED
    BY <2>1, <1>1, <1>2, <1>3, <1>4, <1>5, <1>0
<1>7. DescribesAt(pos, h, p + From(k), pos + e)
  <2>1. pos + From(k + n) = p + From(k)
    BY <1>1
  <2> QED
    BY <2>1 DEF OfPart
<1>8. (f + t) % SubSize = 0
  <2>1. k + n + 1 \in Nat
    BY <1>0
  <2> QED
    BY <2>1, <1>1, FromMultiple
<1>9. DescribesAt(pos, h, p + From(k), p + d)
  <2>1. CASE pos + e = p + d
    BY <2>1, <1>7
  <2>2. CASE pos + e + 1 = p + d /\ e + 1 = f + t
    <3>1. (pos + e) + 1 - pos = f + t
      BY <2>2, <1>1, <1>3
    <3>2. p + From(k) \in Nat /\ pos + e \in Nat /\ ((pos + e) + 1 - pos) % SubSize = 0
      BY <3>1, <1>1, <1>3, <1>4, <1>8
    <3> HIDE DEF p, e, d
    <3>3. DescribesAt(pos, h, p + From(k), (pos + e) + 1)
      BY <3>2, <1>7, Widen
    <3> QED
      BY <3>3, <2>2
  <2> QED
    BY <2>1, <2>2, <1>6
<1>10. p + From(k) \in Nat /\ p + d \in Nat /\ pos + From(n) <= p + From(k)
  BY <1>1, <1>4, <1>5
<1>11. DescribesAt(p, h, p + From(k), p + d)
  <2> HIDE DEF d
  <2> QED
    BY <1>0, <1>9, <1>10, Rebase
<1> QED
  BY <1>11 DEF OfPart

-----------------------------------------------------------------------------
(* What is said of the histograms, of a sum and of the costs still holds   *)
(* when the variables it is about are the same.                            *)
LEMMA PartsNext ==
  ASSUME NEW p, NEW n, UNCHANGED <<source, limit>>,
         \A k \in Hists : k < n => OfPart(p, hist'[k], k)
  PROVE  PartsAt(p, n)'
BY DEF PartsAt, OfPart, DescribesAt, To, OfferedAt, Smaller, From

(* What a sum of histograms stands for changes only with the histograms.   *)
LEMMA JoinedNext ==
  ASSUME NEW h, NEW n, UNCHANGED <<source, pos, hist>>, Joined(h, n)
  PROVE  Joined(h, n)'
BY DEF Joined, From

(* What a histogram describes changes only with the source and the         *)
(* position.                                                               *)
LEMMA DescribesNext ==
  ASSUME NEW h, NEW from, NEW to, UNCHANGED <<source, pos>>, Describes(h, from, to)
  PROVE  Describes(h, from, to)'
BY DEF Describes

(* Sums and differences of histograms, byte by byte.                       *)
LEMMA Sums ==
  ASSUME NEW f \in [Bytes -> Int], NEW g \in [Bytes -> Int]
  PROVE  /\ \A b \in Bytes : Added(f, g)[b] = f[b] + g[b]
         /\ \A b \in Bytes : Subtracted(f, g)[b] = f[b] - g[b]
         /\ \A b \in Bytes : Added(f, Empty)[b] = f[b] /\ Added(Empty, f)[b] = f[b]
         /\ \A b \in Bytes : f[b] \in Int /\ g[b] \in Int
BY DEF Added, Subtracted, Empty

(* What a call of getBlockSize knows.                                      *)
LEMMA CallFacts ==
  ASSUME IInv, phase \in {"fill", "sum", "sweep", "compress"}
  PROVE  /\ pos \in Nat /\ limit \in Nat /\ pos <= limit
         /\ call.max = OfferedAt(pos) /\ call.max \in Nat
         /\ call.count \in 1 .. MaxSubdivisions /\ call.i \in Nat
         /\ OfferedAt(pos) <= From(call.count)
         /\ \A k \in Nat : k < call.count => k \in Hists /\ hist[k] \in [Bytes -> Int]
         /\ call.left \in [Bytes -> Int] /\ call.right \in [Bytes -> Int]
         /\ MaxSubdivisions \in Nat
<1>1. /\ pos \in Nat /\ limit \in Nat /\ pos <= limit
  BY BlockSplitterAssumption DEF IInv, TypeOK
<1>2. call.max = OfferedAt(pos) /\ call.count \in 1 .. MaxSubdivisions /\ call.max <= From(call.count)
  BY DEF IInv, CallOK, Offered, OfferedAt, From
<1>3. MaxSubdivisions \in Nat
  BY Constants
<1>4. ASSUME NEW k \in Nat, k < call.count
      PROVE  k \in Hists /\ hist[k] \in [Bytes -> Int]
  <2>1. k \in Hists
    BY <1>2, <1>3, <1>4 DEF Hists
  <2> QED
    BY <2>1 DEF IInv, TypeOK
<1>5. call.left \in [Bytes -> Int] /\ call.right \in [Bytes -> Int] /\ call.i \in Nat
      /\ call.max \in Nat
  BY <1>3, Constants DEF IInv, TypeOK
<1> QED
  BY <1>1, <1>2, <1>3, <1>4, <1>5

(* BytesInv holds at first. *)
LEMMA InitBytes == Init => BytesInv
<1> SUFFICES ASSUME Init
             PROVE  BytesInv
  OBVIOUS
<1>1. reuse = 0 /\ phase = "block" /\ 0 < MaxSubdivisions
  BY Constants DEF Init
<1>2. PartsAt(pos, 0)
  BY DEF PartsAt, Hists
<1> QED
  BY <1>1, <1>2 DEF BytesInv

(* A call begins: BytesInv stays. *)
LEMMA BeginBytes ==
  ASSUME IInv, BytesInv, Begin
  PROVE  BytesInv'
<1> DEFINE kept == IF reuse > CountFor(Offered) THEN 0 ELSE reuse
<1>1. /\ phase = "block" /\ reuse' = kept /\ phase' = "fill"
      /\ call' = [Idle EXCEPT !.max = Offered, !.count = CountFor(Offered), !.i = kept]
      /\ UNCHANGED <<source, limit, pos, hist>>
  BY DEF Begin
<1>2. reuse \in Nat /\ reuse < MaxSubdivisions /\ PartsAt(pos, reuse) /\ MaxSubdivisions \in Nat
  BY <1>1, Constants DEF IInv, TypeOK, BytesInv
<1>3. kept \in Nat /\ kept <= reuse /\ kept < MaxSubdivisions
  BY <1>2
<1> HIDE DEF kept
<1>4. call'.i = kept /\ call'.right = Empty
  BY <1>1 DEF Idle
<1>5. \A k \in Hists : k < kept => OfPart(pos, hist'[k], k)
  <2>1. ASSUME NEW k \in Hists, k < kept
        PROVE  k < reuse
    BY <2>1, <1>2, <1>3, Constants DEF Hists
  <2> QED
    BY <2>1, <1>1, <1>2 DEF PartsAt
<1>6. PartsAt(pos, call.i)'
  BY <1>1, <1>4, <1>5, PartsNext
<1>7. call'.right = Empty'
  BY <1>4 DEF Empty, Bytes, Positions
<1> QED
  BY <1>1, <1>3, <1>6, <1>7 DEF BytesInv

(* A histogram is filled with the bytes of its subdivision. *)
LEMMA FillBytes ==
  ASSUME IInv, BytesInv, Fill
  PROVE  BytesInv'
<1> DEFINE i == call.i
           new == CountOf(pos + i * SubSize, pos + Smaller(i * SubSize + SubSize, call.max))
<1>1. /\ phase = "fill" /\ i < call.count /\ hist' = [hist EXCEPT ![i] = new]
      /\ call' = [call EXCEPT !.i = i + 1]
      /\ UNCHANGED <<source, limit, pos, reuse, phase>>
  BY DEF Fill
<1>2. /\ pos \in Nat /\ call.max = OfferedAt(pos) /\ call.count \in 1 .. MaxSubdivisions
      /\ i \in Nat /\ i \in Hists
  BY <1>1, CallFacts
<1>3. /\ PartsAt(pos, i) /\ call.right = Empty /\ reuse < MaxSubdivisions
  BY <1>1 DEF BytesInv
<1>4. call'.i = i + 1 /\ call'.right = call.right
  BY <1>1 DEF IInv, TypeOK
<1>5. new = CountOf(pos + From(i), pos + To(pos, i))
  <2>1. i * SubSize = From(i) /\ i * SubSize + SubSize = From(i + 1)
    <3>1. From(i + 1) = From(i) + SubSize
      BY <1>2, FromFacts
    <3> QED
      BY <3>1 DEF From
  <2> QED
    BY <2>1, <1>2 DEF To
<1> HIDE DEF new
<1>6. OfPart(pos, new, i)
  BY <1>5, Zenon DEF OfPart, DescribesAt, CountOf
<1>7. hist \in [Hists -> [Bytes -> Int]]
  BY DEF IInv, TypeOK
<1> HIDE DEF i
<1>8. ASSUME NEW k \in Hists, k < i + 1
      PROVE  OfPart(pos, hist'[k], k)
  <2>1. CASE k = i
    BY <2>1, <1>1, <1>2, <1>6, <1>7
  <2>2. CASE k # i
    <3>1. hist'[k] = hist[k] /\ k < i
      BY <2>2, <1>1, <1>2, <1>7, <1>8, Constants DEF Hists
    <3> QED
      BY <3>1, <1>3 DEF PartsAt
  <2> QED
    BY <2>1, <2>2
<1>9. PartsAt(pos, call.i)'
  BY <1>1, <1>4, <1>8, PartsNext
<1>10. call'.right = Empty'
  BY <1>3, <1>4 DEF Empty, Bytes, Positions
<1> QED
  BY <1>1, <1>3, <1>9, <1>10 DEF BytesInv

(* The sum of histograms begins with the first. *)
LEMMA FirstBytes ==
  ASSUME IInv, BytesInv, First
  PROVE  BytesInv'
<1>1. /\ phase = "fill" /\ call.i = call.count /\ phase' = "sum"
      /\ call' = [call EXCEPT !.i = 1, !.left = hist[0]]
      /\ UNCHANGED <<source, limit, pos, hist, reuse>>
  BY DEF First
<1>2. /\ pos \in Nat /\ limit \in Nat /\ pos <= limit /\ call.count \in 1 .. MaxSubdivisions
      /\ \A k \in Nat : k < call.count => k \in Hists /\ hist[k] \in [Bytes -> Int]
  BY <1>1, CallFacts
<1>3. /\ PartsAt(pos, call.count) /\ call.right = Empty /\ reuse < MaxSubdivisions
  BY <1>1 DEF BytesInv
<1>4. /\ call'.i = 1 /\ call'.left = hist[0] /\ call'.count = call.count
      /\ call'.right = call.right
  BY <1>1 DEF IInv, TypeOK
<1>5. 0 \in Hists /\ hist[0] \in [Bytes -> Int] /\ 0 < call.count /\ 0 \in Nat
  BY <1>2
<1>6. OfPart(pos, hist[0], 0)
  BY <1>3, <1>5 DEF PartsAt
<1>7. Joined(hist[0], 1)
  <2>1. Joined(Empty, 0)
    BY DEF Joined, Empty
  <2>2. Empty \in [Bytes -> Int]
    BY HistTypes
  <2>3. Joined(Added(Empty, hist[0]), 0 + 1)
    BY <1>2, <1>5, <1>6, <2>1, <2>2, JoinNext
  <2>4. \A b \in Bytes : hist[0][b] = Added(Empty, hist[0])[b]
    BY <1>5, Sums
  <2>5. Joined(hist[0], 0 + 1)
    BY <2>3, <2>4, JoinSame
  <2>6. 0 + 1 = 1
    OBVIOUS
  <2> QED
    BY <2>5, <2>6
<1>8. Joined(call.left, call.i)'
  BY <1>1, <1>4, <1>7, JoinedNext
<1>9. PartsAt(pos, call.count)'
  <2>1. \A k \in Hists : k < call.count => OfPart(pos, hist'[k], k)
    BY <1>1, <1>3 DEF PartsAt
  <2> QED
    BY <2>1, <1>1, <1>4, PartsNext
<1>10. call'.right = Empty'
  BY <1>3, <1>4 DEF Empty, Bytes, Positions
<1> QED
  BY <1>1, <1>3, <1>4, <1>8, <1>9, <1>10 DEF BytesInv

(* The next histogram is added to the sum. *)
LEMMA AddBytes ==
  ASSUME IInv, BytesInv, Add
  PROVE  BytesInv'
<1> DEFINE i == call.i
           left == Added(call.left, hist[i])
<1>1. /\ phase = "sum" /\ i < call.count
      /\ call' = [call EXCEPT !.i = i + 1, !.left = left]
      /\ UNCHANGED <<source, limit, pos, hist, reuse, phase>>
  BY DEF Add
<1>2. /\ pos \in Nat /\ limit \in Nat /\ pos <= limit /\ call.count \in 1 .. MaxSubdivisions
      /\ i \in Nat /\ i \in Hists /\ hist[i] \in [Bytes -> Int]
      /\ call.left \in [Bytes -> Int]
  BY <1>1, CallFacts
<1>3. /\ PartsAt(pos, call.count) /\ call.right = Empty /\ reuse < MaxSubdivisions
      /\ Joined(call.left, i) /\ i >= 1
  BY <1>1 DEF BytesInv
<1>4. /\ call'.i = i + 1 /\ call'.left = left /\ call'.count = call.count
      /\ call'.right = call.right
  BY <1>1 DEF IInv, TypeOK
<1>5. OfPart(pos, hist[i], i)
  BY <1>1, <1>2, <1>3 DEF PartsAt
<1>6. Joined(left, i + 1)
  BY <1>2, <1>3, <1>5, JoinNext
<1> HIDE DEF left
<1>7. Joined(call.left, call.i)'
  BY <1>1, <1>4, <1>6, JoinedNext
<1>8. PartsAt(pos, call.count)'
  <2>1. \A k \in Hists : k < call.count => OfPart(pos, hist'[k], k)
    BY <1>1, <1>3 DEF PartsAt
  <2> QED
    BY <2>1, <1>1, <1>4, PartsNext
<1>9. call'.right = Empty'
  BY <1>3, <1>4 DEF Empty, Bytes, Positions
<1>10. call'.i >= 1
  BY <1>2, <1>3, <1>4
<1> QED
  BY <1>1, <1>3, <1>7, <1>8, <1>9, <1>10 DEF BytesInv

(* The sum is that of the whole block. *)
LEMMA WholeBytes ==
  ASSUME IInv, BytesInv, Whole
  PROVE  BytesInv'
<1>1. /\ phase = "sum" /\ call.i = call.count /\ model' = call.left /\ phase' = "sweep"
      /\ call' = [call EXCEPT !.i = call.count - 1, !.best = call.max]
      /\ UNCHANGED <<source, limit, pos, hist, reuse>>
  BY DEF Whole
<1>2. /\ call.count \in 1 .. MaxSubdivisions /\ MaxSubdivisions \in Nat
      /\ call.left \in [Bytes -> Int]
  BY <1>1, CallFacts
<1>3. /\ PartsAt(pos, call.count) /\ call.right = Empty /\ reuse < MaxSubdivisions
      /\ Joined(call.left, call.count)
  BY <1>1 DEF BytesInv
<1>4. /\ call'.i = call.count - 1 /\ call'.left = call.left /\ call'.count = call.count
      /\ call'.right = call.right /\ call'.best = call.max /\ call'.max = call.max
  BY <1>1 DEF IInv, TypeOK
<1>5. Joined(call.left, call.i + 1)'
  <2>1. call'.i + 1 = call.count
    BY <1>2, <1>4
  <2> QED
    BY <2>1, <1>1, <1>3, <1>4, JoinedNext
<1>6. PartsAt(pos, call.count)'
  <2>1. \A k \in Hists : k < call.count => OfPart(pos, hist'[k], k)
    BY <1>1, <1>3 DEF PartsAt
  <2> QED
    BY <2>1, <1>1, <1>4, PartsNext
<1>7. BestIs(call.count)'
  <2>1. Joined(model, call.count)'
    BY <1>1, <1>3, <1>4, JoinedNext
  <2>2. Joined(Added(call.left, call.right), call.count)
    <3>1. \A b \in Bytes : Added(call.left, call.right)[b] = call.left[b]
      BY <1>2, <1>3, Sums
    <3> QED
      BY <3>1, <1>3, JoinSame
  <2>3. Added(call.left, call.right)' = Added(call.left, call.right)
    BY <1>4 DEF Added, Bytes, Positions
  <2>4. Joined(Added(call.left, call.right), call.count)'
    <3> DEFINE sum == Added(call.left, call.right)
    <3>1. sum' = sum /\ Joined(sum, call.count)
      BY <2>2, <2>3
    <3> HIDE DEF sum
    <3>2. Joined(sum, call.count)'
      BY <3>1, <1>1, <1>4, JoinedNext
    <3> QED
      BY <3>2 DEF sum
  <2> QED
    BY <2>1, <2>4, <1>4 DEF BestIs
<1>8. call'.count \in 1 .. call'.count
  BY <1>2, <1>4
<1>9. (\E n \in 1 .. call.count : BestIs(n))'
  BY <1>7, <1>8
<1> QED
  BY <1>1, <1>3, <1>5, <1>6, <1>9 DEF BytesInv

(* A histogram moves from one side of the boundary to the other. *)
LEMMA SplitBytes ==
  ASSUME IInv, BytesInv, Split
  PROVE  BytesInv'
<1>0. PICK i \in Nat : i = call.i
  BY DEF Split, IInv, TypeOK
<1> DEFINE left == Subtracted(call.left, hist[i])
<1>1. PICK better \in BOOLEAN :
        /\ phase = "sweep" /\ i > 0
        /\ call' = [call EXCEPT !.i = i - 1, !.left = left,
                      !.right = IF better THEN Empty ELSE Added(call.right, hist[i]),
                      !.best = IF better THEN i * SubSize ELSE call.best]
        /\ model' = IF better THEN left ELSE model
        /\ UNCHANGED <<source, limit, pos, hist, reuse, phase>>
  BY <1>0 DEF Split
<1>2. /\ pos \in Nat /\ limit \in Nat /\ pos <= limit /\ call.count \in 1 .. MaxSubdivisions
      /\ i \in Nat /\ call.left \in [Bytes -> Int] /\ call.right \in [Bytes -> Int]
      /\ \A k \in Nat : k < call.count => k \in Hists /\ hist[k] \in [Bytes -> Int]
      /\ MaxSubdivisions \in Nat
  BY <1>0, <1>1, CallFacts
<1>3. /\ PartsAt(pos, call.count) /\ reuse < MaxSubdivisions /\ Joined(call.left, i + 1)
  BY <1>0, <1>1 DEF BytesInv
<1>4. i < call.count /\ i \in 1 .. call.count
  BY <1>0, <1>1, <1>2 DEF IInv, CallOK
<1>5. i \in Hists /\ hist[i] \in [Bytes -> Int]
  BY <1>2, <1>4
<1>6. /\ call'.i = i - 1 /\ call'.left = left /\ call'.count = call.count
      /\ call'.right = IF better THEN Empty ELSE Added(call.right, hist[i])
      /\ call'.best = IF better THEN From(i) ELSE call.best
      /\ call'.max = call.max
  BY <1>1 DEF IInv, TypeOK, From
<1>7. OfPart(pos, hist[i], i)
  BY <1>3, <1>4, <1>5 DEF PartsAt
<1>8. Joined(left, i)
  BY <1>2, <1>3, <1>5, <1>7, JoinLess
<1>9. left \in [Bytes -> Int]
  BY <1>2, <1>5, HistTypes
<1>10. \A b \in Bytes : left[b] = call.left[b] - hist[i][b] /\ call.left[b] \in Int /\ hist[i][b] \in Int
  BY <1>2, <1>5, Sums
<1> HIDE DEF left
<1>11. Joined(call.left, call.i + 1)'
  <2>1. call'.i + 1 = i
    BY <1>2, <1>6
  <2> QED
    BY <2>1, <1>1, <1>6, <1>8, JoinedNext
<1>12. PartsAt(pos, call.count)'
  <2>1. \A k \in Hists : k < call.count => OfPart(pos, hist'[k], k)
    BY <1>1, <1>3 DEF PartsAt
  <2> QED
    BY <2>1, <1>1, <1>6, PartsNext
<1> DEFINE sum == Added(call.left, call.right)
<1>13. sum' = Added(left, call'.right)
  BY <1>6 DEF Added, Bytes, Positions
<1>14. CASE better
  <2>1. Joined(Added(left, Empty), i)
    <3>1. \A b \in Bytes : Added(left, Empty)[b] = left[b]
      BY <1>9, Sums
    <3> QED
      BY <3>1, <1>8, JoinSame
  <2>2. sum' = Added(left, Empty)
    BY <1>6, <1>13, <1>14
  <2> HIDE DEF sum
  <2>3. Joined(sum', i)
    BY <2>1, <2>2
  <2>4. Joined(sum, i)'
    BY <2>3, <1>1, JoinedNext
  <2>5. Joined(model, i)'
    <3>1. model' = left
      BY <1>1, <1>14
    <3> QED
      BY <3>1, <1>1, <1>8, JoinedNext
  <2>6. /\ call'.best = From(i) /\ Joined(Added(call.left, call.right), i)'
        /\ Joined(model, i)' /\ call'.count = call.count
    BY <2>4, <2>5, <1>6, <1>14 DEF sum
  <2>7. BestIs(i)'
    BY <2>6 DEF BestIs, From
  <2>8. \E n \in 1 .. call'.count : BestIs(n)'
    BY <2>6, <2>7, <1>4
  <2> QED
    BY <2>8, <1>1, <1>3, <1>11, <1>12 DEF BytesInv
<1>15. CASE ~better
  <2>1. PICK n \in 1 .. call.count : BestIs(n)
    BY <1>1 DEF BytesInv
  <2>2. /\ call.best = From(n) \/ (n = call.count /\ call.best = call.max)
        /\ Joined(sum, n) /\ Joined(model, n)
    BY <2>1 DEF BestIs
  <2>3. sum' = Added(left, Added(call.right, hist[i]))
    BY <1>6, <1>13, <1>15
  <2>4. \A b \in Bytes : Added(left, Added(call.right, hist[i]))[b] = sum[b]
    <3>1. Added(call.right, hist[i]) \in [Bytes -> Int]
      BY <1>2, <1>5, HistTypes
    <3> DEFINE right == Added(call.right, hist[i])
    <3>2. ASSUME NEW b \in Bytes
          PROVE  /\ Added(left, right)[b] = left[b] + right[b]
                 /\ right[b] = call.right[b] + hist[i][b]
                 /\ sum[b] = call.left[b] + call.right[b]
                 /\ call.right[b] \in Int
      <4>1. right[b] = call.right[b] + hist[i][b] /\ call.right[b] \in Int
        BY <1>2, <1>5, Sums
      <4>2. sum[b] = call.left[b] + call.right[b]
        BY <1>2, Sums
      <4> HIDE DEF right
      <4>3. Added(left, right)[b] = left[b] + right[b]
        BY <3>1, <1>9, Sums DEF right
      <4> QED
        BY <4>1, <4>2, <4>3
    <3> HIDE DEF right
    <3>3. ASSUME NEW b \in Bytes
          PROVE  left[b] + right[b] = call.left[b] + call.right[b]
      <4>1. left[b] = call.left[b] - hist[i][b] /\ right[b] = call.right[b] + hist[i][b]
            /\ call.left[b] \in Int /\ hist[i][b] \in Int /\ call.right[b] \in Int
        BY <3>2, <1>10
      <4> QED
        BY <4>1
    <3>4. \A b \in Bytes : Added(left, right)[b] = sum[b]
      BY <3>2, <3>3
    <3> QED
      BY <3>4 DEF right
  <2> HIDE DEF sum
  <2>5. Joined(sum', n)
    BY <2>2, <2>3, <2>4, JoinSame
  <2>6. Joined(sum, n)'
    BY <2>5, <1>1, JoinedNext
  <2>7. Joined(model, n)'
    <3>1. model' = model
      BY <1>1, <1>15
    <3> QED
      BY <3>1, <2>2, <1>1, JoinedNext
  <2>8. /\ call'.best = From(n) \/ (n = call'.count /\ call'.best = call'.max)
        /\ Joined(Added(call.left, call.right), n)' /\ Joined(model, n)'
        /\ call'.count = call.count
    BY <2>2, <2>6, <2>7, <1>6, <1>15 DEF sum
  <2>9. BestIs(n)'
    BY <2>8 DEF BestIs, From
  <2>10. \E m \in 1 .. call'.count : BestIs(m)'
    BY <2>8, <2>9
  <2> QED
    BY <2>10, <1>1, <1>3, <1>11, <1>12 DEF BytesInv
<1> QED
  BY <1>14, <1>15

(* The histograms behind the boundary move to the front. *)
LEMMA SettleBytes ==
  ASSUME IInv, BytesInv, Settle
  PROVE  BytesInv'
<1> DEFINE used == call.best \div SubSize
<1>1. /\ phase = "sweep" /\ phase' = "compress"
      /\ IF call.best # call.max
         THEN hist' = MovedFront(used, call.count) /\ reuse' = call.count - used
         ELSE reuse' = 0 /\ UNCHANGED hist
      /\ UNCHANGED <<source, limit, pos, model, call>>
  BY DEF Settle
<1> HIDE DEF used
<1>2. /\ pos \in Nat /\ limit \in Nat /\ pos <= limit /\ call.count \in 1 .. MaxSubdivisions
      /\ call.max = OfferedAt(pos) /\ call.max \in Nat /\ OfferedAt(pos) <= From(call.count)
      /\ \A k \in Nat : k < call.count => k \in Hists /\ hist[k] \in [Bytes -> Int]
      /\ MaxSubdivisions \in Nat
  BY <1>1, CallFacts
<1>3. call.best \in Nat /\ call.best <= call.max
  BY <1>1, <1>2 DEF IInv, CallOK
<1>4. PICK n \in 1 .. call.count : BestIs(n)
  BY <1>1 DEF BytesInv
<1>5. /\ call.best = From(n) \/ (n = call.count /\ call.best = call.max)
      /\ Joined(model, n) /\ PartsAt(pos, call.count)
  BY <1>1, <1>4 DEF BestIs, BytesInv
<1>6. Describes(model, pos, pos + call.best)
  BY <1>2, <1>3, <1>5, JoinDescribes
<1>7. Describes(model, pos, pos + call.best)'
  BY <1>1, <1>6, DescribesNext
<1>8. CASE call.best = call.max
  <2>1. reuse' = 0
    BY <1>1, <1>8
  <2>2. \A k \in Hists : k < 0 => OfPart(pos + call.best, hist'[k], k)
    BY DEF Hists
  <2>3. PartsAt(pos + call.best, reuse)'
    BY <2>1, <2>2, <1>1, PartsNext
  <2>4. reuse' < MaxSubdivisions
    BY <2>1, Constants
  <2> QED
    BY <2>3, <2>4, <1>1, <1>7 DEF BytesInv
<1>9. CASE call.best # call.max
  <2>1. call.best = From(n) /\ n \in Nat
    BY <1>2, <1>5, <1>9
  <2>2. used = n
    BY <2>1, FromMultiple DEF used
  <2>3. hist' = MovedFront(n, call.count) /\ reuse' = call.count - n
    BY <2>2, <1>1, <1>9
  <2>4. ASSUME NEW k \in Hists, k < call.count - n
        PROVE  OfPart(pos + From(n), hist'[k], k)
    <3>1. k \in Nat /\ k + n \in Nat /\ k + n < call.count
      BY <2>4, <1>2, Constants DEF Hists
    <3>2. hist'[k] = hist[k + n]
      BY <2>3, <2>4 DEF MovedFront
    <3>3. OfPart(pos, hist[k + n], k + n)
      BY <3>1, <1>2, <1>5 DEF PartsAt
    <3>4. From(n) <= OfferedAt(pos)
      BY <2>1, <1>2, <1>3
    <3>5. OfPart(pos + From(n), hist[k + n], k)
      BY <3>1, <3>3, <3>4, <1>2, PartMoved
    <3> QED
      BY <3>2, <3>5
  <2>5. \A k \in Hists : k < call.count - n => OfPart(pos + call.best, hist'[k], k)
    BY <2>1, <2>4
  <2>6. PartsAt(pos + call.best, reuse)'
    BY <2>3, <2>5, <1>1, PartsNext
  <2>7. reuse' < MaxSubdivisions
    BY <2>3, <1>2
  <2> QED
    BY <2>6, <2>7, <1>1, <1>7 DEF BytesInv
<1> QED
  BY <1>8, <1>9

(* The position moves by the block: parts are those of what follows.       *)
LEMMA WriteBlockBytes ==
  ASSUME IInv, BytesInv, WriteBlock
  PROVE  BytesInv'
<1>1. /\ phase = "compress" /\ pos' = pos + BlockSize
      /\ phase' = "idle" \/ phase' = "block"
      /\ UNCHANGED <<source, limit, hist, reuse>>
  BY DEF WriteBlock
<1>2. call.best \in 1 .. call.max /\ call.max \in Nat
  BY <1>1, CallFacts DEF IInv, CallOK
<1>3. BlockSize = call.best
  BY <1>2 DEF BlockSize
<1>4. reuse < MaxSubdivisions /\ PartsAt(pos + call.best, reuse)
  BY <1>1 DEF BytesInv
<1>5. PartsAt(pos, reuse)'
  <2>1. \A k \in Hists : k < reuse => OfPart(pos + call.best, hist'[k], k)
    BY <1>1, <1>4 DEF PartsAt
  <2> QED
    BY <2>1, <1>1, <1>3, PartsNext
<1> QED
  BY <1>1, <1>4, <1>5 DEF BytesInv

(* The next source begins: no histogram is taken over. *)
LEMMA ReuseBytes ==
  ASSUME IInv, BytesInv, Reuse
  PROVE  BytesInv'
<1>1. reuse' = 0 /\ phase' = "block" /\ 0 < MaxSubdivisions
  BY Constants DEF Reuse
<1>2. PartsAt(pos, reuse)'
  BY <1>1 DEF PartsAt, Hists
<1> QED
  BY <1>1, <1>2 DEF BytesInv

(* A stuttering step keeps BytesInv. *)
LEMMA StutterBytes ==
  ASSUME BytesInv, UNCHANGED vars
  PROVE  BytesInv'
<1>1. UNCHANGED <<source, limit, pos, hist, reuse, model, call, phase>>
  BY DEF vars
<1>2. ASSUME NEW p, NEW n, PartsAt(p, n)
      PROVE  PartsAt(p, n)'
  BY <1>1, <1>2, PartsNext DEF PartsAt
<1>3. ASSUME NEW h, NEW n, Joined(h, n)
      PROVE  Joined(h, n)'
  BY <1>1, <1>3, JoinedNext
<1>4. ASSUME NEW n, BestIs(n)
      PROVE  BestIs(n)'
  <2>1. Joined(Added(call.left, call.right), n) /\ Joined(model, n)
    BY <1>4 DEF BestIs
  <2>2. Added(call.left, call.right)' = Added(call.left, call.right)
    BY <1>1 DEF Added, Bytes, Positions
  <2>3. Joined(model, n)'
    BY <1>1, <1>3, <2>1
  <2>4. Joined(Added(call.left, call.right), n)'
    <3> DEFINE sum == Added(call.left, call.right)
    <3>1. sum' = sum /\ Joined(sum, n)
      BY <2>1, <2>2
    <3> HIDE DEF sum
    <3>2. Joined(sum, n)'
      BY <3>1, <1>3
    <3> QED
      BY <3>2 DEF sum
  <2> QED
    BY <2>3, <2>4, <1>1, <1>4 DEF BestIs, From
<1>5. Describes(model, pos, pos + call.best) => Describes(model, pos, pos + call.best)'
  BY <1>1, DescribesNext
<1>6. Empty' = Empty
  BY DEF Empty, Bytes, Positions
<1>7. phase = "sweep" => (\E n \in 1 .. call.count : BestIs(n))'
  BY <1>1, <1>4 DEF BytesInv
<1> QED
  BY <1>1, <1>2, <1>3, <1>5, <1>6, <1>7 DEF BytesInv

(* Both invariants hold in every state. *)
LEMMA BytesAlways == Spec => [](IInv /\ BytesInv)
<1>1. IInv /\ BytesInv /\ [Next]_vars => BytesInv'
  BY BeginBytes, FillBytes, FirstBytes, AddBytes, WholeBytes, SplitBytes, SettleBytes,
     WriteBlockBytes, ReuseBytes, StutterBytes DEF Next, Encode
<1> QED
  BY <1>1, InitBytes, Inductive, PTL DEF Spec

(* A histogram that serves again is that of the subdivision it stands for, *)
(* in the source being compressed, whatever boundaries were chosen before  *)
(* and however often the encoder was used (getBlockSize, reset).           *)
THEOREM HistogramsServe == Spec => []HistogramsCurrent
<1>1. ASSUME IInv, BytesInv
      PROVE  HistogramsCurrent
  <2> DEFINE valid == CASE phase = "block" -> reuse
                        [] phase = "fill"  -> call.i
                        [] phase \in {"sum", "sweep"} -> call.count
                        [] OTHER           -> 0
  <2>1. pos \in Nat /\ limit \in Nat /\ pos <= limit
    BY <1>1, BlockSplitterAssumption DEF IInv, TypeOK
  <2>2. PartsAt(pos, valid)
    <3>1. CASE phase \in {"block", "fill", "sum", "sweep"}
      BY <1>1, <3>1 DEF BytesInv
    <3>2. CASE phase \notin {"block", "fill", "sum", "sweep"}
      <4>1. valid = 0
        BY <3>2
      <4> QED
        BY <4>1 DEF PartsAt, Hists
    <3> QED
      BY <3>1, <3>2
  <2> HIDE DEF valid
  <2>3. ASSUME NEW k \in Hists, k < valid
        PROVE  Describes(hist[k], pos + k * SubSize, Smaller(pos + (k + 1) * SubSize, limit))
    <3>1. OfPart(pos, hist[k], k)
      BY <2>2, <2>3 DEF PartsAt
    <3> QED
      BY <2>1, <3>1, PartCurrent
  <2> QED
    BY <2>3 DEF HistogramsCurrent, valid
<1> QED
  BY <1>1, BytesAlways, PTL

(* At every boundary the two sides together have exactly the bytes of the  *)
(* best block so far: an estimate is never compared with that of other     *)
(* bytes (getBlockSize).                                                   *)
THEOREM SidesHaveBytes == Spec => []SameBytesCompared
<1>1. ASSUME IInv, BytesInv, phase = "sweep"
      PROVE  Describes(Added(call.left, call.right), pos, pos + call.best)
  <2>1. /\ pos \in Nat /\ limit \in Nat /\ pos <= limit /\ call.count \in 1 .. MaxSubdivisions
        /\ call.max = OfferedAt(pos) /\ call.max \in Nat /\ OfferedAt(pos) <= From(call.count)
    BY <1>1, CallFacts
  <2>2. call.best \in Nat /\ call.best <= call.max
    BY <1>1, <2>1 DEF IInv, CallOK
  <2>3. PICK n \in 1 .. call.count : BestIs(n)
    BY <1>1 DEF BytesInv
  <2>4. /\ call.best = From(n) \/ (n = call.count /\ call.best = call.max)
        /\ Joined(Added(call.left, call.right), n) /\ PartsAt(pos, call.count)
    BY <1>1, <2>3 DEF BestIs, BytesInv
  <2> QED
    BY <2>1, <2>2, <2>4, JoinDescribes
<1>2. IInv /\ BytesInv => SameBytesCompared
  BY <1>1 DEF SameBytesCompared
<1> QED
  BY <1>2, BytesAlways, PTL

(* The costs that a block is parsed with come from the bytes of that block *)
(* (bestModel, initialCostModel).                                          *)
THEOREM CostsOfBlock == Spec => []ModelOfBlock
<1>1. ASSUME IInv, BytesInv, phase = "compress"
      PROVE  Describes(model, pos, pos + BlockSize)
  <2>1. call.best \in 1 .. call.max /\ call.max \in Nat
    BY <1>1, CallFacts DEF IInv, CallOK
  <2>2. BlockSize = call.best
    BY <2>1 DEF BlockSize
  <2>3. Describes(model, pos, pos + call.best)
    BY <1>1 DEF BytesInv
  <2> QED
    BY <2>2, <2>3
<1>2. IInv /\ BytesInv => ModelOfBlock
  BY <1>1 DEF ModelOfBlock
<1> QED
  BY <1>2, BytesAlways, PTL

=============================================================================
