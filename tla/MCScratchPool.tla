--------------------------- MODULE MCScratchPool ----------------------------
(***************************************************************************)
(* Small instances of ScratchPool for TLC.                                 *)
(***************************************************************************)
EXTENDS ScratchPool, TLC

CONSTANT
  Growers (* encoders whose blocks may grow                                *)

(* The first stream asks for as many bytes as the block has, every other   *)
(* one for fewer, and for none when the block is small.                    *)
MCNeed == [n \in 1 .. MaxSize |-> [s \in 1 .. NSlots |-> IF n >= s THEN n - s + 1 ELSE 0]]

(* Two sizes of blocks: the first stream needs a larger buffer for one.    *)
TwoSizes == <<<<1, 1>>, <<3, 1>>>>

(* No step depends on which encoder is which. *)
EncoderSymmetry == Permutations(Encoders)

(* Nor on which array is which: a state is told by the places that share   *)
(* an array and by the capacities.                                         *)
SharedBy(a) ==
  <<{<<c, i>> \in PoolCaps \X (1 .. PoolDepth) : i <= Len(pool[c]) /\ pool[c][i].array = a},
    {<<e, i>> \in Encoders \X Streams : tmp[e][i].array = a},
    {<<e, s>> \in Encoders \X Slots : held[e][s].array = a},
    {<<e, s>> \in Encoders \X Slots : next[e][s].array = a}>>

(* A block that is done tells nothing any more, but for the sizes of the   *)
(* blocks behind it when they do not grow.                                 *)
BlockNow ==
  [e \in Encoders |->
     LET now == pc[e] \in {"fill", "write", "free"}
     IN  <<IF now \/ e \notin Growers THEN block[e] ELSE MaxSize,
           IF now THEN needed[e] ELSE {}>>]

Shape ==
  <<{SharedBy(a) : a \in Arrays},
    [c \in PoolCaps |-> [i \in 1 .. Len(pool[c]) |-> pool[c][i].cap]],
    [e \in Encoders |-> [s \in Slots |-> <<held[e][s].cap, next[e][s].cap>>]],
    [e \in Encoders |-> [i \in Streams |-> tmp[e][i].cap]], pc, turn, BlockNow>>

(* Each encoder either has blocks that grow, with all streams, or writes   *)
(* blocks raw.                                                             *)
Apart(e) ==
  IF e \in Growers THEN pc'[e] # "drop" /\ needed'[e] = Slots
                   ELSE pc[e] = "rest" => block'[e] <= block[e]

ApartSpec == Init /\ [][Next /\ \A e \in Encoders : Apart(e)]_vars

=============================================================================
