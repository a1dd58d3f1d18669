---------------------------- MODULE MCRealWidths ----------------------------
(***************************************************************************)
(* The codes and the bit streams with the widths of the program, one after *)
(* the other: every length, then the extra bits of a few distances, then   *)
(* one stream of Huffman codes.                                            *)
(***************************************************************************)
EXTENDS TokenCodes, DistanceBits, HuffmanStream

(* Data with no full round of 30 symbols behind the last one, with exactly *)
(* one or two rounds, and with a little more.                              *)
MCShapes == [symbols : {32, 36, 60, 61}, lane : {0, 5}, lead : {0, 7}]

AnyShape == CHOOSE s \in MCShapes : TRUE

MCInit ==
  /\ n \in {0, MaxLength} /\ BitsInit /\ StreamInit
  /\ n = 0 => shape = AnyShape

LengthsDone == n = MaxLength

MCNext ==
  \/ Code /\ UNCHANGED <<bitsVars, streamVars>>
  \/ LengthsDone /\ codes = <<>> /\ shape = AnyShape /\ BitsNext /\ UNCHANGED <<n, streamVars>>
  \/ LengthsDone /\ packed = <<>> /\ at = "write" /\ StreamNext /\ UNCHANGED <<n, bitsVars>>

MCSpec == MCInit /\ [][MCNext]_<<n, bitsVars, streamVars>>

=============================================================================
