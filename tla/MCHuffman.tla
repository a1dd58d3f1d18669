----------------------------- MODULE MCHuffman ------------------------------
(***************************************************************************)
(* A small instance of HuffmanCodegen for TLC.                             *)
(***************************************************************************)
EXTENDS HuffmanCodegen

CONSTANT
  Counts (* how often a symbol may occur                                   *)

MCHistograms ==
  {h \in [Symbol -> Counts] : Cardinality({s \in Symbol : h[s] > 0}) >= 2}

=============================================================================
