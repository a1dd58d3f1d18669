--------------------------- MODULE MCSkandaCodec ----------------------------
(***************************************************************************)
(* Small instances of SkandaCodec for TLC: two length bytes that end a     *)
(* code and two that continue it, a field of at most 2, distance digits to *)
(* base 2, and every short source over a small alphabet.                   *)
(***************************************************************************)
EXTENDS SkandaCodecInv

CONSTANT
  MaxLen (* longest source                                                 *)

Binary(n) == [1 .. n -> {0, 1}]

(* Every binary source of at most MaxLen bytes. *)
BinarySources == UNION {Binary(n) : n \in 0 .. MaxLen}

(* Longer sources in which matches at several distances follow each other, *)
(* so that every recent distance is used and the oldest one is pushed out. *)
MixedSources ==
  {<<0, 1, 2, 0, 1, 0, 1, 2, 2, 2, 0, 1>>,
   <<0, 0, 1, 0, 0, 2, 1, 0, 0, 2, 0, 0>>,
   <<2, 1, 2, 1, 0, 2, 1, 0, 1, 2, 1, 0>>}

(* Sources in which a block can use a distance that the block before it    *)
(* left, or that was the last one before that block.                       *)
ChainedSources ==
  {<<0, 1, 0, 1, 1, 1, 1, 0>>,
   <<0, 1, 1, 0, 1, 1, 0, 1>>}

ShortAndChainedSources == BinarySources \cup ChainedSources

(* Sources with a match of the lengths that need two tokens.               *)
RepeatingSources == {<<0, 0, 0, 0, 0, 0, 0, 0, 0>>, <<1, 0, 1, 0, 1, 0, 1, 0, 1>>,
                     <<0, 1, 1, 1, 1, 1, 1, 1, 0>>}

ShortAndRepeatingSources == BinarySources \cup RepeatingSources

ShortAndMixedSources == BinarySources \cup MixedSources

=============================================================================
