----------------------------- MODULE PrefixCode -----------------------------
(***************************************************************************)
(* Prefix codes given by their lengths (huffman_encode.go, huffman.go):    *)
(* the codes the encoder writes, and the table in which the decoder looks  *)
(* them up.  A code space of 2^max table entries is shared by the symbols; *)
(* a symbol without a code has the length max + 1.                         *)
(***************************************************************************)
EXTENDS Integers, SequencesExt

Log2(v) == CHOOSE k \in 0 .. 31 : 2^k <= v /\ v < 2^(k + 1)

(* codeSpace >> length. *)
Share(length, max) == 2^max \div 2^length

Sum(f, S) == MapThenSumSet(LAMBDA s : f[s], S)

SpaceUsed(lens, max) ==
  MapThenSumSet(LAMBDA s : Share(lens[s], max), DOMAIN lens)

(* createHuffmanCodes: shorter codes first, equal ones in the order of     *)
(* their symbols.                                                          *)
Precedes(lens, s, t) == lens[s] < lens[t] \/ (lens[s] = lens[t] /\ s < t)

CodeOf(lens, max, s) ==
  MapThenSumSet(LAMBDA t : Share(lens[t], max),
                {t \in DOMAIN lens : Precedes(lens, t, s)}) \div 2^(max - lens[s])

(* buildDecodeTable: symbols by length, in the order they were read.       *)
DecodeTable(symbolsOf, max) ==
  LET entries(length) ==
        FlattenSeq([i \in 1 .. Len(symbolsOf[length]) |->
          [j \in 1 .. Share(length, max) |-> [symbol |-> symbolsOf[length][i],
                                              length |-> length]]])
  IN  FlattenSeq([length \in 1 .. max |-> entries(length)])

(* The table, looked up with any bits that begin with the code of a        *)
(* symbol, yields the symbol and the length of its code.                   *)
TableDecodes(table, lens, max) ==
  /\ Len(table) = 2^max
  /\ \A s \in DOMAIN lens : lens[s] <= max =>
       \A i \in 1 .. Share(lens[s], max) :
         table[CodeOf(lens, max, s) * Share(lens[s], max) + i] =
           [symbol |-> s, length |-> lens[s]]

=============================================================================
