---------------------------- MODULE HuffmanStream ----------------------------
(***************************************************************************)
(* One of the six bit streams of Huffman-coded data (encodeHuffmanStream,  *)
(* decodeHuffmanSymbols).                                                  *)
(*                                                                         *)
(* Symbol i of the data is in stream i % 6.  The encoder writes codes of   *)
(* at most 11 bits backwards from the end of a buffer, five between two    *)
(* stores of eight bytes.  The decoder reads from the end through a 64-bit *)
(* window whose lowest bit is set to 1 as a marker: the zeros below the    *)
(* marker count the bits used.  It reads five codes between two refills,   *)
(* and the last ones without any.                                          *)
(*                                                                         *)
(* Bits are named by their place from the end of the stream, not by their  *)
(* value.  The symbols that the decoder produces after the last one of the *)
(* stream, to fill a row of six, are left out: nothing reads them.         *)
(***************************************************************************)
EXTENDS Integers, Sequences

CONSTANTS
  CodeLengths, (* lengths of codes: 1 .. 11                                *)
  Shapes,      (* [symbols, lane, lead]: the symbols of the data, which    *)
               (* stream this is, and how many bytes the streams before    *)
               (* it take                                                  *)
  Before       (* bytes of the source before the first stream: headers     *)

ASSUME HuffmanStreamAssumption ==
  /\ CodeLengths \subseteq 1 .. 11
  /\ Shapes \subseteq [symbols : Nat, lane : 0 .. 5, lead : Nat]
  /\ \A s \in Shapes : s.lane < s.symbols
  /\ Before \in Nat /\ Before >= 8

VARIABLES
  shape, (* the stream                                                     *)
  codes, (* the first bit and the length of each code written              *)
  room,  (* streamIt: bytes of the buffer still free                       *)
  fill,  (* bitCount of the encoder                                        *)
  size,  (* bytes of the stream, once it is written                        *)
  start, (* the first byte of the window, from the start of the stream     *)
  used,  (* bits of the window used                                        *)
  taken, (* codes read                                                     *)
  phase  (* "put", "store", "open", "read", "refill", "corrupt"            *)

streamWriterVars == <<shape, codes, room, fill, size>>
streamReaderVars == <<start, used, taken>>
streamVars == <<streamWriterVars, streamReaderVars, phase>>

Symbols    == (shape.symbols - 1 - shape.lane) \div 6 + 1
BufferSize == (Symbols * 11 + 7) \div 8 + 16

(* Faulty: the word is not stored often enough. *)
StoresSeldom(n) == n % 6 = 0 /\ shape.lane + 6 * (n - 6) < shape.symbols - 36

(* The encoder stores after five codes while more than 30 symbols are left;*)
(* the decoder refills after each row of 30.                               *)
StoresAfter(n)  == n % 5 = 0 /\ shape.lane + 6 * (n - 5) < shape.symbols - 30
RefillsAfter(n) == n % 5 = 0 /\ 6 * n <= 30 * (shape.symbols \div 30)

-----------------------------------------------------------------------------
(* state = state << bits | code.                                           *)
PutCode(length) ==
  /\ phase = "put"
  /\ Len(codes) < Symbols
  /\ codes' = Append(codes, [first  |-> 8 * (BufferSize - room) + fill,
                                 length |-> length])
  /\ fill' = fill + length
  /\ phase' = IF StoresAfter(Len(codes) + 1) THEN "store" ELSE "put"
  /\ UNCHANGED <<shape, room, size, streamReaderVars>>

(* Eight bytes are stored; the whole ones are kept.                        *)
StoreRound ==
  /\ phase = "store"
  /\ room' = room - fill \div 8
  /\ fill' = fill % 8
  /\ phase' = "put"
  /\ UNCHANGED <<shape, codes, size, streamReaderVars>>

(* The codes after the last round and the last byte.  With less than eight *)
(* bytes of room only one byte would be stored.                            *)
StoreRest ==
  /\ phase = "put"
  /\ Len(codes) = Symbols
  /\ room' = IF room >= 8 THEN room - fill \div 8 ELSE room
  /\ fill' = IF room >= 8 THEN fill % 8 ELSE fill
  /\ size' = BufferSize - room' + (IF fill' > 0 THEN 1 ELSE 0)
  /\ phase' = "open"
  /\ UNCHANGED <<shape, codes, streamReaderVars>>

-----------------------------------------------------------------------------
(* The first window ends with the stream; it may begin before it.          *)
OpenStream ==
  /\ phase = "open"
  /\ start' = size - 8
  /\ used' = 0
  /\ phase' = IF Before + shape.lead + start' < 0 THEN "corrupt" ELSE "read"
  /\ UNCHANGED <<streamWriterVars, taken>>

(* decodeHuffmanOpState: the code at the top of the window.                *)
ReadCode ==
  /\ phase = "read"
  /\ taken < Symbols
  /\ used' = used + codes[taken + 1].length
  /\ taken' = taken + 1
  /\ phase' = IF RefillsAfter(taken + 1) THEN "refill" ELSE "read"
  /\ UNCHANGED <<streamWriterVars, start>>

(* Faulty: the bits used of the byte that is kept are forgotten. *)
RefillWhole ==
  /\ phase = "refill"
  /\ start' = start - used \div 8
  /\ used' = 0
  /\ phase' = "read"
  /\ UNCHANGED <<streamWriterVars, taken>>

(* renormalizeHuffmanFast, unless the window reaches before the streams.   *)
RefillWindow ==
  /\ phase = "refill"
  /\ IF shape.lead + start >= 0
     THEN /\ start' = start - used \div 8
          /\ used' = used % 8
          /\ phase' = IF Before + shape.lead + start' < 0 THEN "corrupt" ELSE "read"
     ELSE phase' = "read" /\ UNCHANGED <<start, used>>
  /\ UNCHANGED <<streamWriterVars, taken>>

StreamInit ==
  /\ shape \in Shapes
  /\ codes = <<>> /\ room = BufferSize /\ fill = 0 /\ size = 0
  /\ start = 0 /\ used = 0 /\ taken = 0
  /\ phase = "put"

StreamNext ==
  \/ \E length \in CodeLengths : PutCode(length)
  \/ StoreRound
  \/ StoreRest
  \/ OpenStream
  \/ ReadCode
  \/ RefillWindow

StreamSpec == StreamInit /\ [][StreamNext]_streamVars

-----------------------------------------------------------------------------
(* Properties.                                                             *)

StreamTypeOK ==
  /\ shape \in Shapes
  /\ codes \in Seq([first : Nat, length : 1 .. 11])
  /\ room \in Nat
  /\ fill \in 0 .. 64
  /\ size \in Nat
  /\ start \in Int
  /\ used \in 0 .. 63
  /\ taken \in 0 .. Len(codes)
  /\ phase \in {"put", "store", "open", "read", "refill", "corrupt"}

(* The encoder's word keeps every code until it is stored, and each store  *)
(* of eight bytes lies inside the buffer, which has 11 bits per symbol and *)
(* 16 bytes (encodeHuffmanStream).                                         *)
StoresFit ==
  /\ fill <= 64
  /\ phase \in {"put", "store"} => room >= 8

(* Each code is read from where it was written and above the marker, so    *)
(* that the marker changes no code and the zeros below it tell how many    *)
(* bits are used; no stream the encoder wrote makes the decoder look       *)
(* before the source (decodeHuffmanSymbols, renormalizeHuffmanFast).       *)
CodesInPlace ==
  /\ phase # "corrupt"
  /\ (phase = "read" /\ taken < Symbols) =>
       /\ 8 * (size - 8 - start) + used = codes[taken + 1].first
       /\ used + codes[taken + 1].length <= 63

=============================================================================
