---------------------------- MODULE DistanceBits ----------------------------
(***************************************************************************)
(* The extra bits of a block's advanced distances (tokens.go, distance.go).*)
(*                                                                         *)
(* The encoder packs values of up to 28 bits, lowest bit first, and emits  *)
(* whole bytes.  The decoder keeps 64 bits in a word, reads two values     *)
(* between refills, and at the end computes how many bytes it has used.    *)
(*                                                                         *)
(* Bits are named by their place in the packed stream, not by their value. *)
(* The word is described by the stream bit in its lowest place, the number *)
(* of bits the program counts as present, and for every load the distance  *)
(* by which its bits missed their place.                                   *)
(***************************************************************************)
EXTENDS Integers, Sequences

CONSTANTS
  Widths,    (* widths of the values: at most 28                           *)
  MaxValues, (* most advanced distances of a block                         *)
  After      (* bytes of the source after the packed bits: the last raw    *)
             (* block alone has 31                                         *)

ASSUME DistanceBitsAssumption ==
  /\ Widths \subseteq 0 .. 28
  /\ MaxValues \in Nat
  /\ After \in Nat /\ After >= 16

VARIABLES
  packed,   (* for each value its first bit and its width                  *)
  bytes,    (* bytes emitted by the writer                                 *)
  pending,  (* writer.count: bits not yet emitted                          *)
  unpacked, (* values read                                                 *)
  pos,      (* the next byte to load                                       *)
  low,      (* the stream bit in the lowest place of the word              *)
  count,    (* stateBitCount                                               *)
  missed,   (* by how much the loads missed: {0} when all are in place     *)
  at        (* "write", "open", "first", "second", "refill", "done",       *)
            (* "corrupt"                                                   *)

packerVars   == <<packed, bytes, pending>>
unpackerVars == <<unpacked, pos, low, count, missed>>
bitsVars     == <<packerVars, unpackerVars, at>>

Value == packed[unpacked + 1]

(* appendUnchecked: the loop emits every whole byte.                       *)
AppendValue(width) ==
  /\ at = "write"
  /\ Len(packed) < MaxValues
  /\ packed' = Append(packed, [first |-> 8 * bytes + pending, width |-> width])
  /\ bytes' = bytes + (pending + width) \div 8
  /\ pending' = (pending + width) % 8
  /\ UNCHANGED <<unpackerVars, at>>

(* Faulty: the bits of an unfinished byte are not emitted. *)
DropPartial ==
  /\ at = "write"
  /\ pending' = 0
  /\ at' = "open"
  /\ UNCHANGED <<packed, bytes, unpackerVars>>

(* appendTo: the last byte may be partly filled.                           *)
FinishWriting ==
  /\ at = "write"
  /\ bytes' = bytes + (IF pending > 0 THEN 1 ELSE 0)
  /\ pending' = 0
  /\ at' = "open"
  /\ UNCHANGED <<packed, unpackerVars>>

Length == bytes + After

(* decodeAdvancedDistancesWithState: eight bytes are loaded, seven count.  *)
Open ==
  /\ at = "open"
  /\ pos' = 7
  /\ count' = 56
  /\ low' = 0
  /\ missed' = {0}
  /\ at' = IF packed = <<>> THEN "done" ELSE IF 8 > Length THEN "corrupt" ELSE "first"
  /\ UNCHANGED <<packerVars, unpacked>>

(* decodeAdvancedDistanceOp: the value is in the lowest bits.  After the   *)
(* first value of a pair the loop may end without a refill.                *)
ReadValue ==
  /\ at \in {"first", "second"}
  /\ low' = low + Value.width
  /\ count' = count - Value.width
  /\ unpacked' = unpacked + 1
  /\ at' = IF at = "second" THEN "refill"
           ELSE IF unpacked + 1 = Len(packed) THEN "done" ELSE "second"
  /\ UNCHANGED <<packerVars, pos, missed>>

(* Faulty: the word is taken to be full after a load. *)
RefillOverclaims ==
  /\ at = "refill"
  /\ missed' = missed \cup {8 * pos - (low + count)}
  /\ pos' = pos + (63 - count) \div 8
  /\ count' = 63
  /\ at' = IF unpacked = Len(packed) THEN "done" ELSE "first"
  /\ UNCHANGED <<packerVars, unpacked, low>>

(* renormalizeAdvancedDistance: state |= load << count; pos += (count ^ 63)*)
(* >> 3; count |= 56.                                                      *)
Refill ==
  /\ at = "refill"
  /\ IF pos < Length /\ pos + 8 > Length
     THEN at' = "corrupt" /\ UNCHANGED unpackerVars
     ELSE /\ IF pos < Length
             THEN /\ missed' = missed \cup {8 * pos - (low + count)}
                  /\ pos' = pos + (63 - count) \div 8
                  /\ count' = 56 + (count % 8)
             ELSE UNCHANGED <<missed, pos, count>>
          /\ at' = IF unpacked = Len(packed) THEN "done" ELSE "first"
          /\ UNCHANGED <<unpacked, low>>
  /\ UNCHANGED packerVars

(* *cpos = pos - int(stateBitCount / 8); nothing is read without tokens.   *)
EndPosition == IF packed = <<>> THEN 0 ELSE pos - count \div 8

BitsInit ==
  /\ packed = <<>> /\ bytes = 0 /\ pending = 0
  /\ unpacked = 0 /\ pos = 0 /\ low = 0 /\ count = 0 /\ missed = {}
  /\ at = "write"

BitsNext ==
  \/ \E width \in Widths : AppendValue(width)
  \/ FinishWriting
  \/ Open
  \/ ReadValue
  \/ Refill

BitsSpec == BitsInit /\ [][BitsNext]_bitsVars

-----------------------------------------------------------------------------
(* Properties.                                                             *)

BitsTypeOK ==
  /\ packed \in Seq([first : Nat, width : 0 .. 28])
  /\ bytes \in Nat
  /\ pending \in 0 .. 7
  /\ unpacked \in 0 .. Len(packed)
  /\ pos \in Nat
  /\ low \in Nat
  /\ count \in 0 .. 63
  /\ missed \subseteq Int
  /\ at \in {"write", "open", "first", "second", "refill", "done", "corrupt"}

(* Every value is read from the bits it was written to: it begins in the   *)
(* lowest place of the word, all of its bits are present, and no load put  *)
(* a bit in another place, although loads overlap and only two values are  *)
(* bounded between two refills (decodeAdvancedDistancesWithState).         *)
ValuesInPlace ==
  at \in {"first", "second"} =>
    /\ missed = {0}
    /\ low = Value.first
    /\ Value.width <= count

(* The reader stops after exactly the bytes the writer emitted, so that    *)
(* the stream behind them is found, and finds no packed block corrupt      *)
(* (appendTo, decodeAdvancedDistancesWithState).                           *)
ReaderEndsWithWriter ==
  /\ at # "corrupt"
  /\ at = "done" => EndPosition = bytes

=============================================================================
