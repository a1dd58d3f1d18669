---------------------------- MODULE DistanceCode ----------------------------
(***************************************************************************)
(* Match distances (tokens.go, distance.go, lz_decode.go).                 *)
(*                                                                         *)
(* Standard mode: a token says how many bytes of the distance stream hold  *)
(* the distance, 0 for the distance of the match before it.  Advanced      *)
(* mode: it selects one of the three last distances or, with field 3, a    *)
(* fresh one, written as a distance token (low part and bit count) and     *)
(* extra bits.  The recent distances are a triple, most recent first.      *)
(***************************************************************************)
EXTENDS Integers, Sequences

CONSTANTS
  DistBase,    (* values of a byte of the distance stream: 256             *)
  LowGroup,    (* distances that share a row of the advanced code: 8       *)
  MaxExtraBits (* widest extra field the decoder accepts: 28               *)

ASSUME DistanceCodeAssumption ==
  /\ DistBase \in Nat \ {0, 1}
  /\ LowGroup \in Nat \ {0}
  /\ MaxExtraBits \in Nat

InitReps == <<1, 1, 1>>

-----------------------------------------------------------------------------
(* Standard distances: appendDistance and the switch of the decoder.       *)
MaxStdDistance == DistBase * DistBase * DistBase - 1

StdField(last, d) ==
  IF d = last THEN 0
  ELSE IF d < DistBase THEN 1
  ELSE IF d < DistBase * DistBase THEN 2
  ELSE 3

StdDigits(d) ==
  <<d % DistBase, (d \div DistBase) % DistBase,
    (d \div (DistBase * DistBase)) % DistBase>>

StdBytes(last, d) == SubSeq(StdDigits(d), 1, StdField(last, d))

(* The distance that a field selects at index p of the distance stream.    *)
StdDistance(last, field, dists, p) ==
  CASE field = 0 -> last
    [] field = 1 -> dists[p]
    [] field = 2 -> dists[p] + DistBase * dists[p + 1]
    [] OTHER     -> dists[p] + DistBase * (dists[p + 1] + DistBase * dists[p + 2])

-----------------------------------------------------------------------------
(* Advanced distances.  appendAdvancedDistance: the field of the token and *)
(* the recent distances after it is written.                               *)
AdvField(reps, d) ==
  IF d = reps[1] THEN 0
  ELSE IF d = reps[2] THEN 1
  ELSE IF d = reps[3] THEN 2
  ELSE 3

RepsWritten(reps, d) ==
  IF d = reps[1] THEN reps
  ELSE IF d = reps[2] THEN <<d, reps[1], reps[3]>>
  ELSE <<d, reps[1], reps[2]>>

(* Faulty: the third distance is swapped with the first. *)
SwapThird(reps, field, fresh) ==
  CASE field = 0 -> reps
    [] field = 1 -> <<reps[2], reps[1], reps[3]>>
    [] field = 2 -> <<reps[3], reps[2], reps[1]>>
    [] OTHER     -> <<fresh, reps[1], reps[2]>>

(* The switch of the advanced decoders: the recent distances after a field *)
(* is read; the first of them is the distance of the match.                *)
RepsRead(reps, field, fresh) ==
  CASE field = 0 -> reps
    [] field = 1 -> <<reps[2], reps[1], reps[3]>>
    [] field = 2 -> <<reps[3], reps[1], reps[2]>>
    [] OTHER     -> <<fresh, reps[1], reps[2]>>

(* A fresh distance: row 2^bits .. 2^(bits+1)-1 of LowGroup distances, the *)
(* position in the row counted down, the row in the extra bits.            *)
WordBits == 29    (* a row is at most (1 << 32) / 8                        *)

VirtualRow(d) == (d + LowGroup - 1) \div LowGroup

ExtraBits(row) == CHOOSE n \in 0 .. WordBits : 2^n <= row /\ row < 2^(n + 1)

(* Faulty: the position in the row is counted up. *)
LowUp(d) ==
  LET n == ExtraBits(VirtualRow(d))
  IN  [low   |-> (d + LowGroup - 1) % LowGroup,
       bits  |-> n,
       extra |-> VirtualRow(d) % (2^n)]

FreshCode(d) ==
  LET n == ExtraBits(VirtualRow(d))
  IN  [low   |-> LowGroup - 1 - ((d + LowGroup - 1) % LowGroup),
       bits  |-> n,
       extra |-> VirtualRow(d) % (2^n)]

(* decodeAdvancedDistanceOp.                                               *)
FreshDistance(code) == LowGroup * (code.extra + 2^(code.bits)) - code.low

=============================================================================
