--------------------------- MODULE BlockSequence ----------------------------
(***************************************************************************)
(* What Encode needs from whoever picks the block sizes (encoder.go): the  *)
(* blocks of a source follow each other without a gap, none is empty or    *)
(* larger than MaxBlock, and none reaches into the last bytes.             *)
(***************************************************************************)
EXTENDS Integers

CONSTANTS
  Limits,  (* the lengths of the part of a source that is cut              *)
  MaxBlock (* largest block                                                *)

VARIABLES
  start, (* where the next block starts                                    *)
  limit  (* where the last one has to end                                  *)

Init == start = 0 /\ limit \in Limits

Block ==
  /\ start < limit
  /\ start' \in (start + 1) .. limit
  /\ start' <= start + MaxBlock
  /\ UNCHANGED limit

(* The next source of the same encoder. *)
Restart == start' = 0 /\ UNCHANGED limit

Next == Block \/ Restart

Spec == Init /\ [][Next]_<<start, limit>>

=============================================================================
