-------------------------- MODULE LosslessChannel ---------------------------
(***************************************************************************)
(* What Encode followed by Decode promises (api.go, encoder.go,            *)
(* decoder.go), with no mention of blocks, tokens or distances: the bytes  *)
(* that reach the output are always the input's own, in order; the decoder *)
(* accepts only the whole input in an output of exactly its size; and it   *)
(* rejects only a stream its encoder was told to cut short, or an output   *)
(* of another size.                                                        *)
(***************************************************************************)
EXTENDS Integers, Sequences, SequencesExt

CONSTANT Inputs      (* the inputs: a set of sequences of bytes            *)

VARIABLES
  input,  (* the bytes given to Encode                                     *)
  cut,    (* TRUE once Encode has returned ErrInterrupted                  *)
  room,   (* the size of the output, NoRoom until Decode is called         *)
  output, (* the bytes Decode has produced                                 *)
  verdict (* "none", then "ok" or "corrupt"                                *)

vars == <<input, cut, room, output, verdict>>

NoRoom == -1

Init ==
  /\ input \in Inputs
  /\ cut = FALSE
  /\ room = NoRoom
  /\ output = <<>>
  /\ verdict = "none"

(* The progress callback ends Encode before the whole input is written.    *)
Interrupt ==
  /\ room = NoRoom
  /\ ~cut
  /\ cut' = TRUE
  /\ UNCHANGED <<input, room, output, verdict>>

(* Decode is called with an output of some size.                           *)
Open ==
  /\ room = NoRoom
  /\ room' \in Nat
  /\ UNCHANGED <<input, cut, output, verdict>>

(* Some more bytes of the input arrive. *)
Produce ==
  /\ room # NoRoom
  /\ verdict = "none"
  /\ IsStrictPrefix(output, output')
  /\ IsPrefix(output', input)
  /\ Len(output') <= room
  /\ UNCHANGED <<input, cut, room, verdict>>

(* Some more bytes of the input arrive and the decoder ends. *)
Accept ==
  /\ room = Len(input)
  /\ ~cut
  /\ verdict = "none"
  /\ output' = input
  /\ verdict' = "ok"
  /\ UNCHANGED <<input, cut, room>>

Reject ==
  /\ room # NoRoom
  /\ cut \/ room # Len(input)
  /\ verdict = "none"
  /\ verdict' = "corrupt"
  /\ UNCHANGED <<input, cut, room, output>>

Next ==
  \/ Interrupt
  \/ Open
  \/ Produce
  \/ Accept
  \/ Reject

Spec == Init /\ [][Next]_vars

(* The channel promises an answer. *)
Answered == <>(verdict # "none")

=============================================================================
