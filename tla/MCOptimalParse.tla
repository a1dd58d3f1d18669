--------------------------- MODULE MCOptimalParse ---------------------------
(***************************************************************************)
(* Small instances of OptimalParse for TLC.                                *)
(***************************************************************************)
EXTENDS OptimalParse

CONSTANT
  MaxLen (* bytes that are compressed                                      *)

(* Every source over two bytes that begins with 0, and the bytes behind it.*)
BinarySources == {<<0>> \o s \o [i \in 1 .. Trail |-> 0] : s \in [1 .. (MaxLen - 1) -> 0 .. 1]}

Options1 == [advanced |-> TRUE, huffman |-> TRUE, parser |-> "optimal2",
             iterations |-> 2, arrivals |-> 8]

MCOptions ==
  {Options1,
   [Options1 EXCEPT !.advanced = FALSE, !.parser = "optimal3", !.iterations = 1, !.arrivals = 2],
   [Options1 EXCEPT !.parser = "optimal1", !.arrivals = 1]}

(* A model by which literals of byte 0 are free and short runs are cheap,  *)
(* and one by which everything costs the same.                             *)
MCLiteral(model, place, byte) == IF model = Raw THEN 8 ELSE IF byte = 0 THEN 0 ELSE 5

MCToken(model, run, field, n) == IF model = Raw THEN 8 ELSE run + field

MCDistance(model, distance) == IF model = Raw THEN 8 ELSE 9

MCLength(model, n) == IF model = Raw THEN 8 ELSE IF n = 0 THEN 6 ELSE 2

=============================================================================
