---------------------------- MODULE MCLevelParse ----------------------------
(***************************************************************************)
(* Small instances of LevelParse for TLC.                                  *)
(***************************************************************************)
EXTENDS LevelParse

CONSTANT
  MaxLen (* bytes that are compressed                                      *)

(* Every source over two bytes that begins with 0, and the bytes behind it.*)
BinarySources == {<<0>> \o s \o [i \in 1 .. Trail |-> 0] : s \in [1 .. (MaxLen - 1) -> 0 .. 1]}

Level0 == [advanced |-> TRUE, parser |-> "ultrafast", short |-> 3, entries |-> 1, block |-> 10]

MCOptions ==
  {Level0,
   [Level0 EXCEPT !.block = 6],
   [Level0 EXCEPT !.parser = "greedy"],
   [Level0 EXCEPT !.parser = "greedy", !.advanced = FALSE, !.block = 6],
   [Level0 EXCEPT !.parser = "lazyfast", !.short = 4, !.block = 7],
   [Level0 EXCEPT !.parser = "lazy", !.short = 4, !.block = 7, !.entries = 2],
   [Level0 EXCEPT !.parser = "lazy", !.short = 4, !.block = 12, !.entries = 2],
   [Level0 EXCEPT !.parser = "quick", !.block = 6],
   [Level0 EXCEPT !.parser = "quick", !.block = 12, !.advanced = FALSE]}

=============================================================================
