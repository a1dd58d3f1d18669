----------------------------- MODULE BlockPlan ------------------------------
(***************************************************************************)
(* What the parsers of all levels share: the blocks of one source, and for *)
(* each block a plan, the matches that are written (compressor_levels.go,  *)
(* optimal_parse.go).                                                      *)
(***************************************************************************)
EXTENDS SourceBytes, DistanceCode

CONSTANTS
  Sources, (* the sources                                                  *)
  Base     (* 1 << accelerationThreshold: positions without a match        *)
           (* after which the steps get longer                             *)

ASSUME BlockPlanAssumption ==
  Sources \subseteq Seq(Nat) /\ Base \in Nat \ {0}

VARIABLES
  opts,  (* the options of this Encode; advanced: decSpeedBias < 0.1       *)
  start, (* blockStart and blockEnd                                        *)
  end,
  begin,        (* the state at the start of the block                     *)
  pos,
  litStart,     (* where the literals before the next match begin          *)
  reps,         (* the recent distances, latest first                      *)
  steps,        (* the matches chosen so far                               *)
  acceleration

(* The first byte of a source goes before all blocks.                      *)
FirstPos == IF start = 0 THEN 1 ELSE start

(* The recent distances after a distance, and after a list of steps.       *)
Written(r, distance) ==
  IF opts.advanced THEN RepsWritten(r, distance) ELSE <<distance, r[2], r[3]>>

RepsBehind(r, list) ==
  LET behind[i \in 0 .. Len(list)] ==
        IF i = 0 THEN r ELSE Written(behind[i - 1], list[i].distance)
  IN  behind[Len(list)]

(* Faulty: bytes of the match before are taken too. *)
LeftOfRun(run, p, distance) ==
  CHOOSE n \in 0 .. (p - distance) :
    /\ \A i \in 1 .. n : Byte(p - i) = Byte(p - distance - i)
    /\ n = p - distance \/ Byte(p - n - 1) # Byte(p - distance - n - 1)

(* A match grows to the left over those of the run of literals before it   *)
(* that agree: extendOptimalMatchLeft, and the same loop of other levels.  *)
LeftPart(run, p, distance) ==
  CHOOSE n \in 0 .. AtMost(run, p - distance) :
    /\ \A i \in 1 .. n : Byte(p - i) = Byte(p - distance - i)
    /\ \/ n = AtMost(run, p - distance)
       \/ Byte(p - n - 1) # Byte(p - distance - n - 1)

-----------------------------------------------------------------------------
(* The steps are in the order of the source and do not overlap.            *)
Tiles(list, from) ==
  \A i \in DOMAIN list :
    /\ list[i].length >= 2
    /\ list[i].pos >= (IF i = 1 THEN from ELSE list[i - 1].pos + list[i - 1].length)

(* Each step of the plan is a match in the source, within reach and within *)
(* its block, and they tile the block.                                     *)
StepsTrue ==
  /\ \A i \in DOMAIN steps : TrueMatch(steps[i].pos, steps[i], end)
  /\ Tiles(steps, FirstPos)

=============================================================================
