----------------------------- MODULE LevelParse -----------------------------
(***************************************************************************)
(* The parsers of levels 0 to 4 (compressor_levels.go) on their match      *)
(* finders, for two calls of one Encoder on the same source (encoder.go),  *)
(* and the quick parse of the block splitter (block_splitter.go), whose    *)
(* blocks here are subdivisions.                                           *)
(*                                                                         *)
(* The match finder belongs to the compressState.  A block is compressed   *)
(* on a copy of the state, so that a finder made for that block is lost    *)
(* when the block is written raw; a finder that the state has already is   *)
(* shared by the copy and keeps what was put into it.  The next call, if   *)
(* the size of the source and the options are the same, empties the finder.*)
(***************************************************************************)
EXTENDS MatchTables, BlockPlan

CONSTANTS
  Options, (* the options Encode may have, see OptionsType                 *)
  Patience (* positions without a match after which the lazy levels do     *)
           (* not try older distances: 7                                   *)

OptionsType ==
  [advanced : BOOLEAN,
   parser   : {"ultrafast", "greedy", "lazyfast", "lazy", "quick"},
   short    : Nat \ {0, 1},        (* minMatchLength: 6, 5, 4; 3 for quick *)
   entries  : Nat \ {0},           (* positions of a bucket: 1, 2 or 4     *)
   block    : Nat \ {0}]           (* levelMaxBlockSize; subdivisionSize   *)

(* Only the lazy levels have buckets of several positions; their matches   *)
(* have four bytes at least, and the words that are hashed end in the      *)
(* source also two positions behind a block.                               *)
ASSUME LevelParseAssumption ==
  /\ Options \subseteq OptionsType
  /\ \A o \in Options : /\ o.parser # "lazy" => o.entries = 1
                        /\ o.parser \in {"lazyfast", "lazy"} => o.short >= 4
                        /\ o.short < Trail
  /\ Long < Trail
  /\ Patience \in Nat

VARIABLES
  tables,  (* the positions of the match finder, by few and by many bytes  *)
  owned,   (* the compressState has a match finder                         *)
  call,    (* the first or the second Encode                               *)
  written, (* the blocks of this call: the recent distances before them,   *)
           (* their steps, and whether they are raw                        *)
  first,   (* the blocks of the first call                                 *)
  phase    (* "block", "search", "again", "done"                           *)

callVars == <<src, opts, call, first>>
blockVars == <<callVars, start, end, begin, owned, written>>
vars == <<blockVars, tables, pos, litStart, reps, steps, acceleration, phase>>

EmptyTables == [short |-> EmptyTable(opts.entries), long |-> EmptyTable(opts.entries)]

-----------------------------------------------------------------------------
BeginBlock ==
  /\ phase = "block"
  /\ start < CompressionLimit
  /\ end' = AtMost(start + opts.block, CompressionLimit)
  /\ begin' = [reps |-> reps]
  /\ tables' = IF owned THEN tables ELSE EmptyTables
  /\ IF opts.parser = "quick"
     THEN reps' = InitReps /\ pos' = start + 1 /\ litStart' = start
     ELSE pos' = FirstPos /\ litStart' = FirstPos /\ UNCHANGED reps
  /\ steps' = <<>>
  /\ acceleration' = Base
  /\ phase' = "search"
  /\ UNCHANGED <<callVars, start, owned, written>>

(* The literals before a match and the match are written.                  *)
Write(at, length, distance) ==
  /\ steps' = Append(steps, [pos |-> at, length |-> length, distance |-> distance])
  /\ reps' = Written(reps, distance)
  /\ pos' = at + length
  /\ litStart' = at + length

(* Faulty: the match is moved to the left but not made longer. *)
WriteMoved(at, match) ==
  LET left == LeftPart(at - litStart, at, at - match.at)
  IN  Write(at - left, match.length, at - match.at)

(* A match that was found, with the literals before it that agree.         *)
WriteFound(at, match) ==
  LET left == LeftPart(at - litStart, at, at - match.at)
  IN  Write(at - left, match.length + left, at - match.at)

NothingFound ==
  /\ pos' = pos + AtLeast(acceleration \div Base, 1)
  /\ acceleration' = acceleration + 1
  /\ UNCHANGED <<steps, reps, litStart>>

Turn(parsers) ==
  /\ phase = "search"
  /\ pos < end
  /\ opts.parser \in parsers
  /\ UNCHANGED blockVars

-----------------------------------------------------------------------------
(* Levels 0 and 1: compressBlockLevel.                                     *)

GreedyLength ==
  IF opts.parser = "greedy" THEN RepeatLength(pos + 1, reps[1], 3, end) ELSE 0

(* The last distance again, behind one literal.                            *)
GreedyRepeat ==
  /\ Turn({"greedy"})
  /\ GreedyLength > 0
  /\ Write(pos + 1, GreedyLength, reps[1])
  /\ tables' = [tables EXCEPT !.short = Put(@, pos + 1, opts.short, end)]
  /\ acceleration' = Base
  /\ UNCHANGED phase

(* addAfterMatch: the first positions inside the match.                    *)
AfterMatch(table, at, length) ==
  PutAll(table, Interval(at + 1, at + AtMost(IF opts.parser = "greedy" THEN 4 ELSE 2, length - 1)),
         opts.short, end)

(* findAndUpdate: the only position of the bucket.                         *)
FastSearch ==
  /\ Turn({"ultrafast", "greedy"})
  /\ GreedyLength = 0
  /\ LET prev  == Candidates(tables.short, pos, opts.short, end)[1]
         match == Better(NoMatch, pos, prev, opts.short, end)
         table == Put(tables.short, pos, opts.short, end)
         left  == LeftPart(pos - litStart, pos, pos - match.at)
     IN  IF match = NoMatch
         THEN /\ NothingFound
              /\ tables' = [tables EXCEPT !.short = table]
              /\ UNCHANGED phase
         ELSE /\ WriteFound(pos, match)
              /\ tables' = [tables EXCEPT !.short =
                              AfterMatch(table, pos - left, match.length + left)]
              /\ acceleration' = Base
              /\ phase' = "again"

(* The last distance behind one literal or two, after a match of level 0.  *)
AgainAt ==
  IF pos + 5 <= end /\ Byte(pos + 1) # Byte(pos + 1 - reps[1]) THEN pos + 2 ELSE pos + 1

AgainLength ==
  IF opts.parser = "ultrafast" /\ pos + 4 <= end
  THEN CommonLength(AgainAt, AgainAt - reps[1], end) ELSE 0

RecentAgain ==
  /\ phase = "again"
  /\ AgainLength >= 3
  /\ Write(AgainAt, AgainLength, reps[1])
  /\ tables' = [tables EXCEPT !.short = PutAll(@, <<AgainAt, AgainAt + 1>>, opts.short, end)]
  /\ UNCHANGED <<blockVars, acceleration, phase>>

(* An older distance at p, and its length or 0.                            *)
Older(least, p) ==
  LET at(rep) == RepeatLength(p, reps[rep], least, end)
  IN  IF ~opts.advanced THEN <<0, 0>>
      ELSE IF at(2) > 0 THEN <<reps[2], at(2)>> ELSE <<reps[3], at(3)>>

(* appendAdvancedRepeatMatch: level 0 goes on looking for repeats.         *)
OlderAgain ==
  /\ phase = "again"
  /\ AgainLength < 3
  /\ Older(4, pos)[2] > 0
  /\ Write(pos, Older(4, pos)[2], Older(4, pos)[1])
  /\ phase' = IF opts.parser = "ultrafast" THEN "again" ELSE "search"
  /\ UNCHANGED <<blockVars, tables, acceleration>>

NotAgain ==
  /\ phase = "again"
  /\ AgainLength < 3 /\ Older(4, pos)[2] = 0
  /\ phase' = "search"
  /\ UNCHANGED <<blockVars, tables, pos, litStart, reps, steps, acceleration>>

-----------------------------------------------------------------------------
(* Levels 2 to 4: compressBlockLazyWithFinder.                             *)

LazyParsers == {"lazyfast", "lazy"}

(* The length of the last distance behind one literal.                     *)
NextLength == RepeatLength(pos + 1, reps[1], 2, end)

PutRepeat(few, many) ==
  tables' = [short |-> PutAll(tables.short, few, opts.short, end),
             long  |-> PutAll(tables.long, many, Long, end)]

(* addLongRepeatPositions.                                                 *)
LongRepeat ==
  /\ Turn(LazyParsers)
  /\ NextLength >= 4
  /\ Write(pos + 1, NextLength, reps[1])
  /\ PutRepeat(Interval(pos, pos + 4), <<pos + 1>>)
  /\ acceleration' = Base
  /\ UNCHANGED phase

Patient == acceleration < Base + Patience /\ Older(2, pos)[2] > 0

(* appendLazyAdvancedRepeatMatch.                                          *)
LazyOlder ==
  /\ Turn(LazyParsers)
  /\ NextLength < 4 /\ Patient
  /\ Write(pos, Older(2, pos)[2], Older(2, pos)[1])
  /\ PutRepeat(<<pos, pos + 1>>, <<pos>>)
  /\ UNCHANGED <<acceleration, phase>>

(* addAfterMatch: around the end of the match, or all of it.               *)
AfterLazy(t, from, at, length) ==
  IF opts.parser = "lazyfast"
  THEN [short |-> PutAll(t.short, <<from + 3, at + length - 1, at + length - 3>>, opts.short, end),
        long  |-> PutAll(t.long, <<from + 3, at + length - 2, at + length - 4>>, Long, end)]
  ELSE LET inside == Interval(from + 3, at + AtMost(length, Refill) - 1)
       IN  [short |-> PutAll(t.short, inside, opts.short, end),
            long  |-> PutAll(t.long, inside, Long, end)]

(* A match here or, if it is longer, at one of the next two positions.     *)
LazySearch ==
  /\ Turn(LazyParsers)
  /\ NextLength < 4 /\ ~Patient
  /\ LET here  == FindLazy(tables, pos, end, opts.short, NextLength)
         next  == NextLazy(here.tables, pos + 1, end, opts.short, here.match)
         after == LastLazy(next.tables, pos + 2, end, opts.short, next.match)
         at    == pos + (IF after.match.length > next.match.length THEN 2
                         ELSE IF next.match.length > here.match.length THEN 1 ELSE 0)
     IN  IF here.match # NoMatch
         THEN /\ WriteFound(at, after.match)
              /\ tables' = AfterLazy(after.tables, pos, at, after.match.length)
              /\ acceleration' = Base
         ELSE IF NextLength > 0
         THEN /\ Write(pos + 1, NextLength, reps[1])
              /\ tables' = [here.tables EXCEPT !.short =
                              PutAll(@, <<pos + 1, pos + 2>>, opts.short, end)]
              /\ acceleration' = Base
         ELSE /\ NothingFound
              /\ tables' = here.tables
  /\ UNCHANGED phase

-----------------------------------------------------------------------------
(* The splitter: approximateSymbolHistogram.  Its dictionaries take        *)
(* positions up to the end of the source.                                  *)

PutQuick(few, many) ==
  tables' = [short |-> PutAll(tables.short, few, opts.short, Len(src)),
             long  |-> PutAll(tables.long, many, Long, Len(src))]

QuickRepeat ==
  /\ Turn({"quick"})
  /\ NextLength > 0
  /\ Write(pos + 1, NextLength, reps[1])
  /\ PutQuick(Interval(pos, pos + 2), <<pos + 1>>)
  /\ acceleration' = Base
  /\ UNCHANGED phase

QuickOlder ==
  /\ Turn({"quick"})
  /\ NextLength = 0
  /\ Older(2, pos)[2] > 0
  /\ Write(pos, Older(2, pos)[2], Older(2, pos)[1])
  /\ PutQuick(<<pos, pos + 1>>, <<pos>>)
  /\ acceleration' = Base
  /\ UNCHANGED phase

(* candidateAndUpdate: the distance is not tested yet.                     *)
LastSeen(table, p, n) ==
  IF table[Hash(p, n)][1] < p THEN table[Hash(p, n)][1] ELSE 0 - 1

(* matchLengthAtWindow.                                                    *)
BetterNear(w, p, prev, least) ==
  IF p - prev <= Farthest THEN Better(w, p, prev, least, end) ELSE w

(* A match here or a longer one at the next position.                      *)
QuickSearch ==
  /\ Turn({"quick"})
  /\ NextLength = 0 /\ Older(2, pos)[2] = 0
  /\ LET next   == pos + 1
         first3 == BetterNear(NoMatch, pos, LastSeen(tables.short, pos, opts.short), opts.short)
         pays   == first3 # NoMatch /\ (first3.length > opts.short \/ pos - first3.at < Near)
         here   == BetterNear(first3, pos, LastSeen(tables.long, pos, Long), Long)
         few    == Put(tables.short, pos, opts.short, Len(src))
         many   == Put(tables.long, pos, Long, Len(src))
         prev3  == LastSeen(few, next, opts.short)
         prev6  == LastSeen(many, next, Long)
         match  == BetterNear(here, next,
                              IF MayBeat(next, prev6, here.length) THEN prev6 ELSE prev3,
                              opts.short)
         at     == IF match.length > here.length THEN next ELSE pos
         last   == at + match.length
     IN  IF pays
         THEN /\ WriteFound(at, match)
              /\ tables' = [short |-> PutAll(few, <<next, last - 1, last - 3>>, opts.short,
                                             Len(src)),
                            long  |-> PutAll(many, <<next, last - 2>>, Long, Len(src))]
              /\ acceleration' =
                   IF match.length + LeftPart(at - litStart, at, at - match.at) > opts.short
                   THEN Base ELSE acceleration
         ELSE /\ NothingFound
              /\ tables' = [tables EXCEPT !.short = few]
  /\ UNCHANGED phase

-----------------------------------------------------------------------------
(* The blocks and the calls.                                               *)

(* The block that is ending.  Its steps, the distances they are coded      *)
(* after and whether it is written raw are all that is kept of it.         *)
ThisBlock(raw) == [reps |-> begin.reps, steps |-> steps, raw |-> raw]

(* The block is kept, or written raw, by the size of its code: the same    *)
(* steps after the same distances have the same fate in both calls.        *)
SameFate(block) ==
  LET before == first[Len(written) + 1]
  IN  call = 2 /\ before.steps = block.steps /\ before.reps = block.reps => before = block

BlockDone(raw) ==
  /\ phase = "search"
  /\ pos >= end
  /\ SameFate(ThisBlock(raw))
  /\ opts.parser = "quick" => ~raw
  /\ start' = end
  /\ written' = Append(written, ThisBlock(raw))
  /\ reps' = IF raw THEN begin.reps ELSE reps
  /\ owned' = (owned \/ ~raw)
  /\ steps' = <<>>
  /\ phase' = "block"
  /\ UNCHANGED <<callVars, end, begin, tables, pos, litStart, acceleration>>

(* Faulty: the finder keeps the positions of the last source. *)
KeepTables == tables

(* resetForEncode.                                                         *)
TablesForCall == IF owned THEN EmptyTables ELSE tables

NextCall ==
  /\ phase = "block"
  /\ start >= CompressionLimit
  /\ call = 1
  /\ call' = 2
  /\ first' = written
  /\ written' = <<>>
  /\ start' = 0 /\ end' = 0
  /\ reps' = InitReps
  /\ tables' = TablesForCall
  /\ UNCHANGED <<src, opts, begin, owned, pos, litStart, steps, acceleration, phase>>

Finish ==
  /\ phase = "block"
  /\ start >= CompressionLimit
  /\ call = 2
  /\ phase' = "done"
  /\ UNCHANGED <<blockVars, tables, pos, litStart, reps, steps, acceleration>>

Init ==
  /\ src \in Sources
  /\ opts \in Options
  /\ start = 0 /\ end = 0
  /\ begin = [reps |-> InitReps]
  /\ tables = EmptyTables /\ owned = FALSE
  /\ call = 1 /\ written = <<>> /\ first = <<>>
  /\ pos = 0 /\ litStart = 0
  /\ reps = InitReps /\ steps = <<>>
  /\ acceleration = Base
  /\ phase = "block"

Next ==
  \/ BeginBlock
  \/ GreedyRepeat
  \/ FastSearch
  \/ RecentAgain
  \/ OlderAgain
  \/ NotAgain
  \/ LongRepeat
  \/ LazyOlder
  \/ LazySearch
  \/ QuickRepeat
  \/ QuickOlder
  \/ QuickSearch
  \/ \E raw \in BOOLEAN : BlockDone(raw)
  \/ NextCall
  \/ Finish

Spec == Init /\ [][Next]_vars

-----------------------------------------------------------------------------
(* Properties.                                                             *)

(* Whatever a bucket held, a repeat guessed or an extension took, each     *)
(* match of the plan is one in the source, within reach and within its     *)
(* block, and the plan is in order: the splitter counts no byte twice.     *)
PlanTrue == StepsTrue

(* No position in a table is ahead of the parser, however it came there:   *)
(* a search would reject it, and it has displaced one that would do.       *)
TablesBehind ==
  phase \in {"search", "again"} =>
    \A b \in 0 .. (Buckets - 1) : \A i \in 1 .. opts.entries :
      tables.short[b][i] < pos /\ tables.long[b][i] < pos

Output(blocks) == [b \in DOMAIN blocks |-> IF blocks[b].raw THEN <<>> ELSE blocks[b].steps]

(* A source whose first block was kept is compressed by a reused encoder   *)
(* as it was by a new one.                                                 *)
ReusedAlike == (call = 2 /\ ~first[1].raw) => IsPrefix(Output(written), Output(first))

(* A reused encoder writes what a new one writes.                          *)
Reproducible == call = 2 => IsPrefix(Output(written), Output(first))

(* Every turn of the loops moves forward, or leaves the repeats.           *)
MovesOn ==
  [][(phase \in {"search", "again"} /\ phase' # "block") =>
       (pos' > pos \/ (phase = "again" /\ phase' = "search"))]_vars

=============================================================================
