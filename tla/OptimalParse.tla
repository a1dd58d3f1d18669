---------------------------- MODULE OptimalParse ----------------------------
(***************************************************************************)
(* The optimal parsers of levels 5 and up (optimal_parse.go) on their match*)
(* finders, for the blocks of one source (compressBlockOptimal).           *)
(*                                                                         *)
(* A block is parsed in chunks.  For each position of a chunk the parser   *)
(* keeps the cheapest arrivals, optimal1 only one, each with the recent    *)
(* distances of its path and a reference to the arrival before it; a chunk *)
(* ends with the path back from one arrival, and often early.  Where       *)
(* nothing is found for long, a greedy search takes over.  When a block is *)
(* parsed more than once, its matches are found first and kept in a buffer.*)
(*                                                                         *)
(* Each block begins with a model of what its symbols cost, from which it  *)
(* follows whether it is parsed for Huffman codes and how often.  A model  *)
(* is a choice of a few; what a literal or a match costs by it depends on  *)
(* bytes, lengths, runs and recent distances as in the code.               *)
(***************************************************************************)
EXTENDS MatchTree, MatchTables, BlockPlan

CONSTANTS
  Cuts,      (* where blocks may end before the last                       *)
  Options,   (* the options Encode may have, see OptionsType               *)
  ChunkSize, (* optimalBlockSize - 1                                       *)
  FirstNice, (* niceLength of the first of two iterations                  *)
  Stored,    (* noHuffmanStoredMatchLength cuts to this length: 8          *)
  Span,      (* lengths below the longest that are tried: 15               *)
  Models,    (* names of cost models, see optimalCostModel                 *)
  Raw,       (* that of newRawOptimalCostModel's                           *)
  Deltas,    (* those by which literals are differences                    *)
  LiteralSymbol(_, _, _),  (* what a literal costs by the model, its place *)
                           (* in a group of four and its byte or difference*)
  TokenSymbol(_, _, _, _), (* a token by its run of literals, its distance *)
                           (* field and its match length                   *)
  DistanceSymbol(_, _),    (* a distance of its own                        *)
  LengthSymbol(_, _),      (* the rest of a run or match length            *)
  MostSymbol, (* the most that a symbol with its extra bits costs          *)
  FullRun,   (* literals that a token cannot count itself: 7               *)
  LongMatch, (* match length that a token cannot hold itself: 9            *)
  Remote,    (* distances above cost a bit of speed: 1 << 16               *)
  CostScale, (* optimalCostScale: 4096                                     *)
  Infinite   (* maxInt: the cost of a place without a path                 *)

OptionsType ==
  [advanced   : BOOLEAN,            (* decSpeedBias < 0.1                  *)
   huffman    : BOOLEAN,            (* decSpeedBias < 0.99                 *)
   parser     : {"optimal1", "optimal2", "optimal3"},
   iterations : 1 .. 3,             (* parserIterations                    *)
   arrivals   : 1 .. 16]            (* maxArrivals                         *)

(* Runs and lengths in a chunk are below this.                             *)
MostLength == ChunkSize + 1 + AtLeast(NiceLength, FirstNice)

ASSUME ModelsAssumption ==
  /\ Raw \in Models /\ Deltas \subseteq Models /\ MostSymbol \in Nat
  /\ FullRun \in Nat \ {0} /\ LongMatch \in Nat \ {0, 1}
  /\ \A m \in Models :
       /\ \A place \in 0 .. 3, byte \in 0 .. 255 :
            LiteralSymbol(m, place, byte) \in 0 .. MostSymbol
       /\ \A run \in 0 .. FullRun, field \in 0 .. 3, n \in 2 .. LongMatch :
            TokenSymbol(m, run, field, n) \in 0 .. MostSymbol
       /\ \A distance \in 1 .. Farthest : DistanceSymbol(m, distance) \in 0 .. MostSymbol
       /\ \A n \in 0 .. MostLength : LengthSymbol(m, n) \in 0 .. MostSymbol

ASSUME OptimalParseAssumption ==
  /\ Cuts \subseteq Nat /\ Sources \subseteq Seq(0 .. 255)
  /\ Options \subseteq OptionsType
  /\ \A o \in Options : o.advanced => o.huffman
  /\ \A o \in Options : o.parser = "optimal1" => o.arrivals = 1
  /\ ChunkSize \in Nat \ {0} /\ FirstNice \in Nat \ {0, 1}
  /\ Stored \in Nat \ {0, 1} /\ Span \in Nat /\ CostScale \in Nat \ {0}
  /\ Remote \in Nat

(* What a step costs at most, and a path of n bytes with what a chunk      *)
(* begins with.                                                            *)
MostStep    == CostScale * (3 * MostSymbol) + 4
MostCost(n) == 64 * CostScale + n * MostStep

(* An int has room for the cost of every path through a chunk.             *)
ASSUME CostAssumption == Infinite \in Nat /\ MostCost(ChunkSize + 1) < Infinite

VARIABLES
  tables, (* the tables of optimal1, by 3, by 4 and by Long bytes          *)
  buffer, (* the matches kept for each position of the block               *)
  fill,   (* the locals of fillMatchBuffer                                 *)
  iteration,
  coding, (* how the block is parsed: noHuffmanCosts, iterations and the   *)
          (* name of the model                                             *)
  chunk,        (* the chunk being parsed, with its arrivals               *)
  result,       (* what the chunk yielded: steps and consumed              *)
  phase         (* "block", "fill", "parse", "expand", "take", "done"      *)

blockVars == <<src, opts, start, end, begin>>
parseVars == <<iteration, coding, pos, litStart, reps, steps>>
vars == <<blockVars, treeVars, tables, buffer, fill, parseVars, acceleration, chunk, result, phase>>

Buffered == coding.iterations > 1

(* optimalParserIterationOptions.                                          *)
First == iteration = 1 /\ Buffered
Nice == IF First THEN FirstNice ELSE NiceLength
MaxArrivals == IF First THEN AtLeast(opts.arrivals \div 4, 1) ELSE opts.arrivals

NoChunk  == [from |-> 0]
NoResult == [steps |-> <<>>, consumed |-> 0]
NoFill   == [at |-> 0, acceleration |-> Base]

EmptyTables ==
  [few |-> EmptyTable(1), short |-> EmptyTable(DepthLimit), long |-> EmptyTable(DepthLimit)]

-----------------------------------------------------------------------------
(* The block and its match buffer.                                         *)

(* useNoHuffmanParserCosts, optimalParserIterations: with a model for which*)
(* no stream has Huffman codes, with none or one that is not enabled, and  *)
(* with one that has some.                                                 *)
Codings ==
  IF ~opts.huffman THEN {[noHuffman |-> TRUE, iterations |-> 1, model |-> Raw]}
  ELSE [noHuffman : BOOLEAN, iterations : {1}, model : {Raw}] \union
       [noHuffman  : {FALSE},
        iterations : {IF opts.parser = "optimal1" THEN 1 ELSE opts.iterations},
        model      : Models \ {Raw}]

BeginBlock(to, how) ==
  /\ phase = "block"
  /\ start < CompressionLimit
  /\ to \in (start + 1) .. CompressionLimit
  /\ end' = to
  /\ begin' = [reps |-> reps, acceleration |-> acceleration]
  /\ buffer' = [p \in start .. (to - 1) |-> <<>>]
  /\ fill' = [at |-> FirstPos, acceleration |-> Base]
  /\ how \in Codings
  /\ coding' = how
  /\ iteration' = 1
  /\ pos' = FirstPos /\ litStart' = FirstPos
  /\ steps' = <<>>
  /\ phase' = IF how.iterations > 1 THEN "fill" ELSE "parse"
  /\ UNCHANGED <<src, opts, start, treeVars, tables, reps, acceleration, chunk, result>>

MaxPerPos == AtMost(DepthLimit + 1, 4)

LastOf(matches, n) == SubSeq(matches, Len(matches) - AtMost(n, Len(matches)) + 1, Len(matches))

(* Faulty: the tail of a long match is as long as the match. *)
WholeTail(p, best) ==
  [q \in start .. (end - 1) |->
     IF p < q /\ q < p + best.length /\ best.length - (q - p) > 2
     THEN <<best>> ELSE buffer[q]]

(* The positions inside a long match get its tail.                         *)
TailFilled(p, best) ==
  [q \in start .. (end - 1) |->
     IF p < q /\ q < p + best.length /\ best.length - (q - p) > 2
     THEN <<[best EXCEPT !.length = @ - (q - p)]>> ELSE buffer[q]]

(* One turn of the loop of fillMatchBuffer.                                *)
FillNext ==
  /\ phase = "fill"
  /\ fill.at < end
  /\ LET p     == fill.at
         found == Find(tree, p, end, 3)
         best  == found.matches[Len(found.matches)]
         wait  == IF found.matches = <<>>
                  THEN fill.acceleration + (IF opts.parser = "optimal3" THEN 0 ELSE 1)
                  ELSE IF best.length >= 4 THEN Base ELSE fill.acceleration
     IN  IF found.matches # <<>> /\ best.length >= NiceLength
         THEN /\ TreeIs(UpdateAll(found.tree, p + 1, AtMost(end, p + NiceLength)))
              /\ buffer' = [TailFilled(p, best) EXCEPT
                              ![p] = LastOf(found.matches, MaxPerPos)]
              /\ fill' = [fill EXCEPT !.at = AtMost(p + best.length, end)]
         ELSE /\ TreeIs(found.tree)
              /\ buffer' = [buffer EXCEPT ![p] = LastOf(found.matches, MaxPerPos)]
              /\ fill' = [at |-> AtMost(p + AtLeast(wait \div Base, 1), end), acceleration |-> wait]
  /\ UNCHANGED <<blockVars, tables, parseVars, acceleration, chunk, result, phase>>

FillDone ==
  /\ phase = "fill"
  /\ fill.at >= end
  /\ fill' = NoFill
  /\ phase' = "parse"
  /\ UNCHANGED <<blockVars, treeVars, tables, buffer, parseVars, acceleration, chunk, result>>

-----------------------------------------------------------------------------
(* The match finders: the tree or its buffer, and the tables of optimal1.  *)

TablesWith(t, p) ==
  [few |-> Put(t.few, p, 3, end), short |-> Put(t.short, p, 4, end),
   long |-> Put(t.long, p, Long, end)]

(* findMatchesAndUpdate of levelOptimalMatchFinder: ever longer matches, of*)
(* two candidates in one place the one by many bytes.                      *)
Longer(w, p, prev, least) ==
  LET length == CommonLength(p, prev, end)
  IN  IF prev >= 0 /\ length >= least /\ length > w.last
      THEN [last |-> length,
            matches |-> Append(w.matches, [length |-> length, distance |-> p - prev])]
      ELSE w

LongerOfTwo(w, p, long, short) ==
  IF MayBeat(p, long, w.last) THEN Longer(w, p, long, 4)
  ELSE IF MayBeat(p, short, w.last) THEN Longer(w, p, short, 4) ELSE w

LongerOf(w, p, long, short) ==
  LET longer[i \in 0 .. DepthLimit] ==
        IF i = 0 THEN w ELSE LongerOfTwo(longer[i - 1], p, long[i], short[i])
  IN  longer[DepthLimit]

FindAll(p, last) ==
  LET none  == [last |-> last, matches |-> <<>>]
      three == IF last < 3 THEN Longer(none, p, Candidates(tables.few, p, 3, end)[1], 3)
               ELSE none
  IN  IF p + Long > end
      THEN [tree |-> tree, tables |-> [tables EXCEPT !.few = Put(@, p, 3, end)],
            matches |-> three.matches]
      ELSE [tree |-> tree, tables |-> TablesWith(tables, p),
            matches |-> LongerOf(three, p, Candidates(tables.long, p, Long, end),
                                 Candidates(tables.short, p, 4, end)).matches]

FinderIs(f) == TreeIs(f.tree) /\ tables' = f.tables

InTree(found) == [tree |-> found.tree, tables |-> tables, matches |-> found.matches]

KeptOne(list, m, minimum) == IF m.length >= minimum THEN Append(list, m) ELSE list

Kept(p, minimum) ==
  LET kept[i \in 0 .. Len(buffer[p])] ==
        IF i = 0 THEN <<>> ELSE KeptOne(kept[i - 1], buffer[p][i], minimum)
  IN  [tree |-> tree, matches |-> kept[Len(buffer[p])]]

(* Faulty: the matches may go past the end of the block. *)
MatchesPastBlock(p, minimum) ==
  CASE opts.parser = "optimal1" -> FindAll(p, minimum)
    [] Buffered -> InTree(Kept(p, minimum))
    [] OTHER -> InTree(Find(tree, p, CompressionLimit, minimum))

(* findLZMatchesAndUpdate of either source, findMatchesAndUpdate.          *)
Matches(p, minimum) ==
  CASE opts.parser = "optimal1" -> FindAll(p, minimum)
    [] Buffered -> InTree(Kept(p, minimum))
    [] OTHER -> InTree(Find(tree, p, end, minimum))

TablesWithAll(t, from, to) ==
  LET put[i \in 0 .. AtLeast(to - from, 0)] ==
        IF i = 0 THEN t ELSE TablesWith(put[i - 1], from + i - 1)
  IN  put[AtLeast(to - from, 0)]

(* Faulty: one position too many. *)
PassedPast(f, from, to) ==
  CASE opts.parser = "optimal1" ->
         [f EXCEPT !.tables = TablesWithAll(@, from, to + 1)]
    [] Buffered -> f
    [] OTHER -> [f EXCEPT !.tree = UpdateAll(@, from, to + 1)]

(* The positions from .. to - 1 are put into the finder f.                 *)
PassedAll(f, from, to) ==
  CASE opts.parser = "optimal1" ->
         [f EXCEPT !.tables = TablesWithAll(@, from, to)]
    [] Buffered -> f
    [] OTHER -> [f EXCEPT !.tree = UpdateAll(@, from, to)]

Finders == [tree |-> tree, tables |-> tables]

(* updateOptimalMatchSourcePosition, updatePosition.                       *)
Passed(p) == PassedAll(Finders, p, p + 1)

(* The positions of a match that ends a chunk:                             *)
(* updateOptimalMatchSourceTerminalOverlap,                                *)
(* updateOptimalFinderTerminalOverlap.                                     *)
Overlapped(f, p, m) ==
  PassedAll(f, p + 1, AtMost(p + AtMost(AtMost(m.distance, m.length), Nice),
                             IF opts.parser = "optimal1" THEN end ELSE CompressionLimit))

-----------------------------------------------------------------------------
(* Arrivals.                                                               *)

NoArrival == [cost |-> Infinite, prev |-> 0, path |-> 0, len |-> 0, dist |-> 0,
              run |-> 0, reps |-> <<0, 0, 0>>]

(* updateOptimalRepOffsets.                                                *)
UpdatedReps(r, distance) ==
  IF ~opts.advanced          THEN <<distance, r[2], r[3]>>
  ELSE IF distance = r[1]    THEN r
  ELSE IF distance = r[2]    THEN <<distance, r[1], r[3]>>
  ELSE <<distance, r[1], r[2]>>

(* noHuffmanStoredMatchLength.                                             *)
StoredLength(length) ==
  IF coding.noHuffman /\ length > Stored /\ length <= 2 * Stored THEN Stored ELSE length

(* optimalLiteralCost, literalSymbolCost: a literal at p after the arrival *)
(* now, which also changes what the length of its run costs.               *)
LiteralCost(p, now) ==
  LET m == coding.model
      back == now.reps[1]
      symbol == IF m \in Deltas /\ back \in 1 .. p THEN (Byte(p) - Byte(p - back)) % 256 ELSE Byte(p)
      runCost(n) == IF n < FullRun THEN 0 ELSE LengthSymbol(m, n - FullRun)
  IN  CostScale * (LiteralSymbol(m, p % 4, symbol) + runCost(now.run + 1) - runCost(now.run))
        + (IF now.run = FullRun - 1 THEN 2 ELSE 0)

(* The field of the token for a distance.                                  *)
DistanceField(distance, r) ==
  IF opts.advanced THEN AdvField(r, distance) ELSE StdField(r[1], distance)

(* optimalMatchCostWithDistancePenalty, noHuffmanMatchCostWithDistance-    *)
(* Penalty: a match of n bytes after the arrival now.                      *)
MatchCost(n, distance, now, penalty) ==
  LET m == coding.model
      field == DistanceField(distance, now.reps)
      long == n >= LongMatch
      fresh == field = 3 \/ (field > 0 /\ ~opts.advanced)
  IN  CostScale * (TokenSymbol(m, AtMost(now.run, FullRun), field, AtMost(n, LongMatch))
                   + (IF long THEN LengthSymbol(m, n - LongMatch) ELSE 0)
                   + (IF fresh THEN DistanceSymbol(m, distance) ELSE 0))
        + 1 + (IF long THEN 2 ELSE 0) + (IF penalty /\ distance > Remote THEN 1 ELSE 0)

(* multiArrivalCostPruned.                                                 *)
Pruned(cost, next, slack) ==
  cost # Infinite /\ next # Infinite /\ cost >= slack /\ cost - slack >= next

(* insertOptimalArrival: arrivals by cost, and none behind a cheaper one   *)
(* with the same last distance.                                            *)
Insert(slots, new) ==
  LET ends == {s \in DOMAIN slots : \/ slots[s].cost <= new.cost /\ slots[s].reps[1] = new.reps[1]
                                    \/ new.cost < slots[s].cost}
      at   == CHOOSE s \in ends : \A t \in ends : s <= t
  IN  IF ends = {} \/ slots[at].cost <= new.cost THEN slots
      ELSE [s \in DOMAIN slots |->
              IF s < at THEN slots[s] ELSE IF s = at THEN new ELSE slots[s - 1]]

(* A literal after the arrival now, in place path of position i.           *)
WithLiteral(arrivals, i, path, now) ==
  [arrivals EXCEPT ![i + 1] =
     Insert(@, [cost |-> now.cost + LiteralCost(chunk.from + i, now), prev |-> i, path |-> path, len |-> 0,
                dist |-> 0, run |-> now.run + 1, reps |-> now.reps])]

(* A match of each of these lengths after it; penalty: the finder's.       *)
WithMatches(arrivals, i, path, now, distance, lengths, penalty) ==
  LET stored == {StoredLength(n) : n \in lengths}
      new(n) == [cost |-> now.cost + MatchCost(n, distance, now, penalty), prev |-> i,
                 path |-> path, len |-> n, dist |-> distance, run |-> 0,
                 reps |-> UpdatedReps(now.reps, distance)]
  IN  [k \in DOMAIN arrivals |->
         IF k - i \in stored THEN Insert(arrivals[k], new(k - i)) ELSE arrivals[k]]

LengthsDown(longest, lowest) ==
  AtLeast(longest - Span, IF coding.noHuffman THEN longest ELSE lowest) .. longest

(* Faulty: the path is followed through the cheapest arrivals. *)
BackToCheapest(w, arrivals, from) ==
  LET a == arrivals[w.i][1]
  IN  IF w.i <= 0 THEN w
      ELSE [steps |-> IF a.len = 0 THEN w.steps
                      ELSE <<[pos |-> from + a.prev, length |-> a.len, distance |-> a.dist]>>
                             \o w.steps,
            i |-> a.prev, path |-> a.path]

(* From an arrival to the one before it.                                   *)
BackOne(w, arrivals, from) ==
  LET a == arrivals[w.i][w.path]
  IN  IF w.i <= 0 THEN w
      ELSE [steps |-> IF a.len = 0 THEN w.steps
                      ELSE <<[pos |-> from + a.prev, length |-> a.len, distance |-> a.dist]>>
                             \o w.steps,
            i |-> a.prev, path |-> a.path]

(* backtrackMultiArrivalSteps: the matches on the way to an arrival.       *)
Backtrack(arrivals, from, i, path) ==
  LET back[turn \in 0 .. i] ==
        IF turn = 0 THEN [steps |-> <<>>, i |-> i, path |-> path]
        ELSE BackOne(back[turn - 1], arrivals, from)
  IN  back[i].steps

-----------------------------------------------------------------------------
(* A chunk: multiArrivalOptimalParseDetailedWithAcceleration,              *)
(* optimalParseDetailedWithAcceleration.                                   *)

StartChunk ==
  /\ phase = "parse"
  /\ pos < end
  /\ acceleration < 2 * Base
  /\ LET first == (IF opts.parser = "optimal1" THEN 4 ELSE 64) * CostScale
         to    == pos + AtMost(ChunkSize + (IF opts.parser = "optimal1" THEN 1 ELSE 0), end - pos)
         known == AtMost(end, to + Nice)
     IN  chunk' = [from |-> pos, to |-> to, known |-> known, at |-> pos, reps |-> reps, skip |-> 0,
                   arrivals |->
                     [i \in 0 .. (known - pos) |-> [path \in 1 .. MaxArrivals |->
                        IF i = 0 /\ path = 1
                        THEN [NoArrival EXCEPT !.cost = first, !.reps = reps]
                        ELSE NoArrival]]]
  /\ phase' = "expand"
  /\ UNCHANGED <<blockVars, treeVars, tables, buffer, fill, parseVars, acceleration, result>>

Index == chunk.at - chunk.from

(* Recent distances of one arrival: longer matches than those found so far.*)
TryRecent(w, path, now, rep) ==
  LET distance == now.reps[rep]
      length == CommonLength(chunk.at, chunk.at - distance, end)
      limit == AtMost(length, chunk.known - chunk.at)
  IN  IF \/ w.match.length > 0
         \/ distance <= 0 \/ distance > Farthest \/ distance > chunk.at
         \/ chunk.at + 2 > end
      THEN w
      ELSE IF length < w.expected THEN w
      ELSE IF length >= Nice \div 2
      THEN [w EXCEPT !.match = [length |-> length, distance |-> distance], !.path = path]
      ELSE [w EXCEPT
              !.arrivals = WithMatches(@, Index, path, now, distance,
                                       LengthsDown(limit, w.expected), FALSE),
              !.expected = limit,
              !.acceleration = IF length >= 3 THEN Base ELSE @]

(* One arrival: a literal, and its recent distances.                       *)
TryPath(w, path) ==
  LET now == w.arrivals[Index][path]
      literal == [w EXCEPT !.arrivals = WithLiteral(@, Index, path, now)]
  IN  IF \/ w.stopped \/ w.match.length > 0
         \/ now.cost = Infinite
         \/ Pruned(now.cost, w.arrivals[Index + 1][1].cost, CostScale * MaxArrivals)
      THEN [w EXCEPT !.stopped = TRUE]
      ELSE LET last == TryRecent(literal, path, now, 1)
           IN  IF opts.advanced
               THEN TryRecent(TryRecent(last, path, now, 2), path, now, 3) ELSE last

Tried ==
  LET tried[path \in 0 .. MaxArrivals] ==
        IF path = 0
        THEN [arrivals |-> chunk.arrivals, expected |-> 2, acceleration |-> acceleration,
              match |-> [length |-> 0, distance |-> 0], path |-> 0, stopped |-> FALSE]
        ELSE TryPath(tried[path - 1], path)
  IN  tried[MaxArrivals]

(* The matches of the finder for one of the first two arrivals.            *)
TryMatch(w, path, now, m, expected) ==
  LET limit == AtMost(m.length, chunk.known - chunk.at)
      lowest == w.reduced + (IF limit # w.reduced THEN 1 ELSE 0)
  IN  IF m.distance <= 0 \/ m.distance = now.reps[1] \/ limit < expected THEN w
      ELSE [arrivals |-> IF limit < 3 THEN w.arrivals
                         ELSE WithMatches(w.arrivals, Index, path, now, m.distance,
                                          LengthsDown(limit, lowest), TRUE),
            reduced |-> limit]

TryAll(arrivals, path, matches, expected) ==
  LET tried[i \in 0 .. Len(matches)] ==
        IF i = 0 THEN [arrivals |-> arrivals, reduced |-> expected]
        ELSE TryMatch(tried[i - 1], path, arrivals[Index][path], matches[i], expected)
  IN  tried[Len(matches)].arrivals

Tries(arrivals, path) ==
  /\ arrivals[Index][path].cost # Infinite
  /\ ~Pruned(arrivals[Index][path].cost, arrivals[Index + 1][1].cost, CostScale * MaxArrivals)

TryMatches(arrivals, matches, expected) ==
  LET one == TryAll(arrivals, 1, matches, expected)
  IN  IF ~Tries(arrivals, 1) THEN arrivals
      ELSE IF MaxArrivals = 1 \/ ~Tries(one, 2) THEN one
      ELSE TryAll(one, 2, matches, expected)

(* finishOptimalParseResult: the last place up to i with an arrival.       *)
Settled(arrivals, i) ==
  IF opts.parser # "optimal1" THEN i
  ELSE CHOOSE b \in 0 .. i : /\ b = 0 \/ arrivals[b][1].cost # Infinite
                             /\ \A c \in (b + 1) .. i : arrivals[c][1].cost = Infinite

(* A place that is as cheap, further and further on.                       *)
FurtherBy(best, offset, arrivals, last) ==
  IF best + offset <= last /\ arrivals[best + offset][1].cost <= arrivals[best][1].cost
  THEN best + offset ELSE best

Further(arrivals, i, last) ==
  LET best[offset \in 0 .. (Nice - 1)] ==
        IF offset = 0 THEN AtMost(i, last)
        ELSE FurtherBy(best[offset - 1], offset, arrivals, last)
  IN  best[Nice - 1]

(* finishMultiArrivalParseResult: the best arrival from place i on.        *)
Finished(arrivals, i, consumed) ==
  LET best == Settled(arrivals, Further(arrivals, i, chunk.known - chunk.from))
  IN  [steps    |-> IF arrivals[best][1].cost = Infinite THEN <<>>
                    ELSE Backtrack(arrivals, chunk.from, best, 1),
       consumed |-> IF consumed = 0 THEN chunk.from + best ELSE consumed]

(* A long match ends the chunk.                                            *)
EndsWith(arrivals, at, path, m) ==
  [steps    |-> Append(Backtrack(arrivals, chunk.from, at - chunk.from, path),
                       [pos |-> at, length |-> m.length, distance |-> m.distance]),
   consumed |-> at + m.length]

GoOn(arrivals, skip, f, wait) ==
  /\ FinderIs(f)
  /\ chunk' = [chunk EXCEPT !.at = @ + 1, !.arrivals = arrivals, !.skip = skip]
  /\ acceleration' = wait
  /\ UNCHANGED <<result, phase>>

EndChunk(f, wait, yields) ==
  /\ FinderIs(f)
  /\ acceleration' = wait
  /\ result' = yields
  /\ chunk' = NoChunk
  /\ phase' = "take"

Turn(single) ==
  /\ phase = "expand" /\ chunk.at < chunk.to
  /\ single = (opts.parser = "optimal1")
  /\ UNCHANGED <<blockVars, buffer, fill, parseVars>>

(* One position; that it has no arrival never happens, since every position*)
(* that has one gives one to the next, whatever it costs.                  *)
ExpandPosition ==
  /\ Turn(FALSE)
  /\ LET w     == Tried
         found == Matches(chunk.at, w.expected)
         ms    == found.matches
         best  == ms[Len(ms)]
         wait  == w.acceleration + (IF opts.parser = "optimal3" THEN 0 ELSE 1)
     IN  IF chunk.arrivals[Index][1].cost = Infinite
         THEN GoOn(chunk.arrivals, 0, Passed(chunk.at), acceleration)
         ELSE IF w.match.length > 0
         THEN EndChunk(Overlapped(Finders, chunk.at, w.match), w.acceleration,
                       EndsWith(w.arrivals, chunk.at, w.path, w.match))
         ELSE IF Pruned(w.arrivals[Index][1].cost, w.arrivals[Index + 1][1].cost,
                        CostScale * (MaxArrivals \div 8))
         THEN GoOn(w.arrivals, 0, Passed(chunk.at), w.acceleration)
         ELSE IF ms = <<>>
         THEN IF wait >= 2 * Base
              THEN EndChunk(found, wait, Finished(w.arrivals, Index + 1, 0))
              ELSE GoOn(w.arrivals, 0, found, wait)
         ELSE IF best.length >= Nice
         THEN EndChunk(Overlapped(found, chunk.at, best), w.acceleration,
                       EndsWith(w.arrivals, chunk.at, 1, best))
         ELSE GoOn(TryMatches(w.arrivals, ms, w.expected), 0, found,
                   IF best.length >= 4 THEN Base ELSE w.acceleration)

-----------------------------------------------------------------------------
(* optimal1: one arrival for a position, and after a match at a recent     *)
(* distance a position is left out.                                        *)

(* The first recent distance at which there is a match.                    *)
FirstRecent(now) ==
  LET length(rep) == RepeatLength(chunk.at, now.reps[rep], 2, end)
      found == {rep \in 1 .. (IF opts.advanced THEN 3 ELSE 1) : length(rep) > 0}
      rep == CHOOSE r \in found : \A q \in found : r <= q
  IN  IF found = {} THEN [length |-> 0, distance |-> 0]
      ELSE [length |-> length(rep), distance |-> now.reps[rep]]

(* m with the bytes before it that are literals so far.                    *)
Extended(now, m) == [m EXCEPT !.length = @ + LeftPart(now.run, chunk.at, m.distance)]

(* The arrivals with a match at the current position, moved to the left.   *)
RelaxLeft(w, now, m) ==
  LET whole == Extended(now, m)
      i     == Index - (whole.length - m.length)
      limit == AtMost(whole.length, chunk.known - chunk.from - i)
      next  == WithMatches(w.arrivals, i, 1, w.arrivals[i][1], m.distance, {limit}, TRUE)
  IN  IF w.stopped \/ w.arrivals[i][1].cost = Infinite \/ limit < 3 THEN w
      ELSE [arrivals |-> next, stopped |-> next = w.arrivals]

(* From the longest match to the shortest.                                 *)
RelaxAll(arrivals, now, matches) ==
  LET relax[i \in 0 .. Len(matches)] ==
        IF i = 0 THEN [arrivals |-> arrivals, stopped |-> FALSE]
        ELSE RelaxLeft(relax[i - 1], now, matches[Len(matches) + 1 - i])
  IN  relax[Len(matches)].arrivals

SinglePosition ==
  /\ Turn(TRUE)
  /\ LET now     == chunk.arrivals[Index][1]
         recent  == FirstRecent(now)
         literal == WithLiteral(chunk.arrivals, Index, 1, now)
         relaxed == IF recent.length = 0 THEN literal
                    ELSE WithMatches(literal, Index, 1, now, recent.distance,
                                     {AtMost(recent.length, chunk.known - chunk.at)}, FALSE)
         found   == FindAll(chunk.at, IF recent.length = 0 THEN 1
                                      ELSE StoredLength(recent.length) + 1)
         ms      == found.matches
         longest == ms[Len(ms)]
         whole   == Extended(now, longest)
         at      == chunk.at - (whole.length - longest.length)
         skip    == IF recent.length > 0 THEN 1 ELSE chunk.skip
         wait    == IF recent.length >= 3 THEN Base ELSE acceleration
     IN  IF now.cost = Infinite
         THEN GoOn(chunk.arrivals, chunk.skip, Passed(chunk.at), acceleration)
         ELSE IF chunk.skip > 0 \/ now.cost >= chunk.arrivals[Index + 1][1].cost
         THEN GoOn(chunk.arrivals, AtLeast(chunk.skip - 1, 0), Passed(chunk.at), acceleration)
         ELSE IF recent.length >= Nice \div 2
         THEN EndChunk(Overlapped(Passed(chunk.at), chunk.at, recent), acceleration,
                       EndsWith(literal, chunk.at, 1, recent))
         ELSE IF ms = <<>>
         THEN IF wait + 1 >= 2 * Base
              THEN EndChunk(found, wait + 1, Finished(relaxed, Index + 1, 0))
              ELSE GoOn(relaxed, skip, found, wait + 1)
         ELSE IF longest.length >= Nice /\ relaxed[at - chunk.from][1].cost # Infinite
         THEN EndChunk(Overlapped(found, at, whole), wait, EndsWith(relaxed, at, 1, whole))
         ELSE GoOn(RelaxAll(relaxed, now, ms), skip, found,
                   IF longest.length >= 4 THEN Base ELSE wait)

ChunkDone ==
  /\ phase = "expand" /\ chunk.at >= chunk.to
  /\ EndChunk(Finders, acceleration,
              Finished(chunk.arrivals, chunk.to - chunk.from, chunk.to))
  /\ UNCHANGED <<blockVars, buffer, fill, parseVars>>

-----------------------------------------------------------------------------
(* The loop over the chunks of a block, and the blocks.                    *)

(* A step that overlaps what is parsed, or leaves the block, is dropped.   *)
TakeStep(w, step) ==
  IF step.pos < w.pos \/ step.pos + step.length > end THEN w
  ELSE [pos |-> step.pos + step.length, steps |-> Append(w.steps, step),
        reps |-> UpdatedReps(w.reps, step.distance)]

TakeSteps(list) ==
  LET take[i \in 0 .. Len(list)] ==
        IF i = 0 THEN [pos |-> pos, steps |-> steps, reps |-> reps]
        ELSE TakeStep(take[i - 1], list[i])
  IN  take[Len(list)]

(* Faulty: what a chunk has consumed is not left behind. *)
TakeOnly ==
  /\ phase = "take"
  /\ LET w == TakeSteps(result.steps)
     IN  /\ steps' = w.steps /\ reps' = w.reps
         /\ litStart' = IF w.pos = pos THEN litStart ELSE w.pos
         /\ pos' = w.pos
  /\ result' = NoResult
  /\ phase' = "parse"
  /\ UNCHANGED <<blockVars, treeVars, tables, buffer, fill, iteration, coding, acceleration, chunk>>

TakeResult ==
  /\ phase = "take"
  /\ LET w == TakeSteps(result.steps)
     IN  /\ steps' = w.steps /\ reps' = w.reps
         /\ litStart' = IF w.pos = pos THEN litStart ELSE w.pos
         /\ pos' = AtLeast(w.pos, result.consumed)
  /\ result' = NoResult
  /\ phase' = "parse"
  /\ UNCHANGED <<blockVars, treeVars, tables, buffer, fill, iteration, coding, acceleration, chunk>>

(* optimalGreedyFallbackStep: the longest match here, with all bytes before*)
(* it that agree, or some positions left out.                              *)
GreedyStep ==
  /\ phase = "parse"
  /\ pos < end
  /\ acceleration >= 2 * Base
  /\ LET found == Matches(pos, IF Buffered THEN 3 ELSE 4)
         best  == found.matches[Len(found.matches)]
         left  == LeftPart(pos - litStart, pos, best.distance)
     IN  /\ FinderIs(found)
         /\ IF found.matches # <<>>
            THEN /\ steps' = Append(steps, [pos |-> pos - left, length |-> best.length + left,
                                            distance |-> best.distance])
                 /\ reps' = UpdatedReps(reps, best.distance)
                 /\ pos' = pos + best.length
                 /\ litStart' = pos'
                 /\ acceleration' = Base
            ELSE /\ pos' = AtMost(pos + AtLeast(acceleration \div Base, 1), end)
                 /\ acceleration' = acceleration + 1
                 /\ UNCHANGED <<steps, reps, litStart>>
  /\ UNCHANGED <<blockVars, buffer, fill, iteration, coding, chunk, result, phase>>

(* The next parse is by a model of what the last one found.                *)
NextIteration(model) ==
  /\ phase = "parse"
  /\ pos >= end
  /\ iteration < coding.iterations
  /\ iteration' = iteration + 1
  /\ coding' = [coding EXCEPT !.model = model]
  /\ pos' = FirstPos /\ litStart' = FirstPos
  /\ reps' = begin.reps
  /\ steps' = <<>>
  /\ UNCHANGED <<blockVars, treeVars, tables, buffer, fill, acceleration, chunk, result, phase>>

(* The block is written, maybe before all iterations, when no better model *)
(* can be built; the state moves on unless the raw bytes are smaller.      *)
BlockDone(compressed) ==
  /\ phase = "parse"
  /\ pos >= end
  /\ start' = end
  /\ IF compressed THEN reps' = RepsBehind(begin.reps, steps) /\ UNCHANGED acceleration
     ELSE reps' = begin.reps /\ acceleration' = begin.acceleration
  /\ buffer' = <<>> /\ steps' = <<>>
  /\ phase' = "block"
  /\ UNCHANGED <<src, opts, end, begin, treeVars, tables, fill, iteration, coding, pos, litStart, chunk,
                 result>>

SourceDone ==
  /\ phase = "block"
  /\ start >= CompressionLimit
  /\ phase' = "done"
  /\ UNCHANGED <<blockVars, treeVars, tables, buffer, fill, parseVars, acceleration, chunk, result>>

Init ==
  /\ src \in Sources
  /\ opts \in Options
  /\ start = 0 /\ end = 0
  /\ begin = [reps |-> InitReps, acceleration |-> Base]
  /\ chain3 = EmptyTree.chain3 /\ lookup = EmptyTree.lookup
  /\ nodes = EmptyTree.nodes /\ inserted = {}
  /\ tables = EmptyTables
  /\ buffer = <<>> /\ fill = NoFill
  /\ iteration = 1 /\ pos = 0 /\ litStart = 0
  /\ coding = [noHuffman |-> ~opts.huffman, iterations |-> 1, model |-> Raw]
  /\ reps = InitReps
  /\ steps = <<>>
  /\ acceleration = Base
  /\ chunk = NoChunk /\ result = NoResult
  /\ phase = "block"

Next ==
  \/ \E to \in Cuts \union {CompressionLimit}, how \in Codings : BeginBlock(to, how)
  \/ FillNext
  \/ FillDone
  \/ StartChunk
  \/ ExpandPosition
  \/ SinglePosition
  \/ ChunkDone
  \/ TakeResult
  \/ GreedyStep
  \/ \E model \in Models : NextIteration(model)
  \/ \E compressed \in BOOLEAN : BlockDone(compressed)
  \/ SourceDone

Spec == Init /\ [][Next]_vars

-----------------------------------------------------------------------------
(* Properties.                                                             *)

(* Whatever was kept of a search, inherited from a longer match, cut or    *)
(* extended to the left, each match of the buffer and of the plan is one   *)
(* in the source, within reach and within its block, and the plan tiles    *)
(* the block (fillMatchBuffer, relaxMultiArrivalMatch,                     *)
(* optimalGreedyFallbackStep, compressBlockOptimal).                       *)
PlanTrue ==
  /\ \A p \in DOMAIN buffer : \A i \in DOMAIN buffer[p] : TrueMatch(p, buffer[p][i], end)
  /\ StepsTrue

(* The tree finds the longest match: where the search may visit all nodes  *)
(* of a tree, no position that is still in the window is lost to a later   *)
(* one, to a node that is used again or to a replaced position, unless a   *)
(* match of NiceLength makes up for it (findLZMatchesAndUpdate,            *)
(* updatePosition, btEnd).                                                 *)
FindsLongest ==
  LET p == Latest + 1
      visible == {q \in inserted : q > TreeEnd(p) /\ Hash(q, 4) = Hash(p, 4)}
  IN  (p < CompressionLimit /\ Cardinality(visible) <= DepthLimit) =>
        LET found == Find(tree, p, CompressionLimit, 3).matches
        IN  \A q \in visible :
              LET n == CommonLength(p, q, CompressionLimit)
              IN  (p - q <= Farthest /\ n >= 4) =>
                    \E i \in DOMAIN found : found[i].length >= AtMost(n, NiceLength)

(* Whatever ended a chunk, and however a match was moved or positions left *)
(* out, no position that is still to be parsed is in the finder: it could  *)
(* not be a match, and takes the place of one that could; and a block that *)
(* had its matches buffered leaves no position of the next one behind,     *)
(* which may be parsed without a buffer.  While it is parsed itself, all   *)
(* its positions are in the tree (fillMatchBuffer,                         *)
(* updateOptimalMatchSourceTerminalOverlap,                                *)
(* updateOptimalFinderTerminalOverlap).                                    *)
FinderBehind ==
  (phase = "block" \/ (phase = "parse" /\ ~Buffered)) =>
    /\ \A q \in inserted : q < pos
    /\ \A t \in {tables.few, tables.short, tables.long} :
         \A b \in DOMAIN t : \A i \in DOMAIN t[b] : t[b][i] < pos \/ t[b][i] = 0

(* The recent distances and the literal run of every arrival are those of  *)
(* the path that leads to it, though arrivals are moved when a better one  *)
(* comes and paths refer to them by place; and those of the parser are     *)
(* those of its steps: the encoder, which goes along the steps again, has  *)
(* the distances whose cost was counted (insertOptimalArrival,             *)
(* backtrackMultiArrivalSteps, parseOptimalBlockInternalDetailed).         *)
(* Not so for optimal1 without Huffman codes: a match moved to the left is *)
(* cut to the length of a short code and may then end where it was found   *)
(* or before, at an arrival that later ones have been counted from         *)
(* (optimalMatchCandidate, noHuffmanStoredMatchLength).                    *)
RepsFollowPath ==
  /\ phase \in {"fill", "parse", "expand", "take"} => reps = RepsBehind(begin.reps, steps)
  /\ phase = "expand" /\ ~(opts.parser = "optimal1" /\ coding.noHuffman) =>
       \A i \in DOMAIN chunk.arrivals : \A path \in 1 .. MaxArrivals :
         LET a    == chunk.arrivals[i][path]
             list == Backtrack(chunk.arrivals, chunk.from, i, path)
             done == IF list = <<>> THEN 0
                     ELSE list[Len(list)].pos + list[Len(list)].length - chunk.from
         IN  a.cost # Infinite => a.run = i - done /\ a.reps = RepsBehind(chunk.reps, list)

(* No step of a chunk overlaps what is parsed already or leaves the block, *)
(* so that the loops which would silently drop it never do                 *)
(* (parseOptimalBlockInternalDetailed, compressBlockOptimal).              *)
NothingDropped ==
  phase = "take" =>
    /\ Tiles(result.steps, pos)
    /\ \A i \in DOMAIN result.steps : result.steps[i].pos + result.steps[i].length <= end

(* Every chunk, however early it ends, moves the parser forward inside its *)
(* block (finishMultiArrivalParseResult).                                  *)
MovesOn == [][phase = "take" => pos' \in (pos + 1) .. end]_vars

=============================================================================
