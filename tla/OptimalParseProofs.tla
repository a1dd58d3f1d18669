-------------------------- MODULE OptimalParseProofs -------------------------
(***************************************************************************)
(* Proofs about the optimal parsers and what they are given by their match *)
(* finders, for any source, any options and any size of tables, trees and  *)
(* chunks.                                                                 *)
(***************************************************************************)
EXTENDS OptimalParse, MatchTreeProofs

Reps  == [1 .. 3 -> Nat]
Step  == [pos : Nat, length : Nat, distance : Nat]

Table(entries, k) == [0 .. (Buckets - 1) -> [1 .. entries -> Below(k)]]
Tables(k)         == [few : Table(1, k), short : Table(DepthLimit, k), long : Table(DepthLimit, k)]
FinderTo(k)       == [tree : Trees(k), tables : Tables(k)]

(* A tree whose matches are buffered is ahead of the parser.               *)
Reach(k) == IF Buffered THEN end ELSE k

(* How a block is parsed.                                                  *)
CodingType == [noHuffman : BOOLEAN, iterations : 1 .. 3, model : Models]
Chosen ==
  /\ opts \in Options /\ coding \in CodingType
  /\ opts.parser = "optimal1" => coding.iterations = 1

(* An arrival at place i refers to an earlier place, from which it comes   *)
(* by a literal or by a match, or to none.                                 *)
Arrival == [cost : Int, prev : Nat, path : Nat, len : Nat, dist : Nat, run : Nat, reps : Reps]
Place(i) ==
  {a \in Arrival :
     /\ a.run <= i
     /\ a.cost = Infinite \/ a.cost <= MostCost(i)
     /\ i > 0 => a.prev < i
     /\ a.prev > 0 => a.path \in 1 .. MaxArrivals
     /\ a.len > 0 => /\ a.len >= 2 /\ a.prev + a.len = i
                     /\ Real(chunk.from + a.prev, a.len, a.dist)}
Places(n) ==
  {f \in [0 .. n -> [1 .. MaxArrivals -> Arrival]] :
     \A i \in 0 .. n : \A path \in 1 .. MaxArrivals : f[i][path] \in Place(i)}

(* Left out of what arrivals count is optimal1 without Huffman codes: see  *)
(* RepsFollowPath.                                                         *)
Counted == ~(opts.parser = "optimal1" /\ coding.noHuffman)

(* An arrival at place i counts what it adds to the one it comes from, at a*)
(* place that is looked at now or was before.                              *)
Follows(a, i) ==
  IF i = 0 THEN a.run = 0 /\ a.reps = chunk.reps
  ELSE /\ a.prev \in 0 .. Index /\ a.path \in 1 .. MaxArrivals
       /\ LET b == chunk.arrivals[a.prev][a.path]
          IN  /\ b.cost # Infinite
              /\ IF a.len = 0 THEN a.prev = i - 1 /\ a.run = b.run + 1 /\ a.reps = b.reps
                 ELSE a.run = 0 /\ a.reps = UpdatedReps(b.reps, a.dist)
Sound(i) == {a \in Place(i) : Counted => a.cost = Infinite \/ Follows(a, i)}

(* The places up to the current one stay as they are.                      *)
Followed(n) ==
  {f \in Places(n) :
     Counted => \A i \in 0 .. n :
                  /\ i <= Index => f[i] = chunk.arrivals[i]
                  /\ \A path \in 1 .. MaxArrivals :
                       f[i][path].cost = Infinite \/ Follows(f[i][path], i)}

Typed ==
  /\ src \in Sources /\ Chosen
  /\ start \in Nat /\ end \in Nat /\ pos \in Nat /\ litStart \in Nat
  /\ reps \in Reps /\ begin \in [reps : Reps, acceleration : Nat]
  /\ steps \in Seq([pos : Int, length : Int, distance : Nat])
  /\ acceleration \in Nat /\ iteration \in Nat \ {0}
  /\ fill \in [at : Nat, acceleration : Nat]
  /\ phase \in {"block", "fill", "parse", "expand", "take", "done"}

RealStep(s) == Real(s.pos, s.length, s.distance)

(* The list is a plan: matches, one behind the other.                      *)
Plan(list, from, to) ==
  /\ from <= to /\ Tiles(list, from)
  /\ \A i \in DOMAIN list : RealStep(list[i]) /\ list[i].pos + list[i].length <= to

(* Between blocks the finders have no position of the next one.            *)
Between ==
  phase \in {"block", "done"} =>
    /\ pos = start /\ end = start /\ steps = <<>> /\ buffer = <<>>
    /\ Finders \in FinderTo(Reach(pos))

(* In a block the parser is in the block, behind its literals, which are   *)
(* behind its plan, and matches are buffered for each position.            *)
InBlock ==
  phase \in {"fill", "parse", "expand", "take"} =>
    /\ start < end /\ end <= CompressionLimit
    /\ FirstPos <= pos /\ pos <= end /\ litStart <= pos
    /\ Plan(steps, FirstPos, litStart)
    /\ DOMAIN buffer = start .. (end - 1)
    /\ \A p \in DOMAIN buffer : buffer[p] \in Seq(Fits(p, end))
    /\ phase = "fill"  => Buffered /\ fill.at \in FirstPos .. end
    /\ phase = "fill"  => Finders \in FinderTo(fill.at)
    /\ phase = "parse" => Finders \in FinderTo(Reach(pos))

(* In a chunk the arrivals are linked, count what those they come from have*)
(* counted and what they add, and the finder is where the parser is.       *)
InChunk ==
  phase = "expand" =>
    /\ chunk \in [from : Nat, to : Nat, known : Nat, at : Nat, reps : Reps, skip : Nat,
                  arrivals : Places(chunk.known - chunk.from)]
    /\ chunk.arrivals \in Followed(chunk.known - chunk.from)
    /\ chunk.from = pos /\ pos < chunk.to /\ chunk.to <= chunk.known
    /\ chunk.known = AtMost(end, chunk.to + Nice)
    /\ chunk.to - pos <= ChunkSize + 1
    /\ chunk.at \in pos .. chunk.to
    /\ Finders \in FinderTo(Reach(chunk.at))

(* What a chunk has yielded is in order and ahead of the parser, and the   *)
(* finder is not ahead of it.                                              *)
Ended ==
  phase = "take" =>
    /\ result.steps \in Seq(Step)
    /\ Tiles(result.steps, pos)
    /\ \A i \in DOMAIN result.steps : /\ result.steps[i].pos + result.steps[i].length <= end
                                     /\ RealStep(result.steps[i])
    /\ result.consumed \in (pos + 1) .. end
    /\ Finders \in FinderTo(Reach(result.consumed))

IInv == Typed /\ Between /\ InBlock /\ InChunk /\ Ended

-----------------------------------------------------------------------------
(* What one step keeps, a list of steps keeps.                             *)

(* The positions that are put into the tables of optimal1.                 *)
LEMMA TablesKeep ==
  ASSUME NEW X, NEW w \in X, NEW from, NEW to, NEW m \in Nat, m = AtLeast(to - from, 0),
         \A x \in X : \A i \in 1 .. m : TablesWith(x, from + i - 1) \in X
  PROVE  TablesWithAll(w, from, to) \in X
<1> DEFINE g[i \in 0 .. m] == IF i = 0 THEN w ELSE TablesWith(g[i - 1], from + i - 1)
           G(h) ==
             [i \in 0 .. m |-> IF i = 0 THEN w ELSE TablesWith(h[i - 1], from + i - 1)]
           F == [i \in 1 .. m |-> [x \in X |-> TablesWith(x, from + i - 1)]]
<1>1. F \in [1 .. m -> [X -> X]]
  OBVIOUS
<1>2. \A i \in 1 .. m : \A x \in X : F[i][x] = TablesWith(x, from + i - 1)
  OBVIOUS
<1> HIDE DEF F
<1>3. PICK f \in [0 .. m -> X] : f[0] = w /\ \A i \in 1 .. m : f[i] = F[i][f[i - 1]]
  <2>1. Recursive(X, w, m, F) # {}
    BY <1>1, Recursion
  <2> QED
    BY <2>1 DEF Recursive
<1>4. f = G(f)
  <2>1. \A i \in 1 .. m : i - 1 \in 0 .. m
    OBVIOUS
  <2>2. \A i \in 1 .. m : f[i] = TablesWith(f[i - 1], from + i - 1)
    BY <1>2, <1>3, <2>1
  <2> QED
    BY <1>3, <2>2
<1>5. g = CHOOSE h : h = G(h)
  OBVIOUS
<1> HIDE DEF g
<1>6. g = G(g)
  BY <1>4, <1>5
<1>7. g[0] \in X
  BY <1>6
<1>8. ASSUME NEW i \in 1 .. m, g[i - 1] \in X
      PROVE  g[i] \in X
  <2>1. i \in 0 .. m /\ i # 0
    OBVIOUS
  <2>2. g[i] = TablesWith(g[i - 1], from + i - 1)
    BY <1>6, <2>1
  <2> QED
    BY <1>8, <2>2
<1>9. g[m] \in X
  BY <1>7, <1>8, Stays
<1> QED
  BY <1>9 DEF TablesWithAll, g

(* The candidates of optimal1.                                             *)
LEMMA LongerKeeps ==
  ASSUME NEW X, NEW w \in X, NEW p, NEW long, NEW short, NEW m \in Nat, m = DepthLimit,
         \A x \in X : \A i \in 1 .. m : LongerOfTwo(x, p, long[i], short[i]) \in X
  PROVE  LongerOf(w, p, long, short) \in X
<1> DEFINE g[i \in 0 .. m] == IF i = 0 THEN w ELSE LongerOfTwo(g[i - 1], p, long[i], short[i])
           G(h) ==
             [i \in 0 .. m |-> IF i = 0 THEN w ELSE LongerOfTwo(h[i - 1], p, long[i], short[i])]
           F == [i \in 1 .. m |-> [x \in X |-> LongerOfTwo(x, p, long[i], short[i])]]
<1>1. F \in [1 .. m -> [X -> X]]
  OBVIOUS
<1>2. \A i \in 1 .. m : \A x \in X : F[i][x] = LongerOfTwo(x, p, long[i], short[i])
  OBVIOUS
<1> HIDE DEF F
<1>3. PICK f \in [0 .. m -> X] : f[0] = w /\ \A i \in 1 .. m : f[i] = F[i][f[i - 1]]
  <2>1. Recursive(X, w, m, F) # {}
    BY <1>1, Recursion
  <2> QED
    BY <2>1 DEF Recursive
<1>4. f = G(f)
  <2>1. \A i \in 1 .. m : i - 1 \in 0 .. m
    OBVIOUS
  <2>2. \A i \in 1 .. m : f[i] = LongerOfTwo(f[i - 1], p, long[i], short[i])
    BY <1>2, <1>3, <2>1
  <2> QED
    BY <1>3, <2>2
<1>5. g = CHOOSE h : h = G(h)
  OBVIOUS
<1> HIDE DEF g
<1>6. g = G(g)
  BY <1>4, <1>5
<1>7. g[0] \in X
  BY <1>6
<1>8. ASSUME NEW i \in 1 .. m, g[i - 1] \in X
      PROVE  g[i] \in X
  <2>1. i \in 0 .. m /\ i # 0
    OBVIOUS
  <2>2. g[i] = LongerOfTwo(g[i - 1], p, long[i], short[i])
    BY <1>6, <2>1
  <2> QED
    BY <1>8, <2>2
<1>9. g[m] \in X
  BY <1>7, <1>8, Stays
<1> QED
  BY <1>9 DEF LongerOf, g

(* The way back from an arrival.                                           *)
LEMMA BackKeeps ==
  ASSUME NEW X, NEW w \in X, NEW arrivals, NEW from, NEW path,
         NEW m \in Nat, w = [steps |-> <<>>, i |-> m, path |-> path],
         \A x \in X : \A i \in 1 .. m : BackOne(x, arrivals, from) \in X
  PROVE  \E z \in X : Backtrack(arrivals, from, m, path) = z.steps
<1> DEFINE g[i \in 0 .. m] == IF i = 0 THEN w ELSE BackOne(g[i - 1], arrivals, from)
           G(h) ==
             [i \in 0 .. m |-> IF i = 0 THEN w ELSE BackOne(h[i - 1], arrivals, from)]
           F == [i \in 1 .. m |-> [x \in X |-> BackOne(x, arrivals, from)]]
<1>1. F \in [1 .. m -> [X -> X]]
  OBVIOUS
<1>2. \A i \in 1 .. m : \A x \in X : F[i][x] = BackOne(x, arrivals, from)
  OBVIOUS
<1> HIDE DEF F
<1>3. PICK f \in [0 .. m -> X] : f[0] = w /\ \A i \in 1 .. m : f[i] = F[i][f[i - 1]]
  <2>1. Recursive(X, w, m, F) # {}
    BY <1>1, Recursion
  <2> QED
    BY <2>1 DEF Recursive
<1>4. f = G(f)
  <2>1. \A i \in 1 .. m : i - 1 \in 0 .. m
    OBVIOUS
  <2>2. \A i \in 1 .. m : f[i] = BackOne(f[i - 1], arrivals, from)
    BY <1>2, <1>3, <2>1
  <2> QED
    BY <1>3, <2>2
<1>5. g = CHOOSE h : h = G(h)
  OBVIOUS
<1> HIDE DEF g
<1>6. g = G(g)
  BY <1>4, <1>5
<1>7. g[0] \in X
  BY <1>6
<1>8. ASSUME NEW i \in 1 .. m, g[i - 1] \in X
      PROVE  g[i] \in X
  <2>1. i \in 0 .. m /\ i # 0
    OBVIOUS
  <2>2. g[i] = BackOne(g[i - 1], arrivals, from)
    BY <1>6, <2>1
  <2> QED
    BY <1>8, <2>2
<1>9. g[m] \in X
  BY <1>7, <1>8, Stays
<1>10. Backtrack(arrivals, from, m, path) = g[m].steps
  BY DEF Backtrack, g
<1> QED
  BY <1>9, <1>10

(* The way back, each turn of which may change what is kept.               *)
LEMMA BackGoes ==
  ASSUME NEW w, NEW arrivals, NEW from, NEW path,
         NEW m \in Nat, w = [steps |-> <<>>, i |-> m, path |-> path], NEW X, w \in X[0],
         \A i \in 1 .. m : \A x \in X[i - 1] : BackOne(x, arrivals, from) \in X[i]
  PROVE  \E z \in X[m] : Backtrack(arrivals, from, m, path) = z.steps
<1> DEFINE g[i \in 0 .. m] == IF i = 0 THEN w ELSE BackOne(g[i - 1], arrivals, from)
           G(h) ==
             [i \in 0 .. m |-> IF i = 0 THEN w ELSE BackOne(h[i - 1], arrivals, from)]
           Y == UNION {X[i] : i \in 0 .. m}
           F == [i \in 1 .. m |->
                   [x \in Y |-> IF x \in X[i - 1] THEN BackOne(x, arrivals, from) ELSE x]]
<1>1. w \in Y /\ \A i \in 1 .. m : \A x \in X[i - 1] : BackOne(x, arrivals, from) \in Y
  <2>1. \A i \in 0 .. m : \A x \in X[i] : x \in Y
    OBVIOUS
  <2>2. 0 \in 0 .. m /\ \A i \in 1 .. m : i \in 0 .. m
    OBVIOUS
  <2> HIDE DEF Y
  <2> QED
    BY <2>1, <2>2
<1> HIDE DEF Y
<1>2. F \in [1 .. m -> [Y -> Y]]
  BY <1>1
<1>3. \A i \in 1 .. m : \A x \in Y : x \in X[i - 1] => F[i][x] = BackOne(x, arrivals, from)
  OBVIOUS
<1> HIDE DEF F
<1>4. PICK f \in [0 .. m -> Y] : f[0] = w /\ \A i \in 1 .. m : f[i] = F[i][f[i - 1]]
  <2>1. Recursive(Y, w, m, F) # {}
    BY <1>1, <1>2, Recursion
  <2> QED
    BY <2>1 DEF Recursive
<1> DEFINE T == {i \in 0 .. m : f[i] \in X[i]}
<1>5. 0 \in T
  BY <1>4
<1>6. ASSUME NEW i \in 0 .. (m - 1), i \in T
      PROVE  i + 1 \in T
  <2>1. PICK j \in 1 .. m : j = i + 1 /\ j - 1 = i
    <3>1. i + 1 \in 1 .. m /\ i + 1 - 1 = i
      OBVIOUS
    <3> QED
      BY <3>1
  <2>2. f[j - 1] \in X[j - 1] /\ f[j - 1] \in Y
    BY <1>4, <1>6, <2>1
  <2>3. f[j] = BackOne(f[j - 1], arrivals, from)
    BY <1>3, <1>4, <2>2
  <2>4. f[j] \in X[j]
    BY <2>2, <2>3
  <2> QED
    BY <2>1, <2>4
<1>7. \A i \in 0 .. m : i \in T
  <2> HIDE DEF T
  <2> QED
    BY <1>5, <1>6, UpTo
<1>8. f = G(f)
  <2>1. \A i \in 1 .. m : i - 1 \in 0 .. m
    OBVIOUS
  <2>2. ASSUME NEW i \in 1 .. m
        PROVE  f[i] = BackOne(f[i - 1], arrivals, from)
    <3>1. f[i - 1] \in X[i - 1] /\ f[i - 1] \in Y
      BY <1>4, <1>7, <2>1
    <3> QED
      BY <1>3, <1>4, <3>1
  <2> QED
    BY <1>4, <2>2
<1>9. g = CHOOSE h : h = G(h)
  OBVIOUS
<1> HIDE DEF g
<1>10. g = G(g)
  BY <1>8, <1>9
<1>11. g[0] \in X[0]
  BY <1>10
<1> DEFINE U == {i \in 0 .. m : g[i] \in X[i]}
<1>12. 0 \in U
  BY <1>11
<1>13. ASSUME NEW i \in 0 .. (m - 1), i \in U
       PROVE  i + 1 \in U
  <2>1. PICK j \in 1 .. m : j = i + 1 /\ j - 1 = i /\ j \in 0 .. m /\ j # 0
    <3>1. i + 1 \in 1 .. m /\ i + 1 - 1 = i /\ i + 1 \in 0 .. m /\ i + 1 # 0
      OBVIOUS
    <3> QED
      BY <3>1
  <2>2. g[j] = BackOne(g[j - 1], arrivals, from)
    BY <1>10, <2>1
  <2>3. g[j - 1] \in X[j - 1]
    BY <1>13, <2>1
  <2>4. g[j] \in X[j]
    BY <2>2, <2>3
  <2> QED
    BY <2>1, <2>4
<1>14. \A i \in 0 .. m : i \in U
  <2> HIDE DEF U
  <2> QED
    BY <1>12, <1>13, UpTo
<1>15. g[m] \in X[m]
  BY <1>14
<1>16. Backtrack(arrivals, from, m, path) = g[m].steps
  BY DEF Backtrack, g
<1> QED
  BY <1>15, <1>16

(* The arrivals of a position.                                             *)
LEMMA TriedKeeps ==
  ASSUME NEW X, NEW w \in X, NEW m \in Nat, m = MaxArrivals,
         w = [arrivals |-> chunk.arrivals, expected |-> 2, acceleration |-> acceleration,
              match |-> [length |-> 0, distance |-> 0], path |-> 0, stopped |-> FALSE],
         \A x \in X : \A i \in 1 .. m : TryPath(x, i) \in X
  PROVE  Tried \in X
<1> DEFINE g[i \in 0 .. m] == IF i = 0 THEN w ELSE TryPath(g[i - 1], i)
           G(h) ==
             [i \in 0 .. m |-> IF i = 0 THEN w ELSE TryPath(h[i - 1], i)]
           F == [i \in 1 .. m |-> [x \in X |-> TryPath(x, i)]]
<1>1. F \in [1 .. m -> [X -> X]]
  OBVIOUS
<1>2. \A i \in 1 .. m : \A x \in X : F[i][x] = TryPath(x, i)
  OBVIOUS
<1> HIDE DEF F
<1>3. PICK f \in [0 .. m -> X] : f[0] = w /\ \A i \in 1 .. m : f[i] = F[i][f[i - 1]]
  <2>1. Recursive(X, w, m, F) # {}
    BY <1>1, Recursion
  <2> QED
    BY <2>1 DEF Recursive
<1>4. f = G(f)
  <2>1. \A i \in 1 .. m : i - 1 \in 0 .. m
    OBVIOUS
  <2>2. \A i \in 1 .. m : f[i] = TryPath(f[i - 1], i)
    BY <1>2, <1>3, <2>1
  <2> QED
    BY <1>3, <2>2
<1>5. g = CHOOSE h : h = G(h)
  OBVIOUS
<1> HIDE DEF g
<1>6. g = G(g)
  BY <1>4, <1>5
<1>7. g[0] \in X
  BY <1>6
<1>8. ASSUME NEW i \in 1 .. m, g[i - 1] \in X
      PROVE  g[i] \in X
  <2>1. i \in 0 .. m /\ i # 0
    OBVIOUS
  <2>2. g[i] = TryPath(g[i - 1], i)
    BY <1>6, <2>1
  <2> QED
    BY <1>8, <2>2
<1>9. g[m] \in X
  BY <1>7, <1>8, Stays
<1> QED
  BY <1>9 DEF Tried, g

(* The matches for an arrival.                                             *)
LEMMA TryAllKeeps ==
  ASSUME NEW X, NEW arrivals, NEW path, NEW list, NEW expected,
         [arrivals |-> arrivals, reduced |-> expected] \in X, Len(list) \in Nat,
         \A x \in X : \A i \in 1 .. Len(list) :
           TryMatch(x, path, arrivals[Index][path], list[i], expected) \in X
  PROVE  \E z \in X : TryAll(arrivals, path, list, expected) = z.arrivals
<1>0. PICK w \in X : w = [arrivals |-> arrivals, reduced |-> expected]
  OBVIOUS
<1> DEFINE now == arrivals[Index][path]
           m == Len(list)
<1>11. /\ m \in Nat /\ m = Len(list) /\ now = arrivals[Index][path]
       /\ \A x \in X : \A i \in 1 .. m : TryMatch(x, path, now, list[i], expected) \in X
  OBVIOUS
<1> HIDE DEF now, m
<1> USE <1>11
<1> DEFINE g[i \in 0 .. m] == IF i = 0 THEN w ELSE TryMatch(g[i - 1], path, now, list[i], expected)
           G(h) ==
             [i \in 0 .. m |-> IF i = 0 THEN w ELSE TryMatch(h[i - 1], path, now, list[i], expected)]
           F == [i \in 1 .. m |-> [x \in X |-> TryMatch(x, path, now, list[i], expected)]]
<1>1. F \in [1 .. m -> [X -> X]]
  OBVIOUS
<1>2. \A i \in 1 .. m : \A x \in X : F[i][x] = TryMatch(x, path, now, list[i], expected)
  OBVIOUS
<1> HIDE DEF F
<1>3. PICK f \in [0 .. m -> X] : f[0] = w /\ \A i \in 1 .. m : f[i] = F[i][f[i - 1]]
  <2>1. Recursive(X, w, m, F) # {}
    BY <1>1, Recursion
  <2> QED
    BY <2>1 DEF Recursive
<1>4. f = G(f)
  <2>1. \A i \in 1 .. m : i - 1 \in 0 .. m
    OBVIOUS
  <2>2. \A i \in 1 .. m : f[i] = TryMatch(f[i - 1], path, now, list[i], expected)
    BY SMTT(60), <1>2, <1>3, <2>1
  <2> QED
    BY <1>3, <2>2
<1>5. g = CHOOSE h : h = G(h)
  OBVIOUS
<1> HIDE DEF g
<1>6. g = G(g)
  BY <1>4, <1>5
<1>7. g[0] \in X
  BY <1>6
<1>8. ASSUME NEW i \in 1 .. m, g[i - 1] \in X
      PROVE  g[i] \in X
  <2>1. i \in 0 .. m /\ i # 0
    OBVIOUS
  <2>2. g[i] = TryMatch(g[i - 1], path, now, list[i], expected)
    BY <1>6, <2>1
  <2> QED
    BY <1>8, <2>2
<1>9. g[m] \in X
  BY <1>7, <1>8, Stays
<1>10. TryAll(arrivals, path, list, expected) = g[m].arrivals
  BY <1>0, <1>11 DEF TryAll, g
<1> QED
  BY <1>9, <1>10

(* The matches of optimal1, from the longest on.                           *)
LEMMA RelaxAllKeeps ==
  ASSUME NEW X, NEW w \in X, NEW arrivals, NEW now, NEW list,
         w = [arrivals |-> arrivals, stopped |-> FALSE],
         NEW m \in Nat, m = Len(list),
         \A x \in X : \A i \in 1 .. m : RelaxLeft(x, now, list[m + 1 - i]) \in X
  PROVE  \E z \in X : RelaxAll(arrivals, now, list) = z.arrivals
<1> DEFINE g[i \in 0 .. m] == IF i = 0 THEN w ELSE RelaxLeft(g[i - 1], now, list[m + 1 - i])
           G(h) ==
             [i \in 0 .. m |-> IF i = 0 THEN w ELSE RelaxLeft(h[i - 1], now, list[m + 1 - i])]
           F == [i \in 1 .. m |-> [x \in X |-> RelaxLeft(x, now, list[m + 1 - i])]]
<1>1. F \in [1 .. m -> [X -> X]]
  OBVIOUS
<1>2. \A i \in 1 .. m : \A x \in X : F[i][x] = RelaxLeft(x, now, list[m + 1 - i])
  OBVIOUS
<1> HIDE DEF F
<1>3. PICK f \in [0 .. m -> X] : f[0] = w /\ \A i \in 1 .. m : f[i] = F[i][f[i - 1]]
  <2>1. Recursive(X, w, m, F) # {}
    BY <1>1, Recursion
  <2> QED
    BY <2>1 DEF Recursive
<1>4. f = G(f)
  <2>1. \A i \in 1 .. m : i - 1 \in 0 .. m
    OBVIOUS
  <2>2. \A i \in 1 .. m : f[i] = RelaxLeft(f[i - 1], now, list[m + 1 - i])
    BY ZenonT(60), <1>2, <1>3, <2>1
  <2> QED
    BY <1>3, <2>2
<1>5. g = CHOOSE h : h = G(h)
  OBVIOUS
<1> HIDE DEF g
<1>6. g = G(g)
  BY <1>4, <1>5
<1>7. g[0] \in X
  BY <1>6
<1>8. ASSUME NEW i \in 1 .. m, g[i - 1] \in X
      PROVE  g[i] \in X
  <2>1. i \in 0 .. m /\ i # 0
    OBVIOUS
  <2>2. g[i] = RelaxLeft(g[i - 1], now, list[m + 1 - i])
    BY <1>6, <2>1
  <2> QED
    BY <1>8, <2>2
<1>9. g[m] \in X
  BY <1>7, <1>8, Stays
<1>10. RelaxAll(arrivals, now, list) = g[m].arrivals
  BY DEF RelaxAll, g
<1> QED
  BY <1>9, <1>10

(* The steps of a chunk.                                                   *)
LEMMA TakeKeeps ==
  ASSUME NEW X, NEW w \in X, NEW list, w = [pos |-> pos, steps |-> steps, reps |-> reps],
         NEW m \in Nat, m = Len(list),
         \A x \in X : \A i \in 1 .. m : TakeStep(x, list[i]) \in X
  PROVE  TakeSteps(list) \in X
<1> DEFINE g[i \in 0 .. m] == IF i = 0 THEN w ELSE TakeStep(g[i - 1], list[i])
           G(h) ==
             [i \in 0 .. m |-> IF i = 0 THEN w ELSE TakeStep(h[i - 1], list[i])]
           F == [i \in 1 .. m |-> [x \in X |-> TakeStep(x, list[i])]]
<1>1. F \in [1 .. m -> [X -> X]]
  OBVIOUS
<1>2. \A i \in 1 .. m : \A x \in X : F[i][x] = TakeStep(x, list[i])
  OBVIOUS
<1> HIDE DEF F
<1>3. PICK f \in [0 .. m -> X] : f[0] = w /\ \A i \in 1 .. m : f[i] = F[i][f[i - 1]]
  <2>1. Recursive(X, w, m, F) # {}
    BY <1>1, Recursion
  <2> QED
    BY <2>1 DEF Recursive
<1>4. f = G(f)
  <2>1. \A i \in 1 .. m : i - 1 \in 0 .. m
    OBVIOUS
  <2>2. \A i \in 1 .. m : f[i] = TakeStep(f[i - 1], list[i])
    BY <1>2, <1>3, <2>1
  <2> QED
    BY <1>3, <2>2
<1>5. g = CHOOSE h : h = G(h)
  OBVIOUS
<1> HIDE DEF g
<1>6. g = G(g)
  BY <1>4, <1>5
<1>7. g[0] \in X
  BY <1>6
<1>8. ASSUME NEW i \in 1 .. m, g[i - 1] \in X
      PROVE  g[i] \in X
  <2>1. i \in 0 .. m /\ i # 0
    OBVIOUS
  <2>2. g[i] = TakeStep(g[i - 1], list[i])
    BY <1>6, <2>1
  <2> QED
    BY <1>8, <2>2
<1>9. g[m] \in X
  BY <1>7, <1>8, Stays
<1> QED
  BY <1>9 DEF TakeSteps, g

(* The distances of a list of steps.                                       *)
LEMMA RepsKeep ==
  ASSUME NEW X, NEW w \in X, NEW list, NEW m \in Nat, m = Len(list),
         \A x \in X : \A i \in 1 .. m : Written(x, list[i].distance) \in X
  PROVE  RepsBehind(w, list) \in X
<1> DEFINE g[i \in 0 .. m] == IF i = 0 THEN w ELSE Written(g[i - 1], list[i].distance)
           G(h) ==
             [i \in 0 .. m |-> IF i = 0 THEN w ELSE Written(h[i - 1], list[i].distance)]
           F == [i \in 1 .. m |-> [x \in X |-> Written(x, list[i].distance)]]
<1>1. F \in [1 .. m -> [X -> X]]
  OBVIOUS
<1>2. \A i \in 1 .. m : \A x \in X : F[i][x] = Written(x, list[i].distance)
  OBVIOUS
<1> HIDE DEF F
<1>3. PICK f \in [0 .. m -> X] : f[0] = w /\ \A i \in 1 .. m : f[i] = F[i][f[i - 1]]
  <2>1. Recursive(X, w, m, F) # {}
    BY <1>1, Recursion
  <2> QED
    BY <2>1 DEF Recursive
<1>4. f = G(f)
  <2>1. \A i \in 1 .. m : i - 1 \in 0 .. m
    OBVIOUS
  <2>2. \A i \in 1 .. m : f[i] = Written(f[i - 1], list[i].distance)
    BY <1>2, <1>3, <2>1
  <2> QED
    BY <1>3, <2>2
<1>5. g = CHOOSE h : h = G(h)
  OBVIOUS
<1> HIDE DEF g
<1>6. g = G(g)
  BY <1>4, <1>5
<1>7. g[0] \in X
  BY <1>6
<1>8. ASSUME NEW i \in 1 .. m, g[i - 1] \in X
      PROVE  g[i] \in X
  <2>1. i \in 0 .. m /\ i # 0
    OBVIOUS
  <2>2. g[i] = Written(g[i - 1], list[i].distance)
    BY <1>6, <2>1
  <2> QED
    BY <1>8, <2>2
<1>9. g[m] \in X
  BY <1>7, <1>8, Stays
<1> QED
  BY <1>9 DEF RepsBehind, g

(* The better places.                                                      *)
LEMMA FurtherKeeps ==
  ASSUME NEW X, NEW w \in X, NEW arrivals, NEW place, NEW last, w = AtMost(place, last),
         NEW m \in Nat, m = Nice - 1,
         \A x \in X : \A i \in 1 .. m : FurtherBy(x, i, arrivals, last) \in X
  PROVE  Further(arrivals, place, last) \in X
<1> DEFINE g[i \in 0 .. m] == IF i = 0 THEN w ELSE FurtherBy(g[i - 1], i, arrivals, last)
           G(h) ==
             [i \in 0 .. m |-> IF i = 0 THEN w ELSE FurtherBy(h[i - 1], i, arrivals, last)]
           F == [i \in 1 .. m |-> [x \in X |-> FurtherBy(x, i, arrivals, last)]]
<1>1. F \in [1 .. m -> [X -> X]]
  OBVIOUS
<1>2. \A i \in 1 .. m : \A x \in X : F[i][x] = FurtherBy(x, i, arrivals, last)
  OBVIOUS
<1> HIDE DEF F
<1>3. PICK f \in [0 .. m -> X] : f[0] = w /\ \A i \in 1 .. m : f[i] = F[i][f[i - 1]]
  <2>1. Recursive(X, w, m, F) # {}
    BY <1>1, Recursion
  <2> QED
    BY <2>1 DEF Recursive
<1>4. f = G(f)
  <2>1. \A i \in 1 .. m : i - 1 \in 0 .. m
    OBVIOUS
  <2>2. \A i \in 1 .. m : f[i] = FurtherBy(f[i - 1], i, arrivals, last)
    BY SMTT(60), <1>2, <1>3, <2>1
  <2> QED
    BY <1>3, <2>2
<1>5. g = CHOOSE h : h = G(h)
  OBVIOUS
<1> HIDE DEF g
<1>6. g = G(g)
  BY <1>4, <1>5
<1>7. g[0] \in X
  BY <1>6
<1>8. ASSUME NEW i \in 1 .. m, g[i - 1] \in X
      PROVE  g[i] \in X
  <2>1. i \in 0 .. m /\ i # 0
    OBVIOUS
  <2>2. g[i] = FurtherBy(g[i - 1], i, arrivals, last)
    BY <1>6, <2>1
  <2> QED
    BY <1>8, <2>2
<1>9. g[m] \in X
  BY <1>7, <1>8, Stays
<1> QED
  BY <1>9 DEF Further, g

(* The matches of the buffer.                                              *)
LEMMA KeptKeeps ==
  ASSUME NEW X, NEW w \in X, NEW p, NEW minimum, w = <<>>,
         NEW m \in Nat, m = Len(buffer[p]),
         \A x \in X : \A i \in 1 .. m : KeptOne(x, buffer[p][i], minimum) \in X
  PROVE  Kept(p, minimum).matches \in X
<1> DEFINE g[i \in 0 .. m] == IF i = 0 THEN w ELSE KeptOne(g[i - 1], buffer[p][i], minimum)
           G(h) ==
             [i \in 0 .. m |-> IF i = 0 THEN w ELSE KeptOne(h[i - 1], buffer[p][i], minimum)]
           F == [i \in 1 .. m |-> [x \in X |-> KeptOne(x, buffer[p][i], minimum)]]
<1>1. F \in [1 .. m -> [X -> X]]
  OBVIOUS
<1>2. \A i \in 1 .. m : \A x \in X : F[i][x] = KeptOne(x, buffer[p][i], minimum)
  OBVIOUS
<1> HIDE DEF F
<1>3. PICK f \in [0 .. m -> X] : f[0] = w /\ \A i \in 1 .. m : f[i] = F[i][f[i - 1]]
  <2>1. Recursive(X, w, m, F) # {}
    BY <1>1, Recursion
  <2> QED
    BY <2>1 DEF Recursive
<1>4. f = G(f)
  <2>1. \A i \in 1 .. m : i - 1 \in 0 .. m
    OBVIOUS
  <2>2. \A i \in 1 .. m : f[i] = KeptOne(f[i - 1], buffer[p][i], minimum)
    BY <1>2, <1>3, <2>1
  <2>3. \A i \in 0 .. m :
          f[i] = IF i = 0 THEN w ELSE KeptOne(f[i - 1], buffer[p][i], minimum)
    BY <1>3, <2>2
  <2>4. f = [i \in 0 .. m |-> f[i]]
    BY <1>3
  <2> QED
    BY <2>3, <2>4
<1>5. g = CHOOSE h : h = G(h)
  OBVIOUS
<1> HIDE DEF g
<1>6. g = G(g)
  BY <1>4, <1>5
<1>7. g[0] \in X
  BY <1>6
<1>8. ASSUME NEW i \in 1 .. m, g[i - 1] \in X
      PROVE  g[i] \in X
  <2>1. i \in 0 .. m /\ i # 0
    OBVIOUS
  <2>2. g[i] = KeptOne(g[i - 1], buffer[p][i], minimum)
    BY <1>6, <2>1
  <2> QED
    BY <1>8, <2>2
<1>9. g[m] \in X
  BY <1>7, <1>8, Stays
<1> QED
  BY <1>9 DEF Kept, g

-----------------------------------------------------------------------------
(* Numbers.                                                                *)

(* The constants and the options as numbers.                               *)
LEMMA Widths ==
  ASSUME Chosen
  PROVE  /\ Trail \in Nat /\ Trail >= 3 /\ Buckets \in Nat \ {0} /\ Farthest \in Nat \ {0}
         /\ Entries \in Nat \ {0} /\ Window \in Nat \ {0} /\ DepthLimit \in Nat \ {0}
         /\ Long \in Nat \ {0} /\ Base \in Nat \ {0} /\ ChunkSize \in Nat \ {0}
         /\ Stored \in Nat /\ Stored >= 2 /\ Span \in Nat /\ CostScale \in Nat \ {0}
         /\ Nice \in Nat \ {0, 1} /\ MaxArrivals \in Nat \ {0} /\ NiceLength \in Nat \ {0}
         /\ Infinite \in Nat /\ coding.iterations \in Nat \ {0}
         /\ opts.parser = "optimal1" => MaxArrivals = 1 /\ ~Buffered
<1>1. opts \in OptionsType
  BY OptimalParseAssumption DEF Chosen
<1>2. coding.iterations \in Nat \ {0} /\ opts.arrivals \in 1 .. 16
  BY <1>1 DEF OptionsType, Chosen, CodingType
<1>3. opts.parser = "optimal1" => coding.iterations = 1 /\ opts.arrivals = 1
  BY OptimalParseAssumption DEF Chosen
<1>4. Nice \in Nat \ {0, 1}
  BY OptimalParseAssumption, MatchTreeAssumption DEF Nice
<1>5. MaxArrivals \in Nat \ {0}
  BY <1>2 DEF MaxArrivals, AtLeast
<1>6. opts.parser = "optimal1" => MaxArrivals = 1 /\ ~Buffered
  BY <1>3 DEF MaxArrivals, First, Buffered
<1> QED
  BY <1>2, <1>4, <1>5, <1>6, OptimalParseAssumption, MatchTreeAssumption,
     MatchTablesAssumption, SourceBytesAssumption, BlockPlanAssumption, CostAssumption

(* A match grows to the left over literals only.                           *)
LEMMA LeftFits ==
  ASSUME NEW run \in Nat, NEW p \in Nat, NEW d \in Nat, d <= p
  PROVE  /\ LeftPart(run, p, d) \in 0 .. AtMost(run, p - d)
         /\ \A i \in 1 .. LeftPart(run, p, d) : Byte(p - i) = Byte(p - d - i)
<1> DEFINE rest == AtMost(run, p - d)
           T == {i \in Nat : Byte(p - i - 1) = Byte(p - d - i - 1)}
           Right(n) == /\ \A i \in 1 .. n : Byte(p - i) = Byte(p - d - i)
                       /\ n = rest \/ Byte(p - n - 1) # Byte(p - d - n - 1)
<1>1. rest \in Nat
  BY DEF AtMost
<1> HIDE DEF rest
<1>2. PICK n \in 0 .. rest : (\A i \in 0 .. (n - 1) : i \in T) /\ (n = rest \/ n \notin T)
  <2> HIDE DEF T
  <2> QED
    BY <1>1, FirstDifference
<1>3. ASSUME NEW i \in 1 .. n
      PROVE  Byte(p - i) = Byte(p - d - i)
  <2>1. i - 1 \in T
    <3>1. i - 1 \in 0 .. (n - 1)
      BY <1>2
    <3> HIDE DEF T
    <3> QED
      BY <1>2, <3>1
  <2>2. p - (i - 1) - 1 = p - i /\ p - d - (i - 1) - 1 = p - d - i
    BY <1>2
  <2> QED
    BY <2>1, <2>2
<1>4. n = rest \/ Byte(p - n - 1) # Byte(p - d - n - 1)
  BY <1>2
<1>5. LeftPart(run, p, d) = CHOOSE x \in 0 .. rest : Right(x)
  BY DEF LeftPart, rest
<1>6. Right(n)
  BY <1>3, <1>4
<1> HIDE DEF Right
<1>7. LeftPart(run, p, d) \in 0 .. rest /\ Right(LeftPart(run, p, d))
  BY <1>5, <1>6, Zenon
<1> QED
  BY <1>7 DEF rest, Right

-----------------------------------------------------------------------------
(* The finders.                                                            *)

LEMMA FinderMore ==
  ASSUME NEW k \in Int, NEW l \in Int, k <= l
  PROVE  FinderTo(k) \subseteq FinderTo(l)
<1>1. Below(k) \subseteq Below(l) /\ {x \in Nat : x < k} \subseteq {x \in Nat : x < l}
  BY DEF Below
<1>3. \A n : Table(n, k) \subseteq Table(n, l)
  BY <1>1 DEF Table
<1>4. Tables(k) \subseteq Tables(l)
  BY <1>3 DEF Tables
<1>5. Trees(k) \subseteq Trees(l)
  BY TreesMore
<1> QED
  BY <1>4, <1>5 DEF FinderTo

(* A table has the positions it had before and one that is put into it.    *)
LEMMA PutBelow ==
  ASSUME src \in Seq(Nat), NEW k \in Int, NEW m \in Nat \ {0}, NEW t \in Table(m, k),
         NEW p \in Nat, p < k, NEW n \in Nat, NEW e \in Int, e <= Len(src)
  PROVE  Put(t, p, n, e) \in Table(m, k)
<1>1. CASE p + n > e
  BY <1>1 DEF Put
<1>2. CASE ~(p + n > e)
  <2> DEFINE h == Hash(p, n)
             P == Below(k)
             b == t[h]
             c == SubSeq(<<p>> \o b, 1, Len(b))
  <2>1. h \in 0 .. (Buckets - 1)
    BY <1>2, HashIn, LenProperties
  <2>2. b \in [1 .. m -> P]
    BY <2>1 DEF Table
  <2>3. p \in P
    BY DEF Below
  <2>4. Put(t, p, n, e) = [t EXCEPT ![h] = c]
    BY <1>2 DEF Put
  <2> HIDE DEF h, P, b
  <2>5. b \in Seq(P) /\ Len(b) = m
    BY <2>2
  <2>6. <<p>> \o b \in Seq(P) /\ Len(<<p>> \o b) = m + 1
    <3>1. <<p>> \in Seq(P) /\ Len(<<p>>) = 1
      BY <2>3
    <3> QED
      BY <3>1, <2>5, ConcatProperties
  <2>7. c \in [1 .. m -> P]
    <3>1. c \in Seq(P) /\ Len(c) = m
      BY <2>5, <2>6, SubSeqProperties
    <3> HIDE DEF c
    <3> QED
      BY <3>1, SeqDef
  <2> HIDE DEF c
  <2>8. [t EXCEPT ![h] = c] \in [0 .. (Buckets - 1) -> [1 .. m -> P]]
    BY <2>1, <2>7 DEF Table, P
  <2> QED
    BY <2>4, <2>8 DEF Table, P
<1> QED
  BY <1>1, <1>2

-----------------------------------------------------------------------------
(* Matches that are cut, moved or extended.                                *)

(* A match over the bytes before it that agree.                            *)
LEMMA RealLeft ==
  ASSUME NEW run \in Nat, NEW p \in Nat, NEW n \in Nat, NEW d \in Nat, Real(p, n, d),
         NEW left, left = LeftPart(run, p, d)
  PROVE  /\ left \in 0 .. AtMost(run, p - d)
         /\ Real(p - left, n + left, d)
<1>1. d \in 1 .. p /\ d <= Farthest /\ Agree(p, p - d, n)
  BY DEF Real
<1>2. d <= p
  BY <1>1
<1>3. left \in 0 .. AtMost(run, p - d) /\ \A i \in 1 .. left : Byte(p - i) = Byte(p - d - i)
  BY <1>2, LeftFits
<1>4. left \in Nat /\ left <= p - d
  BY <1>1, <1>3 DEF AtMost
<1>5. ASSUME NEW i \in 0 .. ((n + left) - 1)
      PROVE  Byte(p - left + i) = Byte(p - left - d + i)
  <2>1. CASE i < left
    <3>1. PICK j \in 1 .. left : j = left - i
      BY <1>4, <2>1
    <3>2. Byte(p - j) = Byte(p - d - j)
      BY <1>3
    <3>3. p - left + i = p - j /\ p - left - d + i = p - d - j
      BY <1>1, <1>4, <3>1
    <3> QED
      BY <3>2, <3>3
  <2>2. CASE i >= left
    <3>1. PICK j \in 0 .. (n - 1) : j = i - left
      BY <1>4, <2>2
    <3>2. Byte(p + j) = Byte(p - d + j)
      BY <1>1 DEF Agree
    <3>3. p - left + i = p + j /\ p - left - d + i = p - d + j
      BY <1>1, <1>4, <3>1
    <3> QED
      BY <3>2, <3>3
  <2> QED
    BY <1>4, <2>1, <2>2
<1>6. Agree(p - left, p - left - d, n + left)
  BY <1>5 DEF Agree
<1>7. d \in 1 .. (p - left)
  BY <1>1, <1>4
<1> QED
  BY <1>1, <1>3, <1>6, <1>7 DEF Real

(* A plan without a step, and a plan with a further step.                  *)
LEMMA EmptyPlan ==
  ASSUME NEW from \in Int, NEW to \in Int, from <= to
  PROVE  Plan(<<>>, from, to)
BY DEF Plan, Tiles

LEMMA PlanGrows ==
  ASSUME NEW S, \A x \in S : x.pos \in Int /\ x.length \in Int, NEW list \in Seq(S), NEW s \in S,
         NEW from \in Int, NEW to \in Int, NEW last \in Int, Plan(list, from, to),
         to <= s.pos, s.length >= 2, s.pos + s.length <= last, RealStep(s)
  PROVE  Plan(Append(list, s), from, last)
<1> DEFINE n == Len(list)
           r == Append(list, s)
<1>1. /\ n \in Nat /\ DOMAIN list = 1 .. n /\ DOMAIN r = 1 .. (n + 1) /\ r[n + 1] = s
      /\ \A i \in 1 .. n : r[i] = list[i] /\ list[i] \in S
  BY AppendProperties, LenProperties, ElementOfSeq
<1>2. from <= to /\ Tiles(list, from)
      /\ \A i \in 1 .. n : RealStep(list[i]) /\ list[i].pos + list[i].length <= to
  BY <1>1 DEF Plan
<1> HIDE DEF n, r
<1>3. ASSUME NEW i \in 1 .. (n + 1)
      PROVE  /\ r[i].length >= 2
             /\ r[i].pos >= (IF i = 1 THEN from ELSE r[i - 1].pos + r[i - 1].length)
             /\ RealStep(r[i]) /\ r[i].pos + r[i].length <= last
  <2>1. CASE i = n + 1
    <3>1. r[i] = s
      BY <1>1, <2>1
    <3>2. CASE i = 1
      BY <1>2, <3>1, <3>2
    <3>3. CASE i # 1
      <4>1. i - 1 \in 1 .. n
        BY <1>1, <2>1, <3>3
      <4>2. r[i - 1] = list[i - 1] /\ list[i - 1] \in S
            /\ list[i - 1].pos + list[i - 1].length <= to
        BY <1>1, <1>2, <4>1
      <4>3. s.pos >= r[i - 1].pos + r[i - 1].length
        BY SMTT(60), <4>2
      <4> QED
        BY <3>1, <3>3, <4>3
    <3> QED
      BY <3>2, <3>3
  <2>2. CASE i # n + 1
    <3>1. i \in 1 .. n
      BY <1>1, <2>2
    <3>2. r[i] = list[i] /\ list[i] \in S /\ RealStep(list[i]) /\ list[i].pos + list[i].length <= to
      BY <1>1, <1>2, <3>1
    <3>3. list[i].length >= 2
          /\ list[i].pos >= (IF i = 1 THEN from ELSE list[i - 1].pos + list[i - 1].length)
      BY <1>1, <1>2, <3>1 DEF Tiles
    <3>4. i # 1 => r[i - 1] = list[i - 1]
      <4>1. i # 1 => i - 1 \in 1 .. n
        BY <1>1, <3>1
      <4> QED
        BY <1>1, <4>1
    <3>5. list[i].pos + list[i].length <= last
      BY SMTT(60), <3>2
    <3> QED
      BY <3>2, <3>3, <3>4, <3>5
  <2> QED
    BY <2>1, <2>2
<1>4. from <= last
  BY <1>2
<1>5. Tiles(r, from)
  BY <1>1, <1>3 DEF Tiles
<1> QED
  BY <1>1, <1>3, <1>4, <1>5 DEF Plan, r

-----------------------------------------------------------------------------
(* What a finder finds.                                                    *)

(* A tree finds the longest match.                                         *)
LEMMA CompleteFinds ==
  ASSUME src \in Seq(Nat), NEW k, tree \in Trees(k)
  PROVE  FindsLongest
<1> DEFINE p == Latest + 1
           A == inserted
           L == CompressionLimit
           found == Find(tree, p, L, 3).matches
           visible == {x \in A : x > TreeEnd(p) /\ Hash(x, 4) = Hash(p, 4)}
<1>1. tree \in Arrays(k) /\ Sorted(tree) /\ Complete(tree) /\ tree.inserted = A
  BY DEF Trees, tree
<1>2. A \in SUBSET Nat
  BY <1>1 DEF Arrays
<1> SUFFICES ASSUME p < L, Cardinality(visible) <= DepthLimit, NEW q \in visible,
                    p - q <= Farthest, CommonLength(p, q, L) >= 4
             PROVE  \E i \in DOMAIN found : found[i].length >= AtMost(CommonLength(p, q, L), NiceLength)
  BY DEF FindsLongest
<1>3. q \in A /\ q > TreeEnd(p) /\ Kin(q, p) /\ A # {}
  BY DEF Kin
<1>4. PICK l \in A \union {0} : \A x \in A : x <= l
  BY <1>1 DEF Sorted
<1>5. Latest = l
  BY <1>2, <1>3, <1>4, LatestIs
<1>6. p \in Nat \ {0} /\ \A x \in A : x < p
  BY <1>2, <1>4, <1>5
<1> HIDE DEF p
<1>7. /\ L \in Int /\ Len(src) > 0 /\ p + 4 <= Len(src) /\ p \in Int /\ p <= p
  <2>1. Len(src) \in Nat /\ Trail \in Nat /\ Trail >= 3 /\ L = Len(src) - Trail
    BY LenProperties, SourceBytesAssumption DEF CompressionLimit
  <2> QED
    BY <1>6, <2>1
<1>8. tree \in Trees(p)
  <2>1. A \in SUBSET {x \in Nat : x < p}
    BY <1>2, <1>6
  <2>2. tree \in Arrays(p)
    BY <1>1, <2>1 DEF Arrays
  <2> QED
    BY <1>1, <2>2 DEF Trees
<1>9. PICK n : n = CommonLength(p, q, L)
  OBVIOUS
<1>10. n \in 0 .. AtLeast(L - p, 0) /\ n \in Nat /\ p + n <= L /\ Agree(q, p, n)
  <2>1. p \in Int /\ q \in Int /\ L \in Int
    BY <1>2, <1>3, <1>7
  <2>2. Common(p, q, L, CommonLength(p, q, L))
    BY <2>1, CommonAgrees, Zenon
  <2>3. n \in 0 .. AtLeast(L - p, 0) /\ \A i \in 0 .. (n - 1) : Byte(p + i) = Byte(q + i)
    BY <1>9, <2>2 DEF Common
  <2>4. AtLeast(L - p, 0) = L - p
    BY <1>6, <1>7 DEF AtLeast
  <2> HIDE DEF L
  <2> QED
    BY <1>6, <1>7, <2>3, <2>4 DEF Agree
<1>11. PICK m : m = AtMost(n, NiceLength)
  OBVIOUS
<1>12. m \in Nat /\ m >= 3 /\ m <= n /\ m <= NiceLength
  BY <1>9, <1>10, <1>11, MatchTreeAssumption DEF AtMost
<1> HIDE DEF L
<1>13. m \in Wanted(p, L) /\ m <= Told(p) /\ Agree(q, p, m)
  <2>1. m \in Wanted(p, L)
    BY <1>6, <1>7, <1>10, <1>12 DEF Wanted
  <2>2. m <= Told(p)
    BY <1>6, <1>7, <1>10, <1>12, MatchTreeAssumption DEF Told, AtMost, L
  <2>3. \A i \in 0 .. (m - 1) : i \in 0 .. (n - 1)
    BY <1>10, <1>12
  <2> QED
    BY <1>10, <2>1, <2>2, <2>3 DEF Agree
<1>14. ~Lost(q, A, p)
  <2>1. visible = {x \in A : x > TreeEnd(p) /\ Kin(x, p)}
    BY DEF Kin
  <2>2. Cardinality({x \in A : x > TreeEnd(p) /\ Kin(x, p)}) <= DepthLimit
    BY <2>1
  <2>3. p \in Nat
    BY <1>6
  <2> QED
    BY <1>2, <1>3, <1>6, <1>7, <2>2, <2>3, NoneLost, Zenon
<1>15. Matched(q, found, p, L)
  <2>1. \A x \in tree.inserted : x > TreeEnd(p) /\ Kin(x, p) =>
          Lost(x, tree.inserted, p) \/ Matched(x, found, p, L)
    BY <1>6, <1>7, <1>8, FindMisses
  <2> QED
    BY <1>1, <1>3, <1>14, <2>1
<1>16. Has(found, m)
  BY <1>13, <1>15 DEF Matched
<1> QED
  BY <1>9, <1>11, <1>16 DEF Has

-----------------------------------------------------------------------------
(* The tables of optimal1, and the finders of all parsers.                 *)

(* A block is inside the source, before its trailing bytes.                *)
LEMMA Inside ==
  ASSUME src \in Seq(Nat), NEW p \in Nat, p < CompressionLimit
  PROVE  /\ Len(src) \in Nat /\ Len(src) > 0 /\ CompressionLimit \in Int
         /\ p + 4 <= Len(src) /\ CompressionLimit <= Len(src)
BY LenProperties, SourceBytesAssumption DEF CompressionLimit

(* A position that is put into the tables of optimal1.                     *)
LEMMA TablesBelow ==
  ASSUME src \in Seq(Nat), end \in Nat, end <= CompressionLimit,
         NEW p \in Nat, NEW k \in Int, p < k, NEW t \in Tables(k)
  PROVE  /\ Put(t.few, p, 3, end) \in Table(1, k)
         /\ TablesWith(t, p) \in Tables(k)
<1>1. end \in Int /\ end <= Len(src)
  BY LenProperties, SourceBytesAssumption DEF CompressionLimit
<1>2. /\ t.few \in Table(1, k) /\ t.short \in Table(DepthLimit, k)
      /\ t.long \in Table(DepthLimit, k)
  BY DEF Tables
<1>3. /\ 1 \in Nat \ {0} /\ DepthLimit \in Nat \ {0} /\ 3 \in Nat /\ 4 \in Nat /\ Long \in Nat
  BY MatchTreeAssumption, MatchTablesAssumption
<1>4. Put(t.few, p, 3, end) \in Table(1, k)
  BY <1>1, <1>2, <1>3, PutBelow
<1>5. Put(t.short, p, 4, end) \in Table(DepthLimit, k)
  BY <1>1, <1>2, <1>3, PutBelow
<1>6. Put(t.long, p, Long, end) \in Table(DepthLimit, k)
  BY <1>1, <1>2, <1>3, PutBelow
<1> QED
  BY <1>4, <1>5, <1>6 DEF TablesWith, Tables

(* Positions that are put into them, one after the other.                  *)
LEMMA TablesAllBelow ==
  ASSUME src \in Seq(Nat), end \in Nat, end <= CompressionLimit,
         NEW from \in Nat, NEW to \in Int, NEW k \in Int, to <= k, NEW t \in Tables(k)
  PROVE  TablesWithAll(t, from, to) \in Tables(k)
<1> DEFINE m == AtLeast(to - from, 0)
           X == Tables(k)
<1>1. m \in Nat
  BY DEF AtLeast
<1>2. ASSUME NEW x \in X, NEW i \in 1 .. m
      PROVE  TablesWith(x, from + i - 1) \in X
  <2>1. from + i - 1 \in Nat /\ from + i - 1 < k
    BY DEF AtLeast
  <2> QED
    BY <2>1, TablesBelow
<1> HIDE DEF m, X
<1>3. m = AtLeast(to - from, 0) /\ t \in X
  BY DEF m, X
<1>4. TablesWithAll(t, from, to) \in X
  BY <1>1, <1>2, <1>3, TablesKeep
<1> QED
  BY <1>4 DEF X

(* A candidate is a position before p and within reach, or none.           *)
Nearby(p) == {x \in Int : x < p /\ (x >= 0 => p - x <= Farthest)}

LEMMA CandidateBefore ==
  ASSUME src \in Seq(Nat), NEW p \in Nat, NEW n \in Nat, p + n <= Len(src), NEW e,
         NEW m \in Nat, NEW k \in Int, NEW t \in Table(m, k), NEW i \in 1 .. m
  PROVE  Candidates(t, p, n, e)[i] \in Nearby(p)
<1> DEFINE b == t[Hash(p, n)]
<1>1. Hash(p, n) \in 0 .. (Buckets - 1)
  BY HashIn
<1>2. b \in [1 .. m -> Below(k)]
  BY <1>1 DEF Table
<1> HIDE DEF b
<1>3. i \in DOMAIN b /\ b[i] \in Nat
  BY <1>2 DEF Below
<1>4. Candidates(t, p, n, e)[i]
        = IF p + n <= e /\ b[i] < p /\ p - b[i] <= Farthest THEN b[i] ELSE 0 - 1
  BY <1>3 DEF Candidates, b
<1> QED
  BY <1>3, <1>4 DEF Nearby

(* What optimal1 has found.                                                *)
Growing(p) == [last : Int, matches : Seq(Fits(p, end))]

(* A candidate that is longer is a match in the block.                     *)
LEMMA LongerFits ==
  ASSUME end \in Nat, NEW p \in Nat, NEW w \in Growing(p), NEW prev \in Nearby(p),
         NEW least \in Nat, least >= 3
  PROVE  Longer(w, p, prev, least) \in Growing(p)
<1> DEFINE length == CommonLength(p, prev, end)
           m == [length |-> length, distance |-> p - prev]
<1>1. length \in 0 .. AtLeast(end - p, 0)
  <2>1. p \in Int /\ end \in Int /\ prev \in Int
    BY DEF Nearby
  <2> QED
    BY <2>1, CommonFits, Zenon
<1>4. PICK n : n = length
  OBVIOUS
<1>5. ASSUME NEW j \in Nat, j <= n, prev >= 0
      PROVE  Real(p, j, p - prev)
  <2>1. prev \in Nat /\ prev < p /\ p - prev <= Farthest
    BY <1>5 DEF Nearby
  <2>2. j \in Int /\ j <= CommonLength(p, prev, end) /\ end \in Int
    BY <1>4, <1>5
  <2> QED
    BY <2>1, <2>2, RealCommon
<1> HIDE DEF length
<1>2. CASE prev >= 0 /\ length >= least /\ length > w.last
  <2>1. length \in Nat /\ length >= 3 /\ p + length <= end
    BY <1>1, <1>2 DEF AtLeast
  <2>2. m \in Fits(p, end)
    <3>1. Real(p, length, p - prev)
      BY <1>2, <1>4, <1>5, <2>1
    <3>2. m \in Match /\ m.length = length /\ m.distance = p - prev
      BY <1>2, <2>1 DEF Match, Nearby
    <3> QED
      BY <2>1, <3>1, <3>2 DEF Fits
  <2>3. Longer(w, p, prev, least) = [last |-> length, matches |-> Append(w.matches, m)]
    BY <1>2 DEF Longer, length
  <2> HIDE DEF m
  <2>4. Append(w.matches, m) \in Seq(Fits(p, end))
    BY <2>2, AppendProperties DEF Growing
  <2> QED
    BY <2>1, <2>3, <2>4 DEF Growing
<1>3. CASE ~(prev >= 0 /\ length >= least /\ length > w.last)
  BY <1>3 DEF Longer, length
<1> QED
  BY <1>2, <1>3

(* What optimal1 finds is in the block, and its tables have the position.  *)
LEMMA FindAllFits ==
  ASSUME src \in Seq(Nat), end \in Nat, end <= CompressionLimit, NEW p \in Nat, p < end,
         NEW last \in Int, NEW k \in Int, p < k, tables \in Tables(k)
  PROVE  /\ FindAll(p, last).tree = tree
         /\ FindAll(p, last).tables \in Tables(k)
         /\ FindAll(p, last).matches \in Seq(Fits(p, end))
         /\ DOMAIN FindAll(p, last) = {"tree", "tables", "matches"}
<1> DEFINE S == Growing(p)
           none == [last |-> last, matches |-> <<>>]
           first == Candidates(tables.few, p, 3, end)[1]
           three == IF last < 3 THEN Longer(none, p, first, 3) ELSE none
           long == Candidates(tables.long, p, Long, end)
           short == Candidates(tables.short, p, 4, end)
           m == DepthLimit
<1>1. p + 4 <= Len(src) /\ p + 3 <= Len(src) /\ end <= Len(src) /\ Len(src) \in Nat
  BY LenProperties, SourceBytesAssumption DEF CompressionLimit
<1>2. /\ tables.few \in Table(1, k) /\ tables.short \in Table(DepthLimit, k)
      /\ tables.long \in Table(DepthLimit, k)
  BY DEF Tables
<1>3. m \in Nat /\ Long \in Nat /\ 1 \in 1 .. 1
  BY MatchTreeAssumption, MatchTablesAssumption
<1> HIDE DEF S, none, three, long, short, m
<1>4. first \in Nearby(p)
  <2>1. 1 \in Nat /\ 3 \in Nat /\ 1 \in 1 .. 1 /\ k \in Int
    OBVIOUS
  <2>2. Candidates(tables.few, p, 3, end)[1] \in Nearby(p)
    BY <1>1, <1>2, <2>1, CandidateBefore
  <2> QED
    BY <2>2 DEF first
<1> USE DEF S, none, three, long, short, m
<1>5. none \in S
  BY DEF Growing
<1> HIDE DEF none, first
<1>6. three \in S
  BY <1>4, <1>5, LongerFits
<1>7. Put(tables.few, p, 3, end) \in Table(1, k) /\ TablesWith(tables, p) \in Tables(k)
  BY TablesBelow
<1> HIDE DEF three
<1>8. CASE p + Long > end
  <2>1. FindAll(p, last)
          = [tree |-> tree, tables |-> [tables EXCEPT !.few = Put(@, p, 3, end)],
             matches |-> three.matches]
    BY <1>8 DEF FindAll, three, first, none
  <2>2. [tables EXCEPT !.few = Put(@, p, 3, end)] \in Tables(k)
    BY <1>7 DEF Tables
  <2> QED
    BY <1>6, <2>1, <2>2 DEF Growing
<1>9. CASE ~(p + Long > end)
  <2>1. p + Long <= Len(src)
    BY <1>1, <1>3, <1>9
  <2>2. ASSUME NEW i \in 1 .. m
        PROVE  long[i] \in Nearby(p) /\ short[i] \in Nearby(p)
    BY <1>1, <1>2, <1>3, <2>1, CandidateBefore
  <2> HIDE DEF long, short
  <2>3. ASSUME NEW x \in S, NEW i \in 1 .. m
        PROVE  LongerOfTwo(x, p, long[i], short[i]) \in S
    <3>1. Longer(x, p, long[i], 4) \in S /\ Longer(x, p, short[i], 4) \in S
      BY <2>2, LongerFits
    <3> QED
      BY <3>1 DEF LongerOfTwo
  <2> HIDE DEF S, m
  <2>4. m = DepthLimit
    BY DEF m
  <2>5. LongerOf(three, p, long, short) \in S
    BY <1>3, <1>6, <2>3, <2>4, LongerKeeps
  <2>6. FindAll(p, last) = [tree |-> tree, tables |-> TablesWith(tables, p),
                            matches |-> LongerOf(three, p, long, short).matches]
    BY <1>9 DEF FindAll, three, first, none, long, short
  <2> QED
    BY <1>7, <2>5, <2>6 DEF S, Growing
<1> QED
  BY <1>8, <1>9

(* What the buffer has for a position stays in the block.                  *)
LEMMA KeptFits ==
  ASSUME NEW p, buffer[p] \in Seq(Fits(p, end)), NEW minimum
  PROVE  Kept(p, minimum).matches \in Seq(Fits(p, end)) /\ Kept(p, minimum).tree = tree
<1> DEFINE b == buffer[p]
           m == Len(b)
           M == Fits(p, end)
           X == Seq(M)
           w == <<>>
<1>1. m \in Nat
  BY LenProperties
<1>2. ASSUME NEW x \in X, NEW i \in 1 .. m
      PROVE  KeptOne(x, b[i], minimum) \in X
  <2>1. b[i] \in M
    BY ElementOfSeq
  <2> HIDE DEF M, b
  <2>2. Append(x, b[i]) \in X
    BY <2>1, AppendProperties
  <2> QED
    BY <2>2 DEF KeptOne
<1>3. w \in X
  OBVIOUS
<1> HIDE DEF X, m
<1>4. m = Len(buffer[p]) /\ w = <<>>
  BY DEF m
<1> HIDE DEF w
<1>5. Kept(p, minimum).matches \in X
  BY <1>1, <1>2, <1>3, <1>4, KeptKeeps
<1>6. Kept(p, minimum).tree = tree
  BY DEF Kept
<1> QED
  BY <1>5, <1>6 DEF X

(* What the finder in use yields for a position, and the finders after it. *)
Found(p) == [tree : Trees(Reach(p + 1)), tables : Tables(Reach(p + 1)), matches : Seq(Fits(p, end))]

(* A finder that is behind k is behind all that is after k.                *)
LEMMA Reaches ==
  ASSUME end \in Nat, NEW k \in Int, NEW l \in Int, k <= l
  PROVE  /\ Reach(k) \in Int /\ Reach(l) \in Int /\ Reach(k) <= Reach(l)
         /\ FinderTo(Reach(k)) \subseteq FinderTo(Reach(l))
<1>2. Reach(k) \in Int /\ Reach(l) \in Int /\ Reach(k) <= Reach(l)
  BY DEF Reach
<1> QED
  BY <1>2, FinderMore

(* Whichever finder is used: its matches fit, and it has the position.     *)
LEMMA MatchesFit ==
  ASSUME src \in Seq(Nat), end \in Nat, end <= CompressionLimit, Chosen,
         NEW p \in Nat \ {0}, p < end, Finders \in FinderTo(Reach(p)), NEW minimum \in Int,
         Buffered => buffer[p] \in Seq(Fits(p, end))
  PROVE  Matches(p, minimum) \in Found(p)
<1>1. Finders \in FinderTo(Reach(p + 1))
  BY Reaches
<1>2. tree \in Trees(Reach(p + 1)) /\ tables \in Tables(Reach(p + 1))
  BY <1>1 DEF FinderTo, Finders
<1>3. Buffered \/ Reach(p + 1) = p + 1
  BY DEF Reach
<1>4. CASE opts.parser = "optimal1"
  <2>1. Reach(p + 1) = p + 1
    BY <1>3, <1>4, Widths
  <2>2. p < p + 1 /\ p + 1 \in Int /\ tables \in Tables(p + 1)
    BY <1>2, <2>1
  <2> DEFINE f == FindAll(p, minimum)
  <2>3. Matches(p, minimum) = f
    <3>1. ~Buffered
      BY <1>4, Widths
    <3> QED
      BY <1>4, <3>1 DEF Matches
  <2>4. /\ f.tree = tree /\ f.tables \in Tables(p + 1) /\ f.matches \in Seq(Fits(p, end))
    BY <2>2, FindAllFits
  <2>5. f = [tree |-> f.tree, tables |-> f.tables, matches |-> f.matches]
    BY DEF FindAll
  <2> HIDE DEF f
  <2> QED
    BY <1>2, <2>1, <2>3, <2>4, <2>5 DEF Found
<1>5. CASE opts.parser # "optimal1" /\ Buffered
  <2>1. Matches(p, minimum) = InTree(Kept(p, minimum))
    BY <1>5 DEF Matches
  <2>2. Kept(p, minimum).matches \in Seq(Fits(p, end)) /\ Kept(p, minimum).tree = tree
    BY <1>5, KeptFits
  <2> QED
    BY <1>2, <2>1, <2>2 DEF InTree, Found
<1>6. CASE opts.parser # "optimal1" /\ ~Buffered
  <2>1. Matches(p, minimum) = InTree(Find(tree, p, end, minimum))
    BY <1>6 DEF Matches
  <2>2. Reach(p + 1) = p + 1
    BY <1>3, <1>6
  <2>3. p + 4 <= Len(src) /\ p \in Int /\ p <= p /\ end \in Int /\ tree \in Trees(p)
    <3>1. Reach(p) = p
      BY <1>6 DEF Reach
    <3>2. tree \in Trees(p)
      BY <3>1 DEF FinderTo, Finders
    <3> QED
      BY <3>2, LenProperties, SourceBytesAssumption DEF CompressionLimit
  <2>4. /\ Find(tree, p, end, minimum).tree \in Trees(p + 1)
        /\ Find(tree, p, end, minimum).matches \in Seq(Fits(p, end))
    BY <2>3, FindFinds
  <2> QED
    BY <1>2, <2>1, <2>2, <2>4 DEF InTree, Found
<1> QED
  BY <1>4, <1>5, <1>6

(* The positions that are passed are behind k.                             *)
LEMMA PassedKeeps ==
  ASSUME src \in Seq(Nat), end \in Nat, end <= CompressionLimit, Chosen,
         NEW j \in Int, NEW k \in Int, j <= k, NEW Q,
         NEW f \in FinderTo(Reach(j)) \union
                     [tree : Trees(Reach(j)), tables : Tables(Reach(j)), matches : Q],
         NEW from \in Nat \ {0}, opts.parser = "optimal1" \/ j <= from,
         NEW to \in Int, to <= k, to <= CompressionLimit
  PROVE  PassedAll(f, from, to) \in
           FinderTo(Reach(k)) \union
             [tree : Trees(Reach(k)), tables : Tables(Reach(k)), matches : Q]
<1> DEFINE T == Trees(Reach(k))
           U == Tables(Reach(k))
<1>1. f.tree \in Trees(Reach(j)) /\ f.tables \in Tables(Reach(j))
  BY DEF FinderTo
<1>2. /\ Reach(j) \in Int /\ Reach(k) \in Int
      /\ ~Buffered => Reach(j) = j /\ Reach(k) = k
      /\ FinderTo(Reach(j)) \subseteq FinderTo(Reach(k))
  BY Reaches DEF Reach
<1>3. f.tree \in T /\ f.tables \in U
  <2>1. [tree |-> f.tree, tables |-> f.tables] \in FinderTo(Reach(j))
    BY <1>1 DEF FinderTo
  <2>2. [tree |-> f.tree, tables |-> f.tables] \in FinderTo(Reach(k))
    BY <1>2, <2>1
  <2> QED
    BY <2>2 DEF FinderTo
<1>4. CASE opts.parser = "optimal1"
  <2>1. PassedAll(f, from, to) = [f EXCEPT !.tables = TablesWithAll(f.tables, from, to)]
    BY <1>4, Widths DEF PassedAll
  <2>2. to <= Reach(k)
    BY <1>2, <1>4, Widths
  <2>3. TablesWithAll(f.tables, from, to) \in U
    BY <1>2, <1>3, <2>2, TablesAllBelow
  <2> HIDE DEF T, U
  <2>4. f.tree \in T /\ TablesWithAll(f.tables, from, to) \in U
    BY <1>3, <2>3
  <2>5. PassedAll(f, from, to) \in [tree : T, tables : U] \union [tree : T, tables : U, matches : Q]
    BY <2>1, <2>4 DEF FinderTo
  <2> QED
    BY <2>5 DEF T, U, FinderTo
<1>5. CASE opts.parser # "optimal1" /\ Buffered
  <2>1. PassedAll(f, from, to) = f
    BY <1>5 DEF PassedAll
  <2> HIDE DEF T, U
  <2>2. f \in [tree : T, tables : U] \union [tree : T, tables : U, matches : Q]
    BY <1>3 DEF FinderTo
  <2> QED
    BY <2>1, <2>2 DEF T, U, FinderTo
<1>6. CASE opts.parser # "optimal1" /\ ~Buffered
  <2>1. PassedAll(f, from, to) = [f EXCEPT !.tree = UpdateAll(f.tree, from, to)]
    BY <1>6 DEF PassedAll
  <2>2. f.tree \in Trees(j) /\ j <= from /\ T = Trees(k)
    BY <1>1, <1>2, <1>6
  <2>3. UpdateAll(f.tree, from, to) \in T
    BY <2>2, UpdatesKeep
  <2> HIDE DEF T, U
  <2>4. f.tables \in U
    BY <1>3
  <2>5. PassedAll(f, from, to) \in [tree : T, tables : U] \union [tree : T, tables : U, matches : Q]
    BY <2>1, <2>3, <2>4 DEF FinderTo
  <2> QED
    BY <2>5 DEF T, U, FinderTo
<1> QED
  BY <1>4, <1>5, <1>6

(* The positions of a match that ends at k at the latest are behind k.     *)
LEMMA OverlappedKeeps ==
  ASSUME src \in Seq(Nat), end \in Nat, end <= CompressionLimit, Chosen,
         NEW j \in Int, NEW k \in Int, j <= k, NEW Q,
         NEW f \in FinderTo(Reach(j)) \union
                     [tree : Trees(Reach(j)), tables : Tables(Reach(j)), matches : Q],
         NEW p \in Nat, opts.parser = "optimal1" \/ j <= p + 1,
         NEW m, m.length \in Nat, m.distance \in Nat, p + m.length <= k
  PROVE  Overlapped(f, p, m) \in
           FinderTo(Reach(k)) \union
             [tree : Trees(Reach(k)), tables : Tables(Reach(k)), matches : Q]
<1> DEFINE l == IF opts.parser = "optimal1" THEN end ELSE CompressionLimit
           to == AtMost(p + AtMost(AtMost(m.distance, m.length), Nice), l)
<1>1. l \in Int /\ l <= CompressionLimit
  BY LenProperties, SourceBytesAssumption DEF CompressionLimit
<1>2. Nice \in Nat
  BY Widths
<1> HIDE DEF l
<1>3. to \in Int /\ to <= p + m.length /\ to <= CompressionLimit
  <2>1. CompressionLimit \in Int
    BY LenProperties, SourceBytesAssumption DEF CompressionLimit
  <2> QED
    BY SMTT(60), <1>1, <1>2, <2>1 DEF AtMost
<1>4. Overlapped(f, p, m) = PassedAll(f, p + 1, to)
  BY DEF Overlapped, l
<1> HIDE DEF to
<1>5. PICK from \in Nat \ {0} : from = p + 1
  OBVIOUS
<1>6. to <= k /\ (opts.parser = "optimal1" \/ j <= from)
  BY <1>3, <1>5
<1>7. PassedAll(f, from, to) \in
        FinderTo(Reach(k)) \union
          [tree : Trees(Reach(k)), tables : Tables(Reach(k)), matches : Q]
  BY <1>3, <1>5, <1>6, PassedKeeps, Zenon
<1> QED
  BY <1>4, <1>5, <1>7

-----------------------------------------------------------------------------
(* Arrivals.                                                               *)

(* The places of a chunk are in the source.                                *)
Spanned(n) ==
  /\ n \in Nat /\ n <= MostLength /\ src \in Seq(0 .. 255)
  /\ chunk.from \in Nat /\ chunk.from + n <= CompressionLimit

(* A factor keeps an order.                                                *)
LEMMA ScaleMonotone ==
  ASSUME NEW c \in Nat, NEW x \in Int, NEW y \in Int, x <= y
  PROVE  c * x \in Int /\ c * x <= c * y
<1>1. y - x \in Nat
  OBVIOUS
<1>2. \A k \in Nat : c * k \in Nat
  OBVIOUS
<1>3. c * (y - x) = c * y - c * x /\ c * x \in Int /\ c * y \in Int
  OBVIOUS
<1> QED
  BY <1>1, <1>2, <1>3

(* A longer path may cost more by what one step may cost.                  *)
LEMMA CostGrows ==
  ASSUME NEW n \in Nat
  PROVE  /\ MostCost(n) \in Nat /\ MostStep \in Nat
         /\ MostCost(n) + MostStep = MostCost(n + 1)
         /\ \A m \in Nat : n <= m => MostCost(n) <= MostCost(m)
<1>1. CostScale \in Nat /\ MostSymbol \in Nat
  BY OptimalParseAssumption, ModelsAssumption
<1>2. PICK u, z : u = MostStep /\ z = 64 * CostScale
  OBVIOUS
<1>3. u \in Nat /\ z \in Nat
  <2>1. \A x, y \in Nat : x * (3 * y) + 4 \in Nat /\ 64 * x \in Nat
    OBVIOUS
  <2> QED
    BY <1>1, <1>2, <2>1 DEF MostStep
<1>4. \A m \in Nat : m * u \in Nat /\ MostCost(m) = z + m * u
  BY <1>2, <1>3 DEF MostCost
<1>5. (n + 1) * u = n * u + u /\ n + 1 \in Nat
  BY <1>3
<1>6. \A m \in Nat : n <= m => n * u <= m * u
  BY <1>3, TimesMonotone
<1>7. PICK x : x = n * u
  OBVIOUS
<1>8. x \in Nat /\ MostCost(n) = z + x /\ MostCost(n + 1) = z + (x + u)
  BY <1>4, <1>5, <1>7
<1>9. ASSUME NEW m \in Nat, n <= m
      PROVE  MostCost(n) <= MostCost(m)
  <2>1. PICK v \in Nat : v = m * u
    BY <1>4
  <2>2. x <= v /\ MostCost(m) = z + v
    BY <1>4, <1>6, <1>7, <1>9, <2>1
  <2> QED
    BY <1>3, <1>8, <2>2
<1> QED
  BY <1>2, <1>3, <1>8, <1>9

(* The model of a block has numbers for its symbols.                       *)
LEMMA ModelTyped ==
  ASSUME Chosen
  PROVE  /\ coding.model \in Models
         /\ MostSymbol \in Nat /\ CostScale \in Nat \ {0} /\ FullRun \in Nat \ {0}
         /\ LongMatch \in Nat /\ LongMatch >= 2 /\ MostLength \in Nat
<1>1. coding.model \in Models
  BY DEF Chosen, CodingType
<1>2. MostLength \in Nat
  BY OptimalParseAssumption, MatchTreeAssumption DEF MostLength, AtLeast
<1> QED
  BY <1>1, <1>2, ModelsAssumption, OptimalParseAssumption

(* A literal costs at most what a step may cost.                           *)
LEMMA LiteralCosts ==
  ASSUME Chosen, NEW n, Spanned(n), NEW i \in 0 .. (n - 1), NEW now \in Place(i)
  PROVE  /\ LiteralCost(chunk.from + i, now) \in Int
         /\ LiteralCost(chunk.from + i, now) <= MostStep
<1>1. PICK m \in Models : m = coding.model
  BY ModelTyped
<1>2. PICK p : p = chunk.from + i
  OBVIOUS
<1>3. /\ n \in Nat /\ n <= MostLength /\ src \in Seq(0 .. 255) /\ chunk.from \in Nat
      /\ chunk.from + n <= CompressionLimit
  BY DEF Spanned
<1>4. /\ MostSymbol \in Nat /\ CostScale \in Nat \ {0} /\ FullRun \in Nat \ {0}
      /\ MostLength \in Nat
  BY ModelTyped
<1>17. \A q \in 0 .. 3 : \A x \in 0 .. 255 : LiteralSymbol(m, q, x) \in 0 .. MostSymbol
  BY ModelsAssumption
<1>18. \A k \in 0 .. MostLength : LengthSymbol(m, k) \in 0 .. MostSymbol
  BY ModelsAssumption
<1>5. Len(src) \in Nat /\ DOMAIN src = 1 .. Len(src) /\ \A k \in 1 .. Len(src) : src[k] \in 0 .. 255
  BY <1>3, LenProperties, ElementOfSeq
<1>6. p \in Nat /\ p < Len(src)
  BY SMTT(60), <1>2, <1>3, <1>5, SourceBytesAssumption DEF CompressionLimit
<1>7. \A q \in 0 .. p : Byte(q) \in 0 .. 255
  <2> TAKE q \in 0 .. p
  <2>1. q + 1 \in 1 .. Len(src)
    BY <1>5, <1>6
  <2> QED
    BY <1>5, <2>1 DEF Byte
<1> DEFINE back == now.reps[1]
           symbol == IF m \in Deltas /\ back \in 1 .. p THEN (Byte(p) - Byte(p - back)) % 256 ELSE Byte(p)
           runCost(k) == IF k < FullRun THEN 0 ELSE LengthSymbol(m, k - FullRun)
<1>8. symbol \in 0 .. 255
  <2>1. CASE m \in Deltas /\ back \in 1 .. p
    <3>1. p - back \in 0 .. p /\ p \in 0 .. p
      BY <1>6, <2>1
    <3>2. Byte(p) \in 0 .. 255 /\ Byte(p - back) \in 0 .. 255
      BY <1>7, <3>1
    <3>3. \A x, y \in 0 .. 255 : (x - y) % 256 \in 0 .. 255
      OBVIOUS
    <3> QED
      BY <2>1, <3>2, <3>3
  <2>2. CASE ~(m \in Deltas /\ back \in 1 .. p)
    BY <1>6, <1>7, <2>2
  <2> QED
    BY <2>1, <2>2
<1>9. p % 4 \in 0 .. 3
  BY <1>6
<1>10. LiteralSymbol(m, p % 4, symbol) \in 0 .. MostSymbol
  BY <1>8, <1>9, <1>17
<1>11. now.run \in Nat /\ now.run <= i /\ now.run + 1 <= MostLength /\ now.run <= MostLength
  <2>1. now.run \in Nat /\ now.run <= i
    BY DEF Place, Arrival
  <2>2. i \in Nat /\ i + 1 <= n /\ n \in Nat /\ n <= MostLength /\ MostLength \in Nat
    BY <1>3, <1>4
  <2>3. PICK u : u = now.run
    OBVIOUS
  <2>4. u \in Nat /\ u <= i /\ u + 1 <= MostLength /\ u <= MostLength
    BY <2>1, <2>2, <2>3
  <2> QED
    BY <2>3, <2>4
<1>12. \A k \in Nat : k <= MostLength => runCost(k) \in 0 .. MostSymbol
  <2> TAKE k \in Nat
  <2>1. k <= MostLength /\ ~(k < FullRun) => k - FullRun \in 0 .. MostLength
    BY <1>4
  <2>2. 0 \in 0 .. MostSymbol
    BY <1>4
  <2> QED
    BY <1>18, <2>1, <2>2
<1>13. runCost(now.run + 1) \in 0 .. MostSymbol /\ runCost(now.run) \in 0 .. MostSymbol
  BY <1>11, <1>12
<1>14. LiteralCost(p, now) =
         CostScale * (LiteralSymbol(m, p % 4, symbol) + runCost(now.run + 1) - runCost(now.run))
           + (IF now.run = FullRun - 1 THEN 2 ELSE 0)
  BY <1>1 DEF LiteralCost
<1> HIDE DEF symbol, runCost, back
<1>15. PICK x \in Int : /\ x = LiteralSymbol(m, p % 4, symbol) + runCost(now.run + 1) - runCost(now.run)
                        /\ x <= 3 * MostSymbol
  <2>1. PICK u, v, z : /\ u = LiteralSymbol(m, p % 4, symbol)
                       /\ v = runCost(now.run + 1) /\ z = runCost(now.run)
    OBVIOUS
  <2>2. u \in 0 .. MostSymbol /\ v \in 0 .. MostSymbol /\ z \in 0 .. MostSymbol
    BY <1>10, <1>13, <2>1
  <2>3. u + v - z \in Int /\ u + v - z <= 3 * MostSymbol
    BY <1>4, <2>2
  <2> QED
    BY <2>1, <2>3
<1>16. CostScale * x \in Int /\ CostScale * x <= CostScale * (3 * MostSymbol)
  <2>1. CostScale \in Nat /\ 3 * MostSymbol \in Int
    BY <1>4
  <2> QED
    BY <1>15, <2>1, ScaleMonotone
<1>19. PICK c, y : c = CostScale * x /\ y = CostScale * (3 * MostSymbol)
  OBVIOUS
<1>20. LiteralCost(p, now) = c + (IF now.run = FullRun - 1 THEN 2 ELSE 0) /\ MostStep = y + 4
  BY <1>14, <1>15, <1>19 DEF MostStep
<1>21. c \in Int /\ y \in Int /\ c <= y
  <2>1. 3 * MostSymbol \in Nat /\ CostScale \in Nat
    BY <1>4
  <2>2. \A v, u \in Nat : v * u \in Int
    OBVIOUS
  <2>3. CostScale * (3 * MostSymbol) \in Int
    BY <2>1, <2>2
  <2> QED
    BY <1>16, <1>19, <2>3
<1> QED
  BY <1>2, <1>20, <1>21

(* So does a match.                                                        *)
LEMMA MatchCosts ==
  ASSUME Chosen, NEW n, Spanned(n), NEW now \in Arrival, NEW d \in 1 .. Farthest,
         NEW l \in 2 .. n, NEW penalty
  PROVE  /\ MatchCost(l, d, now, penalty) \in Int
         /\ MatchCost(l, d, now, penalty) <= MostStep
<1>1. PICK m \in Models : m = coding.model
  BY ModelTyped
<1>2. n \in Nat /\ n <= MostLength
  BY DEF Spanned
<1>3. /\ MostSymbol \in Nat /\ CostScale \in Nat \ {0} /\ FullRun \in Nat \ {0}
      /\ LongMatch \in Nat /\ LongMatch >= 2 /\ MostLength \in Nat
  BY ModelTyped
<1>10. /\ \A run \in 0 .. FullRun, k \in 0 .. 3, x \in 2 .. LongMatch :
            TokenSymbol(m, run, k, x) \in 0 .. MostSymbol
       /\ \A x \in 1 .. Farthest : DistanceSymbol(m, x) \in 0 .. MostSymbol
       /\ \A x \in 0 .. MostLength : LengthSymbol(m, x) \in 0 .. MostSymbol
  BY ModelsAssumption
<1> DEFINE field == DistanceField(d, now.reps)
           long == l >= LongMatch
           fresh == field = 3 \/ (field > 0 /\ ~opts.advanced)
           t == TokenSymbol(m, AtMost(now.run, FullRun), field, AtMost(l, LongMatch))
           b == IF long THEN LengthSymbol(m, l - LongMatch) ELSE 0
           c == IF fresh THEN DistanceSymbol(m, d) ELSE 0
<1>4. field \in 0 .. 3
  BY DEF DistanceField, AdvField, StdField
<1>5. AtMost(now.run, FullRun) \in 0 .. FullRun
  BY <1>3 DEF Arrival, AtMost
<1>6. AtMost(l, LongMatch) \in 2 .. LongMatch
  BY <1>3 DEF AtMost
<1>7. t \in 0 .. MostSymbol
  BY <1>4, <1>5, <1>6, <1>10
<1>8. b \in 0 .. MostSymbol
  <2>1. long => l - LongMatch \in 0 .. MostLength
    BY <1>2, <1>3
  <2>2. 0 \in 0 .. MostSymbol
    BY <1>3
  <2> QED
    BY <1>10, <2>1, <2>2
<1>9. c \in 0 .. MostSymbol
  <2>1. DistanceSymbol(m, d) \in 0 .. MostSymbol
    BY <1>10
  <2>2. 0 \in 0 .. MostSymbol
    BY <1>3
  <2> QED
    BY <2>1, <2>2
<1> DEFINE f == IF long THEN 2 ELSE 0
           g == IF penalty /\ d > Remote THEN 1 ELSE 0
<1>11. MatchCost(l, d, now, penalty) = CostScale * (t + b + c) + 1 + f + g
  BY <1>1 DEF MatchCost
<1>14. f \in 0 .. 2 /\ g \in 0 .. 1
  OBVIOUS
<1> HIDE DEF t, b, c, f, g
<1>12. PICK x \in Int : x = t + b + c /\ x <= 3 * MostSymbol
  <2>1. t + b + c \in Int /\ t + b + c <= 3 * MostSymbol
    BY <1>3, <1>7, <1>8, <1>9
  <2> QED
    BY <2>1
<1>13. CostScale * x \in Int /\ CostScale * x <= CostScale * (3 * MostSymbol)
  <2>1. CostScale \in Nat /\ 3 * MostSymbol \in Int
    BY <1>3
  <2> QED
    BY <1>12, <2>1, ScaleMonotone
<1>15. PICK z, y : z = CostScale * x /\ y = CostScale * (3 * MostSymbol)
  OBVIOUS
<1>16. MatchCost(l, d, now, penalty) = z + 1 + f + g /\ MostStep = y + 4
  BY <1>11, <1>12, <1>15 DEF MostStep
<1>17. z \in Int /\ y \in Int /\ z <= y
  <2>1. 3 * MostSymbol \in Nat /\ CostScale \in Nat
    BY <1>3
  <2>2. \A v, u \in Nat : v * u \in Int
    OBVIOUS
  <2>3. CostScale * (3 * MostSymbol) \in Int
    BY <2>1, <2>2
  <2> QED
    BY <1>13, <1>15, <2>3
<1> QED
  BY <1>14, <1>16, <1>17

(* insertOptimalArrival: the arrivals stay those of their place, and the   *)
(* first is not dearer than before, nor than the new one.                  *)
LEMMA InsertKeeps ==
  ASSUME NEW M \in Nat \ {0}, NEW P, \A a \in P : a.cost \in Int, NEW f \in [1 .. M -> P], NEW a \in P
  PROVE  /\ Insert(f, a) \in [1 .. M -> P]
         /\ Insert(f, a)[1].cost <= f[1].cost
         /\ Insert(f, a)[1].cost <= a.cost
<1> DEFINE ends == {s \in 1 .. M : \/ f[s].cost <= a.cost /\ f[s].reps[1] = a.reps[1]
                                   \/ a.cost < f[s].cost}
           at == CHOOSE s \in ends : \A t \in ends : s <= t
           moved == [s \in 1 .. M |-> IF s < at THEN f[s] ELSE IF s = at THEN a ELSE f[s - 1]]
<1>1. DOMAIN f = 1 .. M
  OBVIOUS
<1>2. Insert(f, a) = IF ends = {} \/ f[at].cost <= a.cost THEN f ELSE moved
  BY <1>1 DEF Insert
<1>3. \A s \in 1 .. M : f[s] \in P /\ f[s].cost \in Int
  OBVIOUS
<1>4. 1 \in 1 .. M /\ a.cost \in Int
  OBVIOUS
<1>5. 1 \notin ends => f[1].cost <= a.cost
  BY <1>3, <1>4
<1>6. ends # {} => at \in ends /\ \A t \in ends : at <= t
  <2>1. ends \in SUBSET Nat
    OBVIOUS
  <2> HIDE DEF ends
  <2>2. ends # {} => \E s \in ends : \A t \in ends : s <= t
    BY <2>1, LeastNatural
  <2> QED
    BY <2>2
<1>7. ends \subseteq 1 .. M
  OBVIOUS
<1>8. \A t \in ends : ~(f[t].cost <= a.cost) => a.cost < f[t].cost
  OBVIOUS
<1> HIDE DEF ends, at
<1>9. CASE ends = {}
  BY <1>2, <1>3, <1>4, <1>5, <1>9
<1>10. CASE ends # {} /\ f[at].cost <= a.cost
  <2>1. f[1].cost <= a.cost
    <3>1. CASE at = 1
      BY <1>10, <3>1
    <3>2. CASE at # 1
      <4>1. at \in 1 .. M
        BY <1>6, <1>7, <1>10
      <4>2. 1 \notin ends
        BY <1>4, <1>6, <1>10, <3>2, <4>1
      <4> QED
        BY <1>5, <4>2
    <3> QED
      BY <3>1, <3>2
  <2> QED
    BY <1>2, <1>3, <1>4, <1>10, <2>1
<1>11. CASE ends # {} /\ ~(f[at].cost <= a.cost)
  <2>1. at \in 1 .. M /\ a.cost < f[at].cost
    BY <1>6, <1>7, <1>8, <1>11
  <2>2. moved \in [1 .. M -> P]
    BY <1>3, <2>1
  <2>3. moved[1] = IF at = 1 THEN a ELSE f[1]
    BY <1>4, <2>1
  <2>4. Insert(f, a) = moved
    BY <1>2, <1>11
  <2> HIDE DEF moved
  <2>5. moved[1].cost <= f[1].cost /\ moved[1].cost <= a.cost
    <3>1. CASE at = 1
      BY <1>3, <1>4, <2>1, <2>3, <3>1
    <3>2. CASE at # 1
      <4>1. 1 \notin ends
        BY <1>4, <1>6, <2>1, <3>2
      <4> QED
        BY <1>3, <1>4, <1>5, <2>3, <3>2, <4>1
    <3> QED
      BY <3>1, <3>2
  <2> QED
    BY <2>2, <2>4, <2>5
<1> QED
  BY <1>9, <1>10, <1>11

(* The arrivals of the places.                                             *)
LEMMA PlacesAre ==
  ASSUME NEW n \in Nat, NEW f
  PROVE  f \in Places(n) <=> /\ f = [i \in 0 .. n |-> f[i]]
                             /\ \A i \in 0 .. n : f[i] \in [1 .. MaxArrivals -> Place(i)]
<1>1. \A i : Place(i) \subseteq Arrival
  BY DEF Place
<1> HIDE DEF MaxArrivals, Arrival
<1>2. ASSUME f \in Places(n)
      PROVE  /\ f = [i \in 0 .. n |-> f[i]]
             /\ \A i \in 0 .. n : f[i] \in [1 .. MaxArrivals -> Place(i)]
  BY <1>2 DEF Places
<1>3. ASSUME f = [i \in 0 .. n |-> f[i]], \A i \in 0 .. n : f[i] \in [1 .. MaxArrivals -> Place(i)]
      PROVE  f \in Places(n)
  <2>1. \A i \in 0 .. n : \A path \in 1 .. MaxArrivals : f[i][path] \in Place(i)
    BY <1>3
  <2>2. \A i \in 0 .. n : f[i] \in [1 .. MaxArrivals -> Arrival]
    BY <1>1, <1>3
  <2>3. f \in [0 .. n -> [1 .. MaxArrivals -> Arrival]]
    BY <1>3, <2>2
  <2> QED
    BY <2>1, <2>3 DEF Places
<1> QED
  BY <1>2, <1>3

(* The arrivals of the places, and what they have counted.                 *)
LEMMA FollowedAre ==
  ASSUME NEW n \in Nat, NEW f \in Followed(n)
  PROVE  /\ f \in Places(n)
         /\ \A i \in 0 .. n : f[i] \in [1 .. MaxArrivals -> Place(i)]
         /\ \A i \in 0 .. n : f[i] \in [1 .. MaxArrivals -> Sound(i)]
         /\ Counted => \A i \in 0 .. n : i <= Index => f[i] = chunk.arrivals[i]
<1>1. f \in Places(n)
  BY DEF Followed
<1>2. \A i \in 0 .. n : f[i] \in [1 .. MaxArrivals -> Place(i)]
  BY <1>1, PlacesAre
<1>3. Counted => \A i \in 0 .. n : i <= Index => f[i] = chunk.arrivals[i]
  BY DEF Followed
<1>4. Counted => \A i \in 0 .. n : \A path \in 1 .. MaxArrivals :
                   f[i][path].cost = Infinite \/ Follows(f[i][path], i)
  BY DEF Followed
<1>5. ASSUME NEW i \in 0 .. n
      PROVE  f[i] \in [1 .. MaxArrivals -> Sound(i)]
  <2>1. f[i] \in [1 .. MaxArrivals -> Place(i)]
    BY <1>2
  <2>2. \A path \in 1 .. MaxArrivals : f[i][path] \in Sound(i)
    BY <1>4, <2>1 DEF Sound
  <2> HIDE DEF Sound
  <2> QED
    BY <2>1, <2>2
<1> QED
  BY <1>1, <1>2, <1>3, <1>5

LEMMA FollowedMade ==
  ASSUME NEW n \in Nat, NEW f \in Places(n),
         \A i \in 0 .. n : f[i] \in [1 .. MaxArrivals -> Sound(i)],
         Counted => \A i \in 0 .. n : i <= Index => f[i] = chunk.arrivals[i]
  PROVE  f \in Followed(n)
<1>1. ASSUME Counted, NEW i \in 0 .. n, NEW path \in 1 .. MaxArrivals
      PROVE  f[i][path].cost = Infinite \/ Follows(f[i][path], i)
  <2>1. f[i][path] \in Sound(i)
    OBVIOUS
  <2> QED
    BY <1>1, <2>1 DEF Sound
<1> QED
  BY <1>1 DEF Followed

(* updateOptimalRepOffsets.                                                *)
LEMMA RepsUpdated ==
  ASSUME NEW r \in Reps, NEW d \in Nat
  PROVE  UpdatedReps(r, d) \in Reps /\ Written(r, d) \in Reps
<1>1. r[1] \in Nat /\ r[2] \in Nat /\ r[3] \in Nat
  BY DEF Reps
<1>2. \A a, b, c \in Nat : <<a, b, c>> \in Reps
  BY DEF Reps
<1>3. UpdatedReps(r, d) \in Reps
  <2>1. \/ UpdatedReps(r, d) = <<d, r[2], r[3]>> \/ UpdatedReps(r, d) = r
        \/ UpdatedReps(r, d) = <<d, r[1], r[3]>> \/ UpdatedReps(r, d) = <<d, r[1], r[2]>>
    BY DEF UpdatedReps
  <2> QED
    BY <1>1, <1>2, <2>1
<1>4. Written(r, d) \in Reps
  <2>1. \/ Written(r, d) = <<d, r[2], r[3]>> \/ Written(r, d) = r
        \/ Written(r, d) = <<d, r[1], r[3]>> \/ Written(r, d) = <<d, r[1], r[2]>>
    BY DEF Written, RepsWritten
  <2> QED
    BY <1>1, <1>2, <2>1
<1> QED
  BY <1>3, <1>4

(* The distances after each step of a list.                                *)
Unfolds(g, r, list, m) ==
  /\ g[0] = r
  /\ \A i \in 1 .. m : g[i] = Written(g[i - 1], list[i].distance)
  /\ RepsBehind(r, list) = g[m]

LEMMA RepsUnfold ==
  ASSUME NEW r \in Reps, NEW list, NEW m \in Nat, m = Len(list),
         \A i \in 1 .. m : list[i].distance \in Nat
  PROVE  \E g : Unfolds(g, r, list, m)
<1> DEFINE g[i \in 0 .. m] == IF i = 0 THEN r ELSE Written(g[i - 1], list[i].distance)
           G(h) ==
             [i \in 0 .. m |-> IF i = 0 THEN r ELSE Written(h[i - 1], list[i].distance)]
           F == [i \in 1 .. m |-> [x \in Reps |-> Written(x, list[i].distance)]]
<1>1. F \in [1 .. m -> [Reps -> Reps]]
  BY RepsUpdated
<1>2. \A i \in 1 .. m : \A x \in Reps : F[i][x] = Written(x, list[i].distance)
  OBVIOUS
<1> HIDE DEF F
<1>3. PICK f \in [0 .. m -> Reps] : f[0] = r /\ \A i \in 1 .. m : f[i] = F[i][f[i - 1]]
  <2>1. Recursive(Reps, r, m, F) # {}
    BY <1>1, Recursion
  <2> QED
    BY <2>1 DEF Recursive
<1>4. f = G(f)
  <2>1. \A i \in 1 .. m : i - 1 \in 0 .. m
    OBVIOUS
  <2>2. \A i \in 1 .. m : f[i] = Written(f[i - 1], list[i].distance)
    BY <1>2, <1>3, <2>1
  <2> QED
    BY <1>3, <2>2
<1>5. g = CHOOSE h : h = G(h)
  OBVIOUS
<1> HIDE DEF g
<1>6. g = G(g)
  BY <1>4, <1>5
<1>7. g[0] = r
  BY <1>6
<1>8. \A i \in 1 .. m : g[i] = Written(g[i - 1], list[i].distance)
  <2>1. \A i \in 1 .. m : i \in 0 .. m /\ i # 0
    OBVIOUS
  <2> QED
    BY <1>6, <2>1
<1>9. RepsBehind(r, list) = g[m]
  BY DEF RepsBehind, g
<1>10. Unfolds(g, r, list, m)
  BY <1>7, <1>8, <1>9 DEF Unfolds
<1> QED
  BY <1>10

(* A list without steps leaves the distances as they are.                  *)
LEMMA RepsNone ==
  ASSUME NEW r \in Reps
  PROVE  RepsBehind(r, <<>>) = r
<1>1. PICK g : Unfolds(g, r, <<>>, 0)
  <2>1. 0 = Len(<<>>) /\ 0 \in Nat /\ \A i \in 1 .. 0 : <<>>[i].distance \in Nat
    OBVIOUS
  <2> QED
    BY <2>1, RepsUnfold
<1> QED
  BY <1>1 DEF Unfolds

(* One more step.                                                          *)
LEMMA RepsAppend ==
  ASSUME NEW r \in Reps, NEW S, NEW l \in Seq(S), \A x \in S : x.distance \in Nat, NEW s \in S
  PROVE  /\ RepsBehind(r, l) \in Reps
         /\ RepsBehind(r, Append(l, s)) = Written(RepsBehind(r, l), s.distance)
<1> DEFINE m == Len(l)
           k == Append(l, s)
<1>1. m \in Nat /\ \A i \in 1 .. m : l[i] \in S
  BY LenProperties
<1>2. /\ Len(k) = m + 1 /\ k[m + 1] = s
      /\ \A i \in 1 .. m : k[i] = l[i]
  BY AppendProperties
<1>3. \A i \in 1 .. m : l[i].distance \in Nat
  BY <1>1
<1>4. \A i \in 1 .. (m + 1) : k[i].distance \in Nat
  <2> TAKE i \in 1 .. (m + 1)
  <2>1. CASE i = m + 1
    BY <1>2, <2>1
  <2>2. CASE i # m + 1
    <3>1. i \in 1 .. m
      BY <1>1, <2>2
    <3> QED
      BY <1>2, <1>3, <3>1
  <2> QED
    BY <2>1, <2>2
<1>5. m = Len(l) /\ m + 1 \in Nat
  BY <1>1
<1> HIDE DEF m, k
<1>6. PICK g : Unfolds(g, r, l, m)
  <2>1. m \in Nat /\ m = Len(l)
    BY <1>1, <1>2, <1>5
  <2> QED
    BY <1>3, <2>1, RepsUnfold, Zenon
<1>7. PICK h : Unfolds(h, r, k, m + 1)
  <2>1. m + 1 \in Nat /\ m + 1 = Len(k)
    BY <1>1, <1>2, <1>5
  <2> QED
    BY <1>4, <2>1, RepsUnfold, Zenon
<1> DEFINE T == {i \in 0 .. m : h[i] = g[i]}
<1>8. 0 \in T
  BY <1>1, <1>6, <1>7 DEF Unfolds
<1>9. ASSUME NEW i \in 0 .. (m - 1), i \in T
      PROVE  i + 1 \in T
  <2>1. PICK j \in 1 .. m : j = i + 1 /\ j - 1 = i /\ j \in 1 .. (m + 1) /\ j \in 0 .. m
    <3>1. /\ i + 1 \in 1 .. m /\ i + 1 - 1 = i
          /\ i + 1 \in 1 .. (m + 1) /\ i + 1 \in 0 .. m
      BY <1>1
    <3> QED
      BY <3>1
  <2>2. h[j - 1] = g[j - 1] /\ k[j] = l[j]
    BY <1>2, <1>9, <2>1
  <2>3. h[j] = g[j]
    BY <1>6, <1>7, <2>1, <2>2 DEF Unfolds
  <2> QED
    BY <2>1, <2>3
<1>10. \A i \in 0 .. m : i \in T
  <2> HIDE DEF T
  <2> QED
    BY <1>1, <1>8, <1>9, UpTo
<1>11. h[m] = g[m]
  BY <1>1, <1>10
<1>12. h[m + 1] = Written(h[m], s.distance)
  <2>1. PICK j : j = m + 1
    OBVIOUS
  <2>3. j \in 1 .. (m + 1) /\ j - 1 = m
    BY <1>1, <2>1
  <2>2. h[j] = Written(h[j - 1], k[j].distance)
    BY <1>7, <2>3 DEF Unfolds
  <2> QED
    BY <1>2, <2>1, <2>2, <2>3
<1>13. RepsBehind(r, l) \in Reps
  <2>1. \A x \in Reps : \A i \in 1 .. m : Written(x, l[i].distance) \in Reps
    BY <1>3, RepsUpdated
  <2> QED
    BY <1>1, <1>5, <2>1, RepsKeep
<1> QED
  BY <1>6, <1>7, <1>11, <1>12, <1>13 DEF k, Unfolds

(* One step before.                                                        *)
LEMMA RepsCons ==
  ASSUME NEW r \in Reps, NEW S, NEW l \in Seq(S), \A x \in S : x.distance \in Nat, NEW s \in S
  PROVE  RepsBehind(r, <<s>> \o l) = RepsBehind(Written(r, s.distance), l)
<1> DEFINE m == Len(l)
           k == <<s>> \o l
<1>1. m \in Nat /\ \A i \in 1 .. m : l[i] \in S
  BY LenProperties
<1>2. /\ Len(k) = m + 1 /\ k[1] = s
      /\ \A i \in 1 .. m : k[i + 1] = l[i]
  <2>1. <<s>> \in Seq(S) /\ Len(<<s>>) = 1 /\ <<s>>[1] = s
    OBVIOUS
  <2>2. /\ Len(k) = 1 + m
        /\ \A i \in 1 .. (1 + m) : k[i] = IF i <= 1 THEN <<s>>[i] ELSE l[i - 1]
    BY <1>1, <2>1, ConcatProperties
  <2> HIDE DEF k, m
  <2>3. \A i \in 1 .. m : i + 1 \in 1 .. (1 + m) /\ ~(i + 1 <= 1) /\ i + 1 - 1 = i
    BY <1>1
  <2>4. k[1] = <<s>>[1]
    BY <1>1, <2>2
  <2>5. \A i \in 1 .. m : k[i + 1] = l[i]
    BY <2>2, <2>3
  <2> QED
    BY <1>1, <2>1, <2>2, <2>4, <2>5
<1>3. \A i \in 1 .. m : l[i].distance \in Nat
  BY <1>1
<1>5. m = Len(l) /\ m + 1 \in Nat
  BY <1>1
<1> HIDE DEF m, k
<1>4. \A i \in 1 .. (m + 1) : k[i].distance \in Nat
  <2> TAKE i \in 1 .. (m + 1)
  <2>1. CASE i = 1
    BY <1>2, <2>1
  <2>2. CASE i # 1
    <3>1. PICK j \in 1 .. m : i = j + 1
      <4>1. i - 1 \in 1 .. m /\ i = (i - 1) + 1
        BY <1>1, <2>2
      <4> QED
        BY <4>1
    <3>2. k[i] = l[j]
      BY <1>2, <3>1
    <3> QED
      BY <1>3, <3>1, <3>2
  <2> QED
    BY <2>1, <2>2
<1> DEFINE q == Written(r, s.distance)
<1>6. q \in Reps
  BY RepsUpdated
<1> HIDE DEF q
<1>7. PICK g : Unfolds(g, q, l, m)
  <2>1. m \in Nat /\ m = Len(l)
    BY <1>1, <1>2, <1>5
  <2> QED
    BY <1>3, <1>6, <2>1, RepsUnfold, Zenon
<1>8. PICK h : Unfolds(h, r, k, m + 1)
  <2>1. m + 1 \in Nat /\ m + 1 = Len(k)
    BY <1>1, <1>2, <1>5
  <2> QED
    BY <1>4, <2>1, RepsUnfold, Zenon
<1> DEFINE T == {i \in 0 .. m : h[i + 1] = g[i]}
<1>9. 0 \in T
  <2>1. 1 \in 1 .. (m + 1) /\ 1 - 1 = 0 /\ 0 + 1 = 1 /\ 0 \in 0 .. m
    BY <1>1
  <2>2. h[1] = Written(h[0], s.distance)
    BY <1>2, <1>8, <2>1 DEF Unfolds
  <2> QED
    BY <1>7, <1>8, <2>1, <2>2 DEF q, Unfolds
<1>10. ASSUME NEW i \in 0 .. (m - 1), i \in T
       PROVE  i + 1 \in T
  <2>1. PICK j \in 1 .. m : /\ j = i + 1 /\ j - 1 = i /\ j \in 0 .. m
                            /\ j + 1 \in 1 .. (m + 1) /\ j + 1 - 1 = j
    <3>1. /\ i + 1 \in 1 .. m /\ i + 1 - 1 = i /\ i + 1 \in 0 .. m
          /\ i + 1 + 1 \in 1 .. (m + 1) /\ i + 1 + 1 - 1 = i + 1
      BY <1>1
    <3> QED
      BY <3>1
  <2>2. h[j] = g[j - 1] /\ k[j + 1] = l[j]
    BY <1>2, <1>10, <2>1
  <2>3. h[j + 1] = Written(h[j], k[j + 1].distance)
    BY <1>8, <2>1 DEF Unfolds
  <2>4. h[j + 1] = g[j]
    BY <1>7, <2>1, <2>2, <2>3 DEF Unfolds
  <2> QED
    BY <2>1, <2>4
<1>11. \A i \in 0 .. m : i \in T
  <2> HIDE DEF T
  <2> QED
    BY <1>1, <1>9, <1>10, UpTo
<1>12. h[m + 1] = g[m]
  BY <1>1, <1>11
<1> QED
  BY <1>7, <1>8, <1>12 DEF k, q, Unfolds

(* The encoder writes what the parser counts.                              *)
LEMMA RepsAgree ==
  ASSUME NEW r \in Reps, NEW d
  PROVE  UpdatedReps(r, d) = Written(r, d)
BY DEF UpdatedReps, Written, RepsWritten

(* A literal goes to the next place.                                       *)
LEMMA LiteralPlaced ==
  ASSUME Chosen, NEW n, Spanned(n), NEW i \in 0 .. (n - 1), NEW path \in 1 .. MaxArrivals,
         NEW now \in Place(i), now.cost # Infinite, NEW a,
         a = [cost |-> now.cost + LiteralCost(chunk.from + i, now), prev |-> i, path |-> path,
              len |-> 0, dist |-> 0, run |-> now.run + 1, reps |-> now.reps]
  PROVE  a \in Place(i + 1) /\ a.cost \in Int /\ a.cost <= MostCost(i + 1)
<1>1. MaxArrivals \in Nat \ {0} /\ Infinite \in Nat /\ i \in Nat /\ n \in Nat
  BY Widths DEF Spanned
<1>2. PICK c : c = LiteralCost(chunk.from + i, now)
  OBVIOUS
<1>3. /\ now \in Arrival /\ now.cost <= MostCost(i) /\ now.run <= i
      /\ now.cost \in Int /\ now.run \in Nat /\ now.reps \in Reps
  BY DEF Place, Arrival
<1>4. /\ MostCost(i) \in Nat /\ MostStep \in Nat /\ MostCost(i + 1) = MostCost(i) + MostStep
      /\ c \in Int /\ c <= MostStep
  BY <1>1, <1>2, CostGrows, LiteralCosts
<1>5. a.cost \in Int /\ a.cost <= MostCost(i + 1) /\ a.run \in Nat /\ a.run <= i + 1
  BY <1>1, <1>2, <1>3, <1>4
<1>6. a \in Arrival
  BY <1>1, <1>3, <1>5 DEF Arrival
<1>7. a.prev = i /\ a.path \in 1 .. MaxArrivals /\ a.len = 0
  OBVIOUS
<1> QED
  BY <1>1, <1>5, <1>6, <1>7 DEF Place

LEMMA LiteralKeeps ==
  ASSUME Chosen, NEW n \in Nat, Spanned(n), NEW f \in Places(n), NEW i \in 0 .. (n - 1),
         NEW path \in 1 .. MaxArrivals, NEW now \in Place(i), now.cost # Infinite
  PROVE  /\ WithLiteral(f, i, path, now) \in Places(n)
         /\ \A k \in 0 .. n : WithLiteral(f, i, path, now)[k][1].cost <= f[k][1].cost
         /\ WithLiteral(f, i, path, now)[i + 1][1].cost <= MostCost(i + 1)
<1> DEFINE a == [cost |-> now.cost + LiteralCost(chunk.from + i, now), prev |-> i, path |-> path,
                 len |-> 0, dist |-> 0, run |-> now.run + 1, reps |-> now.reps]
           M == MaxArrivals
           g == WithLiteral(f, i, path, now)
<1>1. M \in Nat \ {0} /\ Infinite \in Nat
  BY Widths
<1>2. i \in Nat /\ i + 1 \in 0 .. n
  OBVIOUS
<1>4. MostCost(i + 1) \in Nat
  BY <1>2, CostGrows
<1>6. a \in Place(i + 1) /\ a.cost \in Int /\ a.cost <= MostCost(i + 1)
  BY <1>2, LiteralPlaced
<1>7. /\ f = [k \in 0 .. n |-> f[k]]
      /\ \A k \in 0 .. n : f[k] \in [1 .. M -> Place(k)]
  BY PlacesAre
<1>8. g = [f EXCEPT ![i + 1] = Insert(f[i + 1], a)]
  BY DEF WithLiteral
<1> HIDE DEF a, M, g
<1>9. \A x \in Place(i + 1) : x.cost \in Int
  BY DEF Place, Arrival
<1>10. /\ Insert(f[i + 1], a) \in [1 .. M -> Place(i + 1)]
       /\ Insert(f[i + 1], a)[1].cost <= f[i + 1][1].cost
       /\ Insert(f[i + 1], a)[1].cost <= a.cost
  <2>1. f[i + 1] \in [1 .. M -> Place(i + 1)]
    BY <1>2, <1>7
  <2> QED
    BY <1>1, <1>6, <1>9, <2>1, InsertKeeps
<1>11. \A k \in 0 .. n : g[k] = IF k = i + 1 THEN Insert(f[i + 1], a) ELSE f[k]
  BY <1>2, <1>7, <1>8
<1>12. g = [k \in 0 .. n |-> g[k]]
  BY SMTT(60), <1>7, <1>8
<1>13. g \in Places(n)
  <2>1. \A k \in 0 .. n : g[k] \in [1 .. M -> Place(k)]
    BY <1>7, <1>10, <1>11
  <2> QED
    BY <1>12, <2>1, PlacesAre DEF M
<1>14. \A k \in 0 .. n : f[k][1].cost \in Int
  BY SMTT(60), <1>1, <1>7 DEF Place, Arrival
<1>15. \A k \in 0 .. n : g[k][1].cost <= f[k][1].cost
  BY <1>10, <1>11, <1>14
<1>16. g[i + 1][1].cost <= MostCost(i + 1)
  <2>1. Insert(f[i + 1], a)[1].cost \in Int
    BY <1>1, <1>9, <1>10
  <2> QED
    BY SMTT(60), <1>2, <1>4, <1>6, <1>10, <1>11, <2>1
<1> QED
  BY <1>13, <1>15, <1>16 DEF g

(* noHuffmanStoredMatchLength cuts a match, but not to less than two bytes.*)
LEMMA StoredFits ==
  ASSUME Chosen, NEW l \in Nat, l >= 2
  PROVE  StoredLength(l) \in 2 .. l
BY Widths DEF StoredLength

(* A match goes to the place where it ends.                                *)
LEMMA MatchPlaced ==
  ASSUME Chosen, NEW n, Spanned(n), NEW i \in Nat, NEW k \in Nat, k <= n,
         NEW path \in 1 .. MaxArrivals, NEW now \in Place(i), now.cost # Infinite,
         NEW d \in Nat, k - i >= 2, Real(chunk.from + i, k - i, d), NEW penalty, NEW a,
         a = [cost |-> now.cost + MatchCost(k - i, d, now, penalty), prev |-> i, path |-> path,
              len |-> k - i, dist |-> d, run |-> 0, reps |-> UpdatedReps(now.reps, d)]
  PROVE  a \in Place(k)
<1>1. MaxArrivals \in Nat \ {0} /\ Infinite \in Nat /\ n \in Nat
  BY Widths DEF Spanned
<1>2. PICK c : c = MatchCost(k - i, d, now, penalty)
  OBVIOUS
<1>3. /\ now \in Arrival /\ now.cost <= MostCost(i)
      /\ now.cost \in Int /\ now.reps \in Reps
  BY DEF Place, Arrival
<1>4. /\ MostCost(i) \in Nat /\ MostStep \in Nat /\ MostCost(i) + MostStep <= MostCost(k)
      /\ MostCost(k) \in Nat /\ c \in Int /\ c <= MostStep
  <2>1. i + 1 \in Nat /\ i + 1 <= k /\ k - i \in 2 .. n
    BY <1>1
  <2>2. d \in 1 .. Farthest
    BY DEF Real
  <2> QED
    BY <1>2, <1>3, <2>1, <2>2, CostGrows, MatchCosts
<1>5. UpdatedReps(now.reps, d) \in Reps
  BY <1>3, RepsUpdated
<1>6. a.cost \in Int /\ a.cost <= MostCost(k)
  BY <1>2, <1>3, <1>4
<1>7. a \in Arrival
  BY <1>1, <1>5, <1>6 DEF Arrival
<1>8. /\ a.prev = i /\ a.path = path /\ a.len = k - i /\ a.run = 0 /\ a.dist = d
      /\ i < k /\ i + (k - i) = k
  OBVIOUS
<1> QED
  BY <1>6, <1>7, <1>8 DEF Place

(* Matches go to the places where they end.                                *)
LEMMA MatchesKeep ==
  ASSUME Chosen, NEW n \in Nat, Spanned(n), NEW f \in Places(n), NEW i \in 0 .. n,
         NEW path \in 1 .. MaxArrivals, NEW now \in Place(i), now.cost # Infinite,
         NEW d \in Nat, NEW penalty, NEW lengths, \A l \in lengths : /\ l \in Nat /\ l >= 2 /\ i + l <= n
                                                   /\ Real(chunk.from + i, l, d)
  PROVE  /\ WithMatches(f, i, path, now, d, lengths, penalty) \in Places(n)
         /\ \A k \in 0 .. n :
              WithMatches(f, i, path, now, d, lengths, penalty)[k][1].cost <= f[k][1].cost
<1> DEFINE stored == {StoredLength(l) : l \in lengths}
           a(l) == [cost |-> now.cost + MatchCost(l, d, now, penalty), prev |-> i, path |-> path,
                    len |-> l, dist |-> d, run |-> 0, reps |-> UpdatedReps(now.reps, d)]
           M == MaxArrivals
           g == WithMatches(f, i, path, now, d, lengths, penalty)
<1>1. M \in Nat \ {0} /\ Infinite \in Nat
  BY Widths
<1>2. i \in Nat /\ DOMAIN f = 0 .. n
  BY PlacesAre
<1>6. ASSUME NEW k \in 0 .. n, k - i \in stored
      PROVE  a(k - i) \in Place(k)
  <2>1. PICK l \in lengths : k - i = StoredLength(l)
    BY <1>6
  <2>2. k - i \in Nat /\ k - i >= 2 /\ k \in Nat
    BY <2>1, StoredFits
  <2>3. Real(chunk.from + i, k - i, d)
    <3>1. StoredLength(l) \in 2 .. l /\ l \in Nat /\ Real(chunk.from + i, l, d)
      BY StoredFits
    <3>2. k - i \in Int /\ l \in Int /\ k - i <= l
      BY <2>1, <3>1
    <3> QED
      BY <3>1, <3>2, RealPrefix
  <2> QED
    BY <1>2, <2>2, <2>3, MatchPlaced
<1>7. \A k \in 0 .. n : f[k] \in [1 .. M -> Place(k)]
  BY PlacesAre
<1>8. g = [k \in 0 .. n |-> IF k - i \in stored THEN Insert(f[k], a(k - i)) ELSE f[k]]
  BY <1>2 DEF WithMatches
<1> HIDE DEF a, M, g, stored
<1>9. ASSUME NEW k \in 0 .. n
      PROVE  g[k] \in [1 .. M -> Place(k)] /\ g[k][1].cost <= f[k][1].cost
  <2>1. \A x \in Place(k) : x.cost \in Int
    BY DEF Place, Arrival
  <2>2. f[k] \in [1 .. M -> Place(k)]
    BY <1>7
  <2>3. CASE k - i \in stored
    <3>1. PICK b \in Place(k) : g[k] = Insert(f[k], b)
      BY <1>6, <1>8, <2>3
    <3> DEFINE P == Place(k)
    <3> HIDE DEF P
    <3>2. (\A x \in P : x.cost \in Int) /\ f[k] \in [1 .. M -> P] /\ b \in P
      BY <2>1, <2>2 DEF P
    <3>3. Insert(f[k], b) \in [1 .. M -> P] /\ Insert(f[k], b)[1].cost <= f[k][1].cost
      BY <1>1, <3>2, InsertKeeps
    <3> QED
      BY <3>1, <3>3 DEF P
  <2>4. CASE k - i \notin stored
    <3>1. g[k] = f[k]
      BY <1>8, <2>4
    <3>2. f[k][1].cost \in Int
      BY <1>1, <2>1, <2>2
    <3> QED
      BY <2>2, <3>1, <3>2
  <2> QED
    BY <2>3, <2>4
<1>10. g = [k \in 0 .. n |-> g[k]]
  BY <1>8
<1>11. g \in Places(n)
  BY <1>9, <1>10, PlacesAre DEF M
<1> QED
  BY <1>9, <1>11 DEF g

-----------------------------------------------------------------------------
(* Steps that tile.                                                        *)

(* Steps from x on are steps from any earlier place on.                    *)
LEMMA TilesFrom ==
  ASSUME NEW list \in Seq(Step), NEW x \in Int, NEW y \in Int, y <= x, Tiles(list, x)
  PROVE  Tiles(list, y)
<1> SUFFICES ASSUME NEW i \in DOMAIN list
             PROVE  /\ list[i].length >= 2
                    /\ list[i].pos >= (IF i = 1 THEN y ELSE list[i - 1].pos + list[i - 1].length)
  BY DEF Tiles
<1>1. list[i] \in Step
  BY ElementOfSeq
<1>2. /\ list[i].length >= 2
      /\ list[i].pos >= (IF i = 1 THEN x ELSE list[i - 1].pos + list[i - 1].length)
  BY DEF Tiles
<1>3. list[i].pos \in Nat
  BY <1>1 DEF Step
<1> QED
  BY <1>2, <1>3

(* A step before others that begin where it ends.                          *)
LEMMA TilesBefore ==
  ASSUME NEW list \in Seq(Step), NEW s \in Step, s.length >= 2, Tiles(list, s.pos + s.length)
  PROVE  <<s>> \o list \in Seq(Step) /\ Tiles(<<s>> \o list, s.pos)
<1> DEFINE l == <<s>> \o list
           m == Len(list)
<1>1. m \in Nat /\ DOMAIN list = 1 .. m /\ \A i \in 1 .. m : list[i] \in Step
  BY LenProperties, ElementOfSeq
<1>2. <<s>> \in Seq(Step) /\ Len(<<s>>) = 1 /\ <<s>>[1] = s
  OBVIOUS
<1>3. l \in Seq(Step) /\ Len(l) = 1 + m
      /\ \A i \in 1 .. (1 + m) : l[i] = IF i <= 1 THEN <<s>>[i] ELSE list[i - 1]
  BY <1>1, <1>2, ConcatProperties
<1> HIDE DEF l, m
<1>4. l[1] = s /\ \A i \in 1 .. m : l[i + 1] = list[i]
  <2>1. l[1] = s
    BY <1>1, <1>2, <1>3
  <2>2. ASSUME NEW i \in 1 .. m
        PROVE  l[i + 1] = list[i]
    <3>1. i + 1 \in 1 .. (1 + m) /\ ~(i + 1 <= 1) /\ i + 1 - 1 = i
      BY <1>1
    <3> QED
      BY <1>3, <3>1
  <2> QED
    BY <2>1, <2>2
<1>5. DOMAIN l = 1 .. (1 + m)
  BY <1>3
<1>6. s.pos \in Nat /\ s.length \in Nat
  BY DEF Step
<1>7. ASSUME NEW i \in 1 .. (1 + m)
      PROVE  /\ l[i].length >= 2
             /\ l[i].pos >= (IF i = 1 THEN s.pos ELSE l[i - 1].pos + l[i - 1].length)
  <2>1. CASE i = 1
    BY <1>4, <1>6, <2>1
  <2>2. CASE i # 1
    <3>1. i - 1 \in 1 .. m /\ (i - 1) + 1 = i
      BY <1>1, <2>2
    <3>2. l[i] = list[i - 1]
      BY <1>4, <3>1
    <3>3. /\ list[i - 1].length >= 2
          /\ list[i - 1].pos >= (IF i - 1 = 1 THEN s.pos + s.length
                                 ELSE list[i - 1 - 1].pos + list[i - 1 - 1].length)
      BY <1>1, <3>1 DEF Tiles
    <3>4. CASE i - 1 = 1
      <4>1. l[i - 1] = s
        BY <1>4, <3>4
      <4> QED
        BY <2>2, <3>2, <3>3, <3>4, <4>1
    <3>5. CASE i - 1 # 1
      <4>1. i - 1 - 1 \in 1 .. m /\ (i - 1 - 1) + 1 = i - 1
        BY <1>1, <3>1, <3>5
      <4>2. l[i - 1] = list[i - 1 - 1]
        BY <1>4, <4>1
      <4> QED
        BY <2>2, <3>2, <3>3, <3>5, <4>2
    <3> QED
      BY <3>4, <3>5
  <2> QED
    BY <2>1, <2>2
<1>8. Tiles(l, s.pos)
  BY <1>5, <1>7 DEF Tiles
<1> QED
  BY <1>3, <1>8 DEF l

(* A step behind others that end where it begins.                          *)
LEMMA TilesBehind ==
  ASSUME NEW list \in Seq(Step), NEW s \in Step, s.length >= 2, NEW x \in Int, x <= s.pos,
         Tiles(list, x), \A i \in DOMAIN list : list[i].pos + list[i].length <= s.pos
  PROVE  Append(list, s) \in Seq(Step) /\ Tiles(Append(list, s), x)
<1> DEFINE l == Append(list, s)
           m == Len(list)
<1>1. m \in Nat /\ DOMAIN list = 1 .. m
  BY LenProperties
<1>2. l \in Seq(Step) /\ Len(l) = m + 1 /\ l[m + 1] = s /\ \A i \in 1 .. m : l[i] = list[i]
  BY AppendProperties
<1> HIDE DEF l, m
<1>3. DOMAIN l = 1 .. (m + 1)
  BY <1>2
<1>4. ASSUME NEW i \in 1 .. (m + 1)
      PROVE  /\ l[i].length >= 2
             /\ l[i].pos >= (IF i = 1 THEN x ELSE l[i - 1].pos + l[i - 1].length)
  <2>1. CASE i = m + 1
    <3>1. l[i] = s
      BY <1>2, <2>1
    <3>2. i # 1 => i - 1 \in 1 .. m
      BY <1>1, <2>1
    <3>3. i # 1 => l[i - 1].pos + l[i - 1].length <= s.pos
      BY <1>1, <1>2, <3>2
    <3>4. i # 1 => l[i - 1].pos \in Nat /\ l[i - 1].length \in Nat
      <4>1. \A j \in 1 .. m : list[j] \in Step
        BY <1>1, ElementOfSeq
      <4> QED
        BY <1>2, <3>2, <4>1 DEF Step
    <3>5. s.pos \in Nat
      BY DEF Step
    <3> QED
      BY <3>1, <3>3, <3>4, <3>5
  <2>2. CASE i # m + 1
    <3>1. i \in 1 .. m /\ (i # 1 => i - 1 \in 1 .. m)
      BY <1>1, <2>2
    <3>2. l[i] = list[i] /\ (i # 1 => l[i - 1] = list[i - 1])
      BY <1>2, <3>1
    <3>3. /\ list[i].length >= 2
          /\ list[i].pos >= (IF i = 1 THEN x ELSE list[i - 1].pos + list[i - 1].length)
      BY <1>1, <3>1 DEF Tiles
    <3> QED
      BY <3>2, <3>3
  <2> QED
    BY <2>1, <2>2
<1>5. Tiles(l, x)
  BY <1>3, <1>4 DEF Tiles
<1> QED
  BY <1>2, <1>5 DEF l

(* backtrackMultiArrivalSteps: the steps to an arrival tile the part of the*)
(* chunk up to it.                                                         *)
LEMMA BackTiles ==
  ASSUME Chosen, NEW n \in Nat, NEW f \in Places(n), NEW from \in Nat,
         from = chunk.from, NEW top \in 0 .. n, NEW path \in 1 .. MaxArrivals
  PROVE  /\ Backtrack(f, from, top, path) \in Seq(Step)
         /\ Tiles(Backtrack(f, from, top, path), from)
         /\ \A j \in DOMAIN Backtrack(f, from, top, path) :
              /\ Backtrack(f, from, top, path)[j].pos + Backtrack(f, from, top, path)[j].length
                   <= from + top
              /\ RealStep(Backtrack(f, from, top, path)[j])
<1> DEFINE Ahead(list, i) ==
             /\ list \in Seq(Step)
             /\ Tiles(list, from + i)
             /\ \A j \in DOMAIN list : /\ list[j].pos + list[j].length <= from + top
                                       /\ RealStep(list[j])
           X == {z \in [steps : Seq(Step), i : 0 .. top, path : Nat] :
                   (z.i > 0 => z.path \in 1 .. MaxArrivals) /\ Ahead(z.steps, z.i)}
           w == [steps |-> <<>>, i |-> top, path |-> path]
<1>1. MaxArrivals \in Nat \ {0}
  BY Widths
<1>2. w \in X
  <2>1. <<>> \in Seq(Step) /\ Tiles(<<>>, from + top)
    BY DEF Tiles
  <2>2. Ahead(<<>>, top)
    BY <2>1
  <2> HIDE DEF Ahead
  <2>3. path \in Nat /\ top \in 0 .. top
    BY <1>1
  <2> QED
    BY <2>1, <2>2, <2>3
<1>3. ASSUME NEW z \in X
      PROVE  BackOne(z, f, from) \in X
  <2> DEFINE a == f[z.i][z.path]
             s == [pos |-> from + a.prev, length |-> a.len, distance |-> a.dist]
             list == IF a.len = 0 THEN z.steps ELSE <<s>> \o z.steps
  <2>1. /\ z.steps \in Seq(Step) /\ z.i \in 0 .. top /\ (z.i > 0 => z.path \in 1 .. MaxArrivals)
        /\ Ahead(z.steps, z.i)
    BY Zenon
  <2>2. CASE z.i <= 0
    BY <2>2 DEF BackOne
  <2>3. CASE ~(z.i <= 0)
    <3>1. z.i \in 1 .. top /\ z.i \in 0 .. n /\ z.path \in 1 .. MaxArrivals
      BY <2>1, <2>3
    <3>2. f[z.i] \in [1 .. MaxArrivals -> Place(z.i)]
      BY <3>1, PlacesAre
    <3>3. a \in Place(z.i)
      BY <3>1, <3>2
    <3> HIDE DEF a
    <3>4. /\ a.prev \in Nat /\ a.path \in Nat /\ a.len \in Nat /\ a.dist \in Nat
          /\ a.prev < z.i
          /\ (a.prev > 0 => a.path \in 1 .. MaxArrivals)
          /\ (a.len > 0 => /\ a.len >= 2 /\ a.prev + a.len = z.i
                           /\ Real(from + a.prev, a.len, a.dist))
      BY SMTT(60), <3>1, <3>3 DEF Place, Arrival
    <3>5. Ahead(list, a.prev)
      <4>1. CASE a.len = 0
        <5>1. Tiles(z.steps, from + a.prev)
          <6>1. from + z.i \in Int /\ from + a.prev \in Int /\ from + a.prev <= from + z.i
            BY SMTT(60), <3>1, <3>4
          <6> QED
            BY <2>1, <6>1, TilesFrom
        <5> QED
          BY <2>1, <4>1, <5>1
      <4>2. CASE a.len # 0
        <5>1. a.len >= 2 /\ a.prev + a.len = z.i /\ Real(from + a.prev, a.len, a.dist)
          BY <3>4, <4>2
        <5>2. s \in Step /\ s.pos = from + a.prev /\ s.length = a.len
          BY SMTT(60), <3>4 DEF Step
        <5>6. RealStep(s)
          BY <5>1 DEF RealStep
        <5> HIDE DEF s
        <5>3. s.pos + s.length = from + z.i
          BY SMTT(60), <3>1, <3>4, <5>1, <5>2
        <5>4. <<s>> \o z.steps \in Seq(Step) /\ Tiles(<<s>> \o z.steps, from + a.prev)
          BY <2>1, <5>1, <5>2, <5>3, TilesBefore
        <5>5. ASSUME NEW j \in DOMAIN (<<s>> \o z.steps)
              PROVE  /\ (<<s>> \o z.steps)[j].pos + (<<s>> \o z.steps)[j].length <= from + top
                     /\ RealStep((<<s>> \o z.steps)[j])
          <6> DEFINE l == <<s>> \o z.steps
                     m == Len(z.steps)
          <6>1. m \in Nat /\ DOMAIN z.steps = 1 .. m
            BY <2>1, LenProperties
          <6>2. <<s>> \in Seq(Step) /\ Len(<<s>>) = 1 /\ <<s>>[1] = s
            BY <5>2
          <6>3. Len(l) = 1 + m /\ l \in Seq(Step)
                /\ \A i \in 1 .. (1 + m) : l[i] = IF i <= 1 THEN <<s>>[i] ELSE z.steps[i - 1]
            BY <2>1, <6>1, <6>2, ConcatProperties
          <6>4. j \in 1 .. (1 + m)
            BY <6>3
          <6> HIDE DEF l, m
          <6>5. CASE j = 1
            <7>1. l[j] = s
              BY <6>2, <6>3, <6>4, <6>5
            <7> QED
              BY SMTT(60), <3>1, <5>3, <5>6, <7>1 DEF l
          <6>6. CASE j # 1
            <7>1. j - 1 \in 1 .. m /\ l[j] = z.steps[j - 1]
              BY <6>1, <6>3, <6>4, <6>6
            <7>2. z.steps[j - 1].pos + z.steps[j - 1].length <= from + top /\ RealStep(z.steps[j - 1])
              BY <2>1, <6>1, <7>1
            <7> QED
              BY <7>1, <7>2 DEF l
          <6> QED
            BY <6>5, <6>6
        <5> QED
          BY <4>2, <5>4, <5>5
      <4> QED
        BY <4>1, <4>2
    <3>6. BackOne(z, f, from) = [steps |-> list, i |-> a.prev, path |-> a.path]
      BY <2>3 DEF BackOne, a
    <3>7. list \in Seq(Step)
      BY <3>5
    <3> HIDE DEF list, Ahead
    <3>8. a.prev \in 0 .. top
      BY SMTT(60), <3>1, <3>4
    <3> QED
      BY SMTT(60), <3>4, <3>5, <3>6, <3>7, <3>8
  <2> QED
    BY <2>2, <2>3
<1>4. top \in Nat
  OBVIOUS
<1> HIDE DEF X, w
<1>5. w = [steps |-> <<>>, i |-> top, path |-> path]
  BY DEF w
<1>6. PICK z \in X : Backtrack(f, from, top, path) = z.steps
  BY <1>2, <1>3, <1>4, <1>5, BackKeeps
<1>7. Ahead(z.steps, z.i) /\ z.i \in 0 .. top
  BY DEF X
<1>8. Tiles(z.steps, from)
  <2>1. from + z.i \in Int /\ from \in Int /\ from <= from + z.i
    BY <1>7
  <2> QED
    BY <1>7, <2>1, TilesFrom
<1> QED
  BY <1>6, <1>7, <1>8

(* What an arrival has counted is what the way back to it yields.          *)
Taken(list) == IF list = <<>> THEN 0 ELSE list[Len(list)].pos + list[Len(list)].length - chunk.from

LEMMA LastStep ==
  ASSUME NEW S, NEW l \in Seq(S), NEW s \in S
  PROVE  /\ <<s>> \o l \in Seq(S) /\ <<s>> \o l # <<>>
         /\ (<<s>> \o l)[Len(<<s>> \o l)] = IF l = <<>> THEN s ELSE l[Len(l)]
<1> DEFINE m == Len(l)
           k == <<s>> \o l
<1>1. m \in Nat /\ (m = 0 <=> l = <<>>)
  BY LenProperties
<1>2. <<s>> \in Seq(S) /\ Len(<<s>>) = 1 /\ <<s>>[1] = s
  OBVIOUS
<1>3. /\ k \in Seq(S) /\ Len(k) = 1 + m
      /\ \A i \in 1 .. (1 + m) : k[i] = IF i <= 1 THEN <<s>>[i] ELSE l[i - 1]
  BY <1>1, <1>2, ConcatProperties
<1> HIDE DEF m, k
<1>4. k # <<>>
  <2>1. Len(k) # 0
    BY <1>1, <1>3
  <2> QED
    BY <2>1
<1>5. CASE m = 0
  <2>1. k[1 + m] = s
    BY <1>2, <1>3, <1>5
  <2> QED
    BY <1>1, <1>3, <1>4, <1>5, <2>1 DEF k
<1>6. CASE m # 0
  <2>1. PICK j : j = 1 + m
    OBVIOUS
  <2>2. j \in 1 .. (1 + m) /\ ~(j <= 1) /\ j - 1 = m
    BY <1>1, <1>6, <2>1
  <2>3. k[j] = l[m]
    BY <1>3, <2>2
  <2> QED
    BY <1>1, <1>3, <1>4, <1>6, <2>1, <2>3 DEF k, m
<1> QED
  BY <1>5, <1>6

LEMMA LastIn ==
  ASSUME NEW S, NEW l \in Seq(S), l # <<>>
  PROVE  l[Len(l)] \in S
BY LenProperties

LEMMA BackFollows ==
  ASSUME Chosen, NEW n \in Nat, chunk.arrivals \in Followed(n), Counted,
         chunk.from \in Nat, chunk.reps \in Reps, NEW top \in 0 .. n, NEW path \in 1 .. MaxArrivals,
         NEW a, a = chunk.arrivals[top][path], a.cost # Infinite,
         NEW list, list = Backtrack(chunk.arrivals, chunk.from, top, path)
  PROVE  a.run = top - Taken(list) /\ a.reps = RepsBehind(chunk.reps, list)
<1> DEFINE f == chunk.arrivals
           from == chunk.from
<1>1. /\ \A i \in 0 .. n : f[i] \in [1 .. MaxArrivals -> Place(i)]
      /\ \A i \in 0 .. n : \A p \in 1 .. MaxArrivals :
           f[i][p].cost = Infinite \/ Follows(f[i][p], i)
  <2>1. f \in Followed(n)
    OBVIOUS
  <2>2. \A i \in 0 .. n : \A p \in 1 .. MaxArrivals :
          f[i][p].cost = Infinite \/ Follows(f[i][p], i)
    BY DEF Followed
  <2> HIDE DEF f
  <2> QED
    BY <2>1, <2>2, FollowedAre
<1>2. a.run \in Nat /\ from \in Nat /\ top \in Nat /\ top <= n
  <2>1. a \in Place(top)
    BY <1>1
  <2> QED
    BY <2>1 DEF Place, Arrival
<1> HIDE DEF f, from
<1> DEFINE Counting(z, b) ==
             /\ b.cost # Infinite
             /\ a.reps = RepsBehind(b.reps, z.steps)
             /\ IF z.steps = <<>> THEN a.run = b.run + (top - z.i)
                ELSE z.steps[Len(z.steps)].pos + z.steps[Len(z.steps)].length = from + top - a.run
           Z(j) == {z \in [steps : Seq(Step), i : 0 .. top, path : 1 .. MaxArrivals] :
                      z.i <= top - j /\ Counting(z, f[z.i][z.path])}
           X == [j \in 0 .. top |-> Z(j)]
           w == [steps |-> <<>>, i |-> top, path |-> path]
<1>3. w \in X[0]
  <2>1. <<>> \in Seq(Step) /\ top \in 0 .. top /\ top <= top - 0 /\ 0 \in 0 .. top
    BY <1>2
  <2>2. a.reps \in Reps /\ a = f[top][path]
    <3>1. a \in Place(top)
      BY <1>1 DEF f
    <3> QED
      BY <3>1 DEF Place, Arrival, f
  <2>3. a.reps = RepsBehind(a.reps, <<>>)
    BY <2>2, RepsNone
  <2>4. Counting(w, a)
    BY <1>2, <2>3
  <2> HIDE DEF Counting
  <2>5. w \in Z(0)
    BY <2>1, <2>2, <2>4
  <2> QED
    BY <2>1, <2>5
<1> HIDE DEF X, Z, w
<1>4. ASSUME NEW j \in 1 .. top, NEW z \in X[j - 1]
      PROVE  BackOne(z, f, from) \in X[j]
  <2>1. j - 1 \in 0 .. top /\ j \in 0 .. top
    BY <1>2
  <2>2. z \in Z(j - 1)
    BY <2>1 DEF X
  <2> DEFINE b == f[z.i][z.path]
  <2>3. /\ z \in [steps : Seq(Step), i : 0 .. top, path : 1 .. MaxArrivals]
        /\ z.steps \in Seq(Step) /\ z.i \in 0 .. top /\ z.path \in 1 .. MaxArrivals
        /\ z.i <= top - (j - 1)
        /\ Counting(z, b)
    BY <2>2 DEF Z
  <2> SUFFICES BackOne(z, f, from) \in Z(j)
    BY <2>1 DEF X
  <2>4. CASE z.i <= 0
    <3>1. BackOne(z, f, from) = z
      BY <2>4 DEF BackOne
    <3>2. z.i <= top - j
      BY <1>2, <2>3, <2>4
    <3> HIDE DEF Counting
    <3> QED
      BY <2>3, <3>1, <3>2 DEF Z, b
  <2>5. CASE ~(z.i <= 0)
    <3>1. z.i \in 0 .. n /\ z.i \in 1 .. top /\ z.i # 0
      BY SMTT(60), <1>2, <2>3, <2>5
    <3>2. b \in Place(z.i) /\ Follows(b, z.i)
      BY <1>1, <2>3, <3>1
    <3> HIDE DEF b
    <3> DEFINE c == f[b.prev][b.path]
    <3>3. /\ b.prev \in Nat /\ b.prev < z.i /\ b.len \in Nat /\ b.dist \in Nat /\ b.run \in Nat
          /\ (b.len > 0 => b.prev + b.len = z.i)
      BY SMTT(60), <3>1, <3>2 DEF Place, Arrival
    <3>4. /\ b.path \in 1 .. MaxArrivals
          /\ c.cost # Infinite
          /\ IF b.len = 0 THEN b.prev = z.i - 1 /\ b.run = c.run + 1 /\ b.reps = c.reps
             ELSE b.run = 0 /\ b.reps = UpdatedReps(c.reps, b.dist)
      BY <3>1, <3>2 DEF Follows, f
    <3>5. b.prev \in 0 .. top /\ b.prev <= top - j /\ b.prev \in 0 .. n
      BY SMTT(60), <1>2, <2>3, <3>1, <3>3
    <3>6. c.reps \in Reps /\ c.run \in Nat
      <4>1. c \in Place(b.prev)
        BY <1>1, <3>4, <3>5
      <4> QED
        BY <4>1 DEF Place, Arrival
    <3> DEFINE s == [pos |-> from + b.prev, length |-> b.len, distance |-> b.dist]
               l == IF b.len = 0 THEN z.steps ELSE <<s>> \o z.steps
               y == [steps |-> l, i |-> b.prev, path |-> b.path]
    <3>7. BackOne(z, f, from) = y
      BY <2>5 DEF BackOne, b
    <3> HIDE DEF c
    <3>8. l \in Seq(Step) /\ Counting(y, c)
      <4>1. CASE b.len = 0
        <5>1. l = z.steps
          BY <4>1
        <5>2. a.reps = RepsBehind(c.reps, l)
          BY <2>3, <3>4, <4>1, <5>1
        <5> HIDE DEF l
        <5>3. l = <<>> => a.run = c.run + (top - b.prev)
          BY SMTT(60), <1>2, <2>3, <3>1, <3>3, <3>4, <3>6, <4>1, <5>1
        <5>4. l # <<>> => l[Len(l)].pos + l[Len(l)].length = from + top - a.run
          BY <2>3, <5>1
        <5> QED
          BY <2>3, <3>4, <5>1, <5>2, <5>3, <5>4
      <4>2. CASE b.len # 0
        <5>1. l = <<s>> \o z.steps
          BY <4>2
        <5>2. s \in Step /\ s.pos + s.length = from + z.i /\ s.distance = b.dist
          BY <1>2, <3>1, <3>3, <4>2 DEF Step
        <5> HIDE DEF s, l
        <5>3. /\ l \in Seq(Step) /\ l # <<>>
              /\ l[Len(l)] = IF z.steps = <<>> THEN s ELSE z.steps[Len(z.steps)]
          BY <2>3, <5>1, <5>2, LastStep
        <5>4. RepsBehind(c.reps, l) = RepsBehind(Written(c.reps, b.dist), z.steps)
          <6>1. \A x \in Step : x.distance \in Nat
            BY DEF Step
          <6>2. RepsBehind(c.reps, <<s>> \o z.steps)
                  = RepsBehind(Written(c.reps, s.distance), z.steps)
            <7>1. z.steps \in Seq(Step) /\ c.reps \in Reps /\ s \in Step
              BY <2>3, <3>6, <5>2
            <7> HIDE DEF Step
            <7> QED
              BY <6>1, <7>1, RepsCons, Zenon
          <6> QED
            BY <5>1, <5>2, <6>2
        <5>5. Written(c.reps, b.dist) = b.reps
          BY <3>4, <3>6, <4>2, RepsAgree
        <5>6. a.reps = RepsBehind(c.reps, l)
          BY <2>3, <5>4, <5>5
        <5>7. l[Len(l)].pos + l[Len(l)].length = from + top - a.run
          <6>1. CASE z.steps = <<>>
            <7>1. a.run = top - z.i
              BY <1>2, <2>3, <3>1, <3>4, <4>2, <6>1
            <7> QED
              BY <1>2, <3>1, <5>2, <5>3, <6>1, <7>1
          <6>2. CASE z.steps # <<>>
            BY <2>3, <5>3, <6>2
          <6> QED
            BY <6>1, <6>2
        <5> QED
          BY <3>4, <5>3, <5>6, <5>7
      <4> QED
        BY SMTT(60), <4>1, <4>2
    <3> HIDE DEF l, Counting
    <3>9. y \in [steps : Seq(Step), i : 0 .. top, path : 1 .. MaxArrivals]
      BY <3>4, <3>5, <3>8
    <3>10. y.i <= top - j /\ f[y.i][y.path] = c
      BY <3>5 DEF c
    <3> QED
      BY <3>7, <3>8, <3>9, <3>10 DEF Z
  <2> QED
    BY <2>4, <2>5
<1>5. PICK z \in X[top] : Backtrack(f, from, top, path) = z.steps
  <2>1. w = [steps |-> <<>>, i |-> top, path |-> path]
    BY DEF w
  <2> QED
    BY <1>2, <1>3, <1>4, <2>1, BackGoes
<1>6. z.steps = list
  BY <1>5 DEF f, from
<1> DEFINE b == f[z.i][z.path]
<1>7. /\ z.steps \in Seq(Step) /\ z.i \in 0 .. top /\ z.path \in 1 .. MaxArrivals
      /\ z.i <= top - top /\ Counting(z, b)
  <2>1. top \in 0 .. top
    BY <1>2
  <2>2. z \in Z(top)
    BY <1>5, <2>1 DEF X
  <2> HIDE DEF Counting
  <2> QED
    BY <2>2 DEF Z
<1>8. z.i = 0 /\ 0 \in 0 .. n
  BY <1>2, <1>7
<1>9. b.run = 0 /\ b.reps = chunk.reps
  <2>1. Follows(b, 0)
    BY <1>1, <1>7, <1>8
  <2> QED
    BY <2>1 DEF Follows
<1> HIDE DEF b
<1>10. a.reps = RepsBehind(chunk.reps, list)
  BY <1>6, <1>7, <1>9
<1>11. CASE list = <<>>
  BY <1>2, <1>6, <1>7, <1>8, <1>9, <1>10, <1>11 DEF Taken
<1>12. CASE list # <<>>
  <2>1. list[Len(list)].pos + list[Len(list)].length = from + top - a.run
    BY <1>6, <1>7, <1>12
  <2>2. Taken(list) = top - a.run
    <3>1. list[Len(list)] \in Step
      <4>1. list \in Seq(Step)
        BY <1>6, <1>7
      <4> QED
        BY <1>12, <4>1, LastIn
    <3> DEFINE x == list[Len(list)]
    <3>2. Taken(list) = x.pos + x.length - from
      BY <1>12 DEF Taken, from
    <3>3. x.pos \in Nat /\ x.length \in Nat
      BY <3>1 DEF Step
    <3> HIDE DEF x
    <3>4. x.pos + x.length = from + top - a.run
      BY <2>1 DEF x
    <3> QED
      BY <1>2, <3>2, <3>3, <3>4
  <2> QED
    BY <1>2, <1>10, <2>2
<1> QED
  BY <1>11, <1>12

-----------------------------------------------------------------------------
(* A turn of the parser.                                                   *)

LastPlace == chunk.known - chunk.from

(* What holds when a position of a chunk is looked at.                     *)
Ready ==
  /\ src \in Seq(Nat) /\ Chosen
  /\ end \in Nat /\ end <= CompressionLimit
  /\ chunk.from \in Nat /\ chunk.at \in Nat \ {0} /\ chunk.known \in Nat
  /\ chunk.at < chunk.known /\ chunk.known <= end
  /\ chunk.at + 2 <= end => chunk.at + 2 <= chunk.known
  /\ LastPlace \in Nat /\ Index \in 0 .. (LastPlace - 1) /\ Index <= ChunkSize
  /\ chunk.from + Index = chunk.at /\ chunk.from + LastPlace = chunk.known
  /\ chunk.arrivals \in Places(LastPlace) /\ chunk.arrivals \in Followed(LastPlace)
  /\ acceleration \in Nat
  /\ Finders \in FinderTo(Reach(chunk.at))
  /\ Buffered => buffer[chunk.at] \in Seq(Fits(chunk.at, end))
  /\ Spanned(LastPlace)

(* A turn inside a chunk is ready.                                         *)
LEMMA Turning ==
  ASSUME Typed, InBlock, InChunk, phase = "expand", chunk.at < chunk.to
  PROVE  Ready
<1>1. src \in Seq(Nat) /\ Chosen /\ end \in Nat /\ pos \in Nat /\ acceleration \in Nat
      /\ start \in Nat
  BY BlockPlanAssumption DEF Typed
<1>2. /\ start < end /\ end <= CompressionLimit /\ pos >= start /\ pos # 0
      /\ DOMAIN buffer = start .. (end - 1)
      /\ \A p \in DOMAIN buffer : buffer[p] \in Seq(Fits(p, end))
  BY <1>1 DEF InBlock, FirstPos
<1>3. /\ chunk.from \in Nat /\ chunk.to \in Nat /\ chunk.known \in Nat /\ chunk.at \in Nat
      /\ chunk.arrivals \in Places(chunk.known - chunk.from)
      /\ chunk.arrivals \in Followed(chunk.known - chunk.from)
      /\ chunk.from = pos /\ pos < chunk.to /\ chunk.to <= chunk.known
      /\ chunk.known = AtMost(end, chunk.to + Nice)
      /\ chunk.to - pos <= ChunkSize + 1
      /\ chunk.at \in pos .. chunk.to
      /\ Finders \in FinderTo(Reach(chunk.at))
  BY DEF InChunk
<1>4. Nice \in Nat /\ Nice >= 2 /\ ChunkSize \in Nat
  <2>1. Nice \in Nat \ {0, 1} /\ ChunkSize \in Nat \ {0}
    BY <1>1, Widths
  <2> QED
    BY <2>1
<1>5. chunk.known <= end /\ chunk.at < chunk.known
  BY SMTT(60), <1>1, <1>3, <1>4 DEF AtMost
<1>6. chunk.at + 2 <= end => chunk.at + 2 <= chunk.known
  BY SMTT(60), <1>1, <1>3, <1>4 DEF AtMost
<1>7. /\ LastPlace \in Nat /\ Index \in 0 .. (LastPlace - 1) /\ Index <= ChunkSize
      /\ chunk.from + Index = chunk.at /\ chunk.from + LastPlace = chunk.known
  <2>1. chunk.from \in Nat /\ chunk.to \in Nat /\ chunk.known \in Nat /\ chunk.at \in Nat
    BY <1>3
  <2>2. /\ chunk.at < chunk.known /\ chunk.to - chunk.from <= ChunkSize + 1
        /\ chunk.from <= chunk.at /\ chunk.at < chunk.to /\ ChunkSize \in Nat
    BY <1>1, <1>3, <1>4, <1>5
  <2> QED
    BY <2>1, <2>2 DEF LastPlace, Index
<1>8. buffer[chunk.at] \in Seq(Fits(chunk.at, end))
  <2>1. chunk.at \in start .. (end - 1)
    BY <1>1, <1>2, <1>3, <1>5
  <2> QED
    BY <1>2, <2>1
<1>9. Spanned(LastPlace)
  <2>1. src \in Seq(0 .. 255)
    BY OptimalParseAssumption DEF Typed
  <2>2. Nice = FirstNice \/ Nice = NiceLength
    BY DEF Nice
  <2>3. Nice <= AtLeast(NiceLength, FirstNice) /\ AtLeast(NiceLength, FirstNice) \in Nat
    BY <2>2, OptimalParseAssumption, MatchTreeAssumption DEF AtLeast
  <2>4. LastPlace <= MostLength
    BY SMTT(60), <1>1, <1>3, <1>4, <2>3 DEF LastPlace, MostLength, AtMost
  <2>5. chunk.from + LastPlace <= CompressionLimit /\ chunk.from \in Nat /\ LastPlace \in Nat
    <3>1. CompressionLimit \in Int
      BY <1>1, SourceBytesAssumption DEF CompressionLimit
    <3> QED
      BY <1>1, <1>2, <1>3, <1>5, <1>7, <3>1
  <2> QED
    BY <2>1, <2>4, <2>5 DEF Spanned
<1> QED
  BY SMTT(60), <1>1, <1>2, <1>3, <1>5, <1>6, <1>7, <1>8, <1>9 DEF Ready, LastPlace

(* The lengths that are tried end inside the chunk.                        *)
LEMMA LengthsFit ==
  ASSUME Ready, NEW i \in 0 .. LastPlace, NEW limit \in Nat, limit >= 2, i + limit <= LastPlace,
         NEW lowest \in Nat, lowest >= 2, NEW d, Real(chunk.from + i, limit, d)
  PROVE  \A l \in LengthsDown(limit, lowest) : /\ l \in Nat /\ l >= 2 /\ i + l <= LastPlace
                                               /\ Real(chunk.from + i, l, d)
<1>1. Span \in Nat /\ LastPlace \in Nat
  BY Widths DEF Ready
<1>2. ASSUME NEW l \in LengthsDown(limit, lowest)
      PROVE  l \in Nat /\ l >= 2 /\ i + l <= LastPlace /\ l <= limit
  BY <1>1 DEF LengthsDown, AtLeast
<1>3. ASSUME NEW l \in LengthsDown(limit, lowest)
      PROVE  Real(chunk.from + i, l, d)
  <2>1. l \in Int /\ limit \in Int /\ l <= limit
    BY <1>2
  <2> QED
    BY <2>1, RealPrefix
<1> QED
  BY <1>2, <1>3

(* A literal counts what the arrival before it has counted.                *)
LEMMA LiteralFollows ==
  ASSUME Ready, NEW f \in Followed(LastPlace), NEW path \in 1 .. MaxArrivals,
         NEW now \in Place(Index), now.cost # Infinite,
         Counted => now = chunk.arrivals[Index][path]
  PROVE  WithLiteral(f, Index, path, now) \in Followed(LastPlace)
<1>1. PICK n, i : n = LastPlace /\ i = Index
  OBVIOUS
<1>2. /\ n \in Nat /\ i \in 0 .. (n - 1) /\ i \in Nat /\ i + 1 \in 0 .. n /\ Chosen
      /\ Spanned(n) /\ i \in 0 .. i /\ i + 1 # 0 /\ (i + 1) - 1 = i
  BY SMTT(60), <1>1 DEF Ready
<1>3. MaxArrivals \in Nat \ {0}
  BY Widths DEF Ready
<1> DEFINE a == [cost |-> now.cost + LiteralCost(chunk.from + i, now), prev |-> i, path |-> path,
                 len |-> 0, dist |-> 0, run |-> now.run + 1, reps |-> now.reps]
           g == WithLiteral(f, i, path, now)
<1>4. a \in Place(i + 1) /\ a.cost \in Int
  BY <1>1, <1>2, LiteralPlaced
<1>5. /\ a.prev = i /\ a.path = path /\ a.len = 0 /\ a.run = now.run + 1 /\ a.reps = now.reps
  OBVIOUS
<1>6. g = [f EXCEPT ![i + 1] = Insert(f[i + 1], a)]
  BY DEF WithLiteral
<1>7. g \in Places(n)
  BY <1>1, <1>2, FollowedAre, LiteralKeeps
<1> HIDE DEF a, g
<1>8. a \in Sound(i + 1)
  <2>1. Counted => Follows(a, i + 1)
    BY <1>1, <1>2, <1>5 DEF Follows
  <2> QED
    BY <1>4, <2>1 DEF Sound
<1>9. /\ f \in Places(n) /\ f = [k \in 0 .. n |-> f[k]]
      /\ \A k \in 0 .. n : f[k] \in [1 .. MaxArrivals -> Sound(k)]
      /\ Counted => \A k \in 0 .. n : k <= i => f[k] = chunk.arrivals[k]
  BY <1>1, <1>2, FollowedAre, PlacesAre
<1>10. \A x \in Sound(i + 1) : x.cost \in Int
  BY DEF Sound, Place, Arrival
<1>11. Insert(f[i + 1], a) \in [1 .. MaxArrivals -> Sound(i + 1)]
  <2>1. f[i + 1] \in [1 .. MaxArrivals -> Sound(i + 1)]
    BY <1>2, <1>9
  <2> QED
    BY <1>3, <1>8, <1>10, <2>1, InsertKeeps
<1>12. \A k \in 0 .. n : g[k] = IF k = i + 1 THEN Insert(f[i + 1], a) ELSE f[k]
  BY <1>2, <1>6, <1>9
<1>13. \A k \in 0 .. n : g[k] \in [1 .. MaxArrivals -> Sound(k)]
  BY <1>9, <1>11, <1>12
<1>14. Counted => \A k \in 0 .. n : k <= i => g[k] = chunk.arrivals[k]
  <2>1. \A k \in 0 .. n : k <= i => k # i + 1
    BY <1>2
  <2> QED
    BY <1>9, <1>12, <2>1
<1> QED
  BY <1>1, <1>2, <1>7, <1>13, <1>14, FollowedMade DEF g

(* Matches count what the arrival before them has counted, if they end     *)
(* behind the current place.                                               *)
LEMMA MatchesFollow ==
  ASSUME Ready, NEW f \in Followed(LastPlace), NEW i \in 0 .. Index,
         NEW path \in 1 .. MaxArrivals, NEW now \in Place(i), now.cost # Infinite,
         Counted => now = chunk.arrivals[i][path],
         NEW d \in Nat, NEW penalty, NEW lengths,
         \A l \in lengths : l \in Nat /\ l >= 2 /\ i + l <= LastPlace /\ Real(chunk.from + i, l, d),
         Counted => \A l \in lengths : i + StoredLength(l) > Index
  PROVE  WithMatches(f, i, path, now, d, lengths, penalty) \in Followed(LastPlace)
<1>1. PICK n : n = LastPlace
  OBVIOUS
<1>2. /\ n \in Nat /\ Index \in 0 .. (n - 1) /\ Index \in Nat /\ i \in Nat /\ i \in 0 .. n
      /\ Chosen /\ Spanned(n)
  BY <1>1 DEF Ready
<1>3. MaxArrivals \in Nat \ {0}
  BY Widths DEF Ready
<1> DEFINE stored == {StoredLength(l) : l \in lengths}
           a(l) == [cost |-> now.cost + MatchCost(l, d, now, penalty), prev |-> i, path |-> path,
                    len |-> l, dist |-> d, run |-> 0, reps |-> UpdatedReps(now.reps, d)]
           g == WithMatches(f, i, path, now, d, lengths, penalty)
<1>4. g \in Places(n)
  BY <1>1, <1>2, FollowedAre, MatchesKeep
<1>5. /\ f \in Places(n) /\ DOMAIN f = 0 .. n
      /\ \A k \in 0 .. n : f[k] \in [1 .. MaxArrivals -> Sound(k)]
      /\ Counted => \A k \in 0 .. n : k <= Index => f[k] = chunk.arrivals[k]
  BY <1>1, <1>2, FollowedAre, PlacesAre
<1>6. ASSUME NEW k \in 0 .. n, k - i \in stored
      PROVE  a(k - i) \in Sound(k) /\ (Counted => k > Index)
  <2>1. PICK l \in lengths : k - i = StoredLength(l)
    BY <1>6
  <2>2. k - i \in Nat /\ k - i >= 2 /\ k \in Nat /\ i + (k - i) = k /\ k # 0
    BY <1>2, <2>1, StoredFits
  <2>3. Real(chunk.from + i, k - i, d)
    <3>1. StoredLength(l) \in 2 .. l /\ l \in Nat /\ Real(chunk.from + i, l, d)
      BY <1>2, StoredFits
    <3>2. k - i \in Int /\ l \in Int /\ k - i <= l
      BY <2>1, <3>1
    <3> QED
      BY <3>1, <3>2, RealPrefix
  <2>4. PICK b : b = a(k - i)
    OBVIOUS
  <2>5. b \in Place(k)
    BY <1>2, <2>2, <2>3, <2>4, MatchPlaced
  <2>6. /\ b.prev = i /\ b.path = path /\ b.len = k - i /\ b.run = 0 /\ b.dist = d
        /\ b.reps = UpdatedReps(now.reps, d)
    BY <2>4
  <2>7. Counted => Follows(b, k)
    <3>1. b.len # 0
      BY <2>2, <2>6
    <3> QED
      BY <2>2, <2>6, <3>1 DEF Follows
  <2>8. Counted => k > Index
    BY <2>1, <2>2
  <2> QED
    BY <2>4, <2>5, <2>7, <2>8 DEF Sound
<1>7. g = [k \in 0 .. n |-> IF k - i \in stored THEN Insert(f[k], a(k - i)) ELSE f[k]]
  BY <1>5 DEF WithMatches
<1> HIDE DEF a, g, stored
<1>8. ASSUME NEW k \in 0 .. n
      PROVE  g[k] \in [1 .. MaxArrivals -> Sound(k)]
  <2>1. \A x \in Sound(k) : x.cost \in Int
    BY DEF Sound, Place, Arrival
  <2>2. f[k] \in [1 .. MaxArrivals -> Sound(k)]
    BY <1>5
  <2>3. CASE k - i \in stored
    <3>1. PICK b \in Sound(k) : g[k] = Insert(f[k], b)
      BY <1>6, <1>7, <2>3
    <3> DEFINE P == Sound(k)
    <3> HIDE DEF P
    <3>2. (\A x \in P : x.cost \in Int) /\ f[k] \in [1 .. MaxArrivals -> P] /\ b \in P
      BY <2>1, <2>2 DEF P
    <3>3. Insert(f[k], b) \in [1 .. MaxArrivals -> P]
      BY <1>3, <3>2, InsertKeeps
    <3> QED
      BY <3>1, <3>3 DEF P
  <2>4. CASE k - i \notin stored
    BY <1>7, <2>2, <2>4
  <2> QED
    BY <2>3, <2>4
<1>9. Counted => \A k \in 0 .. n : k <= Index => g[k] = chunk.arrivals[k]
  <2>1. ASSUME Counted, NEW k \in 0 .. n, k <= Index
        PROVE  g[k] = chunk.arrivals[k]
    <3>1. ~(k > Index)
      BY <1>2, <2>1
    <3>2. k - i \notin stored
      BY <1>6, <2>1, <3>1
    <3> QED
      BY <1>5, <1>7, <2>1, <3>2
  <2> QED
    BY <2>1
<1> QED
  BY <1>1, <1>2, <1>4, <1>8, <1>9, FollowedMade DEF g

(* From the current place all matches end behind it.                       *)
LEMMA MatchesHere ==
  ASSUME Ready, NEW f \in Followed(LastPlace),
         NEW path \in 1 .. MaxArrivals, NEW now \in Place(Index), now.cost # Infinite,
         Counted => now = chunk.arrivals[Index][path],
         NEW d \in Nat, NEW penalty, NEW lengths,
         \A l \in lengths : /\ l \in Nat /\ l >= 2 /\ Index + l <= LastPlace
                            /\ Real(chunk.from + Index, l, d)
  PROVE  WithMatches(f, Index, path, now, d, lengths, penalty) \in Followed(LastPlace)
<1>1. Index \in 0 .. Index /\ Index \in Nat /\ Chosen
  BY DEF Ready
<1>2. \A l \in lengths : Index + StoredLength(l) > Index
  <2> TAKE l \in lengths
  <2>1. StoredLength(l) \in 2 .. l /\ l \in Nat
    BY <1>1, StoredFits
  <2> QED
    BY <1>1, <2>1
<1> QED
  BY <1>1, <1>2, MatchesFollow

(* What the arrivals of a position have led to.                            *)
Trying ==
  {w \in [arrivals : Followed(LastPlace), expected : {x \in Nat : x >= 2}, acceleration : Nat,
          match : Match, path : Nat, stopped : BOOLEAN] :
     w.match.length > 0 => /\ w.match.length >= 2 /\ chunk.at + w.match.length <= end
                           /\ Real(chunk.at, w.match.length, w.match.distance)
                           /\ w.path \in 1 .. MaxArrivals}

(* A recent distance leads to places of the chunk or a match in the block. *)
LEMMA RecentKeeps ==
  ASSUME Ready, NEW w \in Trying, NEW path \in 1 .. MaxArrivals, NEW now \in Place(Index),
         now.cost # Infinite, Counted => now = chunk.arrivals[Index][path], NEW rep \in 1 .. 3
  PROVE  TryRecent(w, path, now, rep) \in Trying
<1> DEFINE d == now.reps[rep]
           length == CommonLength(chunk.at, chunk.at - d, end)
           limit == AtMost(length, chunk.known - chunk.at)
           out == \/ w.match.length > 0
                  \/ d <= 0 \/ d > Farthest \/ d > chunk.at
                  \/ chunk.at + 2 > end
           found == [w EXCEPT !.match = [length |-> length, distance |-> d], !.path = path]
           arrivals == WithMatches(w.arrivals, Index, path, now, d, LengthsDown(limit, w.expected), FALSE)
           tried == [w EXCEPT !.arrivals = arrivals, !.expected = limit,
                              !.acceleration = IF length >= 3 THEN Base ELSE @]
<1>1. /\ w.arrivals \in Followed(LastPlace) /\ w.expected \in Nat /\ w.expected >= 2
      /\ w.acceleration \in Nat /\ w.match \in Match /\ w.path \in Nat /\ w.stopped \in BOOLEAN
  BY DEF Trying
<1>2. d \in Nat
  BY DEF Place, Arrival, Reps
<1>3. /\ chunk.at \in Nat /\ end \in Nat /\ chunk.known \in Nat /\ LastPlace \in Nat
      /\ chunk.at < chunk.known /\ chunk.known <= end /\ Index \in 0 .. (LastPlace - 1)
      /\ chunk.from \in Nat
      /\ chunk.from + Index = chunk.at /\ chunk.from + LastPlace = chunk.known
      /\ chunk.at + 2 <= end => chunk.at + 2 <= chunk.known
  BY DEF Ready
<1>4. MaxArrivals \in Nat \ {0} /\ Base \in Nat /\ Nice \in Nat
  BY Widths DEF Ready
<1> HIDE DEF d
<1>5. length \in 0 .. AtLeast(end - chunk.at, 0)
  <2>1. chunk.at \in Int /\ chunk.at - d \in Int /\ end \in Int
    BY <1>2, <1>3
  <2> QED
    BY <2>1, CommonFits, Zenon
<1>10. ASSUME ~out, NEW n \in Int, n <= length
       PROVE  Real(chunk.at, n, d)
  <2>1. chunk.at \in Nat /\ end \in Int /\ n <= CommonLength(chunk.at, chunk.at - d, end)
    BY <1>3, <1>10
  <2> QED
    BY <1>2, <1>10, <2>1, RealDistance
<1>6. TryRecent(w, path, now, rep)
        = IF out THEN w ELSE IF length < w.expected THEN w
          ELSE IF length >= Nice \div 2 THEN found ELSE tried
  BY DEF TryRecent, d
<1> HIDE DEF length
<1>7. ASSUME ~out, length >= w.expected
      PROVE  found \in Trying
  <2>1. length \in Nat /\ length >= 2 /\ chunk.at + length <= end
    BY <1>1, <1>3, <1>5, <1>7 DEF AtLeast
  <2>2. [length |-> length, distance |-> d] \in Match
    BY <1>2, <2>1 DEF Match
  <2>3. path \in Nat
    BY <1>4
  <2>5. Real(chunk.at, length, d)
    BY <1>7, <1>10, <2>1
  <2>4. /\ found.match.length = length /\ found.match.distance = d /\ found.path = path
        /\ found \in [arrivals : Followed(LastPlace), expected : {x \in Nat : x >= 2},
                      acceleration : Nat, match : Match, path : Nat, stopped : BOOLEAN]
    BY <2>2, <2>3 DEF Trying
  <2> HIDE DEF found
  <2> QED
    BY <2>1, <2>4, <2>5 DEF Trying
<1>8. ASSUME ~out, length >= w.expected
      PROVE  tried \in Trying
  <2>1. limit \in Nat /\ limit >= 2 /\ Index + limit <= LastPlace /\ limit <= length
    BY <1>1, <1>3, <1>5, <1>8 DEF AtMost
  <2>10. Real(chunk.from + Index, limit, d)
    BY <1>3, <1>8, <1>10, <2>1
  <2> HIDE DEF limit
  <2>2. Index \in 0 .. LastPlace
    BY <1>3
  <2>3. \A l \in LengthsDown(limit, w.expected) : /\ l \in Nat /\ l >= 2 /\ Index + l <= LastPlace
                                                  /\ Real(chunk.from + Index, l, d)
    BY <1>1, <2>1, <2>2, <2>10, LengthsFit
  <2>4. arrivals \in Followed(LastPlace)
    BY <1>1, <1>2, <2>3, MatchesHere
  <2>5. w.match.length = 0 \/ w.match.length > 0
    BY <1>1 DEF Match
  <2> HIDE DEF arrivals
  <2>6. (IF length >= 3 THEN Base ELSE w.acceleration) \in Nat
    BY <1>1, <1>4
  <2>7. tried = [w EXCEPT !.arrivals = arrivals, !.expected = limit,
                          !.acceleration = IF length >= 3 THEN Base ELSE w.acceleration]
    OBVIOUS
  <2>8. /\ tried.match = w.match
        /\ tried \in [arrivals : Followed(LastPlace), expected : {x \in Nat : x >= 2},
                      acceleration : Nat, match : Match, path : Nat, stopped : BOOLEAN]
    BY <2>1, <2>4, <2>6, <2>7 DEF Trying
  <2>9. ~(tried.match.length > 0)
    BY <1>8, <2>8
  <2> HIDE DEF tried
  <2> QED
    BY <2>8, <2>9 DEF Trying
<1> HIDE DEF out, found, tried
<1>9. length \in Int
  BY <1>5
<1> QED
  BY <1>1, <1>6, <1>7, <1>8, <1>9

(* So does an arrival, with its literal.                                   *)
LEMMA PathKeeps ==
  ASSUME Ready, NEW w \in Trying, NEW path \in 1 .. MaxArrivals
  PROVE  TryPath(w, path) \in Trying
<1> DEFINE now == w.arrivals[Index][path]
           arrivals == WithLiteral(w.arrivals, Index, path, now)
           literal == [w EXCEPT !.arrivals = arrivals]
           stopped == [w EXCEPT !.stopped = TRUE]
           out == \/ w.stopped \/ w.match.length > 0
                  \/ now.cost = Infinite
                  \/ Pruned(now.cost, w.arrivals[Index + 1][1].cost, CostScale * MaxArrivals)
           last == TryRecent(literal, path, now, 1)
           all == TryRecent(TryRecent(last, path, now, 2), path, now, 3)
<1>1. /\ w.arrivals \in Followed(LastPlace)
      /\ Index \in 0 .. (LastPlace - 1) /\ Index \in 0 .. LastPlace /\ LastPlace \in Nat
  BY DEF Trying, Ready
<1>2. now \in Place(Index) /\ (Counted => now = chunk.arrivals[Index][path])
  <2>1. /\ w.arrivals[Index] \in [1 .. MaxArrivals -> Place(Index)]
        /\ Counted => w.arrivals[Index] = chunk.arrivals[Index]
    BY <1>1, FollowedAre
  <2> QED
    BY <2>1
<1>3. stopped \in Trying
  <2>1. /\ stopped.match = w.match /\ stopped.path = w.path
        /\ stopped \in [arrivals : Followed(LastPlace), expected : {x \in Nat : x >= 2},
                        acceleration : Nat, match : Match, path : Nat, stopped : BOOLEAN]
    BY DEF Trying
  <2> HIDE DEF stopped
  <2> QED
    BY <2>1 DEF Trying
<1>4. TryPath(w, path) = IF out THEN stopped ELSE IF opts.advanced THEN all ELSE last
  BY DEF TryPath
<1> HIDE DEF now, stopped
<1>5. ASSUME ~out
      PROVE  last \in Trying /\ all \in Trying
  <2>1. now.cost # Infinite
    BY <1>5
  <2>2. arrivals \in Followed(LastPlace)
    BY <1>1, <1>2, <2>1, LiteralFollows
  <2>3. literal \in Trying
    <3> HIDE DEF arrivals
    <3>1. /\ literal.match = w.match /\ literal.path = w.path
          /\ literal \in [arrivals : Followed(LastPlace), expected : {x \in Nat : x >= 2},
                          acceleration : Nat, match : Match, path : Nat, stopped : BOOLEAN]
      BY <2>2 DEF Trying
    <3> HIDE DEF literal
    <3> QED
      BY <3>1 DEF Trying
  <2>4. 1 \in 1 .. 3 /\ 2 \in 1 .. 3 /\ 3 \in 1 .. 3
    OBVIOUS
  <2> HIDE DEF literal
  <2>5. last \in Trying
    BY <1>2, <2>1, <2>3, <2>4, RecentKeeps
  <2> HIDE DEF last
  <2>6. TryRecent(last, path, now, 2) \in Trying
    BY <1>2, <2>1, <2>4, <2>5, RecentKeeps
  <2>7. all \in Trying
    BY <1>2, <2>1, <2>4, <2>6, RecentKeeps
  <2> QED
    BY <2>5, <2>7
<1> HIDE DEF out, last, all
<1> QED
  BY <1>3, <1>4, <1>5

(* So do all arrivals of a position.                                       *)
LEMMA TriedFits ==
  ASSUME Ready
  PROVE  Tried \in Trying
<1> DEFINE w == [arrivals |-> chunk.arrivals, expected |-> 2, acceleration |-> acceleration,
                 match |-> [length |-> 0, distance |-> 0], path |-> 0, stopped |-> FALSE]
           m == MaxArrivals
<1>1. m \in Nat
  BY Widths DEF Ready
<1>2. w \in Trying
  <2>1. chunk.arrivals \in Followed(LastPlace) /\ acceleration \in Nat
    BY DEF Ready
  <2>2. [length |-> 0, distance |-> 0] \in Match /\ 2 \in {x \in Nat : x >= 2}
    BY DEF Match
  <2>3. /\ w.match.length = 0
        /\ w \in [arrivals : Followed(LastPlace), expected : {x \in Nat : x >= 2},
                  acceleration : Nat, match : Match, path : Nat, stopped : BOOLEAN]
    BY <2>1, <2>2
  <2> HIDE DEF w
  <2> QED
    BY <2>3 DEF Trying
<1>3. \A x \in Trying : \A i \in 1 .. m : TryPath(x, i) \in Trying
  BY PathKeeps
<1> HIDE DEF w, m
<1>4. m = MaxArrivals
      /\ w = [arrivals |-> chunk.arrivals, expected |-> 2, acceleration |-> acceleration,
              match |-> [length |-> 0, distance |-> 0], path |-> 0, stopped |-> FALSE]
  BY DEF w, m
<1> QED
  BY <1>1, <1>2, <1>3, <1>4, TriedKeeps

(* The matches of the finder.                                              *)
LEMMA MatchKeeps ==
  ASSUME Ready, NEW w \in [arrivals : Followed(LastPlace), reduced : {x \in Nat : x >= 2}],
         NEW path \in 1 .. MaxArrivals, NEW now \in Place(Index), now.cost # Infinite,
         Counted => now = chunk.arrivals[Index][path],
         NEW m \in Fits(chunk.at, end), NEW expected \in Nat, expected >= 2
  PROVE  TryMatch(w, path, now, m, expected)
           \in [arrivals : Followed(LastPlace), reduced : {x \in Nat : x >= 2}]
<1> DEFINE limit == AtMost(m.length, chunk.known - chunk.at)
           lowest == w.reduced + (IF limit # w.reduced THEN 1 ELSE 0)
           arrivals == WithMatches(w.arrivals, Index, path, now, m.distance,
                                   LengthsDown(limit, lowest), TRUE)
           out == m.distance <= 0 \/ m.distance = now.reps[1] \/ limit < expected
<1>1. m.length \in Nat /\ m.distance \in Nat /\ Real(chunk.at, m.length, m.distance)
  BY DEF Fits, Match
<1>2. /\ chunk.at \in Nat /\ chunk.known \in Nat /\ chunk.at < chunk.known /\ LastPlace \in Nat
      /\ Index \in 0 .. (LastPlace - 1) /\ chunk.from \in Nat
      /\ chunk.from + Index = chunk.at /\ chunk.from + LastPlace = chunk.known
  BY DEF Ready
<1>3. limit \in Nat /\ Index + limit <= LastPlace /\ limit <= m.length
  BY <1>1, <1>2 DEF AtMost
<1>4. lowest \in Nat /\ lowest >= 2
  BY <1>3
<1>5. TryMatch(w, path, now, m, expected)
        = IF out THEN w
          ELSE [arrivals |-> IF limit < 3 THEN w.arrivals ELSE arrivals, reduced |-> limit]
  BY DEF TryMatch
<1> HIDE DEF limit, lowest
<1>6. ASSUME ~(limit < 3)
      PROVE  arrivals \in Followed(LastPlace)
  <2>1. limit >= 2 /\ Index \in 0 .. LastPlace
    BY <1>2, <1>3, <1>6
  <2>3. Real(chunk.from + Index, limit, m.distance)
    <3>1. limit \in Int /\ m.length \in Int
      BY <1>1, <1>3
    <3>2. Real(chunk.at, limit, m.distance)
      BY <1>1, <1>3, <3>1, RealPrefix
    <3> QED
      BY <1>2, <3>2
  <2>2. \A l \in LengthsDown(limit, lowest) : /\ l \in Nat /\ l >= 2 /\ Index + l <= LastPlace
                                              /\ Real(chunk.from + Index, l, m.distance)
    BY <1>3, <1>4, <2>1, <2>3, LengthsFit
  <2> QED
    BY <1>1, <2>2, MatchesHere
<1>7. ~out => limit >= 2
  BY <1>3
<1> HIDE DEF arrivals, out
<1> QED
  BY <1>3, <1>5, <1>6, <1>7

(* All matches of the finder, after one arrival.                           *)
LEMMA AllKeep ==
  ASSUME Ready, NEW f \in Followed(LastPlace), NEW path \in 1 .. MaxArrivals, Tries(f, path),
         NEW ms \in Seq(Fits(chunk.at, end)), NEW expected \in Nat, expected >= 2
  PROVE  TryAll(f, path, ms, expected) \in Followed(LastPlace)
<1> DEFINE X == [arrivals : Followed(LastPlace), reduced : {x \in Nat : x >= 2}]
           w == [arrivals |-> f, reduced |-> expected]
           now == f[Index][path]
           m == Len(ms)
<1>1. m \in Nat /\ w \in X
  BY LenProperties
<1>2. Index \in 0 .. LastPlace /\ LastPlace \in Nat
  BY DEF Ready
<1>3. /\ now \in Place(Index) /\ now.cost # Infinite
      /\ Counted => now = chunk.arrivals[Index][path]
  <2>1. /\ f[Index] \in [1 .. MaxArrivals -> Place(Index)]
        /\ Counted => f[Index] = chunk.arrivals[Index]
    BY <1>2, FollowedAre
  <2> QED
    BY <2>1 DEF Tries
<1> HIDE DEF now
<1>4. ASSUME NEW x \in X, NEW i \in 1 .. m
      PROVE  TryMatch(x, path, now, ms[i], expected) \in X
  <2>1. ms[i] \in Fits(chunk.at, end)
    BY ElementOfSeq
  <2> QED
    BY <1>3, <2>1, MatchKeeps
<1> HIDE DEF X, w, m
<1>5. w = [arrivals |-> f, reduced |-> expected] /\ m = Len(ms) /\ now = f[Index][path]
  BY DEF w, m, now
<1>6. PICK z \in X : TryAll(f, path, ms, expected) = z.arrivals
  <2>1. [arrivals |-> f, reduced |-> expected] \in X /\ Len(ms) \in Nat
    BY <1>1, <1>5
  <2>2. \A x \in X : \A i \in 1 .. Len(ms) :
          TryMatch(x, path, f[Index][path], ms[i], expected) \in X
    BY <1>4, <1>5
  <2> QED
    BY <2>1, <2>2, TryAllKeeps
<1> QED
  BY <1>6 DEF X

(* All matches of the finder, after one or two arrivals.                   *)
LEMMA MatchesTried ==
  ASSUME Ready, NEW f \in Followed(LastPlace),
         NEW ms \in Seq(Fits(chunk.at, end)), NEW expected \in Nat, expected >= 2
  PROVE  TryMatches(f, ms, expected) \in Followed(LastPlace)
<1> DEFINE one == TryAll(f, 1, ms, expected)
<1>1. MaxArrivals \in Nat \ {0}
  BY Widths DEF Ready
<1>2. TryMatches(f, ms, expected)
        = IF ~Tries(f, 1) THEN f ELSE IF MaxArrivals = 1 \/ ~Tries(one, 2) THEN one
          ELSE TryAll(one, 2, ms, expected)
  BY DEF TryMatches
<1>3. ASSUME Tries(f, 1)
      PROVE  one \in Followed(LastPlace)
  <2>1. 1 \in 1 .. MaxArrivals
    BY <1>1
  <2> QED
    BY <1>3, <2>1, AllKeep
<1> HIDE DEF one
<1>4. ASSUME Tries(f, 1), MaxArrivals # 1, Tries(one, 2)
      PROVE  TryAll(one, 2, ms, expected) \in Followed(LastPlace)
  <2>1. 2 \in 1 .. MaxArrivals
    BY SMTT(60), <1>1, <1>4
  <2> QED
    BY <1>3, <1>4, <2>1, AllKeep
<1> QED
  BY <1>2, <1>3, <1>4

-----------------------------------------------------------------------------
(* The end of a chunk.                                                     *)

(* finishOptimalParseResult: the last place with an arrival.               *)
LEMMA SettledFits ==
  ASSUME NEW f, NEW i \in Nat
  PROVE  /\ Settled(f, i) \in 0 .. i
         /\ opts.parser # "optimal1" \/ f[i][1].cost # Infinite => Settled(f, i) = i
<1> DEFINE Right(b) == /\ b = 0 \/ f[b][1].cost # Infinite
                       /\ \A c \in (b + 1) .. i : f[c][1].cost = Infinite
           T == {k \in Nat : k <= i /\ (i - k = 0 \/ f[i - k][1].cost # Infinite)}
<1>1. PICK k \in T : \A l \in T : k <= l
  <2>1. i \in T /\ T \in SUBSET Nat
    OBVIOUS
  <2> HIDE DEF T
  <2> QED
    BY <2>1, LeastNatural
<1>2. i - k \in 0 .. i
  BY <1>1
<1>3. Right(i - k)
  <2>1. ASSUME NEW c \in (i - k + 1) .. i
        PROVE  f[c][1].cost = Infinite
    <3>1. c \in Nat /\ i - c \in Nat /\ i - c <= i /\ i - (i - c) = c /\ i - c < k
      BY <1>1
    <3>2. i - c \notin T
      BY <1>1, <3>1
    <3> QED
      BY <3>1, <3>2
  <2> QED
    BY <1>1, <2>1
<1>4. opts.parser # "optimal1" => Settled(f, i) = i
  BY DEF Settled
<1>5. opts.parser = "optimal1" => Settled(f, i) = CHOOSE b \in 0 .. i : Right(b)
  BY DEF Settled
<1> DEFINE s == CHOOSE b \in 0 .. i : Right(b)
<1>6. s \in 0 .. i /\ Right(s)
  <2> HIDE DEF Right
  <2> QED
    BY <1>2, <1>3, Zenon
<1> HIDE DEF s
<1>7. f[i][1].cost # Infinite => s = i
  <2>1. s # i => i \in (s + 1) .. i
    BY <1>6
  <2> QED
    BY <1>6, <2>1
<1> QED
  BY <1>4, <1>5, <1>6, <1>7 DEF s

(* finishMultiArrivalParseResult: a chunk ends at a place from i on.       *)
LEMMA FinishedFits ==
  ASSUME Chosen, chunk.from \in Nat, chunk.known \in Nat, LastPlace \in Nat,
         chunk.from + LastPlace = chunk.known,
         NEW f \in Places(LastPlace), NEW i \in 0 .. LastPlace, NEW c \in Nat
  PROVE  /\ Finished(f, i, c).steps \in Seq(Step)
         /\ Tiles(Finished(f, i, c).steps, chunk.from)
         /\ \A j \in DOMAIN Finished(f, i, c).steps :
              /\ Finished(f, i, c).steps[j].pos + Finished(f, i, c).steps[j].length <= chunk.known
              /\ RealStep(Finished(f, i, c).steps[j])
         /\ c # 0 => Finished(f, i, c).consumed = c
         /\ c = 0 /\ (opts.parser # "optimal1" \/ f[i][1].cost < Infinite) =>
              Finished(f, i, c).consumed \in (chunk.from + i) .. chunk.known
<1> DEFINE n == LastPlace
           X == {x \in i .. n : f[x][1].cost <= f[i][1].cost}
           m == Nice - 1
           far == Further(f, i, n)
           best == Settled(f, far)
           list == IF f[best][1].cost = Infinite THEN <<>> ELSE Backtrack(f, chunk.from, best, 1)
<1>1. m \in Nat /\ MaxArrivals \in Nat \ {0} /\ Infinite \in Nat
  <2>1. Nice \in Nat \ {0, 1}
    BY Widths
  <2> QED
    BY <2>1, Widths
<1>2. \A x \in 0 .. n : f[x][1].cost \in Int /\ (f[x][1].cost = Infinite \/ f[x][1].cost < Infinite
                                                 \/ f[x][1].cost > Infinite)
  <2> TAKE x \in 0 .. n
  <2>1. f[x] \in [1 .. MaxArrivals -> Place(x)] /\ 1 \in 1 .. MaxArrivals
    BY SMTT(60), <1>1, PlacesAre
  <2>2. PICK a : a = f[x][1].cost
    OBVIOUS
  <2>3. a \in Int
    BY <2>1, <2>2 DEF Place, Arrival
  <2>4. a = Infinite \/ a < Infinite \/ a > Infinite
    BY <1>1, <2>3
  <2> QED
    BY <2>2, <2>3, <2>4
<1>3. ASSUME NEW x \in X, NEW o \in 1 .. m
      PROVE  FurtherBy(x, o, f, n) \in X
  <2>1. CASE x + o <= n /\ f[x + o][1].cost <= f[x][1].cost
    <3>1. x + o \in i .. n /\ FurtherBy(x, o, f, n) = x + o
      BY <2>1 DEF FurtherBy
    <3>2. f[x + o][1].cost \in Int /\ f[x][1].cost \in Int /\ f[i][1].cost \in Int
      BY <1>2, <3>1
    <3>3. f[x + o][1].cost <= f[i][1].cost
      BY <2>1, <3>2
    <3> QED
      BY <3>1, <3>3
  <2>2. CASE ~(x + o <= n /\ f[x + o][1].cost <= f[x][1].cost)
    BY <2>2 DEF FurtherBy
  <2> QED
    BY <2>1, <2>2
<1>4. i \in X /\ i = AtMost(i, n)
  <2>1. f[i][1].cost \in Int
    BY <1>2
  <2> QED
    BY <2>1 DEF AtMost
<1>5. far \in X
  <2> HIDE DEF X, n, m
  <2>1. m = Nice - 1
    BY DEF m
  <2> QED
    BY <1>1, <1>3, <1>4, <2>1, FurtherKeeps
<1> HIDE DEF far
<1>6. far \in i .. n /\ far \in Nat /\ f[far][1].cost <= f[i][1].cost
  BY <1>5
<1>7. best \in 0 .. far /\ (opts.parser # "optimal1" \/ f[far][1].cost # Infinite => best = far)
  BY <1>6, SettledFits
<1>8. c = 0 /\ (opts.parser # "optimal1" \/ f[far][1].cost # Infinite) => best = far
  BY <1>7
<1> HIDE DEF best
<1>9. best \in 0 .. n
  BY <1>6, <1>7
<1>10. 1 \in 1 .. MaxArrivals
  BY <1>1
<1>11. /\ list \in Seq(Step) /\ Tiles(list, chunk.from)
       /\ \A j \in DOMAIN list : /\ list[j].pos + list[j].length <= chunk.from + best
                                 /\ RealStep(list[j])
  <2>1. CASE f[best][1].cost = Infinite
    <3>1. list = <<>>
      BY <2>1
    <3> HIDE DEF list
    <3> QED
      BY <3>1 DEF Tiles
  <2>2. CASE f[best][1].cost # Infinite
    <3>1. list = Backtrack(f, chunk.from, best, 1)
      BY <2>2
    <3> HIDE DEF list
    <3> QED
      BY <1>9, <1>10, <3>1, BackTiles
  <2> QED
    BY <2>1, <2>2
<1>12. Finished(f, i, c)
         = [steps |-> list, consumed |-> IF c = 0 THEN chunk.from + best ELSE c]
  BY DEF Finished, LastPlace, best, far
<1> HIDE DEF list
<1>13. \A j \in DOMAIN list : list[j].pos + list[j].length <= chunk.known
  <2> TAKE j \in DOMAIN list
  <2>1. list[j] \in Step
    BY <1>11, ElementOfSeq
  <2>2. list[j].pos \in Nat /\ list[j].length \in Nat
    BY <2>1 DEF Step
  <2> QED
    BY SMTT(60), <1>9, <1>11, <2>2
<1>14. ASSUME c = 0, opts.parser # "optimal1" \/ f[i][1].cost < Infinite
       PROVE  chunk.from + best \in (chunk.from + i) .. chunk.known
  <2>1. opts.parser # "optimal1" \/ f[far][1].cost # Infinite
    <3>1. f[far][1].cost \in Int /\ f[i][1].cost \in Int
      BY <1>2, <1>6
    <3> QED
      BY <1>1, <1>6, <1>14, <3>1
  <2> QED
    BY <1>6, <1>7, <1>9, <2>1
<1> QED
  BY <1>11, <1>12, <1>13, <1>14

(* A match ends a chunk.                                                   *)
LEMMA EndsFit ==
  ASSUME Chosen, chunk.from \in Nat, LastPlace \in Nat, end \in Nat,
         NEW f \in Places(LastPlace), NEW at \in Nat, at - chunk.from \in 0 .. LastPlace,
         NEW path \in 1 .. MaxArrivals, NEW m, m.length \in Nat, m.length >= 2,
         m.distance \in Nat, at + m.length <= end, Real(at, m.length, m.distance)
  PROVE  /\ EndsWith(f, at, path, m).steps \in Seq(Step)
         /\ Tiles(EndsWith(f, at, path, m).steps, chunk.from)
         /\ \A j \in DOMAIN EndsWith(f, at, path, m).steps :
              /\ EndsWith(f, at, path, m).steps[j].pos + EndsWith(f, at, path, m).steps[j].length <= end
              /\ RealStep(EndsWith(f, at, path, m).steps[j])
         /\ EndsWith(f, at, path, m).consumed = at + m.length
<1> DEFINE i == at - chunk.from
           list == Backtrack(f, chunk.from, i, path)
           s == [pos |-> at, length |-> m.length, distance |-> m.distance]
           all == Append(list, s)
<1>1. EndsWith(f, at, path, m) = [steps |-> all, consumed |-> at + m.length]
  BY DEF EndsWith
<1>2. s \in Step /\ s.pos = at /\ s.length = m.length /\ RealStep(s)
  BY DEF Step, RealStep
<1>3. chunk.from + i = at /\ i \in 0 .. LastPlace
  OBVIOUS
<1> HIDE DEF i, s
<1>4. /\ list \in Seq(Step) /\ Tiles(list, chunk.from)
      /\ \A j \in DOMAIN list : list[j].pos + list[j].length <= chunk.from + i /\ RealStep(list[j])
  BY <1>3, BackTiles
<1> HIDE DEF list
<1>5. \A j \in DOMAIN list : list[j].pos + list[j].length <= s.pos
  BY <1>2, <1>3, <1>4
<1>6. chunk.from \in Int /\ chunk.from <= s.pos /\ s.length >= 2
  BY <1>2, <1>3
<1>7. all \in Seq(Step) /\ Tiles(all, chunk.from)
  BY <1>2, <1>4, <1>5, <1>6, TilesBehind
<1>8. ASSUME NEW j \in DOMAIN all
      PROVE  all[j].pos + all[j].length <= end /\ RealStep(all[j])
  <2>1. Len(list) \in Nat /\ DOMAIN list = 1 .. Len(list)
    BY <1>4, LenProperties
  <2>2. /\ DOMAIN all = 1 .. (Len(list) + 1) /\ all[Len(list) + 1] = s
        /\ \A x \in 1 .. Len(list) : all[x] = list[x]
    <3>1. Len(all) = Len(list) + 1 /\ all[Len(list) + 1] = s
          /\ \A x \in 1 .. Len(list) : all[x] = list[x]
      BY <1>2, <1>4, AppendProperties
    <3> HIDE DEF all
    <3> QED
      BY <1>7, <3>1
  <2> HIDE DEF all
  <2>3. CASE j = Len(list) + 1
    BY <1>2, <2>2, <2>3
  <2>4. CASE j # Len(list) + 1
    <3>1. j \in 1 .. Len(list) /\ all[j] = list[j]
      BY SMTT(60), <2>1, <2>2, <2>4
    <3>2. list[j] \in Step
      BY <1>4, <3>1, ElementOfSeq
    <3>3. list[j].pos \in Nat /\ list[j].length \in Nat /\ list[j].pos + list[j].length <= at
      BY <1>2, <1>5, <2>1, <3>1, <3>2 DEF Step
    <3>4. list[j].pos + list[j].length <= end
      BY <3>3
    <3> QED
      BY <1>4, <3>1, <3>4
  <2> QED
    BY <2>3, <2>4
<1> HIDE DEF all
<1> QED
  BY <1>1, <1>7, <1>8

-----------------------------------------------------------------------------
(* A turn of optimal1.                                                     *)

(* The first recent match of optimal1 is in the block.                     *)
LEMMA RecentFits ==
  ASSUME Ready, NEW now \in Place(Index)
  PROVE  /\ FirstRecent(now) \in Match
         /\ FirstRecent(now).length > 0 =>
              /\ FirstRecent(now).length >= 2
              /\ chunk.at + FirstRecent(now).length <= end
              /\ Real(chunk.at, FirstRecent(now).length, FirstRecent(now).distance)
<1> DEFINE length(rep) == RepeatLength(chunk.at, now.reps[rep], 2, end)
           found == {rep \in 1 .. (IF opts.advanced THEN 3 ELSE 1) : length(rep) > 0}
           rep == CHOOSE r \in found : \A q \in found : r <= q
<1>1. FirstRecent(now) = IF found = {} THEN [length |-> 0, distance |-> 0]
                         ELSE [length |-> length(rep), distance |-> now.reps[rep]]
  BY DEF FirstRecent
<1>2. found # {} => rep \in found
  <2>1. found \in SUBSET Nat
    OBVIOUS
  <2> HIDE DEF found
  <2>2. found # {} => \E r \in found : \A q \in found : r <= q
    BY <2>1, LeastNatural
  <2> QED
    BY <2>2
<1>3. found \subseteq 1 .. 3
  OBVIOUS
<1>4. chunk.at \in Nat /\ end \in Nat
  BY DEF Ready
<1>5. ASSUME NEW r \in found
      PROVE  /\ length(r) \in Nat /\ length(r) >= 2 /\ chunk.at + length(r) <= end
             /\ now.reps[r] \in Nat /\ Real(chunk.at, length(r), now.reps[r])
  <2> DEFINE d == now.reps[r]
             c == CommonLength(chunk.at, chunk.at - d, end)
  <2>1. d \in Nat
    BY <1>3 DEF Place, Arrival, Reps
  <2> HIDE DEF d
  <2>2. c \in 0 .. AtLeast(end - chunk.at, 0)
    <3>1. chunk.at \in Int /\ chunk.at - d \in Int /\ end \in Int
      BY <1>4, <2>1
    <3> QED
      BY <3>1, CommonFits, Zenon
  <2>3. length(r) = c /\ ~(c < 2) /\ ~(d <= 0 \/ d > Farthest \/ d > chunk.at)
    <3>1. length(r) > 0
      OBVIOUS
    <3>2. length(r) = IF \/ d <= 0 \/ d > Farthest \/ d > chunk.at
                         \/ chunk.at + 2 > end \/ c < 2 THEN 0 ELSE c
      BY DEF RepeatLength, d
    <3> HIDE DEF length, c
    <3> QED
      BY <3>1, <3>2
  <2>5. PICK n : n = c
    OBVIOUS
  <2>6. n \in Int /\ end \in Int /\ n <= CommonLength(chunk.at, chunk.at - d, end)
    BY <1>4, <2>2, <2>5
  <2>7. Real(chunk.at, n, d)
    BY <1>4, <2>1, <2>3, <2>6, RealDistance
  <2> HIDE DEF c, length
  <2>4. c \in Nat /\ c >= 2 /\ chunk.at + c <= end
    BY <1>4, <2>2, <2>3 DEF AtLeast
  <2> QED
    BY <2>1, <2>3, <2>4, <2>5, <2>7 DEF d
<1> HIDE DEF found, rep, length
<1>6. CASE found = {}
  BY <1>1, <1>6 DEF Match
<1>7. CASE found # {}
  BY <1>1, <1>2, <1>5, <1>7 DEF Match
<1> QED
  BY <1>6, <1>7

(* A match moves to the left over the literals before it.                  *)
LEMMA ExtendedFits ==
  ASSUME Ready, NEW now \in Place(Index), NEW m \in Fits(chunk.at, end)
  PROVE  /\ Extended(now, m).distance = m.distance
         /\ Extended(now, m).length \in Nat
         /\ Extended(now, m).length - m.length \in 0 .. Index
         /\ Real(chunk.at - (Extended(now, m).length - m.length), Extended(now, m).length, m.distance)
<1> DEFINE left == LeftPart(now.run, chunk.at, m.distance)
<1>1. /\ m.length \in Nat /\ m.distance \in Nat /\ chunk.at \in Nat
      /\ DOMAIN m = {"length", "distance"}
      /\ Real(chunk.at, m.length, m.distance)
  BY DEF Fits, Match, Ready
<1>8. m.distance <= chunk.at
  BY <1>1 DEF Real
<1>2. now.run \in Nat /\ now.run <= Index /\ Index \in Nat
  BY DEF Place, Arrival, Ready
<1>3. /\ left \in 0 .. AtMost(now.run, chunk.at - m.distance)
      /\ Real(chunk.at - left, m.length + left, m.distance)
  BY <1>1, <1>2, RealLeft
<1> HIDE DEF left
<1>4. left \in 0 .. Index
  BY <1>1, <1>2, <1>3, <1>8 DEF AtMost
<1>5. Extended(now, m) = [m EXCEPT !.length = m.length + left]
  BY DEF Extended, left
<1>6. m = [length |-> m.length, distance |-> m.distance]
  BY DEF Fits, Match
<1>7. Extended(now, m).length = m.length + left /\ Extended(now, m).distance = m.distance
  BY <1>5, <1>6
<1>9. Extended(now, m).length - m.length = left
  BY <1>1, <1>4, <1>7
<1> QED
  BY <1>1, <1>2, <1>3, <1>4, <1>7, <1>9

(* A match that is moved to the left goes to places of the chunk.          *)
LEMMA RelaxLeftKeeps ==
  ASSUME Ready, opts.parser = "optimal1", NEW w \in [arrivals : Followed(LastPlace), stopped : BOOLEAN],
         NEW now \in Place(Index), NEW m \in Fits(chunk.at, end)
  PROVE  RelaxLeft(w, now, m) \in [arrivals : Followed(LastPlace), stopped : BOOLEAN]
<1> DEFINE whole == Extended(now, m)
           i == Index - (whole.length - m.length)
           limit == AtMost(whole.length, chunk.known - chunk.from - i)
           next == WithMatches(w.arrivals, i, 1, w.arrivals[i][1], m.distance, {limit}, TRUE)
           out == w.stopped \/ w.arrivals[i][1].cost = Infinite \/ limit < 3
<1>1. /\ whole.length \in Nat /\ whole.length - m.length \in 0 .. Index
      /\ m.distance \in Nat /\ m.length \in Nat
      /\ Real(chunk.at - (whole.length - m.length), whole.length, m.distance)
  BY ExtendedFits DEF Fits, Match
<1>2. /\ LastPlace \in Nat /\ Index \in 0 .. (LastPlace - 1) /\ Chosen
      /\ chunk.from \in Nat /\ chunk.at \in Nat /\ chunk.from + Index = chunk.at
  BY DEF Ready
<1> HIDE DEF whole
<1>7. chunk.from + i = chunk.at - (whole.length - m.length)
  BY <1>1, <1>2
<1>3. i \in 0 .. LastPlace
  BY <1>1, <1>2
<1>4. RelaxLeft(w, now, m)
        = IF out THEN w ELSE [arrivals |-> next, stopped |-> next = w.arrivals]
  BY DEF RelaxLeft, whole
<1> HIDE DEF i
<1>5. limit \in Int /\ i + limit <= LastPlace /\ limit <= whole.length
  BY <1>1, <1>2, <1>3 DEF AtMost, LastPlace
<1>9. i \in 0 .. Index /\ i + limit > Index
  <2>1. i + whole.length = Index + m.length /\ i \in 0 .. Index /\ Index < LastPlace
    BY <1>1, <1>2 DEF i
  <2>2. m.length >= 1
    BY DEF Fits, Match
  <2>3. PICK x, y, z, j : x = whole.length /\ y = m.length /\ z = LastPlace /\ j = Index
    OBVIOUS
  <2>4. i + x = j + y /\ y >= 1 /\ j < z /\ x \in Nat /\ y \in Nat /\ z \in Nat /\ j \in Nat
    BY <1>1, <1>2, <2>1, <2>2, <2>3
  <2>5. limit = AtMost(x, z - i)
    BY <2>3 DEF LastPlace
  <2>6. i \in Nat
    BY <2>1
  <2>7. i + limit > j
    BY <2>4, <2>5, <2>6 DEF AtMost
  <2> QED
    BY <2>1, <2>3, <2>7
<1>8. Real(chunk.from + i, limit, m.distance)
  <2>1. limit \in Int /\ whole.length \in Int /\ limit <= whole.length
    BY <1>1, <1>5
  <2>2. Real(chunk.from + i, whole.length, m.distance)
    BY <1>1, <1>7
  <2> QED
    BY <2>1, <2>2, RealPrefix
<1> HIDE DEF limit
<1>6. ASSUME ~out
      PROVE  next \in Followed(LastPlace)
  <2>1. w.arrivals \in Followed(LastPlace) /\ w.arrivals[i][1].cost # Infinite
    BY <1>6
  <2>2. MaxArrivals \in Nat \ {0}
    BY <1>2, Widths
  <2>3. /\ w.arrivals[i][1] \in Place(i) /\ 1 \in 1 .. MaxArrivals
        /\ Counted => w.arrivals[i][1] = chunk.arrivals[i][1]
    <3>1. /\ w.arrivals[i] \in [1 .. MaxArrivals -> Place(i)]
          /\ Counted => w.arrivals[i] = chunk.arrivals[i]
      BY <1>2, <1>3, <1>9, <2>1, FollowedAre
    <3>2. 1 \in 1 .. MaxArrivals
      BY <2>2
    <3> QED
      BY <3>1, <3>2
  <2>4. \A l \in {limit} : /\ l \in Nat /\ l >= 2 /\ i + l <= LastPlace
                           /\ Real(chunk.from + i, l, m.distance)
    BY <1>5, <1>6, <1>8
  <2>5. Counted => \A l \in {limit} : i + StoredLength(l) > Index
    <3>1. Counted => ~coding.noHuffman
      BY DEF Counted
    <3> QED
      BY <1>9, <3>1 DEF StoredLength
  <2> QED
    BY <1>1, <1>9, <2>1, <2>3, <2>4, <2>5, MatchesFollow
<1> HIDE DEF next, out
<1> QED
  BY <1>4, <1>6

(* So do all matches of a position.                                        *)
LEMMA RelaxAllFits ==
  ASSUME Ready, opts.parser = "optimal1", NEW f \in Followed(LastPlace), NEW now \in Place(Index),
         NEW ms \in Seq(Fits(chunk.at, end))
  PROVE  RelaxAll(f, now, ms) \in Followed(LastPlace)
<1> DEFINE X == [arrivals : Followed(LastPlace), stopped : BOOLEAN]
           w == [arrivals |-> f, stopped |-> FALSE]
           m == Len(ms)
<1>1. m \in Nat /\ w \in X
  BY LenProperties
<1>2. ASSUME NEW x \in X, NEW i \in 1 .. m
      PROVE  RelaxLeft(x, now, ms[m + 1 - i]) \in X
  <2>1. m + 1 - i \in 1 .. Len(ms)
    BY <1>1
  <2>2. ms[m + 1 - i] \in Fits(chunk.at, end)
    BY <2>1, ElementOfSeq
  <2> QED
    BY <2>2, RelaxLeftKeeps
<1> HIDE DEF X, w, m
<1>3. w = [arrivals |-> f, stopped |-> FALSE] /\ m = Len(ms)
  BY DEF w, m
<1>4. PICK z \in X : RelaxAll(f, now, ms) = z.arrivals
  BY SMTT(60), <1>1, <1>2, <1>3, RelaxAllKeeps
<1> QED
  BY <1>4 DEF X

-----------------------------------------------------------------------------
(* The steps of the parser.                                                *)

(* What the variables are, for the arithmetic.                             *)
LEMMA Limits ==
  ASSUME Typed
  PROVE  /\ src \in Seq(Nat) /\ CompressionLimit \in Int
         /\ start \in Nat /\ end \in Nat /\ pos \in Nat /\ litStart \in Nat /\ Chosen
         /\ \A k \in Int : Reach(k) \in Int
<1>1. src \in Seq(Nat)
  BY BlockPlanAssumption DEF Typed
<1>2. CompressionLimit \in Int
  BY <1>1, LenProperties, SourceBytesAssumption DEF CompressionLimit
<1> QED
  BY <1>1, <1>2 DEF Typed, Reach

(* A finder that a step moves to.                                          *)
LEMMA FindersMove ==
  ASSUME src' = src, NEW k, NEW f, f.tree \in Trees(k), f.tables \in Tables(k), FinderIs(f)
  PROVE  Finders' \in FinderTo(k)'
<1>1. Finders' = [tree |-> [chain3 |-> chain3', lookup |-> lookup', nodes |-> nodes',
                            inserted |-> inserted'], tables |-> tables']
  BY DEF Finders, tree
<1>2. /\ chain3' = f.tree.chain3 /\ lookup' = f.tree.lookup /\ nodes' = f.tree.nodes
      /\ inserted' = f.tree.inserted /\ tables' = f.tables
  BY DEF FinderIs, TreeIs
<1>4. Trees(k)' = Trees(k)
  BY OrderStays
<1>5. [chain3 |-> chain3', lookup |-> lookup', nodes |-> nodes', inserted |-> inserted'] \in Trees(k)
  <2>1. f.tree \in Arrays(k)
    BY DEF Trees
  <2>2. f.tree = [chain3 |-> chain3', lookup |-> lookup', nodes |-> nodes', inserted |-> inserted']
    BY <1>2, <2>1 DEF Arrays
  <2> QED
    BY <2>2
<1>6. FinderTo(k)' = FinderTo(k)
  BY <1>4 DEF FinderTo
<1> QED
  BY <1>1, <1>2, <1>5, <1>6 DEF FinderTo

(* Finders that a step leaves alone.                                       *)
LEMMA FindersStay ==
  ASSUME src' = src, NEW k, Finders \in FinderTo(k), UNCHANGED <<treeVars, tables>>
  PROVE  Finders' \in FinderTo(k)'
<1>1. Finders.tree \in Trees(k) /\ Finders.tables \in Tables(k)
  BY DEF FinderTo
<1>2. FinderIs(Finders)
  BY DEF FinderIs, TreeIs, Finders, tree, treeVars
<1> QED
  BY <1>1, <1>2, FindersMove

(* The reach of a finder, as long as the source and the options stay.      *)
LEMMA ReachStays ==
  ASSUME src' = src, opts' = opts, coding' = coding, end' = end, NEW k
  PROVE  Reach(k)' = Reach(k) /\ Buffered' = Buffered /\ CompressionLimit' = CompressionLimit
BY DEF Reach, Buffered, CompressionLimit

(* What a position of the chunk knows of its bounds.                       *)
LEMMA Bounds ==
  ASSUME Ready
  PROVE  /\ src \in Seq(Nat) /\ Chosen /\ end \in Nat /\ end <= CompressionLimit
         /\ chunk.from \in Nat /\ chunk.at \in Nat \ {0} /\ chunk.at + 1 \in Nat
         /\ chunk.known \in Nat
         /\ chunk.from <= chunk.at /\ chunk.at + 1 <= chunk.known /\ chunk.known <= end
         /\ LastPlace \in Nat /\ Index \in 0 .. LastPlace /\ Index + 1 \in 0 .. LastPlace
         /\ Index \in 0 .. (LastPlace - 1) /\ Index + 1 \in 0 .. (ChunkSize + 1)
         /\ chunk.from + Index = chunk.at /\ chunk.at - chunk.from = Index
         /\ chunk.from + LastPlace = chunk.known
         /\ chunk.arrivals \in Places(LastPlace) /\ acceleration \in Nat
         /\ MaxArrivals \in Nat \ {0} /\ 1 \in 1 .. MaxArrivals /\ Spanned(LastPlace)
<1>1. MaxArrivals \in Nat \ {0} /\ ChunkSize \in Nat
  BY Widths DEF Ready
<1> QED
  BY SMTT(60), <1>1 DEF Ready

(* Matches are matches in the source.                                      *)
LEMMA RealStays ==
  ASSUME src' = src
  PROVE  /\ \A p, n, d : Real(p, n, d)' = Real(p, n, d)
         /\ \A p, e : Fits(p, e)' = Fits(p, e)
         /\ \A s : RealStep(s)' = RealStep(s)
         /\ \A list, from, to : Plan(list, from, to)' = Plan(list, from, to)
<1>1. \A x, y, n : Agree(x, y, n)' = Agree(x, y, n)
  BY DEF Agree, Byte
<1>2. \A p, n, d : Real(p, n, d)' = Real(p, n, d)
  BY <1>1 DEF Real
<1>3. \A p, e : Fits(p, e)' = Fits(p, e)
  BY <1>2 DEF Fits
<1>4. \A s : RealStep(s)' = RealStep(s)
  BY <1>2 DEF RealStep
<1>5. \A list, from, to : Plan(list, from, to)' = Plan(list, from, to)
  BY <1>4 DEF Plan
<1> QED
  BY <1>2, <1>3, <1>4, <1>5

(* What a place may have, in the same chunk of the same source.            *)
LEMMA PlacesStay ==
  ASSUME src' = src, opts' = opts, coding' = coding, iteration' = iteration, chunk'.from = chunk.from, NEW n
  PROVE  Places(n)' = Places(n) /\ Nice' = Nice /\ MaxArrivals' = MaxArrivals
<1>1. MaxArrivals' = MaxArrivals /\ Nice' = Nice
  BY DEF MaxArrivals, Nice, First, Buffered
<1>2. \A a : Real(chunk.from + a.prev, a.len, a.dist)' = Real(chunk.from + a.prev, a.len, a.dist)
  <2> TAKE a
  <2>1. PICK x : x = chunk.from + a.prev
    OBVIOUS
  <2>2. Real(x, a.len, a.dist)' = Real(x, a.len, a.dist)
    BY RealStays
  <2>3. x = chunk'.from + a.prev
    BY <2>1
  <2> QED
    BY <2>1, <2>2, <2>3
<1>3. \A i : Place(i)' = Place(i)
  BY <1>1, <1>2 DEF Place
<1> QED
  BY <1>1, <1>3 DEF Places

(* What arrivals have counted, when nothing happens.                       *)
LEMMA FollowedStay ==
  ASSUME src' = src, opts' = opts, coding' = coding, iteration' = iteration, chunk' = chunk, NEW n
  PROVE  Followed(n)' = Followed(n)
<1>1. Places(n)' = Places(n) /\ MaxArrivals' = MaxArrivals
  <2>1. chunk'.from = chunk.from
    OBVIOUS
  <2> QED
    BY <2>1, PlacesStay
<1>2. Counted' = Counted /\ Index' = Index
  BY DEF Counted, Index
<1>3. \A r, d : UpdatedReps(r, d)' = UpdatedReps(r, d)
  BY DEF UpdatedReps
<1>4. \A a, i : Follows(a, i)' = Follows(a, i)
  <2> TAKE a, i
  <2>1. PICK r : r = chunk.arrivals[a.prev][a.path].reps
    OBVIOUS
  <2>2. UpdatedReps(r, a.dist)' = UpdatedReps(r, a.dist)
    BY <1>3
  <2> QED
    BY <1>1, <1>2, <2>1, <2>2 DEF Follows
<1> QED
  BY <1>1, <1>2, <1>4 DEF Followed

(* What arrivals have counted, when the next position comes.               *)
LEMMA FollowedMove ==
  ASSUME src' = src, opts' = opts, coding' = coding, iteration' = iteration, NEW n \in Nat, NEW f \in Followed(n),
         chunk'.from = chunk.from, chunk'.at = chunk.at + 1, chunk'.reps = chunk.reps,
         chunk'.arrivals = f, chunk.at \in Nat, chunk.from \in Nat, Index \in 0 .. n
  PROVE  f \in Followed(n)'
<1>1. Places(n)' = Places(n) /\ MaxArrivals' = MaxArrivals
  BY PlacesStay
<1>2. Counted' = Counted /\ Index' = Index + 1
  BY DEF Counted, Index
<1>3. \A r, d : UpdatedReps(r, d)' = UpdatedReps(r, d)
  BY DEF UpdatedReps
<1>4. /\ f \in Places(n)
      /\ Counted => \A i \in 0 .. n : i <= Index => f[i] = chunk.arrivals[i]
      /\ Counted => \A i \in 0 .. n : \A path \in 1 .. MaxArrivals :
                      f[i][path].cost = Infinite \/ Follows(f[i][path], i)
  BY DEF Followed
<1>5. ASSUME Counted, NEW i, NEW a, Follows(a, i)
      PROVE  Follows(a, i)'
  <2>1. CASE i = 0
    BY <1>5, <2>1 DEF Follows
  <2>2. CASE i # 0
    <3>1. a.prev \in 0 .. Index /\ a.path \in 1 .. MaxArrivals
      BY <1>5, <2>2 DEF Follows
    <3>2. a.prev \in 0 .. n /\ a.prev <= Index /\ a.prev \in 0 .. (Index + 1)
      BY <3>1
    <3>3. chunk'.arrivals[a.prev] = chunk.arrivals[a.prev]
      BY <1>4, <1>5, <3>2
    <3>4. PICK b : b = chunk.arrivals[a.prev][a.path]
      OBVIOUS
    <3>5. PICK r : r = b.reps
      OBVIOUS
    <3>6. UpdatedReps(r, a.dist)' = UpdatedReps(r, a.dist)
      BY <1>3
    <3>7. /\ b.cost # Infinite
          /\ IF a.len = 0 THEN a.prev = i - 1 /\ a.run = b.run + 1 /\ a.reps = b.reps
             ELSE a.run = 0 /\ a.reps = UpdatedReps(r, a.dist)
      BY <1>5, <2>2, <3>4, <3>5 DEF Follows
    <3>8. /\ a.prev \in 0 .. Index' /\ a.path \in 1 .. MaxArrivals'
          /\ b = chunk'.arrivals[a.prev][a.path] /\ r = b.reps
      BY <1>1, <1>2, <3>1, <3>2, <3>3, <3>4, <3>5
    <3> QED
      BY <2>2, <3>6, <3>7, <3>8 DEF Follows
  <2> QED
    BY <2>1, <2>2
<1>6. ASSUME Counted, NEW i \in 0 .. n, NEW path \in 1 .. MaxArrivals
      PROVE  f[i][path].cost = Infinite \/ Follows(f[i][path], i)'
  <2>1. PICK a : a = f[i][path]
    OBVIOUS
  <2>2. a.cost = Infinite \/ Follows(a, i)
    BY <1>4, <1>6, <2>1
  <2>3. a.cost = Infinite \/ Follows(a, i)'
    BY <1>5, <1>6, <2>2
  <2> QED
    BY <2>1, <2>3
<1> QED
  BY <1>1, <1>2, <1>4, <1>6 DEF Followed

(* Arrivals without a match may be in any chunk.                           *)
LEMMA LiteralsStay ==
  ASSUME opts' = opts, coding' = coding, iteration' = iteration, NEW n, NEW f \in Places(n),
         \A i \in 0 .. n : \A path \in 1 .. MaxArrivals : f[i][path].len = 0
  PROVE  f \in Places(n)' /\ Nice' = Nice /\ MaxArrivals' = MaxArrivals
<1>1. MaxArrivals' = MaxArrivals /\ Nice' = Nice
  BY DEF MaxArrivals, Nice, First, Buffered
<1>2. \A i : \A a \in Place(i) : a.len = 0 => a \in Place(i)'
  BY <1>1 DEF Place
<1> QED
  BY <1>1, <1>2 DEF Places

(* At the start nothing is in a finder.                                    *)
LEMMA Beginning ==
  Init => IInv
<1> SUFFICES ASSUME Init
             PROVE  IInv
  OBVIOUS
<1>1. InitReps \in Reps
  BY DEF InitReps, Reps
<1>2. Base \in Nat
  BY BlockPlanAssumption
<1>3. Typed
  <2>1. coding \in CodingType /\ coding.iterations = 1
    BY ModelsAssumption, OptimalParseAssumption DEF Init, CodingType
  <2>2. Chosen
    BY <2>1 DEF Init, Chosen
  <2> QED
    BY <1>1, <1>2, <2>2 DEF Init, Typed, NoFill
<1>4. PICK k \in Int : k = Reach(0)
  BY <1>3, Limits
<1>5. EmptyTree \in Trees(k)
  <2>1. EmptyTree \in Arrays(k)
    BY DEF EmptyTree, Arrays
  <2>2. Sorted(EmptyTree)
    BY <1>3, Limits, EmptySorts
  <2>3. Complete(EmptyTree)
    BY <1>3, Limits, EmptyCompletes
  <2> QED
    BY <2>1, <2>2, <2>3 DEF Trees
<1>6. EmptyTables \in Tables(k)
  <2>1. 0 \in Below(k)
    BY DEF Below
  <2>2. \A n : EmptyTable(n) \in Table(n, k)
    BY <2>1 DEF EmptyTable, Table
  <2> QED
    BY <2>2 DEF EmptyTables, Tables
<1>7. Finders \in FinderTo(Reach(0))
  BY <1>4, <1>5, <1>6 DEF Init, Finders, FinderTo, tree, EmptyTree
<1> QED
  BY <1>3, <1>7 DEF IInv, Init, Between, InBlock, InChunk, Ended

(* How a block may be parsed.                                              *)
LEMMA CodingsTyped ==
  ASSUME opts \in Options, NEW how \in Codings
  PROVE  how \in CodingType /\ (opts.parser = "optimal1" => how.iterations = 1)
<1>1. Raw \in Models /\ opts \in OptionsType
  BY OptimalParseAssumption, ModelsAssumption
<1>2. opts.iterations \in 1 .. 3
  BY <1>1 DEF OptionsType
<1>3. CASE ~opts.huffman
  <2>1. how = [noHuffman |-> TRUE, iterations |-> 1, model |-> Raw]
    BY <1>3 DEF Codings
  <2>2. 1 \in 1 .. 3
    OBVIOUS
  <2> QED
    BY <1>1, <2>1, <2>2 DEF CodingType
<1>4. CASE opts.huffman
  <2>1. PICK n : n = IF opts.parser = "optimal1" THEN 1 ELSE opts.iterations
    OBVIOUS
  <2>2. n \in 1 .. 3 /\ (opts.parser = "optimal1" => n = 1)
    BY <1>2, <2>1
  <2>3. \/ how \in [noHuffman : BOOLEAN, iterations : {1}, model : {Raw}]
        \/ how \in [noHuffman : {FALSE}, iterations : {n}, model : Models \ {Raw}]
    BY <1>4, <2>1 DEF Codings
  <2>4. CASE how \in [noHuffman : BOOLEAN, iterations : {1}, model : {Raw}]
    BY <1>1, <2>4 DEF CodingType
  <2>5. CASE how \in [noHuffman : {FALSE}, iterations : {n}, model : Models \ {Raw}]
    BY <2>2, <2>5 DEF CodingType
  <2> QED
    BY <2>3, <2>4, <2>5
<1> QED
  BY <1>3, <1>4

(* A block begins.                                                         *)
LEMMA BeginBlockKeeps ==
  ASSUME IInv, NEW to \in Cuts \union {CompressionLimit}, NEW how \in Codings, BeginBlock(to, how)
  PROVE  IInv'
<1>1. Typed /\ Between
  BY DEF IInv
<1>2. /\ src \in Seq(Nat) /\ CompressionLimit \in Int /\ start \in Nat /\ Chosen
      /\ reps \in Reps /\ acceleration \in Nat
  BY <1>1, Limits DEF Typed
<1>3. /\ phase = "block" /\ to \in (start + 1) .. CompressionLimit /\ end' = to
      /\ begin' = [reps |-> reps, acceleration |-> acceleration]
      /\ buffer' = [p \in start .. (to - 1) |-> <<>>]
      /\ fill' = [at |-> FirstPos, acceleration |-> Base] /\ iteration' = 1
      /\ pos' = FirstPos /\ litStart' = FirstPos /\ steps' = <<>>
      /\ coding' = how /\ phase' = IF how.iterations > 1 THEN "fill" ELSE "parse"
      /\ UNCHANGED <<src, opts, start, treeVars, tables, reps, acceleration, chunk, result>>
  BY DEF BeginBlock
<1>9. Chosen' /\ (phase' = "fill" <=> Buffered')
  <2>1. how \in CodingType /\ (opts.parser = "optimal1" => how.iterations = 1)
    BY <1>2, CodingsTyped DEF Chosen
  <2> QED
    BY <1>2, <1>3, <2>1 DEF Chosen, CodingType, Buffered
<1>4. FirstPos \in Nat /\ FirstPos >= start /\ FirstPos <= to /\ to \in Nat
  BY <1>2, <1>3 DEF FirstPos
<1>5. Typed'
  BY <1>1, <1>3, <1>4, <1>9, BlockPlanAssumption DEF Typed
<1>6. Between' /\ InChunk' /\ Ended'
  BY <1>3 DEF Between, InChunk, Ended
<1>7. Finders' \in FinderTo(FirstPos)'
  <2>1. pos = start /\ end = start /\ Finders \in FinderTo(Reach(pos))
    BY <1>1, <1>3 DEF Between
  <2>2. PICK k \in Int : k = FirstPos /\ Finders \in FinderTo(k)
    <3>1. Reach(pos) = start
      BY <2>1 DEF Reach
    <3> QED
      BY <1>2, <1>4, <2>1, <3>1, FinderMore
  <2>3. Finders' \in FinderTo(k)'
    BY <1>3, <2>2, FindersStay
  <2>4. k = FirstPos'
    BY <1>3, <2>2 DEF FirstPos
  <2> QED
    BY <2>3, <2>4
<1>8. InBlock'
  <2>1. CompressionLimit' = CompressionLimit /\ FirstPos' = FirstPos
    BY <1>3 DEF CompressionLimit, FirstPos
  <2>2. DOMAIN buffer' = start .. (to - 1) /\ \A p \in DOMAIN buffer' : buffer'[p] = <<>>
    BY <1>3
  <2>3. \A p \in DOMAIN buffer' : buffer'[p] \in Seq(Fits(p, end))'
    <3>1. \A p : <<>> \in Seq(Fits(p, end))'
      OBVIOUS
    <3> QED
      BY <2>2, <3>1, Zenon
  <2>6. Plan(steps, FirstPos, litStart)'
    <3>1. \A x \in Int : Plan(<<>>, x, x)'
      BY DEF Plan, Tiles
    <3> QED
      BY <1>3, <1>4, <2>1, <3>1
  <2>4. phase' = "fill" => /\ Buffered' /\ fill'.at \in FirstPos' .. end'
                          /\ Finders' \in FinderTo(fill.at)'
    <3>1. phase' = "fill" => Buffered'
      BY <1>9
    <3>2. fill'.at = FirstPos' /\ FirstPos' \in FirstPos' .. end'
      BY <1>2, <1>3, <1>4, <2>1
    <3> QED
      BY <1>7, <3>1, <3>2
  <2>5. phase' = "parse" => Finders' \in FinderTo(Reach(pos))'
    <3>1. phase' = "parse" => ~Buffered'
      BY <1>9
    <3>2. ~Buffered' => Reach(pos)' = FirstPos'
      BY <1>3, <2>1 DEF Reach
    <3> QED
      BY <1>7, <3>1, <3>2
  <2> QED
    BY <1>2, <1>3, <1>4, <2>1, <2>2, <2>3, <2>4, <2>5, <2>6 DEF InBlock
<1> QED
  BY <1>5, <1>6, <1>8 DEF IInv

(* What a position inside a long match gets of it.                         *)
LEMMA TailFits ==
  ASSUME NEW p \in Nat, NEW m \in Fits(p, end), NEW q \in Nat, p < q, q < p + m.length,
         m.length - (q - p) > 2
  PROVE  <<[m EXCEPT !.length = @ - (q - p)]>> \in Seq(Fits(q, end))
<1>1. m = [length |-> m.length, distance |-> m.distance]
      /\ m.length \in Nat /\ m.distance \in Nat /\ p + m.length <= end
      /\ Real(p, m.length, m.distance)
  BY DEF Fits, Match
<1>2. PICK t : t = [m EXCEPT !.length = @ - (q - p)]
  OBVIOUS
<1>3. t = [length |-> m.length - (q - p), distance |-> m.distance]
  BY <1>1, <1>2
<1>4. m.length - (q - p) \in Nat /\ m.length - (q - p) >= 3
      /\ q + (m.length - (q - p)) = p + m.length
  BY <1>1
<1>6. Real(q, m.length - (q - p), m.distance)
  <2>1. PICK k \in Nat : k = q - p /\ p + k = q
    OBVIOUS
  <2>2. Real(p + k, m.length - k, m.distance)
    BY <1>1, RealTail
  <2> QED
    BY <2>1, <2>2
<1>5. t \in Fits(q, end)
  <2>1. t \in Match /\ t.length = m.length - (q - p) /\ t.distance = m.distance
    BY <1>1, <1>3, <1>4 DEF Match
  <2> QED
    BY <1>1, <1>4, <1>6, <2>1 DEF Fits
<1> QED
  BY <1>2, <1>5

(* The last matches of a list are matches of the list.                     *)
LEMMA LastOfFits ==
  ASSUME NEW S, NEW list \in Seq(S), NEW n \in Nat
  PROVE  LastOf(list, n) \in Seq(S)
<1>1. Len(list) \in Nat /\ \A i \in 1 .. Len(list) : list[i] \in S
  BY LenProperties, ElementOfSeq
<1>2. Len(list) - AtMost(n, Len(list)) + 1 \in Int
      /\ \A i \in (Len(list) - AtMost(n, Len(list)) + 1) .. Len(list) : i \in 1 .. Len(list)
  BY <1>1 DEF AtMost
<1>3. \A i \in (Len(list) - AtMost(n, Len(list)) + 1) .. Len(list) : list[i] \in S
  BY <1>1, <1>2
<1> QED
  BY <1>1, <1>2, <1>3, SubSeqProperties DEF LastOf

(* A turn of fillMatchBuffer: all it keeps, tails too, is in the block.    *)
LEMMA FillNextKeeps ==
  ASSUME IInv, FillNext
  PROVE  IInv'
<1> DEFINE p     == fill.at
           found == Find(tree, p, end, 3)
           ms    == found.matches
           best  == ms[Len(ms)]
           wait  == IF ms = <<>>
                    THEN fill.acceleration + (IF opts.parser = "optimal3" THEN 0 ELSE 1)
                    ELSE IF best.length >= 4 THEN Base ELSE fill.acceleration
           l     == CompressionLimit
           to    == AtMost(end, p + NiceLength)
           last  == LastOf(ms, MaxPerPos)
<1>1. Typed /\ InBlock
  BY DEF IInv
<1>2. /\ src \in Seq(Nat) /\ l \in Int /\ start \in Nat /\ end \in Nat /\ pos \in Nat
      /\ litStart \in Nat /\ Chosen
  BY SMTT(60), <1>1, Limits
<1>3. /\ phase = "fill" /\ p < end
      /\ UNCHANGED <<blockVars, tables, parseVars, acceleration, chunk, result, phase>>
      /\ \/ /\ ms # <<>> /\ best.length >= NiceLength
            /\ TreeIs(UpdateAll(found.tree, p + 1, to))
            /\ buffer' = [TailFilled(p, best) EXCEPT ![p] = last]
            /\ fill' = [fill EXCEPT !.at = AtMost(p + best.length, end)]
         \/ /\ TreeIs(found.tree)
            /\ buffer' = [buffer EXCEPT ![p] = last]
            /\ fill' = [at |-> AtMost(p + AtLeast(wait \div Base, 1), end), acceleration |-> wait]
  BY DEF FillNext
<1>4. /\ p \in Nat \ {0} /\ p >= start /\ fill.acceleration \in Nat /\ end <= l /\ Buffered
      /\ Finders \in FinderTo(p) /\ DOMAIN buffer = start .. (end - 1)
      /\ \A q \in DOMAIN buffer : buffer[q] \in Seq(Fits(q, end))
      /\ start < end /\ FirstPos <= pos /\ pos <= end /\ litStart <= pos
      /\ FirstPos \in Nat /\ p >= FirstPos
      /\ fill = [at |-> p, acceleration |-> fill.acceleration]
  <2>1. fill \in [at : Nat, acceleration : Nat]
    BY <1>1 DEF Typed
  <2>2. /\ p \in Nat /\ fill.acceleration \in Nat
        /\ fill = [at |-> p, acceleration |-> fill.acceleration]
    BY SMTT(60), <2>1
  <2>3. /\ start < end /\ end <= CompressionLimit
        /\ FirstPos <= pos /\ pos <= end /\ litStart <= pos
        /\ DOMAIN buffer = start .. (end - 1)
        /\ \A q \in DOMAIN buffer : buffer[q] \in Seq(Fits(q, end))
        /\ Buffered /\ fill.at \in FirstPos .. end /\ Finders \in FinderTo(fill.at)
    BY <1>1, <1>3 DEF InBlock
  <2>4. FirstPos \in Nat \ {0} /\ FirstPos >= start
    BY <1>2 DEF FirstPos
  <2>5. p \in Nat \ {0} /\ p >= start /\ p >= FirstPos
    BY <1>2, <2>2, <2>3, <2>4
  <2> QED
    BY <2>2, <2>3, <2>4, <2>5
<1>5. /\ p + 4 <= Len(src) /\ p < l /\ 3 \in Int /\ end \in Int
  <2>1. Len(src) \in Nat /\ Trail \in Nat /\ Trail >= 3 /\ l = Len(src) - Trail
    BY <1>2, LenProperties, SourceBytesAssumption DEF CompressionLimit
  <2>2. p \in Nat /\ end \in Nat /\ p < end /\ end <= l
    BY <1>2, <1>3, <1>4
  <2> QED
    BY <2>1, <2>2
<1>6. /\ tree \in Trees(p) /\ tables \in Tables(p)
  BY <1>4 DEF Finders, FinderTo
<1>7. found.tree \in Trees(p + 1) /\ ms \in Seq(Fits(p, end))
  <2>1. p \in Int /\ p <= p
    BY <1>4
  <2> QED
    BY <1>2, <1>4, <1>5, <1>6, <2>1, FindFinds
<1>8. ms # <<>> => best \in Fits(p, end)
  BY <1>7, ElementOfSeq, LenProperties, EmptySeq
<1>9. last \in Seq(Fits(p, end))
  <2>1. MaxPerPos \in Nat
    BY MatchTreeAssumption DEF MaxPerPos, AtMost
  <2> QED
    BY <1>7, <2>1, LastOfFits
<1>10. Base \in Nat \ {0} /\ NiceLength \in Nat
  BY BlockPlanAssumption, MatchTreeAssumption
<1> HIDE DEF p, found, ms, best, l, last
<1>11. PICK k \in Nat : /\ fill'.at = k /\ k \in (p + 1) .. end /\ fill' \in [at : Nat, acceleration : Nat]
                       /\ \E t \in Trees(k) : TreeIs(t)
  <2>1. CASE /\ ms # <<>> /\ best.length >= NiceLength
             /\ TreeIs(UpdateAll(found.tree, p + 1, to))
             /\ fill' = [fill EXCEPT !.at = AtMost(p + best.length, end)]
    <3>1. best.length \in Nat \ {0}
      BY <1>8, <2>1 DEF Fits, Match
    <3>2. PICK k \in Nat : k = AtMost(p + best.length, end) /\ k \in (p + 1) .. end
      BY SMTT(60), <1>2, <1>3, <1>4, <3>1 DEF AtMost, p
    <3>3. fill' = [at |-> k, acceleration |-> fill.acceleration]
      BY <1>4, <2>1, <3>2
    <3>4. p + 1 \in Nat \ {0} /\ p + 1 \in Int /\ p + 1 <= p + 1 /\ p + 1 <= k
          /\ to \in Int /\ to <= k /\ to <= CompressionLimit
      BY SMTT(120), <1>2, <1>4, <1>10, <2>1, <3>1, <3>2 DEF AtMost, l
    <3>5. UpdateAll(found.tree, p + 1, to) \in Trees(k)
      BY <1>2, <1>7, <3>4, UpdatesKeep
    <3> QED
      BY <1>4, <2>1, <3>2, <3>3, <3>5
  <2>2. CASE /\ TreeIs(found.tree)
             /\ fill' = [at |-> AtMost(p + AtLeast(wait \div Base, 1), end), acceleration |-> wait]
    <3>1. wait \in Nat
      BY <1>4, <1>10
    <3> HIDE DEF wait
    <3>2. wait \div Base \in Nat
      BY <1>10, <3>1, DivMod
    <3>3. PICK k \in Nat : k = AtMost(p + AtLeast(wait \div Base, 1), end) /\ k \in (p + 1) .. end
      BY SMTT(60), <1>2, <1>3, <1>4, <3>2 DEF AtMost, AtLeast, p
    <3>4. Trees(p + 1) \subseteq Trees(k)
      BY <1>4, <3>3, TreesMore
    <3> QED
      BY <1>7, <2>2, <3>1, <3>3, <3>4
  <2> QED
    BY <1>3, <2>1, <2>2
<1>12. Finders' \in FinderTo(k)'
  <2>1. src' = src
    BY <1>3 DEF blockVars
  <2>2. PICK t \in Trees(k) : TreeIs(t)
    BY <1>11
  <2>3. tables \in Tables(k)
    <3>1. Finders \in FinderTo(k)
      BY <1>4, <1>11, FinderMore
    <3> QED
      BY <3>1 DEF Finders, FinderTo
  <2>4. PICK f : f = [tree |-> t, tables |-> tables]
    OBVIOUS
  <2>5. f.tree \in Trees(k) /\ f.tables \in Tables(k) /\ FinderIs(f)
    BY <1>3, <2>2, <2>3, <2>4 DEF FinderIs
  <2> QED
    BY <2>1, <2>5, FindersMove
<1>13. DOMAIN buffer' = start .. (end - 1)
       /\ \A q \in DOMAIN buffer' : buffer'[q] \in Seq(Fits(q, end))
  <2>1. p \in start .. (end - 1)
    BY <1>2, <1>3, <1>4
  <2>2. CASE ms # <<>> /\ buffer' = [TailFilled(p, best) EXCEPT ![p] = last]
    <3>1. TailFilled(p, best)
            = [q \in start .. (end - 1) |->
                 IF p < q /\ q < p + best.length /\ best.length - (q - p) > 2
                 THEN <<[best EXCEPT !.length = @ - (q - p)]>> ELSE buffer[q]]
      BY DEF TailFilled
    <3>2. ASSUME NEW q \in start .. (end - 1)
          PROVE  TailFilled(p, best)[q] \in Seq(Fits(q, end))
      <4>1. q \in Nat /\ buffer[q] \in Seq(Fits(q, end))
        BY <1>2, <1>4
      <4>2. CASE p < q /\ q < p + best.length /\ best.length - (q - p) > 2
        <5>1. TailFilled(p, best)[q] = <<[best EXCEPT !.length = @ - (q - p)]>>
          BY <3>1, <4>2
        <5> QED
          BY <1>4, <1>8, <2>2, <4>1, <4>2, <5>1, TailFits
      <4>3. CASE ~(p < q /\ q < p + best.length /\ best.length - (q - p) > 2)
        <5>1. TailFilled(p, best)[q] = buffer[q]
          BY <3>1, <4>3
        <5> QED
          BY <4>1, <5>1
      <4> QED
        BY <4>2, <4>3
    <3>3. DOMAIN TailFilled(p, best) = start .. (end - 1)
      BY <3>1
    <3>4. DOMAIN buffer' = start .. (end - 1)
          /\ \A q \in start .. (end - 1) :
               buffer'[q] = IF q = p THEN last ELSE TailFilled(p, best)[q]
      BY <2>1, <2>2, <3>3
    <3> QED
      BY <1>9, <3>2, <3>4
  <2>3. CASE buffer' = [buffer EXCEPT ![p] = last]
    <3>1. DOMAIN buffer' = start .. (end - 1)
          /\ \A q \in start .. (end - 1) : buffer'[q] = IF q = p THEN last ELSE buffer[q]
      BY <1>4, <2>1, <2>3
    <3> QED
      BY <1>4, <1>9, <3>1
  <2> QED
    BY <1>3, <2>2, <2>3
<1>14. /\ UNCHANGED <<src, opts, start, end, begin, iteration, coding, pos, litStart, reps, steps,
                      acceleration, chunk, result, phase>>
       /\ CompressionLimit' = CompressionLimit /\ Buffered' = Buffered /\ FirstPos' = FirstPos
  BY <1>3 DEF blockVars, parseVars, CompressionLimit, Buffered, FirstPos
<1>15. Typed'
  BY <1>1, <1>11, <1>14 DEF Typed, Chosen
<1>16. InBlock'
  <2>1. /\ phase' = "fill" /\ start' < end' /\ end' <= CompressionLimit'
        /\ FirstPos' <= pos' /\ pos' <= end' /\ litStart' <= pos' /\ Buffered'
    BY <1>3, <1>4, <1>14 DEF l
  <2>5. PICK e, s, from, to1 : e = end /\ s = steps /\ from = FirstPos /\ to1 = litStart
    OBVIOUS
  <2>6. /\ \A q : Fits(q, e)' = Fits(q, e)
        /\ Plan(s, from, to1)' = Plan(s, from, to1)
    BY <1>14, RealStays
  <2>2. /\ DOMAIN buffer' = start' .. (end' - 1)
        /\ \A q \in DOMAIN buffer' : buffer'[q] \in Seq(Fits(q, end))'
    BY <1>13, <1>14, <2>5, <2>6
  <2>7. Plan(steps, FirstPos, litStart)'
    <3>1. Plan(s, from, to1)
      BY <1>1, <1>3, <2>5 DEF InBlock
    <3> QED
      BY <1>14, <2>5, <2>6, <3>1
  <2>3. Finders' \in FinderTo(fill.at)'
    BY <1>11, <1>12
  <2>4. fill'.at \in FirstPos' .. end'
    BY SMTT(60), <1>2, <1>4, <1>11, <1>14
  <2> QED
    BY <2>1, <2>2, <2>3, <2>4, <2>7 DEF InBlock
<1>17. Between' /\ InChunk' /\ Ended'
  BY <1>3, <1>14 DEF Between, InChunk, Ended
<1> QED
  BY <1>15, <1>16, <1>17 DEF IInv

(* What a step inside a block leaves of it.                                *)
LEMMA BlockStays ==
  ASSUME Typed, InBlock, phase \in {"fill", "parse", "expand", "take"},
         UNCHANGED <<blockVars, buffer>>,
         FirstPos <= pos', pos' <= end, litStart' <= pos', phase' \in {"parse", "expand", "take"},
         phase' = "parse" => Finders' \in FinderTo(Reach(pos))',
         UNCHANGED <<steps, litStart>> \/ Plan(steps, FirstPos, litStart)'
  PROVE  InBlock'
<1>1. /\ start < end /\ end <= CompressionLimit /\ DOMAIN buffer = start .. (end - 1)
      /\ \A p \in DOMAIN buffer : buffer[p] \in Seq(Fits(p, end))
  BY DEF InBlock
<1>2. src' = src /\ start' = start /\ end' = end /\ buffer' = buffer
  BY DEF blockVars
<1>3. CompressionLimit' = CompressionLimit /\ FirstPos' = FirstPos
  BY <1>2 DEF CompressionLimit, FirstPos
<1>4. phase' # "fill"
  OBVIOUS
<1>5. \A p \in DOMAIN buffer' : buffer'[p] \in Seq(Fits(p, end))'
  <2> TAKE p \in DOMAIN buffer'
  <2>1. PICK e : e = end
    OBVIOUS
  <2>2. Fits(p, e)' = Fits(p, e)
    BY <1>2, RealStays
  <2> QED
    BY <1>1, <1>2, <2>1, <2>2
<1>6. Plan(steps, FirstPos, litStart)'
  <2>1. CASE UNCHANGED <<steps, litStart>>
    <3>1. PICK list, from, to : list = steps /\ from = FirstPos /\ to = litStart
      OBVIOUS
    <3>2. Plan(list, from, to)' = Plan(list, from, to)
      BY <1>2, RealStays
    <3>3. Plan(list, from, to)
      BY <3>1 DEF InBlock
    <3>4. list = steps' /\ from = FirstPos' /\ to = litStart'
      BY <1>3, <2>1, <3>1
    <3> QED
      BY <3>2, <3>3, <3>4
  <2> QED
    BY <2>1
<1> QED
  BY <1>1, <1>2, <1>3, <1>4, <1>5, <1>6 DEF InBlock

(* The buffer is full: the tree has all positions there are.               *)
LEMMA FillDoneKeeps ==
  ASSUME IInv, FillDone
  PROVE  IInv'
<1>1. Typed /\ InBlock
  BY DEF IInv
<1>2. /\ phase = "fill" /\ fill' = NoFill /\ phase' = "parse"
      /\ UNCHANGED <<blockVars, treeVars, tables, buffer, parseVars, acceleration, chunk, result>>
  BY DEF FillDone
<1>3. /\ UNCHANGED <<src, opts, start, end, begin, iteration, coding, pos, litStart, reps, steps,
                     acceleration>>
      /\ UNCHANGED <<blockVars, buffer>> /\ UNCHANGED <<treeVars, tables>>
  BY <1>2 DEF blockVars, parseVars
<1>4. /\ Buffered /\ FirstPos <= pos /\ pos <= end /\ litStart <= pos
      /\ fill.at \in FirstPos .. end /\ Finders \in FinderTo(fill.at)
  BY <1>1, <1>2 DEF InBlock
<1>5. Typed'
  BY <1>1, <1>2, <1>3, BlockPlanAssumption DEF Typed, NoFill, Chosen
<1>6. Finders' \in FinderTo(Reach(pos))'
  <2>1. PICK k \in Int : k = end /\ Finders \in FinderTo(k)
    <3>1. fill.at \in Int /\ end \in Int /\ fill.at <= end
      BY <1>1, <1>4, Limits DEF Typed
    <3> QED
      BY <1>4, <3>1, FinderMore
  <2>2. Finders' \in FinderTo(k)'
    BY <1>3, <2>1, FindersStay
  <2>3. Reach(pos)' = k
    BY <1>3, <1>4, <2>1 DEF Reach, Buffered
  <2> QED
    BY <2>2, <2>3
<1>7. InBlock'
  <2>1. /\ FirstPos <= pos' /\ pos' <= end /\ litStart' <= pos'
        /\ phase' \in {"parse", "expand", "take"}
        /\ phase \in {"fill", "parse", "expand", "take"}
    BY <1>2, <1>3, <1>4
  <2> QED
    BY <1>1, <1>3, <1>6, <2>1, BlockStays
<1>8. Between' /\ InChunk' /\ Ended'
  BY <1>2 DEF Between, InChunk, Ended
<1> QED
  BY <1>5, <1>7, <1>8 DEF IInv

(* What both ways out of a turn leave alone.                               *)
LEMMA TurnTyped ==
  ASSUME Typed, UNCHANGED <<blockVars, buffer, fill, parseVars>>, acceleration' \in Nat,
         phase' \in {"expand", "take"}
  PROVE  Typed'
<1>1. UNCHANGED <<src, opts, start, end, begin, iteration, coding, pos, litStart, reps, steps, fill>>
  BY DEF blockVars, parseVars
<1> QED
  BY <1>1 DEF Typed, Chosen

(* A turn that goes on to the next position.                               *)
LEMMA GoOnKeeps ==
  ASSUME IInv, phase = "expand", chunk.at < chunk.to, NEW arrivals \in Followed(LastPlace), NEW f,
         f.tree \in Trees(Reach(chunk.at + 1)), f.tables \in Tables(Reach(chunk.at + 1)),
         NEW skip \in Nat, NEW wait \in Nat, GoOn(arrivals, skip, f, wait),
         UNCHANGED <<blockVars, buffer, fill, parseVars>>
  PROVE  IInv'
<1>1. Typed /\ InBlock /\ InChunk
  BY DEF IInv
<1>2. /\ FinderIs(f) /\ acceleration' = wait /\ result' = result /\ phase' = "expand"
      /\ chunk' = [chunk EXCEPT !.at = @ + 1, !.arrivals = arrivals, !.skip = skip]
  BY DEF GoOn
<1>3. /\ UNCHANGED <<src, opts, start, end, begin, iteration, coding, pos, litStart, reps, steps>>
      /\ UNCHANGED <<blockVars, buffer>>
  BY DEF blockVars, parseVars
<1>4. Typed'
  BY <1>1, <1>2, TurnTyped
<1>5. InBlock'
  <2>1. FirstPos <= pos /\ pos <= end /\ litStart <= pos
    BY <1>1 DEF InBlock
  <2>2. /\ FirstPos <= pos' /\ pos' <= end /\ litStart' <= pos'
        /\ phase' \in {"parse", "expand", "take"} /\ phase' # "parse"
        /\ phase \in {"fill", "parse", "expand", "take"}
    BY <1>2, <1>3, <2>1
  <2> QED
    BY <1>1, <1>3, <2>2, BlockStays
<1>6. InChunk'
  <2>1. /\ chunk \in [from : Nat, to : Nat, known : Nat, at : Nat, reps : Reps, skip : Nat,
                      arrivals : Places(LastPlace)]
        /\ chunk.from = pos /\ pos < chunk.to /\ chunk.to <= chunk.known
        /\ chunk.known = AtMost(end, chunk.to + Nice)
        /\ chunk.to - pos <= ChunkSize + 1
        /\ chunk.at \in pos .. chunk.to
        /\ chunk.arrivals \in Followed(LastPlace)
    BY <1>1 DEF InChunk, LastPlace
  <2>14. LastPlace \in Nat /\ Index \in 0 .. LastPlace /\ arrivals \in Places(LastPlace)
    <3>1. Ready
      BY <1>1, Turning
    <3>2. LastPlace \in Nat /\ Index \in 0 .. LastPlace
      BY <3>1, Bounds
    <3> QED
      BY <3>2, FollowedAre
  <2>2. PICK n, k : n = LastPlace /\ k = Reach(chunk.at + 1)
    OBVIOUS
  <2>13. chunk'.from = chunk.from
    BY <1>2, <2>1
  <2>3. Places(n)' = Places(n) /\ Nice' = Nice
    BY <1>3, <2>13, PlacesStay
  <2>4. Finders' \in FinderTo(k)'
    BY <1>2, <1>3, <2>2, FindersMove
  <2>5. chunk' = [from |-> chunk.from, to |-> chunk.to, known |-> chunk.known,
                  at |-> chunk.at + 1, reps |-> chunk.reps, skip |-> skip, arrivals |-> arrivals]
    <3> HIDE DEF Reps, Places
    <3> QED
      BY <1>2, <2>1
  <2>6. chunk'.known - chunk'.from = n
    BY <2>2, <2>5 DEF LastPlace
  <2>7. Reach(chunk.at)' = k
    BY <1>3, <2>2, <2>5 DEF Reach, Buffered
  <2>8. /\ chunk.from \in Nat /\ chunk.to \in Nat /\ chunk.known \in Nat /\ chunk.at \in Nat
        /\ chunk.reps \in Reps
    <3> HIDE DEF Reps, Places
    <3> QED
      BY <2>1
  <2>9. chunk.at + 1 \in Nat /\ chunk.at + 1 \in pos .. chunk.to
    BY SMTT(60), <1>1, <2>1, <2>8 DEF Typed
  <2>10. chunk' \in [from : Nat, to : Nat, known : Nat, at : Nat, reps : Reps, skip : Nat,
                     arrivals : Places(n)]
    <3> HIDE DEF Reps, Places
    <3> QED
      BY <2>2, <2>5, <2>8, <2>9, <2>14
  <2>11. chunk' \in [from : Nat, to : Nat, known : Nat, at : Nat, reps : Reps, skip : Nat,
                     arrivals : Places(chunk.known - chunk.from)]'
    BY <2>3, <2>6, <2>10
  <2>12. /\ chunk'.from = pos' /\ pos' < chunk'.to /\ chunk'.to <= chunk'.known
         /\ chunk'.known = AtMost(end', chunk'.to + Nice')
         /\ chunk'.to - pos' <= ChunkSize + 1
         /\ chunk'.at \in pos' .. chunk'.to
    BY <1>3, <2>1, <2>3, <2>5, <2>9
  <2>15. chunk'.arrivals \in Followed(chunk.known - chunk.from)'
    <3>1. arrivals \in Followed(n)'
      <4>1. /\ chunk'.from = chunk.from /\ chunk'.at = chunk.at + 1 /\ chunk'.reps = chunk.reps
            /\ chunk'.arrivals = arrivals /\ n \in Nat /\ Index \in 0 .. n
            /\ arrivals \in Followed(n)
        BY <2>2, <2>5, <2>14
      <4> QED
        BY <1>3, <2>8, <4>1, FollowedMove
    <3> QED
      BY <2>5, <2>6, <3>1
  <2> QED
    BY <2>4, <2>7, <2>11, <2>12, <2>15 DEF InChunk
<1>7. Between' /\ Ended'
  BY <1>2 DEF Between, Ended
<1> QED
  BY <1>4, <1>5, <1>6, <1>7 DEF IInv

(* A turn that ends its chunk.                                             *)
LEMMA EndChunkKeeps ==
  ASSUME IInv, phase = "expand", NEW yields, yields.steps \in Seq(Step),
         Tiles(yields.steps, pos),
         \A i \in DOMAIN yields.steps : /\ yields.steps[i].pos + yields.steps[i].length <= end
                                        /\ RealStep(yields.steps[i]),
         yields.consumed \in (pos + 1) .. end, NEW f,
         f.tree \in Trees(Reach(yields.consumed)), f.tables \in Tables(Reach(yields.consumed)),
         NEW wait \in Nat, EndChunk(f, wait, yields),
         UNCHANGED <<blockVars, buffer, fill, parseVars>>
  PROVE  IInv'
<1>1. Typed /\ InBlock
  BY DEF IInv
<1>2. FinderIs(f) /\ acceleration' = wait /\ result' = yields /\ phase' = "take"
  BY DEF EndChunk
<1>3. /\ UNCHANGED <<src, opts, start, end, begin, iteration, coding, pos, litStart, reps, steps>>
      /\ UNCHANGED <<blockVars, buffer>>
  BY DEF blockVars, parseVars
<1>4. Typed'
  BY <1>1, <1>2, TurnTyped
<1>5. InBlock'
  <2>1. FirstPos <= pos /\ pos <= end /\ litStart <= pos
    BY <1>1 DEF InBlock
  <2>2. /\ FirstPos <= pos' /\ pos' <= end /\ litStart' <= pos'
        /\ phase' \in {"parse", "expand", "take"} /\ phase' # "parse"
        /\ phase \in {"fill", "parse", "expand", "take"}
    BY <1>2, <1>3, <2>1
  <2> QED
    BY <1>1, <1>3, <2>2, BlockStays
<1>6. Finders' \in FinderTo(Reach(result.consumed))'
  <2>1. PICK k : k = Reach(yields.consumed)
    OBVIOUS
  <2>2. Finders' \in FinderTo(k)'
    BY <1>2, <1>3, <2>1, FindersMove
  <2>3. Reach(result.consumed)' = k
    BY <1>2, <1>3, <2>1 DEF Reach, Buffered
  <2> QED
    BY <2>2, <2>3
<1>9. \A i \in DOMAIN result'.steps : RealStep(result.steps[i])'
  <2> TAKE i \in DOMAIN result'.steps
  <2>1. PICK s : s = yields.steps[i]
    OBVIOUS
  <2>2. RealStep(s)' /\ s = result'.steps[i]
    BY <1>2, <1>3, <2>1, RealStays
  <2> QED
    BY <2>2
<1>7. Ended'
  BY <1>2, <1>3, <1>6, <1>9 DEF Ended, Tiles
<1>8. Between' /\ InChunk'
  BY <1>2 DEF Between, InChunk
<1> QED
  BY <1>4, <1>5, <1>7, <1>8 DEF IInv

(* Before a chunk only its first place has an arrival.                     *)
Starting(n, c) ==
  [i \in 0 .. n |-> [path \in 1 .. MaxArrivals |->
     IF i = 0 /\ path = 1 THEN [NoArrival EXCEPT !.cost = c, !.reps = reps] ELSE NoArrival]]

LEMMA FirstArrival ==
  ASSUME Chosen, reps \in Reps, NEW n \in Nat, NEW c \in Nat, c <= MostCost(0)
  PROVE  Starting(n, c)
           \in {f \in Places(n) :
                 \A i \in 0 .. n : \A path \in 1 .. MaxArrivals :
                   /\ f[i][path].len = 0
                   /\ \/ f[i][path].cost = Infinite
                      \/ i = 0 /\ f[i][path].run = 0 /\ f[i][path].reps = reps}
<1> DEFINE first == [NoArrival EXCEPT !.cost = c, !.reps = reps]
           g == [i \in 0 .. n |-> [path \in 1 .. MaxArrivals |->
                   IF i = 0 /\ path = 1 THEN first ELSE NoArrival]]
<1>1. Infinite \in Nat
  BY CostAssumption
<1>2. <<0, 0, 0>> \in Reps
  BY DEF Reps
<1>3. \A i \in Nat : NoArrival \in Place(i)
  BY <1>1, <1>2 DEF NoArrival, Place, Arrival
<1>5. first \in Place(0)
  <2>2. PICK x \in Arrival : x = NoArrival
    BY <1>3 DEF Place
  <2>1. PICK k \in Int : k = c
    OBVIOUS
  <2>3. first = [x EXCEPT !.cost = k, !.reps = reps]
    BY <2>1, <2>2
  <2>4. x.prev = 0 /\ x.len = 0 /\ x.run = 0
    BY <2>2 DEF NoArrival
  <2> HIDE DEF first
  <2>5. first \in Arrival
    BY <2>3 DEF Arrival
  <2>6. first.cost = c /\ first.prev = 0 /\ first.len = 0 /\ first.run = 0
    BY <2>1, <2>3, <2>4 DEF Arrival
  <2>7. first.cost <= MostCost(0) /\ 0 \in Nat
    BY <2>6
  <2> QED
    BY <2>5, <2>6, <2>7 DEF Place
<1>6. \A i \in 0 .. n : g[i] \in [1 .. MaxArrivals -> Place(i)]
  <2> TAKE i \in 0 .. n
  <2> HIDE DEF first, NoArrival, Place, MaxArrivals
  <2>1. NoArrival \in Place(i) /\ (i = 0 => first \in Place(i))
    BY <1>3, <1>5
  <2> QED
    BY <2>1
<1>7. g = [i \in 0 .. n |-> g[i]]
  OBVIOUS
<1>8. g \in Places(n)
  BY <1>6, <1>7, PlacesAre
<1>9. /\ first.len = 0 /\ NoArrival.len = 0
      /\ NoArrival.cost = Infinite /\ first.run = 0 /\ first.reps = reps
  BY DEF NoArrival
<1>10. \A i \in 0 .. n : \A path \in 1 .. MaxArrivals :
         /\ g[i][path].len = 0
         /\ \/ g[i][path].cost = Infinite
            \/ i = 0 /\ g[i][path].run = 0 /\ g[i][path].reps = reps
  <2> HIDE DEF first, NoArrival
  <2> QED
    BY <1>9
<1> HIDE DEF g
<1>11. g \in {f \in Places(n) :
                 \A i \in 0 .. n : \A path \in 1 .. MaxArrivals :
                   /\ f[i][path].len = 0
                   /\ \/ f[i][path].cost = Infinite
                      \/ i = 0 /\ f[i][path].run = 0 /\ f[i][path].reps = reps}
  BY <1>8, <1>10
<1> QED
  BY <1>11 DEF g, Starting

(* A chunk begins.                                                         *)
LEMMA StartChunkKeeps ==
  ASSUME IInv, StartChunk
  PROVE  IInv'
<1> DEFINE to    == pos + AtMost(ChunkSize + (IF opts.parser = "optimal1" THEN 1 ELSE 0), end - pos)
           known == AtMost(end, to + Nice)
           n     == known - pos
           cost  == (IF opts.parser = "optimal1" THEN 4 ELSE 64) * CostScale
           first == [i \in 0 .. n |-> [path \in 1 .. MaxArrivals |->
                       IF i = 0 /\ path = 1
                       THEN [NoArrival EXCEPT !.cost = cost, !.reps = reps]
                       ELSE NoArrival]]
<1>1. Typed /\ InBlock
  BY DEF IInv
<1>2. /\ phase = "parse" /\ pos < end /\ phase' = "expand"
      /\ chunk' = [from |-> pos, to |-> to, known |-> known, at |-> pos, reps |-> reps, skip |-> 0,
                   arrivals |-> first]
      /\ UNCHANGED <<blockVars, treeVars, tables, buffer, fill, parseVars, acceleration, result>>
  BY DEF StartChunk
<1>3. /\ UNCHANGED <<src, opts, start, end, begin, iteration, coding, pos, litStart, reps, steps, fill,
                     acceleration>>
      /\ UNCHANGED <<blockVars, buffer>> /\ UNCHANGED <<treeVars, tables>>
      /\ UNCHANGED <<blockVars, buffer, fill, parseVars>>
  BY <1>2 DEF blockVars, parseVars
<1>4. /\ FirstPos <= pos /\ pos <= end /\ litStart <= pos /\ Finders \in FinderTo(Reach(pos))
  BY <1>1, <1>2 DEF InBlock
<1>5. /\ Chosen /\ pos \in Nat /\ end \in Nat /\ reps \in Reps /\ acceleration \in Nat
      /\ ChunkSize \in Nat \ {0} /\ Nice \in Nat \ {0, 1}
  BY <1>1, Widths DEF Typed
<1>6. /\ to \in Nat /\ known \in Nat /\ n \in Nat
      /\ pos < to /\ to <= known /\ to - pos <= ChunkSize + 1
  <2>1. PICK c \in Nat \ {0} :
          to = pos + AtMost(c, end - pos) /\ c <= ChunkSize + 1
    BY <1>5
  <2>2. pos < end /\ pos \in Nat /\ end \in Nat /\ ChunkSize \in Nat
    BY <1>2, <1>5
  <2> HIDE DEF to
  <2>3. to \in Nat /\ pos < to /\ to <= end /\ to - pos <= ChunkSize + 1
    BY <2>1, <2>2 DEF AtMost
  <2>4. known \in Nat /\ to <= known
    BY <1>5, <2>2, <2>3 DEF AtMost
  <2> QED
    BY <2>2, <2>3, <2>4
<1>7. /\ first \in Places(n)
      /\ \A i \in 0 .. n : \A path \in 1 .. MaxArrivals :
           /\ first[i][path].len = 0
           /\ \/ first[i][path].cost = Infinite
              \/ i = 0 /\ first[i][path].run = 0 /\ first[i][path].reps = reps
  <2>1. cost \in Nat /\ cost <= MostCost(0)
    <3>1. CostScale \in Nat /\ MostStep \in Nat
      BY OptimalParseAssumption, CostGrows
    <3>2. PICK k \in {4, 64} : cost = k * CostScale
      OBVIOUS
    <3>3. MostCost(0) = 64 * CostScale
      BY <3>1 DEF MostCost
    <3> HIDE DEF cost
    <3> QED
      BY <3>1, <3>2, <3>3
  <2> HIDE DEF n, cost
  <2>2. PICK k \in Nat, l \in Nat : k = cost /\ l = n /\ k <= MostCost(0)
    BY <1>6, <2>1
  <2>3. Starting(l, k) \in {f \in Places(l) :
                 \A i \in 0 .. l : \A path \in 1 .. MaxArrivals :
                   /\ f[i][path].len = 0
                   /\ \/ f[i][path].cost = Infinite
                      \/ i = 0 /\ f[i][path].run = 0 /\ f[i][path].reps = reps}
    BY <1>5, <2>2, FirstArrival
  <2>4. first = Starting(l, k) /\ l = n
    BY <2>2 DEF Starting
  <2> HIDE DEF first
  <2> QED
    BY <2>3, <2>4
<1> HIDE DEF to, n, first
<1>8. Typed'
  BY <1>1, <1>2, <1>3, <1>5, TurnTyped
<1>9. InBlock'
  <2>1. /\ FirstPos <= pos' /\ pos' <= end /\ litStart' <= pos'
        /\ phase' \in {"parse", "expand", "take"} /\ phase' # "parse"
        /\ phase \in {"fill", "parse", "expand", "take"}
    BY <1>2, <1>3, <1>4
  <2> QED
    BY <1>1, <1>3, <2>1, BlockStays
<1>10. InChunk'
  <2>1. PICK m, k, a : m = n /\ k = Reach(pos) /\ a = first
    OBVIOUS
  <2>2. a \in Places(m)' /\ Nice' = Nice /\ MaxArrivals' = MaxArrivals
    BY <1>3, <1>7, <2>1, LiteralsStay
  <2>11. a \in Followed(m)'
    <3>1. \A i \in 0 .. m : \A path \in 1 .. MaxArrivals :
            a[i][path].cost = Infinite \/ Follows(a[i][path], i)'
      <4>1. chunk'.reps = reps
        BY <1>2
      <4>2. \A x : x.run = 0 /\ x.reps = reps => Follows(x, 0)'
        BY <4>1 DEF Follows
      <4> QED
        BY <1>7, <2>1, <4>2
    <3>2. chunk'.arrivals = a
      BY <1>2, <2>1
    <3> QED
      BY <2>2, <3>1, <3>2 DEF Followed
  <2>3. Finders' \in FinderTo(k)'
    BY <1>3, <1>4, <2>1, FindersStay
  <2>4. Reach(chunk.at)' = k
    BY <1>2, <1>3, <2>1 DEF Reach, Buffered
  <2>5. chunk'.known - chunk'.from = m
    BY <1>2, <2>1 DEF n
  <2> HIDE DEF known
  <2>6. chunk' \in [from : Nat, to : Nat, known : Nat, at : Nat, reps : Reps, skip : Nat,
                    arrivals : {a}]
    <3> HIDE DEF Reps, Places
    <3> QED
      BY <1>2, <1>5, <1>6, <2>1
  <2>7. chunk' \in [from : Nat, to : Nat, known : Nat, at : Nat, reps : Reps, skip : Nat,
                    arrivals : Places(chunk.known - chunk.from)]'
    BY <2>2, <2>5, <2>6
  <2>8. chunk'.at \in pos' .. chunk'.to
    BY <1>2, <1>3, <1>5, <1>6
  <2>9. /\ chunk'.from = pos' /\ pos' < chunk'.to /\ chunk'.to <= chunk'.known
        /\ chunk'.to - pos' <= ChunkSize + 1
    BY <1>2, <1>3, <1>6
  <2>10. chunk'.known = AtMost(end', chunk'.to + Nice')
    BY <1>2, <1>3, <2>2 DEF known
  <2>12. chunk'.arrivals \in Followed(chunk.known - chunk.from)'
    <3>1. chunk'.arrivals = a
      BY <1>2, <2>1
    <3> QED
      BY <2>5, <2>11, <3>1
  <2> QED
    BY <2>3, <2>4, <2>12, <2>7, <2>8, <2>9, <2>10 DEF InChunk
<1>11. Between' /\ Ended'
  BY <1>2 DEF Between, Ended
<1> QED
  BY <1>8, <1>9, <1>10, <1>11 DEF IInv

-----------------------------------------------------------------------------
(* The positions of a chunk, by either parser.                             *)

(* A finder that has no position from k on.                                *)
Behind(f, k) == f.tree \in Trees(Reach(k)) /\ f.tables \in Tables(Reach(k))

(* A finder behind k is behind l.                                          *)
LEMMA BehindMore ==
  ASSUME end \in Nat, NEW k \in Int, NEW l \in Int, k <= l, NEW f, Behind(f, k)
  PROVE  Behind(f, l)
<1>1. [tree |-> f.tree, tables |-> f.tables] \in FinderTo(Reach(k))
  BY DEF Behind, FinderTo
<1>2. [tree |-> f.tree, tables |-> f.tables] \in FinderTo(Reach(l))
  BY <1>1, Reaches
<1> QED
  BY <1>2 DEF Behind, FinderTo

(* A position that is passed is in the finder.                             *)
LEMMA PassedBehind ==
  ASSUME Ready
  PROVE  /\ Behind(Passed(chunk.at), chunk.at + 1)
         /\ Passed(chunk.at) \in FinderTo(Reach(chunk.at + 1)) \union
              [tree : Trees(Reach(chunk.at + 1)), tables : Tables(Reach(chunk.at + 1)),
               matches : Seq(Fits(chunk.at, end))]
<1>1. PICK j \in Nat \ {0}, k \in Nat, Q \in {Seq(Fits(chunk.at, end))} :
        j = chunk.at /\ k = chunk.at + 1 /\ Q = Seq(Fits(chunk.at, end))
  BY Bounds
<1>2. Finders \in FinderTo(Reach(j))
  BY <1>1 DEF Ready
<1>3. PICK f : f = Finders
  OBVIOUS
<1>4. f \in FinderTo(Reach(j)) \union
              [tree : Trees(Reach(j)), tables : Tables(Reach(j)), matches : Q]
  BY <1>2, <1>3
<1>5. /\ src \in Seq(Nat) /\ Chosen /\ end \in Nat /\ end <= CompressionLimit
      /\ j \in Int /\ k \in Int /\ j <= j /\ j <= k /\ k <= k /\ k <= end
  <2>1. /\ src \in Seq(Nat) /\ end \in Nat /\ end <= CompressionLimit /\ Chosen
        /\ chunk.known \in Nat /\ chunk.at + 1 <= chunk.known /\ chunk.known <= end
    BY Bounds
  <2> QED
    BY <1>1, <2>1
<1>6. CompressionLimit \in Int
  BY <1>5, LenProperties, SourceBytesAssumption DEF CompressionLimit
<1>7. PassedAll(f, j, k) \in FinderTo(Reach(k)) \union
        [tree : Trees(Reach(k)), tables : Tables(Reach(k)), matches : Q]
  <2>1. k <= CompressionLimit
    BY <1>5, <1>6
  <2> QED
    BY <1>4, <1>5, <2>1, PassedKeeps, Zenon
<1>8. Passed(chunk.at) = PassedAll(f, j, k)
  BY <1>1, <1>3 DEF Passed
<1> QED
  BY <1>1, <1>7, <1>8 DEF Behind, FinderTo

(* What the finder yields for the position.                                *)
LEMMA FoundBehind ==
  ASSUME Ready, NEW minimum \in Int
  PROVE  /\ Matches(chunk.at, minimum).matches \in Seq(Fits(chunk.at, end))
         /\ Behind(Matches(chunk.at, minimum), chunk.at + 1)
         /\ Matches(chunk.at, minimum) \in FinderTo(Reach(chunk.at + 1)) \union
              [tree : Trees(Reach(chunk.at + 1)), tables : Tables(Reach(chunk.at + 1)),
               matches : Seq(Fits(chunk.at, end))]
<1>1. chunk.at \in Nat \ {0} /\ chunk.at < end
  BY SMTT(60), Bounds
<1>2. Matches(chunk.at, minimum) \in Found(chunk.at)
  BY <1>1, MatchesFit DEF Ready
<1> QED
  BY <1>2 DEF Found, Behind

(* The positions of the match that ends a chunk.                           *)
LEMMA OverlappedBehind ==
  ASSUME Ready, NEW f,
         f \in FinderTo(Reach(chunk.at + 1)) \union
              [tree : Trees(Reach(chunk.at + 1)), tables : Tables(Reach(chunk.at + 1)),
               matches : Seq(Fits(chunk.at, end))],
         NEW p \in Nat, opts.parser = "optimal1" \/ p = chunk.at,
         NEW m, m.length \in Nat, m.distance \in Nat, chunk.at + 1 <= p + m.length
  PROVE  Behind(Overlapped(f, p, m), p + m.length)
<1>1. PICK k \in Int, l \in Int, Q \in {Seq(Fits(chunk.at, end))} :
        l = chunk.at + 1 /\ k = p + m.length /\ Q = Seq(Fits(chunk.at, end)) /\ l <= k
  <2>1. chunk.at + 1 \in Int
    <3>1. chunk.at + 1 \in Nat
      BY Bounds
    <3> QED
      BY <3>1
  <2>2. p + m.length \in Int
    OBVIOUS
  <2> QED
    BY <2>1, <2>2
<1>2. f \in FinderTo(Reach(l)) \union
              [tree : Trees(Reach(l)), tables : Tables(Reach(l)), matches : Q]
  BY <1>1
<1>3. /\ src \in Seq(Nat) /\ Chosen /\ end \in Nat /\ end <= CompressionLimit
      /\ p + m.length <= k /\ (opts.parser = "optimal1" \/ l <= p + 1)
  BY SMTT(150), <1>1, Bounds
<1>4. Overlapped(f, p, m) \in FinderTo(Reach(k)) \union
        [tree : Trees(Reach(k)), tables : Tables(Reach(k)), matches : Q]
  <2>1. k \in Int /\ l \in Int /\ l <= k
    BY <1>1
  <2>2. p \in Nat /\ m.length \in Nat /\ m.distance \in Nat
    OBVIOUS
  <2> QED
    BY <1>2, <1>3, <2>1, <2>2, OverlappedKeeps, Zenon
<1> QED
  BY <1>1, <1>4 DEF Behind, FinderTo

(* A match ends a chunk: the steps lead to it, and all is passed.          *)
LEMMA MatchEnds ==
  ASSUME IInv, Ready, phase = "expand", chunk.from = pos, NEW wait \in Nat,
         NEW f,
         f \in FinderTo(Reach(chunk.at + 1)) \union
              [tree : Trees(Reach(chunk.at + 1)), tables : Tables(Reach(chunk.at + 1)),
               matches : Seq(Fits(chunk.at, end))],
         NEW arrivals \in Places(LastPlace), NEW at \in Nat, at - chunk.from \in 0 .. LastPlace,
         opts.parser = "optimal1" \/ at = chunk.at,
         NEW path \in 1 .. MaxArrivals, NEW m, m.length \in Nat, m.length >= 2,
         m.distance \in Nat, at + m.length <= end, chunk.at + 1 <= at + m.length,
         Real(at, m.length, m.distance),
         EndChunk(Overlapped(f, at, m), wait, EndsWith(arrivals, at, path, m)),
         UNCHANGED <<blockVars, buffer, fill, parseVars>>
  PROVE  IInv'
<1>1. PICK yields, g : yields = EndsWith(arrivals, at, path, m) /\ g = Overlapped(f, at, m)
  OBVIOUS
<1>2. /\ Chosen /\ chunk.from \in Nat /\ LastPlace \in Nat /\ end \in Nat
      /\ chunk.at \in Nat /\ chunk.from <= chunk.at
  BY Bounds
<1>3. /\ yields.steps \in Seq(Step) /\ Tiles(yields.steps, chunk.from)
      /\ \A j \in DOMAIN yields.steps : /\ yields.steps[j].pos + yields.steps[j].length <= end
                                         /\ RealStep(yields.steps[j])
      /\ yields.consumed = at + m.length
  BY SMTT(60), <1>1, <1>2, EndsFit
<1>4. Behind(g, yields.consumed)
  BY <1>1, <1>3, OverlappedBehind
<1>5. yields.consumed \in (pos + 1) .. end
  BY SMTT(60), <1>2, <1>3
<1>6. EndChunk(g, wait, yields)
  BY <1>1
<1> QED
  BY <1>3, <1>4, <1>5, <1>6, EndChunkKeeps DEF Behind

(* A chunk ends because nothing has been found for long.                   *)
LEMMA NothingEnds ==
  ASSUME IInv, Ready, phase = "expand", chunk.from = pos, NEW wait \in Nat,
         NEW f, Behind(f, chunk.at + 1), NEW arrivals \in Places(LastPlace),
         opts.parser # "optimal1" \/ arrivals[Index + 1][1].cost < Infinite,
         EndChunk(f, wait, Finished(arrivals, Index + 1, 0)),
         UNCHANGED <<blockVars, buffer, fill, parseVars>>
  PROVE  IInv'
<1>1. PICK yields, i : yields = Finished(arrivals, i, 0) /\ i = Index + 1
  OBVIOUS
<1>2. /\ Chosen /\ chunk.from \in Nat /\ chunk.known \in Nat /\ LastPlace \in Nat
      /\ end \in Nat /\ chunk.from + LastPlace = chunk.known /\ i \in 0 .. LastPlace
      /\ chunk.at \in Nat /\ chunk.from <= chunk.at /\ chunk.known <= end
      /\ chunk.from + i = chunk.at + 1 /\ src \in Seq(Nat)
  BY SMTT(60), <1>1, Bounds
<1>3. /\ yields.steps \in Seq(Step) /\ Tiles(yields.steps, chunk.from)
      /\ \A j \in DOMAIN yields.steps :
           yields.steps[j].pos + yields.steps[j].length <= chunk.known /\ RealStep(yields.steps[j])
      /\ yields.consumed \in (chunk.from + i) .. chunk.known
  <2>1. 0 \in Nat /\ (opts.parser # "optimal1" \/ arrivals[i][1].cost < Infinite)
    BY <1>1
  <2> QED
    BY ZenonT(60), <1>1, <1>2, <2>1, FinishedFits
<1>4. \A j \in DOMAIN yields.steps : yields.steps[j].pos + yields.steps[j].length <= end
  <2> TAKE j \in DOMAIN yields.steps
  <2>1. yields.steps[j] \in Step /\ yields.steps[j].pos + yields.steps[j].length <= chunk.known
    BY <1>3, ElementOfSeq, LenProperties
  <2>2. yields.steps[j].pos \in Nat /\ yields.steps[j].length \in Nat
    BY <2>1 DEF Step
  <2> QED
    BY SMTT(60), <1>2, <2>1, <2>2
<1>5. yields.consumed \in (pos + 1) .. end /\ yields.consumed \in Int
      /\ chunk.at + 1 \in Int /\ chunk.at + 1 <= yields.consumed
  BY SMTT(60), <1>2, <1>3
<1>6. Behind(f, yields.consumed)
  BY <1>2, <1>5, BehindMore
<1>7. EndChunk(f, wait, yields)
  BY <1>1
<1> QED
  BY <1>3, <1>4, <1>5, <1>6, <1>7, EndChunkKeeps DEF Behind

(* A position of optimal2 or optimal3.                                     *)
LEMMA ExpandPositionKeeps ==
  ASSUME IInv, ExpandPosition
  PROVE  IInv'
<1> DEFINE w     == Tried
           found == Matches(chunk.at, w.expected)
           ms    == found.matches
           best  == ms[Len(ms)]
           wait  == w.acceleration + (IF opts.parser = "optimal3" THEN 0 ELSE 1)
           none  == chunk.arrivals[Index][1].cost = Infinite
           long  == w.match.length > 0
           dear  == Pruned(w.arrivals[Index][1].cost, w.arrivals[Index + 1][1].cost,
                           CostScale * (MaxArrivals \div 8))
           after == IF best.length >= 4 THEN Base ELSE w.acceleration
<1>1. /\ phase = "expand" /\ chunk.at < chunk.to /\ opts.parser # "optimal1"
      /\ UNCHANGED <<blockVars, buffer, fill, parseVars>>
  BY DEF ExpandPosition, Turn
<1>2. \/ none /\ GoOn(chunk.arrivals, 0, Passed(chunk.at), acceleration)
      \/ long /\ EndChunk(Overlapped(Finders, chunk.at, w.match), w.acceleration,
                          EndsWith(w.arrivals, chunk.at, w.path, w.match))
      \/ GoOn(w.arrivals, 0, Passed(chunk.at), w.acceleration)
      \/ EndChunk(found, wait, Finished(w.arrivals, Index + 1, 0))
      \/ GoOn(w.arrivals, 0, found, wait)
      \/ /\ ms # <<>>
         /\ EndChunk(Overlapped(found, chunk.at, best), w.acceleration,
                     EndsWith(w.arrivals, chunk.at, 1, best))
      \/ ms # <<>> /\ GoOn(TryMatches(w.arrivals, ms, w.expected), 0, found, after)
  <2> HIDE DEF w, found, wait, none, long, dear, after
  <2> QED
    BY DEF ExpandPosition, w, found, wait, none, long, dear, after
<1>3. Ready /\ chunk.from = pos
  <2>1. Typed /\ InBlock /\ InChunk
    BY DEF IInv
  <2>2. Ready
    BY <1>1, <2>1, Turning
  <2> QED
    BY <1>1, <2>1, <2>2 DEF InChunk
<1>4. w \in Trying
  BY <1>3, TriedFits
<1> HIDE DEF w, none, long, dear
<1>5. /\ w.arrivals \in Followed(LastPlace) /\ w.expected \in Nat /\ w.expected >= 2
      /\ w.acceleration \in Nat
      /\ w.match.length \in Nat /\ w.match.distance \in Nat
      /\ w.match.length > 0 => /\ w.match.length >= 2 /\ chunk.at + w.match.length <= end
                               /\ Real(chunk.at, w.match.length, w.match.distance)
                               /\ w.path \in 1 .. MaxArrivals
  BY <1>4 DEF Trying, Match
<1>6. /\ ms \in Seq(Fits(chunk.at, end)) /\ Behind(found, chunk.at + 1)
      /\ found \in FinderTo(Reach(chunk.at + 1)) \union
           [tree : Trees(Reach(chunk.at + 1)), tables : Tables(Reach(chunk.at + 1)),
            matches : Seq(Fits(chunk.at, end))]
  <2>1. w.expected \in Int
    BY <1>5
  <2> QED
    BY <1>3, <2>1, FoundBehind
<1> HIDE DEF found
<1>7. /\ chunk.at \in Nat /\ chunk.at - chunk.from \in 0 .. LastPlace
      /\ chunk.arrivals \in Places(LastPlace) /\ acceleration \in Nat /\ 1 \in 1 .. MaxArrivals
      /\ Base \in Nat /\ end \in Nat /\ chunk.at + 1 \in Int /\ chunk.at <= chunk.at + 1
  <2>1. Ready
    BY <1>3
  <2> QED
    BY SMTT(60), <2>1, Bounds, BlockPlanAssumption
<1>16. chunk.arrivals \in Followed(LastPlace) /\ w.arrivals \in Places(LastPlace)
  <2>1. chunk.arrivals \in Followed(LastPlace) /\ LastPlace \in Nat
    BY <1>3 DEF Ready
  <2> QED
    BY <1>5, <2>1, FollowedAre
<1>8. /\ 0 \in Nat /\ wait \in Nat /\ after \in Nat
  BY <1>5, <1>7
<1>9. CASE GoOn(chunk.arrivals, 0, Passed(chunk.at), acceleration)
  <2>1. PICK f : f = Passed(chunk.at) /\ Behind(f, chunk.at + 1)
    BY <1>3, PassedBehind
  <2> QED
    BY <1>1, <1>7, <1>8, <1>9, <1>16, <2>1, GoOnKeeps DEF Behind
<1>10. CASE long /\ EndChunk(Overlapped(Finders, chunk.at, w.match), w.acceleration,
                             EndsWith(w.arrivals, chunk.at, w.path, w.match))
  <2>1. /\ w.match.length >= 2 /\ chunk.at + w.match.length <= end /\ w.path \in 1 .. MaxArrivals
        /\ chunk.at + 1 <= chunk.at + w.match.length
        /\ Real(chunk.at, w.match.length, w.match.distance)
    BY <1>5, <1>7, <1>10 DEF long
  <2>2. PICK f, m, path, ws, a : f = Finders /\ m = w.match /\ path = w.path /\ ws = w.arrivals
                                 /\ a = w.acceleration
    OBVIOUS
  <2>3. f \in FinderTo(Reach(chunk.at + 1))
    <3>1. Finders \in FinderTo(Reach(chunk.at))
      BY <1>3 DEF Ready
    <3>2. chunk.at \in Int
      BY <1>7
    <3> QED
      BY <1>7, <2>2, <3>1, <3>2, Reaches
  <2> QED
    BY <1>1, <1>3, <1>5, <1>7, <1>10, <1>16, <2>1, <2>2, <2>3, MatchEnds
<1>11. CASE GoOn(w.arrivals, 0, Passed(chunk.at), w.acceleration)
  <2>1. PICK f : f = Passed(chunk.at) /\ Behind(f, chunk.at + 1)
    BY <1>3, PassedBehind
  <2> QED
    BY <1>1, <1>5, <1>8, <1>11, <2>1, GoOnKeeps DEF Behind
<1>12. CASE EndChunk(found, wait, Finished(w.arrivals, Index + 1, 0))
  BY <1>1, <1>3, <1>5, <1>6, <1>8, <1>12, <1>16, NothingEnds
<1>13. CASE GoOn(w.arrivals, 0, found, wait)
  BY SMTT(60), <1>1, <1>5, <1>6, <1>8, <1>13, GoOnKeeps DEF Behind
<1>14. CASE /\ ms # <<>>
            /\ EndChunk(Overlapped(found, chunk.at, best), w.acceleration,
                        EndsWith(w.arrivals, chunk.at, 1, best))
  <2>1. best \in Fits(chunk.at, end)
    BY <1>6, <1>14, ElementOfSeq, LenProperties, EmptySeq
  <2>2. PICK m, ws, a : m = best /\ ws = w.arrivals /\ a = w.acceleration
    OBVIOUS
  <2>3. /\ m.length \in Nat /\ m.length >= 2 /\ m.distance \in Nat /\ chunk.at + m.length <= end
        /\ chunk.at + 1 <= chunk.at + m.length /\ Real(chunk.at, m.length, m.distance)
    BY SMTT(60), <1>7, <2>1, <2>2 DEF Fits, Match
  <2> QED
    BY <1>1, <1>3, <1>5, <1>6, <1>7, <1>14, <1>16, <2>2, <2>3, MatchEnds
<1>15. CASE ms # <<>> /\ GoOn(TryMatches(w.arrivals, ms, w.expected), 0, found, after)
  <2>1. TryMatches(w.arrivals, ms, w.expected) \in Followed(LastPlace)
    BY <1>3, <1>5, <1>6, MatchesTried
  <2>2. PICK arrivals \in Followed(LastPlace) : arrivals = TryMatches(w.arrivals, ms, w.expected)
    BY <2>1
  <2> QED
    BY <1>1, <1>6, <1>8, <1>15, <2>2, GoOnKeeps DEF Behind
<1> QED
  BY SMTT(60), <1>2, <1>9, <1>10, <1>11, <1>12, <1>13, <1>14, <1>15

(* A chunk is full.                                                        *)
LEMMA ChunkDoneKeeps ==
  ASSUME IInv, ChunkDone
  PROVE  IInv'
<1>1. /\ phase = "expand" /\ chunk.at >= chunk.to
      /\ EndChunk(Finders, acceleration, Finished(chunk.arrivals, chunk.to - chunk.from, chunk.to))
      /\ UNCHANGED <<blockVars, buffer, fill, parseVars>>
  BY DEF ChunkDone
<1>2. Typed /\ InBlock /\ InChunk
  BY DEF IInv
<1>3. /\ chunk.from \in Nat /\ chunk.to \in Nat /\ chunk.known \in Nat /\ chunk.at \in Nat
      /\ chunk.arrivals \in Places(chunk.known - chunk.from)
      /\ chunk.from = pos /\ pos < chunk.to /\ chunk.to <= chunk.known
      /\ chunk.known = AtMost(end, chunk.to + Nice)
      /\ chunk.at \in pos .. chunk.to
      /\ Finders \in FinderTo(Reach(chunk.at))
  BY <1>1, <1>2 DEF InChunk
<1>4. Chosen /\ end \in Nat /\ acceleration \in Nat /\ Nice \in Nat
  BY <1>2, Widths DEF Typed
<1>5. chunk.at = chunk.to /\ chunk.known <= end
  <2>1. chunk.known <= end
    BY <1>3, <1>4 DEF AtMost
  <2>2. chunk.at = chunk.to
    BY <1>1, <1>3
  <2> QED
    BY <2>1, <2>2
<1>6. PICK i, c, f, yields : /\ i = chunk.to - chunk.from /\ c = chunk.to /\ f = chunk.arrivals
                             /\ yields = Finished(f, i, c)
  OBVIOUS
<1>7. /\ LastPlace \in Nat /\ chunk.from + LastPlace = chunk.known /\ i \in 0 .. LastPlace
      /\ c \in Nat /\ c # 0 /\ f \in Places(LastPlace)
  BY <1>3, <1>6 DEF LastPlace
<1>8. /\ yields.steps \in Seq(Step) /\ Tiles(yields.steps, chunk.from)
      /\ \A j \in DOMAIN yields.steps :
           yields.steps[j].pos + yields.steps[j].length <= chunk.known /\ RealStep(yields.steps[j])
      /\ yields.consumed = c
  BY SMTT(60), <1>3, <1>4, <1>6, <1>7, FinishedFits
<1>9. \A j \in DOMAIN yields.steps : yields.steps[j].pos + yields.steps[j].length <= end
  <2> TAKE j \in DOMAIN yields.steps
  <2>1. yields.steps[j] \in Step /\ yields.steps[j].pos + yields.steps[j].length <= chunk.known
    BY <1>8, ElementOfSeq, LenProperties
  <2>2. yields.steps[j].pos \in Nat /\ yields.steps[j].length \in Nat
    BY <2>1 DEF Step
  <2> QED
    BY <1>3, <1>4, <1>5, <2>1, <2>2
<1>10. yields.consumed \in (pos + 1) .. end
  BY SMTT(60), <1>3, <1>4, <1>5, <1>6, <1>8
<1>11. PICK g : g = Finders /\ g.tree \in Trees(Reach(yields.consumed))
                /\ g.tables \in Tables(Reach(yields.consumed))
  BY <1>3, <1>5, <1>6, <1>8 DEF FinderTo
<1>12. EndChunk(g, acceleration, yields)
  BY <1>1, <1>6, <1>11
<1> QED
  BY <1>1, <1>3, <1>4, <1>8, <1>9, <1>10, <1>11, <1>12, EndChunkKeeps

(* What optimal1 has for the next place: a literal, and maybe the match at *)
(* a recent distance.                                                      *)
LEMMA RelaxedFits ==
  ASSUME Ready, NEW now \in Place(Index), now.cost # Infinite, NEW m \in Match,
         m.length > 0 => /\ m.length >= 2 /\ chunk.at + m.length <= end
                         /\ Real(chunk.at, m.length, m.distance),
         Counted => now = chunk.arrivals[Index][1],
         NEW literal, literal = WithLiteral(chunk.arrivals, Index, 1, now),
         NEW relaxed,
         relaxed = IF m.length = 0 THEN literal
                   ELSE WithMatches(literal, Index, 1, now, m.distance,
                                    {AtMost(m.length, chunk.known - chunk.at)}, FALSE)
  PROVE  /\ literal \in Followed(LastPlace) /\ relaxed \in Followed(LastPlace)
         /\ relaxed[Index + 1][1].cost < Infinite
<1>1. PICK n, i, f : n = LastPlace /\ i = Index /\ f = chunk.arrivals
  OBVIOUS
<1>7. chunk.arrivals \in Followed(LastPlace) /\ 1 \in 1 .. MaxArrivals
  BY Bounds DEF Ready
<1>8. literal \in Followed(LastPlace)
  BY <1>7, LiteralFollows
<1>2. /\ n \in Nat /\ i \in 0 .. (n - 1) /\ i \in 0 .. n /\ i + 1 \in 0 .. n
      /\ i + 1 \in 0 .. (ChunkSize + 1) /\ f \in Places(n) /\ 1 \in 1 .. MaxArrivals
      /\ Chosen /\ chunk.at \in Nat /\ chunk.known \in Nat /\ end \in Nat /\ Spanned(n)
  BY <1>1, Bounds
<1>3. /\ literal \in Places(n)
      /\ literal[i + 1][1].cost <= MostCost(i + 1)
  BY <1>1, <1>2, LiteralKeeps
<1>4. /\ relaxed \in Places(n) /\ relaxed \in Followed(LastPlace)
      /\ relaxed[i + 1][1].cost <= literal[i + 1][1].cost
  <2>1. CASE m.length = 0
    <3>1. literal[i + 1] \in [1 .. MaxArrivals -> Place(i + 1)]
      BY <1>2, <1>3, PlacesAre
    <3>2. literal[i + 1][1].cost \in Int
      BY <1>2, <3>1 DEF Place, Arrival
    <3> QED
      BY <1>3, <1>8, <2>1, <3>2
  <2>2. CASE m.length # 0
    <3>1. m.length \in Nat /\ m.distance \in Nat
      BY DEF Match
    <3>2. m.length >= 2 /\ chunk.at + m.length <= end /\ Real(chunk.at, m.length, m.distance)
      BY <2>2, <3>1
    <3>3. PICK l : l = AtMost(m.length, chunk.known - chunk.at)
      OBVIOUS
    <3>4. l \in Nat /\ l >= 2 /\ i + l <= n
      <4>1. chunk.at + 2 <= chunk.known
        BY SMTT(60), <1>2, <3>1, <3>2 DEF Ready
      <4>2. i + (chunk.known - chunk.at) = n
        <5>1. /\ chunk.from \in Nat /\ chunk.from + i = chunk.at
              /\ chunk.from + n = chunk.known
          BY <1>1, Bounds
        <5> QED
          BY <1>2, <5>1
      <4> QED
        BY <1>2, <3>1, <3>2, <3>3, <4>1, <4>2 DEF AtMost
    <3>5. PICK ls : ls = {l}
      OBVIOUS
    <3>9. Real(chunk.from + i, l, m.distance)
      <4>1. l <= m.length /\ m.length \in Int /\ l \in Int
        BY <1>2, <3>1, <3>3, <3>4 DEF AtMost
      <4>2. Real(chunk.at, l, m.distance)
        BY <3>2, <4>1, RealPrefix
      <4>3. chunk.from + i = chunk.at
        BY <1>1, Bounds
      <4> QED
        BY <4>2, <4>3
    <3>6. \A x \in ls : x \in Nat /\ x >= 2 /\ i + x <= n /\ Real(chunk.from + i, x, m.distance)
      BY <3>4, <3>5, <3>9
    <3>7. relaxed = WithMatches(literal, i, 1, now, m.distance, ls, FALSE)
      BY <1>1, <2>2, <3>3, <3>5
    <3>8. now \in Place(i) /\ m.distance \in Nat
      BY <1>1, <3>1
    <3>10. relaxed \in Followed(LastPlace)
      <4>1. \A x \in ls : /\ x \in Nat /\ x >= 2 /\ Index + x <= LastPlace
                          /\ Real(chunk.from + Index, x, m.distance)
        BY <1>1, <3>6
      <4>2. relaxed = WithMatches(literal, Index, 1, now, m.distance, ls, FALSE)
        BY <1>1, <3>7
      <4> QED
        BY <1>7, <1>8, <3>1, <4>1, <4>2, MatchesHere
    <3>11. /\ relaxed \in Places(n)
           /\ \A k \in 0 .. n : relaxed[k][1].cost <= literal[k][1].cost
      <4>1. PICK d \in Nat, pay \in BOOLEAN : d = m.distance /\ pay = FALSE
        BY <3>8
      <4>2. \A x \in ls : x \in Nat /\ x >= 2 /\ i + x <= n /\ Real(chunk.from + i, x, d)
        BY <3>6, <4>1
      <4>3. relaxed = WithMatches(literal, i, 1, now, d, ls, pay)
        BY <3>7, <4>1
      <4>4. /\ WithMatches(literal, i, 1, now, d, ls, pay) \in Places(n)
            /\ \A k \in 0 .. n :
                 WithMatches(literal, i, 1, now, d, ls, pay)[k][1].cost <= literal[k][1].cost
        BY <1>2, <1>3, <3>8, <4>2, MatchesKeep
      <4> QED
        BY <4>3, <4>4
    <3> QED
      BY <1>2, <3>10, <3>11
  <2> QED
    BY <2>1, <2>2
<1>5. MostCost(i + 1) < Infinite /\ MostCost(i + 1) \in Nat /\ Infinite \in Nat
  <2>1. i + 1 \in Nat /\ ChunkSize + 1 \in Nat /\ i + 1 <= ChunkSize + 1
    BY <1>2, Widths
  <2>2. /\ MostCost(i + 1) \in Nat /\ MostCost(ChunkSize + 1) \in Nat
        /\ MostCost(i + 1) <= MostCost(ChunkSize + 1)
    BY <1>2, <2>1, CostGrows
  <2>3. MostCost(ChunkSize + 1) < Infinite /\ Infinite \in Nat
    BY CostAssumption
  <2> QED
    BY <2>2, <2>3
<1>6. literal[i + 1][1].cost \in Int /\ relaxed[i + 1][1].cost \in Int
  <2>1. /\ literal[i + 1] \in [1 .. MaxArrivals -> Place(i + 1)]
        /\ relaxed[i + 1] \in [1 .. MaxArrivals -> Place(i + 1)]
    BY ZenonT(60), <1>2, <1>3, <1>4, PlacesAre
  <2> QED
    BY <1>2, <2>1 DEF Place, Arrival
<1>9. PICK x, y, z : x = relaxed[i + 1][1].cost /\ y = literal[i + 1][1].cost /\ z = MostCost(i + 1)
  OBVIOUS
<1>10. /\ x \in Int /\ y \in Int /\ z \in Nat /\ Infinite \in Nat
       /\ x <= y /\ y <= z /\ z < Infinite
  BY <1>3, <1>4, <1>5, <1>6, <1>9
<1>11. relaxed[Index + 1][1].cost = x
  BY <1>1, <1>9
<1>12. x < Infinite
  BY <1>10
<1> QED
  BY <1>4, <1>8, <1>11, <1>12

(* A position of optimal1.                                                 *)
LEMMA SinglePositionKeeps ==
  ASSUME IInv, SinglePosition
  PROVE  IInv'
<1> DEFINE now     == chunk.arrivals[Index][1]
           recent  == FirstRecent(now)
           literal == WithLiteral(chunk.arrivals, Index, 1, now)
           relaxed == IF recent.length = 0 THEN literal
                      ELSE WithMatches(literal, Index, 1, now, recent.distance,
                                       {AtMost(recent.length, chunk.known - chunk.at)}, FALSE)
           minimum == IF recent.length = 0 THEN 1 ELSE StoredLength(recent.length) + 1
           found   == FindAll(chunk.at, minimum)
           ms      == found.matches
           longest == ms[Len(ms)]
           whole   == Extended(now, longest)
           at      == chunk.at - (whole.length - longest.length)
           skip    == IF recent.length > 0 THEN 1 ELSE chunk.skip
           wait    == IF recent.length >= 3 THEN Base ELSE acceleration
           after   == IF longest.length >= 4 THEN Base ELSE wait
<1>1. /\ phase = "expand" /\ chunk.at < chunk.to /\ opts.parser = "optimal1"
      /\ UNCHANGED <<blockVars, buffer, fill, parseVars>>
  BY ZenonT(60) DEF SinglePosition, Turn
<1>2. \/ now.cost = Infinite /\ GoOn(chunk.arrivals, chunk.skip, Passed(chunk.at), acceleration)
      \/ GoOn(chunk.arrivals, AtLeast(chunk.skip - 1, 0), Passed(chunk.at), acceleration)
      \/ /\ now.cost # Infinite
         /\ \/ /\ recent.length >= Nice \div 2
               /\ EndChunk(Overlapped(Passed(chunk.at), chunk.at, recent), acceleration,
                           EndsWith(literal, chunk.at, 1, recent))
            \/ EndChunk(found, wait + 1, Finished(relaxed, Index + 1, 0))
            \/ GoOn(relaxed, skip, found, wait + 1)
            \/ /\ ms # <<>>
               /\ EndChunk(Overlapped(found, at, whole), wait, EndsWith(relaxed, at, 1, whole))
            \/ ms # <<>> /\ GoOn(RelaxAll(relaxed, now, ms), skip, found, after)
  <2> HIDE DEF recent, literal, relaxed, found, skip, wait, whole, at, after, now
  <2> QED
    BY ZenonT(60) DEF SinglePosition, recent, literal, relaxed, found, skip, wait, whole, at, after, now,
           minimum
<1>3. Ready /\ chunk.from = pos /\ chunk.skip \in Nat
  <2>1. Typed /\ InBlock /\ InChunk
    BY DEF IInv
  <2>2. Ready
    BY <1>1, <2>1, Turning
  <2> QED
    BY <1>1, <2>1, <2>2 DEF InChunk
<1>4. /\ chunk.at \in Nat /\ chunk.at - chunk.from \in 0 .. LastPlace
      /\ chunk.arrivals \in Places(LastPlace) /\ acceleration \in Nat /\ 1 \in 1 .. MaxArrivals
      /\ Base \in Nat /\ src \in Seq(Nat) /\ end \in Nat /\ Chosen
      /\ LastPlace \in Nat /\ Index \in 0 .. LastPlace /\ chunk.at - chunk.from = Index
      /\ chunk.from \in Nat
  <2>1. Ready
    BY <1>3
  <2> QED
    BY <2>1, Bounds, BlockPlanAssumption
<1>5. now \in Place(Index)
  <2>1. chunk.arrivals[Index] \in [1 .. MaxArrivals -> Place(Index)]
    BY <1>4, PlacesAre
  <2> QED
    BY <1>4, <2>1
<1>19. /\ chunk.arrivals \in Followed(LastPlace) /\ LastPlace \in Nat
       /\ Counted => now = chunk.arrivals[Index][1]
  BY <1>3 DEF Ready
<1> HIDE DEF now
<1>6. /\ recent \in Match /\ recent.length \in Nat /\ recent.distance \in Nat
      /\ recent.length > 0 => /\ recent.length >= 2 /\ chunk.at + recent.length <= end
                              /\ Real(chunk.at, recent.length, recent.distance)
  <2>1. /\ recent \in Match
        /\ recent.length > 0 => /\ recent.length >= 2 /\ chunk.at + recent.length <= end
                                /\ Real(chunk.at, recent.length, recent.distance)
    BY <1>3, <1>5, RecentFits
  <2> HIDE DEF recent
  <2> QED
    BY <2>1 DEF Match
<1> HIDE DEF recent, literal, relaxed
<1>7. now.cost # Infinite =>
        /\ literal \in Places(LastPlace) /\ relaxed \in Places(LastPlace)
        /\ relaxed \in Followed(LastPlace)
        /\ relaxed[Index + 1][1].cost < Infinite
  <2>1. ASSUME now.cost # Infinite
        PROVE  /\ literal \in Places(LastPlace) /\ relaxed \in Places(LastPlace)
               /\ relaxed \in Followed(LastPlace)
               /\ relaxed[Index + 1][1].cost < Infinite
    <3>1. /\ literal \in Followed(LastPlace) /\ relaxed \in Followed(LastPlace)
          /\ relaxed[Index + 1][1].cost < Infinite
      BY <1>3, <1>5, <1>6, <1>19, <2>1, RelaxedFits DEF literal, relaxed
    <3> QED
      BY <1>19, <3>1, FollowedAre
  <2> QED
    BY <2>1
<1>8. minimum \in Int
  <2>1. CASE recent.length = 0
    BY <2>1
  <2>2. CASE recent.length # 0
    <3>1. recent.length >= 2
      BY <1>6, <2>2
    <3>2. StoredLength(recent.length) \in 2 .. recent.length
      BY <1>4, <1>6, <3>1, StoredFits
    <3> QED
      BY <1>6, <2>2, <3>2
  <2> QED
    BY <2>1, <2>2
<1>9. /\ ms \in Seq(Fits(chunk.at, end)) /\ Behind(found, chunk.at + 1)
      /\ found \in FinderTo(Reach(chunk.at + 1)) \union
           [tree : Trees(Reach(chunk.at + 1)), tables : Tables(Reach(chunk.at + 1)),
            matches : Seq(Fits(chunk.at, end))]
  <2> HIDE DEF minimum
  <2>1. Matches(chunk.at, minimum) = found
    <3>1. ~Buffered
      BY <1>1, <1>4, Widths
    <3> QED
      BY <1>1, <3>1 DEF Matches
  <2> HIDE DEF found
  <2> QED
    BY <1>3, <1>8, <2>1, FoundBehind
<1> HIDE DEF found
<1>10. 0 \in Nat /\ wait \in Nat /\ after \in Nat /\ skip \in Nat /\ wait + 1 \in Nat
  BY <1>3, <1>4
<1> HIDE DEF wait, after, skip
<1>11. PICK passed : /\ passed = Passed(chunk.at) /\ Behind(passed, chunk.at + 1)
                     /\ passed \in FinderTo(Reach(chunk.at + 1)) \union
                          [tree : Trees(Reach(chunk.at + 1)), tables : Tables(Reach(chunk.at + 1)),
                           matches : Seq(Fits(chunk.at, end))]
  BY <1>3, PassedBehind
<1>12. CASE now.cost = Infinite /\ GoOn(chunk.arrivals, chunk.skip, Passed(chunk.at), acceleration)
  BY <1>1, <1>3, <1>4, <1>11, <1>12, <1>19, GoOnKeeps DEF Behind
<1>13. CASE GoOn(chunk.arrivals, AtLeast(chunk.skip - 1, 0), Passed(chunk.at), acceleration)
  <2>1. PICK s \in Nat : s = AtLeast(chunk.skip - 1, 0)
    BY <1>3 DEF AtLeast
  <2> QED
    BY <1>1, <1>4, <1>11, <1>13, <1>19, <2>1, GoOnKeeps DEF Behind
<1>14. CASE /\ now.cost # Infinite
            /\ recent.length >= Nice \div 2
            /\ EndChunk(Overlapped(Passed(chunk.at), chunk.at, recent), acceleration,
                        EndsWith(literal, chunk.at, 1, recent))
  <2>1. /\ recent.length >= 2 /\ chunk.at + recent.length <= end
        /\ Real(chunk.at, recent.length, recent.distance)
    <3>1. PICK n \in Nat : n = Nice /\ n >= 2
      <4>1. Nice \in Nat \ {0, 1}
        BY <1>4, Widths
      <4> QED
        BY <4>1
    <3>2. n \div 2 >= 1
      <4>1. n \div 2 \in Nat /\ n % 2 \in 0 .. 1 /\ n = 2 * (n \div 2) + (n % 2)
        BY DivMod
      <4> QED
        BY <3>1, <4>1
    <3>3. recent.length > 0
      <4>1. n \div 2 \in Nat
        BY DivMod
      <4> QED
        BY <1>6, <1>14, <3>1, <3>2, <4>1
    <3> QED
      BY <1>6, <3>3
  <2>2. chunk.at + 1 <= chunk.at + recent.length
    BY <1>4, <1>6, <2>1
  <2>3. literal \in Places(LastPlace)
    BY <1>7, <1>14
  <2>4. EndChunk(Overlapped(passed, chunk.at, recent), acceleration,
                 EndsWith(literal, chunk.at, 1, recent))
    BY <1>11, <1>14
  <2>5. chunk.at - chunk.from \in 0 .. LastPlace
    BY <1>4
  <2> QED
    BY <1>1, <1>3, <1>4, <1>6, <1>11, <2>1, <2>2, <2>3, <2>4, <2>5, MatchEnds
<1>15. CASE now.cost # Infinite /\ EndChunk(found, wait + 1, Finished(relaxed, Index + 1, 0))
  <2>1. relaxed \in Places(LastPlace) /\ relaxed[Index + 1][1].cost < Infinite
    BY <1>7, <1>15
  <2>2. PICK x \in Nat : x = wait + 1
    BY <1>10
  <2> QED
    BY <1>1, <1>3, <1>9, <1>15, <2>1, <2>2, NothingEnds
<1>16. CASE now.cost # Infinite /\ GoOn(relaxed, skip, found, wait + 1)
  BY <1>1, <1>7, <1>9, <1>10, <1>16, GoOnKeeps DEF Behind
<1>17. CASE /\ now.cost # Infinite /\ ms # <<>>
            /\ EndChunk(Overlapped(found, at, whole), wait, EndsWith(relaxed, at, 1, whole))
  <2>1. longest \in Fits(chunk.at, end)
    BY <1>9, <1>17, ElementOfSeq, LenProperties, EmptySeq
  <2> HIDE DEF longest
  <2>2. /\ longest.length \in Nat /\ longest.length >= 3 /\ chunk.at + longest.length <= end
        /\ longest.distance \in Nat
    BY <2>1 DEF Fits, Match
  <2>3. /\ whole.distance = longest.distance /\ whole.length \in Nat
        /\ whole.length - longest.length \in 0 .. Index
        /\ Real(at, whole.length, whole.distance)
    BY <1>3, <1>5, <2>1, ExtendedFits
  <2> HIDE DEF whole
  <2>4. /\ at \in Nat /\ at - chunk.from \in 0 .. LastPlace
        /\ at + whole.length = chunk.at + longest.length /\ whole.length >= 2
    <3>1. PICK a \in Nat, b \in Nat, n \in Nat, x \in Nat, y \in Nat :
            /\ a = chunk.at /\ b = chunk.from /\ n = LastPlace
            /\ x = whole.length /\ y = longest.length
      BY <1>4, <2>2, <2>3
    <3>2. a - b \in 0 .. n /\ x - y \in 0 .. (a - b) /\ y >= 3
      BY <1>4, <2>2, <2>3, <3>1
    <3>3. /\ a - (x - y) \in Nat /\ a - (x - y) - b \in 0 .. n
          /\ a - (x - y) + x = a + y /\ x >= 2
      BY <3>2
    <3>4. at = a - (x - y)
      BY <3>1
    <3> QED
      BY <3>1, <3>3, <3>4
  <2> HIDE DEF at
  <2>5. at + whole.length <= end /\ chunk.at + 1 <= at + whole.length
    BY SMTT(60), <1>4, <2>2, <2>4
  <2>6. relaxed \in Places(LastPlace) /\ whole.distance \in Nat
    BY <1>7, <1>17, <2>2, <2>3
  <2>7. EndChunk(Overlapped(found, at, whole), wait, EndsWith(relaxed, at, 1, whole))
    BY <1>17
  <2> QED
    BY <1>1, <1>3, <1>4, <1>9, <1>10, <2>3, <2>4, <2>5, <2>6, <2>7, MatchEnds
<1>18. CASE now.cost # Infinite /\ ms # <<>> /\ GoOn(RelaxAll(relaxed, now, ms), skip, found, after)
  <2>1. relaxed \in Followed(LastPlace)
    BY <1>7, <1>18
  <2>2. PICK arrivals \in Followed(LastPlace) : arrivals = RelaxAll(relaxed, now, ms)
    BY <1>1, <1>3, <1>5, <1>9, <2>1, RelaxAllFits
  <2> QED
    BY <1>1, <1>9, <1>10, <1>18, <2>2, GoOnKeeps DEF Behind
<1> QED
  BY SMTT(60), <1>2, <1>12, <1>13, <1>14, <1>15, <1>16, <1>17, <1>18

-----------------------------------------------------------------------------
(* Between chunks.                                                         *)

(* What a chunk has yielded is taken, and all it has consumed is behind.   *)
LEMMA TakeMoves ==
  ASSUME IInv, TakeResult
  PROVE  IInv' /\ pos' \in (pos + 1) .. end
<1> DEFINE S == Seq([pos : Int, length : Int, distance : Nat])
           list == result.steps
           Literals(x) == IF x.pos = pos THEN litStart ELSE x.pos
           X == {x \in [pos : pos .. end, steps : S, reps : Reps] :
                   Plan(x.steps, FirstPos, Literals(x))}
           m == Len(list)
           now == [pos |-> pos, steps |-> steps, reps |-> reps]
           w == TakeSteps(list)
<1>1. /\ phase = "take" /\ steps' = w.steps /\ reps' = w.reps
      /\ litStart' = IF w.pos = pos THEN litStart ELSE w.pos
      /\ pos' = AtLeast(w.pos, result.consumed) /\ phase' = "parse"
      /\ UNCHANGED <<blockVars, treeVars, tables, buffer, fill, iteration, coding, acceleration, chunk>>
  BY DEF TakeResult
<1>2. Typed /\ InBlock /\ Ended
  BY DEF IInv
<1>3. /\ UNCHANGED <<src, opts, start, end, begin, iteration, coding, fill, acceleration>>
      /\ UNCHANGED <<blockVars, buffer>> /\ UNCHANGED <<treeVars, tables>>
  BY <1>1 DEF blockVars
<1>4. /\ start \in Nat /\ pos \in Nat /\ end \in Nat /\ litStart \in Nat /\ steps \in S
      /\ reps \in Reps /\ src \in Seq(Nat)
  BY <1>2, Limits DEF Typed
<1>5. FirstPos \in Nat /\ FirstPos <= pos /\ pos <= end /\ litStart <= pos
  BY <1>1, <1>2, <1>4 DEF InBlock, FirstPos
<1>6. /\ list \in Seq(Step) /\ result.consumed \in (pos + 1) .. end
      /\ Finders \in FinderTo(Reach(result.consumed))
  BY <1>1, <1>2 DEF Ended
<1>7. m \in Nat /\ \A i \in 1 .. m : list[i] \in Step /\ list[i].length >= 2 /\ RealStep(list[i])
  <2>1. m \in Nat /\ DOMAIN list = 1 .. m /\ \A i \in 1 .. m : list[i] \in Step
    BY <1>6, LenProperties, ElementOfSeq
  <2>2. Tiles(list, pos) /\ \A i \in DOMAIN list : RealStep(list[i])
    BY <1>1, <1>2 DEF Ended
  <2> QED
    BY <2>1, <2>2 DEF Tiles
<1>8. now \in X
  <2>1. Plan(steps, FirstPos, litStart)
    BY <1>1, <1>2 DEF InBlock
  <2> QED
    BY <1>4, <1>5, <2>1
<1>9. \A x \in X : \A i \in 1 .. m : TakeStep(x, list[i]) \in X
  <2> TAKE x \in X
  <2> TAKE i \in 1 .. m
  <2>1. PICK s \in Step : s = list[i] /\ s.length >= 2 /\ RealStep(s)
    BY <1>7
  <2>2. s.pos \in Nat /\ s.length \in Nat /\ s.distance \in Nat
    BY <2>1 DEF Step
  <2>3. PICK p \in pos .. end, l \in S, r \in Reps : x = [pos |-> p, steps |-> l, reps |-> r]
    BY Zenon
  <2>4. x.pos = p /\ x.steps = l /\ x.reps = r
    BY <2>3
  <2>7. Plan(l, FirstPos, IF p = pos THEN litStart ELSE p)
    BY <2>4
  <2>5. CASE s.pos < p \/ s.pos + s.length > end
    BY <2>1, <2>4, <2>5 DEF TakeStep
  <2>6. CASE ~(s.pos < p \/ s.pos + s.length > end)
    <3>1. TakeStep(x, s) = [pos |-> s.pos + s.length, steps |-> Append(l, s),
                            reps |-> UpdatedReps(r, s.distance)]
      BY <2>4, <2>6 DEF TakeStep
    <3>2. s.pos + s.length \in pos .. end
      BY SMTT(60), <1>4, <2>2, <2>3, <2>6
    <3>3. Append(l, s) \in S
      <4>1. s \in [pos : Int, length : Int, distance : Nat]
        BY <2>1 DEF Step
      <4> QED
        BY <2>3, <4>1, AppendProperties
    <3>4. UpdatedReps(r, s.distance) \in Reps
      BY <2>2, <2>3, RepsUpdated
    <3>5. PICK to \in Int : to = (IF p = pos THEN litStart ELSE p) /\ Plan(l, FirstPos, to)
      BY <1>4, <2>3, <2>7
    <3>6. to <= s.pos
      BY SMTT(60), <1>4, <1>5, <2>2, <2>3, <2>6, <3>5
    <3>7. PICK q \in Int : q = s.pos + s.length /\ q # pos
      BY SMTT(60), <1>4, <2>1, <2>2, <2>3, <2>6
    <3>8. Plan(Append(l, s), FirstPos, q)
      <4>1. PICK T : T = [pos : Int, length : Int, distance : Nat]
        OBVIOUS
      <4>2. s \in T /\ l \in Seq(T) /\ \A y \in T : y.pos \in Int /\ y.length \in Int
        BY <2>1, <2>3, <4>1 DEF Step
      <4>3. FirstPos \in Int /\ s.pos + s.length <= q
        BY <1>5, <2>2, <3>7
      <4> QED
        BY <2>1, <3>5, <3>6, <3>7, <4>2, <4>3, PlanGrows
    <3>9. PICK y : y = TakeStep(x, s)
      OBVIOUS
    <3>10. y = [pos |-> q, steps |-> Append(l, s), reps |-> UpdatedReps(r, s.distance)]
      BY <3>1, <3>7, <3>9
    <3>11. y.pos = q /\ y.steps = Append(l, s) /\ Literals(y) = q
      BY <3>7, <3>10
    <3>12. y \in [pos : pos .. end, steps : S, reps : Reps]
      BY <3>2, <3>3, <3>4, <3>7, <3>10
    <3>13. Plan(y.steps, FirstPos, Literals(y))
      BY <3>8, <3>11
    <3> HIDE DEF Literals, S
    <3> QED
      BY <2>1, <3>9, <3>12, <3>13
  <2> QED
    BY <2>5, <2>6
<1>10. w \in X
  <2> HIDE DEF X, w, list, m
  <2> QED
    BY <1>7, <1>8, <1>9, TakeKeeps DEF w, m
<1>11. /\ w.pos \in pos .. end /\ w.steps \in S /\ w.reps \in Reps
       /\ Plan(w.steps, FirstPos, Literals(w))
  <2> HIDE DEF S, w, Literals
  <2> QED
    BY <1>10
<1> HIDE DEF w
<1>12. /\ pos' \in (pos + 1) .. end /\ pos' \in Nat /\ FirstPos <= pos' /\ pos' <= end
       /\ litStart' \in Nat /\ litStart' <= pos' /\ result.consumed <= pos'
  BY SMTT(60), <1>1, <1>4, <1>5, <1>6, <1>11 DEF AtLeast
<1>13. Typed'
  BY <1>1, <1>2, <1>3, <1>11, <1>12 DEF Typed, Chosen
<1>14. Finders' \in FinderTo(Reach(pos))'
  <2>1. PICK k : k = Reach(pos')
    OBVIOUS
  <2>2. result.consumed \in Int /\ pos' \in Int /\ result.consumed <= pos'
    BY <1>6, <1>12
  <2>3. Finders \in FinderTo(k)
    BY <1>4, <1>6, <2>1, <2>2, Reaches
  <2>4. Finders' \in FinderTo(k)'
    BY <1>3, <2>3, FindersStay
  <2>5. Reach(pos)' = k
    BY <1>3, <2>1 DEF Reach, Buffered
  <2> QED
    BY <2>4, <2>5
<1>17. Plan(steps, FirstPos, litStart)'
  <2>1. PICK l, from, to : l = w.steps /\ from = FirstPos /\ to = Literals(w)
    OBVIOUS
  <2>2. Plan(l, from, to)'
    BY <1>3, <1>11, <2>1, RealStays
  <2>3. l = steps' /\ from = FirstPos' /\ to = litStart'
    BY <1>1, <1>3, <2>1 DEF FirstPos
  <2> QED
    BY <2>2, <2>3
<1>15. InBlock'
  <2>1. phase' \in {"parse", "expand", "take"} /\ phase \in {"fill", "parse", "expand", "take"}
    BY <1>1
  <2> QED
    BY <1>2, <1>3, <1>12, <1>14, <1>17, <2>1, BlockStays
<1>16. Between' /\ InChunk' /\ Ended'
  BY <1>1 DEF Between, InChunk, Ended
<1> QED
  BY <1>12, <1>13, <1>15, <1>16 DEF IInv

(* A step without a chunk.                                                 *)
LEMMA GreedyStepKeeps ==
  ASSUME IInv, GreedyStep
  PROVE  IInv'
<1> DEFINE S     == Seq([pos : Int, length : Int, distance : Nat])
           found == Matches(pos, IF Buffered THEN 3 ELSE 4)
           ms    == found.matches
           best  == ms[Len(ms)]
           left  == LeftPart(pos - litStart, pos, best.distance)
           step  == [pos |-> pos - left, length |-> best.length + left, distance |-> best.distance]
<1>1. /\ phase = "parse" /\ pos < end /\ FinderIs(found)
      /\ \/ /\ ms # <<>>
            /\ steps' = Append(steps, step) /\ reps' = UpdatedReps(reps, best.distance)
            /\ pos' = pos + best.length /\ litStart' = pos' /\ acceleration' = Base
         \/ /\ pos' = AtMost(pos + AtLeast(acceleration \div Base, 1), end)
            /\ acceleration' = acceleration + 1
            /\ UNCHANGED <<steps, reps, litStart>>
      /\ UNCHANGED <<blockVars, buffer, fill, iteration, coding, chunk, result, phase>>
  BY DEF GreedyStep
<1>2. Typed /\ InBlock
  BY DEF IInv
<1>3. /\ UNCHANGED <<src, opts, start, end, begin, iteration, coding, fill, phase>>
      /\ UNCHANGED <<blockVars, buffer>>
  BY <1>1 DEF blockVars
<1>4. /\ start \in Nat /\ pos \in Nat /\ end \in Nat /\ litStart \in Nat /\ steps \in S
      /\ reps \in Reps /\ src \in Seq(Nat) /\ Chosen /\ acceleration \in Nat
      /\ Base \in Nat \ {0}
  BY <1>2, Limits, BlockPlanAssumption DEF Typed
<1>5. /\ FirstPos <= pos /\ pos <= end /\ litStart <= pos /\ end <= CompressionLimit
      /\ Finders \in FinderTo(Reach(pos)) /\ buffer[pos] \in Seq(Fits(pos, end))
      /\ FirstPos \in Nat /\ pos \in Nat \ {0}
  <2>1. FirstPos \in Nat \ {0} /\ start <= FirstPos /\ FirstPos <= pos
    BY <1>1, <1>2, <1>4 DEF InBlock, FirstPos
  <2>2. pos \in start .. (end - 1) /\ pos \in Nat \ {0}
    BY SMTT(60), <1>1, <1>4, <2>1
  <2> QED
    BY <1>1, <1>2, <2>1, <2>2 DEF InBlock
<1>6. found \in Found(pos)
  <2>1. (IF Buffered THEN 3 ELSE 4) \in Int
    OBVIOUS
  <2> QED
    BY <1>1, <1>4, <1>5, <2>1, MatchesFit
<1> HIDE DEF found
<1>7. /\ ms \in Seq(Fits(pos, end)) /\ Behind(found, pos + 1)
  BY <1>6 DEF Found, Behind
<1>8. /\ pos' \in Nat /\ pos + 1 <= pos' /\ pos' <= end /\ litStart' \in Nat /\ litStart' <= pos'
      /\ steps' \in S /\ reps' \in Reps /\ acceleration' \in Nat
      /\ UNCHANGED <<steps, litStart>> \/ Plan(steps', FirstPos, litStart')
  <2>1. CASE /\ ms # <<>>
             /\ steps' = Append(steps, step) /\ reps' = UpdatedReps(reps, best.distance)
             /\ pos' = pos + best.length /\ litStart' = pos' /\ acceleration' = Base
    <3>1. best \in Fits(pos, end)
      BY <1>7, <2>1, ElementOfSeq, LenProperties, EmptySeq
    <3> HIDE DEF best
    <3>2. /\ best.length \in Nat /\ best.length >= 3 /\ pos + best.length <= end
          /\ best.distance \in Nat /\ Real(pos, best.length, best.distance)
      BY <3>1 DEF Fits, Match
    <3>3. /\ left \in Nat /\ litStart <= pos - left
          /\ Real(pos - left, best.length + left, best.distance)
      <4>1. PICK run \in Nat, n \in Nat, d \in Nat :
              run = pos - litStart /\ n = best.length /\ d = best.distance
        <5>1. pos - litStart \in Nat
          BY <1>4, <1>5
        <5> QED
          BY <3>2, <5>1
      <4>2. left = LeftPart(run, pos, d) /\ Real(pos, n, d)
        BY <3>2, <4>1
      <4> HIDE DEF left
      <4>3. left \in 0 .. AtMost(run, pos - d) /\ Real(pos - left, n + left, d)
        BY <1>4, <4>2, RealLeft
      <4>4. d \in 1 .. pos
        BY <4>2 DEF Real
      <4>5. left \in Nat /\ left <= run
        BY <1>4, <4>3, <4>4 DEF AtMost
      <4>6. litStart <= pos - left
        BY <1>4, <4>1, <4>5
      <4> QED
        BY <4>1, <4>3, <4>5, <4>6
    <3> HIDE DEF left
    <3>4. /\ step \in [pos : Int, length : Int, distance : Nat]
          /\ RealStep(step) /\ litStart <= step.pos /\ step.length >= 2
          /\ step.pos + step.length <= pos + best.length
      <4>1. /\ step.pos = pos - left /\ step.length = best.length + left
            /\ step.distance = best.distance
        OBVIOUS
      <4>2. step \in [pos : Int, length : Int, distance : Nat]
        BY SMTT(60), <1>4, <3>2, <3>3
      <4> HIDE DEF step
      <4> QED
        BY SMTT(60), <1>4, <3>2, <3>3, <4>1, <4>2 DEF RealStep
    <3> HIDE DEF step
    <3>8. Plan(steps', FirstPos, litStart')
      <4>1. PICK T : T = [pos : Int, length : Int, distance : Nat]
        OBVIOUS
      <4>2. step \in T /\ steps \in Seq(T) /\ \A y \in T : y.pos \in Int /\ y.length \in Int
        BY <1>4, <3>4, <4>1
      <4>3. /\ FirstPos \in Int /\ litStart \in Int /\ litStart' \in Int
            /\ step.pos + step.length <= litStart'
        BY SMTT(60), <1>4, <1>5, <2>1, <3>2, <3>4
      <4>4. Plan(steps, FirstPos, litStart)
        BY <1>1, <1>2 DEF InBlock
      <4>5. Plan(Append(steps, step), FirstPos, litStart')
        BY <3>4, <4>2, <4>3, <4>4, PlanGrows
      <4> QED
        BY <2>1, <4>5
    <3>5. steps' \in S
      BY <1>4, <2>1, <3>4, AppendProperties
    <3>6. reps' \in Reps
      BY <1>4, <2>1, <3>2, RepsUpdated
    <3>7. /\ pos' \in Nat /\ pos + 1 <= pos' /\ pos' <= end
          /\ litStart' \in Nat /\ litStart' <= pos' /\ acceleration' \in Nat
      BY SMTT(60), <1>4, <2>1, <3>2
    <3> QED
      BY <3>5, <3>6, <3>7, <3>8
  <2>2. CASE /\ pos' = AtMost(pos + AtLeast(acceleration \div Base, 1), end)
             /\ acceleration' = acceleration + 1
             /\ UNCHANGED <<steps, reps, litStart>>
    <3>1. PICK q \in Nat : q = acceleration \div Base
      BY <1>4, DivMod
    <3>2. pos' \in Nat /\ pos + 1 <= pos' /\ pos' <= end
      BY <1>1, <1>4, <2>2, <3>1 DEF AtMost, AtLeast
    <3> QED
      BY <1>4, <1>5, <2>2, <3>2
  <2> QED
    BY <1>1, <2>1, <2>2
<1>9. Typed'
  BY <1>1, <1>2, <1>3, <1>8 DEF Typed, Chosen
<1>10. Finders' \in FinderTo(Reach(pos))'
  <2>1. PICK k : k = Reach(pos')
    OBVIOUS
  <2>2. pos + 1 \in Int /\ pos' \in Int
    BY <1>4, <1>8
  <2>3. Behind(found, pos')
    BY <1>4, <1>7, <1>8, <2>2, BehindMore
  <2>4. Finders' \in FinderTo(k)'
    BY <1>1, <1>3, <2>1, <2>3, FindersMove DEF Behind
  <2>5. Reach(pos)' = k
    BY <1>3, <2>1 DEF Reach, Buffered
  <2> QED
    BY <2>4, <2>5
<1>13. UNCHANGED <<steps, litStart>> \/ Plan(steps, FirstPos, litStart)'
  <2>1. PICK l, from, to : l = steps' /\ from = FirstPos /\ to = litStart'
    OBVIOUS
  <2>2. Plan(l, from, to)' = Plan(l, from, to)
    BY <1>3, RealStays
  <2>3. from = FirstPos'
    BY <1>3, <2>1 DEF FirstPos
  <2> QED
    BY <1>8, <2>1, <2>2, <2>3
<1>11. InBlock'
  <2>1. /\ phase' \in {"parse", "expand", "take"} /\ phase \in {"fill", "parse", "expand", "take"}
        /\ FirstPos <= pos'
    BY <1>1, <1>4, <1>5, <1>8
  <2> QED
    BY <1>2, <1>3, <1>8, <1>10, <1>13, <2>1, BlockStays
<1>12. Between' /\ InChunk' /\ Ended'
  BY <1>1 DEF Between, InChunk, Ended
<1> QED
  BY <1>9, <1>11, <1>12 DEF IInv

(* A second parse of the block begins where the first did: its matches are *)
(* in the buffer.                                                          *)
LEMMA NextIterationKeeps ==
  ASSUME IInv, NEW model \in Models, NextIteration(model)
  PROVE  IInv'
<1>1. /\ phase = "parse" /\ iteration < coding.iterations /\ iteration' = iteration + 1
      /\ coding' = [coding EXCEPT !.model = model]
      /\ pos' = FirstPos /\ litStart' = FirstPos /\ reps' = begin.reps /\ steps' = <<>>
      /\ UNCHANGED <<blockVars, treeVars, tables, buffer, fill, acceleration, chunk, result, phase>>
  BY DEF NextIteration
<1>2. Typed /\ InBlock
  BY DEF IInv
<1>3. /\ UNCHANGED <<src, opts, start, end, begin, fill, acceleration, phase>>
      /\ UNCHANGED <<blockVars, buffer>> /\ UNCHANGED <<treeVars, tables>>
  BY <1>1 DEF blockVars
<1>4. /\ start \in Nat /\ end \in Nat /\ start < end /\ begin.reps \in Reps
      /\ iteration \in Nat \ {0} /\ Chosen /\ Finders \in FinderTo(Reach(pos))
  BY <1>1, <1>2 DEF Typed, InBlock
<1>5. FirstPos \in Nat /\ FirstPos <= FirstPos /\ FirstPos <= end
  BY <1>4 DEF FirstPos
<1>6. Buffered
  <2>1. coding.iterations \in Nat
    BY <1>4, Widths
  <2> QED
    BY <1>1, <1>4, <2>1 DEF Buffered
<1>11. Chosen' /\ Buffered'
  <2>1. coding' \in CodingType /\ coding'.iterations = coding.iterations
    BY <1>1, <1>4 DEF Chosen, CodingType
  <2> QED
    BY <1>3, <1>4, <1>6, <2>1 DEF Chosen, Buffered
<1>7. Typed'
  <2>1. iteration' \in Nat \ {0}
    BY <1>1, <1>4
  <2> QED
    BY <1>1, <1>2, <1>3, <1>4, <1>5, <1>11, <2>1 DEF Typed, Chosen
<1>8. Finders' \in FinderTo(Reach(pos))'
  <2>1. PICK k : k = end /\ Finders \in FinderTo(k)
    BY <1>4, <1>6 DEF Reach
  <2>2. Finders' \in FinderTo(k)'
    BY <1>3, <2>1, FindersStay
  <2>3. Reach(pos)' = k
    BY <1>3, <1>11, <2>1 DEF Reach
  <2> QED
    BY <2>2, <2>3
<1>9. InBlock'
  <2>1. /\ phase' \in {"parse", "expand", "take"} /\ phase \in {"fill", "parse", "expand", "take"}
        /\ FirstPos <= pos' /\ pos' <= end /\ litStart' <= pos'
    BY <1>1, <1>5
  <2>2. Plan(steps, FirstPos, litStart)'
    <3>1. PICK q \in Int : q = FirstPos
      BY <1>5
    <3>2. PICK l : l = <<>>
      OBVIOUS
    <3>3. Plan(l, q, q)
      BY <3>2, EmptyPlan
    <3>4. Plan(l, q, q)' = Plan(l, q, q)
      BY <1>3, RealStays
    <3>5. l = steps' /\ q = FirstPos' /\ q = litStart'
      BY <1>1, <1>3, <3>1, <3>2 DEF FirstPos
    <3> QED
      BY <3>3, <3>4, <3>5
  <2> QED
    BY <1>2, <1>3, <1>8, <2>1, <2>2, BlockStays
<1>10. Between' /\ InChunk' /\ Ended'
  BY <1>1 DEF Between, InChunk, Ended
<1> QED
  BY <1>7, <1>9, <1>10 DEF IInv

(* A block is written.                                                     *)
LEMMA BlockDoneKeeps ==
  ASSUME IInv, NEW compressed \in BOOLEAN, BlockDone(compressed)
  PROVE  IInv'
<1>1. /\ phase = "parse" /\ pos >= end /\ start' = end /\ steps' = <<>> /\ buffer' = <<>>
      /\ phase' = "block"
      /\ \/ reps' = RepsBehind(begin.reps, steps) /\ acceleration' = acceleration
         \/ reps' = begin.reps /\ acceleration' = begin.acceleration
      /\ UNCHANGED <<src, opts, end, begin, treeVars, tables, fill, iteration, coding, pos, litStart>>
  BY DEF BlockDone
<1>2. Typed /\ InBlock
  BY DEF IInv
<1>3. /\ pos \in Nat /\ end \in Nat /\ acceleration \in Nat
      /\ begin.reps \in Reps /\ begin.acceleration \in Nat
      /\ steps \in Seq([pos : Int, length : Int, distance : Nat])
  BY <1>2 DEF Typed
<1>4. pos = end /\ Finders \in FinderTo(Reach(pos))
  BY <1>1, <1>2, <1>3 DEF InBlock
<1>5. RepsBehind(begin.reps, steps) \in Reps
  <2>1. PICK m \in Nat : m = Len(steps)
    BY <1>3, LenProperties
  <2>2. \A i \in 1 .. m : steps[i].distance \in Nat
    <3> TAKE i \in 1 .. m
    <3>1. steps[i] \in [pos : Int, length : Int, distance : Nat]
      BY <1>3, <2>1, ElementOfSeq
    <3> QED
      BY <3>1
  <2>3. \A x \in Reps : \A i \in 1 .. m : Written(x, steps[i].distance) \in Reps
    BY <2>2, RepsUpdated
  <2> QED
    BY <1>3, <2>1, <2>3, RepsKeep
<1>6. Typed'
  <2>1. reps' \in Reps /\ acceleration' \in Nat
    BY <1>1, <1>3, <1>5
  <2> QED
    BY <1>1, <1>2, <2>1 DEF Typed, Chosen
<1>7. Between'
  <2>1. PICK k : k = Reach(pos)
    OBVIOUS
  <2>2. Finders' \in FinderTo(k)'
    BY <1>1, <1>4, <2>1, FindersStay
  <2>3. Reach(pos)' = k
    BY <1>1, <2>1 DEF Reach, Buffered
  <2> QED
    BY <1>1, <1>4, <2>2, <2>3 DEF Between
<1>8. InBlock' /\ InChunk' /\ Ended'
  BY <1>1 DEF InBlock, InChunk, Ended
<1> QED
  BY <1>6, <1>7, <1>8 DEF IInv

(* The last block is written.                                              *)
LEMMA SourceDoneKeeps ==
  ASSUME IInv, SourceDone
  PROVE  IInv'
<1>1. /\ phase = "block" /\ phase' = "done"
      /\ UNCHANGED <<src, opts, start, end, begin, treeVars, tables, buffer, fill, iteration, coding, pos,
                     litStart, reps, steps, acceleration>>
  BY DEF SourceDone, blockVars, parseVars
<1>2. Typed /\ Between
  BY DEF IInv
<1>3. Typed'
  BY <1>1, <1>2 DEF Typed, Chosen
<1>4. Between'
  <2>1. pos = start /\ end = start /\ steps = <<>> /\ buffer = <<>>
        /\ Finders \in FinderTo(Reach(pos))
    BY <1>1, <1>2 DEF Between
  <2>2. PICK k : k = Reach(pos)
    OBVIOUS
  <2>3. Finders' \in FinderTo(k)'
    BY <1>1, <2>1, <2>2, FindersStay
  <2>4. Reach(pos)' = k
    BY <1>1, <2>2 DEF Reach, Buffered
  <2> QED
    BY <1>1, <2>1, <2>3, <2>4 DEF Between
<1>5. InBlock' /\ InChunk' /\ Ended'
  BY <1>1 DEF InBlock, InChunk, Ended
<1> QED
  BY <1>3, <1>4, <1>5 DEF IInv

-----------------------------------------------------------------------------
(* The theorems.                                                           *)

(* The invariant is inductive: it holds at the start, and every step of    *)
(* the finders, of either parser and of the loop over blocks keeps it.     *)
THEOREM Inductive == Spec => []IInv
<1>1. Init => IInv
  BY Beginning
<1>2. IInv /\ [Next]_vars => IInv'
  <2> SUFFICES ASSUME IInv, [Next]_vars
               PROVE  IInv'
    OBVIOUS
  <2>1. CASE UNCHANGED vars
    <3>1. /\ UNCHANGED <<src, opts, start, end, begin, chain3, lookup, nodes, inserted, tables,
                         buffer, fill, iteration, coding, pos, litStart, reps, steps, acceleration, chunk,
                         result, phase>>
      BY <2>1 DEF vars, blockVars, treeVars, parseVars
    <3>2. Typed'
      BY <3>1 DEF IInv, Typed, Chosen
    <3>3. /\ CompressionLimit' = CompressionLimit /\ Buffered' = Buffered /\ Nice' = Nice
          /\ FirstPos' = FirstPos /\ \A k : Reach(k)' = Reach(k)
      BY <3>1 DEF CompressionLimit, Buffered, Nice, First, Reach, FirstPos
    <3>4. \A k : Finders \in FinderTo(k) => Finders' \in FinderTo(k)'
      <4> TAKE k
      <4>1. UNCHANGED <<treeVars, tables>>
        BY <3>1 DEF treeVars
      <4> QED
        BY <3>1, <4>1, FindersStay
    <3>5. \A n : Places(n)' = Places(n)
      <4>1. chunk'.from = chunk.from
        BY <3>1
      <4> QED
        BY <3>1, <4>1, PlacesStay
    <3>10. /\ \A p, e : Fits(p, e)' = Fits(p, e)
           /\ \A s : RealStep(s)' = RealStep(s)
           /\ \A list, from, to : Plan(list, from, to)' = Plan(list, from, to)
      BY <3>1, RealStays
    <3>11. /\ steps' = steps /\ litStart' = litStart /\ end' = end /\ FirstPos' = FirstPos
           /\ buffer' = buffer /\ result' = result
      BY <3>1, <3>3
    <3>12. Plan(steps, FirstPos, litStart)' = Plan(steps, FirstPos, litStart)
      <4>1. PICK l, from, to : l = steps /\ from = FirstPos /\ to = litStart
        OBVIOUS
      <4>2. Plan(l, from, to)' = Plan(l, from, to)
        BY <3>10
      <4> QED
        BY <3>11, <4>1, <4>2
    <3>13. \A p : Fits(p, end)' = Fits(p, end)
      <4>1. PICK e : e = end
        OBVIOUS
      <4>2. \A p : Fits(p, e)' = Fits(p, e)
        BY <3>10
      <4> QED
        BY <3>11, <4>1, <4>2
    <3>14. \A i : RealStep(result.steps[i])' = RealStep(result.steps[i])
      <4> TAKE i
      <4>1. PICK s : s = result.steps[i]
        OBVIOUS
      <4>2. RealStep(s)' = RealStep(s)
        BY <3>10
      <4> QED
        BY <3>11, <4>1, <4>2
    <3>6. Between'
      BY <3>1, <3>3, <3>4 DEF IInv, Between
    <3>7. InBlock'
      BY <3>1, <3>3, <3>4, <3>12, <3>13 DEF IInv, InBlock
    <3>15. \A n : Followed(n)' = Followed(n)
      BY <3>1, FollowedStay
    <3>16. phase = "expand" => chunk'.arrivals \in Followed(chunk.known - chunk.from)'
      <4>1. PICK n : n = chunk.known - chunk.from
        OBVIOUS
      <4>2. Followed(n)' = Followed(n) /\ n = chunk'.known - chunk'.from
        BY <3>1, <3>15, <4>1
      <4> QED
        BY <3>1, <4>1, <4>2 DEF IInv, InChunk
    <3>8. InChunk'
      BY <3>1, <3>3, <3>4, <3>5, <3>16 DEF IInv, InChunk
    <3>9. Ended'
      BY <3>1, <3>3, <3>4, <3>14 DEF IInv, Ended, Tiles
    <3> QED
      BY <3>2, <3>6, <3>7, <3>8, <3>9 DEF IInv
  <2>2. CASE \E to \in Cuts \union {CompressionLimit}, how \in Codings : BeginBlock(to, how)
    BY <2>2, BeginBlockKeeps
  <2>3. CASE FillNext
    BY <2>3, FillNextKeeps
  <2>4. CASE FillDone
    BY <2>4, FillDoneKeeps
  <2>5. CASE StartChunk
    BY <2>5, StartChunkKeeps
  <2>6. CASE ExpandPosition
    BY <2>6, ExpandPositionKeeps
  <2>7. CASE SinglePosition
    BY <2>7, SinglePositionKeeps
  <2>8. CASE ChunkDone
    BY <2>8, ChunkDoneKeeps
  <2>9. CASE TakeResult
    BY <2>9, TakeMoves
  <2>10. CASE GreedyStep
    BY <2>10, GreedyStepKeeps
  <2>11. CASE \E model \in Models : NextIteration(model)
    BY <2>11, NextIterationKeeps
  <2>12. CASE \E compressed \in BOOLEAN : BlockDone(compressed)
    BY <2>12, BlockDoneKeeps
  <2>13. CASE SourceDone
    BY <2>13, SourceDoneKeeps
  <2> QED
    BY <2>1, <2>2, <2>3, <2>4, <2>5, <2>6, <2>7, <2>8, <2>9, <2>10, <2>11, <2>12, <2>13 DEF Next
<1> QED
  BY <1>1, <1>2, PTL DEF Spec

(* No finder has a position that is still to be parsed, for any source,    *)
(* any options and any tables: whatever positions a chunk passes to the    *)
(* finder, however it ends, by a match, a match moved to the left, a chunk *)
(* that is full or a search given up, they are all consumed, and after a   *)
(* block that was parsed from a buffer no position is behind its end.      *)
THEOREM FinderNeverAhead == Spec => []FinderBehind
<1>1. IInv => FinderBehind
  <2> SUFFICES ASSUME IInv, phase = "block" \/ (phase = "parse" /\ ~Buffered)
               PROVE  /\ \A q \in inserted : q < pos
                      /\ \A t \in {tables.few, tables.short, tables.long} :
                           \A b \in DOMAIN t : \A i \in DOMAIN t[b] : t[b][i] < pos \/ t[b][i] = 0
    BY DEF FinderBehind
  <2>1. Finders \in FinderTo(pos)
    <3>1. CASE phase = "block"
      <4>1. pos = end /\ Finders \in FinderTo(Reach(pos))
        BY <3>1 DEF IInv, Between
      <4> QED
        BY <4>1 DEF Reach
    <3>2. CASE phase = "parse" /\ ~Buffered
      BY <3>2 DEF IInv, InBlock, Reach
    <3> QED
      BY <3>1, <3>2
  <2>2. inserted \in SUBSET {x \in Nat : x < pos} /\ tables \in Tables(pos)
    BY <2>1 DEF FinderTo, Finders, Trees, Arrays, tree
  <2>3. ASSUME NEW n, NEW t \in Table(n, pos), NEW b \in DOMAIN t, NEW i \in DOMAIN t[b]
        PROVE  t[b][i] < pos \/ t[b][i] = 0
    <3>1. t[b] \in [1 .. n -> Below(pos)]
      BY <2>3 DEF Table
    <3>2. t[b][i] \in Below(pos)
      BY <3>1
    <3> QED
      BY <3>2 DEF Below
  <2>4. /\ tables.few \in Table(1, pos) /\ tables.short \in Table(DepthLimit, pos)
        /\ tables.long \in Table(DepthLimit, pos)
    BY <2>2 DEF Tables
  <2> QED
    BY <2>2, <2>3, <2>4
<1> QED
  BY <1>1, Inductive, PTL

(* The tree that matches are found in is in order, for any source, any     *)
(* options, any window, depth and nice length, and whatever positions are  *)
(* put in it or left out: a child that a search may visit was put in       *)
(* before its parent, still owns its node, and is on the side its bytes    *)
(* belong to, though nodes are used again while subtrees below them are    *)
(* still linked and a position that agrees for NiceLength bytes is         *)
(* replaced by the one that is put in.                                     *)
THEOREM TreeInOrder == Spec => []SearchOrder
<1>1. IInv => SearchOrder
  <2> SUFFICES ASSUME IInv
               PROVE  SearchOrder
    OBVIOUS
  <2>1. Typed /\ Between /\ InBlock /\ InChunk /\ Ended
    BY DEF IInv
  <2>2. PICK k : Finders \in FinderTo(k)
    <3>1. phase \in {"block", "fill", "parse", "expand", "take", "done"}
      BY <2>1 DEF Typed
    <3> QED
      BY <2>1, <3>1, Zenon DEF Between, InBlock, InChunk, Ended
  <2>3. tree \in Trees(k)
    BY <2>2 DEF FinderTo, Finders
  <2>4. tree \in Arrays(k) /\ Sorted(tree)
    BY <2>3 DEF Trees
  <2>5. inserted \in SUBSET Nat /\ nodes \in NodeLists
    BY <2>4 DEF Arrays, NodeLists, tree
  <2>6. src \in Seq(Nat)
    BY <2>1, Limits
  <2> QED
    BY <2>4, <2>5, <2>6, SortedSearches
<1> QED
  BY <1>1, Inductive, PTL

(* The tree finds the longest match, for any source, any options and any   *)
(* size of the window: where a search may visit all nodes of a tree, no    *)
(* position in the window is lost to a node that is used again, to a       *)
(* replaced position, or to the bytes that a search takes for granted, but *)
(* for a match of NiceLength that makes up for it.                         *)
THEOREM LongestFound == Spec => []FindsLongest
<1>1. IInv => FindsLongest
  <2> SUFFICES ASSUME IInv
               PROVE  FindsLongest
    OBVIOUS
  <2>1. Typed /\ Between /\ InBlock /\ InChunk /\ Ended
    BY DEF IInv
  <2>2. PICK k : Finders \in FinderTo(k)
    <3>1. phase \in {"block", "fill", "parse", "expand", "take", "done"}
      BY <2>1 DEF Typed
    <3> QED
      BY <2>1, <3>1, Zenon DEF Between, InBlock, InChunk, Ended
  <2>3. tree \in Trees(k)
    BY <2>2 DEF FinderTo, Finders
  <2>4. src \in Seq(Nat)
    BY <2>1, Limits
  <2> QED
    BY <2>3, <2>4, CompleteFinds
<1> QED
  BY <1>1, Inductive, PTL

(* Whatever way the parsers decide, every match in the buffer and every    *)
(* step of the plan is a match in the source: its bytes are those at its   *)
(* distance, it is within reach and within its block, and the steps are in *)
(* order and do not overlap.  A search skips the bytes that both sides     *)
(* are known to share, the tail of a match serves the positions behind it, *)
(* a match is cut, moved to the left or taken from the buffer of an        *)
(* earlier parse, and a step is made from an arrival long after its match  *)
(* was found: none of these ways lets a false match in.                    *)
THEOREM PlanIsTrue == Spec => []PlanTrue
<1>1. IInv => PlanTrue
  <2> SUFFICES ASSUME IInv
               PROVE  PlanTrue
    OBVIOUS
  <2>1. Typed /\ Between /\ InBlock
    BY DEF IInv
  <2>2. CASE phase \in {"block", "done"}
    <3>1. steps = <<>> /\ buffer = <<>>
      BY <2>1, <2>2 DEF Between
    <3> QED
      BY <3>1 DEF PlanTrue, StepsTrue, Tiles
  <2>3. CASE phase \in {"fill", "parse", "expand", "take"}
    <3>1. /\ Plan(steps, FirstPos, litStart) /\ litStart <= pos /\ pos <= end
          /\ DOMAIN buffer = start .. (end - 1)
          /\ \A p \in DOMAIN buffer : buffer[p] \in Seq(Fits(p, end))
      BY <2>1, <2>3 DEF InBlock
    <3>2. /\ start \in Nat /\ end \in Nat /\ pos \in Nat /\ litStart \in Nat
          /\ steps \in Seq([pos : Int, length : Int, distance : Nat])
      BY <2>1 DEF Typed
    <3>3. ASSUME NEW p \in DOMAIN buffer, NEW i \in DOMAIN buffer[p]
          PROVE  TrueMatch(p, buffer[p][i], end)
      <4>1. PICK m : m = buffer[p][i]
        OBVIOUS
      <4>2. m \in Fits(p, end)
        BY <3>1, <4>1, ElementOfSeq, LenProperties
      <4>3. /\ m.length \in Int /\ m.distance \in Nat /\ p + m.length <= end
            /\ Real(p, m.length, m.distance)
        BY <4>2 DEF Fits, Match
      <4>4. p \in Int
        BY <3>1, <3>2
      <4> QED
        BY <4>1, <4>3, <4>4, RealTrue
    <3>4. ASSUME NEW i \in DOMAIN steps
          PROVE  TrueMatch(steps[i].pos, steps[i], end)
      <4>1. PICK s, p : s = steps[i] /\ p = s.pos
        OBVIOUS
      <4>2. s \in [pos : Int, length : Int, distance : Nat]
        BY <3>2, <4>1, ElementOfSeq, LenProperties
      <4>3. RealStep(s) /\ s.pos + s.length <= litStart
        BY <3>1, <4>1 DEF Plan
      <4>4. p \in Int /\ s.length \in Int /\ s.distance \in Nat /\ p + s.length <= end
        BY <3>1, <3>2, <4>1, <4>2, <4>3
      <4>5. Real(p, s.length, s.distance)
        BY <4>1, <4>3 DEF RealStep
      <4> QED
        BY <4>1, <4>4, <4>5, RealTrue
    <3>5. Tiles(steps, FirstPos)
      BY <3>1 DEF Plan
    <3> QED
      BY <3>3, <3>4, <3>5 DEF PlanTrue, StepsTrue
  <2> QED
    BY <2>1, <2>2, <2>3 DEF Typed
<1> QED
  BY <1>1, Inductive, PTL

(* The distances of the parser are those behind its steps.                 *)
RepsAre == phase \in {"fill", "parse", "expand", "take"} => reps = RepsBehind(begin.reps, steps)

LEMMA BehindStays ==
  ASSUME opts' = opts
  PROVE  \A r, list : RepsBehind(r, list)' = RepsBehind(r, list)
BY DEF RepsBehind, Written

(* One more step of the parser.                                            *)
LEMMA PathGrows ==
  ASSUME NEW r \in Reps, NEW l \in Seq([pos : Int, length : Int, distance : Nat]),
         NEW s \in [pos : Int, length : Int, distance : Nat]
  PROVE  UpdatedReps(RepsBehind(r, l), s.distance) = RepsBehind(r, Append(l, s))
<1>1. PICK T : T = [pos : Int, length : Int, distance : Nat]
  OBVIOUS
<1>2. l \in Seq(T) /\ s \in T /\ \A x \in T : x.distance \in Nat
  BY <1>1
<1>3. /\ RepsBehind(r, l) \in Reps
      /\ RepsBehind(r, Append(l, s)) = Written(RepsBehind(r, l), s.distance)
  BY <1>2, RepsAppend
<1> QED
  BY <1>3, RepsAgree

LEMMA TakeResultPaths ==
  ASSUME IInv, RepsAre, TakeResult
  PROVE  RepsAre'
<1> DEFINE S == Seq([pos : Int, length : Int, distance : Nat])
           list == result.steps
           m == Len(list)
           X == {x \in [pos : Int, steps : S, reps : Reps] : x.reps = RepsBehind(begin.reps, x.steps)}
           now == [pos |-> pos, steps |-> steps, reps |-> reps]
           w == TakeSteps(list)
<1>1. /\ phase = "take" /\ steps' = w.steps /\ reps' = w.reps
      /\ begin' = begin /\ opts' = opts
  BY DEF TakeResult, blockVars
<1>2. /\ pos \in Int /\ steps \in S /\ reps \in Reps /\ begin.reps \in Reps
      /\ list \in Seq(Step)
  BY <1>1 DEF IInv, Typed, Ended
<1>3. m \in Nat /\ \A i \in 1 .. m : list[i] \in Step
  BY <1>2, LenProperties
<1>4. now \in X
  BY <1>1, <1>2 DEF RepsAre
<1>5. ASSUME NEW x \in X, NEW i \in 1 .. m
      PROVE  TakeStep(x, list[i]) \in X
  <2>1. PICK s \in Step : s = list[i]
    BY <1>3
  <2>2. /\ s.pos \in Nat /\ s.length \in Nat /\ s.distance \in Nat
        /\ s \in [pos : Int, length : Int, distance : Nat]
    BY <2>1 DEF Step
  <2>3. /\ x \in [pos : Int, steps : S, reps : Reps] /\ x.steps \in S /\ x.reps \in Reps
        /\ x.reps = RepsBehind(begin.reps, x.steps)
    BY Zenon
  <2>4. CASE s.pos < x.pos \/ s.pos + s.length > end
    BY <2>1, <2>4 DEF TakeStep
  <2>5. CASE ~(s.pos < x.pos \/ s.pos + s.length > end)
    <3>1. TakeStep(x, s) = [pos |-> s.pos + s.length, steps |-> Append(x.steps, s),
                            reps |-> UpdatedReps(x.reps, s.distance)]
      BY <2>5 DEF TakeStep
    <3>2. UpdatedReps(x.reps, s.distance) = RepsBehind(begin.reps, Append(x.steps, s))
      BY <1>2, <2>2, <2>3, PathGrows
    <3>3. UpdatedReps(x.reps, s.distance) \in Reps
      BY <2>2, <2>3, RepsUpdated
    <3>4. Append(x.steps, s) \in S
      BY <2>2, <2>3, AppendProperties
    <3>5. s.pos + s.length \in Int
      BY <2>2
    <3> HIDE DEF S
    <3>6. PICK p, l, r : /\ p = s.pos + s.length /\ l = Append(x.steps, s)
                         /\ r = UpdatedReps(x.reps, s.distance)
      OBVIOUS
    <3>7. [pos |-> p, steps |-> l, reps |-> r] \in X
      BY <3>2, <3>3, <3>4, <3>5, <3>6
    <3> QED
      BY <2>1, <3>1, <3>6, <3>7
  <2> QED
    BY <2>4, <2>5
<1> HIDE DEF X, now, list, m
<1>6. TakeSteps(list) \in X
  <2>1. now = [pos |-> pos, steps |-> steps, reps |-> reps] /\ m = Len(list)
    BY DEF now, m
  <2> QED
    BY <1>3, <1>4, <1>5, <2>1, TakeKeeps
<1>7. reps' = RepsBehind(begin.reps, steps')
  BY <1>1, <1>6 DEF X, list
<1> QED
  <2>1. PICK r, l : r = begin.reps /\ l = steps'
    OBVIOUS
  <2>2. RepsBehind(r, l)' = RepsBehind(r, l)
    BY <1>1, BehindStays
  <2> QED
    BY <1>1, <1>7, <2>1, <2>2 DEF RepsAre

LEMMA GreedyStepPaths ==
  ASSUME IInv, RepsAre, GreedyStep
  PROVE  RepsAre'
<1> DEFINE S     == Seq([pos : Int, length : Int, distance : Nat])
           found == Matches(pos, IF Buffered THEN 3 ELSE 4)
           ms    == found.matches
           best  == ms[Len(ms)]
           left  == LeftPart(pos - litStart, pos, best.distance)
           step  == [pos |-> pos - left, length |-> best.length + left, distance |-> best.distance]
<1>1. /\ phase = "parse" /\ pos < end
      /\ \/ /\ ms # <<>>
            /\ steps' = Append(steps, step) /\ reps' = UpdatedReps(reps, best.distance)
         \/ UNCHANGED <<steps, reps>>
      /\ begin' = begin /\ opts' = opts
  BY DEF GreedyStep, blockVars
<1>2. Typed /\ InBlock /\ IInv'
  BY GreedyStepKeeps DEF IInv
<1>3. /\ start \in Nat /\ pos \in Nat /\ end \in Nat /\ steps \in S /\ steps' \in S
      /\ begin.reps \in Reps /\ src \in Seq(Nat) /\ Chosen
  BY <1>2, Limits DEF IInv, Typed
<1>4. /\ FirstPos <= pos /\ end <= CompressionLimit
      /\ Finders \in FinderTo(Reach(pos)) /\ buffer[pos] \in Seq(Fits(pos, end))
      /\ pos \in Nat \ {0}
  <2>1. FirstPos \in Nat \ {0} /\ start <= FirstPos /\ FirstPos <= pos
    BY <1>1, <1>2, <1>3 DEF InBlock, FirstPos
  <2>2. pos \in start .. (end - 1) /\ pos \in Nat \ {0}
    BY SMTT(60), <1>1, <1>3, <2>1
  <2> QED
    BY <1>1, <1>2, <2>1, <2>2 DEF InBlock
<1>5. found \in Found(pos)
  <2>1. (IF Buffered THEN 3 ELSE 4) \in Int
    OBVIOUS
  <2> QED
    BY <1>1, <1>3, <1>4, <2>1, MatchesFit
<1> HIDE DEF found
<1>6. ms \in Seq(Fits(pos, end))
  BY <1>5 DEF Found
<1>7. reps = RepsBehind(begin.reps, steps)
  BY <1>1 DEF RepsAre
<1>8. reps' = RepsBehind(begin.reps, steps')
  <2>1. CASE UNCHANGED <<steps, reps>>
    BY <1>7, <2>1
  <2>2. CASE /\ ms # <<>>
             /\ steps' = Append(steps, step) /\ reps' = UpdatedReps(reps, best.distance)
    <3>1. best.distance \in Nat
      <4>1. best \in Fits(pos, end)
        BY <1>6, <2>2, ElementOfSeq, LenProperties, EmptySeq
      <4> HIDE DEF best
      <4> QED
        BY <4>1 DEF Fits, Match
    <3>2. step \in [pos : Int, length : Int, distance : Nat] /\ step.distance = best.distance
      <4>1. PICK T : T = [pos : Int, length : Int, distance : Nat]
        OBVIOUS
      <4>2. /\ Len(steps) + 1 \in DOMAIN Append(steps, step)
            /\ Append(steps, step)[Len(steps) + 1] = step
        BY SMTT(60), <1>3, <4>1, AppendProperties, LenProperties
      <4>3. Append(steps, step) \in Seq(T)
        BY <1>3, <2>2, <4>1
      <4> HIDE DEF step
      <4>4. step \in T
        BY <4>2, <4>3, ElementOfSeq, LenProperties
      <4> QED
        BY <4>1, <4>4 DEF step
    <3> HIDE DEF step, best
    <3> QED
      BY <1>3, <1>7, <2>2, <3>2, PathGrows
  <2> QED
    BY <1>1, <2>1, <2>2
<1> QED
  <2>1. PICK r, l : r = begin.reps /\ l = steps'
    OBVIOUS
  <2>2. RepsBehind(r, l)' = RepsBehind(r, l)
    BY SMTT(60), <1>1, BehindStays
  <2> QED
    BY <1>1, <1>8, <2>1, <2>2 DEF RepsAre

LEMMA PathsKept == Spec => [](IInv /\ RepsAre)
<1>1. Init => RepsAre
  BY DEF Init, RepsAre
<1>2. IInv /\ RepsAre /\ [Next]_vars => RepsAre'
  <2> SUFFICES ASSUME IInv, RepsAre, [Next]_vars
               PROVE  RepsAre'
    OBVIOUS
  <2>1. Typed /\ Between
    BY DEF IInv
  <2>2. reps \in Reps /\ begin.reps \in Reps
    BY <2>1 DEF Typed
  <2>3. ASSUME opts' = opts, begin' = begin, reps' = reps, steps' = steps,
               phase \in {"fill", "parse", "expand", "take"} \/ phase' = phase
        PROVE  RepsAre'
    <3>1. PICK r, l : r = begin.reps /\ l = steps
      OBVIOUS
    <3>2. RepsBehind(r, l)' = RepsBehind(r, l)
      BY <2>3, BehindStays
    <3> QED
      BY <2>3, <3>1, <3>2 DEF RepsAre
  <2>4. ASSUME opts' = opts, steps' = <<>>, reps' = begin'.reps, begin'.reps \in Reps
        PROVE  RepsAre'
    <3>1. PICK r : r = begin'.reps
      OBVIOUS
    <3>2. RepsBehind(r, <<>>)' = RepsBehind(r, <<>>)
      BY <2>4, BehindStays
    <3>3. RepsBehind(r, <<>>) = r
      BY <2>4, <3>1, RepsNone
    <3> QED
      BY <2>4, <3>1, <3>2, <3>3 DEF RepsAre
  <2>5. CASE UNCHANGED vars
    BY <2>3, <2>5 DEF vars, blockVars, parseVars
  <2>6. CASE \E to \in Cuts \union {CompressionLimit}, how \in Codings : BeginBlock(to, how)
    <3>1. opts' = opts /\ steps' = <<>> /\ reps' = begin'.reps /\ begin'.reps = reps
      BY <2>6 DEF BeginBlock
    <3> QED
      BY <2>2, <2>4, <3>1
  <2>7. CASE FillNext \/ FillDone
    <3>1. /\ opts' = opts /\ begin' = begin /\ reps' = reps /\ steps' = steps
          /\ phase = "fill"
      BY <2>7 DEF FillNext, FillDone, blockVars, parseVars
    <3> QED
      BY SMTT(60), <2>3, <3>1
  <2>8. CASE StartChunk \/ ExpandPosition \/ SinglePosition \/ ChunkDone
    <3>1. /\ opts' = opts /\ begin' = begin /\ reps' = reps /\ steps' = steps
          /\ phase \in {"parse", "expand"}
      BY <2>8 DEF StartChunk, ExpandPosition, SinglePosition, ChunkDone, Turn, blockVars, parseVars
    <3> QED
      BY SMTT(60), <2>3, <3>1
  <2>9. CASE TakeResult
    BY <2>9, TakeResultPaths
  <2>10. CASE GreedyStep
    BY <2>10, GreedyStepPaths
  <2>11. CASE \E model \in Models : NextIteration(model)
    <3>1. opts' = opts /\ steps' = <<>> /\ reps' = begin'.reps /\ begin'.reps \in Reps
      BY <2>2, <2>11 DEF NextIteration, blockVars
    <3> QED
      BY <2>4, <3>1
  <2>12. CASE \E compressed \in BOOLEAN : BlockDone(compressed)
    BY <2>12 DEF BlockDone, RepsAre
  <2>13. CASE SourceDone
    BY <2>13 DEF SourceDone, RepsAre
  <2> QED
    BY <2>5, <2>6, <2>7, <2>8, <2>9, <2>10, <2>11, <2>12, <2>13 DEF Next
<1> QED
  BY <1>1, <1>2, Inductive, PTL DEF Spec

(* What is counted is what is written, for any source and any options: the *)
(* recent distances of the parser are those of its steps, and those and the*)
(* literal run of every arrival are those of the path that leads to it,    *)
(* though arrivals are inserted before, moved behind and pushed out by     *)
(* others and refer by place to those they were counted from.  Of arrivals *)
(* it says nothing for optimal1 without Huffman codes, where it is false:  *)
(* a match moved to the left and cut may replace an arrival that others    *)
(* were counted from.                                                      *)
THEOREM PathsCounted == Spec => []RepsFollowPath
<1>1. IInv /\ RepsAre => RepsFollowPath
  <2> SUFFICES ASSUME IInv, RepsAre, phase = "expand", Counted
               PROVE  \A i \in DOMAIN chunk.arrivals : \A path \in 1 .. MaxArrivals :
                        LET a    == chunk.arrivals[i][path]
                            list == Backtrack(chunk.arrivals, chunk.from, i, path)
                            done == IF list = <<>> THEN 0
                                    ELSE list[Len(list)].pos + list[Len(list)].length - chunk.from
                        IN  a.cost # Infinite => /\ a.run = i - done
                                                 /\ a.reps = RepsBehind(chunk.reps, list)
    BY DEF RepsAre, RepsFollowPath, Counted
  <2> TAKE i \in DOMAIN chunk.arrivals
  <2> TAKE path \in 1 .. MaxArrivals
  <2>1. PICK a, list : /\ a = chunk.arrivals[i][path]
                       /\ list = Backtrack(chunk.arrivals, chunk.from, i, path)
    OBVIOUS
  <2>2. PICK n : n = chunk.known - chunk.from
    OBVIOUS
  <2>3. /\ chunk.arrivals \in Followed(n) /\ chunk.from \in Nat /\ chunk.known \in Nat
        /\ chunk.from <= chunk.known /\ chunk.reps \in Reps /\ Chosen
    <3>1. /\ chunk \in [from : Nat, to : Nat, known : Nat, at : Nat, reps : Reps, skip : Nat,
                         arrivals : Places(chunk.known - chunk.from)]
          /\ chunk.arrivals \in Followed(chunk.known - chunk.from)
          /\ chunk.from = pos /\ pos < chunk.to /\ chunk.to <= chunk.known
          /\ Chosen
      BY DEF IInv, InChunk, Typed
    <3> QED
      BY <2>2, <3>1
  <2>4. n \in Nat /\ DOMAIN chunk.arrivals = 0 .. n
    <3>1. n \in Nat
      BY <2>2, <2>3
    <3>2. chunk.arrivals \in Places(n)
      BY <2>3 DEF Followed
    <3> QED
      BY <3>1, <3>2 DEF Places
  <2>5. a.cost # Infinite => /\ a.run = i - Taken(list)
                             /\ a.reps = RepsBehind(chunk.reps, list)
    BY <2>1, <2>3, <2>4, BackFollows
  <2> QED
    BY <2>1, <2>5 DEF Taken
<1> QED
  BY <1>1, PathsKept, PTL

(* However a chunk ends, and whatever path it takes back, its steps begin  *)
(* where the parser is, are in order, do not overlap and stay in the       *)
(* block: nothing the parser has decided is ever dropped.                  *)
THEOREM StepsAreTaken == Spec => []NothingDropped
<1>1. IInv => NothingDropped
  BY DEF IInv, Ended, NothingDropped
<1> QED
  BY <1>1, Inductive, PTL

(* Every chunk moves the parser forward, and not out of its block.         *)
THEOREM ChunksMoveOn == Spec => MovesOn
<1>1. IInv /\ [Next]_vars => [phase = "take" => pos' \in (pos + 1) .. end]_vars
  <2> SUFFICES ASSUME IInv, Next, phase = "take"
               PROVE  pos' \in (pos + 1) .. end
    OBVIOUS
  <2>1. TakeResult
    BY DEF Next, BeginBlock, FillNext, FillDone, StartChunk, ExpandPosition, SinglePosition, Turn,
           ChunkDone, GreedyStep, NextIteration, BlockDone, SourceDone
  <2> QED
    BY <2>1, TakeMoves
<1> QED
  BY <1>1, Inductive, PTL DEF Spec, MovesOn

=============================================================================
