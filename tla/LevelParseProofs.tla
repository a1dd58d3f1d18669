--------------------------- MODULE LevelParseProofs --------------------------
(***************************************************************************)
(* Proofs about the parsers of levels 0 to 4 and the quick parse of the    *)
(* splitter, for any source, any options and any size of the tables.       *)
(***************************************************************************)
EXTENDS LevelParse, NaturalLemmas, SequenceTheorems

(* Tables whose positions are all below k.                                 *)
Table(k) == [0 .. (Buckets - 1) -> [1 .. opts.entries -> 0 .. (k - 1)]]
Pair(k)  == [short : Table(k), long : Table(k)]

(* The n bytes at p are those at distance d, within reach and the block.   *)
Run(p, n, d) ==
  /\ d \in 1 .. p /\ d <= Farthest
  /\ p + n <= end
  /\ \A i \in 0 .. (n - 1) : Byte(p + i) = Byte(p + i - d)

Rep  == [1 .. 3 -> Nat \ {0}]
Step == [pos : Nat, length : Nat, distance : Nat]

Typed ==
  /\ src \in Sources /\ opts \in Options
  /\ start \in Nat /\ end \in Nat /\ pos \in Nat /\ litStart \in Nat
  /\ reps \in Rep /\ begin \in [reps : Rep]
  /\ steps \in Seq(Step)
  /\ acceleration \in Nat /\ acceleration >= Base
  /\ phase \in {"block", "search", "again", "done"}

(* In a block the plan ends where the literals begin, the tables have only *)
(* positions of the block that the parser has passed, and while repeats    *)
(* are looked for the last distance is one within reach.                   *)
InBlock ==
  phase \in {"search", "again"} =>
    /\ start < end /\ end <= CompressionLimit
    /\ start <= litStart /\ litStart <= pos
    /\ StepsTrue
    /\ \A i \in 1 .. Len(steps) : steps[i].pos + steps[i].length <= litStart
    /\ tables \in Pair(AtMost(pos, end))
    /\ phase = "again" => pos <= end /\ reps[1] \in 1 .. pos /\ reps[1] <= Farthest

(* Between blocks there is no plan, and a finder that the state keeps has  *)
(* no position of the next block.                                          *)
Between ==
  phase \in {"block", "done"} =>
    /\ steps = <<>>
    /\ owned => tables \in Pair(FirstPos)

IInv == Typed /\ InBlock /\ Between

-----------------------------------------------------------------------------
(* Bytes of the source in common.                                          *)

(* CommonLength is a number of bytes that agree.                           *)
LEMMA CommonBytes ==
  ASSUME NEW front \in Int, NEW back, NEW limit \in Int
  PROVE  LET n == CommonLength(front, back, limit)
         IN  /\ n \in 0 .. AtLeast(limit - front, 0)
             /\ \A i \in 0 .. (n - 1) : Byte(front + i) = Byte(back + i)
<1> DEFINE rest == AtLeast(limit - front, 0)
           Ends(n) == n = rest \/ Byte(front + n) # Byte(back + n)
           T == {n \in Nat : n <= rest /\ Ends(n)}
           Right(n) == /\ \A i \in 0 .. (n - 1) : Byte(front + i) = Byte(back + i)
                       /\ Ends(n)
<1>1. rest \in Nat
  BY DEF AtLeast
<1> HIDE DEF rest
<1>2. PICK n \in T : \A k \in T : n <= k
  <2>1. T \in SUBSET Nat /\ rest \in T
    BY <1>1
  <2> HIDE DEF T
  <2> QED
    BY <2>1, LeastNatural
<1>3. n \in 0 .. rest /\ Right(n)
  <2>1. n \in 0 .. rest /\ Ends(n)
    BY <1>1
  <2>2. ASSUME NEW i \in 0 .. (n - 1)
        PROVE  Byte(front + i) = Byte(back + i)
    <3>1. i \in Nat /\ i <= rest /\ ~(n <= i)
      BY <1>1, <2>1
    <3>2. i \notin T
      BY <1>2, <3>1
    <3>3. ~Ends(i)
      BY <3>1, <3>2
    <3> QED
      BY <3>3
  <2> QED
    BY <2>1, <2>2
<1>4. \E x \in 0 .. rest : Right(x)
  BY <1>3
<1>5. CommonLength(front, back, limit) = CHOOSE x \in 0 .. rest : Right(x)
  BY DEF CommonLength, rest
<1> HIDE DEF Right
<1>6. /\ CommonLength(front, back, limit) \in 0 .. rest
      /\ Right(CommonLength(front, back, limit))
  BY <1>4, <1>5, Zenon
<1> QED
  BY <1>6 DEF Right, rest

(* The numbers of bytes before p that agree with those at distance d, in a *)
(* run and inside the source.                                              *)
LeftOf(run, p, d) ==
  {n \in Nat : /\ n <= run /\ n <= p - d
               /\ \A i \in 1 .. n : Byte(p - i) = Byte(p - d - i)}

(* The extension to the left takes literals that agree. *)
LEMMA LeftBytes ==
  ASSUME NEW run \in Nat, NEW p \in Nat, NEW d \in Nat, d <= p
  PROVE  LeftPart(run, p, d) \in LeftOf(run, p, d)
<1> DEFINE rest == AtMost(run, p - d)
           Ends(n) == n = rest \/ Byte(p - n - 1) # Byte(p - d - n - 1)
           T == {n \in Nat : n <= rest /\ Ends(n)}
           Right(n) == /\ \A i \in 1 .. n : Byte(p - i) = Byte(p - d - i)
                       /\ Ends(n)
<1>1. rest \in Nat /\ rest <= run /\ rest <= p - d
  BY DEF AtMost
<1> HIDE DEF rest
<1>2. PICK n \in T : \A k \in T : n <= k
  <2>1. T \in SUBSET Nat /\ rest \in T
    BY <1>1
  <2> HIDE DEF T
  <2> QED
    BY <2>1, LeastNatural
<1>3. n \in 0 .. rest /\ Right(n)
  <2>1. n \in 0 .. rest /\ Ends(n)
    BY <1>1
  <2>2. ASSUME NEW i \in 1 .. n
        PROVE  Byte(p - i) = Byte(p - d - i)
    <3>1. i - 1 \in Nat /\ i - 1 <= rest /\ ~(n <= i - 1) /\ i - 1 # rest
      BY <1>1, <2>1
    <3>2. i - 1 \notin T
      BY <1>2, <3>1
    <3>3. ~Ends(i - 1)
      BY <3>1, <3>2
    <3>4. p - (i - 1) - 1 = p - i /\ p - d - (i - 1) - 1 = p - d - i
      BY <3>1
    <3> QED
      BY <3>3, <3>4
  <2> QED
    BY <2>1, <2>2
<1>4. \E x \in 0 .. rest : Right(x)
  BY <1>3
<1>5. LeftPart(run, p, d) = CHOOSE x \in 0 .. rest : Right(x)
  BY DEF LeftPart, rest
<1> HIDE DEF Right
<1>6. LeftPart(run, p, d) \in 0 .. rest /\ Right(LeftPart(run, p, d))
  BY <1>4, <1>5, Zenon
<1> QED
  BY <1>1, <1>6 DEF Right, LeftOf

(* A repeat that is found is a run.                                        *)
LEMMA RepeatRuns ==
  ASSUME NEW p \in Nat, NEW d \in Int, NEW least \in Nat, end \in Nat,
         Farthest \in Nat
  PROVE  /\ RepeatLength(p, d, least, end) \in Nat
         /\ RepeatLength(p, d, least, end) > 0 =>
              /\ Run(p, RepeatLength(p, d, least, end), d)
              /\ RepeatLength(p, d, least, end) >= least
<1> DEFINE n == CommonLength(p, p - d, end)
<1>1. /\ n \in 0 .. AtLeast(end - p, 0)
      /\ \A i \in 0 .. (n - 1) : Byte(p + i) = Byte(p - d + i)
  BY CommonBytes
<1>2. RepeatLength(p, d, least, end)
        = IF \/ d <= 0 \/ d > Farthest \/ d > p
             \/ p + least > end \/ n < least
          THEN 0 ELSE n
  BY DEF RepeatLength
<1> HIDE DEF n
<1>3. n \in Nat /\ (n > 0 => p + n <= end)
  BY <1>1 DEF AtLeast
<1>4. \A i \in 0 .. (n - 1) : p - d + i = p + i - d
  BY <1>3
<1>5. CASE \/ d <= 0 \/ d > Farthest \/ d > p
           \/ p + least > end \/ n < least
  BY <1>2, <1>5
<1>6. CASE ~(\/ d <= 0 \/ d > Farthest \/ d > p
             \/ p + least > end \/ n < least)
  <2>1. RepeatLength(p, d, least, end) = n
    BY <1>2, <1>6
  <2>2. d \in 1 .. p /\ d <= Farthest /\ n >= least
    BY <1>3, <1>6
  <2>3. \A i \in 0 .. (n - 1) : Byte(p + i) = Byte(p + i - d)
    BY <1>1, <1>4
  <2> QED
    BY <1>3, <2>1, <2>2, <2>3 DEF Run
<1> QED
  BY <1>5, <1>6

-----------------------------------------------------------------------------
(* The tables.                                                             *)

(* The constants and the options as numbers.                               *)
LEMMA Widths ==
  ASSUME opts \in Options
  PROVE  /\ Trail \in Nat /\ Trail >= 3 /\ Buckets \in Nat \ {0} /\ Farthest \in Nat \ {0}
         /\ Long \in Nat \ {0} /\ Long < Trail /\ Near \in Nat /\ Refill \in Nat \ {0}
         /\ Base \in Nat \ {0} /\ Patience \in Nat
         /\ opts.entries \in Nat \ {0} /\ opts.block \in Nat \ {0}
         /\ opts.short \in Nat /\ opts.short >= 2 /\ opts.short < Trail
         /\ opts.parser \in {"lazyfast", "lazy"} => opts.short >= 4
         /\ opts.parser # "lazy" => opts.entries = 1
<1>1. opts \in OptionsType
  BY LevelParseAssumption
<1>2. opts.entries \in Nat \ {0} /\ opts.block \in Nat \ {0} /\ opts.short \in Nat \ {0, 1}
  BY <1>1 DEF OptionsType
<1> QED
  BY <1>2, LevelParseAssumption, SourceBytesAssumption, MatchTablesAssumption,
     BlockPlanAssumption

(* Every word of naturals has a bucket.                                    *)
LEMMA HashOfWord ==
  ASSUME NEW p \in Nat, NEW n \in Nat, \A i \in 1 .. n : Byte(p + i - 1) \in Nat
  PROVE  Hash(p, n) \in 0 .. (Buckets - 1)
<1> DEFINE Solves(f) == f = [i \in 0 .. n |->
                              IF i = 0 THEN 0 ELSE f[i - 1] + Byte(p + i - 1)]
           sum[i \in 0 .. n] == IF i = 0 THEN 0 ELSE sum[i - 1] + Byte(p + i - 1)
           F == [i \in 1 .. n |-> [x \in Nat |-> x + Byte(p + i - 1)]]
<1>1. \A i \in 1 .. n : Byte(p + i - 1) \in Nat
  OBVIOUS
<1>2. F \in [1 .. n -> [Nat -> Nat]]
  <2>1. ASSUME NEW i \in 1 .. n
        PROVE  [x \in Nat |-> x + Byte(p + i - 1)] \in [Nat -> Nat]
    <3>1. PICK b \in Nat : b = Byte(p + i - 1)
      BY <1>1
    <3>2. [x \in Nat |-> x + b] \in [Nat -> Nat]
      OBVIOUS
    <3> QED
      BY <3>1, <3>2
  <2> QED
    BY <2>1
<1>3. PICK f \in [0 .. n -> Nat] :
        f[0] = 0 /\ \A i \in 1 .. n : f[i] = F[i][f[i - 1]]
  <2> DEFINE X == Nat
             x0 == 0
  <2>1. x0 \in X /\ F \in [1 .. n -> [X -> X]]
    BY <1>2
  <2> HIDE DEF F, X, x0
  <2>2. Recursive(X, x0, n, F) # {}
    BY <2>1, Recursion
  <2> QED
    BY <2>2 DEF Recursive, X, x0
<1>4. Solves(f)
  <2>1. \A i \in 0 .. n : f[i] = IF i = 0 THEN 0 ELSE f[i - 1] + Byte(p + i - 1)
    <3> TAKE i \in 0 .. n
    <3>1. CASE i = 0
      BY <3>1, <1>3
    <3>2. CASE i # 0
      <4>1. i \in 1 .. n /\ i - 1 \in 0 .. n
        BY <3>2
      <4>2. f[i - 1] \in Nat
        BY <4>1, <1>3
      <4>3. f[i] = F[i][f[i - 1]]
        <5> HIDE DEF F
        <5> QED
          BY <3>2, <1>3
      <4> QED
        BY <3>2, <4>1, <4>2, <4>3
    <3> QED
      BY <3>1, <3>2
  <2>2. f = [i \in 0 .. n |-> f[i]]
    <3> HIDE DEF F
    <3> QED
      BY <1>3
  <2> QED
    BY <2>1, <2>2
<1>5. Hash(p, n) = sum[n] % Buckets
  BY DEF Hash
<1>6. \A i \in 0 .. n : sum[i] = IF i = 0 THEN 0 ELSE sum[i - 1] + Byte(p + i - 1)
  <2>1. sum = CHOOSE g : Solves(g)
    OBVIOUS
  <2> HIDE DEF sum
  <2>2. Solves(sum)
    <3> HIDE DEF Solves
    <3> QED
      BY <1>4, <2>1, Zenon
  <2> QED
    BY <2>2
<1> HIDE DEF sum
<1> DEFINE T == {i \in 0 .. n : sum[i] \in Nat}
<1>7. 0 \in T
  BY <1>6
<1>8. ASSUME NEW i \in 0 .. (n - 1), i \in T
      PROVE  i + 1 \in T
  <2>1. i + 1 \in 0 .. n /\ i + 1 # 0 /\ i + 1 - 1 = i /\ i + 1 \in 1 .. n
    OBVIOUS
  <2>2. sum[i + 1] = sum[i] + Byte(p + (i + 1) - 1)
    BY <1>6, <2>1
  <2>3. Byte(p + (i + 1) - 1) \in Nat
    BY <1>1, <2>1
  <2>4. sum[i] \in Nat
    BY <1>8
  <2>5. sum[i + 1] \in Nat
    BY <2>2, <2>3, <2>4
  <2> QED
    BY <2>1, <2>5
<1>9. n \in T
  <2> HIDE DEF T
  <2>1. \A i \in 0 .. (n - 1) : i \in T => i + 1 \in T
    BY <1>8
  <2>2. \A i \in 0 .. n : i \in T
    BY <1>7, <2>1, UpTo
  <2> QED
    BY <2>2
<1>10. sum[n] \in Nat
  BY <1>9
<1>11. sum[n] % Buckets \in 0 .. (Buckets - 1)
  <2>1. \A x \in Nat : x % Buckets \in 0 .. (Buckets - 1)
    BY SourceBytesAssumption, ModRange
  <2> QED
    BY <1>10, <2>1
<1> QED
  BY <1>5, <1>11

(* A word inside the source is one of naturals.                            *)
LEMMA HashBucket ==
  ASSUME src \in Seq(Nat), NEW p \in Nat, NEW n \in Nat, p + n <= Len(src)
  PROVE  Hash(p, n) \in 0 .. (Buckets - 1)
<1>1. ASSUME NEW i \in 1 .. n
      PROVE  Byte(p + i - 1) \in Nat
  <2>1. p + i - 1 + 1 \in 1 .. Len(src)
    BY LenProperties
  <2> QED
    BY <2>1, ElementOfSeq DEF Byte
<1> QED
  BY <1>1, HashOfWord

(* A table has the positions it had before and those that are put into it. *)
LEMMA PutBelow ==
  ASSUME src \in Seq(Nat), opts \in Options, NEW k \in Nat, NEW t \in Table(k),
         NEW p \in 0 .. (k - 1), NEW n \in Nat, NEW e \in Int, e <= Len(src)
  PROVE  Put(t, p, n, e) \in Table(k)
<1>1. CASE p + n > e
  BY <1>1 DEF Put
<1>2. CASE ~(p + n > e)
  <2> DEFINE h == Hash(p, n)
             P == 0 .. (k - 1)
             m == opts.entries
             b == t[h]
             c == SubSeq(<<p>> \o b, 1, Len(b))
  <2>1. h \in 0 .. (Buckets - 1)
    BY <1>2, HashBucket, LenProperties
  <2>2. m \in Nat \ {0}
    BY Widths
  <2>3. b \in [1 .. m -> P]
    BY <2>1 DEF Table
  <2> HIDE DEF h, P, m, b
  <2>4. b \in Seq(P) /\ Len(b) = m
    BY <2>2, <2>3
  <2>5. p \in P
    BY DEF P
  <2>6. <<p>> \o b \in Seq(P) /\ Len(<<p>> \o b) = m + 1
    <3>1. <<p>> \in Seq(P) /\ Len(<<p>>) = 1
      BY <2>5
    <3> QED
      BY <3>1, <2>2, <2>4, ConcatProperties
  <2>7. c \in [1 .. m -> P]
    <3>1. c \in Seq(P) /\ Len(c) = m
      BY <2>2, <2>4, <2>6, SubSeqProperties
    <3> HIDE DEF c
    <3> QED
      BY <3>1, SeqDef, <2>2
  <2>8. Put(t, p, n, e) = [t EXCEPT ![h] = c]
    BY <1>2 DEF Put, h, b
  <2> HIDE DEF c
  <2>9. t \in [0 .. (Buckets - 1) -> [1 .. m -> P]]
    BY DEF Table, m, P
  <2>10. [t EXCEPT ![h] = c] \in [0 .. (Buckets - 1) -> [1 .. m -> P]]
    BY <2>1, <2>7, <2>9
  <2> QED
    BY <2>8, <2>10 DEF Table, m, P
<1> QED
  BY <1>1, <1>2

(* What one position keeps, a list of positions keeps.                     *)
LEMMA PutAllKeeps ==
  ASSUME NEW X, NEW t \in X, NEW n, NEW e,
         NEW list, NEW m \in Nat, m = Len(list),
         \A x \in X : \A i \in 1 .. m : Put(x, list[i], n, e) \in X
  PROVE  PutAll(t, list, n, e) \in X
<1> DEFINE Solves(f) == f = [i \in 0 .. m |-> IF i = 0 THEN t ELSE Put(f[i - 1], list[i], n, e)]
           put[i \in 0 .. m] == IF i = 0 THEN t ELSE Put(put[i - 1], list[i], n, e)
           F == [i \in 1 .. m |-> [x \in X |-> Put(x, list[i], n, e)]]
<1>1. F \in [1 .. m -> [X -> X]]
  <2>1. ASSUME NEW i \in 1 .. m
        PROVE  [x \in X |-> Put(x, list[i], n, e)] \in [X -> X]
    OBVIOUS
  <2> QED
    BY <2>1
<1>2. PICK f \in [0 .. m -> X] :
        f[0] = t /\ \A i \in 1 .. m : f[i] = F[i][f[i - 1]]
  <2> DEFINE x0 == t
  <2>1. x0 \in X
    OBVIOUS
  <2> HIDE DEF F, x0
  <2>2. Recursive(X, x0, m, F) # {}
    BY <1>1, <2>1, Recursion
  <2> QED
    BY <2>2 DEF Recursive, x0
<1>3. Solves(f)
  <2>1. \A i \in 0 .. m : f[i] = IF i = 0 THEN t ELSE Put(f[i - 1], list[i], n, e)
    <3> TAKE i \in 0 .. m
    <3>1. CASE i = 0
      BY <3>1, <1>2
    <3>2. CASE i # 0
      <4>1. i \in 1 .. m /\ i - 1 \in 0 .. m
        BY <3>2
      <4>2. f[i - 1] \in X
        BY <4>1, <1>2
      <4>3. f[i] = F[i][f[i - 1]]
        <5> HIDE DEF F
        <5> QED
          BY <4>1, <1>2
      <4> QED
        BY <3>2, <4>1, <4>2, <4>3
    <3> QED
      BY <3>1, <3>2
  <2>2. f = [i \in 0 .. m |-> f[i]]
    <3> HIDE DEF F
    <3> QED
      BY <1>2
  <2> QED
    BY <2>1, <2>2
<1>4. PutAll(t, list, n, e) = put[m]
  BY DEF PutAll
<1>5. \A i \in 0 .. m : put[i] = IF i = 0 THEN t ELSE Put(put[i - 1], list[i], n, e)
  <2>1. put = CHOOSE g : Solves(g)
    OBVIOUS
  <2> HIDE DEF put
  <2>2. Solves(put)
    <3> HIDE DEF Solves
    <3> QED
      BY <1>3, <2>1, Zenon
  <2> QED
    BY <2>2
<1> HIDE DEF put
<1> DEFINE S == {i \in 0 .. m : put[i] \in X}
<1>6. 0 \in S
  <2>1. put[0] = t
    BY <1>5
  <2> QED
    BY <2>1
<1>7. ASSUME NEW i \in 0 .. (m - 1), i \in S
      PROVE  i + 1 \in S
  <2>1. i + 1 \in 0 .. m /\ i + 1 # 0 /\ i + 1 - 1 = i /\ i + 1 \in 1 .. m
    OBVIOUS
  <2>2. put[i + 1] = Put(put[i], list[i + 1], n, e)
    BY <1>5, <2>1
  <2>3. put[i] \in X
    BY <1>7
  <2>4. put[i + 1] \in X
    BY <2>1, <2>2, <2>3
  <2> QED
    BY <2>1, <2>4
<1>8. m \in S
  <2> HIDE DEF S
  <2>1. \A i \in 0 .. (m - 1) : i \in S => i + 1 \in S
    BY <1>7
  <2>2. \A i \in 0 .. m : i \in S
    BY <1>6, <2>1, UpTo
  <2> QED
    BY <2>2
<1> QED
  BY <1>4, <1>8

(* What one candidate keeps, the longest of a bucket keeps.                *)
LEMMA LongestKeeps ==
  ASSUME NEW X, NEW w \in X, NEW p, NEW least, NEW e,
         NEW list, NEW m \in Nat, m = Len(list),
         \A x \in X : \A i \in 1 .. m : Better(x, p, list[i], least, e) \in X
  PROVE  Longest(w, p, list, least, e) \in X
<1> DEFINE Solves(f) == f = [i \in 0 .. m |-> IF i = 0 THEN w ELSE Better(f[i - 1], p, list[i], least, e)]
           best[i \in 0 .. m] == IF i = 0 THEN w ELSE Better(best[i - 1], p, list[i], least, e)
           F == [i \in 1 .. m |-> [x \in X |-> Better(x, p, list[i], least, e)]]
<1>1. F \in [1 .. m -> [X -> X]]
  <2>1. ASSUME NEW i \in 1 .. m
        PROVE  [x \in X |-> Better(x, p, list[i], least, e)] \in [X -> X]
    OBVIOUS
  <2> QED
    BY <2>1
<1>2. PICK f \in [0 .. m -> X] :
        f[0] = w /\ \A i \in 1 .. m : f[i] = F[i][f[i - 1]]
  <2> DEFINE x0 == w
  <2>1. x0 \in X
    OBVIOUS
  <2> HIDE DEF F, x0
  <2>2. Recursive(X, x0, m, F) # {}
    BY <1>1, <2>1, Recursion
  <2> QED
    BY <2>2 DEF Recursive, x0
<1>3. Solves(f)
  <2>1. \A i \in 0 .. m : f[i] = IF i = 0 THEN w ELSE Better(f[i - 1], p, list[i], least, e)
    <3> TAKE i \in 0 .. m
    <3>1. CASE i = 0
      BY <3>1, <1>2
    <3>2. CASE i # 0
      <4>1. i \in 1 .. m /\ i - 1 \in 0 .. m
        BY <3>2
      <4>2. f[i - 1] \in X
        BY <4>1, <1>2
      <4>3. f[i] = F[i][f[i - 1]]
        <5> HIDE DEF F
        <5> QED
          BY <4>1, <1>2
      <4> QED
        BY <3>2, <4>1, <4>2, <4>3
    <3> QED
      BY <3>1, <3>2
  <2>2. f = [i \in 0 .. m |-> f[i]]
    <3> HIDE DEF F
    <3> QED
      BY <1>2
  <2> QED
    BY <2>1, <2>2
<1>4. Longest(w, p, list, least, e) = best[m]
  BY DEF Longest
<1>5. \A i \in 0 .. m : best[i] = IF i = 0 THEN w ELSE Better(best[i - 1], p, list[i], least, e)
  <2>1. best = CHOOSE g : Solves(g)
    OBVIOUS
  <2> HIDE DEF best
  <2>2. Solves(best)
    <3> HIDE DEF Solves
    <3> QED
      BY <1>3, <2>1, Zenon
  <2> QED
    BY <2>2
<1> HIDE DEF best
<1> DEFINE S == {i \in 0 .. m : best[i] \in X}
<1>6. 0 \in S
  <2>1. best[0] = w
    BY <1>5
  <2> QED
    BY <2>1
<1>7. ASSUME NEW i \in 0 .. (m - 1), i \in S
      PROVE  i + 1 \in S
  <2>1. i + 1 \in 0 .. m /\ i + 1 # 0 /\ i + 1 - 1 = i /\ i + 1 \in 1 .. m
    OBVIOUS
  <2>2. best[i + 1] = Better(best[i], p, list[i + 1], least, e)
    BY <1>5, <2>1
  <2>3. best[i] \in X
    BY <1>7
  <2>4. best[i + 1] \in X
    BY <2>1, <2>2, <2>3
  <2> QED
    BY <2>1, <2>4
<1>8. m \in S
  <2> HIDE DEF S
  <2>1. \A i \in 0 .. (m - 1) : i \in S => i + 1 \in S
    BY <1>7
  <2>2. \A i \in 0 .. m : i \in S
    BY <1>6, <2>1, UpTo
  <2> QED
    BY <2>2
<1> QED
  BY <1>4, <1>8

(* What one candidate keeps, the worthiest of a bucket keeps.              *)
LEMMA WorthiestKeeps ==
  ASSUME NEW X, NoMatch \in X, NEW p, NEW short, NEW repeat, NEW e,
         NEW list, NEW m \in Nat, m = Len(list),
         \A x \in X : \A i \in 1 .. m : Worth(x, p, list[i], short, repeat, e) \in X
  PROVE  Worthiest(p, list, short, repeat, e) \in X
<1> DEFINE Solves(f) == f = [i \in 0 .. m |-> IF i = 0 THEN NoMatch ELSE Worth(f[i - 1], p, list[i], short, repeat, e)]
           best[i \in 0 .. m] == IF i = 0 THEN NoMatch ELSE Worth(best[i - 1], p, list[i], short, repeat, e)
           F == [i \in 1 .. m |-> [x \in X |-> Worth(x, p, list[i], short, repeat, e)]]
<1>1. F \in [1 .. m -> [X -> X]]
  <2>1. ASSUME NEW i \in 1 .. m
        PROVE  [x \in X |-> Worth(x, p, list[i], short, repeat, e)] \in [X -> X]
    OBVIOUS
  <2> QED
    BY <2>1
<1>2. PICK f \in [0 .. m -> X] :
        f[0] = NoMatch /\ \A i \in 1 .. m : f[i] = F[i][f[i - 1]]
  <2> DEFINE x0 == NoMatch
  <2>1. x0 \in X
    OBVIOUS
  <2> HIDE DEF F, x0
  <2>2. Recursive(X, x0, m, F) # {}
    BY <1>1, <2>1, Recursion
  <2> QED
    BY <2>2 DEF Recursive, x0
<1>3. Solves(f)
  <2>1. \A i \in 0 .. m : f[i] = IF i = 0 THEN NoMatch ELSE Worth(f[i - 1], p, list[i], short, repeat, e)
    <3> TAKE i \in 0 .. m
    <3>1. CASE i = 0
      BY <3>1, <1>2
    <3>2. CASE i # 0
      <4>1. i \in 1 .. m /\ i - 1 \in 0 .. m
        BY <3>2
      <4>2. f[i - 1] \in X
        BY <4>1, <1>2
      <4>3. f[i] = F[i][f[i - 1]]
        <5> HIDE DEF F
        <5> QED
          BY <4>1, <1>2
      <4> QED
        BY <3>2, <4>1, <4>2, <4>3
    <3> QED
      BY <3>1, <3>2
  <2>2. f = [i \in 0 .. m |-> f[i]]
    <3> HIDE DEF F
    <3> QED
      BY <1>2
  <2> QED
    BY <2>1, <2>2
<1>4. Worthiest(p, list, short, repeat, e) = best[m]
  BY DEF Worthiest
<1>5. \A i \in 0 .. m : best[i] = IF i = 0 THEN NoMatch ELSE Worth(best[i - 1], p, list[i], short, repeat, e)
  <2>1. best = CHOOSE g : Solves(g)
    OBVIOUS
  <2> HIDE DEF best
  <2>2. Solves(best)
    <3> HIDE DEF Solves
    <3> QED
      BY <1>3, <2>1, Zenon
  <2> QED
    BY <2>2
<1> HIDE DEF best
<1> DEFINE S == {i \in 0 .. m : best[i] \in X}
<1>6. 0 \in S
  <2>1. best[0] = NoMatch
    BY <1>5
  <2> QED
    BY <2>1
<1>7. ASSUME NEW i \in 0 .. (m - 1), i \in S
      PROVE  i + 1 \in S
  <2>1. i + 1 \in 0 .. m /\ i + 1 # 0 /\ i + 1 - 1 = i /\ i + 1 \in 1 .. m
    OBVIOUS
  <2>2. best[i + 1] = Worth(best[i], p, list[i + 1], short, repeat, e)
    BY <1>5, <2>1
  <2>3. best[i] \in X
    BY <1>7
  <2>4. best[i + 1] \in X
    BY <2>1, <2>2, <2>3
  <2> QED
    BY <2>1, <2>4
<1>8. m \in S
  <2> HIDE DEF S
  <2>1. \A i \in 0 .. (m - 1) : i \in S => i + 1 \in S
    BY <1>7
  <2>2. \A i \in 0 .. m : i \in S
    BY <1>6, <2>1, UpTo
  <2> QED
    BY <2>2
<1> QED
  BY <1>4, <1>8

(* Positions that are all below k.                                         *)
Below(list, k) == Len(list) \in Nat /\ \A i \in 1 .. Len(list) : list[i] \in 0 .. (k - 1)

(* They leave the table below k.                                           *)
LEMMA PutAllBelow ==
  ASSUME src \in Seq(Nat), opts \in Options, NEW k \in Nat, NEW t \in Table(k),
         NEW list, Below(list, k), NEW n \in Nat, NEW e \in Int, e <= Len(src)
  PROVE  PutAll(t, list, n, e) \in Table(k)
<1> DEFINE X == Table(k)
           m == Len(list)
<1>1. \A x \in X : \A i \in 1 .. m : Put(x, list[i], n, e) \in X
  BY PutBelow DEF Below
<1>2. t \in X /\ m \in Nat /\ m = Len(list)
  BY DEF Below
<1> HIDE DEF X, m
<1>3. PutAll(t, list, n, e) \in X
  BY <1>1, <1>2, PutAllKeeps
<1> QED
  BY <1>3 DEF X

(* Positions one after another.                                            *)
LEMMA RowBelow ==
  ASSUME NEW a \in Nat, NEW b \in Int, NEW k \in Nat, b <= k - 1
  PROVE  Below(Interval(a, b), k)
<1> DEFINE m == AtLeast(b - a + 1, 0)
           s == [i \in 1 .. m |-> a + i - 1]
<1>1. m \in Nat /\ (m > 0 => a + m - 1 = b)
  BY DEF AtLeast
<1>2. Interval(a, b) = s
  BY DEF Interval
<1> HIDE DEF m
<1>3. s \in [1 .. m -> Nat]
  BY <1>1
<1>4. Len(s) = m
  <2> HIDE DEF s
  <2> QED
    BY <1>1, <1>3, SeqDef, LenProperties
<1>5. \A i \in 1 .. m : s[i] \in 0 .. (k - 1)
  BY <1>1
<1> HIDE DEF s
<1> QED
  BY <1>1, <1>2, <1>4, <1>5 DEF Below

(* A table with positions below k has none at k or behind it.              *)
LEMMA TableMore ==
  ASSUME NEW k \in Nat, NEW j \in Nat, k <= j
  PROVE  /\ \A t : t \in Table(k) => t \in Table(j)
         /\ \A t : t \in Pair(k) => t \in Pair(j)
<1>1. 0 .. (k - 1) \subseteq 0 .. (j - 1)
  OBVIOUS
<1>2. \A t : t \in Table(k) => t \in Table(j)
  BY <1>1 DEF Table
<1> QED
  BY <1>2 DEF Pair

-----------------------------------------------------------------------------
(* The candidates and what is found.                                       *)

(* The positions before p within reach, and 0 - 1.                         *)
Reach(p) == {x \in Int : x = 0 - 1 \/ (x \in 0 .. (p - 1) /\ p - x <= Farthest)}

(* The matches for p of at least so many bytes.                            *)
Matches(p, least) ==
  {w \in [at : Nat, length : Nat] : w.length >= least /\ Run(p, w.length, p - w.at)}

(* The candidates of a position are none or within reach of it. *)
LEMMA CandidatesReach ==
  ASSUME src \in Seq(Nat), opts \in Options, NEW k \in Nat, NEW t \in Table(k),
         NEW p \in Nat, NEW n \in Nat, p + n <= Len(src), NEW e
  PROVE  /\ DOMAIN Candidates(t, p, n, e) = 1 .. opts.entries
         /\ Len(Candidates(t, p, n, e)) = opts.entries
         /\ \A i \in 1 .. opts.entries : Candidates(t, p, n, e)[i] \in Reach(p)
<1> DEFINE m == opts.entries
           b == t[Hash(p, n)]
           c == [i \in DOMAIN b |->
                   IF p + n <= e /\ b[i] < p /\ p - b[i] <= Farthest THEN b[i] ELSE 0 - 1]
<1>1. Hash(p, n) \in 0 .. (Buckets - 1)
  BY HashBucket
<1>2. b \in [1 .. m -> 0 .. (k - 1)]
  BY <1>1 DEF Table
<1>3. m \in Nat \ {0} /\ Farthest \in Nat
  BY Widths
<1>4. Candidates(t, p, n, e) = c
  BY DEF Candidates
<1> HIDE DEF b, m
<1>5. \A i \in 1 .. m : c[i] \in Reach(p)
  <2> TAKE i \in 1 .. m
  <2>1. b[i] \in 0 .. (k - 1) /\ i \in DOMAIN b
    BY <1>2
  <2>2. c[i] = IF p + n <= e /\ b[i] < p /\ p - b[i] <= Farthest THEN b[i] ELSE 0 - 1
    BY <2>1
  <2> QED
    BY SMTT(60), <2>1, <2>2, <1>3 DEF Reach
<1>6. DOMAIN c = 1 .. m /\ c = [i \in 1 .. m |-> c[i]]
  BY <1>2
<1> HIDE DEF c
<1>7. c \in [1 .. m -> Reach(p)]
  BY <1>5, <1>6
<1>8. Len(c) = m
  BY <1>3, <1>7, SeqDef, LenProperties
<1> QED
  BY <1>4, <1>5, <1>6, <1>8 DEF m

(* A candidate is taken for a longer match, or not.                        *)
LEMMA BetterFinds ==
  ASSUME NEW p \in Nat, NEW prev \in Reach(p), NEW w \in [at : Nat, length : Nat],
         NEW least \in Nat, end \in Nat, Farthest \in Nat
  PROVE  \/ Better(w, p, prev, least, end) = w
         \/ /\ Better(w, p, prev, least, end) \in Matches(p, least)
            /\ Better(w, p, prev, least, end).length > w.length
            /\ Better(w, p, prev, least, end).at = prev
<1> DEFINE n == CommonLength(p, prev, end)
           b == [at |-> prev, length |-> n]
<1>1. Better(w, p, prev, least, end)
        = IF MayBeat(p, prev, w.length) /\ n >= least /\ n > w.length THEN b ELSE w
  BY DEF Better
<1>2. CASE MayBeat(p, prev, w.length) /\ n >= least /\ n > w.length
  <2>1. prev \in 0 .. (p - 1) /\ p - prev <= Farthest
    BY <1>2 DEF MayBeat, Reach
  <2>2. /\ n \in 0 .. AtLeast(end - p, 0)
        /\ \A i \in 0 .. (n - 1) : Byte(p + i) = Byte(prev + i)
    BY <2>1, CommonBytes
  <2> HIDE DEF n
  <2>3. n \in Nat /\ n > 0 /\ p + n <= end
    BY <1>2, <2>2 DEF AtLeast
  <2>4. \A i \in 0 .. (n - 1) : prev + i = p + i - (p - prev)
    BY <2>1
  <2>5. Run(p, n, p - prev)
    <3>1. \A i \in 0 .. (n - 1) : Byte(p + i) = Byte(p + i - (p - prev))
      BY <2>2, <2>4
    <3> QED
      BY <2>1, <2>3, <3>1 DEF Run
  <2>6. b \in Matches(p, least)
    BY <1>2, <2>1, <2>3, <2>5 DEF Matches
  <2> QED
    BY <1>1, <1>2, <2>6
<1>3. CASE ~(MayBeat(p, prev, w.length) /\ n >= least /\ n > w.length)
  BY <1>1, <1>3
<1> QED
  BY <1>2, <1>3

(* The longest candidate of a bucket, if one is longer.                    *)
LEMMA LongestFinds ==
  ASSUME NEW p \in Nat, NEW w \in [at : Nat, length : Nat], NEW least \in Nat,
         end \in Nat, Farthest \in Nat, NEW list, NEW m \in Nat, m = Len(list),
         \A i \in 1 .. m : list[i] \in Reach(p)
  PROVE  \/ Longest(w, p, list, least, end) = w
         \/ /\ Longest(w, p, list, least, end) \in Matches(p, least)
            /\ Longest(w, p, list, least, end).length > w.length
<1> DEFINE X == {w} \cup {x \in Matches(p, least) : x.length > w.length}
<1>1. ASSUME NEW x \in X, NEW i \in 1 .. m
      PROVE  Better(x, p, list[i], least, end) \in X
  <2> DEFINE y == Better(x, p, list[i], least, end)
  <2>1. x \in [at : Nat, length : Nat] /\ x.length >= w.length
    BY DEF Matches
  <2>2. y = x \/ (y \in Matches(p, least) /\ y.length > x.length)
    BY <2>1, BetterFinds
  <2> HIDE DEF y
  <2>3. CASE y = x
    BY <2>3 DEF y
  <2>4. CASE y \in Matches(p, least) /\ y.length > x.length
    <3>1. y.length \in Nat
      BY <2>4 DEF Matches
    <3>2. y.length > w.length
      BY <2>1, <2>4, <3>1
    <3> QED
      BY <2>4, <3>2 DEF y
  <2> QED
    BY <2>2, <2>3, <2>4
<1>2. w \in X /\ \A x \in X : \A i \in 1 .. m : Better(x, p, list[i], least, end) \in X
  BY <1>1
<1> HIDE DEF X
<1>3. Longest(w, p, list, least, end) \in X
  BY <1>2, LongestKeeps
<1> QED
  BY <1>3 DEF X

(* The worthiest candidate of a bucket is a match, if there is one.        *)
LEMMA WorthiestFinds ==
  ASSUME NEW p \in Nat, NEW short \in Nat, NEW repeat \in Nat,
         end \in Nat, Farthest \in Nat, NEW list, NEW m \in Nat, m = Len(list),
         \A i \in 1 .. m : list[i] \in Reach(p)
  PROVE  Worthiest(p, list, short, repeat, end) \in {NoMatch} \cup Matches(p, short)
<1> DEFINE X == {NoMatch} \cup Matches(p, short)
<1>1. ASSUME NEW x \in X, NEW i \in 1 .. m
      PROVE  Worth(x, p, list[i], short, repeat, end) \in X
  <2> DEFINE least == AtLeast(short, repeat + 2)
             y == Better(x, p, list[i], least, end)
  <2>1. least \in Nat /\ least >= short
    BY DEF AtLeast
  <2>2. x \in [at : Nat, length : Nat]
    BY DEF Matches, NoMatch
  <2>3. Worth(x, p, list[i], short, repeat, end) \in {x, y}
    BY DEF Worth
  <2> HIDE DEF least
  <2>4. y = x \/ y \in Matches(p, least)
    BY <2>1, <2>2, BetterFinds
  <2>5. Matches(p, least) \subseteq Matches(p, short)
    BY <2>1 DEF Matches
  <2> QED
    BY <2>3, <2>4, <2>5
<1>2. NoMatch \in X /\ \A x \in X : \A i \in 1 .. m :
        Worth(x, p, list[i], short, repeat, end) \in X
  BY <1>1
<1> HIDE DEF X
<1>3. Worthiest(p, list, short, repeat, end) \in X
  BY <1>2, WorthiestKeeps
<1> QED
  BY <1>3 DEF X

-----------------------------------------------------------------------------
(* The finder of the lazy levels.                                          *)

(* Words at p can be read for both tables.                                 *)
Reads(p) == p + opts.short <= Len(src) /\ p + Long <= Len(src) /\ end <= Len(src)

(* Both tables take p.                                                     *)
LEMMA PutBoth ==
  ASSUME src \in Seq(Nat), opts \in Options, end \in Nat, NEW k \in Nat, NEW t \in Pair(k),
         NEW p \in 0 .. (k - 1), Reads(p)
  PROVE  /\ Put(t.short, p, opts.short, end) \in Table(k)
         /\ Put(t.long, p, Long, end) \in Table(k)
<1>1. t.short \in Table(k) /\ t.long \in Table(k)
  BY DEF Pair
<1>2. opts.short \in Nat /\ Long \in Nat /\ end \in Int /\ end <= Len(src)
  BY Widths DEF Reads
<1> QED
  BY <1>1, <1>2, PutBelow

(* find: both tables take p, and a match that is returned is one.          *)
LEMMA FindLazyFinds ==
  ASSUME src \in Seq(Nat), opts \in Options, end \in Nat, NEW k \in Nat, NEW t \in Pair(k),
         NEW p \in 0 .. (k - 1), Reads(p), NEW repeat \in Nat
  PROVE  /\ FindLazy(t, p, end, opts.short, repeat).tables \in Pair(k)
         /\ FindLazy(t, p, end, opts.short, repeat).match \in {NoMatch} \cup Matches(p, opts.short)
<1> DEFINE few    == Candidates(t.short, p, opts.short, end)
           many   == Candidates(t.long, p, Long, end)
           found  == Worthiest(p, few, opts.short, repeat, end)
           second == Longest(found, p, many, Long, end)
           s == Put(t.short, p, opts.short, end)
           l == Put(t.long, p, Long, end)
           M == Matches(p, opts.short)
<1>1. t \in [short : Table(k), long : Table(k)]
  BY DEF Pair
<1>2. /\ opts.short \in Nat /\ Long \in Nat /\ Farthest \in Nat /\ opts.entries \in Nat
      /\ p + opts.short <= Len(src) /\ p + Long <= Len(src)
  BY Widths DEF Reads
<1>3. s \in Table(k) /\ l \in Table(k)
  BY PutBoth
<1>4. /\ Len(few) = opts.entries /\ \A i \in 1 .. opts.entries : few[i] \in Reach(p)
      /\ Len(many) = opts.entries /\ \A i \in 1 .. opts.entries : many[i] \in Reach(p)
  BY SMTT(60), <1>1, <1>2, CandidatesReach
<1> HIDE DEF few, many
<1>5. found \in {NoMatch} \cup M
  BY SMTT(60), <1>2, <1>4, WorthiestFinds
<1> HIDE DEF found
<1>6. FindLazy(t, p, end, opts.short, repeat)
        = IF found = NoMatch
          THEN [tables |-> [t EXCEPT !.short = s], match |-> NoMatch]
          ELSE [tables |-> [[t EXCEPT !.short = s] EXCEPT !.long = l], match |-> second]
  <2>1. t.long = [t EXCEPT !.short = s].long
    BY <1>1
  <2> QED
    BY <1>1, <2>1 DEF FindLazy, found, few, many
<1> HIDE DEF s, l
<1>7. [t EXCEPT !.short = s] \in Pair(k) /\ [[t EXCEPT !.short = s] EXCEPT !.long = l] \in Pair(k)
  BY <1>1, <1>3 DEF Pair
<1>8. CASE found = NoMatch
  BY <1>6, <1>7, <1>8
<1>9. CASE found # NoMatch
  <2>1. found \in M /\ found \in [at : Nat, length : Nat] /\ found.length >= opts.short
    BY <1>5, <1>9 DEF Matches
  <2>2. second = found \/ (second \in Matches(p, Long) /\ second.length > found.length)
    BY SMTT(60), <1>2, <1>4, <2>1, LongestFinds
  <2> HIDE DEF second
  <2>3. second \in M
    <3>1. CASE second = found
      BY <2>1, <3>1
    <3>2. CASE second \in Matches(p, Long) /\ second.length > found.length
      BY SMTT(60), <1>2, <2>1, <3>2 DEF Matches
    <3> QED
      BY <2>2, <3>1, <3>2
  <2> QED
    BY <1>6, <1>7, <1>9, <2>3
<1> QED
  BY <1>8, <1>9

(* findLazy1: what was found before, or a longer match at p.               *)
LEMMA NextLazyFinds ==
  ASSUME src \in Seq(Nat), opts \in Options, end \in Nat, NEW k \in Nat, NEW t \in Pair(k),
         NEW p \in 0 .. (k - 1), Reads(p), NEW w \in [at : Nat, length : Nat]
  PROVE  LET f == NextLazy(t, p, end, opts.short, w)
         IN  /\ f.tables \in Pair(k)
             /\ \/ f.match = w
                \/ f.match \in Matches(p, opts.short) /\ f.match.length > w.length
<1> DEFINE few    == Candidates(t.short, p, opts.short, end)
           many   == Candidates(t.long, p, Long, end)
           m      == opts.entries
           chosen == [i \in DOMAIN few |-> IF MayBeat(p, many[i], w.length) THEN many[i] ELSE few[i]]
<1>1. t.short \in Table(k) /\ t.long \in Table(k)
  BY DEF Pair
<1>2. /\ opts.short \in Nat /\ Long \in Nat /\ Farthest \in Nat /\ m \in Nat
      /\ p + opts.short <= Len(src) /\ p + Long <= Len(src)
  BY Widths DEF Reads
<1>3. DOMAIN few = 1 .. m /\ \A i \in 1 .. m : few[i] \in Reach(p)
  BY SMTT(60), <1>1, <1>2, CandidatesReach
<1>4. \A i \in 1 .. m : many[i] \in Reach(p)
  BY SMTT(60), <1>1, <1>2, CandidatesReach
<1>5. NextLazy(t, p, end, opts.short, w)
        = [tables |-> [short |-> Put(t.short, p, opts.short, end),
                       long  |-> Put(t.long, p, Long, end)],
           match  |-> Longest(w, p, chosen, opts.short, end)]
  BY DEF NextLazy
<1> HIDE DEF few, many, m
<1>6. chosen \in [1 .. m -> Reach(p)]
  BY <1>3, <1>4
<1> HIDE DEF chosen
<1>7. Len(chosen) = m /\ \A i \in 1 .. m : chosen[i] \in Reach(p)
  BY <1>2, <1>6, SeqDef, LenProperties
<1>8. \/ Longest(w, p, chosen, opts.short, end) = w
      \/ /\ Longest(w, p, chosen, opts.short, end) \in Matches(p, opts.short)
         /\ Longest(w, p, chosen, opts.short, end).length > w.length
  BY SMTT(60), <1>2, <1>7, LongestFinds
<1>9. [short |-> Put(t.short, p, opts.short, end), long |-> Put(t.long, p, Long, end)] \in Pair(k)
  BY PutBoth DEF Pair
<1> QED
  BY <1>5, <1>8, <1>9

(* findLazy2: what was found before, or a longer match at p.               *)
LEMMA LastLazyFinds ==
  ASSUME src \in Seq(Nat), opts \in Options, end \in Nat, NEW k \in Nat, NEW t \in Pair(k),
         NEW p \in 0 .. (k - 1), Reads(p), NEW w \in [at : Nat, length : Nat]
  PROVE  LET f == LastLazy(t, p, end, opts.short, w)
         IN  /\ f.tables \in Pair(k)
             /\ \/ f.match = w
                \/ f.match \in Matches(p, Long) /\ f.match.length > w.length
<1> DEFINE many == Candidates(t.long, p, Long, end)
           m    == opts.entries
<1>1. t.long \in Table(k)
  BY DEF Pair
<1>2. /\ Long \in Nat /\ Farthest \in Nat /\ m \in Nat /\ p + Long <= Len(src)
  BY Widths DEF Reads
<1>3. Len(many) = m /\ \A i \in 1 .. m : many[i] \in Reach(p)
  BY SMTT(60), <1>1, <1>2, CandidatesReach
<1>4. LastLazy(t, p, end, opts.short, w)
        = [tables |-> [short |-> Put(t.short, p, opts.short, end),
                       long  |-> Put(t.long, p, Long, end)],
           match  |-> Longest(w, p, many, Long, end)]
  BY DEF LastLazy
<1> HIDE DEF many, m
<1>5. \/ Longest(w, p, many, Long, end) = w
      \/ /\ Longest(w, p, many, Long, end) \in Matches(p, Long)
         /\ Longest(w, p, many, Long, end).length > w.length
  BY <1>2, <1>3, LongestFinds
<1>6. [short |-> Put(t.short, p, opts.short, end), long |-> Put(t.long, p, Long, end)] \in Pair(k)
  BY PutBoth DEF Pair
<1> QED
  BY <1>4, <1>5, <1>6

-----------------------------------------------------------------------------
(* The plan.                                                               *)

(* What the invariant says while a block is parsed.                        *)
LEMMA Parsing ==
  ASSUME IInv, phase \in {"search", "again"}
  PROVE  /\ src \in Seq(Nat) /\ opts \in Options /\ reps \in Rep
         /\ start \in Nat /\ end \in Nat /\ pos \in Nat /\ litStart \in Nat
         /\ start <= litStart /\ litStart <= pos
         /\ Len(src) \in Nat /\ end + Trail <= Len(src)
         /\ tables \in Pair(AtMost(pos, end))
         /\ acceleration \in Nat /\ acceleration >= Base
<1>1. src \in Sources /\ Sources \subseteq Seq(Nat)
  BY BlockPlanAssumption DEF IInv, Typed
<1>2. src \in Seq(Nat)
  BY <1>1
<1>3. Len(src) \in Nat
  BY <1>2, LenProperties
<1>4. /\ opts \in Options /\ reps \in Rep /\ acceleration \in Nat /\ acceleration >= Base
      /\ start \in Nat /\ end \in Nat /\ pos \in Nat /\ litStart \in Nat
  BY DEF IInv, Typed
<1>5. /\ start <= litStart /\ litStart <= pos /\ end <= CompressionLimit
      /\ tables \in Pair(AtMost(pos, end))
  BY DEF IInv, InBlock
<1>6. end + Trail <= Len(src)
  BY <1>3, <1>4, <1>5, SourceBytesAssumption DEF CompressionLimit
<1> QED
  BY <1>2, <1>3, <1>4, <1>5, <1>6

(* The words at a position and one behind a block can be read.             *)
LEMMA CanRead ==
  ASSUME opts \in Options, end \in Nat, Len(src) \in Nat, end + Trail <= Len(src),
         NEW p \in Nat, p <= end + 1
  PROVE  Reads(p)
<1>1. /\ Trail \in Nat /\ Long \in Nat /\ Long < Trail
      /\ opts.short \in Nat /\ opts.short < Trail
  BY Widths
<1> QED
  BY <1>1 DEF Reads

(* The two ways to say that a match is in the source.                      *)
LEMMA TrueRun ==
  ASSUME NEW p, NEW m
  PROVE  TrueMatch(p, m, end) <=> Run(p, m.length, m.distance)
BY DEF TrueMatch, Run

(* The recent distances after d.                                           *)
LEMMA RepsAfter ==
  ASSUME reps \in Rep, NEW d \in Nat \ {0}
  PROVE  Written(reps, d) \in Rep /\ Written(reps, d)[1] = d
<1>1. reps[1] \in Nat \ {0} /\ reps[2] \in Nat \ {0} /\ reps[3] \in Nat \ {0}
  BY DEF Rep
<1>2. CASE Written(reps, d) = reps /\ d = reps[1]
  BY <1>2
<1>3. ASSUME NEW a \in Nat \ {0}, NEW b \in Nat \ {0}, Written(reps, d) = <<d, a, b>>
      PROVE  Written(reps, d) \in Rep /\ Written(reps, d)[1] = d
  <2>1. <<d, a, b>> \in Rep /\ <<d, a, b>>[1] = d
    BY DEF Rep
  <2> QED
    BY <1>3, <2>1
<1>4. \/ Written(reps, d) = reps /\ d = reps[1]
      \/ Written(reps, d) = <<d, reps[2], reps[3]>>
      \/ Written(reps, d) = <<d, reps[1], reps[3]>>
      \/ Written(reps, d) = <<d, reps[1], reps[2]>>
  BY DEF Written, RepsWritten
<1> QED
  BY <1>1, <1>2, <1>3, <1>4

(* A match behind the plan makes it longer.                                *)
LEMMA PlanLonger ==
  ASSUME IInv, phase \in {"search", "again"}, NEW at \in Nat, NEW length \in Nat, NEW d \in Nat,
         litStart <= at, length >= 2, Run(at, length, d),
         steps' = Append(steps, [pos |-> at, length |-> length, distance |-> d]),
         UNCHANGED <<src, start, end>>
  PROVE  /\ steps' \in Seq(Step)
         /\ StepsTrue'
         /\ \A i \in 1 .. Len(steps') : steps'[i].pos + steps'[i].length <= at + length
<1> DEFINE s == [pos |-> at, length |-> length, distance |-> d]
           n == Len(steps)
<1>1. /\ steps \in Seq(Step) /\ n \in Nat /\ s \in Step
      /\ start \in Nat /\ litStart \in Nat /\ end \in Nat /\ start <= litStart
  BY LenProperties DEF IInv, Typed, InBlock, Step
<1>2. /\ StepsTrue
      /\ \A i \in 1 .. n : steps[i].pos + steps[i].length <= litStart
  BY DEF IInv, InBlock
<1> HIDE DEF s
<1>3. /\ steps' \in Seq(Step) /\ Len(steps') = n + 1 /\ steps'[n + 1] = s
      /\ \A i \in 1 .. n : steps'[i] = steps[i]
  <2>1. steps' = Append(steps, s)
    BY DEF s
  <2> QED
    BY <1>1, <2>1, AppendProperties
<1>4. DOMAIN steps = 1 .. n /\ DOMAIN steps' = 1 .. (n + 1)
  BY <1>1, <1>3, LenProperties
<1>5. s.pos = at /\ s.length = length /\ s.distance = d
  BY DEF s
<1>6. \A i \in 1 .. n : /\ steps[i].pos \in Nat /\ steps[i].length \in Nat
                        /\ steps[i].length >= 2
                        /\ TrueMatch(steps[i].pos, steps[i], end)
  <2> TAKE i \in 1 .. n
  <2>1. steps[i] \in Step
    BY <1>1, ElementOfSeq
  <2> QED
    BY <2>1, <1>2, <1>4 DEF Step, StepsTrue, Tiles
<1>7. \A i \in 1 .. Len(steps') : steps'[i].pos + steps'[i].length <= at + length
  <2> TAKE i \in 1 .. Len(steps')
  <2>1. CASE i = n + 1
    BY <1>3, <1>5, <2>1
  <2>2. CASE i # n + 1
    <3>1. i \in 1 .. n /\ steps'[i] = steps[i]
      BY <1>1, <1>3, <2>2
    <3> QED
      BY SMTT(60), <3>1, <1>1, <1>2, <1>6
  <2> QED
    BY <2>1, <2>2
<1>8. \A i \in 1 .. (n + 1) : TrueMatch(steps'[i].pos, steps'[i], end)
  <2> TAKE i \in 1 .. (n + 1)
  <2>1. CASE i = n + 1
    BY <1>3, <1>5, <2>1, TrueRun
  <2>2. CASE i # n + 1
    <3>1. i \in 1 .. n
      BY <1>1, <2>2
    <3> QED
      BY <3>1, <1>3, <1>6
  <2> QED
    BY <2>1, <2>2
<1>9. FirstPos \in Nat /\ FirstPos <= at
  BY <1>1 DEF FirstPos, Run
<1>10. Tiles(steps', FirstPos)
  <2>1. ASSUME NEW i \in 1 .. (n + 1)
        PROVE  /\ steps'[i].length >= 2
               /\ steps'[i].pos >= (IF i = 1 THEN FirstPos
                                    ELSE steps'[i - 1].pos + steps'[i - 1].length)
    <3>1. CASE i = n + 1
      <4>1. i # 1 => i - 1 \in 1 .. n /\ steps'[i - 1] = steps[i - 1]
        BY <1>1, <1>3, <3>1
      <4>2. i # 1 => steps'[i - 1].pos + steps'[i - 1].length <= at
        BY SMTT(60), <4>1, <1>1, <1>2, <1>6
      <4>3. steps'[i].pos = at /\ steps'[i].length = length
        BY <1>3, <1>5, <3>1
      <4>4. CASE i = 1
        BY <4>3, <4>4, <1>9
      <4>5. CASE i # 1
        <5>1. i - 1 \in 1 .. n /\ steps[i - 1].pos \in Nat /\ steps[i - 1].length \in Nat
          BY <4>1, <4>5, <1>6
        <5> QED
          BY <4>1, <4>2, <4>3, <4>5, <5>1
      <4> QED
        BY <4>4, <4>5
    <3>2. CASE i # n + 1
      <4>1. i \in 1 .. n /\ steps'[i] = steps[i]
        BY <1>1, <1>3, <3>2
      <4>2. i # 1 => i - 1 \in 1 .. n /\ steps'[i - 1] = steps[i - 1]
        BY <4>1, <1>1, <1>3
      <4>3. steps[i].pos >= (IF i = 1 THEN FirstPos
                             ELSE steps[i - 1].pos + steps[i - 1].length)
        BY <4>1, <1>2, <1>4 DEF StepsTrue, Tiles
      <4> QED
        BY <4>1, <4>2, <4>3, <1>6
    <3> QED
      BY <3>1, <3>2
  <2> QED
    BY <2>1, <1>4 DEF Tiles
<1>11. StepsTrue'
  <2>1. (\A i \in DOMAIN steps : TrueMatch(steps[i].pos, steps[i], end))'
    BY <1>4, <1>8 DEF TrueMatch, Byte
  <2>2. Tiles(steps, FirstPos)'
    BY <1>10 DEF FirstPos, Tiles
  <2> QED
    BY <2>1, <2>2 DEF StepsTrue
<1> QED
  BY <1>3, <1>7, <1>11

(* What a turn promises: the invariant, and progress.                      *)
Forward == pos' > pos \/ (phase = "again" /\ phase' = "search")

(* A match is written: the tables have nothing at its end or behind.       *)
LEMMA AfterWrite ==
  ASSUME IInv, phase \in {"search", "again"}, NEW at \in Nat, NEW length \in Nat, NEW d \in Nat,
         litStart <= at, length >= 2, Run(at, length, d), at + length > pos,
         Write(at, length, d), UNCHANGED blockVars,
         tables' \in Pair(at + length), acceleration' \in Nat, acceleration' >= Base,
         phase' \in {"search", "again"}
  PROVE  IInv' /\ Forward
<1>1. /\ steps' = Append(steps, [pos |-> at, length |-> length, distance |-> d])
      /\ reps' = Written(reps, d)
      /\ pos' = at + length /\ litStart' = at + length
  BY DEF Write
<1>2. UNCHANGED <<src, opts, start, end, begin, owned>>
  BY DEF blockVars, callVars
<1>3. /\ steps' \in Seq(Step) /\ StepsTrue'
      /\ \A i \in 1 .. Len(steps') : steps'[i].pos + steps'[i].length <= at + length
  BY <1>1, <1>2, PlanLonger
<1>4. /\ src \in Sources /\ opts \in Options /\ start \in Nat /\ end \in Nat
      /\ begin \in [reps : Rep] /\ reps \in Rep
      /\ start < end /\ end <= CompressionLimit /\ start <= litStart
      /\ litStart \in Nat
  BY DEF IInv, Typed, InBlock
<1>5. d \in 1 .. at /\ d <= Farthest /\ at + length <= end
  BY DEF Run
<1>6. reps' \in Rep /\ reps'[1] = d
  BY <1>1, <1>4, <1>5, RepsAfter
<1>7. Rep' = Rep /\ CompressionLimit' = CompressionLimit
  BY <1>2 DEF Rep, CompressionLimit
<1>8. Typed'
  <2>1. Step' = Step /\ at + length \in Nat
    BY DEF Step
  <2>2. pos' \in Nat /\ litStart' \in Nat
    BY <1>1, <2>1
  <2>3. phase' \in {"block", "search", "again", "done"}
    OBVIOUS
  <2> QED
    BY <1>2, <1>3, <1>4, <1>6, <1>7, <2>1, <2>2, <2>3 DEF Typed
<1>9. tables' \in Pair(AtMost(pos, end))'
  <2>1. AtMost(pos', end) = at + length
    BY <1>1, <1>4, <1>5 DEF AtMost
  <2>2. Pair(AtMost(pos, end))' = Pair(AtMost(pos', end))
    BY <1>2 DEF Pair, Table, AtMost
  <2> QED
    BY <2>1, <2>2
<1>10. InBlock'
  <2>1. start <= at + length /\ at + length \in Nat
    BY <1>4
  <2>2. at + length <= end /\ d \in 1 .. (at + length) /\ d <= Farthest
    BY <1>5
  <2> QED
    BY <1>1, <1>2, <1>3, <1>4, <1>6, <1>7, <1>9, <2>1, <2>2 DEF InBlock
<1>11. Between'
  BY DEF Between
<1>12. Forward
  BY <1>1 DEF Forward
<1> QED
  BY <1>8, <1>10, <1>11, <1>12 DEF IInv

(* A match with the literals before it that agree is a match.              *)
LEMMA LeftRun ==
  ASSUME litStart \in Nat, Farthest \in Nat, end \in Nat,
         NEW at \in Nat, litStart <= at, NEW least \in Nat, NEW m \in Matches(at, least)
  PROVE  LET left == LeftPart(at - litStart, at, at - m.at)
         IN  /\ left \in Nat /\ left <= at - litStart /\ m.length + left \in Nat
             /\ at - m.at \in Nat
             /\ at - left \in Nat /\ Run(at - left, m.length + left, at - m.at)
<1> DEFINE d == at - m.at
           left == LeftPart(at - litStart, at, d)
           n == m.length
<1>1. m.at \in Nat /\ n \in Nat /\ Run(at, n, d)
  BY DEF Matches
<1>2. d \in 1 .. at /\ d <= Farthest /\ at + n <= end
  BY <1>1 DEF Run
<1>3. \A i \in 0 .. (n - 1) : Byte(at + i) = Byte(at + i - d)
  BY <1>1 DEF Run
<1> HIDE DEF d, n
<1>4. /\ left \in Nat /\ left <= at - litStart /\ left <= at - d
      /\ \A i \in 1 .. left : Byte(at - i) = Byte(at - d - i)
  <2> DEFINE run == at - litStart
  <2>1. run \in Nat /\ d \in Nat /\ d <= at
    BY <1>2
  <2> HIDE DEF run
  <2>2. LeftPart(run, at, d) \in LeftOf(run, at, d)
    BY <2>1, LeftBytes
  <2> QED
    BY <2>2 DEF run, LeftOf
<1> HIDE DEF left
<1>5. ASSUME NEW i \in 0 .. (n + left - 1)
      PROVE  Byte(at - left + i) = Byte(at - left + i - d)
  <2>1. CASE i < left
    <3>1. left - i \in 1 .. left
      BY <1>4, <2>1
    <3>2. at - (left - i) = at - left + i /\ at - d - (left - i) = at - left + i - d
      BY <1>2, <1>4
    <3>3. Byte(at - (left - i)) = Byte(at - d - (left - i))
      BY <1>4, <3>1
    <3> QED
      BY <3>2, <3>3
  <2>2. CASE ~(i < left)
    <3>1. i - left \in 0 .. (n - 1)
      BY <1>1, <1>4, <2>2 DEF n
    <3>2. at + (i - left) = at - left + i /\ at + (i - left) - d = at - left + i - d
      BY <1>2, <1>4
    <3>3. Byte(at + (i - left)) = Byte(at + (i - left) - d)
      BY <1>3, <3>1
    <3> QED
      BY <3>2, <3>3
  <2> QED
    BY <2>1, <2>2
<1>6. n \in Nat /\ d \in Nat
  BY <1>1, <1>2 DEF n
<1>7. at - left \in Nat /\ d \in 1 .. (at - left) /\ at - left + (n + left) <= end
  BY <1>2, <1>4, <1>6
<1>8. Run(at - left, n + left, d)
  <2> DEFINE p == at - left
             l == n + left
  <2>1. \A i \in 0 .. (l - 1) : Byte(p + i) = Byte(p + i - d)
    BY <1>4, <1>5, <1>6, <1>7
  <2>2. d \in 1 .. p /\ d <= Farthest /\ p + l <= end
    BY <1>2, <1>7
  <2> HIDE DEF p, l
  <2>3. Run(p, l, d)
    BY <2>1, <2>2 DEF Run
  <2> QED
    BY <2>3 DEF p, l
<1> QED
  BY <1>4, <1>6, <1>7, <1>8 DEF n, d, left

(* A match that was found is written with those literals.                  *)
LEMMA AfterFound ==
  ASSUME IInv, phase \in {"search", "again"}, NEW at \in Nat, pos <= at,
         NEW m \in Matches(at, 2), WriteFound(at, m), UNCHANGED blockVars,
         tables' \in Pair(at + m.length), acceleration' \in Nat, acceleration' >= Base,
         phase' \in {"search", "again"}
  PROVE  IInv' /\ Forward
<1> DEFINE d == at - m.at
           left == LeftPart(at - litStart, at, d)
           n == m.length
<1>1. pos \in Nat /\ litStart \in Nat /\ litStart <= pos /\ end \in Nat /\ Farthest \in Nat
  BY Parsing, SourceBytesAssumption
<1>2. /\ left \in Nat /\ left <= at - litStart /\ n + left \in Nat /\ d \in Nat
      /\ at - left \in Nat /\ Run(at - left, n + left, d)
  <2>1. litStart <= at
    BY <1>1
  <2> QED
    BY <1>1, <2>1, LeftRun
<1>3. n \in Nat /\ n >= 2
  BY DEF Matches
<1>4. Write(at - left, n + left, d)
  BY DEF WriteFound
<1> HIDE DEF left, n, d
<1>5. (at - left) + (n + left) = at + n
  BY <1>2, <1>3
<1>6. /\ litStart <= at - left /\ n + left >= 2
      /\ (at - left) + (n + left) > pos
  BY <1>1, <1>2, <1>3, <1>5
<1>7. tables' \in Pair((at - left) + (n + left))
  BY <1>5 DEF n
<1> QED
  BY <1>2, <1>4, <1>6, <1>7, AfterWrite

(* Nothing is found: the tables may have the position, and the parser is   *)
(* behind it.                                                              *)
LEMMA AfterNothing ==
  ASSUME IInv, phase = "search", pos < end, NothingFound, UNCHANGED blockVars,
         tables' \in Pair(pos + 1), phase' = phase
  PROVE  IInv' /\ Forward
<1>1. /\ pos' = pos + AtLeast(acceleration \div Base, 1)
      /\ acceleration' = acceleration + 1
      /\ UNCHANGED <<steps, reps, litStart>>
  BY DEF NothingFound
<1>2. UNCHANGED <<src, opts, start, end, begin, owned>>
  BY DEF blockVars, callVars
<1>3. /\ src \in Sources /\ opts \in Options /\ start \in Nat /\ end \in Nat /\ pos \in Nat
      /\ begin \in [reps : Rep] /\ reps \in Rep /\ litStart \in Nat /\ steps \in Seq(Step)
      /\ acceleration \in Nat /\ acceleration >= Base
      /\ start < end /\ end <= CompressionLimit /\ start <= litStart /\ litStart <= pos
      /\ StepsTrue /\ \A i \in 1 .. Len(steps) : steps[i].pos + steps[i].length <= litStart
  BY DEF IInv, Typed, InBlock
<1>4. pos' \in Nat /\ pos' > pos
  <2>1. acceleration \div Base \in Nat
    BY <1>3, BlockPlanAssumption, DivMod
  <2> QED
    BY SMTT(60), <1>1, <1>3, <2>1 DEF AtLeast
<1>5. Rep' = Rep /\ Step' = Step /\ CompressionLimit' = CompressionLimit
  BY <1>2 DEF Rep, Step, CompressionLimit
<1>6. acceleration' \in Nat /\ acceleration' >= Base
  BY <1>1, <1>3, BlockPlanAssumption
<1>7. Typed'
  BY <1>1, <1>2, <1>3, <1>4, <1>5, <1>6 DEF Typed
<1>8. StepsTrue'
  BY <1>1, <1>2, <1>3 DEF StepsTrue, Tiles, TrueMatch, FirstPos, Byte
<1>9. tables' \in Pair(AtMost(pos, end))'
  <2>1. AtMost(pos', end) \in Nat /\ pos + 1 <= AtMost(pos', end) /\ pos + 1 \in Nat
    BY <1>3, <1>4 DEF AtMost
  <2>2. tables' \in Pair(AtMost(pos', end))
    BY <2>1, TableMore
  <2>3. Pair(AtMost(pos, end))' = Pair(AtMost(pos', end))
    BY <1>2 DEF Pair, Table, AtMost
  <2> QED
    BY <2>2, <2>3
<1>10. InBlock'
  BY <1>1, <1>2, <1>3, <1>4, <1>5, <1>8, <1>9 DEF InBlock
<1>11. Between'
  BY DEF Between
<1> QED
  BY <1>4, <1>7, <1>10, <1>11 DEF IInv, Forward

(* The repeats.                                                            *)
LEMMA RecentRuns ==
  ASSUME IInv, phase \in {"search", "again"}, NEW rep \in 1 .. 3, NEW p \in Nat, NEW least \in Nat
  PROVE  /\ reps[rep] \in Nat
         /\ RepeatLength(p, reps[rep], least, end) \in Nat
         /\ RepeatLength(p, reps[rep], least, end) > 0 =>
              /\ Run(p, RepeatLength(p, reps[rep], least, end), reps[rep])
              /\ RepeatLength(p, reps[rep], least, end) >= least
<1>1. reps \in Rep /\ end \in Nat /\ Farthest \in Nat
  BY Parsing, SourceBytesAssumption
<1>2. reps[rep] \in Nat
  BY <1>1 DEF Rep
<1> QED
  BY <1>1, <1>2, RepeatRuns

(* A repeat of an older distance is a run.                                 *)
LEMMA OlderRuns ==
  ASSUME IInv, phase \in {"search", "again"}, NEW least \in Nat
  PROVE  /\ Older(least, pos)[1] \in Nat /\ Older(least, pos)[2] \in Nat
         /\ Older(least, pos)[2] > 0 =>
              /\ Run(pos, Older(least, pos)[2], Older(least, pos)[1])
              /\ Older(least, pos)[2] >= least
<1> DEFINE two   == RepeatLength(pos, reps[2], least, end)
           three == RepeatLength(pos, reps[3], least, end)
<1>1. pos \in Nat
  BY Parsing
<1>2. /\ reps[2] \in Nat /\ two \in Nat
      /\ two > 0 => Run(pos, two, reps[2]) /\ two >= least
  BY <1>1, RecentRuns
<1>3. /\ reps[3] \in Nat /\ three \in Nat
      /\ three > 0 => Run(pos, three, reps[3]) /\ three >= least
  BY <1>1, RecentRuns
<1>4. Older(least, pos) = IF ~opts.advanced THEN <<0, 0>>
                          ELSE IF two > 0 THEN <<reps[2], two>> ELSE <<reps[3], three>>
  BY DEF Older
<1> HIDE DEF two, three
<1> QED
  BY <1>2, <1>3, <1>4

(* Other tables for a pair.                                                *)
LEMMA PairWith ==
  ASSUME NEW k, NEW t \in Pair(k), NEW s \in Table(k)
  PROVE  [t EXCEPT !.short = s] \in Pair(k)
BY DEF Pair

(* The tables while a block is parsed, for a later position.               *)
LEMMA TablesHere ==
  ASSUME IInv, phase \in {"search", "again"}, NEW k \in Nat, pos <= k
  PROVE  /\ tables \in Pair(k) /\ tables.short \in Table(k) /\ tables.long \in Table(k)
         /\ opts.short \in Nat /\ Long \in Nat
         /\ end \in Int /\ end <= Len(src) /\ Len(src) \in Int /\ Len(src) <= Len(src)
<1>1. /\ tables \in Pair(AtMost(pos, end)) /\ pos \in Nat /\ end \in Nat
      /\ Len(src) \in Nat /\ end + Trail <= Len(src) /\ opts \in Options
  BY Parsing
<1>2. AtMost(pos, end) \in Nat /\ AtMost(pos, end) <= k
  BY <1>1 DEF AtMost
<1>3. tables \in Pair(k)
  BY <1>1, <1>2, TableMore
<1>4. tables.short \in Table(k) /\ tables.long \in Table(k)
  BY <1>3 DEF Pair
<1>5. opts.short \in Nat /\ Long \in Nat /\ Trail \in Nat
  BY <1>1, Widths
<1> QED
  BY <1>1, <1>3, <1>4, <1>5

-----------------------------------------------------------------------------
(* The turns of levels 0 and 1.                                            *)

(* compressBlockLevel takes a repeat before it searches. *)
LEMMA GreedyRepeatTurn ==
  ASSUME IInv, GreedyRepeat
  PROVE  IInv' /\ Forward
<1> DEFINE n == GreedyLength
           k == pos + 1 + n
<1>1. /\ phase = "search" /\ phase' = phase /\ UNCHANGED blockVars
      /\ n > 0 /\ Write(pos + 1, n, reps[1]) /\ acceleration' = Base
      /\ tables' = [tables EXCEPT !.short = Put(tables.short, pos + 1, opts.short, end)]
  BY DEF GreedyRepeat, Turn
<1>2. pos \in Nat /\ litStart \in Nat /\ litStart <= pos /\ src \in Seq(Nat) /\ opts \in Options
  BY <1>1, Parsing
<1>3. n \in Nat /\ n >= 3 /\ reps[1] \in Nat /\ Run(pos + 1, n, reps[1])
  <2>1. n = RepeatLength(pos + 1, reps[1], 3, end)
    BY <1>1 DEF GreedyLength
  <2>2. pos + 1 \in Nat /\ 1 \in 1 .. 3 /\ 3 \in Nat
    BY <1>2
  <2> HIDE DEF n
  <2> QED
    BY <1>1, <2>1, <2>2, RecentRuns
<1> HIDE DEF n
<1>4. k \in Nat /\ pos <= k /\ pos + 1 \in 0 .. (k - 1)
  BY <1>2, <1>3
<1> HIDE DEF k
<1>5. tables' \in Pair(k)
  <2>1. Put(tables.short, pos + 1, opts.short, end) \in Table(k)
    BY <1>1, <1>2, <1>4, TablesHere, PutBelow
  <2> QED
    BY <1>1, <1>4, <2>1, TablesHere, PairWith
<1>6. acceleration' \in Nat /\ acceleration' >= Base
  BY <1>1, BlockPlanAssumption
<1>7. pos + 1 \in Nat /\ litStart <= pos + 1 /\ n >= 2 /\ pos + 1 + n > pos
  BY <1>2, <1>3
<1> QED
  BY <1>1, <1>3, <1>5, <1>6, <1>7, AfterWrite DEF k

(* It takes the last distance again behind a match. *)
LEMMA RecentAgainTurn ==
  ASSUME IInv, RecentAgain
  PROVE  IInv' /\ Forward
<1> DEFINE n == AgainLength
           at == AgainAt
           k == at + n
<1>1. /\ phase = "again" /\ phase' = phase /\ acceleration' = acceleration
      /\ UNCHANGED blockVars
      /\ n >= 3 /\ Write(at, n, reps[1])
      /\ tables' = [tables EXCEPT !.short =
                      PutAll(tables.short, <<at, at + 1>>, opts.short, end)]
  BY DEF RecentAgain
<1>2. /\ pos \in Nat /\ litStart \in Nat /\ litStart <= pos /\ src \in Seq(Nat) /\ opts \in Options
      /\ acceleration \in Nat /\ acceleration >= Base /\ end \in Nat
  BY <1>1, Parsing
<1>3. reps[1] \in 1 .. pos /\ reps[1] <= Farthest
  BY <1>1 DEF IInv, InBlock
<1>4. at \in Nat /\ pos < at
  BY <1>2 DEF AgainAt
<1>5. n \in Nat /\ Run(at, n, reps[1])
  <2>1. n = CommonLength(at, at - reps[1], end)
    BY <1>1 DEF AgainLength
  <2> HIDE DEF n, at
  <2>2. /\ n \in 0 .. AtLeast(end - at, 0)
        /\ \A i \in 0 .. (n - 1) : Byte(at + i) = Byte(at - reps[1] + i)
    BY <1>2, <1>3, <1>4, <2>1, CommonBytes
  <2>3. n \in Nat /\ n >= 3 /\ at + n <= end
    BY <1>1, <1>2, <1>4, <2>2 DEF AtLeast
  <2>4. \A i \in 0 .. (n - 1) : at - reps[1] + i = at + i - reps[1]
    BY <1>3, <1>4
  <2>5. reps[1] \in 1 .. at
    BY <1>2, <1>3, <1>4
  <2> QED
    BY <1>3, <2>2, <2>3, <2>4, <2>5 DEF Run
<1> HIDE DEF n, at
<1>6. k \in Nat /\ pos <= k /\ at \in 0 .. (k - 1) /\ at + 1 \in 0 .. (k - 1)
  BY SMTT(60), <1>1, <1>2, <1>4, <1>5
<1> HIDE DEF k
<1>7. tables' \in Pair(k)
  <2> DEFINE list == <<at, at + 1>>
  <2>1. Below(list, k)
    BY <1>6 DEF Below
  <2> HIDE DEF list
  <2>2. PutAll(tables.short, list, opts.short, end) \in Table(k)
    BY <1>1, <1>2, <1>6, <2>1, TablesHere, PutAllBelow
  <2> QED
    BY <1>1, <1>6, <2>2, TablesHere, PairWith DEF list
<1>8. litStart <= at /\ n >= 2 /\ at + n > pos /\ reps[1] \in Nat
  BY SMTT(60), <1>1, <1>2, <1>3, <1>4, <1>5
<1> QED
  BY <1>1, <1>2, <1>4, <1>5, <1>7, <1>8, AfterWrite DEF k

(* It takes an older distance behind a match. *)
LEMMA OlderAgainTurn ==
  ASSUME IInv, OlderAgain
  PROVE  IInv' /\ Forward
<1> DEFINE n == Older(4, pos)[2]
           d == Older(4, pos)[1]
<1>1. /\ phase = "again" /\ phase' \in {"search", "again"} /\ acceleration' = acceleration
      /\ UNCHANGED blockVars /\ tables' = tables /\ n > 0 /\ Write(pos, n, d)
  BY DEF OlderAgain
<1>2. /\ pos \in Nat /\ litStart \in Nat /\ litStart <= pos
      /\ acceleration \in Nat /\ acceleration >= Base
  BY <1>1, Parsing
<1>3. n \in Nat /\ d \in Nat /\ Run(pos, n, d) /\ n >= 4
  BY <1>1, OlderRuns
<1> HIDE DEF n, d
<1>4. pos + n \in Nat /\ pos <= pos + n /\ n >= 2 /\ pos + n > pos
  BY <1>2, <1>3
<1>5. tables' \in Pair(pos + n)
  BY <1>1, <1>4, TablesHere
<1> QED
  BY <1>1, <1>2, <1>3, <1>4, <1>5, AfterWrite

(* It leaves the loop over repeats. *)
LEMMA NotAgainTurn ==
  ASSUME IInv, NotAgain
  PROVE  IInv' /\ Forward
<1>1. /\ phase = "again" /\ phase' = "search"
      /\ UNCHANGED <<blockVars, tables, pos, litStart, reps, steps, acceleration>>
  BY DEF NotAgain
<1>2. UNCHANGED <<src, opts, start, end, begin, owned>>
  BY <1>1 DEF blockVars, callVars
<1>3. Typed'
  BY <1>1, <1>2 DEF IInv, Typed, Rep, Step
<1>4. InBlock'
  BY <1>1, <1>2 DEF IInv, InBlock, StepsTrue, Tiles, TrueMatch, FirstPos, Byte, AtMost, Pair,
     Table, CompressionLimit
<1>5. Between' /\ Forward
  BY <1>1 DEF Between, Forward
<1> QED
  BY <1>3, <1>4, <1>5 DEF IInv

(* The only candidate of a bucket of one.                                  *)
LEMMA FastFinds ==
  ASSUME IInv, phase = "search", pos < end
  PROVE  LET prev == Candidates(tables.short, pos, opts.short, end)[1]
         IN  Better(NoMatch, pos, prev, opts.short, end) \in {NoMatch} \cup Matches(pos, opts.short)
<1>1. /\ src \in Seq(Nat) /\ opts \in Options /\ pos \in Nat /\ end \in Nat
      /\ Len(src) \in Nat /\ end + Trail <= Len(src)
  BY Parsing
<1>2. /\ opts.entries \in Nat \ {0} /\ opts.short \in Nat /\ opts.short < Trail
      /\ Trail \in Nat /\ Farthest \in Nat
  BY <1>1, Widths
<1>3. tables.short \in Table(pos)
  BY <1>1, TablesHere
<1>4. pos + opts.short <= Len(src) /\ 1 \in 1 .. opts.entries
  BY SMTT(60), <1>1, <1>2
<1>5. Candidates(tables.short, pos, opts.short, end)[1] \in Reach(pos)
  BY <1>1, <1>2, <1>3, <1>4, CandidatesReach
<1>6. NoMatch \in [at : Nat, length : Nat]
  BY DEF NoMatch
<1> QED
  BY <1>1, <1>2, <1>5, <1>6, BetterFinds

(* addAfterMatch puts in positions inside the match only.                  *)
LEMMA AfterMatchBelow ==
  ASSUME IInv, phase = "search", NEW at \in Nat, NEW length \in Nat, NEW k \in Nat,
         k = at + length, pos <= k, NEW table \in Table(k)
  PROVE  AfterMatch(table, at, length) \in Table(k)
<1> DEFINE c == IF opts.parser = "greedy" THEN 4 ELSE 2
           q == AtMost(c, length - 1)
<1>1. AfterMatch(table, at, length) = PutAll(table, Interval(at + 1, at + q), opts.short, end)
  BY DEF AfterMatch
<1>2. q \in Int /\ q <= length - 1
  BY DEF AtMost
<1> HIDE DEF q
<1>3. Below(Interval(at + 1, at + q), k)
  <2> DEFINE a == at + 1
             b == at + q
  <2>1. a \in Nat /\ b \in Int /\ b <= k - 1
    BY <1>2
  <2> HIDE DEF a, b
  <2>2. Below(Interval(a, b), k)
    BY <2>1, RowBelow
  <2> QED
    BY <2>2 DEF a, b
<1>4. src \in Seq(Nat) /\ opts \in Options
  BY Parsing
<1> QED
  BY <1>1, <1>3, <1>4, TablesHere, PutAllBelow

(* It takes what one hash table has, or moves on. *)
LEMMA FastSearchTurn ==
  ASSUME IInv, FastSearch
  PROVE  IInv' /\ Forward
<1> DEFINE prev  == Candidates(tables.short, pos, opts.short, end)[1]
           m     == Better(NoMatch, pos, prev, opts.short, end)
           table == Put(tables.short, pos, opts.short, end)
           left  == LeftPart(pos - litStart, pos, pos - m.at)
           after == AfterMatch(table, pos - left, m.length + left)
<1>1. /\ phase = "search" /\ pos < end /\ UNCHANGED blockVars
      /\ IF m = NoMatch
         THEN NothingFound /\ tables' = [tables EXCEPT !.short = table] /\ phase' = phase
         ELSE /\ WriteFound(pos, m) /\ tables' = [tables EXCEPT !.short = after]
              /\ acceleration' = Base /\ phase' = "again"
  BY DEF FastSearch, Turn
<1>2. /\ pos \in Nat /\ litStart \in Nat /\ litStart <= pos /\ src \in Seq(Nat) /\ opts \in Options
      /\ end \in Nat
  BY <1>1, Parsing
<1>3. m \in {NoMatch} \cup Matches(pos, opts.short)
  BY <1>1, FastFinds
<1> HIDE DEF m
<1>4. \A k \in Nat : pos < k => table \in Table(k)
  <2> TAKE k \in Nat
  <2> HAVE pos < k
  <2>1. pos <= k /\ pos \in 0 .. (k - 1)
    BY <1>2
  <2> QED
    BY <1>1, <1>2, <2>1, TablesHere, PutBelow
<1> HIDE DEF table
<1>5. CASE m = NoMatch
  <2>1. pos + 1 \in Nat /\ pos < pos + 1 /\ pos <= pos + 1
    BY <1>2
  <2>2. tables' \in Pair(pos + 1)
    BY <1>1, <1>4, <1>5, <2>1, TablesHere, PairWith
  <2> QED
    BY <1>1, <1>5, <2>2, AfterNothing
<1>6. CASE m # NoMatch
  <2>1. m \in Matches(pos, 2) /\ m.length \in Nat /\ m.length >= 2
    BY SMTT(60), <1>2, <1>3, <1>6, Widths DEF Matches
  <2> DEFINE n == m.length
             k == pos + n
  <2>2. k \in Nat /\ pos < k /\ pos <= k
    BY <1>2, <2>1
  <2>3. left \in Nat /\ pos - left \in Nat
    BY <1>2, <2>1, LeftRun, SourceBytesAssumption
  <2> HIDE DEF left
  <2>4. /\ pos - left \in Nat /\ n + left \in Nat
        /\ pos - left + (n + left) = k
    <3>1. n \in Nat
      BY <2>1
    <3> HIDE DEF n
    <3> QED
      BY <1>2, <2>3, <3>1
  <2>6. table \in Table(k)
    BY <1>4, <2>2
  <2> HIDE DEF n, k, after
  <2>7. after \in Table(k)
    <3> DEFINE at == pos - left
               length == n + left
    <3>1. at \in Nat /\ length \in Nat /\ k = at + length
      BY <2>4
    <3>2. after = AfterMatch(table, at, length)
      BY DEF after, n
    <3> HIDE DEF at, length
    <3> QED
      BY <1>1, <2>2, <2>6, <3>1, <3>2, AfterMatchBelow
  <2>8. tables' \in Pair(k)
    BY <1>1, <1>6, <2>2, <2>7, TablesHere, PairWith
  <2>9. acceleration' \in Nat /\ acceleration' >= Base /\ pos <= pos
    BY <1>1, <1>2, <1>6, BlockPlanAssumption
  <2> QED
    BY <1>1, <1>2, <1>6, <2>1, <2>8, <2>9, AfterFound DEF k, n
<1> QED
  BY <1>5, <1>6

-----------------------------------------------------------------------------
(* The turns of levels 2 to 4.                                             *)

(* Both tables take their lists.                                           *)
LEMMA PutRepeatBelow ==
  ASSUME IInv, phase \in {"search", "again"}, NEW k \in Nat, pos <= k,
         NEW few, Below(few, k), NEW many, Below(many, k)
  PROVE  /\ PutRepeat(few, many) => tables' \in Pair(k)
         /\ PutQuick(few, many) => tables' \in Pair(k)
<1>1. src \in Seq(Nat) /\ opts \in Options
  BY Parsing
<1>2. /\ tables.short \in Table(k) /\ tables.long \in Table(k)
      /\ opts.short \in Nat /\ Long \in Nat
      /\ end \in Int /\ end <= Len(src) /\ Len(src) \in Int /\ Len(src) <= Len(src)
  BY TablesHere
<1>3. /\ PutAll(tables.short, few, opts.short, end) \in Table(k)
      /\ PutAll(tables.short, few, opts.short, Len(src)) \in Table(k)
  BY <1>1, <1>2, PutAllBelow
<1>4. /\ PutAll(tables.long, many, Long, end) \in Table(k)
      /\ PutAll(tables.long, many, Long, Len(src)) \in Table(k)
  BY <1>1, <1>2, PutAllBelow
<1> QED
  BY <1>3, <1>4 DEF PutRepeat, PutQuick, Pair

(* A lazy level takes a long repeat at the next position. *)
LEMMA LongRepeatTurn ==
  ASSUME IInv, LongRepeat
  PROVE  IInv' /\ Forward
<1> DEFINE n == NextLength
           k == pos + 1 + n
           few == Interval(pos, pos + 4)
           many == <<pos + 1>>
<1>1. /\ phase = "search" /\ phase' = phase /\ UNCHANGED blockVars
      /\ n >= 4 /\ Write(pos + 1, n, reps[1]) /\ acceleration' = Base
      /\ PutRepeat(few, many)
  BY DEF LongRepeat, Turn
<1>2. pos \in Nat /\ litStart \in Nat /\ litStart <= pos
  BY <1>1, Parsing
<1>3. n \in Nat /\ reps[1] \in Nat /\ Run(pos + 1, n, reps[1])
  <2>1. n = RepeatLength(pos + 1, reps[1], 2, end)
    BY DEF NextLength
  <2>2. pos + 1 \in Nat /\ 1 \in 1 .. 3 /\ 2 \in Nat
    BY <1>2
  <2> HIDE DEF n
  <2>3. n \in Nat /\ reps[1] \in Nat /\ (n > 0 => Run(pos + 1, n, reps[1]))
    BY <1>1, <2>1, <2>2, RecentRuns
  <2> QED
    BY <1>1, <2>3
<1> HIDE DEF n
<1>4. k \in Nat /\ pos <= k /\ pos + 4 <= k - 1
  BY <1>1, <1>2, <1>3
<1>5. Below(few, k)
  <2>1. pos + 4 \in Int
    BY <1>2
  <2> HIDE DEF k
  <2> QED
    BY <1>2, <1>4, <2>1, RowBelow
<1>6. Below(many, k)
  BY <1>2, <1>4 DEF Below
<1> HIDE DEF k, few, many
<1>7. tables' \in Pair(k)
  BY <1>1, <1>4, <1>5, <1>6, PutRepeatBelow
<1>8. acceleration' \in Nat /\ acceleration' >= Base
  BY <1>1, BlockPlanAssumption
<1>9. pos + 1 \in Nat /\ litStart <= pos + 1 /\ n >= 2 /\ pos + 1 + n > pos
  BY <1>1, <1>2, <1>3
<1> QED
  BY <1>1, <1>3, <1>7, <1>8, <1>9, AfterWrite DEF k

(* It takes an older distance. *)
LEMMA LazyOlderTurn ==
  ASSUME IInv, LazyOlder
  PROVE  IInv' /\ Forward
<1> DEFINE n == Older(2, pos)[2]
           d == Older(2, pos)[1]
           k == pos + n
           few == <<pos, pos + 1>>
           many == <<pos>>
<1>1. /\ phase = "search" /\ phase' = phase /\ acceleration' = acceleration
      /\ UNCHANGED blockVars /\ n > 0 /\ Write(pos, n, d) /\ PutRepeat(few, many)
  BY DEF LazyOlder, Turn, Patient
<1>2. /\ pos \in Nat /\ litStart \in Nat /\ litStart <= pos
      /\ acceleration \in Nat /\ acceleration >= Base
  BY <1>1, Parsing
<1>3. n \in Nat /\ d \in Nat /\ Run(pos, n, d) /\ n >= 2
  BY <1>1, OlderRuns
<1> HIDE DEF n, d
<1>4. k \in Nat /\ pos <= k /\ pos + n > pos /\ pos + 1 <= k - 1
  BY <1>2, <1>3
<1>5. Below(few, k)
  BY <1>2, <1>4 DEF Below
<1>6. Below(many, k)
  BY <1>2, <1>4 DEF Below
<1> HIDE DEF few, many, k
<1>7. tables' \in Pair(k)
  BY <1>1, <1>4, <1>5, <1>6, PutRepeatBelow
<1> QED
  BY <1>1, <1>2, <1>3, <1>4, <1>7, AfterWrite DEF k

(* The length of the last distance at the next position.                   *)
LEMMA NextRuns ==
  ASSUME IInv, phase = "search"
  PROVE  /\ NextLength \in Nat /\ reps[1] \in Nat
         /\ NextLength > 0 => Run(pos + 1, NextLength, reps[1]) /\ NextLength >= 2
<1>1. pos + 1 \in Nat /\ 1 \in 1 .. 3 /\ 2 \in Nat
  BY Parsing
<1>2. NextLength = RepeatLength(pos + 1, reps[1], 2, end)
  BY DEF NextLength
<1> QED
  BY SMTT(60), <1>1, <1>2, RecentRuns

(* The match of the three positions that is taken, and the tables then.    *)
LEMMA LazyFinds ==
  ASSUME IInv, phase = "search", pos < end, opts.parser \in LazyParsers
  PROVE  LET here  == FindLazy(tables, pos, end, opts.short, NextLength)
             next  == NextLazy(here.tables, pos + 1, end, opts.short, here.match)
             after == LastLazy(next.tables, pos + 2, end, opts.short, next.match)
             at    == pos + (IF after.match.length > next.match.length THEN 2
                             ELSE IF next.match.length > here.match.length THEN 1 ELSE 0)
         IN  /\ here.tables \in Pair(pos + 1)
             /\ here.match # NoMatch =>
                  /\ at \in Nat /\ pos <= at /\ at <= pos + 2
                  /\ after.match \in Matches(at, 4)
                  /\ after.tables \in Pair(pos + 3)
<1> DEFINE here  == FindLazy(tables, pos, end, opts.short, NextLength)
           h     == here.match
           next  == NextLazy(here.tables, pos + 1, end, opts.short, h)
           n     == next.match
           after == LastLazy(next.tables, pos + 2, end, opts.short, n)
           a     == after.match
           at    == pos + (IF a.length > n.length THEN 2 ELSE IF n.length > h.length THEN 1 ELSE 0)
<1>1. /\ src \in Seq(Nat) /\ opts \in Options /\ pos \in Nat /\ end \in Nat
      /\ Len(src) \in Nat /\ end + Trail <= Len(src)
  BY Parsing
<1>2. opts.short \in Nat /\ opts.short >= 4 /\ Long \in Nat
  BY <1>1, Widths DEF LazyParsers
<1>3. Reads(pos) /\ Reads(pos + 1) /\ Reads(pos + 2)
  <2>1. pos \in Nat /\ pos <= end + 1 /\ pos + 1 \in Nat /\ pos + 1 <= end + 1
        /\ pos + 2 \in Nat /\ pos + 2 <= end + 1
    BY <1>1
  <2> QED
    BY <1>1, <2>1, CanRead
<1>4. here.tables \in Pair(pos + 1) /\ h \in {NoMatch} \cup Matches(pos, opts.short)
  <2>1. pos + 1 \in Nat /\ pos <= pos + 1 /\ pos \in 0 .. (pos + 1 - 1)
    BY <1>1
  <2>2. tables \in Pair(pos + 1) /\ NextLength \in Nat
    BY <1>1, <2>1, TablesHere, NextRuns
  <2> QED
    BY <1>1, <1>3, <2>1, <2>2, FindLazyFinds
<1> HIDE DEF here
<1>5. h \in [at : Nat, length : Nat] /\ h.length \in Nat
  BY <1>4 DEF Matches, NoMatch
<1> HIDE DEF h
<1>6. /\ next.tables \in Pair(pos + 2)
      /\ n = h \/ (n \in Matches(pos + 1, opts.short) /\ n.length > h.length)
  <2> DEFINE p == pos + 1
             k == pos + 2
             t == here.tables
  <2>1. p \in 0 .. (k - 1) /\ k \in Nat /\ Reads(p)
    BY <1>1, <1>3
  <2>2. t \in Pair(k)
    <3>1. pos + 1 \in Nat /\ pos + 1 <= pos + 2 /\ pos + 2 \in Nat
      BY <1>1
    <3> QED
      BY <1>4, <3>1, TableMore
  <2> HIDE DEF p, k, t
  <2>3. /\ NextLazy(t, p, end, opts.short, h).tables \in Pair(k)
        /\ \/ NextLazy(t, p, end, opts.short, h).match = h
           \/ /\ NextLazy(t, p, end, opts.short, h).match \in Matches(p, opts.short)
              /\ NextLazy(t, p, end, opts.short, h).match.length > h.length
    BY <1>1, <1>5, <2>1, <2>2, NextLazyFinds
  <2> QED
    BY <2>3 DEF p, k, t
<1> HIDE DEF next
<1>7. n \in [at : Nat, length : Nat] /\ n.length \in Nat
  BY <1>5, <1>6 DEF Matches
<1> HIDE DEF n
<1>8. /\ after.tables \in Pair(pos + 3)
      /\ a = n \/ (a \in Matches(pos + 2, Long) /\ a.length > n.length)
  <2> DEFINE p == pos + 2
             k == pos + 3
             t == next.tables
  <2>1. p \in 0 .. (k - 1) /\ k \in Nat /\ Reads(p)
    BY <1>1, <1>3
  <2>2. t \in Pair(k)
    <3>1. pos + 2 \in Nat /\ pos + 2 <= pos + 3 /\ pos + 3 \in Nat
      BY <1>1
    <3> QED
      BY <1>6, <3>1, TableMore
  <2> HIDE DEF p, k, t
  <2>3. /\ LastLazy(t, p, end, opts.short, n).tables \in Pair(k)
        /\ \/ LastLazy(t, p, end, opts.short, n).match = n
           \/ /\ LastLazy(t, p, end, opts.short, n).match \in Matches(p, Long)
              /\ LastLazy(t, p, end, opts.short, n).match.length > n.length
    BY <1>1, <1>7, <2>1, <2>2, LastLazyFinds
  <2> QED
    BY <2>3 DEF p, k, t
<1> HIDE DEF after
<1>9. a.length \in Nat
  BY <1>7, <1>8 DEF Matches
<1> HIDE DEF a
<1>10. at \in Nat /\ pos <= at /\ at <= pos + 2
  BY <1>1
<1>11. ASSUME h # NoMatch
       PROVE  a \in Matches(at, 4)
  <2>1. h \in Matches(pos, 4) /\ h.length >= 4
    BY <1>2, <1>4, <1>5, <1>11 DEF Matches, h
  <2>2. CASE a = n /\ n = h
    <3>1. at = pos
      BY <1>1, <1>5, <2>2
    <3> QED
      BY <2>1, <2>2, <3>1
  <2>3. CASE a = n /\ n \in Matches(pos + 1, opts.short) /\ n.length > h.length
    <3>1. at = pos + 1
      BY <1>1, <1>7, <2>3
    <3> QED
      BY <1>2, <1>5, <1>7, <2>1, <2>3, <3>1 DEF Matches
  <2>4. CASE a \in Matches(pos + 2, Long) /\ a.length > n.length
    <3>1. at = pos + 2
      BY <1>1, <2>4
    <3>2. n.length >= h.length
      BY <1>5, <1>6, <1>7 DEF n
    <3> QED
      BY <1>2, <1>5, <1>7, <1>9, <2>1, <2>4, <3>1, <3>2 DEF Matches
  <2> QED
    BY <1>6, <1>8, <2>2, <2>3, <2>4 DEF n, a
<1> QED
  BY <1>4, <1>8, <1>10, <1>11 DEF here, h, next, n, after, a, at

(* addAfterMatch puts in positions inside the match only.                  *)
LEMMA AfterLazyBelow ==
  ASSUME IInv, phase = "search", NEW at \in Nat, NEW length \in Nat, length >= 4,
         pos <= at, at <= pos + 2, NEW k \in Nat, k = at + length, NEW t \in Pair(k)
  PROVE  AfterLazy(t, pos, at, length) \in Pair(k)
<1> DEFINE few    == <<pos + 3, at + length - 1, at + length - 3>>
           many   == <<pos + 3, at + length - 2, at + length - 4>>
           last   == at + AtMost(length, Refill) - 1
           inside == Interval(pos + 3, last)
<1>1. src \in Seq(Nat) /\ opts \in Options /\ pos \in Nat
  BY Parsing
<1>2. Below(few, k) /\ Below(many, k)
  BY SMTT(60), <1>1 DEF Below
<1>3. Below(inside, k)
  <2>1. last \in Int /\ last <= k - 1
    BY MatchTablesAssumption DEF AtMost
  <2> DEFINE from == pos + 3
  <2>2. from \in Nat
    BY <1>1
  <2> HIDE DEF last, from
  <2>3. Below(Interval(from, last), k)
    BY <2>1, <2>2, RowBelow
  <2> QED
    BY <2>3 DEF from
<1> HIDE DEF few, many, inside
<1>4. t.short \in Table(k) /\ t.long \in Table(k)
  BY DEF Pair
<1>5. opts.short \in Nat /\ Long \in Nat /\ end \in Int /\ end <= Len(src)
  <2>1. pos <= k
    BY <1>1
  <2> QED
    BY <2>1, TablesHere
<1>6. /\ PutAll(t.short, few, opts.short, end) \in Table(k)
      /\ PutAll(t.short, inside, opts.short, end) \in Table(k)
  BY <1>1, <1>2, <1>3, <1>4, <1>5, PutAllBelow
<1>7. /\ PutAll(t.long, many, Long, end) \in Table(k)
      /\ PutAll(t.long, inside, Long, end) \in Table(k)
  BY <1>1, <1>2, <1>3, <1>4, <1>5, PutAllBelow
<1>8. \/ AfterLazy(t, pos, at, length)
           = [short |-> PutAll(t.short, few, opts.short, end),
              long  |-> PutAll(t.long, many, Long, end)]
      \/ AfterLazy(t, pos, at, length)
           = [short |-> PutAll(t.short, inside, opts.short, end),
              long  |-> PutAll(t.long, inside, Long, end)]
  BY DEF AfterLazy, few, many, inside
<1> QED
  BY <1>6, <1>7, <1>8 DEF Pair

(* It searches at one position and at the two after it. *)
LEMMA LazySearchTurn ==
  ASSUME IInv, LazySearch
  PROVE  IInv' /\ Forward
<1> DEFINE here  == FindLazy(tables, pos, end, opts.short, NextLength)
           h     == here.match
           next  == NextLazy(here.tables, pos + 1, end, opts.short, h)
           after == LastLazy(next.tables, pos + 2, end, opts.short, next.match)
           m     == after.match
           at    == pos + (IF m.length > next.match.length THEN 2
                           ELSE IF next.match.length > h.length THEN 1 ELSE 0)
           n     == NextLength
           few   == <<pos + 1, pos + 2>>
<1>1. /\ phase = "search" /\ pos < end /\ UNCHANGED blockVars /\ phase' = phase
      /\ opts.parser \in LazyParsers
      /\ IF h # NoMatch
         THEN /\ WriteFound(at, m) /\ tables' = AfterLazy(after.tables, pos, at, m.length)
              /\ acceleration' = Base
         ELSE IF n > 0
         THEN /\ Write(pos + 1, n, reps[1]) /\ acceleration' = Base
              /\ tables' = [here.tables EXCEPT !.short =
                              PutAll(here.tables.short, few, opts.short, end)]
         ELSE NothingFound /\ tables' = here.tables
  BY ZenonT(60) DEF LazySearch, Turn
<1>2. /\ here.tables \in Pair(pos + 1)
      /\ h # NoMatch => /\ at \in Nat /\ pos <= at /\ at <= pos + 2
                        /\ m \in Matches(at, 4) /\ after.tables \in Pair(pos + 3)
  BY ZenonT(60), <1>1, LazyFinds
<1>3. /\ pos \in Nat /\ litStart \in Nat /\ litStart <= pos /\ src \in Seq(Nat) /\ opts \in Options
      /\ end \in Nat /\ Base \in Nat
  BY SMTT(60), <1>1, Parsing, BlockPlanAssumption
<1>4. n \in Nat /\ reps[1] \in Nat /\ (n > 0 => Run(pos + 1, n, reps[1]) /\ n >= 2)
  BY SMTT(60), <1>1, NextRuns
<1> DEFINE ht == here.tables
           afterTables == after.tables
<1>5. ht \in Pair(pos + 1) /\ (h # NoMatch => afterTables \in Pair(pos + 3))
  BY <1>2
<1> HIDE DEF h, at, m, n, ht, afterTables
<1>6. CASE h # NoMatch
  <2> DEFINE l == m.length
             k == at + l
  <2>1. m \in Matches(at, 2) /\ l \in Nat /\ l >= 4
    BY <1>2, <1>6 DEF Matches
  <2>2. at \in Nat /\ pos <= at /\ at <= pos + 2
    BY <1>2, <1>6
  <2> HIDE DEF l
  <2>3. k \in Nat /\ pos + 3 <= k /\ pos + 3 \in Nat
    BY <1>3, <2>1, <2>2
  <2>4. afterTables \in Pair(k)
    BY <1>5, <1>6, <2>3, TableMore
  <2>5. AfterLazy(afterTables, pos, at, l) \in Pair(k)
    <3> HIDE DEF k
    <3>1. k = at + l
      BY DEF k
    <3> QED
      BY <1>1, <2>1, <2>2, <2>3, <2>4, <3>1, AfterLazyBelow
  <2>6. WriteFound(at, m) /\ tables' = AfterLazy(afterTables, pos, at, l) /\ acceleration' = Base
    BY <1>1, <1>6 DEF l, afterTables
  <2>7. tables' \in Pair(at + m.length)
    BY <2>5, <2>6 DEF l
  <2> QED
    BY <1>1, <1>3, <2>1, <2>2, <2>6, <2>7, AfterFound
<1>7. CASE h = NoMatch /\ n > 0
  <2> DEFINE k == pos + 1 + n
  <2>1. k \in Nat /\ pos <= k /\ pos + 1 <= k /\ pos + 1 \in Nat /\ pos + 3 <= k
    BY <1>3, <1>4, <1>7
  <2>2. Below(few, k)
    BY <1>3, <2>1 DEF Below
  <2> HIDE DEF k, few
  <2>3. ht \in Pair(k) /\ ht.short \in Table(k)
    <3>1. ht \in Pair(k)
      BY <1>3, <1>5, <2>1, TableMore
    <3> QED
      BY <3>1 DEF Pair
  <2>4. PutAll(ht.short, few, opts.short, end) \in Table(k)
    BY <1>1, <1>3, <2>1, <2>2, <2>3, TablesHere, PutAllBelow
  <2>5. /\ Write(pos + 1, n, reps[1]) /\ acceleration' = Base
        /\ tables' = [ht EXCEPT !.short = PutAll(ht.short, few, opts.short, end)]
    BY <1>1, <1>7 DEF ht, few
  <2>6. tables' \in Pair(pos + 1 + n)
    BY <2>3, <2>4, <2>5, PairWith DEF k
  <2>7. pos + 1 \in Nat /\ litStart <= pos + 1 /\ n >= 2 /\ pos + 1 + n > pos
    BY <1>3, <1>4, <1>7
  <2>8. acceleration' \in Nat /\ acceleration' >= Base /\ Run(pos + 1, n, reps[1])
    BY <1>3, <1>4, <1>7, <2>5
  <2> DEFINE p == pos + 1
  <2>9. p \in Nat /\ litStart <= p /\ Run(p, n, reps[1]) /\ p + n > pos
        /\ Write(p, n, reps[1]) /\ tables' \in Pair(p + n)
    BY <2>5, <2>6, <2>7, <2>8
  <2> HIDE DEF p
  <2> QED
    BY <1>1, <1>4, <2>7, <2>8, <2>9, AfterWrite
<1>8. CASE h = NoMatch /\ ~(n > 0)
  <2>1. NothingFound /\ tables' = ht
    BY <1>1, <1>8 DEF ht
  <2> QED
    BY <1>1, <1>5, <2>1, AfterNothing
<1> QED
  BY SMTT(60), <1>6, <1>7, <1>8

-----------------------------------------------------------------------------
(* The turns of the splitter's parser.                                     *)

(* The quick parse of the splitter takes a repeat. *)
LEMMA QuickRepeatTurn ==
  ASSUME IInv, QuickRepeat
  PROVE  IInv' /\ Forward
<1> DEFINE n == NextLength
           k == pos + 1 + n
           few == Interval(pos, pos + 2)
           many == <<pos + 1>>
<1>1. /\ phase = "search" /\ phase' = phase /\ UNCHANGED blockVars
      /\ n > 0 /\ Write(pos + 1, n, reps[1]) /\ acceleration' = Base
      /\ PutQuick(few, many)
  BY DEF QuickRepeat, Turn
<1>2. pos \in Nat /\ litStart \in Nat /\ litStart <= pos
  BY <1>1, Parsing
<1>3. n \in Nat /\ reps[1] \in Nat /\ Run(pos + 1, n, reps[1]) /\ n >= 2
  BY <1>1, NextRuns
<1> HIDE DEF n
<1>4. k \in Nat /\ pos <= k /\ pos + 2 <= k - 1
  BY <1>2, <1>3
<1>5. Below(few, k)
  <2>1. pos + 2 \in Int
    BY <1>2
  <2> HIDE DEF k
  <2> QED
    BY <1>2, <1>4, <2>1, RowBelow
<1>6. Below(many, k)
  BY <1>2, <1>4 DEF Below
<1> HIDE DEF k, few, many
<1>7. tables' \in Pair(k)
  BY <1>1, <1>4, <1>5, <1>6, PutRepeatBelow
<1>8. acceleration' \in Nat /\ acceleration' >= Base
  BY <1>1, BlockPlanAssumption
<1>9. pos + 1 \in Nat /\ litStart <= pos + 1 /\ pos + 1 + n > pos
  BY <1>2, <1>3
<1> QED
  BY <1>1, <1>3, <1>7, <1>8, <1>9, AfterWrite DEF k

(* It takes an older distance. *)
LEMMA QuickOlderTurn ==
  ASSUME IInv, QuickOlder
  PROVE  IInv' /\ Forward
<1> DEFINE n == Older(2, pos)[2]
           d == Older(2, pos)[1]
           k == pos + n
           few == <<pos, pos + 1>>
           many == <<pos>>
<1>1. /\ phase = "search" /\ phase' = phase /\ acceleration' = Base
      /\ UNCHANGED blockVars /\ n > 0 /\ Write(pos, n, d) /\ PutQuick(few, many)
  BY DEF QuickOlder, Turn
<1>2. /\ pos \in Nat /\ litStart \in Nat /\ litStart <= pos
      /\ acceleration' \in Nat /\ acceleration' >= Base
  BY <1>1, Parsing, BlockPlanAssumption
<1>3. n \in Nat /\ d \in Nat /\ Run(pos, n, d) /\ n >= 2
  BY <1>1, OlderRuns
<1> HIDE DEF n, d
<1>4. k \in Nat /\ pos <= k /\ pos + n > pos /\ pos + 1 <= k - 1
  BY <1>2, <1>3
<1>5. Below(few, k)
  BY <1>2, <1>4 DEF Below
<1>6. Below(many, k)
  BY <1>2, <1>4 DEF Below
<1> HIDE DEF few, many, k
<1>7. tables' \in Pair(k)
  BY <1>1, <1>4, <1>5, <1>6, PutRepeatBelow
<1> QED
  BY <1>1, <1>2, <1>3, <1>4, <1>7, AfterWrite DEF k

(* The last position of a bucket is before p or none.                      *)
LEMMA LastSeenBefore ==
  ASSUME src \in Seq(Nat), opts \in Options, NEW k \in Nat, NEW t \in Table(k),
         NEW p \in Nat, NEW n \in Nat, p + n <= Len(src)
  PROVE  LastSeen(t, p, n) \in {0 - 1} \cup (0 .. (p - 1))
<1> DEFINE b == t[Hash(p, n)]
<1>1. Hash(p, n) \in 0 .. (Buckets - 1)
  BY HashBucket
<1>2. b \in [1 .. opts.entries -> 0 .. (k - 1)]
  BY <1>1 DEF Table
<1>3. 1 \in 1 .. opts.entries
  BY SMTT(60), Widths
<1>4. LastSeen(t, p, n) = IF b[1] < p THEN b[1] ELSE 0 - 1
  BY DEF LastSeen
<1> HIDE DEF b
<1>5. b[1] \in 0 .. (k - 1)
  BY <1>2, <1>3
<1> QED
  BY <1>4, <1>5

(* A position is taken for a longer match, or not.                         *)
LEMMA BetterNearFinds ==
  ASSUME NEW p \in Nat, NEW prev \in {0 - 1} \cup (0 .. (p - 1)),
         NEW w \in [at : Nat, length : Nat], NEW least \in Nat, end \in Nat, Farthest \in Nat
  PROVE  \/ BetterNear(w, p, prev, least) = w
         \/ /\ BetterNear(w, p, prev, least) \in Matches(p, least)
            /\ BetterNear(w, p, prev, least).length > w.length
<1>1. CASE p - prev <= Farthest
  <2>1. prev \in Reach(p)
    BY <1>1 DEF Reach
  <2>2. BetterNear(w, p, prev, least) = Better(w, p, prev, least, end)
    BY <1>1 DEF BetterNear
  <2> QED
    BY <2>1, <2>2, BetterFinds
<1>2. CASE ~(p - prev <= Farthest)
  BY <1>2 DEF BetterNear
<1> QED
  BY <1>1, <1>2

(* The match at this or at the next position.                              *)
LEMMA QuickFinds ==
  ASSUME IInv, phase = "search", pos < end
  PROVE  LET first3 == BetterNear(NoMatch, pos, LastSeen(tables.short, pos, opts.short), opts.short)
             here   == BetterNear(first3, pos, LastSeen(tables.long, pos, Long), Long)
             few    == Put(tables.short, pos, opts.short, Len(src))
             many   == Put(tables.long, pos, Long, Len(src))
             prev3  == LastSeen(few, pos + 1, opts.short)
             prev6  == LastSeen(many, pos + 1, Long)
             match  == BetterNear(here, pos + 1,
                                  IF MayBeat(pos + 1, prev6, here.length) THEN prev6 ELSE prev3,
                                  opts.short)
             at     == IF match.length > here.length THEN pos + 1 ELSE pos
         IN  /\ few \in Table(pos + 1) /\ many \in Table(pos + 1)
             /\ first3 # NoMatch => match \in Matches(at, 2)
<1> DEFINE next   == pos + 1
           first3 == BetterNear(NoMatch, pos, LastSeen(tables.short, pos, opts.short), opts.short)
           here   == BetterNear(first3, pos, LastSeen(tables.long, pos, Long), Long)
           few    == Put(tables.short, pos, opts.short, Len(src))
           many   == Put(tables.long, pos, Long, Len(src))
           prev3  == LastSeen(few, next, opts.short)
           prev6  == LastSeen(many, next, Long)
           prev   == IF MayBeat(next, prev6, here.length) THEN prev6 ELSE prev3
           match  == BetterNear(here, next, prev, opts.short)
           at     == IF match.length > here.length THEN next ELSE pos
           M      == [at : Nat, length : Nat]
<1>1. /\ src \in Seq(Nat) /\ opts \in Options /\ pos \in Nat /\ end \in Nat
      /\ Len(src) \in Nat /\ end + Trail <= Len(src) /\ Farthest \in Nat
  BY Parsing, SourceBytesAssumption
<1>2. opts.short \in Nat /\ opts.short >= 2 /\ Long \in Nat
  BY <1>1, Widths
<1>3. /\ pos + opts.short <= Len(src) /\ pos + Long <= Len(src)
      /\ next + opts.short <= Len(src) /\ next + Long <= Len(src)
      /\ next \in Nat /\ pos <= next /\ pos \in 0 .. (next - 1)
  <2>1. Reads(pos) /\ Reads(pos + 1)
    BY <1>1, CanRead
  <2> QED
    BY <1>1, <2>1 DEF Reads
<1> HIDE DEF next
<1>4. tables.short \in Table(next) /\ tables.long \in Table(next)
  BY <1>3, TablesHere
<1>5. few \in Table(next) /\ many \in Table(next)
  <2>1. Len(src) \in Int /\ Len(src) <= Len(src)
    BY <1>1
  <2> QED
    BY <1>1, <1>2, <1>3, <1>4, <2>1, PutBelow
<1>6. /\ LastSeen(tables.short, pos, opts.short) \in {0 - 1} \cup (0 .. (pos - 1))
      /\ LastSeen(tables.long, pos, Long) \in {0 - 1} \cup (0 .. (pos - 1))
  BY <1>1, <1>2, <1>3, <1>4, LastSeenBefore
<1> HIDE DEF few, many
<1>7. /\ prev3 \in {0 - 1} \cup (0 .. (next - 1))
      /\ prev6 \in {0 - 1} \cup (0 .. (next - 1))
  BY <1>1, <1>2, <1>3, <1>5, LastSeenBefore
<1> HIDE DEF prev3, prev6
<1>8. first3 = NoMatch \/ first3 \in Matches(pos, opts.short)
  <2>1. NoMatch \in M
    BY DEF NoMatch
  <2> QED
    BY <1>1, <1>2, <1>6, <2>1, BetterNearFinds
<1> HIDE DEF first3
<1>9. first3 \in M /\ first3.length \in Nat
  BY <1>8 DEF Matches, NoMatch
<1>10. here = first3 \/ (here \in Matches(pos, Long) /\ here.length > first3.length)
  BY <1>1, <1>2, <1>6, <1>9, BetterNearFinds
<1> HIDE DEF here
<1>11. here \in M /\ here.length \in Nat
  BY <1>9, <1>10 DEF Matches
<1>12. match = here \/ (match \in Matches(next, opts.short) /\ match.length > here.length)
  <2>1. prev \in {0 - 1} \cup (0 .. (next - 1))
    BY <1>7
  <2> HIDE DEF prev
  <2> QED
    BY <1>1, <1>2, <1>3, <1>11, <2>1, BetterNearFinds
<1> HIDE DEF match
<1>13. ASSUME first3 # NoMatch
       PROVE  match \in Matches(at, 2)
  <2>1. first3 \in Matches(pos, 2) /\ first3.length >= 2
    BY <1>2, <1>8, <1>9, <1>13 DEF Matches
  <2>2. here \in Matches(pos, 2)
    BY <1>9, <1>10, <1>11, <2>1 DEF Matches
  <2>3. CASE match = here
    <3>1. at = pos
      BY <1>11, <2>3
    <3> QED
      BY <2>2, <2>3, <3>1
  <2>4. CASE match \in Matches(next, opts.short) /\ match.length > here.length
    <3>1. at = next
      BY <2>4
    <3>2. match \in Matches(next, 2)
      BY <1>2, <2>4 DEF Matches
    <3> QED
      BY <3>1, <3>2
  <2> QED
    BY <1>12, <2>3, <2>4
<1> QED
  BY <1>5, <1>13 DEF next, first3, here, few, many, prev3, prev6, match

(* It takes what its dictionary has. *)
LEMMA QuickSearchTurn ==
  ASSUME IInv, QuickSearch
  PROVE  IInv' /\ Forward
<1> DEFINE first3 == BetterNear(NoMatch, pos, LastSeen(tables.short, pos, opts.short), opts.short)
           pays   == first3 # NoMatch /\ (first3.length > opts.short \/ pos - first3.at < Near)
           here   == BetterNear(first3, pos, LastSeen(tables.long, pos, Long), Long)
           few    == Put(tables.short, pos, opts.short, Len(src))
           many   == Put(tables.long, pos, Long, Len(src))
           prev3  == LastSeen(few, pos + 1, opts.short)
           prev6  == LastSeen(many, pos + 1, Long)
           match  == BetterNear(here, pos + 1,
                                IF MayBeat(pos + 1, prev6, here.length) THEN prev6 ELSE prev3,
                                opts.short)
           at     == IF match.length > here.length THEN pos + 1 ELSE pos
           last   == at + match.length
           less   == match.length + LeftPart(at - litStart, at, at - match.at) > opts.short
           listF  == <<pos + 1, last - 1, last - 3>>
           listM  == <<pos + 1, last - 2>>
           s      == PutAll(few, listF, opts.short, Len(src))
           l      == PutAll(many, listM, Long, Len(src))
<1>1. /\ phase = "search" /\ pos < end /\ UNCHANGED blockVars /\ phase' = phase
      /\ IF pays
         THEN /\ WriteFound(at, match)
              /\ tables' = [short |-> s, long |-> l]
              /\ acceleration' = IF less THEN Base ELSE acceleration
         ELSE /\ NothingFound
              /\ tables' = [tables EXCEPT !.short = few]
  BY SMTT(60) DEF QuickSearch, Turn
<1>2. /\ few \in Table(pos + 1) /\ many \in Table(pos + 1)
      /\ first3 # NoMatch => match \in Matches(at, 2)
  BY SMTT(60), <1>1, QuickFinds
<1>3. /\ pos \in Nat /\ src \in Seq(Nat) /\ opts \in Options /\ Len(src) \in Int
      /\ Len(src) <= Len(src) /\ acceleration \in Nat /\ acceleration >= Base
      /\ opts.short \in Nat /\ Long \in Nat /\ Base \in Nat
  <2>1. src \in Seq(Nat) /\ opts \in Options /\ Len(src) \in Nat
    BY <1>1, Parsing
  <2> QED
    BY SMTT(60), <1>1, <2>1, Parsing, Widths
<1>4. at \in Nat /\ pos <= at /\ at <= pos + 1
  BY <1>3
<1>5. pays => first3 # NoMatch
  OBVIOUS
<1> HIDE DEF first3, pays, few, many, match, at, less
<1>6. CASE pays
  <2>1. /\ match \in Matches(at, 2) /\ match.length \in Nat /\ match.length >= 2
        /\ at - match.at \in 1 .. at
    BY <1>2, <1>5, <1>6 DEF Matches, Run
  <2>2. at >= 1
    BY <1>4, <2>1
  <2>3. last \in Nat /\ pos + 1 \in Nat /\ pos + 1 <= last - 1 /\ last - 3 >= 0
    BY SMTT(60), <1>3, <1>4, <2>1, <2>2
  <2> HIDE DEF last
  <2>4. Below(listF, last) /\ Below(listM, last)
    BY SMTT(60), <1>3, <2>3 DEF Below
  <2> HIDE DEF listF, listM
  <2>5. few \in Table(last) /\ many \in Table(last)
    <3>1. pos + 1 <= last
      BY <1>3, <2>3
    <3> QED
      BY <1>2, <2>3, <3>1, TableMore
  <2>6. s \in Table(last) /\ l \in Table(last)
    BY <1>3, <2>3, <2>4, <2>5, PutAllBelow
  <2> HIDE DEF s, l
  <2>7. tables' \in Pair(at + match.length)
    BY <1>1, <1>6, <2>6 DEF Pair, last
  <2>8. acceleration' \in Nat /\ acceleration' >= Base
    BY <1>1, <1>3, <1>6
  <2> QED
    BY <1>1, <1>4, <1>6, <2>1, <2>7, <2>8, AfterFound
<1>7. CASE ~pays
  <2>1. pos + 1 \in Nat /\ pos <= pos + 1
    BY <1>3
  <2>2. tables \in Pair(pos + 1)
    BY <1>1, <2>1, TablesHere
  <2>3. tables' \in Pair(pos + 1)
    BY <1>1, <1>2, <1>7, <2>2, PairWith
  <2> QED
    BY <1>1, <1>7, <2>3, AfterNothing
<1> QED
  BY SMTT(60), <1>6, <1>7

-----------------------------------------------------------------------------
(* The blocks and the calls.                                               *)

(* Empty tables have position 0.                                           *)
LEMMA EmptyBelow ==
  ASSUME opts \in Options, NEW k \in Nat, k >= 1
  PROVE  EmptyTables \in Pair(k)
<1>1. 0 \in 0 .. (k - 1)
  OBVIOUS
<1>2. EmptyTable(opts.entries) \in Table(k)
  BY <1>1 DEF EmptyTable, Table
<1> QED
  BY <1>2 DEF EmptyTables, Pair

(* The initial recent distances are distances. *)
LEMMA FreshReps == InitReps \in Rep
BY DEF InitReps, Rep

(* A block begins: an own finder has nothing of it, a new one is empty.    *)
LEMMA BeginBlockStep ==
  ASSUME IInv, BeginBlock
  PROVE  IInv'
<1>1. /\ phase = "block" /\ phase' = "search" /\ start < CompressionLimit
      /\ end' = AtMost(start + opts.block, CompressionLimit)
      /\ begin' = [reps |-> reps]
      /\ tables' = IF owned THEN tables ELSE EmptyTables
      /\ \/ reps' = InitReps /\ pos' = start + 1 /\ litStart' = start
         \/ reps' = reps /\ pos' = FirstPos /\ litStart' = FirstPos
      /\ steps' = <<>> /\ acceleration' = Base
      /\ UNCHANGED <<callVars, start, owned, written>>
  BY DEF BeginBlock
<1>2. UNCHANGED <<src, opts, start, owned>>
  BY <1>1 DEF callVars
<1>3. /\ src \in Sources /\ opts \in Options /\ start \in Nat /\ reps \in Rep
      /\ owned => tables \in Pair(FirstPos)
  BY <1>1 DEF IInv, Typed, Between
<1>4. CompressionLimit \in Int /\ opts.block \in Nat \ {0} /\ Base \in Nat
  <2>1. src \in Seq(Nat)
    BY <1>3, BlockPlanAssumption
  <2>2. Len(src) \in Nat
    BY <2>1, LenProperties
  <2> QED
    BY <1>3, <2>2, Widths, SourceBytesAssumption DEF CompressionLimit
<1>5. end' \in Nat /\ start < end' /\ end' <= CompressionLimit
  BY <1>1, <1>3, <1>4 DEF AtMost
<1>6. /\ FirstPos \in Nat /\ FirstPos >= 1 /\ start <= FirstPos /\ FirstPos <= start + 1
      /\ FirstPos <= end'
  BY <1>3, <1>5 DEF FirstPos
<1>7. /\ pos' \in Nat /\ FirstPos <= pos' /\ litStart' \in Nat
      /\ start <= litStart' /\ litStart' <= pos'
  BY <1>1, <1>3, <1>6
<1>8. Rep' = Rep /\ Step' = Step /\ CompressionLimit' = CompressionLimit
  BY <1>2 DEF Rep, Step, CompressionLimit
<1>9. Typed'
  <2>1. reps' \in Rep /\ begin' \in [reps : Rep]
    BY <1>1, <1>3, FreshReps
  <2>2. steps' \in Seq(Step)
    BY <1>1
  <2>3. acceleration' \in Nat /\ acceleration' >= Base
    BY <1>1, <1>4
  <2> QED
    BY <1>1, <1>2, <1>3, <1>5, <1>7, <1>8, <2>1, <2>2, <2>3 DEF Typed
<1>10. tables' \in Pair(AtMost(pos, end))'
  <2> DEFINE k == AtMost(pos', end')
  <2>1. k \in Nat /\ FirstPos <= k /\ k >= 1
    BY <1>5, <1>6, <1>7 DEF AtMost
  <2> HIDE DEF k
  <2>2. tables' \in Pair(k)
    BY <1>1, <1>3, <1>6, <2>1, TableMore, EmptyBelow
  <2>3. Pair(AtMost(pos, end))' = Pair(k)
    BY <1>2 DEF Pair, Table, AtMost, k
  <2> QED
    BY <2>2, <2>3
<1>11. StepsTrue' /\ Len(steps') = 0
  BY <1>1 DEF StepsTrue, Tiles
<1>12. InBlock'
  <2>1. 1 .. Len(steps') = {}
    BY <1>11
  <2> QED
    BY <1>1, <1>2, <1>5, <1>7, <1>8, <1>10, <1>11, <2>1 DEF InBlock
<1>13. Between'
  BY <1>1 DEF Between
<1> QED
  BY <1>9, <1>12, <1>13 DEF IInv

(* A block ends: what its tables have is before the next block.            *)
LEMMA BlockDoneStep ==
  ASSUME IInv, NEW raw \in BOOLEAN, BlockDone(raw)
  PROVE  IInv'
<1>1. /\ phase = "search" /\ phase' = "block" /\ pos >= end
      /\ start' = end /\ steps' = <<>>
      /\ reps' = IF raw THEN begin.reps ELSE reps
      /\ UNCHANGED <<callVars, end, begin, tables, pos, litStart, acceleration>>
  BY DEF BlockDone
<1>2. UNCHANGED <<src, opts>>
  BY <1>1 DEF callVars
<1>3. /\ src \in Sources /\ opts \in Options /\ start \in Nat /\ end \in Nat /\ reps \in Rep
      /\ begin \in [reps : Rep] /\ pos \in Nat /\ litStart \in Nat
      /\ acceleration \in Nat /\ acceleration >= Base
      /\ start < end /\ tables \in Pair(AtMost(pos, end))
  BY <1>1 DEF IInv, Typed, InBlock
<1>4. Rep' = Rep /\ Step' = Step
  BY <1>2 DEF Rep, Step
<1>5. Typed'
  <2>1. reps' \in Rep
    BY <1>1, <1>3
  <2>2. steps' \in Seq(Step)
    BY <1>1
  <2> QED
    BY <1>1, <1>2, <1>3, <1>4, <2>1, <2>2 DEF Typed
<1>6. InBlock'
  BY <1>1 DEF InBlock
<1>7. Between'
  <2>1. FirstPos' = end /\ AtMost(pos, end) = end
    BY <1>1, <1>3 DEF FirstPos, AtMost
  <2>2. Pair(FirstPos)' = Pair(end)
    BY <1>2, <2>1 DEF Pair, Table
  <2>3. tables' \in Pair(FirstPos)'
    BY <1>1, <1>3, <2>1, <2>2
  <2> QED
    BY <1>1, <2>3 DEF Between
<1> QED
  BY <1>5, <1>6, <1>7 DEF IInv

(* The next call: an own finder is emptied.                                *)
LEMMA NextCallStep ==
  ASSUME IInv, NextCall
  PROVE  IInv'
<1>1. /\ phase = "block" /\ phase' = phase /\ start' = 0 /\ end' = 0
      /\ reps' = InitReps /\ tables' = IF owned THEN EmptyTables ELSE tables
      /\ UNCHANGED <<src, opts, begin, owned, pos, litStart, steps, acceleration>>
  BY DEF NextCall, TablesForCall
<1>2. Rep' = Rep /\ Step' = Step
  BY DEF Rep, Step
<1>3. Typed'
  BY <1>1, <1>2, FreshReps DEF IInv, Typed
<1>4. InBlock'
  BY <1>1 DEF InBlock
<1>5. Between'
  <2>1. FirstPos' = 1 /\ opts \in Options
    BY <1>1 DEF FirstPos, IInv, Typed
  <2>2. Pair(FirstPos)' = Pair(1)
    BY <1>1, <2>1 DEF Pair, Table
  <2>3. EmptyTables \in Pair(1)
    BY <2>1, EmptyBelow
  <2> QED
    BY <1>1, <2>2, <2>3 DEF Between, IInv
<1> QED
  BY <1>3, <1>4, <1>5 DEF IInv

(* A source that is done stays done. *)
LEMMA FinishStep ==
  ASSUME IInv, Finish
  PROVE  IInv'
<1>1. /\ phase = "block" /\ phase' = "done"
      /\ UNCHANGED <<blockVars, tables, pos, litStart, reps, steps, acceleration>>
  BY DEF Finish
<1>2. UNCHANGED <<src, opts, start, end, begin, owned>>
  BY <1>1 DEF blockVars, callVars
<1>3. Typed'
  BY <1>1, <1>2 DEF IInv, Typed, Rep, Step
<1>4. InBlock' /\ Between'
  BY <1>1, <1>2 DEF IInv, InBlock, Between, Pair, Table, FirstPos
<1> QED
  BY <1>3, <1>4 DEF IInv

(* A stuttering step keeps the invariant. *)
LEMMA StillSame ==
  ASSUME IInv, UNCHANGED vars
  PROVE  IInv'
<1>1. UNCHANGED <<src, opts, start, end, begin, owned, tables, pos, litStart, reps, steps,
                  acceleration, phase>>
  BY DEF vars, blockVars, callVars
<1>2. Typed'
  BY <1>1 DEF IInv, Typed, Rep, Step
<1>3. InBlock'
  BY <1>1 DEF IInv, InBlock, StepsTrue, Tiles, TrueMatch, FirstPos, Byte, AtMost, Pair,
     Table, CompressionLimit
<1>4. Between'
  BY <1>1 DEF IInv, Between, Pair, Table, FirstPos
<1> QED
  BY <1>2, <1>3, <1>4 DEF IInv

(* The invariant holds at first. *)
LEMMA Start == Init => IInv
<1> SUFFICES ASSUME Init
             PROVE  IInv
  OBVIOUS
<1>1. /\ src \in Sources /\ opts \in Options /\ start = 0 /\ end = 0
      /\ begin = [reps |-> InitReps] /\ owned = FALSE /\ pos = 0 /\ litStart = 0
      /\ reps = InitReps /\ steps = <<>> /\ acceleration = Base /\ phase = "block"
  BY DEF Init
<1>2. Typed
  <2>1. steps \in Seq(Step)
    BY <1>1
  <2> QED
    BY <1>1, <2>1, FreshReps, BlockPlanAssumption DEF Typed
<1> QED
  BY <1>1, <1>2 DEF IInv, InBlock, Between

-----------------------------------------------------------------------------
(* The theorems.                                                           *)

(* Every action keeps the invariant, and those of the loops are turns.     *)
LEMMA TurnKeeps ==
  ASSUME IInv, Next
  PROVE  IInv' /\ (phase \in {"search", "again"} /\ phase' # "block" => Forward)
<1>1. CASE BeginBlock
  BY <1>1, BeginBlockStep DEF BeginBlock
<1>2. CASE GreedyRepeat
  BY <1>2, GreedyRepeatTurn
<1>3. CASE FastSearch
  BY <1>3, FastSearchTurn
<1>4. CASE RecentAgain
  BY <1>4, RecentAgainTurn
<1>5. CASE OlderAgain
  BY <1>5, OlderAgainTurn
<1>6. CASE NotAgain
  BY <1>6, NotAgainTurn
<1>7. CASE LongRepeat
  BY <1>7, LongRepeatTurn
<1>8. CASE LazyOlder
  BY <1>8, LazyOlderTurn
<1>9. CASE LazySearch
  BY <1>9, LazySearchTurn
<1>10. CASE QuickRepeat
  BY <1>10, QuickRepeatTurn
<1>11. CASE QuickOlder
  BY <1>11, QuickOlderTurn
<1>12. CASE QuickSearch
  BY <1>12, QuickSearchTurn
<1>13. CASE \E raw \in BOOLEAN : BlockDone(raw)
  <2>1. PICK raw \in BOOLEAN : BlockDone(raw)
    BY <1>13
  <2>2. phase' = "block"
    BY <2>1 DEF BlockDone
  <2> QED
    BY <2>1, <2>2, BlockDoneStep
<1>14. CASE NextCall
  BY <1>14, NextCallStep DEF NextCall
<1>15. CASE Finish
  BY <1>15, FinishStep DEF Finish
<1> QED
  BY <1>1, <1>2, <1>3, <1>4, <1>5, <1>6, <1>7, <1>8, <1>9, <1>10, <1>11, <1>12, <1>13,
     <1>14, <1>15 DEF Next

(* IInv holds in every state.                                              *)
THEOREM Inductive == Spec => []IInv
<1>1. Init => IInv
  BY Start
<1>2. IInv /\ [Next]_vars => IInv'
  BY TurnKeeps, StillSame
<1> QED
  BY <1>1, <1>2, PTL DEF Spec

(* Whatever the buckets hold and whatever a repeat or an extension to the  *)
(* left takes, every match of a plan is in the source, within reach and    *)
(* its block, and behind the match before it.                              *)
THEOREM PlansTrue == Spec => []PlanTrue
<1>1. IInv => PlanTrue
  <2> SUFFICES ASSUME IInv
               PROVE  PlanTrue
    OBVIOUS
  <2>1. CASE phase \in {"search", "again"}
    BY <2>1 DEF IInv, InBlock, PlanTrue
  <2>2. CASE phase \in {"block", "done"}
    <3>1. steps = <<>>
      BY <2>2 DEF IInv, Between
    <3> QED
      BY <3>1 DEF PlanTrue, StepsTrue, Tiles
  <2> QED
    BY <2>1, <2>2 DEF IInv, Typed
<1> QED
  BY <1>1, Inductive, PTL

(* No bucket holds a position that the parser has not passed.              *)
THEOREM NothingAhead == Spec => []TablesBehind
<1>1. IInv => TablesBehind
  <2> SUFFICES ASSUME IInv, phase \in {"search", "again"},
                      NEW b \in 0 .. (Buckets - 1), NEW i \in 1 .. opts.entries
               PROVE  tables.short[b][i] < pos /\ tables.long[b][i] < pos
    BY DEF TablesBehind
  <2>1. /\ pos \in Nat /\ tables.short \in Table(pos) /\ tables.long \in Table(pos)
    <3>1. pos \in Nat /\ pos <= pos
      BY Parsing
    <3> QED
      BY <3>1, TablesHere
  <2>2. \A t \in Table(pos) : t[b][i] \in 0 .. (pos - 1)
    <3> TAKE t \in Table(pos)
    <3>1. t[b] \in [1 .. opts.entries -> 0 .. (pos - 1)]
      BY DEF Table
    <3> QED
      BY <3>1
  <2>3. tables.short[b][i] \in 0 .. (pos - 1) /\ tables.long[b][i] \in 0 .. (pos - 1)
    BY <2>1, <2>2
  <2> QED
    BY <2>1, <2>3
<1> QED
  BY <1>1, Inductive, PTL

(* Every turn of a parser's loop moves it forward or ends the repeats, so  *)
(* that a block is parsed in a number of turns its length bounds.          *)
THEOREM AlwaysForward == Spec => MovesOn
<1>1. IInv /\ [Next]_vars =>
        [(phase \in {"search", "again"} /\ phase' # "block") =>
           (pos' > pos \/ (phase = "again" /\ phase' = "search"))]_vars
  BY TurnKeeps DEF Forward
<1> QED
  BY <1>1, Inductive, PTL DEF Spec, MovesOn

-----------------------------------------------------------------------------
(* The parse as a function.  A turn makes of m, the state of the parser    *)
(* within a block, what TurnOf(m) says: no action has a choice until the   *)
(* block is done.                                                          *)
Now ==
  [tables |-> tables, end |-> end, pos |-> pos, litStart |-> litStart, reps |-> reps,
   steps |-> steps, acceleration |-> acceleration, phase |-> phase]

(* A match is written.                                                     *)
Took(m, t, at, length, distance, acc, ph) ==
  [tables |-> t, end |-> m.end, pos |-> at + length, litStart |-> at + length,
   reps |-> Written(m.reps, distance),
   steps |-> Append(m.steps, [pos |-> at, length |-> length, distance |-> distance]),
   acceleration |-> acc, phase |-> ph]

LeftAt(m, at, match) == LeftPart(at - m.litStart, at, at - match.at)

TookFound(m, t, at, match, acc, ph) ==
  Took(m, t, at - LeftAt(m, at, match), match.length + LeftAt(m, at, match), at - match.at,
       acc, ph)

(* A position is passed.                                                   *)
Passed(m, t) ==
  [tables |-> t, end |-> m.end, pos |-> m.pos + AtLeast(m.acceleration \div Base, 1),
   litStart |-> m.litStart, reps |-> m.reps, steps |-> m.steps,
   acceleration |-> m.acceleration + 1, phase |-> m.phase]

RepeatOf(m, least) == RepeatLength(m.pos + 1, m.reps[1], least, m.end)

OlderOf(m, least) ==
  IF ~opts.advanced THEN <<0, 0>>
  ELSE IF RepeatLength(m.pos, m.reps[2], least, m.end) > 0
       THEN <<m.reps[2], RepeatLength(m.pos, m.reps[2], least, m.end)>>
       ELSE <<m.reps[3], RepeatLength(m.pos, m.reps[3], least, m.end)>>

PatientOf(m) == m.acceleration < Base + Patience /\ OlderOf(m, 2)[2] > 0

(* Levels 0 and 1.                                                         *)
GreedyOf(m) == IF opts.parser = "greedy" THEN RepeatOf(m, 3) ELSE 0

FastMatch(m) ==
  Better(NoMatch, m.pos, Candidates(m.tables.short, m.pos, opts.short, m.end)[1],
         opts.short, m.end)

AfterFast(m, table, at, length) ==
  PutAll(table, Interval(at + 1, at + AtMost(IF opts.parser = "greedy" THEN 4 ELSE 2, length - 1)),
         opts.short, m.end)

FastTurn(m) ==
  LET match == FastMatch(m)
      table == Put(m.tables.short, m.pos, opts.short, m.end)
      left  == LeftAt(m, m.pos, match)
  IN  IF GreedyOf(m) > 0
      THEN Took(m, [m.tables EXCEPT !.short = Put(m.tables.short, m.pos + 1, opts.short, m.end)],
                m.pos + 1, GreedyOf(m), m.reps[1], Base, m.phase)
      ELSE IF match = NoMatch THEN Passed(m, [m.tables EXCEPT !.short = table])
      ELSE TookFound(m, [m.tables EXCEPT !.short =
                           AfterFast(m, table, m.pos - left, match.length + left)],
                     m.pos, match, Base, "again")

AgainAtOf(m) ==
  IF m.pos + 5 <= m.end /\ Byte(m.pos + 1) # Byte(m.pos + 1 - m.reps[1])
  THEN m.pos + 2 ELSE m.pos + 1

AgainOf(m) ==
  IF opts.parser = "ultrafast" /\ m.pos + 4 <= m.end
  THEN CommonLength(AgainAtOf(m), AgainAtOf(m) - m.reps[1], m.end) ELSE 0

AgainTurn(m) ==
  IF AgainOf(m) >= 3
  THEN Took(m, [m.tables EXCEPT !.short =
                  PutAll(m.tables.short, <<AgainAtOf(m), AgainAtOf(m) + 1>>, opts.short, m.end)],
            AgainAtOf(m), AgainOf(m), m.reps[1], m.acceleration, m.phase)
  ELSE IF OlderOf(m, 4)[2] > 0
  THEN Took(m, m.tables, m.pos, OlderOf(m, 4)[2], OlderOf(m, 4)[1], m.acceleration,
            IF opts.parser = "ultrafast" THEN "again" ELSE "search")
  ELSE [tables |-> m.tables, end |-> m.end, pos |-> m.pos, litStart |-> m.litStart,
        reps |-> m.reps, steps |-> m.steps, acceleration |-> m.acceleration,
        phase |-> "search"]

(* Levels 2 to 4.                                                          *)
BothPut(t, few, many, limit) ==
  [short |-> PutAll(t.short, few, opts.short, limit), long |-> PutAll(t.long, many, Long, limit)]

HereOf(m)  == FindLazy(m.tables, m.pos, m.end, opts.short, RepeatOf(m, 2))
NextOf(m)  == NextLazy(HereOf(m).tables, m.pos + 1, m.end, opts.short, HereOf(m).match)
AfterOf(m) == LastLazy(NextOf(m).tables, m.pos + 2, m.end, opts.short, NextOf(m).match)

LazyAt(m) ==
  m.pos + (IF AfterOf(m).match.length > NextOf(m).match.length THEN 2
           ELSE IF NextOf(m).match.length > HereOf(m).match.length THEN 1 ELSE 0)

LazyPut(m, t, from, at, length) ==
  LET inside == Interval(from + 3, at + AtMost(length, Refill) - 1)
  IN  IF opts.parser = "lazyfast"
      THEN BothPut(t, <<from + 3, at + length - 1, at + length - 3>>,
                   <<from + 3, at + length - 2, at + length - 4>>, m.end)
      ELSE BothPut(t, inside, inside, m.end)

LazyTurn(m) ==
  IF RepeatOf(m, 2) >= 4
  THEN Took(m, BothPut(m.tables, Interval(m.pos, m.pos + 4), <<m.pos + 1>>, m.end),
            m.pos + 1, RepeatOf(m, 2), m.reps[1], Base, m.phase)
  ELSE IF PatientOf(m)
  THEN Took(m, BothPut(m.tables, <<m.pos, m.pos + 1>>, <<m.pos>>, m.end),
            m.pos, OlderOf(m, 2)[2], OlderOf(m, 2)[1], m.acceleration, m.phase)
  ELSE IF HereOf(m).match # NoMatch
  THEN TookFound(m, LazyPut(m, AfterOf(m).tables, m.pos, LazyAt(m), AfterOf(m).match.length),
                 LazyAt(m), AfterOf(m).match, Base, m.phase)
  ELSE IF RepeatOf(m, 2) > 0
  THEN Took(m, [HereOf(m).tables EXCEPT !.short =
                  PutAll(HereOf(m).tables.short, <<m.pos + 1, m.pos + 2>>, opts.short, m.end)],
            m.pos + 1, RepeatOf(m, 2), m.reps[1], Base, m.phase)
  ELSE Passed(m, HereOf(m).tables)

(* The splitter.                                                           *)
NearOf(m, w, p, prev, least) ==
  IF p - prev <= Farthest THEN Better(w, p, prev, least, m.end) ELSE w

QuickFirst(m) ==
  NearOf(m, NoMatch, m.pos, LastSeen(m.tables.short, m.pos, opts.short), opts.short)

QuickPays(m) ==
  QuickFirst(m) # NoMatch /\ (QuickFirst(m).length > opts.short \/ m.pos - QuickFirst(m).at < Near)

QuickHere(m) == NearOf(m, QuickFirst(m), m.pos, LastSeen(m.tables.long, m.pos, Long), Long)

QuickFew(m)  == Put(m.tables.short, m.pos, opts.short, Len(src))
QuickMany(m) == Put(m.tables.long, m.pos, Long, Len(src))

QuickMatch(m) ==
  NearOf(m, QuickHere(m), m.pos + 1,
         IF MayBeat(m.pos + 1, LastSeen(QuickMany(m), m.pos + 1, Long), QuickHere(m).length)
         THEN LastSeen(QuickMany(m), m.pos + 1, Long)
         ELSE LastSeen(QuickFew(m), m.pos + 1, opts.short),
         opts.short)

QuickAt(m) == IF QuickMatch(m).length > QuickHere(m).length THEN m.pos + 1 ELSE m.pos

QuickTurn(m) ==
  LET last == QuickAt(m) + QuickMatch(m).length
  IN  IF RepeatOf(m, 2) > 0
      THEN Took(m, BothPut(m.tables, Interval(m.pos, m.pos + 2), <<m.pos + 1>>, Len(src)),
                m.pos + 1, RepeatOf(m, 2), m.reps[1], Base, m.phase)
      ELSE IF OlderOf(m, 2)[2] > 0
      THEN Took(m, BothPut(m.tables, <<m.pos, m.pos + 1>>, <<m.pos>>, Len(src)),
                m.pos, OlderOf(m, 2)[2], OlderOf(m, 2)[1], Base, m.phase)
      ELSE IF QuickPays(m)
      THEN TookFound(m, [short |-> PutAll(QuickFew(m), <<m.pos + 1, last - 1, last - 3>>,
                                          opts.short, Len(src)),
                         long  |-> PutAll(QuickMany(m), <<m.pos + 1, last - 2>>, Long, Len(src))],
                     QuickAt(m), QuickMatch(m),
                     IF QuickMatch(m).length + LeftAt(m, QuickAt(m), QuickMatch(m)) > opts.short
                     THEN Base ELSE m.acceleration,
                     m.phase)
      ELSE Passed(m, [m.tables EXCEPT !.short = QuickFew(m)])

Halted(m) == m.phase = "search" /\ ~(m.pos < m.end)

TurnOf(m) ==
  IF Halted(m) THEN m
  ELSE IF m.phase = "again" THEN AgainTurn(m)
  ELSE IF opts.parser \in {"ultrafast", "greedy"} THEN FastTurn(m)
  ELSE IF opts.parser = "quick" THEN QuickTurn(m)
  ELSE LazyTurn(m)

(* Some turns lead from one to the other.                                  *)
Turns(t, n, from, to) ==
  /\ n \in Nat /\ t[0] = from /\ t[n] = to
  /\ \A i \in 1 .. n : t[i] = TurnOf(t[i - 1])

Leads(from, to) == \E t, n : Turns(t, n, from, to)

(* A block begins with b, and ends with m.                                 *)
Fresh == [start |-> 0, tables |-> EmptyTables, reps |-> InitReps]

Begun(b) ==
  [tables |-> b.tables, end |-> AtMost(b.start + opts.block, CompressionLimit),
   pos |-> IF opts.parser = "quick" THEN b.start + 1 ELSE IF b.start = 0 THEN 1 ELSE b.start,
   litStart |-> IF opts.parser = "quick" THEN b.start ELSE IF b.start = 0 THEN 1 ELSE b.start,
   reps |-> IF opts.parser = "quick" THEN InitReps ELSE b.reps,
   steps |-> <<>>, acceleration |-> Base, phase |-> "search"]

Ended(b, m, raw) ==
  [start |-> m.end, tables |-> m.tables, reps |-> IF raw THEN b.reps ELSE m.reps]

(* The blocks are what a finder that is kept from the first block on makes *)
(* of the source, given which of them were written raw: h is what each     *)
(* block begins with.                                                      *)
History(h, blocks) ==
  /\ h[0] = Fresh
  /\ \A k \in 1 .. Len(blocks) :
       \E m : /\ Leads(Begun(h[k - 1]), m) /\ Halted(m)
              /\ blocks[k].steps = m.steps /\ blocks[k].reps = h[k - 1].reps
              /\ h[k] = Ended(h[k - 1], m, blocks[k].raw)

(* The parser is at the beginning of block b, or within it.                *)
Here(b) ==
  /\ start = b.start
  /\ phase \in {"block", "done"} => tables = b.tables /\ reps = b.reps
  /\ phase \in {"search", "again"} => begin.reps = b.reps /\ Leads(Begun(b), Now)

Block == [reps : Rep, steps : Seq(Step), raw : BOOLEAN]

Whole(blocks) == blocks # <<>> => ~blocks[1].raw

FirstCall ==
  call = 1 /\ Whole(written) =>
    /\ written # <<>> => owned
    /\ \E h : History(h, written) /\ Here(h[Len(written)])

SecondCall ==
  call = 2 /\ Whole(first) =>
    /\ first # <<>> => owned
    /\ Len(written) <= Len(first)
    /\ \A k \in 1 .. Len(written) : written[k] = first[k]
    /\ \E h : /\ History(h, first) /\ h[Len(first)].start >= CompressionLimit
              /\ Here(h[Len(written)])

Alike ==
  /\ call \in {1, 2} /\ written \in Seq(Block) /\ first \in Seq(Block)
  /\ FirstCall /\ SecondCall

(* What a turn makes of a state depends on the source and the options,     *)
(* which do not change.                                                    *)
Fixed == UNCHANGED <<src, opts>>

(* What positions have in common stays. *)
LEMMA CommonSame ==
  ASSUME Fixed
  PROVE  /\ \A p : Byte(p)' = Byte(p)
         /\ \A p, q, limit : CommonLength(p, q, limit)' = CommonLength(p, q, limit)
         /\ \A p, n : Hash(p, n)' = Hash(p, n)
         /\ \A run, p, d : LeftPart(run, p, d)' = LeftPart(run, p, d)
         /\ \A p, q, n : MayBeat(p, q, n)' = MayBeat(p, q, n)
<1>1. src' = src
  BY DEF Fixed
<1>2. \A p : Byte(p)' = Byte(p)
  BY <1>1 DEF Byte
<1>3. ASSUME NEW p, NEW q, NEW limit
      PROVE  CommonLength(p, q, limit)' = CommonLength(p, q, limit)
  <2>1. \A x, y : AtLeast(x, y)' = AtLeast(x, y)
    BY DEF AtLeast
  <2> QED
    BY <1>2, <2>1, ZenonT(60) DEF CommonLength
<1>4. ASSUME NEW p, NEW n
      PROVE  Hash(p, n)' = Hash(p, n)
  BY <1>2, ZenonT(60) DEF Hash
<1>5. ASSUME NEW run, NEW p, NEW d
      PROVE  LeftPart(run, p, d)' = LeftPart(run, p, d)
  <2>1. \A x, y : AtMost(x, y)' = AtMost(x, y)
    BY DEF AtMost
  <2> QED
    BY <1>2, <2>1, ZenonT(60) DEF LeftPart
<1>6. \A p, q, n : MayBeat(p, q, n)' = MayBeat(p, q, n)
  BY <1>2 DEF MayBeat
<1> QED
  BY <1>2, <1>3, <1>4, <1>5, <1>6

(* What a search finds stays. *)
LEMMA SearchSame ==
  ASSUME Fixed
  PROVE  /\ \A p, d, least, e : RepeatLength(p, d, least, e)' = RepeatLength(p, d, least, e)
         /\ \A t, p, n, e : Candidates(t, p, n, e)' = Candidates(t, p, n, e)
         /\ \A w, p, q, least, e : Better(w, p, q, least, e)' = Better(w, p, q, least, e)
         /\ \A w, p, c, least, e : Longest(w, p, c, least, e)' = Longest(w, p, c, least, e)
         /\ \A p, c, short, rep, e :
              Worthiest(p, c, short, rep, e)' = Worthiest(p, c, short, rep, e)
<1>1. \A p, d, least, e : RepeatLength(p, d, least, e)' = RepeatLength(p, d, least, e)
  BY CommonSame, ZenonT(60) DEF RepeatLength
<1>2. \A t, p, n, e : Candidates(t, p, n, e)' = Candidates(t, p, n, e)
  BY CommonSame DEF Candidates
<1>3. \A w, p, q, least, e : Better(w, p, q, least, e)' = Better(w, p, q, least, e)
  BY CommonSame DEF Better
<1>4. ASSUME NEW w, NEW p, NEW c, NEW least, NEW e
      PROVE  Longest(w, p, c, least, e)' = Longest(w, p, c, least, e)
  <2>1. ASSUME NEW best
        PROVE  [i \in 0 .. Len(c) |->
                  IF i = 0 THEN w ELSE Better(best[i - 1], p, c[i], least, e)']
                 = [i \in 0 .. Len(c) |->
                      IF i = 0 THEN w ELSE Better(best[i - 1], p, c[i], least, e)]
    BY <1>3
  <2>2. (CHOOSE best : best = [i \in 0 .. Len(c) |->
           IF i = 0 THEN w ELSE Better(best[i - 1], p, c[i], least, e)'])
          = (CHOOSE best : best = [i \in 0 .. Len(c) |->
               IF i = 0 THEN w ELSE Better(best[i - 1], p, c[i], least, e)])
    BY <2>1, ZenonT(60)
  <2> QED
    BY <2>2, ZenonT(60) DEF Longest
<1>5. ASSUME NEW p, NEW c, NEW short, NEW rep, NEW e
      PROVE  Worthiest(p, c, short, rep, e)' = Worthiest(p, c, short, rep, e)
  <2>1. ASSUME NEW best
        PROVE  [i \in 0 .. Len(c) |->
                  IF i = 0 THEN NoMatch ELSE Worth(best[i - 1], p, c[i], short, rep, e)']
                 = [i \in 0 .. Len(c) |->
                      IF i = 0 THEN NoMatch ELSE Worth(best[i - 1], p, c[i], short, rep, e)]
    BY <1>3 DEF Worth
  <2>2. (CHOOSE best : best = [i \in 0 .. Len(c) |->
           IF i = 0 THEN NoMatch ELSE Worth(best[i - 1], p, c[i], short, rep, e)'])
          = (CHOOSE best : best = [i \in 0 .. Len(c) |->
               IF i = 0 THEN NoMatch ELSE Worth(best[i - 1], p, c[i], short, rep, e)])
    BY <2>1, ZenonT(60)
  <2>3. NoMatch' = NoMatch
    BY DEF NoMatch
  <2> QED
    BY <2>2, <2>3, ZenonT(60) DEF Worthiest
<1> QED
  BY <1>1, <1>2, <1>3, <1>4, <1>5

(* What a table becomes stays. *)
LEMMA PutSame ==
  ASSUME Fixed
  PROVE  /\ \A t, p, n, e : Put(t, p, n, e)' = Put(t, p, n, e)
         /\ \A t, c, n, e : PutAll(t, c, n, e)' = PutAll(t, c, n, e)
<1>1. \A t, p, n, e : Put(t, p, n, e)' = Put(t, p, n, e)
  BY CommonSame, ZenonT(60) DEF Put
<1>2. ASSUME NEW t, NEW c, NEW n, NEW e
      PROVE  PutAll(t, c, n, e)' = PutAll(t, c, n, e)
  <2>1. ASSUME NEW put
        PROVE  [i \in 0 .. Len(c) |-> IF i = 0 THEN t ELSE Put(put[i - 1], c[i], n, e)']
                 = [i \in 0 .. Len(c) |-> IF i = 0 THEN t ELSE Put(put[i - 1], c[i], n, e)]
    BY <1>1
  <2>2. (CHOOSE put : put = [i \in 0 .. Len(c) |->
           IF i = 0 THEN t ELSE Put(put[i - 1], c[i], n, e)'])
          = (CHOOSE put : put = [i \in 0 .. Len(c) |->
               IF i = 0 THEN t ELSE Put(put[i - 1], c[i], n, e)])
    BY <2>1, ZenonT(60)
  <2> QED
    BY <2>2, ZenonT(60) DEF PutAll
<1> QED
  BY <1>1, <1>2

(* What a lazy search makes of the tables stays. *)
LEMMA LazySame ==
  ASSUME Fixed
  PROVE  /\ \A t, p, e, short, rep : FindLazy(t, p, e, short, rep)' = FindLazy(t, p, e, short, rep)
         /\ \A t, p, e, short, m : NextLazy(t, p, e, short, m)' = NextLazy(t, p, e, short, m)
         /\ \A t, p, e, short, m : LastLazy(t, p, e, short, m)' = LastLazy(t, p, e, short, m)
<1>1. ASSUME NEW t, NEW p, NEW e, NEW short, NEW rep
      PROVE  FindLazy(t, p, e, short, rep)' = FindLazy(t, p, e, short, rep)
  BY SearchSame, PutSame, ZenonT(60) DEF FindLazy, NoMatch
<1>2. ASSUME NEW t, NEW p, NEW e, NEW short, NEW m
      PROVE  NextLazy(t, p, e, short, m)' = NextLazy(t, p, e, short, m)
  <2> DEFINE few    == Candidates(t.short, p, short, e)
             many   == Candidates(t.long, p, Long, e)
             chosen == [i \in DOMAIN few |->
                          IF MayBeat(p, many[i], m.length) THEN many[i] ELSE few[i]]
  <2>1. few' = few /\ many' = many
    BY SearchSame
  <2>2. chosen' = chosen
    BY <2>1, CommonSame, ZenonT(60)
  <2>3. NextLazy(t, p, e, short, m)
          = [tables |-> [short |-> Put(t.short, p, short, e), long |-> Put(t.long, p, Long, e)],
             match  |-> Longest(m, p, chosen, short, e)]
    BY DEF NextLazy
  <2>4. NextLazy(t, p, e, short, m)'
          = [tables |-> [short |-> Put(t.short, p, short, e)', long |-> Put(t.long, p, Long, e)'],
             match  |-> Longest(m, p, chosen, short, e)']
    BY DEF NextLazy
  <2> HIDE DEF chosen
  <2>5. Longest(m, p, chosen, short, e)' = Longest(m, p, chosen, short, e)
    BY <2>2, SearchSame
  <2> QED
    BY <2>3, <2>4, <2>5, PutSame
<1>3. ASSUME NEW t, NEW p, NEW e, NEW short, NEW m
      PROVE  LastLazy(t, p, e, short, m)' = LastLazy(t, p, e, short, m)
  BY SearchSame, PutSame, ZenonT(60) DEF LastLazy
<1> QED
  BY <1>1, <1>2, <1>3

(* What a turn looks at stays. *)
LEMMA LooksSame ==
  ASSUME Fixed, NEW m
  PROVE  /\ \A at, match : LeftAt(m, at, match)' = LeftAt(m, at, match)
         /\ \A least : RepeatOf(m, least)' = RepeatOf(m, least)
         /\ \A least : OlderOf(m, least)' = OlderOf(m, least)
         /\ GreedyOf(m)' = GreedyOf(m) /\ FastMatch(m)' = FastMatch(m)
         /\ PatientOf(m)' = PatientOf(m)
         /\ AgainAtOf(m)' = AgainAtOf(m) /\ AgainOf(m)' = AgainOf(m)
<1>1. opts' = opts
  BY DEF Fixed
<1>2. \A at, match : LeftAt(m, at, match)' = LeftAt(m, at, match)
  BY CommonSame DEF LeftAt
<1>3. \A least : RepeatOf(m, least)' = RepeatOf(m, least)
  BY SearchSame DEF RepeatOf
<1>4. \A least : OlderOf(m, least)' = OlderOf(m, least)
  BY <1>1, SearchSame DEF OlderOf
<1>5. GreedyOf(m)' = GreedyOf(m)
  BY <1>1, <1>3 DEF GreedyOf
<1>6. FastMatch(m)' = FastMatch(m)
  BY <1>1, SearchSame DEF FastMatch, NoMatch
<1>7. PatientOf(m)' = PatientOf(m)
  BY <1>4 DEF PatientOf
<1>8. AgainAtOf(m)' = AgainAtOf(m)
  BY CommonSame DEF AgainAtOf
<1>9. AgainOf(m)' = AgainOf(m)
  BY <1>1, <1>8, CommonSame DEF AgainOf
<1> QED
  BY <1>2, <1>3, <1>4, <1>5, <1>6, <1>7, <1>8, <1>9

(* What a turn does stays. *)
LEMMA TookSame ==
  ASSUME Fixed, NEW m
  PROVE  /\ \A t, at, n, d, acc, ph : Took(m, t, at, n, d, acc, ph)' = Took(m, t, at, n, d, acc, ph)
         /\ \A t, at, match, acc, ph :
              TookFound(m, t, at, match, acc, ph)' = TookFound(m, t, at, match, acc, ph)
         /\ \A t : Passed(m, t)' = Passed(m, t)
         /\ \A t, few, many, e : BothPut(t, few, many, e)' = BothPut(t, few, many, e)
<1>1. opts' = opts
  BY DEF Fixed
<1>2. \A r, d : Written(r, d)' = Written(r, d)
  BY <1>1 DEF Written
<1>3. \A t, at, n, d, acc, ph : Took(m, t, at, n, d, acc, ph)' = Took(m, t, at, n, d, acc, ph)
  BY SMTT(60), <1>2 DEF Took
<1>4. \A t, at, match, acc, ph :
        TookFound(m, t, at, match, acc, ph)' = TookFound(m, t, at, match, acc, ph)
  BY <1>3, LooksSame, ZenonT(60) DEF TookFound
<1>5. \A t : Passed(m, t)' = Passed(m, t)
  BY DEF Passed, AtLeast
<1>6. \A t, few, many, e : BothPut(t, few, many, e)' = BothPut(t, few, many, e)
  BY <1>1, PutSame DEF BothPut
<1> QED
  BY <1>3, <1>4, <1>5, <1>6

(* A turn of levels 0 and 1 stays what it is. *)
LEMMA FastSame ==
  ASSUME Fixed, NEW m
  PROVE  FastTurn(m)' = FastTurn(m) /\ AgainTurn(m)' = AgainTurn(m)
<1>1. opts' = opts
  BY DEF Fixed
<1>2. \A table, at, n : AfterFast(m, table, at, n)' = AfterFast(m, table, at, n)
  BY <1>1, PutSame DEF AfterFast, Interval, AtMost, AtLeast
<1>3. FastTurn(m)' = FastTurn(m)
  BY <1>1, <1>2, LooksSame, TookSame, PutSame DEF FastTurn, NoMatch
<1>4. AgainTurn(m)' = AgainTurn(m)
  BY <1>1, LooksSame, TookSame, PutSame DEF AgainTurn
<1> QED
  BY <1>3, <1>4

(* A turn of the lazy levels stays what it is. *)
LEMMA LazyTurnSame ==
  ASSUME Fixed, NEW m
  PROVE  LazyTurn(m)' = LazyTurn(m)
<1>1. opts' = opts
  BY DEF Fixed
<1>2. HereOf(m)' = HereOf(m)
  BY <1>1, LazySame, LooksSame DEF HereOf
<1>3. NextOf(m)' = NextOf(m)
  BY <1>1, <1>2, LazySame DEF NextOf
<1>4. AfterOf(m)' = AfterOf(m)
  BY <1>1, <1>3, LazySame DEF AfterOf
<1>5. LazyAt(m)' = LazyAt(m)
  BY <1>2, <1>3, <1>4 DEF LazyAt
<1>6. \A t, from, at, n : LazyPut(m, t, from, at, n)' = LazyPut(m, t, from, at, n)
  BY <1>1, TookSame DEF LazyPut, Interval, AtMost, AtLeast
<1>7. \A a, b : Interval(a, b)' = Interval(a, b)
  BY DEF Interval, AtLeast
<1> QED
  BY <1>1, <1>2, <1>3, <1>4, <1>5, <1>6, <1>7, LooksSame, TookSame, PutSame DEF LazyTurn, NoMatch

(* A turn of the splitter stays what it is. *)
LEMMA QuickSame ==
  ASSUME Fixed, NEW m
  PROVE  QuickTurn(m)' = QuickTurn(m)
<1>1. opts' = opts /\ Len(src)' = Len(src)
  BY DEF Fixed
<1>2. \A t, p, n : LastSeen(t, p, n)' = LastSeen(t, p, n)
  BY CommonSame DEF LastSeen
<1>3. \A w, p, prev, least : NearOf(m, w, p, prev, least)' = NearOf(m, w, p, prev, least)
  BY SearchSame DEF NearOf
<1>4. QuickFirst(m)' = QuickFirst(m)
  BY <1>1, <1>2, <1>3 DEF QuickFirst, NoMatch
<1>5. QuickPays(m)' = QuickPays(m)
  BY <1>1, <1>4 DEF QuickPays, NoMatch
<1>6. QuickHere(m)' = QuickHere(m)
  BY <1>2, <1>3, <1>4 DEF QuickHere
<1>7. QuickFew(m)' = QuickFew(m) /\ QuickMany(m)' = QuickMany(m)
  BY <1>1, PutSame DEF QuickFew, QuickMany
<1>8. QuickMatch(m)' = QuickMatch(m)
  BY <1>1, <1>2, <1>3, <1>6, <1>7, CommonSame DEF QuickMatch
<1>9. QuickAt(m)' = QuickAt(m)
  BY <1>6, <1>8 DEF QuickAt
<1>10. \A a, b : Interval(a, b)' = Interval(a, b)
  BY DEF Interval, AtLeast
<1> DEFINE last  == QuickAt(m) + QuickMatch(m).length
           few   == PutAll(QuickFew(m), <<m.pos + 1, last - 1, last - 3>>, opts.short, Len(src))
           many  == PutAll(QuickMany(m), <<m.pos + 1, last - 2>>, Long, Len(src))
           acc   == IF QuickMatch(m).length + LeftAt(m, QuickAt(m), QuickMatch(m)) > opts.short
                    THEN Base ELSE m.acceleration
           found == TookFound(m, [short |-> few, long |-> many], QuickAt(m), QuickMatch(m), acc,
                              m.phase)
<1>11. found' = found
  <2>1. last' = last
    BY <1>8, <1>9
  <2> HIDE DEF last
  <2>2. few' = few /\ many' = many
    BY <1>1, <1>7, <2>1, PutSame
  <2>3. acc' = acc
    BY <1>1, <1>8, <1>9, LooksSame
  <2> HIDE DEF few, many, acc
  <2> QED
    BY <1>8, <1>9, <2>2, <2>3, TookSame
<1>12. QuickTurn(m)
         = IF RepeatOf(m, 2) > 0
           THEN Took(m, BothPut(m.tables, Interval(m.pos, m.pos + 2), <<m.pos + 1>>, Len(src)),
                     m.pos + 1, RepeatOf(m, 2), m.reps[1], Base, m.phase)
           ELSE IF OlderOf(m, 2)[2] > 0
           THEN Took(m, BothPut(m.tables, <<m.pos, m.pos + 1>>, <<m.pos>>, Len(src)),
                     m.pos, OlderOf(m, 2)[2], OlderOf(m, 2)[1], Base, m.phase)
           ELSE IF QuickPays(m) THEN found
           ELSE Passed(m, [m.tables EXCEPT !.short = QuickFew(m)])
  BY DEF QuickTurn
<1>13. QuickTurn(m)'
         = IF RepeatOf(m, 2)' > 0
           THEN Took(m, BothPut(m.tables, Interval(m.pos, m.pos + 2), <<m.pos + 1>>, Len(src)),
                     m.pos + 1, RepeatOf(m, 2), m.reps[1], Base, m.phase)'
           ELSE IF OlderOf(m, 2)[2]' > 0
           THEN Took(m, BothPut(m.tables, <<m.pos, m.pos + 1>>, <<m.pos>>, Len(src)),
                     m.pos, OlderOf(m, 2)[2], OlderOf(m, 2)[1], Base, m.phase)'
           ELSE IF QuickPays(m)' THEN found'
           ELSE Passed(m, [m.tables EXCEPT !.short = QuickFew(m)])'
  BY DEF QuickTurn
<1> HIDE DEF found
<1>14. Took(m, BothPut(m.tables, Interval(m.pos, m.pos + 2), <<m.pos + 1>>, Len(src)),
            m.pos + 1, RepeatOf(m, 2), m.reps[1], Base, m.phase)'
         = Took(m, BothPut(m.tables, Interval(m.pos, m.pos + 2), <<m.pos + 1>>, Len(src)),
                m.pos + 1, RepeatOf(m, 2), m.reps[1], Base, m.phase)
  BY <1>1, <1>10, LooksSame, TookSame
<1>15. Took(m, BothPut(m.tables, <<m.pos, m.pos + 1>>, <<m.pos>>, Len(src)),
            m.pos, OlderOf(m, 2)[2], OlderOf(m, 2)[1], Base, m.phase)'
         = Took(m, BothPut(m.tables, <<m.pos, m.pos + 1>>, <<m.pos>>, Len(src)),
                m.pos, OlderOf(m, 2)[2], OlderOf(m, 2)[1], Base, m.phase)
  <2>1. OlderOf(m, 2)' = OlderOf(m, 2)
    BY LooksSame
  <2>2. OlderOf(m, 2)[1]' = OlderOf(m, 2)[1] /\ OlderOf(m, 2)[2]' = OlderOf(m, 2)[2]
    BY <2>1
  <2> QED
    BY <1>1, <2>2, TookSame
<1>16. Passed(m, [m.tables EXCEPT !.short = QuickFew(m)])'
         = Passed(m, [m.tables EXCEPT !.short = QuickFew(m)])
  BY <1>7, TookSame
<1>17. RepeatOf(m, 2)' = RepeatOf(m, 2) /\ OlderOf(m, 2)[2]' = OlderOf(m, 2)[2]
  BY LooksSame
<1> QED
  BY <1>5, <1>11, <1>12, <1>13, <1>14, <1>15, <1>16, <1>17

(* A turn stays what it is, and so do a block and its history. *)
LEMMA TurnSame ==
  ASSUME Fixed
  PROVE  /\ \A m : TurnOf(m)' = TurnOf(m) /\ Halted(m)' = Halted(m)
         /\ \A from, to : Leads(from, to)' <=> Leads(from, to)
         /\ \A b : Begun(b)' = Begun(b)
         /\ \A h, blocks : History(h, blocks)' <=> History(h, blocks)
         /\ CompressionLimit' = CompressionLimit
<1>1. src' = src /\ opts' = opts
  BY DEF Fixed
<1>2. \A m : TurnOf(m)' = TurnOf(m)
  BY <1>1, FastSame, LazyTurnSame, QuickSame DEF TurnOf, Halted
<1>3. \A m : Halted(m)' = Halted(m)
  BY DEF Halted
<1>4. ASSUME NEW from, NEW to
      PROVE  Leads(from, to)' <=> Leads(from, to)
  BY <1>2 DEF Leads, Turns
<1>5. CompressionLimit' = CompressionLimit
  BY <1>1 DEF CompressionLimit
<1>6. \A b : Begun(b)' = Begun(b)
  BY <1>1, <1>5 DEF Begun, AtMost, InitReps
<1>7. Fresh' = Fresh
  BY <1>1 DEF Fresh, EmptyTables, EmptyTable, InitReps
<1>8. \A b, m, raw : Ended(b, m, raw)' = Ended(b, m, raw)
  BY DEF Ended
<1>9. ASSUME NEW h, NEW blocks
      PROVE  History(h, blocks)' <=> History(h, blocks)
  BY <1>3, <1>4, <1>6, <1>7, <1>8 DEF History
<1> QED
  BY <1>2, <1>3, <1>4, <1>5, <1>6, <1>9

-----------------------------------------------------------------------------
(* Every turn of the loops is what the function says.                      *)

(* The state of the parser, part by part. *)
LEMMA NowIs ==
  /\ Now.tables = tables /\ Now.end = end /\ Now.pos = pos /\ Now.litStart = litStart
  /\ Now.reps = reps /\ Now.steps = steps /\ Now.acceleration = acceleration
  /\ Now.phase = phase
BY DEF Now

(* What is written is what the function says. *)
LEMMA TookNow ==
  ASSUME UNCHANGED <<opts, end>>
  PROVE  /\ \A at, n, d :
              Write(at, n, d) => Now' = Took(Now, tables', at, n, d, acceleration', phase')
         /\ \A at, match :
              WriteFound(at, match) =>
                Now' = TookFound(Now, tables', at, match, acceleration', phase')
         /\ NothingFound /\ phase' = phase => Now' = Passed(Now, tables')
<1>1. ASSUME NEW at, NEW n, NEW d, Write(at, n, d)
      PROVE  Now' = Took(Now, tables', at, n, d, acceleration', phase')
  BY <1>1, NowIs DEF Write, Now, Took
<1>2. ASSUME NEW at, NEW match, WriteFound(at, match)
      PROVE  Now' = TookFound(Now, tables', at, match, acceleration', phase')
  <2> DEFINE left == LeftPart(at - litStart, at, at - match.at)
  <2>1. Write(at - left, match.length + left, at - match.at)
    BY <1>2 DEF WriteFound
  <2>2. LeftAt(Now, at, match) = left
    BY NowIs DEF LeftAt
  <2> HIDE DEF left
  <2> QED
    BY <1>1, <2>1, <2>2 DEF TookFound
<1>3. ASSUME NothingFound, phase' = phase
      PROVE  Now' = Passed(Now, tables')
  BY <1>3, NowIs DEF NothingFound, Now, Passed
<1> QED
  BY <1>1, <1>2, <1>3

(* What a turn looks at. *)
LEMMA LooksNow ==
  /\ \A least : RepeatOf(Now, least) = RepeatLength(pos + 1, reps[1], least, end)
  /\ \A least : OlderOf(Now, least) = Older(least, pos)
  /\ RepeatOf(Now, 2) = NextLength /\ GreedyOf(Now) = GreedyLength
  /\ PatientOf(Now) <=> Patient
  /\ AgainAtOf(Now) = AgainAt /\ AgainOf(Now) = AgainLength
  /\ \A w, p, prev, least : NearOf(Now, w, p, prev, least) = BetterNear(w, p, prev, least)
<1>1. \A least : RepeatOf(Now, least) = RepeatLength(pos + 1, reps[1], least, end)
  BY NowIs DEF RepeatOf
<1>2. \A least : OlderOf(Now, least) = Older(least, pos)
  BY NowIs DEF OlderOf, Older
<1>3. RepeatOf(Now, 2) = NextLength /\ GreedyOf(Now) = GreedyLength
  BY <1>1 DEF NextLength, GreedyOf, GreedyLength
<1>4. PatientOf(Now) <=> Patient
  BY <1>2, NowIs DEF PatientOf, Patient
<1>5. AgainAtOf(Now) = AgainAt
  BY NowIs DEF AgainAtOf, AgainAt
<1>6. AgainOf(Now) = AgainLength
  BY <1>5, NowIs DEF AgainOf, AgainLength
<1>7. \A w, p, prev, least : NearOf(Now, w, p, prev, least) = BetterNear(w, p, prev, least)
  BY NowIs DEF NearOf, BetterNear
<1> QED
  BY <1>1, <1>2, <1>3, <1>4, <1>5, <1>6, <1>7

(* Levels 0 and 1. *)
LEMMA FastNow ==
  ASSUME GreedyRepeat \/ FastSearch
  PROVE  Now' = TurnOf(Now)
<1>1. /\ phase = "search" /\ pos < end /\ opts.parser \in {"ultrafast", "greedy"}
      /\ UNCHANGED <<opts, end>>
  BY DEF GreedyRepeat, FastSearch, Turn, blockVars, callVars
<1>2. TurnOf(Now) = FastTurn(Now)
  BY <1>1, NowIs DEF TurnOf, Halted
<1>3. CASE GreedyRepeat
  <2>1. /\ GreedyLength > 0 /\ Write(pos + 1, GreedyLength, reps[1])
        /\ tables' = [tables EXCEPT !.short = Put(tables.short, pos + 1, opts.short, end)]
        /\ acceleration' = Base /\ phase' = phase
    BY <1>3 DEF GreedyRepeat
  <2>2. Now' = Took(Now, tables', pos + 1, GreedyLength, reps[1], acceleration', phase')
    BY <1>1, <2>1, TookNow
  <2> QED
    BY <1>2, <2>1, <2>2, NowIs, LooksNow DEF FastTurn
<1>4. CASE FastSearch
  <2> DEFINE prev  == Candidates(tables.short, pos, opts.short, end)[1]
             match == Better(NoMatch, pos, prev, opts.short, end)
             table == Put(tables.short, pos, opts.short, end)
             left  == LeftPart(pos - litStart, pos, pos - match.at)
             after == AfterMatch(table, pos - left, match.length + left)
  <2>1. /\ GreedyLength = 0
        /\ IF match = NoMatch
           THEN /\ NothingFound /\ phase' = phase
                /\ tables' = [tables EXCEPT !.short = table]
           ELSE /\ WriteFound(pos, match)
                /\ tables' = [tables EXCEPT !.short = after]
                /\ acceleration' = Base /\ phase' = "again"
    BY <1>4 DEF FastSearch
  <2>2. FastMatch(Now) = match
    BY NowIs DEF FastMatch
  <2>3. \A at, n : AfterFast(Now, table, at, n) = AfterMatch(table, at, n)
    BY NowIs DEF AfterFast, AfterMatch
  <2>4. LeftAt(Now, pos, match) = left
    BY NowIs DEF LeftAt
  <2>5. Put(Now.tables.short, Now.pos, opts.short, Now.end) = table
    BY NowIs
  <2> HIDE DEF match, table
  <2>6. FastTurn(Now) = IF match = NoMatch THEN Passed(Now, [tables EXCEPT !.short = table])
                        ELSE TookFound(Now, [tables EXCEPT !.short = after], pos, match,
                                       Base, "again")
    BY <2>1, <2>2, <2>3, <2>4, <2>5, NowIs, LooksNow DEF FastTurn
  <2> HIDE DEF after, left
  <2> QED
    BY <1>1, <1>2, <2>1, <2>6, TookNow
<1> QED
  BY <1>3, <1>4

(* The repeats after a match. *)
LEMMA AgainNow ==
  ASSUME IInv, RecentAgain \/ OlderAgain \/ NotAgain
  PROVE  Now' = TurnOf(Now)
<1>1. phase = "again" /\ UNCHANGED <<opts, end>>
  BY DEF RecentAgain, OlderAgain, NotAgain, blockVars, callVars
<1>0. AgainLength \in Int
  <2>1. pos \in Nat /\ end \in Nat
    BY <1>1, Parsing
  <2>2. AgainAt \in Int
    BY <2>1 DEF AgainAt
  <2>3. CommonLength(AgainAt, AgainAt - reps[1], end) \in 0 .. AtLeast(end - AgainAt, 0)
    BY <2>1, <2>2, CommonBytes
  <2> QED
    BY <2>3 DEF AgainLength
<1>2. TurnOf(Now) = AgainTurn(Now)
  BY <1>1, NowIs DEF TurnOf, Halted
<1>3. CASE RecentAgain
  <2>1. /\ AgainLength >= 3 /\ Write(AgainAt, AgainLength, reps[1])
        /\ tables' = [tables EXCEPT !.short =
                        PutAll(tables.short, <<AgainAt, AgainAt + 1>>, opts.short, end)]
        /\ acceleration' = acceleration /\ phase' = phase
    BY <1>3 DEF RecentAgain
  <2>2. Now' = Took(Now, tables', AgainAt, AgainLength, reps[1], acceleration', phase')
    BY <1>1, <2>1, TookNow
  <2> QED
    BY <1>2, <2>1, <2>2, NowIs, LooksNow DEF AgainTurn
<1>4. CASE OlderAgain
  <2>1. /\ AgainLength < 3 /\ Older(4, pos)[2] > 0
        /\ Write(pos, Older(4, pos)[2], Older(4, pos)[1])
        /\ phase' = (IF opts.parser = "ultrafast" THEN "again" ELSE "search")
        /\ tables' = tables /\ acceleration' = acceleration
    BY <1>4 DEF OlderAgain
  <2>2. Now' = Took(Now, tables', pos, Older(4, pos)[2], Older(4, pos)[1], acceleration', phase')
    BY <1>1, <2>1, TookNow
  <2>3. ~(AgainLength >= 3)
    BY <1>0, <2>1
  <2> QED
    BY <1>2, <2>1, <2>2, <2>3, NowIs, LooksNow DEF AgainTurn
<1>5. CASE NotAgain
  <2>1. /\ AgainLength < 3 /\ Older(4, pos)[2] = 0 /\ phase' = "search"
        /\ UNCHANGED <<tables, pos, litStart, reps, steps, acceleration>>
    BY <1>5 DEF NotAgain
  <2>2. ~(AgainLength >= 3)
    BY <1>0, <2>1
  <2>3. AgainTurn(Now)
          = [tables |-> Now.tables, end |-> Now.end, pos |-> Now.pos, litStart |-> Now.litStart,
             reps |-> Now.reps, steps |-> Now.steps, acceleration |-> Now.acceleration,
             phase |-> "search"]
    BY SMTT(60), <2>1, <2>2, LooksNow DEF AgainTurn
  <2> QED
    BY <1>1, <1>2, <2>1, <2>3, NowIs DEF Now
<1> QED
  BY <1>3, <1>4, <1>5

(* Levels 2 to 4. *)
LEMMA LazyNow ==
  ASSUME IInv, LongRepeat \/ LazyOlder \/ LazySearch
  PROVE  Now' = TurnOf(Now)
<1>1. /\ phase = "search" /\ pos < end /\ opts.parser \in LazyParsers
      /\ UNCHANGED <<opts, end>> /\ phase' = phase
  BY DEF LongRepeat, LazyOlder, LazySearch, Turn, blockVars, callVars
<1>2. TurnOf(Now) = LazyTurn(Now)
  BY <1>1, NowIs DEF TurnOf, Halted, LazyParsers
<1>3. NextLength \in Nat
  BY <1>1, NextRuns
<1>4. \A few, many :
        PutRepeat(few, many) => tables' = BothPut(tables, few, many, end)
  BY DEF PutRepeat, BothPut
<1>5. CASE LongRepeat
  <2>1. /\ NextLength >= 4 /\ Write(pos + 1, NextLength, reps[1])
        /\ PutRepeat(Interval(pos, pos + 4), <<pos + 1>>) /\ acceleration' = Base
    BY <1>5 DEF LongRepeat
  <2>2. Now' = Took(Now, tables', pos + 1, NextLength, reps[1], acceleration', phase')
    BY <1>1, <2>1, TookNow
  <2>3. tables' = BothPut(tables, Interval(pos, pos + 4), <<pos + 1>>, end)
    BY <1>4, <2>1
  <2> QED
    BY <1>1, <1>2, <2>1, <2>2, <2>3, NowIs, LooksNow DEF LazyTurn
<1>6. CASE LazyOlder
  <2>1. /\ NextLength < 4 /\ Patient /\ Write(pos, Older(2, pos)[2], Older(2, pos)[1])
        /\ PutRepeat(<<pos, pos + 1>>, <<pos>>) /\ acceleration' = acceleration
    BY <1>6 DEF LazyOlder
  <2>2. Now' = Took(Now, tables', pos, Older(2, pos)[2], Older(2, pos)[1], acceleration', phase')
    BY <1>1, <2>1, TookNow
  <2>3. tables' = BothPut(tables, <<pos, pos + 1>>, <<pos>>, end)
    BY <1>4, <2>1
  <2>4. ~(NextLength >= 4)
    BY <1>3, <2>1
  <2> QED
    BY <1>1, <1>2, <2>1, <2>2, <2>3, <2>4, NowIs, LooksNow DEF LazyTurn
<1>7. CASE LazySearch
  <2> DEFINE here  == FindLazy(tables, pos, end, opts.short, NextLength)
             next  == NextLazy(here.tables, pos + 1, end, opts.short, here.match)
             after == LastLazy(next.tables, pos + 2, end, opts.short, next.match)
             at    == pos + (IF after.match.length > next.match.length THEN 2
                             ELSE IF next.match.length > here.match.length THEN 1 ELSE 0)
             put   == AfterLazy(after.tables, pos, at, after.match.length)
             again == [here.tables EXCEPT !.short =
                         PutAll(here.tables.short, <<pos + 1, pos + 2>>, opts.short, end)]
  <2>1. /\ NextLength < 4 /\ ~Patient
        /\ IF here.match # NoMatch
           THEN /\ WriteFound(at, after.match) /\ tables' = put /\ acceleration' = Base
           ELSE IF NextLength > 0
           THEN /\ Write(pos + 1, NextLength, reps[1]) /\ tables' = again
                /\ acceleration' = Base
           ELSE NothingFound /\ tables' = here.tables
    BY <1>7 DEF LazySearch
  <2>2. HereOf(Now) = here
    BY NowIs, LooksNow DEF HereOf
  <2>3. NextOf(Now) = next
    BY <2>2, NowIs DEF NextOf
  <2>4. AfterOf(Now) = after
    BY <2>3, NowIs DEF AfterOf
  <2> HIDE DEF here, next, after
  <2>5. LazyAt(Now) = at
    BY <2>2, <2>3, <2>4, NowIs DEF LazyAt
  <2>6. \A t, from, a, n : LazyPut(Now, t, from, a, n) = AfterLazy(t, from, a, n)
    BY NowIs DEF LazyPut, AfterLazy, BothPut
  <2>7. ~(NextLength >= 4)
    BY <1>3, <2>1
  <2> HIDE DEF at
  <2>8. LazyTurn(Now)
          = IF here.match # NoMatch
            THEN TookFound(Now, put, at, after.match, Base, phase)
            ELSE IF NextLength > 0
            THEN Took(Now, again, pos + 1, NextLength, reps[1], Base, phase)
            ELSE Passed(Now, here.tables)
    BY SMTT(60), <2>1, <2>2, <2>4, <2>5, <2>6, <2>7, NowIs, LooksNow DEF LazyTurn
  <2> HIDE DEF put, again
  <2> QED
    BY SMTT(60), <1>1, <1>2, <2>1, <2>8, TookNow
<1> QED
  BY <1>5, <1>6, <1>7

(* The splitter. *)
LEMMA QuickNow ==
  ASSUME IInv, QuickRepeat \/ QuickOlder \/ QuickSearch
  PROVE  Now' = TurnOf(Now)
<1>1. /\ phase = "search" /\ pos < end /\ opts.parser = "quick"
      /\ UNCHANGED <<opts, end>> /\ phase' = phase
  BY DEF QuickRepeat, QuickOlder, QuickSearch, Turn, blockVars, callVars
<1>2. TurnOf(Now) = QuickTurn(Now)
  BY <1>1, NowIs DEF TurnOf, Halted
<1>3. \A few, many :
        PutQuick(few, many) => tables' = BothPut(tables, few, many, Len(src))
  BY DEF PutQuick, BothPut
<1>4. CASE QuickRepeat
  <2>1. /\ NextLength > 0 /\ Write(pos + 1, NextLength, reps[1])
        /\ PutQuick(Interval(pos, pos + 2), <<pos + 1>>) /\ acceleration' = Base
    BY <1>4 DEF QuickRepeat
  <2>2. Now' = Took(Now, tables', pos + 1, NextLength, reps[1], acceleration', phase')
    BY <1>1, <2>1, TookNow
  <2>3. tables' = BothPut(tables, Interval(pos, pos + 2), <<pos + 1>>, Len(src))
    BY <1>3, <2>1
  <2> QED
    BY <1>1, <1>2, <2>1, <2>2, <2>3, NowIs, LooksNow DEF QuickTurn
<1>5. CASE QuickOlder
  <2>1. /\ NextLength = 0 /\ Older(2, pos)[2] > 0
        /\ Write(pos, Older(2, pos)[2], Older(2, pos)[1])
        /\ PutQuick(<<pos, pos + 1>>, <<pos>>) /\ acceleration' = Base
    BY <1>5 DEF QuickOlder
  <2>2. Now' = Took(Now, tables', pos, Older(2, pos)[2], Older(2, pos)[1], acceleration', phase')
    BY <1>1, <2>1, TookNow
  <2>3. tables' = BothPut(tables, <<pos, pos + 1>>, <<pos>>, Len(src))
    BY <1>3, <2>1
  <2> QED
    BY <1>1, <1>2, <2>1, <2>2, <2>3, NowIs, LooksNow DEF QuickTurn
<1>6. CASE QuickSearch
  <2> DEFINE first3 == BetterNear(NoMatch, pos, LastSeen(tables.short, pos, opts.short), opts.short)
             pays   == first3 # NoMatch /\ (first3.length > opts.short \/ pos - first3.at < Near)
             here   == BetterNear(first3, pos, LastSeen(tables.long, pos, Long), Long)
             few    == Put(tables.short, pos, opts.short, Len(src))
             many   == Put(tables.long, pos, Long, Len(src))
             prev3  == LastSeen(few, pos + 1, opts.short)
             prev6  == LastSeen(many, pos + 1, Long)
             match  == BetterNear(here, pos + 1,
                                  IF MayBeat(pos + 1, prev6, here.length) THEN prev6 ELSE prev3,
                                  opts.short)
             at     == IF match.length > here.length THEN pos + 1 ELSE pos
             last   == at + match.length
             s      == PutAll(few, <<pos + 1, last - 1, last - 3>>, opts.short, Len(src))
             l      == PutAll(many, <<pos + 1, last - 2>>, Long, Len(src))
             acc    == IF match.length + LeftPart(at - litStart, at, at - match.at) > opts.short
                       THEN Base ELSE acceleration
  <2>1. /\ NextLength = 0 /\ Older(2, pos)[2] = 0
        /\ IF pays
           THEN /\ WriteFound(at, match) /\ tables' = [short |-> s, long |-> l]
                /\ acceleration' = acc
           ELSE NothingFound /\ tables' = [tables EXCEPT !.short = few]
    BY <1>6 DEF QuickSearch
  <2>2. QuickFirst(Now) = first3
    BY NowIs, LooksNow DEF QuickFirst
  <2>3. QuickPays(Now) <=> pays
    BY <2>2, NowIs DEF QuickPays
  <2> HIDE DEF first3
  <2>4. QuickHere(Now) = here
    BY <2>2, NowIs, LooksNow DEF QuickHere
  <2>5. QuickFew(Now) = few /\ QuickMany(Now) = many
    BY NowIs DEF QuickFew, QuickMany
  <2> HIDE DEF here, few, many
  <2>6. QuickMatch(Now) = match
    BY <2>4, <2>5, NowIs, LooksNow DEF QuickMatch
  <2> HIDE DEF match
  <2>7. QuickAt(Now) = at
    BY <2>4, <2>6, NowIs DEF QuickAt
  <2> HIDE DEF at
  <2>8. LeftAt(Now, at, match) = LeftPart(at - litStart, at, at - match.at)
    BY NowIs DEF LeftAt
  <2> HIDE DEF pays
  <2>9. QuickTurn(Now)
          = IF pays THEN TookFound(Now, [short |-> s, long |-> l], at, match, acc, phase)
            ELSE Passed(Now, [tables EXCEPT !.short = few])
    BY <2>1, <2>3, <2>5, <2>6, <2>7, <2>8, NowIs, LooksNow DEF QuickTurn
  <2> HIDE DEF s, l, acc
  <2> QED
    BY SMTT(60), <1>1, <1>2, <2>1, <2>9, TookNow
<1> QED
  BY <1>4, <1>5, <1>6

-----------------------------------------------------------------------------
(* Where the turns of a block lead.                                        *)

(* No turn leads to where one is, and one more turn to what it makes.      *)
LEMMA LeadsOn ==
  ASSUME NEW from
  PROVE  /\ Leads(from, from)
         /\ \A to : Leads(from, to) => Leads(from, TurnOf(to))
<1>1. Leads(from, from)
  <2> DEFINE t == [i \in 0 .. 0 |-> from]
  <2>1. t[0] = from /\ 0 \in Nat /\ \A i \in 1 .. 0 : t[i] = TurnOf(t[i - 1])
    OBVIOUS
  <2> HIDE DEF t
  <2>2. Turns(t, 0, from, from)
    BY <2>1 DEF Turns
  <2> QED
    BY <2>2 DEF Leads
<1>2. ASSUME NEW to, Leads(from, to)
      PROVE  Leads(from, TurnOf(to))
  <2>1. PICK t, n : Turns(t, n, from, to)
    BY <1>2 DEF Leads
  <2>2. /\ n \in Nat /\ t[0] = from /\ t[n] = to
        /\ \A i \in 1 .. n : t[i] = TurnOf(t[i - 1])
    BY <2>1 DEF Turns
  <2> DEFINE u == [i \in 0 .. (n + 1) |-> IF i = n + 1 THEN TurnOf(to) ELSE t[i]]
  <2>3. u[0] = from /\ u[n + 1] = TurnOf(to) /\ n + 1 \in Nat
    BY <2>2
  <2>4. ASSUME NEW i \in 1 .. (n + 1)
        PROVE  u[i] = TurnOf(u[i - 1])
    <3>1. i - 1 \in 0 .. (n + 1) /\ i - 1 # n + 1 /\ i \in 0 .. (n + 1)
      BY <2>2
    <3>2. u[i - 1] = t[i - 1]
      BY <3>1
    <3>3. CASE i = n + 1
      <4>1. i - 1 = n
        BY <2>2, <3>3
      <4> QED
        BY <2>2, <3>1, <3>2, <3>3, <4>1
    <3>4. CASE i # n + 1
      <4>1. i \in 1 .. n /\ u[i] = t[i]
        BY <2>2, <3>1, <3>4
      <4> QED
        BY <2>2, <3>2, <4>1
    <3> QED
      BY <3>3, <3>4
  <2> HIDE DEF u
  <2>5. Turns(u, n + 1, from, TurnOf(to))
    BY <2>3, <2>4 DEF Turns
  <2> QED
    BY <2>5 DEF Leads
<1> QED
  BY <1>1, <1>2

(* The turns of a block end in one state.                                  *)
LEMMA HaltsFirst ==
  ASSUME NEW t, NEW u, NEW n, NEW k, NEW from, NEW a, NEW b,
         Turns(t, n, from, a), Turns(u, k, from, b), Halted(a), n <= k
  PROVE  a = b
<1>1. /\ n \in Nat /\ t[0] = from /\ t[n] = a
      /\ \A i \in 1 .. n : t[i] = TurnOf(t[i - 1])
  BY DEF Turns
<1>2. /\ k \in Nat /\ u[0] = from /\ u[k] = b
      /\ \A i \in 1 .. k : u[i] = TurnOf(u[i - 1])
  BY DEF Turns
<1>3. TurnOf(a) = a
  BY DEF TurnOf
<1> DEFINE Same == {i \in 0 .. n : t[i] = u[i]}
<1>4. 0 \in Same
  BY <1>1, <1>2
<1>5. ASSUME NEW i \in 0 .. (n - 1), i \in Same
      PROVE  i + 1 \in Same
  <2>1. i + 1 \in 1 .. n /\ i + 1 \in 1 .. k /\ (i + 1) - 1 = i /\ i + 1 \in 0 .. n
    BY <1>1, <1>2
  <2>2. t[i + 1] = TurnOf(t[i]) /\ u[i + 1] = TurnOf(u[i])
    BY <1>1, <1>2, <2>1
  <2> QED
    BY <1>5, <2>1, <2>2
<1> HIDE DEF Same
<1>6. n \in Same
  <2>1. \A i \in 0 .. (n - 1) : i \in Same => i + 1 \in Same
    BY <1>5
  <2>2. n \in 0 .. n
    BY <1>1
  <2> QED
    BY <1>1, <1>4, <2>1, <2>2, UpTo
<1>7. u[n] = a
  BY <1>1, <1>6 DEF Same
<1> DEFINE rest == k - n
           Still == {j \in 0 .. rest : u[n + j] = a}
<1>8. rest \in Nat
  BY <1>1, <1>2
<1>9. 0 \in Still
  <2>1. n + 0 = n /\ 0 \in 0 .. rest
    BY <1>1, <1>8
  <2> QED
    BY <1>7, <2>1
<1>10. ASSUME NEW j \in 0 .. (rest - 1), j \in Still
       PROVE  j + 1 \in Still
  <2>1. n + (j + 1) \in 1 .. k /\ (n + (j + 1)) - 1 = n + j /\ j + 1 \in 0 .. rest
    BY <1>1, <1>2, <1>8
  <2>2. u[n + (j + 1)] = TurnOf(u[n + j])
    BY <1>2, <2>1
  <2> QED
    BY <1>3, <1>10, <2>1, <2>2
<1>11. n + rest = k
  BY <1>1, <1>2
<1> HIDE DEF Still, rest
<1>12. rest \in Still
  <2>1. \A j \in 0 .. (rest - 1) : j \in Still => j + 1 \in Still
    BY <1>10
  <2>2. rest \in 0 .. rest
    BY <1>8
  <2> QED
    BY <1>8, <1>9, <2>1, <2>2, UpTo
<1>13. u[n + rest] = a
  BY <1>12 DEF Still
<1> QED
  BY <1>2, <1>11, <1>13

(* So does the state they end in not depend on their number. *)
LEMMA HaltsOnce ==
  ASSUME NEW from, NEW a, NEW b, Leads(from, a), Leads(from, b), Halted(a), Halted(b)
  PROVE  a = b
<1>1. PICK t, n : Turns(t, n, from, a)
  BY DEF Leads
<1>2. PICK u, k : Turns(u, k, from, b)
  BY DEF Leads
<1>3. n \in Nat /\ k \in Nat
  BY <1>1, <1>2 DEF Turns
<1>4. CASE n <= k
  BY <1>1, <1>2, <1>4, HaltsFirst
<1>5. CASE k <= n
  BY <1>1, <1>2, <1>5, HaltsFirst
<1> QED
  BY <1>3, <1>4, <1>5

-----------------------------------------------------------------------------
(* The two calls.                                                          *)

(* A history is one in the next state as well. *)
LEMMA HistoryThen ==
  ASSUME Fixed, NEW h
  PROVE  /\ History(h, written)' <=> History(h, written')
         /\ History(h, first)' <=> History(h, first')
<1>1. /\ \A m : Halted(m)' = Halted(m)
      /\ \A from, to : Leads(from, to)' <=> Leads(from, to)
      /\ \A b : Begun(b)' = Begun(b)
  BY TurnSame
<1>2. Fresh' = Fresh
  BY DEF Fixed, Fresh, EmptyTables, EmptyTable, InitReps
<1>3. \A b, m, raw : Ended(b, m, raw)' = Ended(b, m, raw)
  BY DEF Ended
<1> QED
  BY <1>1, <1>2, <1>3 DEF History

(* Where the turns lead now is where they lead in the next state. *)
LEMMA LeadsThen ==
  ASSUME Fixed, NEW b
  PROVE  Leads(Begun(b), Now)' <=> Leads(Begun(b), Now')
<1>1. (\A m : TurnOf(m)' = TurnOf(m)) /\ Begun(b)' = Begun(b)
  BY TurnSame
<1> QED
  BY <1>1 DEF Leads, Turns

(* After a turn the parser is in the same block. *)
LEMMA TurnHere ==
  ASSUME Fixed, UNCHANGED <<start, begin>>, phase \in {"search", "again"},
         phase' \in {"search", "again"}, Now' = TurnOf(Now), NEW b, Here(b)
  PROVE  Here(b)'
<1>1. Leads(Begun(b), Now) /\ start = b.start /\ begin.reps = b.reps
  BY DEF Here
<1>2. Leads(Begun(b), Now')
  BY <1>1, LeadsOn
<1>3. Leads(Begun(b), Now)'
  BY <1>2, LeadsThen
<1> QED
  BY <1>1, <1>3 DEF Here

(* When a block begins, its first turn is to come. *)
LEMMA BeginHere ==
  ASSUME IInv, BeginBlock, NEW b, Here(b), owned \/ b.tables = EmptyTables
  PROVE  Here(b)'
<1>1. /\ phase = "block" /\ phase' = "search"
      /\ end' = AtMost(start + opts.block, CompressionLimit)
      /\ begin' = [reps |-> reps]
      /\ tables' = IF owned THEN tables ELSE EmptyTables
      /\ IF opts.parser = "quick"
         THEN reps' = InitReps /\ pos' = start + 1 /\ litStart' = start
         ELSE pos' = FirstPos /\ litStart' = FirstPos /\ UNCHANGED reps
      /\ steps' = <<>> /\ acceleration' = Base
      /\ UNCHANGED <<src, opts, start>>
  BY DEF BeginBlock, callVars
<1>2. start = b.start /\ tables = b.tables /\ reps = b.reps
  BY <1>1 DEF Here
<1>3. tables' = b.tables
  BY <1>1, <1>2
<1>4. Now' = [tables |-> tables', end |-> end', pos |-> pos', litStart |-> litStart',
              reps |-> reps', steps |-> steps', acceleration |-> acceleration', phase |-> phase']
  BY DEF Now
<1>5. Now' = Begun(b)
  BY <1>1, <1>2, <1>3, <1>4 DEF Begun, FirstPos
<1>6. Leads(Begun(b), Now)'
  BY <1>1, <1>5, LeadsOn, LeadsThen DEF Fixed
<1> QED
  BY <1>1, <1>2, <1>6 DEF Here

(* When a block is done, the next one begins with what it leaves. *)
LEMMA DoneHere ==
  ASSUME IInv, NEW raw \in BOOLEAN, BlockDone(raw), NEW b, Here(b)
  PROVE  /\ Leads(Begun(b), Now) /\ Halted(Now) /\ Now.steps = steps /\ begin.reps = b.reps
         /\ \A x : x = Ended(b, Now, raw) => Here(x)'
<1>1. /\ phase = "search" /\ ~(pos < end) /\ start' = end
      /\ reps' = (IF raw THEN begin.reps ELSE reps) /\ tables' = tables /\ phase' = "block"
  <2>1. phase = "search" /\ pos >= end
    BY DEF BlockDone
  <2>2. pos \in Nat /\ end \in Nat
    BY DEF IInv, Typed
  <2> QED
    BY <2>1, <2>2 DEF BlockDone
<1>2. Leads(Begun(b), Now) /\ begin.reps = b.reps
  BY <1>1 DEF Here
<1>3. Halted(Now) /\ Now.steps = steps
  BY <1>1, NowIs DEF Halted
<1> DEFINE next == [start |-> end, tables |-> tables, reps |-> IF raw THEN b.reps ELSE reps]
<1>4. Ended(b, Now, raw) = next
  BY NowIs DEF Ended
<1>5. ASSUME NEW x, x = next
      PROVE  Here(x)'
  BY <1>1, <1>2, <1>5 DEF Here
<1> QED
  BY <1>2, <1>3, <1>4, <1>5

(* A block that is done goes into the history.                             *)
LEMMA HistoryLonger ==
  ASSUME NEW h, NEW blocks \in Seq(Block), History(h, blocks), NEW block \in Block, NEW m,
         Leads(Begun(h[Len(blocks)]), m), Halted(m), block.steps = m.steps,
         block.reps = h[Len(blocks)].reps
  PROVE  \E g : /\ History(g, Append(blocks, block))
                /\ g[Len(blocks) + 1] = Ended(h[Len(blocks)], m, block.raw)
<1> DEFINE n    == Len(blocks)
           last == Ended(h[n], m, block.raw)
           more == Append(blocks, block)
           g    == [k \in 0 .. (n + 1) |-> IF k = n + 1 THEN last ELSE h[k]]
<1>1. /\ n \in Nat /\ Len(more) = n + 1 /\ more[n + 1] = block
      /\ \A k \in 1 .. n : more[k] = blocks[k]
  OBVIOUS
<1>2. /\ h[0] = Fresh
      /\ \A k \in 1 .. n : \E x : /\ Leads(Begun(h[k - 1]), x) /\ Halted(x)
                                  /\ blocks[k].steps = x.steps
                                  /\ blocks[k].reps = h[k - 1].reps
                                  /\ h[k] = Ended(h[k - 1], x, blocks[k].raw)
  BY DEF History
<1> HIDE DEF last
<1>3. g[n + 1] = last /\ \A k \in 0 .. n : g[k] = h[k]
  BY <1>1
<1>4. g[0] = Fresh
  BY <1>1, <1>2, <1>3
<1> HIDE DEF g, more
<1>5. ASSUME NEW k \in 1 .. (n + 1)
      PROVE  \E x : /\ Leads(Begun(g[k - 1]), x) /\ Halted(x) /\ more[k].steps = x.steps
                    /\ more[k].reps = g[k - 1].reps
                    /\ g[k] = Ended(g[k - 1], x, more[k].raw)
  <2>1. k - 1 \in 0 .. n
    BY <1>1
  <2>2. g[k - 1] = h[k - 1]
    BY <1>3, <2>1
  <2>3. CASE k = n + 1
    <3>1. k - 1 = n
      BY <1>1, <2>3
    <3>2. /\ Leads(Begun(g[k - 1]), m) /\ g[k] = Ended(g[k - 1], m, more[k].raw)
          /\ more[k].reps = g[k - 1].reps
      BY <1>1, <1>3, <2>2, <2>3, <3>1 DEF last
    <3> QED
      BY <1>1, <2>3, <3>2
  <2>4. CASE k # n + 1
    <3>1. k \in 1 .. n /\ k \in 0 .. n
      BY <1>1, <2>4
    <3>2. more[k] = blocks[k] /\ g[k] = h[k]
      BY <1>1, <1>3, <3>1
    <3> QED
      BY <1>2, <2>2, <3>1, <3>2
  <2> QED
    BY <2>3, <2>4
<1>6. History(g, more)
  BY <1>1, <1>4, <1>5 DEF History
<1> QED
  BY <1>3, <1>6 DEF last, more

(* The blocks of a history that is kept whole.                             *)
LEMMA KindsThen ==
  ASSUME Alike, IInv, Next
  PROVE  call' \in {1, 2} /\ written' \in Seq(Block) /\ first' \in Seq(Block)
<1>1. call \in {1, 2} /\ written \in Seq(Block) /\ first \in Seq(Block) /\ steps \in Seq(Step)
      /\ begin.reps \in Rep
  BY DEF Alike, IInv, Typed
<1>2. CASE UNCHANGED <<call, written, first>>
  BY <1>1, <1>2
<1>3. CASE \E raw \in BOOLEAN : BlockDone(raw)
  <2>1. PICK raw \in BOOLEAN : BlockDone(raw)
    BY <1>3
  <2>2. written' = Append(written, ThisBlock(raw)) /\ UNCHANGED <<call, first>>
    BY <2>1 DEF BlockDone, callVars
  <2>3. ThisBlock(raw) \in Block
    BY <1>1 DEF Block, ThisBlock
  <2> QED
    BY <1>1, <2>2, <2>3
<1>4. CASE NextCall
  <2>1. call' = 2 /\ first' = written /\ written' = <<>>
    BY SMTT(60), <1>4 DEF NextCall
  <2> QED
    BY <1>1, <2>1
<1>5. Next => \/ UNCHANGED <<call, written, first>>
              \/ \E raw \in BOOLEAN : BlockDone(raw)
              \/ NextCall
  BY DEF Next, BeginBlock, GreedyRepeat, FastSearch, RecentAgain, OlderAgain, NotAgain,
     LongRepeat, LazyOlder, LazySearch, QuickRepeat, QuickOlder, QuickSearch, Finish, Turn,
     blockVars, callVars
<1> QED
  BY <1>2, <1>3, <1>4, <1>5

(* A step within a call that leaves the blocks keeps what the calls share. *)
LEMMA SameBlocks ==
  ASSUME Alike, Fixed, UNCHANGED <<call, written, first, owned>>,
         \A b : /\ Here(b)
                /\ (call = 1 /\ Whole(written)) \/ (call = 2 /\ Whole(first))
                /\ owned \/ b.tables = EmptyTables
                => Here(b)'
  PROVE  Alike'
<1>1. call \in {1, 2} /\ written \in Seq(Block) /\ first \in Seq(Block)
  BY DEF Alike
<1>2. Block' = Block /\ Step' = Step /\ CompressionLimit' = CompressionLimit
  BY TurnSame DEF Block, Step
<1>3. Whole(written)' = Whole(written) /\ Whole(first)' = Whole(first)
  BY DEF Whole
<1>4. ASSUME call = 1, Whole(written)
      PROVE  /\ written # <<>> => owned
             /\ \E h : History(h, written)' /\ Here(h[Len(written)])'
  <2>1. written # <<>> => owned
    BY <1>4 DEF Alike, FirstCall
  <2>2. PICK h : History(h, written) /\ Here(h[Len(written)])
    BY <1>4 DEF Alike, FirstCall
  <2>3. owned \/ h[Len(written)].tables = EmptyTables
    <3>1. CASE written # <<>>
      BY <2>1, <3>1
    <3>2. CASE written = <<>>
      <4>1. h[Len(written)] = Fresh
        BY <2>2, <3>2 DEF History
      <4> QED
        BY <4>1 DEF Fresh
    <3> QED
      BY <3>1, <3>2
  <2>4. \A b : b = h[Len(written)] => Here(b)'
    BY <1>4, <2>2, <2>3
  <2>5. History(h, written)'
    BY <2>2, HistoryThen
  <2>6. Here(h[Len(written)])'
    BY <2>4 DEF Here
  <2> QED
    BY <2>1, <2>5, <2>6
<1>5. FirstCall'
  BY <1>3, <1>4 DEF FirstCall
<1>6. ASSUME call = 2, Whole(first)
      PROVE  /\ first # <<>> => owned
             /\ Len(written) <= Len(first)
             /\ \A k \in 1 .. Len(written) : written[k] = first[k]
             /\ \E h : /\ History(h, first)' /\ h[Len(first)].start >= CompressionLimit
                       /\ Here(h[Len(written)])'
  <2>1. /\ first # <<>> => owned
        /\ Len(written) <= Len(first)
        /\ \A k \in 1 .. Len(written) : written[k] = first[k]
    BY <1>6 DEF Alike, SecondCall
  <2>2. PICK h : /\ History(h, first) /\ h[Len(first)].start >= CompressionLimit
                 /\ Here(h[Len(written)])
    BY <1>6 DEF Alike, SecondCall
  <2>3. owned \/ h[Len(written)].tables = EmptyTables
    <3>1. CASE first # <<>>
      BY <2>1, <3>1
    <3>2. CASE first = <<>>
      <4>1. Len(written) = 0
        BY <1>1, <2>1, <3>2
      <4>2. h[0] = Fresh
        BY <2>2 DEF History
      <4> QED
        BY <4>1, <4>2 DEF Fresh
    <3> QED
      BY <3>1, <3>2
  <2>4. \A b : b = h[Len(written)] => Here(b)'
    BY <1>6, <2>2, <2>3
  <2>5. History(h, first)'
    BY <2>2, HistoryThen
  <2>6. Here(h[Len(written)])'
    BY <2>4 DEF Here
  <2> QED
    BY <2>1, <2>2, <2>5, <2>6
<1>7. SecondCall'
  BY <1>2, <1>3, <1>6 DEF SecondCall
<1> QED
  BY <1>1, <1>2, <1>5, <1>7 DEF Alike

(* A block that is done is the next one of both calls. *)
LEMMA DoneAlike ==
  ASSUME Alike, IInv, NEW raw \in BOOLEAN, BlockDone(raw)
  PROVE  Alike'
<1> DEFINE block == ThisBlock(raw)
           n     == Len(written)
<1>1. /\ phase = "search" /\ written' = Append(written, block) /\ owned' = (owned \/ ~raw)
      /\ UNCHANGED <<src, opts, call, first>> /\ SameFate(block)
  BY DEF BlockDone, callVars
<1>2. /\ call \in {1, 2} /\ written \in Seq(Block) /\ first \in Seq(Block) /\ block \in Block
      /\ n \in Nat /\ written' \in Seq(Block) /\ Len(written') = n + 1 /\ written'[n + 1] = block
      /\ \A k \in 1 .. n : written'[k] = written[k]
  <2>1. written \in Seq(Block) /\ first \in Seq(Block) /\ call \in {1, 2}
    BY DEF Alike
  <2>2. block \in Block
    BY DEF IInv, Typed, Block, ThisBlock
  <2> HIDE DEF block
  <2> QED
    BY <1>1, <2>1, <2>2
<1>3. Block' = Block /\ CompressionLimit' = CompressionLimit /\ Fixed
  <2>1. Fixed
    BY <1>1 DEF Fixed
  <2> QED
    BY <2>1, TurnSame DEF Block, Step
<1>4. ASSUME call = 1, Whole(written)'
      PROVE  /\ owned'
             /\ \E h : History(h, written)' /\ Here(h[Len(written)])'
  <2>1. /\ Whole(written) /\ owned'
    <3>1. CASE written = <<>>
      <4>1. n = 0 /\ written' # <<>> /\ written'[1] = block
        <5> HIDE DEF block
        <5>1. n = 0
          BY <3>1
        <5>2. Len(written') = 1 /\ written'[1] = block
          BY <1>2, <5>1
        <5> QED
          BY <5>1, <5>2
      <4>2. ~raw
        BY <1>4, <4>1 DEF Whole, ThisBlock
      <4> QED
        BY <1>1, <3>1, <4>2 DEF Whole
    <3>2. CASE written # <<>>
      <4>1. 1 \in 1 .. n /\ written' # <<>>
        BY <1>2, <3>2
      <4>2. ~written[1].raw
        BY <1>2, <1>4, <4>1 DEF Whole
      <4>3. Whole(written)
        BY <4>2 DEF Whole
      <4>4. owned
        BY <1>4, <3>2, <4>3 DEF Alike, FirstCall
      <4> QED
        BY <1>1, <4>3, <4>4
    <3> QED
      BY <3>1, <3>2
  <2>2. PICK h : History(h, written) /\ Here(h[n])
    BY <1>4, <2>1 DEF Alike, FirstCall
  <2>3. /\ Leads(Begun(h[n]), Now) /\ Halted(Now) /\ block.steps = Now.steps /\ block.raw = raw
        /\ block.reps = h[n].reps
        /\ \A x : x = Ended(h[n], Now, raw) => Here(x)'
    BY <2>2, DoneHere DEF ThisBlock
  <2> HIDE DEF block
  <2>4. PICK g : History(g, Append(written, block)) /\ g[n + 1] = Ended(h[n], Now, raw)
    BY <1>2, <2>2, <2>3, HistoryLonger
  <2>5. History(g, written)'
    BY <1>1, <1>3, <2>4, HistoryThen
  <2>6. \A x : x = g[n + 1] => Here(x)'
    BY <2>3, <2>4
  <2>7. Here(g[Len(written)])'
    BY <1>2, <2>6 DEF Here
  <2> QED
    BY <2>1, <2>5, <2>7
<1>5. FirstCall'
  BY <1>1, <1>4 DEF FirstCall
<1>6. ASSUME call = 2, Whole(first)
      PROVE  /\ first # <<>> => owned'
             /\ Len(written') <= Len(first)
             /\ \A k \in 1 .. Len(written') : written'[k] = first[k]
             /\ \E h : /\ History(h, first)' /\ h[Len(first)].start >= CompressionLimit
                       /\ Here(h[Len(written)])'
  <2>1. /\ first # <<>> => owned
        /\ n <= Len(first)
        /\ \A k \in 1 .. n : written[k] = first[k]
    BY <1>6 DEF Alike, SecondCall
  <2>2. PICK h : History(h, first) /\ h[Len(first)].start >= CompressionLimit /\ Here(h[n])
    BY <1>6 DEF Alike, SecondCall
  <2>3. /\ Leads(Begun(h[n]), Now) /\ Halted(Now) /\ block.steps = Now.steps /\ block.raw = raw
        /\ block.reps = h[n].reps
        /\ \A x : x = Ended(h[n], Now, raw) => Here(x)'
    BY <2>2, DoneHere DEF ThisBlock
  <2>4. n + 1 \in 1 .. Len(first)
    <3>1. start < CompressionLimit /\ start \in Nat /\ CompressionLimit \in Int
      <4>1. start < end /\ end <= CompressionLimit /\ start \in Nat /\ end \in Nat
            /\ src \in Sources
        BY <1>1 DEF IInv, InBlock, Typed
      <4>2. Len(src) \in Nat /\ Trail \in Nat
        BY <4>1, BlockPlanAssumption, SourceBytesAssumption
      <4>3. CompressionLimit \in Int
        BY <4>2 DEF CompressionLimit
      <4> QED
        BY <4>1, <4>3
    <3>2. h[n].start = start
      BY <2>2 DEF Here
    <3>3. n # Len(first)
      BY <2>2, <3>1, <3>2
    <3> QED
      BY <1>2, <2>1, <3>3
  <2>5. PICK m : /\ Leads(Begun(h[(n + 1) - 1]), m) /\ Halted(m)
                 /\ first[n + 1].steps = m.steps
                 /\ first[n + 1].reps = h[(n + 1) - 1].reps
                 /\ h[n + 1] = Ended(h[(n + 1) - 1], m, first[n + 1].raw)
    BY <2>2, <2>4 DEF History
  <2>6. (n + 1) - 1 = n
    BY <1>2
  <2>7. m = Now
    BY <2>3, <2>5, <2>6, HaltsOnce
  <2>8. first[n + 1] = block
    <3>1. first[n + 1].steps = block.steps /\ first[n + 1].reps = block.reps
      BY <2>3, <2>5, <2>6, <2>7
    <3> HIDE DEF block
    <3> QED
      BY <1>1, <1>6, <3>1 DEF SameFate
  <2>9. h[n + 1] = Ended(h[n], Now, raw)
    BY <2>3, <2>5, <2>6, <2>7, <2>8
  <2>10. \A x : x = h[n + 1] => Here(x)'
    BY <2>3, <2>9
  <2>11. Here(h[Len(written)])'
    BY <1>2, <2>10 DEF Here
  <2>12. History(h, first)'
    BY <1>1, <1>3, <2>2, HistoryThen
  <2>13. ASSUME NEW k \in 1 .. Len(written')
         PROVE  written'[k] = first[k]
    <3>1. k = n + 1 \/ k \in 1 .. n
      BY <1>2
    <3> QED
      BY <1>2, <2>1, <2>8, <3>1
  <2>14. Len(written') <= Len(first)
    BY <1>2, <2>4
  <2> QED
    BY <1>1, <2>1, <2>2, <2>11, <2>12, <2>13, <2>14
<1>7. SecondCall'
  BY <1>1, <1>3, <1>6 DEF SecondCall, Whole
<1> QED
  BY <1>1, <1>2, <1>3, <1>5, <1>7 DEF Alike

(* The second call begins as the first one did. *)
LEMMA NextCallAlike ==
  ASSUME Alike, IInv, NextCall
  PROVE  Alike'
<1>1. /\ phase = "block" /\ phase' = "block" /\ start >= CompressionLimit
      /\ call = 1 /\ call' = 2 /\ first' = written /\ written' = <<>>
      /\ start' = 0 /\ reps' = InitReps /\ tables' = (IF owned THEN EmptyTables ELSE tables)
      /\ UNCHANGED <<src, opts, owned>>
  BY DEF NextCall, TablesForCall
<1>2. Block' = Block /\ CompressionLimit' = CompressionLimit /\ Fixed
  <2>1. Fixed
    BY <1>1 DEF Fixed
  <2> QED
    BY <2>1, TurnSame DEF Block, Step
<1>3. written \in Seq(Block) /\ first' \in Seq(Block) /\ written' \in Seq(Block)
  BY <1>1 DEF Alike
<1>4. ASSUME Whole(first)'
      PROVE  /\ first' # <<>> => owned'
             /\ Len(written') <= Len(first')
             /\ \A k \in 1 .. Len(written') : written'[k] = first'[k]
             /\ \E h : /\ History(h, first)' /\ h[Len(first')].start >= CompressionLimit
                       /\ Here(h[Len(written)])'
  <2>1. Whole(written)
    BY <1>1, <1>4 DEF Whole
  <2>2. written # <<>> => owned
    BY <1>1, <2>1 DEF Alike, FirstCall
  <2>3. PICK h : History(h, written) /\ Here(h[Len(written)])
    BY <1>1, <2>1 DEF Alike, FirstCall
  <2>4. History(h, first)'
    BY <1>1, <1>2, <2>3, HistoryThen
  <2>5. h[Len(written)].start = start /\ h[Len(written)].tables = tables
    BY <1>1, <2>3 DEF Here
  <2>6. h[0] = Fresh
    BY <2>3 DEF History
  <2>7. tables' = EmptyTables
    <3>1. CASE written # <<>>
      BY <1>1, <2>2, <3>1
    <3>2. CASE written = <<>>
      <4>1. Len(written) = 0
        BY <3>2
      <4> QED
        BY <1>1, <2>5, <2>6, <4>1 DEF Fresh
    <3> QED
      BY <3>1, <3>2
  <2>8. \A b : b = h[0] => Here(b)'
    BY <1>1, <2>6, <2>7 DEF Here, Fresh
  <2>9. Len(written') = 0
    BY <1>1
  <2>10. Here(h[Len(written)])'
    BY <2>8, <2>9 DEF Here
  <2>11. Len(written') <= Len(first')
    BY <1>3, <2>9
  <2>12. \A k \in 1 .. Len(written') : written'[k] = first'[k]
    BY <2>9
  <2> QED
    BY <1>1, <2>2, <2>4, <2>5, <2>10, <2>11, <2>12
<1>5. SecondCall'
  BY <1>2, <1>4 DEF SecondCall
<1>6. FirstCall'
  BY <1>1 DEF FirstCall
<1> QED
  BY <1>1, <1>2, <1>3, <1>5, <1>6 DEF Alike

(* Every other step leaves the blocks alone. *)
LEMMA AlikeKept ==
  ASSUME Alike, IInv, [Next]_vars
  PROVE  Alike'
<1>1. CASE BeginBlock
  <2>1. UNCHANGED <<call, written, first, owned>> /\ Fixed
    BY <1>1 DEF BeginBlock, callVars, Fixed
  <2> QED
    BY <1>1, <2>1, BeginHere, SameBlocks
<1>2. CASE \E raw \in BOOLEAN : BlockDone(raw)
  BY <1>2, DoneAlike
<1>3. CASE NextCall
  BY <1>3, NextCallAlike
<1>4. CASE Finish \/ UNCHANGED vars
  <2>1. UNCHANGED <<call, written, first, owned, start, begin, tables, reps>> /\ Fixed
        /\ \/ phase = "block" /\ phase' = "done"
           \/ phase' = phase /\ Now' = Now
    BY <1>4 DEF Finish, vars, blockVars, callVars, Fixed, Now
  <2>2. ASSUME NEW b, Here(b)
        PROVE  Here(b)'
    <3>1. Leads(Begun(b), Now)' <=> Leads(Begun(b), Now')
      BY <2>1, LeadsThen
    <3> QED
      BY <2>1, <2>2, <3>1 DEF Here
  <2> QED
    BY <2>1, <2>2, SameBlocks
<1>5. CASE \/ GreedyRepeat \/ FastSearch \/ RecentAgain \/ OlderAgain \/ NotAgain
           \/ LongRepeat \/ LazyOlder \/ LazySearch \/ QuickRepeat \/ QuickOlder \/ QuickSearch
  <2>1. Now' = TurnOf(Now)
    BY <1>5, FastNow, AgainNow, LazyNow, QuickNow
  <2>2. /\ UNCHANGED <<call, written, first, owned, start, begin>> /\ Fixed
        /\ phase \in {"search", "again"} /\ phase' \in {"search", "again"}
    <3>1. CASE GreedyRepeat \/ FastSearch
      BY <3>1 DEF GreedyRepeat, FastSearch, Turn, blockVars, callVars, Fixed
    <3>2. CASE RecentAgain \/ OlderAgain \/ NotAgain
      BY SMTT(60), <3>2 DEF RecentAgain, OlderAgain, NotAgain, blockVars, callVars, Fixed
    <3>3. CASE LongRepeat \/ LazyOlder \/ LazySearch
      BY SMTT(60), <3>3 DEF LongRepeat, LazyOlder, LazySearch, Turn, blockVars, callVars, Fixed
    <3>4. CASE QuickRepeat \/ QuickOlder \/ QuickSearch
      BY <3>4 DEF QuickRepeat, QuickOlder, QuickSearch, Turn, blockVars, callVars, Fixed
    <3> QED
      BY <1>5, <3>1, <3>2, <3>3, <3>4
  <2>3. \A b : Here(b) => Here(b)'
    BY <2>1, <2>2, TurnHere
  <2> QED
    BY <2>2, <2>3, SameBlocks
<1> QED
  BY <1>1, <1>2, <1>3, <1>4, <1>5 DEF Next

(* At first there is no block. *)
LEMMA AlikeStart == Init => Alike
<1> SUFFICES ASSUME Init
             PROVE  Alike
  OBVIOUS
<1>1. /\ start = 0 /\ tables = EmptyTables /\ call = 1 /\ written = <<>> /\ first = <<>>
      /\ reps = InitReps /\ phase = "block"
  BY DEF Init
<1> DEFINE h == [k \in 0 .. 0 |-> Fresh]
<1>2. h[0] = Fresh
  OBVIOUS
<1> HIDE DEF h
<1>3. Len(written) = 0 /\ written \in Seq(Block) /\ first \in Seq(Block)
  BY <1>1
<1>4. History(h, written)
  BY <1>2, <1>3 DEF History
<1>5. Here(h[Len(written)])
  BY <1>1, <1>2, <1>3 DEF Here, Fresh
<1>6. FirstCall /\ SecondCall
  BY <1>1, <1>4, <1>5 DEF FirstCall, SecondCall
<1> QED
  BY <1>1, <1>3, <1>6 DEF Alike

(* When the first block of a source was kept, an encoder that is used      *)
(* again takes the same matches as it did when it was new: its parser is a *)
(* function of the source, the options and the blocks before, and nothing  *)
(* of the first call is left in its tables or its recent distances.        *)
THEOREM SameAgain == Spec => []ReusedAlike
<1>1. Alike => ReusedAlike
  <2> SUFFICES ASSUME Alike, call = 2, ~first[1].raw
               PROVE  IsPrefix(Output(written), Output(first))
    BY DEF ReusedAlike
  <2>1. written \in Seq(Block) /\ first \in Seq(Block) /\ Whole(first)
    BY DEF Alike, Whole
  <2>2. Len(written) <= Len(first) /\ \A k \in 1 .. Len(written) : written[k] = first[k]
    BY <2>1 DEF Alike, SecondCall
  <2> DEFINE s == Output(written)
             t == Output(first)
  <2>3. /\ s \in Seq(Seq(Step)) /\ t \in Seq(Seq(Step))
        /\ Len(s) = Len(written) /\ Len(t) = Len(first)
    <3>1. ASSUME NEW blocks \in Seq(Block)
          PROVE  Output(blocks) \in Seq(Seq(Step)) /\ Len(Output(blocks)) = Len(blocks)
      <4>1. DOMAIN blocks = 1 .. Len(blocks) /\ Len(blocks) \in Nat
        OBVIOUS
      <4>2. \A b \in 1 .. Len(blocks) : blocks[b].steps \in Seq(Step) /\ <<>> \in Seq(Step)
        <5> TAKE b \in 1 .. Len(blocks)
        <5>1. blocks[b] \in Block
          OBVIOUS
        <5>2. <<>> \in Seq(Step)
          OBVIOUS
        <5> QED
          BY <5>1, <5>2 DEF Block
      <4>3. Output(blocks) \in [1 .. Len(blocks) -> Seq(Step)]
        BY <4>1, <4>2 DEF Output
      <4>4. Output(blocks) \in Seq(Seq(Step))
        BY <4>1, <4>3
      <4> QED
        BY <4>1, <4>3, <4>4, LenProperties
    <3> QED
      BY <2>1, <3>1
  <2>4. \A k \in 1 .. Len(written) : s[k] = t[k]
    <3>1. DOMAIN written = 1 .. Len(written) /\ DOMAIN first = 1 .. Len(first)
          /\ Len(written) \in Nat /\ Len(first) \in Nat
      BY <2>1
    <3> QED
      BY <2>2, <3>1 DEF Output
  <2> HIDE DEF s, t
  <2>5. IsPrefix(s, t)
    BY <2>2, <2>3, <2>4 DEF IsPrefix
  <2> QED
    BY <2>5 DEF s, t
<1>2. Init => Alike
  BY AlikeStart
<1>3. IInv /\ Alike /\ [Next]_vars => Alike'
  BY AlikeKept
<1> QED
  BY <1>1, <1>2, <1>3, Inductive, PTL DEF Spec

=============================================================================
