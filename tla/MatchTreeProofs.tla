---------------------------- MODULE MatchTreeProofs --------------------------
(***************************************************************************)
(* Lemmas about the match finder of the upper levels: what one search and  *)
(* one update do to a tree and what they find, for any source and any      *)
(* sizes of tables, trees and searches.                                    *)
(***************************************************************************)
EXTENDS MatchTree, NaturalLemmas, SequenceTheorems

Match == [length : Nat, distance : Nat]
(* The first n bytes from x and from y agree.                              *)
Agree(x, y, n) == \A i \in 0 .. (n - 1) : Byte(x + i) = Byte(y + i)

(* The bytes at p are those of a match within reach.                       *)
Real(p, length, distance) ==
  distance \in 1 .. p /\ distance <= Farthest /\ Agree(p, p - distance, length)

(* A match at p that a finder gives.                                       *)
Fits(p, e) ==
  {m \in Match : m.length >= 3 /\ p + m.length <= e /\ Real(p, m.length, m.distance)}

(* The order of a tree.                                                    *)

(* Of the first n bytes, those from x are not after those from y in the    *)
(* order of a tree.                                                        *)
NotAfter(x, y, n) == \A i \in 0 .. (n - 1) : Agree(x, y, i) => Byte(x + i) <= Byte(y + i)

(* y may be on this side of x: 0 is before it, 1 is behind it.             *)
OnSide(side, y, x, n) == IF side = 0 THEN NotAfter(y, x, n) ELSE NotAfter(x, y, n)

(* How many bytes from x tell other positions from it when it is put in.   *)
Told(x) == AtMost(NiceLength, CompressionLimit - x)

Side(x, side) == {y \in Nat : OnSide(side, y, x, Told(x))}

Slot(x, side) == 2 * NodeIndex(x) + side

(* S gives each position those that its subtree may have.  A child c of x  *)
(* that a search may visit has its subtree inside that of x, on its side.  *)
Placed(c, x, side, S, M, l) ==
  c > TreeEnd(l) => c \in M /\ c < x /\ S[c] \subseteq S[x] \cap Side(x, side)

(* The nodes of M, but for open slots, when l is the latest.               *)
Ordered(nds, S, M, l, open) ==
  \A x \in M : x > TreeEnd(l) =>
    /\ x \in S[x] /\ \A y \in S[x] : y <= x
    /\ \A side \in {0, 1} :
         Slot(x, side) \notin open => Placed(nds[Slot(x, side)], x, side, S, M, l)

Subtrees == [Nat -> SUBSET Nat]

Sorted(t) ==
  \E l \in t.inserted \union {0} :
    /\ \A x \in t.inserted : x <= l
    /\ \E S \in Subtrees : Ordered(t.nodes, S, t.inserted, l, {})
    /\ \A b \in DOMAIN t.lookup : t.lookup[b] > TreeEnd(l) => t.lookup[b] \in t.inserted

(* A search for p has an open slot on each side: p's own, or that of the   *)
(* last position it has passed on this side.                               *)
Gap(w, side)   == IF side = 0 THEN w.lesser ELSE w.greater
Edge(w, side) == IF side = 0 THEN w.lesserFront ELSE w.greaterFront
Inward(x, side, p) == IF x = p THEN side ELSE 1 - side

(* O are the positions whose slots are open.  What may be below w.at and   *)
(* on one side of p may be below that slot.                                *)
Bracketed(w, S, M, p, O, side) ==
  LET x == O[side] IN
  /\ x \in M /\ x > TreeEnd(p) /\ Gap(w, side) = Slot(x, Inward(x, side, p))
  /\ Edge(w, side) >= p
  /\ IF x = p THEN Edge(w, side) = p
     ELSE Edge(w, side) - p <= Told(p) /\ Agree(x, p, Edge(w, side) - p)
  /\ w.at > TreeEnd(p) =>
       /\ w.at \in M /\ w.at < x
       /\ \A y \in S[w.at] : OnSide(side, y, p, Told(p)) =>
            y \in S[x] \cap Side(x, Inward(x, side, p))

Walking(w, M, p) ==
  \E S \in Subtrees :
    IF w.ended THEN Ordered(w.nodes, S, M, p, {})
    ELSE /\ Ordered(w.nodes, S, M, p, {w.lesser, w.greater})
         /\ \E O \in [{0, 1} -> M] : \A side \in {0, 1} : Bracketed(w, S, M, p, O, side)

(* What a tree keeps.                                                      *)

(* x and y have the same tree. *)
Kin(x, y) == Hash(x, 4) = Hash(y, 4)

(* A child that a search may visit is of the tree of its parent.           *)
Related(nds, M, l, open) ==
  \A x \in M : x > TreeEnd(l) => \A side \in {0, 1} : Slot(x, side) \notin open =>
    (nds[Slot(x, side)] > TreeEnd(l) => Kin(nds[Slot(x, side)], x))

(* Each position of X that a search may visit is a root or below a later   *)
(* one of Z.                                                               *)
Hung(nds, X, Z, l, open, roots) ==
  \A x \in X : x > TreeEnd(l) =>
    \/ x = roots[Hash(x, 4)]
    \/ \E z \in Z, side \in {0, 1} : /\ z > x /\ Kin(z, x)
                                     /\ Slot(z, side) \notin open /\ nds[Slot(z, side)] = x

(* x is too far away, or too many of its tree are later, for it to be      *)
(* searched for.                                                           *)
Lost(x, A, l) ==
  \/ l - x > Farthest
  \/ \E D \in SUBSET A : /\ IsFiniteSet(D) /\ Cardinality(D) = DepthLimit
                         /\ \A z \in D : z > x /\ Kin(z, x)

(* y is found where x would be: it is x, or has replaced it.               *)
Stands(y, x) == y >= x /\ Kin(y, x) /\ (y = x \/ Agree(y, x, Told(y)))

(* T are the positions that a search comes to, and stand for those of A.   *)
Standing(T, A, l) ==
  \A x \in A : x > TreeEnd(l) => Lost(x, A, l) \/ \E y \in T : Stands(y, x)

(* No position is lost but for its distance or the depth of a search.      *)
Complete(t) ==
  \E l \in t.inserted \union {0} : \E T \in SUBSET t.inserted :
    /\ \A x \in t.inserted : x <= l
    /\ Related(t.nodes, t.inserted, l, {})
    /\ Hung(t.nodes, T, T, l, {}, t.lookup)
    /\ Standing(T, t.inserted, l)
    /\ \A b \in DOMAIN t.lookup : t.lookup[b] > TreeEnd(l) => Hash(t.lookup[b], 4) = b

(* Of matches up to e, there is one of n bytes or more for a position that *)
(* has n bytes in common with p.                                           *)
Has(list, n) == \E i \in DOMAIN list : list[i].length >= n
Wanted(p, e) == {n \in Nat : n >= 3 /\ p + n <= e}
Matched(x, list, p, e) ==
  \A n \in Wanted(p, e) : n <= Told(p) /\ Agree(x, p, n) => Has(list, n)
Upto(g, p, e) == g \in {e, p}
Met(list, expected, p, e) == \A n \in Wanted(p, e) : n < expected => Has(list, n)

(* A search for p has passed V and has B below it.  Of those a search comes*)
(* to it need not come to any other than B: what they have in common with p*)
(* is less than what is found.                                             *)
Combing(w, t, p, e, T, V, B) ==
  LET open  == {w.lesser, w.greater}
      roots == [t.lookup EXCEPT ![Hash(p, 4)] = w.at]
  IN  /\ w.lesser # w.greater
      /\ Related(w.nodes, t.inserted \union {p}, p, open)
      /\ w.at > TreeEnd(p) => w.at \in t.inserted /\ Kin(w.at, p)
      /\ Hung(w.nodes, T, T \union {p}, p, open, roots)
      /\ Standing(T, t.inserted, p)
      /\ IsFiniteSet(V) /\ Cardinality(V) = DepthLimit - w.depth
      /\ \A v \in V : v > w.at /\ v > TreeEnd(p) /\ Kin(v, p)
      /\ \A side \in {0, 1} : \E x \in V \union {p}, s \in {0, 1} : Gap(w, side) = Slot(x, s)
      /\ Hung(w.nodes, B, B, p, open, roots)
      /\ \A x \in B : x > TreeEnd(p) /\ Kin(x, p)
      /\ \A x \in T : x > TreeEnd(p) /\ Kin(x, p) /\ x \notin B => Matched(x, w.matches, p, e)
      /\ Met(w.matches, w.expected, p, e)

(* A search has ended: nothing is lost, and nothing is missed.             *)
Combed(w, t, p, e) ==
  /\ \E T \in SUBSET (t.inserted \union {p}) :
       /\ Related(w.nodes, t.inserted \union {p}, p, {})
       /\ Hung(w.nodes, T, T, p, {}, [t.lookup EXCEPT ![Hash(p, 4)] = p])
       /\ Standing(T, t.inserted \union {p}, p)
  /\ \A x \in t.inserted : x > TreeEnd(p) /\ Kin(x, p) =>
       Lost(x, t.inserted, p) \/ Matched(x, w.matches, p, e)

CombingOrCombed(w, t, p, e) ==
  IF w.ended THEN Combed(w, t, p, e)
  ELSE \E T \in SUBSET t.inserted : \E V \in SUBSET T : \E B \in SUBSET t.inserted :
         Combing(w, t, p, e, T, V, B)

(* Finders whose positions are all below k.                                *)
Below(k)          == {x \in Nat : x < k \/ x = 0}
Arrays(k)         == [chain3   : [0 .. (Buckets - 1) -> [1 .. Entries -> Nat]],
                      lookup   : [0 .. (Buckets - 1) -> Nat],
                      nodes    : [0 .. (2 * TreeSize - 1) -> Nat],
                      inserted : SUBSET {x \in Nat : x < k}]
Trees(k)          == {t \in Arrays(k) : Sorted(t) /\ Complete(t)}
-----------------------------------------------------------------------------
(* What one step keeps, a list of steps keeps.                             *)

(* The positions of a bucket.                                              *)
LEMMA VisitAllKeeps ==
  ASSUME NEW X, NEW w \in X, NEW p, NEW e, NEW bucket, NEW m \in Nat, m = Len(bucket),
         \A x \in X : \A i \in 1 .. m : VisitChain(x, p, bucket[i], e) \in X
  PROVE  VisitAll(w, p, bucket, e) \in X
<1> DEFINE g[i \in 0 .. m] == IF i = 0 THEN w ELSE VisitChain(g[i - 1], p, bucket[i], e)
           G(h) ==
             [i \in 0 .. m |-> IF i = 0 THEN w ELSE VisitChain(h[i - 1], p, bucket[i], e)]
           F == [i \in 1 .. m |-> [x \in X |-> VisitChain(x, p, bucket[i], e)]]
<1>1. F \in [1 .. m -> [X -> X]]
  OBVIOUS
<1>2. \A i \in 1 .. m : \A x \in X : F[i][x] = VisitChain(x, p, bucket[i], e)
  OBVIOUS
<1> HIDE DEF F
<1>3. PICK f \in [0 .. m -> X] : f[0] = w /\ \A i \in 1 .. m : f[i] = F[i][f[i - 1]]
  <2>1. Recursive(X, w, m, F) # {}
    BY <1>1, Recursion
  <2> QED
    BY <2>1 DEF Recursive
<1>4. f = G(f)
  <2>1. \A i \in 1 .. m : i - 1 \in 0 .. m
    OBVIOUS
  <2>2. \A i \in 1 .. m : f[i] = VisitChain(f[i - 1], p, bucket[i], e)
    BY <1>2, <1>3, <2>1
  <2> QED
    BY <1>3, <2>2
<1>5. g = CHOOSE h : h = G(h)
  OBVIOUS
<1> HIDE DEF g
<1>6. g = G(g)
  BY <1>4, <1>5
<1>7. g[0] \in X
  BY <1>6
<1>8. ASSUME NEW i \in 1 .. m, g[i - 1] \in X
      PROVE  g[i] \in X
  <2>1. i \in 0 .. m /\ i # 0
    OBVIOUS
  <2>2. g[i] = VisitChain(g[i - 1], p, bucket[i], e)
    BY <1>6, <2>1
  <2> QED
    BY <1>8, <2>2
<1>9. g[m] \in X
  BY <1>7, <1>8, Stays
<1> QED
  BY <1>9 DEF VisitAll, g

(* The visits of a search, each of which may change what is kept.          *)
LEMMA SearchKeeps ==
  ASSUME NEW w, NEW t, NEW p, NEW limit, NEW e,
         NEW expected, NEW matches, w = AtRoot(t, p, expected, matches),
         NEW m \in Nat, m = DepthLimit + 1, NEW X, w \in X[0],
         \A i \in 1 .. m : \A x \in X[i - 1] : Visit(x, limit, e) \in X[i]
  PROVE  Search(t, p, limit, e, expected, matches) \in X[m]
<1> DEFINE g[i \in 0 .. m] == IF i = 0 THEN w ELSE Visit(g[i - 1], limit, e)
           G(h) ==
             [i \in 0 .. m |-> IF i = 0 THEN w ELSE Visit(h[i - 1], limit, e)]
           Y == UNION {X[i] : i \in 0 .. m}
           F == [i \in 1 .. m |->
                   [x \in Y |-> IF x \in X[i - 1] THEN Visit(x, limit, e) ELSE x]]
<1>1. w \in Y /\ \A i \in 1 .. m : \A x \in X[i - 1] : Visit(x, limit, e) \in Y
  <2>1. \A i \in 0 .. m : \A x \in X[i] : x \in Y
    OBVIOUS
  <2>2. 0 \in 0 .. m /\ \A i \in 1 .. m : i \in 0 .. m
    OBVIOUS
  <2> HIDE DEF Y
  <2> QED
    BY <2>1, <2>2
<1> HIDE DEF Y
<1>2. F \in [1 .. m -> [Y -> Y]]
  BY <1>1
<1>3. \A i \in 1 .. m : \A x \in Y : x \in X[i - 1] => F[i][x] = Visit(x, limit, e)
  OBVIOUS
<1> HIDE DEF F
<1>4. PICK f \in [0 .. m -> Y] : f[0] = w /\ \A i \in 1 .. m : f[i] = F[i][f[i - 1]]
  <2>1. Recursive(Y, w, m, F) # {}
    BY <1>1, <1>2, Recursion
  <2> QED
    BY <2>1 DEF Recursive
<1> DEFINE T == {i \in 0 .. m : f[i] \in X[i]}
<1>5. 0 \in T
  BY <1>4
<1>6. ASSUME NEW i \in 0 .. (m - 1), i \in T
      PROVE  i + 1 \in T
  <2>1. PICK j \in 1 .. m : j = i + 1 /\ j - 1 = i
    <3>1. i + 1 \in 1 .. m /\ i + 1 - 1 = i
      OBVIOUS
    <3> QED
      BY <3>1
  <2>2. f[j - 1] \in X[j - 1] /\ f[j - 1] \in Y
    BY <1>4, <1>6, <2>1
  <2>3. f[j] = Visit(f[j - 1], limit, e)
    BY <1>3, <1>4, <2>2
  <2>4. f[j] \in X[j]
    BY <2>2, <2>3
  <2> QED
    BY <2>1, <2>4
<1>7. \A i \in 0 .. m : i \in T
  <2> HIDE DEF T
  <2> QED
    BY <1>5, <1>6, UpTo
<1>8. f = G(f)
  <2>1. \A i \in 1 .. m : i - 1 \in 0 .. m
    OBVIOUS
  <2>2. ASSUME NEW i \in 1 .. m
        PROVE  f[i] = Visit(f[i - 1], limit, e)
    <3>1. f[i - 1] \in X[i - 1] /\ f[i - 1] \in Y
      BY <1>4, <1>7, <2>1
    <3> QED
      BY <1>3, <1>4, <3>1
  <2> QED
    BY <1>4, <2>2
<1>9. g = CHOOSE h : h = G(h)
  OBVIOUS
<1> HIDE DEF g
<1>10. g = G(g)
  BY <1>8, <1>9
<1>11. g[0] \in X[0]
  BY <1>10
<1> DEFINE U == {i \in 0 .. m : g[i] \in X[i]}
<1>12. 0 \in U
  BY <1>11
<1>13. ASSUME NEW i \in 0 .. (m - 1), i \in U
       PROVE  i + 1 \in U
  <2>1. PICK j \in 1 .. m : j = i + 1 /\ j - 1 = i /\ j \in 0 .. m /\ j # 0
    <3>1. i + 1 \in 1 .. m /\ i + 1 - 1 = i /\ i + 1 \in 0 .. m /\ i + 1 # 0
      OBVIOUS
    <3> QED
      BY <3>1
  <2>2. g[j] = Visit(g[j - 1], limit, e)
    BY <1>10, <2>1
  <2>3. g[j - 1] \in X[j - 1]
    BY <1>13, <2>1
  <2>4. g[j] \in X[j]
    BY <2>2, <2>3
  <2> QED
    BY <2>1, <2>4
<1>14. \A i \in 0 .. m : i \in U
  <2> HIDE DEF U
  <2> QED
    BY <1>12, <1>13, UpTo
<1>15. g[m] \in X[m]
  BY <1>14
<1> QED
  BY <1>15 DEF Search, g

(* The positions that are put into a tree.                                 *)
LEMMA UpdateAllKeeps ==
  ASSUME NEW w, NEW from, NEW to,
         NEW m \in Nat, m = AtLeast(to - from, 0), NEW X, w \in X[0],
         \A i \in 1 .. m : \A x \in X[i - 1] : Update(x, from + i - 1) \in X[i]
  PROVE  UpdateAll(w, from, to) \in X[m]
<1> DEFINE g[i \in 0 .. m] == IF i = 0 THEN w ELSE Update(g[i - 1], from + i - 1)
           G(h) ==
             [i \in 0 .. m |-> IF i = 0 THEN w ELSE Update(h[i - 1], from + i - 1)]
           Y == UNION {X[i] : i \in 0 .. m}
           F == [i \in 1 .. m |->
                   [x \in Y |-> IF x \in X[i - 1] THEN Update(x, from + i - 1) ELSE x]]
<1>1. w \in Y /\ \A i \in 1 .. m : \A x \in X[i - 1] : Update(x, from + i - 1) \in Y
  <2>1. \A i \in 0 .. m : \A x \in X[i] : x \in Y
    OBVIOUS
  <2>2. 0 \in 0 .. m /\ \A i \in 1 .. m : i \in 0 .. m
    OBVIOUS
  <2> HIDE DEF Y
  <2> QED
    BY <2>1, <2>2
<1> HIDE DEF Y
<1>2. F \in [1 .. m -> [Y -> Y]]
  BY <1>1
<1>3. \A i \in 1 .. m : \A x \in Y : x \in X[i - 1] => F[i][x] = Update(x, from + i - 1)
  OBVIOUS
<1> HIDE DEF F
<1>4. PICK f \in [0 .. m -> Y] : f[0] = w /\ \A i \in 1 .. m : f[i] = F[i][f[i - 1]]
  <2>1. Recursive(Y, w, m, F) # {}
    BY <1>1, <1>2, Recursion
  <2> QED
    BY <2>1 DEF Recursive
<1> DEFINE T == {i \in 0 .. m : f[i] \in X[i]}
<1>5. 0 \in T
  BY <1>4
<1>6. ASSUME NEW i \in 0 .. (m - 1), i \in T
      PROVE  i + 1 \in T
  <2>1. PICK j \in 1 .. m : j = i + 1 /\ j - 1 = i
    <3>1. i + 1 \in 1 .. m /\ i + 1 - 1 = i
      OBVIOUS
    <3> QED
      BY <3>1
  <2>2. f[j - 1] \in X[j - 1] /\ f[j - 1] \in Y
    BY <1>4, <1>6, <2>1
  <2>3. f[j] = Update(f[j - 1], from + j - 1)
    BY <1>3, <1>4, <2>2
  <2>4. f[j] \in X[j]
    BY <2>2, <2>3
  <2> QED
    BY <2>1, <2>4
<1>7. \A i \in 0 .. m : i \in T
  <2> HIDE DEF T
  <2> QED
    BY <1>5, <1>6, UpTo
<1>8. f = G(f)
  <2>1. \A i \in 1 .. m : i - 1 \in 0 .. m
    OBVIOUS
  <2>2. ASSUME NEW i \in 1 .. m
        PROVE  f[i] = Update(f[i - 1], from + i - 1)
    <3>1. f[i - 1] \in X[i - 1] /\ f[i - 1] \in Y
      BY <1>4, <1>7, <2>1
    <3> QED
      BY <1>3, <1>4, <3>1
  <2> QED
    BY <1>4, <2>2
<1>9. g = CHOOSE h : h = G(h)
  OBVIOUS
<1> HIDE DEF g
<1>10. g = G(g)
  BY <1>8, <1>9
<1>11. g[0] \in X[0]
  BY <1>10
<1> DEFINE U == {i \in 0 .. m : g[i] \in X[i]}
<1>12. 0 \in U
  BY <1>11
<1>13. ASSUME NEW i \in 0 .. (m - 1), i \in U
       PROVE  i + 1 \in U
  <2>1. PICK j \in 1 .. m : j = i + 1 /\ j - 1 = i /\ j \in 0 .. m /\ j # 0
    <3>1. i + 1 \in 1 .. m /\ i + 1 - 1 = i /\ i + 1 \in 0 .. m /\ i + 1 # 0
      OBVIOUS
    <3> QED
      BY <3>1
  <2>2. g[j] = Update(g[j - 1], from + j - 1)
    BY <1>10, <2>1
  <2>3. g[j - 1] \in X[j - 1]
    BY <1>13, <2>1
  <2>4. g[j] \in X[j]
    BY <2>2, <2>3
  <2> QED
    BY <2>1, <2>4
<1>14. \A i \in 0 .. m : i \in U
  <2> HIDE DEF U
  <2> QED
    BY <1>12, <1>13, UpTo
<1>15. g[m] \in X[m]
  BY <1>14
<1> QED
  BY <1>15 DEF UpdateAll, g

-----------------------------------------------------------------------------
(* Bytes that agree.                                                       *)

(* Where the first difference is, if there is one.                         *)
LEMMA FirstDifference ==
  ASSUME NEW rest \in Nat, NEW T
  PROVE  \E n \in 0 .. rest : (\A i \in 0 .. (n - 1) : i \in T) /\ (n = rest \/ n \notin T)
<1> DEFINE D == {n \in Nat : n = rest \/ n \notin T}
<1>1. D \in SUBSET Nat /\ rest \in D
  OBVIOUS
<1>2. PICK n \in D : \A k \in D : n <= k
  <2> HIDE DEF D
  <2> QED
    BY <1>1, LeastNatural
<1>3. \A i \in 0 .. (n - 1) : i \in T
  BY <1>2
<1> QED
  BY <1>1, <1>2, <1>3

(* Bytes in common end at the limit.                                       *)
LEMMA CommonFits ==
  ASSUME NEW front \in Int, NEW back \in Int, NEW limit \in Int
  PROVE  CommonLength(front, back, limit) \in 0 .. AtLeast(limit - front, 0)
<1> DEFINE rest == AtLeast(limit - front, 0)
           T == {i \in Nat : Byte(front + i) = Byte(back + i)}
           Right(n) == /\ \A i \in 0 .. (n - 1) : Byte(front + i) = Byte(back + i)
                       /\ n = rest \/ Byte(front + n) # Byte(back + n)
<1>1. rest \in Nat
  BY DEF AtLeast
<1> HIDE DEF rest
<1>2. PICK n \in 0 .. rest : (\A i \in 0 .. (n - 1) : i \in T) /\ (n = rest \/ n \notin T)
  <2> HIDE DEF T
  <2> QED
    BY <1>1, FirstDifference
<1>3. Right(n)
  BY <1>1, <1>2
<1>4. CommonLength(front, back, limit) = CHOOSE x \in 0 .. rest : Right(x)
  BY DEF CommonLength, rest
<1> HIDE DEF Right
<1>5. CommonLength(front, back, limit) \in 0 .. rest
  BY <1>3, <1>4, Zenon
<1> QED
  BY <1>5 DEF rest

-----------------------------------------------------------------------------
(* The finders.                                                            *)

(* A word inside the source has a bucket.                                  *)
LEMMA HashIn ==
  ASSUME src \in Seq(Nat), NEW p \in Nat, NEW n \in Nat, p + n <= Len(src)
  PROVE  Hash(p, n) \in 0 .. (Buckets - 1)
<1> DEFINE sum[i \in 0 .. n] == IF i = 0 THEN 0 ELSE sum[i - 1] + Byte(p + i - 1)
           G(h) == [i \in 0 .. n |-> IF i = 0 THEN 0 ELSE h[i - 1] + Byte(p + i - 1)]
           F == [i \in 1 .. n |-> [x \in Nat |-> x + Byte(p + i - 1)]]
<1>1. \A i \in 1 .. n : Byte(p + i - 1) \in Nat
  <2> TAKE i \in 1 .. n
  <2>1. p + i - 1 + 1 \in 1 .. Len(src)
    BY LenProperties
  <2> QED
    BY <2>1, ElementOfSeq DEF Byte
<1>2. F \in [1 .. n -> [Nat -> Nat]]
  <2>1. ASSUME NEW i \in 1 .. n
        PROVE  [x \in Nat |-> x + Byte(p + i - 1)] \in [Nat -> Nat]
    <3>1. PICK b \in Nat : b = Byte(p + i - 1)
      BY <1>1
    <3>2. [x \in Nat |-> x + b] \in [Nat -> Nat]
      OBVIOUS
    <3> QED
      BY <3>1, <3>2
  <2> QED
    BY <2>1
<1>3. \A i \in 1 .. n : \A x \in Nat : F[i][x] = x + Byte(p + i - 1)
  OBVIOUS
<1> HIDE DEF F
<1>4. PICK f \in [0 .. n -> Nat] : f[0] = 0 /\ \A i \in 1 .. n : f[i] = F[i][f[i - 1]]
  <2>1. Recursive(Nat, 0, n, F) # {}
    BY <1>2, Recursion
  <2> QED
    BY <2>1 DEF Recursive
<1>5. f = G(f)
  <2>1. \A i \in 1 .. n : i - 1 \in 0 .. n
    OBVIOUS
  <2>2. \A i \in 1 .. n : f[i] = f[i - 1] + Byte(p + i - 1)
    BY <1>3, <1>4, <2>1
  <2> QED
    BY <1>4, <2>2
<1>6. sum = CHOOSE h : h = G(h)
  OBVIOUS
<1>7. Hash(p, n) = sum[n] % Buckets
  BY DEF Hash
<1> HIDE DEF sum
<1>8. sum = G(sum)
  BY <1>5, <1>6
<1>9. sum[n] \in Nat
  <2>1. sum[0] \in Nat
    BY <1>8
  <2>2. ASSUME NEW i \in 1 .. n, sum[i - 1] \in Nat
        PROVE  sum[i] \in Nat
    <3>1. i \in 0 .. n /\ i # 0
      OBVIOUS
    <3>2. sum[i] = sum[i - 1] + Byte(p + i - 1)
      BY <1>8, <3>1
    <3> QED
      BY SMTT(60), <1>1, <2>2, <3>2
  <2> QED
    BY <2>1, <2>2, Stays
<1>10. \A x \in Nat : x % Buckets \in 0 .. (Buckets - 1)
  BY SourceBytesAssumption, ModRange
<1> QED
  BY <1>7, <1>9, <1>10

(* A longer bound allows more.                                             *)
LEMMA TreesMore ==
  ASSUME NEW k \in Int, NEW l \in Int, k <= l
  PROVE  Trees(k) \subseteq Trees(l)
<1>1. SUBSET {x \in Nat : x < k} \subseteq SUBSET {x \in Nat : x < l}
  OBVIOUS
<1> QED
  BY <1>1 DEF Trees, Arrays

-----------------------------------------------------------------------------
(* The trees.                                                              *)

(* Every position has a node.                                              *)
LEMMA Nodes ==
  ASSUME src \in Seq(Nat), Len(src) > 0
  PROVE  /\ TreeSize \in Nat \ {0}
         /\ \A p \in Nat : NodeIndex(p) \in 0 .. (TreeSize - 1) /\ TreeEnd(p) \in Nat
<1>1. TreeSize \in Nat \ {0}
  BY MatchTreeAssumption, LenProperties DEF TreeSize, AtMost
<1>2. ASSUME NEW p \in Nat
      PROVE  NodeIndex(p) \in 0 .. (TreeSize - 1) /\ TreeEnd(p) \in Nat
  <2>1. PICK n \in Nat \ {0} : n = TreeSize
    BY <1>1
  <2>2. p \in Int
    OBVIOUS
  <2>3. p % n \in 0 .. (n - 1)
    BY <2>2, ModRange, Zenon
  <2>4. (IF p < n THEN 0 ELSE p - n) \in Nat
    OBVIOUS
  <2>5. NodeIndex(p) = p % n /\ TreeEnd(p) = IF p < n THEN 0 ELSE p - n
    BY <2>1 DEF NodeIndex, TreeEnd
  <2> QED
    BY <2>1, <2>3, <2>4, <2>5
<1> QED
  BY <1>1, <1>2

(* Positions whose nodes are not used again have different nodes.          *)
LEMMA OwnNodes ==
  ASSUME src \in Seq(Nat), Len(src) > 0, NEW p \in Nat, NEW x \in Nat, NEW y \in Nat,
         x > TreeEnd(p), y > TreeEnd(p), x <= p, y <= p, NodeIndex(x) = NodeIndex(y)
  PROVE  x = y
<1> DEFINE n == TreeSize
<1>1. n \in Nat \ {0}
  BY MatchTreeAssumption, LenProperties DEF TreeSize, AtMost
<1>2. x % n = y % n
  BY DEF NodeIndex
<1>3. x - y < n /\ y - x < n
  BY <1>1 DEF TreeEnd
<1> HIDE DEF n
<1> DEFINE q == x \div n
           r == y \div n
           a == x % n
<1>4. x = n * q + a /\ y = n * r + a /\ q \in Nat /\ r \in Nat /\ a \in 0 .. (n - 1)
  BY <1>1, <1>2, DivMod
<1> HIDE DEF q, r, a
<1>5. ASSUME NEW u \in Nat, NEW v \in Nat, u < v
      PROVE  n * v - n * u >= n
  <2>1. (u + 1) * n <= v * n
    BY <1>1, <1>5, TimesMonotone
  <2>2. (u + 1) * n = n * u + n /\ v * n = n * v
    BY <1>1
  <2> QED
    BY <1>1, <2>1, <2>2
<1>6. PICK s \in Nat, t \in Nat : s = n * q /\ t = n * r
  BY <1>1, <1>4
<1>7. ~(q < r) /\ ~(r < q)
  BY <1>1, <1>3, <1>4, <1>5, <1>6
<1>8. q = r
  BY <1>4, <1>7
<1> QED
  BY <1>4, <1>8

(* Nodes have two slots each. *)
LEMMA SlotIn ==
  ASSUME src \in Seq(Nat), Len(src) > 0, NEW x \in Nat, NEW side \in {0, 1}
  PROVE  Slot(x, side) \in 0 .. (2 * TreeSize - 1) /\ NodeIndex(x) \in Nat
<1>1. PICK n \in Nat : n = TreeSize
  BY Nodes
<1>2. PICK i \in Nat : i = NodeIndex(x) /\ i <= n - 1
  BY SMTT(60), <1>1, Nodes
<1>3. Slot(x, side) = 2 * i + side
  BY <1>2 DEF Slot
<1> QED
  BY SMTT(60), <1>1, <1>2, <1>3

LEMMA OwnSlots ==
  ASSUME src \in Seq(Nat), Len(src) > 0, NEW p \in Nat, NEW x \in Nat, NEW y \in Nat,
         x > TreeEnd(p), y > TreeEnd(p), x <= p, y <= p,
         NEW a \in {0, 1}, NEW b \in {0, 1}, Slot(x, a) = Slot(y, b)
  PROVE  x = y /\ a = b
<1>1. PICK i \in Nat, j \in Nat : i = NodeIndex(x) /\ j = NodeIndex(y)
  <2>1. NodeIndex(x) \in Nat /\ NodeIndex(y) \in Nat
    BY Nodes
  <2> QED
    BY <2>1
<1>2. 2 * i + a = 2 * j + b
  BY <1>1 DEF Slot
<1>3. i = j /\ a = b
  BY <1>2
<1> QED
  BY <1>1, <1>3, OwnNodes

-----------------------------------------------------------------------------
(* The order of bytes.                                                     *)

(* The bytes from x have n in the source. *)
Inner(x, n) == x + n <= Len(src)

LEMMA BytesAre ==
  ASSUME src \in Seq(Nat), NEW x \in Nat, NEW n \in Int, Inner(x, n), NEW i \in 0 .. (n - 1)
  PROVE  Byte(x + i) \in Nat
<1>1. x + i + 1 \in 1 .. Len(src)
  BY LenProperties DEF Inner
<1> QED
  BY <1>1, ElementOfSeq DEF Byte

(* One more byte in common. *)
LEMMA AgreeMore ==
  ASSUME NEW x \in Nat, NEW y \in Nat, NEW i \in Nat, Agree(x, y, i), Byte(x + i) = Byte(y + i)
  PROVE  Agree(x, y, i + 1)
<1> SUFFICES ASSUME NEW j \in 0 .. (i + 1 - 1)
             PROVE  Byte(x + j) = Byte(y + j)
  BY DEF Agree
<1>1. CASE j = i
  BY <1>1
<1>2. CASE j # i
  <2>1. j \in 0 .. (i - 1)
    BY <1>2
  <2> QED
    BY <2>1 DEF Agree
<1> QED
  BY <1>1, <1>2

(* The order is transitive. *)
LEMMA NotAfterTrans ==
  ASSUME src \in Seq(Nat), NEW x \in Nat, NEW y \in Nat, NEW z \in Nat, NEW n \in Int,
         Inner(x, n), Inner(y, n), Inner(z, n), NotAfter(x, y, n), NotAfter(y, z, n)
  PROVE  NotAfter(x, z, n)
<1> SUFFICES ASSUME NEW k \in 0 .. (n - 1), Agree(x, z, k)
             PROVE  Byte(x + k) <= Byte(z + k)
  BY DEF NotAfter
<1> DEFINE T == {i \in 0 .. k : Agree(x, y, i)}
<1>1. \A i \in 0 .. k : Byte(x + i) \in Nat /\ Byte(y + i) \in Nat /\ Byte(z + i) \in Nat
  <2> TAKE i \in 0 .. k
  <2>1. i \in 0 .. (n - 1)
    OBVIOUS
  <2> QED
    BY <2>1, BytesAre
<1>2. ASSUME NEW i \in 0 .. k, Agree(x, y, i)
      PROVE  /\ Byte(x + i) <= Byte(y + i) /\ Byte(y + i) <= Byte(z + i)
  <2>1. i \in 0 .. (n - 1)
    OBVIOUS
  <2>2. Agree(y, z, i)
    BY <1>2 DEF Agree
  <2> QED
    BY <1>2, <2>1, <2>2 DEF NotAfter
<1>3. 0 \in T
  BY DEF Agree
<1>4. ASSUME NEW i \in 0 .. (k - 1), i \in T
      PROVE  i + 1 \in T
  <2>1. i \in 0 .. k /\ Agree(x, y, i)
    BY <1>4
  <2>2. Byte(x + i) = Byte(z + i)
    BY DEF Agree
  <2>3. Byte(x + i) = Byte(y + i)
    BY SMTT(60), <1>1, <1>2, <2>1, <2>2
  <2>4. Agree(x, y, i + 1)
    <3>1. i \in Nat
      OBVIOUS
    <3> QED
      BY <2>1, <2>3, <3>1, AgreeMore
  <2> QED
    BY <2>4
<1>5. k \in Nat
  OBVIOUS
<1>6. \A i \in 0 .. k : i \in T
  <2> HIDE DEF T
  <2> QED
    BY <1>3, <1>4, <1>5, UpTo
<1>7. k \in 0 .. k /\ Agree(x, y, k)
  BY <1>5, <1>6
<1>8. Byte(x + k) <= Byte(y + k) /\ Byte(y + k) <= Byte(z + k)
  BY <1>2, <1>7
<1> QED
  BY SMTT(60), <1>1, <1>7, <1>8

(* What is between two positions that agree agrees with them. *)
LEMMA Squeezed ==
  ASSUME src \in Seq(Nat), NEW x \in Nat, NEW y \in Nat, NEW z \in Nat, NEW n \in Int,
         Inner(x, n), Inner(y, n), Inner(z, n), NotAfter(x, y, n), NotAfter(y, z, n), Agree(x, z, n)
  PROVE  Agree(y, z, n) /\ Agree(y, x, n)
<1>1. CASE n <= 0
  BY <1>1 DEF Agree
<1>2. CASE n > 0
  <2> DEFINE T == {i \in 0 .. n : Agree(x, y, i)}
  <2>1. \A i \in 0 .. (n - 1) : Byte(x + i) \in Nat /\ Byte(y + i) \in Nat /\ Byte(z + i) \in Nat
    BY BytesAre
  <2>2. 0 \in T
    BY <1>2 DEF Agree
  <2>3. ASSUME NEW i \in 0 .. (n - 1), i \in T
        PROVE  i + 1 \in T
    <3>1. Byte(x + i) = Byte(z + i)
      BY DEF Agree
    <3>2. Agree(x, y, i)
      BY <2>3
    <3>3. Agree(y, z, i)
      BY <3>2 DEF Agree
    <3>4. Byte(x + i) <= Byte(y + i) /\ Byte(y + i) <= Byte(z + i)
      BY <3>2, <3>3 DEF NotAfter
    <3>5. Byte(x + i) = Byte(y + i)
      BY <2>1, <3>1, <3>4
    <3>6. Agree(x, y, i + 1)
      <4>1. i \in Nat
        OBVIOUS
      <4> QED
        BY <3>2, <3>5, <4>1, AgreeMore
    <3> QED
      BY <3>6
  <2>4. n \in Nat
    BY <1>2
  <2>5. \A i \in 0 .. n : i \in T
    <3> HIDE DEF T
    <3> QED
      BY <2>2, <2>3, <2>4, UpTo
  <2>6. Agree(x, y, n)
    BY <2>4, <2>5
  <2> QED
    BY <2>6 DEF Agree
<1> QED
  BY <1>1, <1>2

(* Both for either side, and for any number of bytes that is not larger. *)
LEMMA OnSideTrans ==
  ASSUME src \in Seq(Nat), NEW x \in Nat, NEW y \in Nat, NEW z \in Nat, NEW n \in Int,
         NEW m \in Int, n <= m, Inner(x, n), Inner(y, n), Inner(z, n),
         NEW side \in {0, 1}, OnSide(side, x, y, m), OnSide(side, y, z, n)
  PROVE  OnSide(side, x, z, n)
<1>1. \A u, v \in Nat : NotAfter(u, v, m) => NotAfter(u, v, n)
  BY DEF NotAfter
<1>2. CASE side = 0
  <2>1. NotAfter(x, y, n) /\ NotAfter(y, z, n)
    BY <1>1, <1>2 DEF OnSide
  <2> QED
    BY <1>2, <2>1, NotAfterTrans DEF OnSide
<1>3. CASE side = 1
  <2>1. NotAfter(z, y, n) /\ NotAfter(y, x, n)
    BY <1>1, <1>3 DEF OnSide
  <2> QED
    BY <1>3, <2>1, NotAfterTrans DEF OnSide
<1> QED
  BY <1>2, <1>3

LEMMA OnSideSqueezed ==
  ASSUME src \in Seq(Nat), NEW x \in Nat, NEW y \in Nat, NEW z \in Nat, NEW n \in Int,
         NEW m \in Int, NEW k \in Int, n <= m, n <= k,
         Inner(x, n), Inner(y, n), Inner(z, n),
         NEW side \in {0, 1}, OnSide(side, x, y, m), OnSide(side, y, z, k), Agree(x, z, n)
  PROVE  Agree(y, z, n)
<1>1. \A u, v \in Nat : /\ NotAfter(u, v, m) => NotAfter(u, v, n)
                        /\ NotAfter(u, v, k) => NotAfter(u, v, n)
  BY SMTT(60) DEF NotAfter
<1>2. CASE side = 0
  <2>1. NotAfter(x, y, n) /\ NotAfter(y, z, n)
    BY <1>1, <1>2 DEF OnSide
  <2> QED
    BY <2>1, Squeezed
<1>3. CASE side = 1
  <2>1. NotAfter(z, y, n) /\ NotAfter(y, x, n)
    BY <1>1, <1>3 DEF OnSide
  <2>2. Agree(z, x, n)
    BY DEF Agree
  <2> QED
    BY <2>1, <2>2, Squeezed
<1> QED
  BY <1>2, <1>3

(* The first difference decides. *)
LEMMA Decides ==
  ASSUME src \in Seq(Nat), NEW x \in Nat, NEW y \in Nat, NEW n \in Int, Inner(x, n), Inner(y, n),
         NEW d \in 0 .. (n - 1), Agree(x, y, d), Byte(x + d) < Byte(y + d)
  PROVE  NotAfter(x, y, n) /\ ~NotAfter(y, x, n)
<1>1. Byte(x + d) \in Nat /\ Byte(y + d) \in Nat
  BY BytesAre
<1>2. ASSUME NEW i \in 0 .. (n - 1), Agree(x, y, i)
      PROVE  Byte(x + i) <= Byte(y + i)
  <2>1. i <= d
    BY <1>1, <1>2 DEF Agree
  <2>2. CASE i < d
    <3>1. Byte(x + i) = Byte(y + i)
      BY <2>2 DEF Agree
    <3>2. Byte(x + i) \in Nat
      BY BytesAre
    <3> QED
      BY <3>1, <3>2
  <2>3. CASE i = d
    BY <1>1, <2>3
  <2> QED
    BY <2>1, <2>2, <2>3
<1>3. Agree(y, x, d)
  BY DEF Agree
<1> QED
  BY <1>1, <1>2, <1>3 DEF NotAfter

(* Positions are on one side of each other, if they do not agree on all    *)
(* bytes that count, and on both if they do.                               *)
LEMMA AgreeingSides ==
  ASSUME src \in Seq(Nat), NEW x \in Nat, NEW y \in Nat, NEW n \in Int, Inner(x, n), Inner(y, n),
         Agree(x, y, n), NEW side \in {0, 1}
  PROVE  OnSide(side, x, y, n)
<1>1. \A i \in 0 .. (n - 1) : Byte(x + i) = Byte(y + i) /\ Byte(x + i) \in Nat
  BY BytesAre DEF Agree
<1>2. NotAfter(x, y, n) /\ NotAfter(y, x, n)
  <2>1. \A i \in 0 .. (n - 1) : Byte(x + i) <= Byte(y + i) /\ Byte(y + i) <= Byte(x + i)
    BY <1>1
  <2> QED
    BY <2>1 DEF NotAfter
<1> QED
  BY <1>2 DEF OnSide

LEMMA OneSide ==
  ASSUME src \in Seq(Nat), NEW x \in Nat, NEW y \in Nat, NEW n \in Int, Inner(x, n), Inner(y, n)
  PROVE  \E side \in {0, 1} : OnSide(side, x, y, n)
<1>1. CASE n <= 0
  BY <1>1 DEF OnSide, NotAfter
<1>2. CASE n > 0
  <2> DEFINE T == {i \in Nat : Byte(x + i) = Byte(y + i)}
  <2>1. PICK d \in 0 .. n : (\A i \in 0 .. (d - 1) : i \in T) /\ (d = n \/ d \notin T)
    <3> HIDE DEF T
    <3>1. n \in Nat
      BY <1>2
    <3> QED
      BY <3>1, FirstDifference
  <2>2. Agree(x, y, d) /\ Agree(y, x, d)
    BY <2>1 DEF Agree
  <2>3. CASE d = n
    BY <2>2, <2>3, AgreeingSides
  <2>4. CASE d # n
    <3>1. d \in 0 .. (n - 1) /\ Byte(x + d) # Byte(y + d)
      BY <2>1, <2>4
    <3>2. Byte(x + d) \in Nat /\ Byte(y + d) \in Nat
      BY <3>1, BytesAre
    <3>3. CASE Byte(x + d) < Byte(y + d)
      <4>1. NotAfter(x, y, n)
        BY <2>2, <3>1, <3>3, Decides
      <4> QED
        BY <4>1 DEF OnSide
    <3>4. CASE Byte(y + d) < Byte(x + d)
      <4>1. NotAfter(y, x, n)
        BY <2>2, <3>1, <3>4, Decides
      <4> QED
        BY <4>1 DEF OnSide
    <3> QED
      BY <3>1, <3>2, <3>3, <3>4
  <2> QED
    BY <2>3, <2>4
<1> QED
  BY <1>1, <1>2

LEMMA Flip ==
  ASSUME NEW side \in {0, 1}, NEW x, NEW y, NEW n
  PROVE  1 - side \in {0, 1} /\ (OnSide(1 - side, y, x, n) <=> OnSide(side, x, y, n))
BY DEF OnSide

(* What commonMatchLengthUnchecked finds: n bytes from front and back are  *)
(* the same, and the next are not, unless the limit is reached.            *)
Common(front, back, limit, n) ==
  /\ n \in 0 .. AtLeast(limit - front, 0)
  /\ \A i \in 0 .. (n - 1) : Byte(front + i) = Byte(back + i)
  /\ front + n >= limit \/ Byte(front + n) # Byte(back + n)

LEMMA CommonAgrees ==
  ASSUME NEW front \in Int, NEW back \in Int, NEW limit \in Int
  PROVE  Common(front, back, limit, CommonLength(front, back, limit))
<1> DEFINE n == CommonLength(front, back, limit)
           rest == AtLeast(limit - front, 0)
           T == {i \in Nat : Byte(front + i) = Byte(back + i)}
           Right(k) == /\ \A i \in 0 .. (k - 1) : Byte(front + i) = Byte(back + i)
                       /\ k = rest \/ Byte(front + k) # Byte(back + k)
<1>1. rest \in Nat /\ front + rest >= limit
  BY DEF AtLeast
<1> HIDE DEF rest
<1>2. PICK k \in 0 .. rest : (\A i \in 0 .. (k - 1) : i \in T) /\ (k = rest \/ k \notin T)
  <2> HIDE DEF T
  <2> QED
    BY <1>1, FirstDifference
<1>3. Right(k)
  BY <1>1, <1>2
<1>4. n = CHOOSE x \in 0 .. rest : Right(x)
  BY DEF CommonLength, rest
<1> HIDE DEF Right, n
<1>5. n \in 0 .. rest /\ Right(n)
  BY <1>3, <1>4, Zenon
<1>6. Common(front, back, limit, n)
  BY <1>1, <1>5 DEF rest, Right, Common
<1> QED
  BY <1>6 DEF n

(* The bytes that tell positions apart are in the source. *)
LEMMA ToldInner ==
  ASSUME src \in Seq(Nat), NEW p \in Nat
  PROVE  /\ Told(p) \in Int /\ CompressionLimit \in Int /\ CompressionLimit <= Len(src)
         /\ Told(p) <= NiceLength /\ p + Told(p) <= CompressionLimit
         /\ \A x \in 0 .. p : /\ Told(x) \in Int /\ Told(p) <= Told(x)
                              /\ \A n \in Int : n <= Told(p) => Inner(x, n)
<1>1. Len(src) \in Nat /\ Trail \in Nat /\ NiceLength \in Nat
  BY LenProperties, SourceBytesAssumption, MatchTreeAssumption
<1>2. CompressionLimit \in Int /\ CompressionLimit <= Len(src)
  BY <1>1 DEF CompressionLimit
<1> QED
  BY <1>1, <1>2 DEF Told, AtMost, Inner

-----------------------------------------------------------------------------
(* Nodes and their places.                                                 *)

(* A position that is put where a slot was open. *)
LEMMA Closes ==
  ASSUME src \in Seq(Nat), Len(src) > 0, NEW p \in Nat,
         NEW nds \in [0 .. (2 * TreeSize - 1) -> Nat], NEW S, NEW M, \A z \in M : z \in 0 .. p, NEW open,
         Ordered(nds, S, M, p, open),
         NEW x \in M, x > TreeEnd(p), NEW side \in {0, 1}, NEW c, Placed(c, x, side, S, M, p)
  PROVE  Ordered([nds EXCEPT ![Slot(x, side)] = c], S, M, p, open \ {Slot(x, side)})
<1> DEFINE g == Slot(x, side)
           new == [nds EXCEPT ![g] = c]
<1>1. g \in 0 .. (2 * TreeSize - 1)
  <2>1. x \in Nat
    OBVIOUS
  <2> QED
    BY <2>1, SlotIn
<1>2. SUFFICES ASSUME NEW z \in M, z > TreeEnd(p), NEW s \in {0, 1}, Slot(z, s) \notin open \ {g}
               PROVE  Placed(new[Slot(z, s)], z, s, S, M, p)
  BY DEF Ordered
<1>3. CASE Slot(z, s) = g
  <2>1. z = x /\ s = side
    BY <1>2, <1>3, OwnSlots
  <2>2. new[g] = c
    BY <1>1
  <2> QED
    BY <1>3, <2>1, <2>2
<1>4. CASE Slot(z, s) # g
  <2>1. new[Slot(z, s)] = nds[Slot(z, s)]
    BY <1>4
  <2> QED
    BY <1>2, <1>4, <2>1 DEF Ordered
<1> QED
  BY <1>3, <1>4

(* What may be below a position on one side of p, without the other side.  *)
Narrowed(S, x, side, p) == [S EXCEPT ![x] = {y \in S[x] : OnSide(side, y, p, Told(p))}]

LEMMA Narrows ==
  ASSUME src \in Seq(Nat), Len(src) > 0, NEW p \in Nat, NEW nds, NEW S \in Subtrees,
         NEW M, \A z \in M : z \in 0 .. p, NEW open, Ordered(nds, S, M, p, open),
         NEW x \in M, x > TreeEnd(p), NEW side \in {0, 1}, OnSide(side, x, p, Told(p)),
         Slot(x, side) \notin open
  PROVE  /\ Narrowed(S, x, side, p) \in Subtrees
         /\ Ordered(nds, Narrowed(S, x, side, p), M, p, open \union {Slot(x, 1 - side)})
<1> DEFINE R == Narrowed(S, x, side, p)
<1>1. /\ R \in Subtrees /\ R[x] = {y \in S[x] : OnSide(side, y, p, Told(p))}
      /\ \A z \in Nat : (z # x => R[z] = S[z]) /\ R[z] \subseteq S[z] /\ S[z] \subseteq Nat
  BY DEF Subtrees, Narrowed
<1> HIDE DEF R
<1>2. SUFFICES ASSUME NEW z \in M, z > TreeEnd(p)
               PROVE  /\ z \in R[z] /\ \A y \in R[z] : y <= z
                      /\ \A s \in {0, 1} : Slot(z, s) \notin open \union {Slot(x, 1 - side)} =>
                           Placed(nds[Slot(z, s)], z, s, R, M, p)
  BY <1>1 DEF Ordered, R
<1>3. z \in S[z] /\ \A y \in S[z] : y <= z
  BY <1>2 DEF Ordered
<1>4. z \in R[z] /\ \A y \in R[z] : y <= z
  BY <1>1, <1>3
<1>5. ASSUME NEW s \in {0, 1}, Slot(z, s) \notin open \union {Slot(x, 1 - side)},
             nds[Slot(z, s)] > TreeEnd(p)
      PROVE  /\ nds[Slot(z, s)] \in M /\ nds[Slot(z, s)] < z
             /\ R[nds[Slot(z, s)]] \subseteq R[z] \cap Side(z, s)
  <2> DEFINE c == nds[Slot(z, s)]
  <2>1. c \in M /\ c < z /\ S[c] \subseteq S[z] \cap Side(z, s)
    BY <1>2, <1>5 DEF Ordered, Placed
  <2>2. CASE z # x
    BY <1>1, <2>1, <2>2
  <2>3. CASE z = x
    <3>1. s = side
      BY <1>5, <2>3
    <3>2. ASSUME NEW y \in R[c]
          PROVE  y \in R[z] \cap Side(z, s)
      <4>1. y \in S[x] /\ y \in Nat /\ OnSide(side, y, x, Told(x)) /\ y <= x
        BY <1>1, <1>3, <2>1, <2>3, <3>1 DEF Side
      <4>2. /\ Told(p) \in Int /\ Told(x) \in Int /\ Told(p) <= Told(x)
            /\ Inner(y, Told(p)) /\ Inner(x, Told(p)) /\ Inner(p, Told(p))
        <5>1. y \in 0 .. p /\ x \in 0 .. p /\ p \in 0 .. p
          BY <4>1
        <5> QED
          BY <5>1, ToldInner
      <4>3. OnSide(side, y, p, Told(p))
        BY SMTT(60), <4>1, <4>2, OnSideTrans
      <4> QED
        BY <1>1, <2>1, <2>3, <4>1, <4>3
    <3> QED
      BY <2>1, <3>2
  <2> QED
    BY <2>2, <2>3
<1> QED
  BY <1>4, <1>5 DEF Placed, R

-----------------------------------------------------------------------------
(* A search.                                                               *)

LEMMA SharedAgrees ==
  ASSUME src \in Seq(Nat), NEW p \in Nat, NEW S, NEW M, \A z \in M : z \in 0 .. p, NEW O, NEW w, NEW open,
         Ordered(w.nodes, S, M, p, open), \A side \in {0, 1} : Bracketed(w, S, M, p, O, side),
         w.at > TreeEnd(p), w.lesserFront \in Nat, w.greaterFront \in Nat
  PROVE  /\ w.at \in M /\ w.at < p /\ SharedFront(w) \in Nat /\ SharedFront(w) >= p
         /\ Agree(w.at, p, SharedFront(w) - p)
<1> DEFINE n == SharedFront(w) - p
<1>1. /\ SharedFront(w) \in Nat /\ SharedFront(w) >= p
      /\ \A side \in {0, 1} : n <= Edge(w, side) - p /\ Edge(w, side) \in Nat
  BY DEF SharedFront, AtMost, Edge, Bracketed
<1>2. /\ w.at \in M /\ w.at < p /\ w.at \in S[w.at]
      /\ \A side \in {0, 1} : O[side] \in 0 .. p /\ w.at < O[side]
  <2>1. \A side \in {0, 1} : O[side] \in M /\ w.at < O[side] /\ w.at \in M
    BY DEF Bracketed
  <2>2. PICK z \in M : w.at < z /\ w.at \in M
    <3>1. 0 \in {0, 1}
      OBVIOUS
    <3> QED
      BY <2>1, <3>1, Zenon
  <2>3. \A y \in M : y \in 0 .. p
    OBVIOUS
  <2>4. w.at \in S[w.at]
    BY <2>2 DEF Ordered
  <2>5. w.at < p
    BY <2>2, <2>3
  <2> QED
    BY <2>1, <2>2, <2>3, <2>4, <2>5
<1>3. n \in Int
  BY <1>1
<1> HIDE DEF n
<1>4. CASE \E side \in {0, 1} : O[side] = p
  <2>1. n <= 0
    BY <1>1, <1>3, <1>4 DEF Bracketed
  <2> QED
    BY SMTT(60), <1>1, <1>2, <1>3, <2>1 DEF Agree, n
<1>5. CASE \A side \in {0, 1} : O[side] # p
  <2>1. \A side \in {0, 1} : n <= Told(p) /\ Agree(O[side], p, n)
    <3> TAKE side \in {0, 1}
    <3>1. Edge(w, side) - p <= Told(p) /\ Agree(O[side], p, Edge(w, side) - p)
      BY <1>5 DEF Bracketed
    <3>2. Told(p) \in Int
      BY ToldInner
    <3> QED
      BY SMTT(60), <1>1, <1>3, <3>1, <3>2 DEF Agree
  <2>2. Told(p) \in Int /\ Inner(w.at, Told(p)) /\ Inner(p, Told(p))
    <3>1. w.at \in 0 .. p /\ p \in 0 .. p
      BY <1>2
    <3> QED
      BY <3>1, ToldInner
  <2>3. PICK side \in {0, 1} : OnSide(side, w.at, p, Told(p))
    <3>1. w.at \in Nat
      BY <1>2
    <3> QED
      BY <2>2, <3>1, OneSide
  <2> DEFINE x == O[side]
  <2>4. w.at \in Side(x, 1 - side)
    <3>1. Inward(x, side, p) = 1 - side
      BY <1>5 DEF Inward
    <3> QED
      BY <1>2, <2>3, <3>1 DEF Bracketed
  <2>5. OnSide(side, x, w.at, Told(x))
    BY <2>4, Flip DEF Side
  <2>6. x \in 0 .. p /\ w.at \in 0 .. p /\ p \in 0 .. p
    BY <1>2
  <2> HIDE DEF x
  <2>7. /\ Told(x) \in Int /\ n <= Told(x) /\ n <= Told(p)
        /\ Inner(x, n) /\ Inner(w.at, n) /\ Inner(p, n)
    <3>1. n <= Told(p) /\ Told(p) <= Told(x) /\ Told(x) \in Int
      BY <2>1, <2>6, ToldInner
    <3>2. Inner(x, n) /\ Inner(w.at, n) /\ Inner(p, n)
      BY <1>3, <2>6, <3>1, ToldInner
    <3> QED
      BY <1>3, <2>2, <3>1, <3>2
  <2>8. Agree(x, p, n)
    BY <2>1 DEF x
  <2>9. Agree(w.at, p, n)
    <3>1. PICK y \in Nat, m \in Int, k \in Int : y = w.at /\ m = Told(x) /\ k = Told(p)
      BY <2>2, <2>6, <2>7
    <3>2. x \in Nat /\ n \in Int /\ n <= m /\ n <= k /\ Inner(x, n) /\ Inner(y, n) /\ Inner(p, n)
      BY <1>3, <2>6, <2>7, <3>1
    <3>3. OnSide(side, x, y, m) /\ OnSide(side, y, p, k)
      BY <2>3, <2>5, <3>1
    <3>4. p \in Nat /\ y \in Nat /\ m \in Int /\ k \in Int /\ side \in {0, 1}
      BY <2>3, <3>1
    <3>5. Agree(y, p, n)
      BY SMTT(60), <2>8, <3>2, <3>3, <3>4, OnSideSqueezed
    <3> QED
      BY <3>1, <3>5
  <2> QED
    BY <1>1, <1>2, <2>9 DEF n
<1> QED
  BY <1>4, <1>5

(* How far the comparison of a visit comes, and what it tells. *)
Compared(at, p, limit, front) ==
  /\ front \in Nat /\ front >= p /\ Agree(at, p, front - p)
  /\ front - p >= NiceLength \/ front >= limit => Agree(at, p, Told(p))
  /\ ~(front - p >= NiceLength \/ front >= limit) =>
       /\ Byte(front - (p - at)) = Byte(at + (front - p))
       /\ Byte(at + (front - p)) # Byte(p + (front - p))

LEMMA FrontAgrees ==
  ASSUME src \in Seq(Nat), NEW p \in Nat, NEW at \in 0 .. p, NEW shared \in Nat, shared >= p,
         Agree(at, p, shared - p), NEW limit \in Int, p + Told(p) <= limit
  PROVE  Compared(at, p, limit, shared + CommonLength(shared, shared - (p - at), limit))
<1> SUFFICES ASSUME NEW front, front = shared + CommonLength(shared, shared - (p - at), limit)
             PROVE  Compared(at, p, limit, front)
  OBVIOUS
<1>0. PICK back \in Int : back = shared - (p - at)
  OBVIOUS
<1> DEFINE n == CommonLength(shared, back, limit)
<1>1. back \in Int /\ back = at + (shared - p) /\ NiceLength \in Nat
  BY <1>0, MatchTreeAssumption
<1>2. /\ n \in 0 .. AtLeast(limit - shared, 0)
      /\ \A i \in 0 .. (n - 1) : Byte(shared + i) = Byte(back + i)
      /\ shared + n >= limit \/ Byte(shared + n) # Byte(back + n)
  <2>1. shared \in Int /\ back \in Int /\ limit \in Int
    BY <1>1
  <2>2. Common(shared, back, limit, CommonLength(shared, back, limit))
    BY <2>1, CommonAgrees, Zenon
  <2> QED
    BY <2>2 DEF Common
<1>3. front = shared + n
  BY <1>0
<1> HIDE DEF n
<1>4. front \in Nat /\ front >= p
  BY <1>2, <1>3 DEF AtLeast
<1>5. Agree(at, p, front - p)
  <2>1. ASSUME NEW i \in 0 .. (front - p - 1)
        PROVE  Byte(at + i) = Byte(p + i)
    <3>1. CASE i < shared - p
      BY <3>1 DEF Agree
    <3>2. CASE i >= shared - p
      <4>1. PICK j \in 0 .. (n - 1) : i = j + (shared - p)
        <5>1. i - (shared - p) \in 0 .. (n - 1) /\ i = (i - (shared - p)) + (shared - p)
          BY SMTT(60), <1>2, <1>3, <3>2
        <5> QED
          BY <5>1
      <4>2. Byte(shared + j) = Byte(back + j)
        BY <1>2
      <4>3. shared + j = p + i /\ back + j = at + i
        BY <1>1, <1>2, <4>1
      <4> QED
        BY <4>2, <4>3
    <3> QED
      BY <3>1, <3>2
  <2> QED
    BY <2>1 DEF Agree
<1>6. front - p >= NiceLength \/ front >= limit => Agree(at, p, Told(p))
  <2>1. Told(p) \in Int /\ Told(p) <= NiceLength
    BY ToldInner
  <2>2. front - p >= NiceLength \/ front >= limit => Told(p) <= front - p
    BY SMTT(60), <1>1, <1>4, <2>1
  <2> QED
    BY SMTT(60), <1>4, <1>5, <2>1, <2>2 DEF Agree
<1>7. ASSUME ~(front - p >= NiceLength \/ front >= limit)
      PROVE  /\ Byte(front - (p - at)) = Byte(at + (front - p))
             /\ Byte(at + (front - p)) # Byte(p + (front - p))
  <2>1. Byte(shared + n) # Byte(back + n)
    BY <1>2, <1>3, <1>7
  <2>2. shared + n = p + (front - p) /\ back + n = at + (front - p) /\ front - (p - at) = at + (front - p)
    <3>1. n \in Int
      BY <1>2 DEF AtLeast
    <3> QED
      BY SMTT(60), <1>1, <1>3, <3>1
  <2> QED
    BY <2>1, <2>2
<1> QED
  BY <1>4, <1>5, <1>6, <1>7 DEF Compared

(* A search that ends without a position to replace. *)
LEMMA StopKeepsOrder ==
  ASSUME src \in Seq(Nat), Len(src) > 0, NEW p \in Nat, NEW S, NEW M, \A z \in M : z \in 0 .. p,
         NEW O, NEW w, w.nodes \in [0 .. (2 * TreeSize - 1) -> Nat],
         NEW c \in [{0, 1} -> Nat],
         Ordered(w.nodes, S, M, p, {w.lesser, w.greater}),
         \A side \in {0, 1} : /\ Bracketed(w, S, M, p, O, side)
                              /\ Placed(c[side], O[side], Inward(O[side], side, p), S, M, p)
  PROVE  Ordered([w.nodes EXCEPT ![w.lesser] = c[0], ![w.greater] = c[1]], S, M, p, {})
<1>1. ASSUME NEW nds \in [0 .. (2 * TreeSize - 1) -> Nat], NEW open, Ordered(nds, S, M, p, open),
             NEW side \in {0, 1}
      PROVE  Ordered([nds EXCEPT ![Gap(w, side)] = c[side]], S, M, p, open \ {Gap(w, side)})
  <2> DEFINE x == O[side]
             g == Inward(x, side, p)
  <2>1. /\ x \in M /\ x > TreeEnd(p) /\ g \in {0, 1} /\ Gap(w, side) = Slot(x, g)
        /\ Placed(c[side], x, g, S, M, p)
    BY SMTT(60) DEF Bracketed, Inward
  <2> HIDE DEF x, g
  <2>2. Ordered([nds EXCEPT ![Slot(x, g)] = c[side]], S, M, p, open \ {Slot(x, g)})
    BY ZenonT(60), <1>1, <2>1, Closes
  <2> QED
    BY <2>1, <2>2
<1> DEFINE n == [w.nodes EXCEPT ![w.lesser] = c[0]]
           open == {w.lesser, w.greater}
<1>2. Gap(w, 0) = w.lesser /\ Gap(w, 1) = w.greater /\ 0 \in {0, 1} /\ 1 \in {0, 1}
  BY DEF Gap
<1>3. n \in [0 .. (2 * TreeSize - 1) -> Nat]
  OBVIOUS
<1>4. Ordered(w.nodes, S, M, p, open)
  OBVIOUS
<1> HIDE DEF n, open
<1>5. Ordered(n, S, M, p, open \ {w.lesser})
  <2>1. Ordered([w.nodes EXCEPT ![Gap(w, 0)] = c[0]], S, M, p, open \ {Gap(w, 0)})
    BY <1>1, <1>2, <1>4, Zenon
  <2> QED
    BY <1>2, <2>1 DEF n
<1>6. Ordered([n EXCEPT ![w.greater] = c[1]], S, M, p, (open \ {w.lesser}) \ {w.greater})
  <2>1. Ordered([n EXCEPT ![Gap(w, 1)] = c[1]], S, M, p, (open \ {w.lesser}) \ {Gap(w, 1)})
    BY <1>1, <1>2, <1>3, <1>5, Zenon
  <2> QED
    BY <1>2, <2>1
<1>7. [n EXCEPT ![w.greater] = c[1]] = [w.nodes EXCEPT ![w.lesser] = c[0], ![w.greater] = c[1]]
  BY DEF n
<1>8. (open \ {w.lesser}) \ {w.greater} = {}
  BY DEF open
<1> QED
  BY <1>6, <1>7, <1>8

(* The children of a position that p cannot be told from have their places *)
(* below the open slots. *)
LEMMA ReplacePlaces ==
  ASSUME src \in Seq(Nat), Len(src) > 0, NEW p \in Nat, NEW S \in Subtrees, NEW M, \A z \in M : z \in 0 .. p,
         NEW O, NEW w, NEW side \in {0, 1},
         Ordered(w.nodes, S, M, p, {w.lesser, w.greater}),
         \A s \in {0, 1} : Bracketed(w, S, M, p, O, s),
         w.at > TreeEnd(p), Agree(w.at, p, Told(p))
  PROVE  /\ Slot(w.at, side) \notin {w.lesser, w.greater}
         /\ Placed(w.nodes[Slot(w.at, side)], O[side], Inward(O[side], side, p), S, M, p)
<1> DEFINE c == w.nodes[Slot(w.at, side)]
<1>1. /\ w.at \in M /\ w.at \in 0 .. p
      /\ \A s \in {0, 1} : O[s] \in M /\ O[s] > TreeEnd(p) /\ w.at < O[s] /\ O[s] \in 0 .. p
  BY DEF Bracketed
<1>2. Slot(w.at, side) \notin {w.lesser, w.greater}
  <2>1. ASSUME NEW s \in {0, 1}, Slot(w.at, side) = Gap(w, s)
        PROVE  FALSE
    <3>1. Slot(w.at, side) = Slot(O[s], Inward(O[s], s, p)) /\ Inward(O[s], s, p) \in {0, 1}
      BY <2>1 DEF Bracketed, Inward
    <3>2. w.at = O[s]
      BY SMTT(60), <1>1, <3>1, OwnSlots
    <3> QED
      BY <1>1, <3>2
  <2> QED
    BY <2>1 DEF Gap
<1>3. ASSUME c > TreeEnd(p)
      PROVE  c \in M /\ c < O[side] /\ S[c] \subseteq S[O[side]] \cap Side(O[side], Inward(O[side], side, p))
  <2>1. c \in M /\ c < w.at /\ S[c] \subseteq S[w.at] \cap Side(w.at, side)
    BY <1>1, <1>2, <1>3 DEF Ordered, Placed
  <2>2. \A y \in S[w.at] : y \in 0 .. w.at
    BY <1>1 DEF Ordered, Subtrees
  <2>3. ASSUME NEW y \in S[c]
        PROVE  OnSide(side, y, p, Told(p))
    <3>1. y \in 0 .. p /\ OnSide(side, y, w.at, Told(w.at)) /\ p \in 0 .. p
      BY SMTT(60), <1>1, <2>1, <2>2 DEF Side
    <3>2. /\ Told(p) \in Int /\ Told(w.at) \in Int /\ Told(p) <= Told(w.at)
          /\ Inner(y, Told(p)) /\ Inner(w.at, Told(p)) /\ Inner(p, Told(p))
      BY <1>1, <3>1, ToldInner
    <3>3. OnSide(side, w.at, p, Told(p))
      BY SMTT(60), <1>1, <3>2, AgreeingSides
    <3>4. y \in Nat /\ w.at \in Nat
      BY <1>1, <3>1
    <3> QED
      BY <3>1, <3>2, <3>3, <3>4, OnSideTrans
  <2> QED
    BY <1>1, <2>1, <2>3 DEF Bracketed
<1> QED
  BY <1>2, <1>3 DEF Placed

(* The search passes a position: it is put below the open slot on its      *)
(* side, and its own slot on the other side is open now. *)
LEMMA DescendKeepsOrder ==
  ASSUME src \in Seq(Nat), Len(src) > 0, NEW p \in Nat, NEW S \in Subtrees, NEW M, \A z \in M : z \in 0 .. p,
         NEW O \in [{0, 1} -> M], NEW w, NEW side \in {0, 1}, NEW front \in Nat, NEW u,
         w.nodes \in [0 .. (2 * TreeSize - 1) -> Nat],
         Ordered(w.nodes, S, M, p, {w.lesser, w.greater}),
         \A s \in {0, 1} : Bracketed(w, S, M, p, O, s),
         w.at > TreeEnd(p), w.at < p, OnSide(side, w.at, p, Told(p)),
         front >= p, front - p <= Told(p), Agree(w.at, p, front - p),
         u.nodes = [w.nodes EXCEPT ![Gap(w, side)] = w.at],
         u.at = w.nodes[Slot(w.at, 1 - side)], ~u.ended,
         Gap(u, side) = Slot(w.at, 1 - side), Edge(u, side) = front,
         Gap(u, 1 - side) = Gap(w, 1 - side), Edge(u, 1 - side) = Edge(w, 1 - side)
  PROVE  Walking(u, M, p)
<1> DEFINE a == w.at
           x == O[side]
           R == Narrowed(S, a, side, p)
           Q == [O EXCEPT ![side] = a]
           open == {w.lesser, w.greater}
           h == Inward(x, side, p)
<1>1. /\ a \in M /\ a \in 0 .. p
      /\ \A s \in {0, 1} : O[s] \in M /\ O[s] > TreeEnd(p) /\ a < O[s] /\ O[s] \in 0 .. p
  BY DEF Bracketed
<1>2. \A s, z \in {0, 1} : Slot(a, z) # Gap(w, s)
  <2> TAKE s, z \in {0, 1}
  <2>1. Gap(w, s) = Slot(O[s], Inward(O[s], s, p)) /\ Inward(O[s], s, p) \in {0, 1}
    BY DEF Bracketed, Inward
  <2> QED
    BY SMTT(60), <1>1, <2>1, OwnSlots
<1>3. Gap(w, 0) = w.lesser /\ Gap(w, 1) = w.greater /\ Gap(u, 0) = u.lesser /\ Gap(u, 1) = u.greater
  BY DEF Gap
<1>4. Slot(a, side) \notin open
  BY <1>2, <1>3
<1>5. R \in Subtrees /\ Ordered(w.nodes, R, M, p, open \union {Slot(a, 1 - side)})
  <2>1. Ordered(w.nodes, S, M, p, open) /\ a \in M /\ a > TreeEnd(p) /\ OnSide(side, a, p, Told(p))
    BY <1>1
  <2> HIDE DEF open, a
  <2> QED
    BY ZenonT(60), <1>4, <2>1, Narrows
<1>6. /\ R[a] = {y \in S[a] : OnSide(side, y, p, Told(p))}
      /\ \A z \in Nat : z # a => R[z] = S[z]
  BY <1>1 DEF Subtrees, Narrowed
<1> HIDE DEF R
<1>7. Gap(w, side) = Slot(x, h) /\ h \in {0, 1}
  BY SMTT(60) DEF Bracketed, Inward
<1>8. Placed(a, x, h, R, M, p)
  <2>1. \A y \in R[a] : y \in S[x] \cap Side(x, h)
    BY <1>6 DEF Bracketed
  <2>2. x # a /\ x \in Nat
    BY SMTT(60), <1>1
  <2> QED
    BY <1>1, <1>6, <2>1, <2>2 DEF Placed
<1> HIDE DEF h
<1>9. Ordered(u.nodes, R, M, p, (open \union {Slot(a, 1 - side)}) \ {Slot(x, h)})
  <2> DEFINE o == open \union {Slot(a, 1 - side)}
  <2>1. Ordered(w.nodes, R, M, p, o)
    BY <1>5
  <2> HIDE DEF o, x, a
  <2>2. x \in M /\ x > TreeEnd(p)
    BY <1>1 DEF x
  <2>3. Ordered([w.nodes EXCEPT ![Slot(x, h)] = a], R, M, p, o \ {Slot(x, h)})
    BY ZenonT(60), <1>7, <1>8, <2>1, <2>2, Closes
  <2>4. u.nodes = [w.nodes EXCEPT ![Slot(x, h)] = a]
    BY <1>7 DEF a
  <2> QED
    BY <2>3, <2>4 DEF o
<1>10. (open \union {Slot(a, 1 - side)}) \ {Slot(x, h)} \subseteq {u.lesser, u.greater}
  BY SMTT(60), <1>3, <1>7
<1>11. Ordered(u.nodes, R, M, p, {u.lesser, u.greater})
  BY ZenonT(60), <1>9, <1>10 DEF Ordered
<1>12. Q \in [{0, 1} -> M] /\ Q[side] = a /\ Q[1 - side] = O[1 - side] /\ 1 - side \in {0, 1}
  BY SMTT(60), <1>1
<1>13. u.at > TreeEnd(p) =>
         u.at \in M /\ u.at < a /\ S[u.at] \subseteq S[a] \cap Side(a, 1 - side)
  <2>1. Slot(a, 1 - side) \notin open
    BY <1>2, <1>3, <1>12
  <2> QED
    BY ZenonT(60), <1>1, <1>12, <2>1 DEF Ordered, Placed
<1>14. u.at > TreeEnd(p) => R[u.at] = S[u.at]
  BY SMTT(60), <1>1, <1>6, <1>13
<1>15. Bracketed(u, R, M, p, Q, side)
  <2>1. a # p /\ Inward(a, side, p) = 1 - side
    BY <1>1 DEF Inward
  <2>2. u.at > TreeEnd(p) => \A y \in R[u.at] : OnSide(side, y, p, Told(p)) =>
            y \in R[a] \cap Side(a, Inward(a, side, p))
    BY <1>6, <1>13, <1>14, <2>1
  <2> QED
    BY <1>1, <1>12, <1>13, <2>1, <2>2 DEF Bracketed
<1>16. Bracketed(u, R, M, p, Q, 1 - side)
  <2> DEFINE z == O[1 - side]
             k == Inward(z, 1 - side, p)
  <2>1. /\ z \in M /\ z > TreeEnd(p) /\ Gap(w, 1 - side) = Slot(z, k)
        /\ Edge(w, 1 - side) >= p
        /\ IF z = p THEN Edge(w, 1 - side) = p
           ELSE Edge(w, 1 - side) - p <= Told(p) /\ Agree(z, p, Edge(w, 1 - side) - p)
        /\ \A y \in S[a] : OnSide(1 - side, y, p, Told(p)) => y \in S[z] \cap Side(z, k)
    BY <1>12 DEF Bracketed
  <2>2. z # a /\ z \in Nat /\ a < z
    BY <1>1, <1>12
  <2>3. R[z] = S[z]
    BY <1>6, <2>2
  <2>4. u.at > TreeEnd(p) =>
          /\ u.at \in M /\ u.at < z
          /\ \A y \in R[u.at] : OnSide(1 - side, y, p, Told(p)) => y \in R[z] \cap Side(z, k)
    <3> SUFFICES ASSUME u.at > TreeEnd(p)
                 PROVE  /\ u.at \in M /\ u.at < z
                        /\ \A y \in R[u.at] : OnSide(1 - side, y, p, Told(p)) => y \in R[z] \cap Side(z, k)
      OBVIOUS
    <3>1. u.at \in M /\ u.at < a /\ u.at \in Nat
      BY SMTT(60), <1>13
    <3>2. \A y \in R[u.at] : y \in S[a]
      BY <1>13, <1>14
    <3> HIDE DEF z, k
    <3>3. u.at < z
      BY SMTT(60), <1>1, <2>2, <3>1
    <3> QED
      BY <2>1, <2>3, <3>1, <3>2, <3>3
  <2>5. Q[1 - side] = z
    BY <1>12
  <2>6. /\ Gap(u, 1 - side) = Slot(z, k) /\ Edge(u, 1 - side) = Edge(w, 1 - side)
    BY <2>1
  <2> HIDE DEF z
  <2> QED
    BY <2>1, <2>4, <2>5, <2>6 DEF Bracketed
<1>17. \A s \in {0, 1} : Bracketed(u, R, M, p, Q, s)
  <2>1. \A s \in {0, 1} : s = side \/ s = 1 - side
    OBVIOUS
  <2> QED
    BY <1>15, <1>16, <2>1
<1> QED
  BY <1>5, <1>11, <1>12, <1>17 DEF Walking

Walk(p, N, R, E, Q) ==
  [p : {p}, at : Nat, nodes : N, lesser : Nat, greater : Nat, lesserFront : R,
   greaterFront : R, depth : Int, expected : E, matches : Q, ended : BOOLEAN]

NodeLists == [0 .. (2 * TreeSize - 1) -> Nat]

(* A position that a visit compares agrees with p as far as it says. *)
DiffersAt(w, p, limit) == SharedFront(w) + CommonLength(SharedFront(w), SharedFront(w) - (p - w.at), limit)

LEMMA VisitAgrees ==
  ASSUME src \in Seq(Nat), Len(src) > 0, NEW p \in Nat, NEW M, \A z \in M : z \in 0 .. p,
         NEW w, NEW limit \in Int, p + Told(p) <= limit,
         w.lesserFront \in Nat, w.greaterFront \in Nat,
         Walking(w, M, p), ~w.ended, w.at > TreeEnd(p)
  PROVE  w.at \in M /\ w.at < p /\ Compared(w.at, p, limit, DiffersAt(w, p, limit))
<1>1. PICK S \in Subtrees, O \in [{0, 1} -> M] :
        /\ Ordered(w.nodes, S, M, p, {w.lesser, w.greater})
        /\ \A side \in {0, 1} : Bracketed(w, S, M, p, O, side)
  BY DEF Walking
<1>2. /\ w.at \in M /\ w.at < p /\ SharedFront(w) \in Nat /\ SharedFront(w) >= p
      /\ Agree(w.at, p, SharedFront(w) - p)
  BY <1>1, SharedAgrees
<1>3. w.at \in 0 .. p
  BY <1>2
<1>4. Compared(w.at, p, limit, SharedFront(w) + CommonLength(SharedFront(w), SharedFront(w) - (p - w.at), limit))
  BY <1>2, <1>3, FrontAgrees, Zenon
<1> QED
  BY <1>2, <1>4 DEF DiffersAt

LEMMA VisitWalks ==
  ASSUME src \in Seq(Nat), Len(src) > 0, NEW p \in Nat, NEW M, \A z \in M : z \in 0 .. p,
         NEW R \in SUBSET Nat, NEW E, NEW Q, NEW w \in Walk(p, NodeLists, R, E, Q),
         NEW limit \in Int, p + Told(p) <= limit, limit <= CompressionLimit, NEW e, Walking(w, M, p)
  PROVE  Walking(Visit(w, limit, e), M, p)
<1> DEFINE shared  == SharedFront(w)
           front   == shared + CommonLength(shared, shared - (w.p - w.at), limit)
           length  == AtMost(front - w.p, e - w.p)
           visited == [(IF length >= w.expected THEN Report(w, w.p, w.at, length) ELSE w)
                         EXCEPT !.depth = @ - 1]
           stop    == w.at <= TreeEnd(w.p) \/ w.depth = 0 \/ w.at >= w.p \/ w.p - w.at > Farthest
           stopped == [w EXCEPT !.nodes[w.lesser] = 0, !.nodes[w.greater] = 0, !.ended = TRUE]
           last    == front - w.p >= NiceLength \/ front >= limit
<1>1. /\ w.p = p /\ w.at \in Nat /\ w.nodes \in NodeLists /\ w.ended \in BOOLEAN
      /\ w.lesserFront \in Nat /\ w.greaterFront \in Nat
      /\ TreeEnd(p) \in Nat
  BY Nodes DEF Walk
<1>2. /\ visited.p = p /\ visited.at = w.at /\ visited.nodes = w.nodes /\ visited.ended = w.ended
      /\ visited.lesser = w.lesser /\ visited.greater = w.greater
      /\ visited.lesserFront = w.lesserFront /\ visited.greaterFront = w.greaterFront
      /\ visited \in [p : {p}, at : Nat, nodes : NodeLists, lesser : Nat, greater : Nat, lesserFront : R,
           greaterFront : R, depth : {visited.depth}, expected : {visited.expected},
           matches : {visited.matches}, ended : BOOLEAN]
  <2> HIDE DEF length
  <2>1. CASE length >= w.expected
    BY <2>1 DEF Walk, Report
  <2>2. CASE ~(length >= w.expected)
    BY <2>2 DEF Walk
  <2> QED
    BY <2>1, <2>2
<1>3. CASE w.ended
  BY <1>3 DEF Visit
<1>4. CASE ~w.ended /\ stop
  <2>1. Visit(w, limit, e) = stopped
    BY <1>4 DEF Visit
  <2>2. stopped.ended /\ stopped.nodes = [w.nodes EXCEPT ![w.lesser] = 0, ![w.greater] = 0]
    BY DEF Walk
  <2>3. PICK S \in Subtrees, O \in [{0, 1} -> M] :
          /\ Ordered(w.nodes, S, M, p, {w.lesser, w.greater})
          /\ \A side \in {0, 1} : Bracketed(w, S, M, p, O, side)
    BY <1>4 DEF Walking
  <2>4. \A x, side : Placed(0, x, side, S, M, p)
    BY <1>1 DEF Placed
  <2> DEFINE c == [side \in {0, 1} |-> 0]
  <2>5. c \in [{0, 1} -> Nat] /\ \A side \in {0, 1} : c[side] = 0
    OBVIOUS
  <2> HIDE DEF c, stopped
  <2>6. Ordered([w.nodes EXCEPT ![w.lesser] = c[0], ![w.greater] = c[1]], S, M, p, {})
    <3>1. w.nodes \in [0 .. (2 * TreeSize - 1) -> Nat]
      BY <1>1 DEF NodeLists
    <3>2. \A side \in {0, 1} : /\ Bracketed(w, S, M, p, O, side)
                               /\ Placed(c[side], O[side], Inward(O[side], side, p), S, M, p)
      BY <2>3, <2>4, <2>5
    <3> QED
      BY <2>3, <2>5, <3>1, <3>2, StopKeepsOrder
  <2> QED
    BY ZenonT(60), <2>1, <2>2, <2>3, <2>5, <2>6 DEF Walking
<1>5. CASE ~w.ended /\ ~stop
  <2>1. ~w.ended /\ w.at > TreeEnd(p)
    BY <1>1, <1>5
  <2>2. PICK f : f = DiffersAt(w, p, limit)
    OBVIOUS
  <2>3. front = f
    BY <1>1, <2>2 DEF DiffersAt
  <2>4. /\ w.at \in M /\ w.at < p
        /\ f \in Nat /\ f >= p
        /\ Agree(w.at, p, f - p)
        /\ f - p >= NiceLength \/ f >= limit => Agree(w.at, p, Told(p))
        /\ ~(f - p >= NiceLength \/ f >= limit) =>
              Byte(f - (p - w.at)) = Byte(w.at + (f - p)) /\ Byte(w.at + (f - p)) # Byte(p + (f - p))
    <3>1. w.lesserFront \in Nat /\ w.greaterFront \in Nat
      BY <1>1
    <3>2. w.at \in M /\ w.at < p /\ Compared(w.at, p, limit, DiffersAt(w, p, limit))
      BY <2>1, <3>1, VisitAgrees, Zenon
    <3> QED
      BY <2>2, <3>2 DEF Compared
  <2>5. PICK S \in Subtrees, O \in [{0, 1} -> M] :
          /\ Ordered(w.nodes, S, M, p, {w.lesser, w.greater})
          /\ \A side \in {0, 1} : Bracketed(w, S, M, p, O, side)
    BY <1>5 DEF Walking
  <2> DEFINE child == 2 * NodeIndex(w.at)
  <2>6. Visit(w, limit, e) = IF last THEN Replace(visited) ELSE Descend(visited, front)
    BY <1>5 DEF Visit
  <2>7. child = Slot(w.at, 0) /\ child + 1 = Slot(w.at, 1)
    <3>1. NodeIndex(w.at) \in Nat
      <4>1. 0 \in {0, 1} /\ w.at \in Nat
        BY <1>1
      <4> QED
        BY <4>1, SlotIn, Zenon
    <3> QED
      BY <3>1 DEF Slot
  <2>8. last <=> f - p >= NiceLength \/ f >= limit
    BY <1>1, <2>3
  <2> HIDE DEF visited, child, front, stop, last
  <2>9. CASE last
    <3>1. Agree(w.at, p, Told(p))
      BY <2>4, <2>8, <2>9
    <3> DEFINE c == [side \in {0, 1} |-> w.nodes[Slot(w.at, side)]]
    <3>2. \A side \in {0, 1} : Placed(c[side], O[side], Inward(O[side], side, p), S, M, p)
      BY <2>1, <2>5, <3>1, ReplacePlaces
    <3>3. c \in [{0, 1} -> Nat] /\ c[0] = w.nodes[child] /\ c[1] = w.nodes[child + 1]
      <4>1. \A side \in {0, 1} : Slot(w.at, side) \in 0 .. (2 * TreeSize - 1)
        BY <1>1, SlotIn
      <4> QED
        BY <1>1, <2>7, <4>1 DEF NodeLists
    <3> HIDE DEF c
    <3>4. Ordered([w.nodes EXCEPT ![w.lesser] = c[0], ![w.greater] = c[1]], S, M, p, {})
      BY <1>1, <2>5, <3>2, <3>3, StopKeepsOrder DEF NodeLists
    <3> DEFINE u == Replace(visited)
    <3>5. u.ended /\ u.nodes = [w.nodes EXCEPT ![w.lesser] = c[0], ![w.greater] = c[1]]
      BY <1>2, <3>3 DEF Replace, child
    <3> HIDE DEF u
    <3>6. Walking(u, M, p)
      BY <2>5, <3>4, <3>5 DEF Walking
    <3> QED
      BY <2>6, <2>9, <3>6 DEF u
  <2>10. CASE ~last
    <3>1. /\ f - p \in Nat /\ f - p < NiceLength /\ f < limit
          /\ Byte(f - (p - w.at)) = Byte(w.at + (f - p)) /\ Byte(w.at + (f - p)) # Byte(p + (f - p))
      BY <2>4, <2>8, <2>10, MatchTreeAssumption
    <3>2. /\ Told(p) \in Int /\ f - p \in 0 .. (Told(p) - 1) /\ w.at \in 0 .. p /\ p \in 0 .. p
          /\ Inner(w.at, Told(p)) /\ Inner(p, Told(p))
      <4>1. w.at \in 0 .. p /\ p \in 0 .. p
        BY <2>4
      <4>2. Told(p) \in Int /\ CompressionLimit \in Int /\ Inner(w.at, Told(p)) /\ Inner(p, Told(p))
        BY <4>1, ToldInner
      <4>3. f - p < Told(p)
        BY <2>4, <3>1, <4>2, MatchTreeAssumption DEF Told, AtMost
      <4> QED
        BY <3>1, <4>1, <4>2, <4>3
    <3>3. Byte(w.at + (f - p)) \in Nat /\ Byte(p + (f - p)) \in Nat
      <4>1. w.at \in Nat
        BY <3>2
      <4> QED
        BY <3>2, <4>1, BytesAre, Zenon
    <3>4. Agree(p, w.at, f - p)
      BY <2>4 DEF Agree
    <3> DEFINE u == Descend(visited, front)
    <3>5. CASE Byte(w.at + (f - p)) < Byte(p + (f - p))
      <4>1. OnSide(0, w.at, p, Told(p))
        BY SMTT(60), <2>4, <3>2, <3>5, Decides DEF OnSide
      <4>2. Byte(front - (visited.p - visited.at)) < Byte(front)
        <5>1. p + (f - p) = f
          BY <2>4
        <5> QED
          BY <1>2, <2>3, <3>1, <3>5, <5>1
      <4>3. u = [visited EXCEPT !.nodes[visited.lesser] = visited.at, !.lesser = child + 1,
                                !.at = visited.nodes[child + 1], !.lesserFront = front]
        BY <1>2, <4>2 DEF Descend, child
      <4>4. /\ u.nodes = [w.nodes EXCEPT ![w.lesser] = w.at] /\ u.at = w.nodes[child + 1]
            /\ u.ended = w.ended /\ u.lesser = child + 1 /\ u.lesserFront = f
            /\ u.greater = w.greater /\ u.greaterFront = w.greaterFront
        BY <1>2, <2>3, <4>3
      <4> HIDE DEF u
      <4>5. /\ u.nodes = [w.nodes EXCEPT ![Gap(w, 0)] = w.at] /\ u.at = w.nodes[Slot(w.at, 1 - 0)]
            /\ ~u.ended /\ Gap(u, 0) = Slot(w.at, 1 - 0) /\ Edge(u, 0) = f
            /\ Gap(u, 1 - 0) = Gap(w, 1 - 0) /\ Edge(u, 1 - 0) = Edge(w, 1 - 0)
        BY <2>1, <2>7, <4>4 DEF Gap, Edge
      <4>6. Walking(u, M, p)
        <5>1. 0 \in {0, 1} /\ f - p <= Told(p)
          BY <3>2
        <5>2. w.nodes \in [0 .. (2 * TreeSize - 1) -> Nat]
          BY <1>1 DEF NodeLists
        <5> QED
          BY <2>1, <2>4, <2>5, <4>1, <4>5, <5>1, <5>2, DescendKeepsOrder, Zenon
      <4> QED
        BY <2>6, <2>10, <4>6 DEF u
    <3>6. CASE Byte(p + (f - p)) < Byte(w.at + (f - p))
      <4>1. OnSide(1, w.at, p, Told(p))
        BY SMTT(60), <3>2, <3>4, <3>6, Decides DEF OnSide
      <4>2. ~(Byte(front - (visited.p - visited.at)) < Byte(front))
        <5>1. p + (f - p) = f
          BY <2>4
        <5> QED
          BY <1>2, <2>3, <3>1, <3>3, <3>6, <5>1
      <4>3. u = [visited EXCEPT !.nodes[visited.greater] = visited.at, !.greater = child,
                                !.at = visited.nodes[child], !.greaterFront = front]
        BY <1>2, <4>2 DEF Descend, child
      <4>4. /\ u.nodes = [w.nodes EXCEPT ![w.greater] = w.at] /\ u.at = w.nodes[child]
            /\ u.ended = w.ended /\ u.greater = child /\ u.greaterFront = f
            /\ u.lesser = w.lesser /\ u.lesserFront = w.lesserFront
        BY <1>2, <2>3, <4>3
      <4> HIDE DEF u
      <4>5. /\ u.nodes = [w.nodes EXCEPT ![Gap(w, 1)] = w.at] /\ u.at = w.nodes[Slot(w.at, 1 - 1)]
            /\ ~u.ended /\ Gap(u, 1) = Slot(w.at, 1 - 1) /\ Edge(u, 1) = f
            /\ Gap(u, 1 - 1) = Gap(w, 1 - 1) /\ Edge(u, 1 - 1) = Edge(w, 1 - 1)
        BY <2>1, <2>7, <4>4 DEF Gap, Edge
      <4>6. Walking(u, M, p)
        <5>1. 1 \in {0, 1} /\ f - p <= Told(p)
          BY <3>2
        <5>2. w.nodes \in [0 .. (2 * TreeSize - 1) -> Nat]
          BY <1>1 DEF NodeLists
        <5> QED
          BY <2>1, <2>4, <2>5, <4>1, <4>5, <5>1, <5>2, DescendKeepsOrder, Zenon
      <4> QED
        BY <2>6, <2>10, <4>6 DEF u
    <3> QED
      BY <3>1, <3>3, <3>5, <3>6
  <2> QED
    BY <2>9, <2>10
<1> QED
  BY <1>3, <1>4, <1>5

(* Nodes are used again in order. *)
LEMMA EndsGrow ==
  ASSUME src \in Seq(Nat), Len(src) > 0, NEW p \in Nat, NEW l \in 0 .. p
  PROVE  TreeEnd(l) <= TreeEnd(p) /\ TreeEnd(l) \in Nat /\ TreeEnd(p) \in Nat /\ (p > 0 => TreeEnd(p) < p)
<1>1. PICK n \in Nat \ {0} : n = TreeSize
  BY Nodes
<1> QED
  BY <1>1 DEF TreeEnd

(* The search for a position that is behind all others begins at p's own   *)
(* node, whose slots are both open. *)
LEMMA RootWalks ==
  ASSUME src \in Seq(Nat), Len(src) > 0, NEW p \in Nat \ {0}, NEW t,
         t.inserted \in SUBSET {x \in Nat : x < p}, t.lookup[Hash(p, 4)] \in Nat, t.nodes \in NodeLists,
         Hash(p, 4) \in DOMAIN t.lookup, Sorted(t), NEW expected, NEW matches
  PROVE  Walking(AtRoot(t, p, expected, matches), t.inserted \union {p}, p)
<1> DEFINE w == AtRoot(t, p, expected, matches)
           A == t.inserted
           M == A \union {p}
           root == t.lookup[Hash(p, 4)]
<1>1. PICK l \in A \union {0} :
        /\ \A x \in A : x <= l
        /\ \E S \in Subtrees : Ordered(t.nodes, S, A, l, {})
        /\ root > TreeEnd(l) => root \in A
  BY DEF Sorted
<1>2. PICK S \in Subtrees : Ordered(t.nodes, S, A, l, {})
  BY <1>1
<1>3. l \in 0 .. p /\ TreeEnd(l) <= TreeEnd(p) /\ TreeEnd(l) \in Nat /\ TreeEnd(p) \in Nat
  <2>1. l \in 0 .. p
    OBVIOUS
  <2> QED
    BY <2>1, EndsGrow
<1> DEFINE R == [S EXCEPT ![p] = 0 .. p]
<1>4. R \in Subtrees /\ R[p] = 0 .. p /\ \A x \in A : R[x] = S[x]
  BY DEF Subtrees
<1> HIDE DEF R
<1>5. /\ w.nodes = t.nodes /\ w.at = root /\ w.at \in Nat /\ ~w.ended /\ w.lesser = Slot(p, 0) /\ w.greater = Slot(p, 1)
      /\ w.lesserFront = p /\ w.greaterFront = p
  <2>1. NodeIndex(p) \in Nat
    <3>1. 0 \in {0, 1} /\ p \in Nat
      OBVIOUS
    <3> QED
      BY <3>1, SlotIn, Zenon
  <2> QED
    BY <2>1 DEF AtRoot, Slot
<1> HIDE DEF w, root
<1>6. Ordered(w.nodes, R, M, p, {w.lesser, w.greater})
  <2> SUFFICES ASSUME NEW x \in M, x > TreeEnd(p)
               PROVE  /\ x \in R[x] /\ \A y \in R[x] : y <= x
                      /\ \A side \in {0, 1} : Slot(x, side) \notin {w.lesser, w.greater} =>
                           Placed(w.nodes[Slot(x, side)], x, side, R, M, p)
    BY DEF Ordered
  <2>1. CASE x = p
    BY <1>4, <1>5, <2>1
  <2>2. CASE x # p
    <3>1. x \in A /\ x > TreeEnd(l) /\ x \in Nat
      BY <1>3, <2>2
    <3>2. x \in S[x] /\ \A y \in S[x] : y <= x
      BY <1>2, <3>1 DEF Ordered
    <3>3. ASSUME NEW side \in {0, 1}
          PROVE  Placed(t.nodes[Slot(x, side)], x, side, R, M, p)
      <4>1. Placed(t.nodes[Slot(x, side)], x, side, S, A, l)
        BY <1>2, <3>1 DEF Ordered
      <4> DEFINE c == t.nodes[Slot(x, side)]
      <4>2. ASSUME c > TreeEnd(p)
            PROVE  c \in M /\ c < x /\ R[c] \subseteq R[x] \cap Side(x, side)
        <5>1. c > TreeEnd(l)
          <6>1. Slot(x, side) \in 0 .. (2 * TreeSize - 1)
            BY <3>1, SlotIn
          <6>2. c \in Nat
            BY <6>1 DEF NodeLists
          <6> HIDE DEF c
          <6> QED
            BY <1>3, <4>2, <6>2
        <5>2. c \in A /\ c < x /\ S[c] \subseteq S[x] \cap Side(x, side)
          BY <4>1, <5>1 DEF Placed
        <5> QED
          BY <1>4, <3>1, <5>2
      <4> QED
        BY <4>2 DEF Placed
    <3> QED
      BY <1>4, <1>5, <3>1, <3>2, <3>3
  <2> QED
    BY <2>1, <2>2
<1> DEFINE O == [side \in {0, 1} |-> p]
<1>7. O \in [{0, 1} -> M] /\ \A side \in {0, 1} : O[side] = p
  OBVIOUS
<1> HIDE DEF O
<1>8. ASSUME NEW side \in {0, 1}
      PROVE  Bracketed(w, R, M, p, O, side)
  <2>1. Inward(p, side, p) = side /\ Gap(w, side) = Slot(p, side) /\ Edge(w, side) = p
    BY <1>5 DEF Inward, Gap, Edge
  <2>2. p > TreeEnd(p)
    <3>1. p \in 0 .. p
      OBVIOUS
    <3> QED
      BY <3>1, EndsGrow
  <2>3. ASSUME w.at > TreeEnd(p)
        PROVE  /\ w.at \in M /\ w.at < p
               /\ \A y \in R[w.at] : OnSide(side, y, p, Told(p)) => y \in R[p] \cap Side(p, side)
    <3>1. w.at \in A
      BY <1>1, <1>3, <1>5, <2>3
    <3>2. R[w.at] = S[w.at] /\ w.at > TreeEnd(l) /\ w.at \in Nat /\ w.at < p
      BY <1>3, <1>4, <2>3, <3>1
    <3>3. \A y \in R[w.at] : y \in Nat /\ y <= w.at
      BY <1>2, <3>1, <3>2 DEF Ordered, Subtrees
    <3> QED
      BY <1>4, <3>1, <3>2, <3>3 DEF Side
  <2> QED
    BY <1>7, <2>1, <2>2, <2>3 DEF Bracketed
<1>9. Walking(w, M, p)
  BY <1>4, <1>5, <1>6, <1>7, <1>8 DEF Walking
<1> QED
  BY <1>9 DEF w

(* A position that is put in after its search has ended. *)
LEMMA RootSorts ==
  ASSUME src \in Seq(Nat), Len(src) > 0, NEW p \in Nat \ {0}, NEW t, NEW w,
         t.inserted \in SUBSET {x \in Nat : x < p}, t.lookup \in [0 .. (Buckets - 1) -> Nat],
         Sorted(t), w.ended, Walking(w, t.inserted \union {p}, p)
  PROVE  Sorted(WithRoot(t, p, w))
<1> DEFINE M == t.inserted \union {p}
           u == WithRoot(t, p, w)
<1>1. PICK l \in t.inserted \union {0} :
        /\ \A x \in t.inserted : x <= l
        /\ \A b \in DOMAIN t.lookup : t.lookup[b] > TreeEnd(l) => t.lookup[b] \in t.inserted
  BY DEF Sorted
<1>2. PICK S \in Subtrees : Ordered(w.nodes, S, M, p, {})
  BY DEF Walking
<1>3. l \in 0 .. p /\ TreeEnd(l) <= TreeEnd(p) /\ TreeEnd(l) \in Nat /\ TreeEnd(p) \in Nat
  <2>1. l \in 0 .. p
    OBVIOUS
  <2> QED
    BY <2>1, EndsGrow
<1>4. u.inserted = M /\ u.nodes = w.nodes /\ u.lookup = [t.lookup EXCEPT ![Hash(p, 4)] = p]
  BY DEF WithRoot
<1> HIDE DEF u
<1>5. p \in M \union {0} /\ \A x \in M : x <= p
  OBVIOUS
<1>6. \A b \in DOMAIN u.lookup : u.lookup[b] > TreeEnd(p) => u.lookup[b] \in M
  <2> TAKE b \in DOMAIN u.lookup
  <2>1. b \in DOMAIN t.lookup /\ (u.lookup[b] = p \/ u.lookup[b] = t.lookup[b]) /\ t.lookup[b] \in Nat
    BY <1>4
  <2> QED
    BY <1>1, <1>3, <2>1
<1>7. Sorted(u)
  <2>1. \E S0 \in Subtrees : Ordered(u.nodes, S0, u.inserted, p, {})
    BY <1>2, <1>4
  <2>2. p \in u.inserted \union {0} /\ \A x \in u.inserted : x <= p
    BY <1>4, <1>5
  <2>3. \A b \in DOMAIN u.lookup : u.lookup[b] > TreeEnd(p) => u.lookup[b] \in u.inserted
    BY <1>4, <1>6
  <2> QED
    BY <2>1, <2>2, <2>3, Zenon DEF Sorted
<1> QED
  BY <1>7 DEF u

(* A tree without positions. *)
LEMMA EmptySorts ==
  ASSUME src \in Seq(Nat)
  PROVE  Sorted(EmptyTree)
<1>1. EmptyTree.inserted = {} /\ EmptyTree.lookup = [b \in 0 .. (Buckets - 1) |-> 0]
  BY DEF EmptyTree
<1>2. [x \in Nat |-> {}] \in Subtrees
  BY DEF Subtrees
<1>3. Ordered(EmptyTree.nodes, [x \in Nat |-> {}], {}, 0, {})
  BY DEF Ordered
<1>4. ~(0 > TreeEnd(0))
  BY LenProperties, MatchTreeAssumption DEF TreeEnd, TreeSize, AtMost
<1> QED
  BY <1>1, <1>2, <1>3, <1>4 DEF Sorted

(* findLZMatchesAndUpdate relies on this order. *)
LEMMA SortedSearches ==
  ASSUME src \in Seq(Nat), inserted \in SUBSET Nat, nodes \in NodeLists, Sorted(tree)
  PROVE  SearchOrder
<1> SUFFICES ASSUME NEW p \in inserted, NEW side \in {0, 1},
                    p > TreeEnd(Latest), nodes[2 * NodeIndex(p) + side] > TreeEnd(Latest)
             PROVE  LET child == nodes[2 * NodeIndex(p) + side] IN
                      /\ child \in inserted /\ child < p
                      /\ IF side = 0 THEN ~Before(p, child) ELSE ~Before(child, p)
  BY DEF SearchOrder
<1> DEFINE c == nodes[2 * NodeIndex(p) + side]
<1>1. PICK l \in inserted \union {0} :
        /\ \A x \in inserted : x <= l
        /\ \E S \in Subtrees : Ordered(nodes, S, inserted, l, {})
  BY DEF Sorted, tree
<1>2. PICK S \in Subtrees : Ordered(nodes, S, inserted, l, {})
  BY <1>1
<1>3. Latest = l
  <2>1. l \in inserted
    BY <1>1
  <2>2. Latest = CHOOSE x \in inserted : \A q \in inserted : q <= x
    BY DEF Latest
  <2>3. Latest \in inserted /\ \A q \in inserted : q <= Latest
    BY <1>1, <2>1, <2>2
  <2> QED
    BY <1>1, <2>1, <2>3
<1>4. c = nodes[Slot(p, side)] /\ p \in Nat
  BY DEF Slot
<1>5. c \in inserted /\ c < p /\ S[c] \subseteq S[p] \cap Side(p, side)
  BY <1>2, <1>3, <1>4 DEF Ordered, Placed
<1>6. c \in S[c]
  BY <1>2, <1>3, <1>5 DEF Ordered
<1>7. c \in Nat /\ OnSide(side, c, p, Told(p))
  BY <1>5, <1>6 DEF Side
<1> HIDE DEF c
<1> DEFINE n == CommonLength(p, c, CompressionLimit)
<1>8. /\ n \in Nat /\ Agree(p, c, n) /\ Agree(c, p, n)
  <2>1. CompressionLimit \in Int
    BY ToldInner
  <2>2. p \in Int /\ c \in Int
    BY <1>4, <1>7
  <2>3. Common(p, c, CompressionLimit, CommonLength(p, c, CompressionLimit))
    BY <2>1, <2>2, CommonAgrees, Zenon
  <2>4. n \in 0 .. AtLeast(CompressionLimit - p, 0) /\ \A i \in 0 .. (n - 1) : Byte(p + i) = Byte(c + i)
    BY <2>3 DEF Common
  <2> HIDE DEF n
  <2> QED
    BY <2>1, <2>4 DEF Agree, AtLeast
<1> HIDE DEF n
<1>9. ASSUME n < NiceLength, p + n < CompressionLimit
      PROVE  /\ ~(side = 0 /\ Byte(p + n) < Byte(c + n))
             /\ ~(side = 1 /\ Byte(c + n) < Byte(p + n))
  <2>1. p \in 0 .. p /\ c \in 0 .. p
    BY <1>4, <1>5, <1>7
  <2>2. Told(p) \in Int /\ Inner(p, Told(p)) /\ Inner(c, Told(p)) /\ CompressionLimit \in Int
    BY <2>1, ToldInner
  <2>3. n \in 0 .. (Told(p) - 1)
    BY <1>8, <1>9, <2>2, MatchTreeAssumption DEF Told, AtMost
  <2>4. CASE side = 0
    <3>1. NotAfter(c, p, Told(p))
      BY <1>7, <2>4 DEF OnSide
    <3> QED
      BY SMTT(60), <1>4, <1>7, <1>8, <2>2, <2>3, <2>4, <3>1, Decides
  <2>5. CASE side = 1
    <3>1. NotAfter(p, c, Told(p))
      BY <1>7, <2>5 DEF OnSide
    <3> QED
      BY <1>4, <1>7, <1>8, <2>2, <2>3, <2>5, <3>1, Decides
  <2> QED
    BY <2>4, <2>5
<1>10. AtLeast(p, c) = p /\ AtMost(p, c) = c /\ AtLeast(c, p) = p /\ AtMost(c, p) = c
  BY <1>4, <1>5, <1>7 DEF AtLeast, AtMost
<1>11. IF side = 0 THEN ~Before(p, c) ELSE ~Before(c, p)
  BY <1>9, <1>10 DEF Before, n
<1> QED
  BY <1>5, <1>11 DEF c

-----------------------------------------------------------------------------
(* What a search may lose and miss.                                        *)

(* What the steps of a search start from, and what they leave. *)
Ground(t, p) ==
  /\ src \in Seq(Nat) /\ Len(src) > 0 /\ Hash(p, 4) \in 0 .. (Buckets - 1)
  /\ t.inserted \in SUBSET {x \in Nat : x < p} /\ t.lookup \in [0 .. (Buckets - 1) -> Nat]
Moving(w) == w.at \in Nat /\ w.nodes \in NodeLists /\ w.depth \in Int
StopsAt(w, p) == w.at <= TreeEnd(p) \/ w.depth = 0 \/ w.at >= p \/ p - w.at > Farthest
StoppedFrom(u, w) ==
  u.nodes = [w.nodes EXCEPT ![w.lesser] = 0, ![w.greater] = 0] /\ u.matches = w.matches
ReplacedFrom(u, w, p, e) ==
  /\ u.nodes = [w.nodes EXCEPT ![w.lesser] = w.nodes[Slot(w.at, 0)],
                               ![w.greater] = w.nodes[Slot(w.at, 1)]]
  /\ \A n \in Wanted(p, e) : n <= Told(p) => Has(u.matches, n)
DescendedFrom(u, w, side) ==
  /\ u.nodes = [w.nodes EXCEPT ![Gap(w, side)] = w.at]
  /\ u.at = w.nodes[Slot(w.at, 1 - side)] /\ u.depth = w.depth - 1
  /\ Gap(u, side) = Slot(w.at, 1 - side) /\ Gap(u, 1 - side) = Gap(w, 1 - side)
Reporting(v, w, p, e, f) ==
  /\ \A n : Has(w.matches, n) => Has(v.matches, n)
  /\ \A n \in Wanted(p, e) : n <= f - p => Has(v.matches, n)
  /\ Met(v.matches, v.expected, p, e) /\ v.depth = w.depth - 1
VisitedFrom(v, w, length) ==
  v = [(IF length >= w.expected THEN Report(w, w.p, w.at, length) ELSE w) EXCEPT !.depth = @ - 1]

(* Lost positions stay lost, and so do earlier ones of their tree. *)
LEMMA LostMore ==
  ASSUME NEW A, NEW C, A \subseteq C, C \subseteq Nat, NEW x \in Nat, NEW y \in Nat, x <= y, Kin(x, y),
         NEW l \in Nat, NEW k \in Nat, l <= k, Lost(y, A, l)
  PROVE  Lost(x, C, k)
<1>1. CASE l - y > Farthest
  <2>1. k - x > Farthest
    BY <1>1, SourceBytesAssumption
  <2> QED
    BY <2>1 DEF Lost
<1>2. CASE ~(l - y > Farthest)
  <2>1. PICK D \in SUBSET A : /\ IsFiniteSet(D) /\ Cardinality(D) = DepthLimit
                              /\ \A z \in D : z > y /\ Kin(z, y)
    BY <1>2 DEF Lost
  <2>2. \A z \in D : z > x /\ Kin(z, x)
    BY <2>1 DEF Kin
  <2> QED
    BY <2>1, <2>2 DEF Lost
<1> QED
  BY <1>1, <1>2

(* What is below w.at is not after it. *)
LEMMA TopOf ==
  ASSUME NEW p \in Nat, NEW nds, NEW B, \A x \in B : x \in 0 .. p /\ x > TreeEnd(p) /\ Kin(x, p),
         NEW open, NEW roots, NEW at \in Nat, roots[Hash(p, 4)] = at,
         Hung(nds, B, B, p, open, roots)
  PROVE  \A x \in B : x <= at
<1> SUFFICES ASSUME NEW x \in B, x > at
             PROVE  FALSE
  OBVIOUS
<1> DEFINE D == {n \in Nat : \E y \in B : y > at /\ n = p - y}
<1>1. p - x \in D
  OBVIOUS
<1>2. PICK n \in D : \A k \in D : n <= k
  <2>1. D \in SUBSET Nat /\ D # {}
    BY <1>1
  <2> HIDE DEF D
  <2> QED
    BY <2>1, LeastNatural
<1>3. PICK y \in B : y > at /\ n = p - y
  OBVIOUS
<1>4. Hash(y, 4) = Hash(p, 4) /\ y > TreeEnd(p)
  BY DEF Kin
<1>5. PICK z \in B : z > y
  BY <1>3, <1>4 DEF Hung
<1>6. p - z \in D
  BY <1>3, <1>5
<1> HIDE DEF D
<1> QED
  BY <1>2, <1>3, <1>5, <1>6

(* A position on the other side of one that was passed has no more in      *)
(* common with p than that one.                                            *)
LEMMA Prunes ==
  ASSUME src \in Seq(Nat), NEW p \in Nat, NEW at \in 0 .. p, NEW x \in 0 .. p,
         NEW side \in {0, 1}, OnSide(side, at, p, Told(p)), x \in Side(at, side),
         NEW f \in Nat, f >= p, Byte(at + (f - p)) # Byte(p + (f - p)),
         NEW n \in Nat, n <= Told(p), Agree(x, p, n)
  PROVE  n <= f - p
<1>1. p \in 0 .. p /\ Told(p) \in Int
  BY ToldInner
<1>2. /\ Told(at) \in Int /\ Told(p) <= Told(at)
      /\ Inner(x, n) /\ Inner(at, n) /\ Inner(p, n)
  BY <1>1, ToldInner
<1>3. OnSide(side, x, at, Told(at))
  BY DEF Side
<1>4. Agree(at, p, n)
  <2>1. x \in Nat /\ at \in Nat /\ n \in Int /\ n <= Told(at)
    BY <1>1, <1>2
  <2> QED
    BY SMTT(60), <1>1, <1>2, <1>3, <2>1, OnSideSqueezed
<1>5. ASSUME n > f - p
      PROVE  FALSE
  <2>1. f - p \in 0 .. (n - 1)
    BY <1>5
  <2> QED
    BY <1>4, <2>1 DEF Agree
<1> QED
  BY <1>5

(* Who owns the open slots of a search. *)
Owns(y, s, w, p, side) ==
  /\ y \in 0 .. p /\ y > TreeEnd(p) /\ y > w.at /\ Kin(y, p) /\ Gap(w, side) = Slot(y, s)
  /\ \A z \in 0 .. p : \A a \in {0, 1} :
       z > TreeEnd(p) /\ Slot(z, a) = Gap(w, side) => z = y /\ a = s

Owned(V, w, p, side) == \E y \in V \union {p}, s \in {0, 1} : Owns(y, s, w, p, side)

LEMMA GapOwner ==
  ASSUME src \in Seq(Nat), Len(src) > 0, NEW p \in Nat \ {0}, NEW t,
         t.inserted \in SUBSET {x \in Nat : x < p}, NEW w, w.at \in Nat, NEW e,
         NEW T \in SUBSET t.inserted, NEW V \in SUBSET T, NEW B, Combing(w, t, p, e, T, V, B),
         NEW side \in {0, 1}
  PROVE  /\ w.at < p
         /\ Gap(w, side) \in 0 .. (2 * TreeSize - 1) /\ Gap(w, side) \in {w.lesser, w.greater}
         /\ Owned(V, w, p, side)
<1>1. p \in 0 .. p /\ p > TreeEnd(p) /\ TreeEnd(p) \in Nat
  <2>1. p \in 0 .. p /\ p \in Nat
    OBVIOUS
  <2> QED
    BY <2>1, EndsGrow
<1>2. w.at < p
  BY <1>1 DEF Combing
<1>3. PICK y \in V \union {p}, s \in {0, 1} : Gap(w, side) = Slot(y, s)
  BY DEF Combing
<1>4. y \in 0 .. p /\ y > TreeEnd(p) /\ y > w.at /\ Kin(y, p)
  BY <1>1, <1>2, <1>3 DEF Combing, Kin
<1>5. Gap(w, side) \in 0 .. (2 * TreeSize - 1)
  <2>1. y \in Nat
    BY <1>4
  <2> QED
    BY <1>3, <2>1, SlotIn
<1>6. \A z \in 0 .. p : \A a \in {0, 1} :
        z > TreeEnd(p) /\ Slot(z, a) = Gap(w, side) => z = y /\ a = s
  BY <1>3, <1>4, OwnSlots
<1> QED
  BY <1>2, <1>3, <1>4, <1>5, <1>6 DEF Gap, Owns, Owned

(* So each of the two gaps has one owner.                                  *)
LEMMA GapOwners ==
  ASSUME src \in Seq(Nat), Len(src) > 0, NEW p \in Nat \ {0}, NEW t,
         t.inserted \in SUBSET {x \in Nat : x < p}, NEW w, w.at \in Nat, NEW e,
         NEW T \in SUBSET t.inserted, NEW V \in SUBSET T, NEW B, Combing(w, t, p, e, T, V, B)
  PROVE  Owned(V, w, p, 0) /\ Owned(V, w, p, 1)
<1>1. 0 \in {0, 1} /\ 1 \in {0, 1}
  OBVIOUS
<1>2. Owned(V, w, p, 0)
  BY <1>1, GapOwner, Zenon
<1>3. Owned(V, w, p, 1)
  BY <1>1, GapOwner, Zenon
<1> QED
  BY <1>2, <1>3

(* What a position would be found by, one that stands for it is found by.  *)
LEMMA StandsMatched ==
  ASSUME src \in Seq(Nat), NEW p \in Nat, NEW x \in 0 .. p, NEW y \in 0 .. p, Stands(y, x),
         NEW list, NEW e, Matched(y, list, p, e)
  PROVE  Matched(x, list, p, e)
<1> SUFFICES ASSUME NEW n \in Wanted(p, e), n <= Told(p), Agree(x, p, n)
             PROVE  Has(list, n)
  BY DEF Matched
<1>1. Agree(y, p, n)
  <2>1. CASE y = x
    BY <2>1
  <2>2. CASE Agree(y, x, Told(y))
    <3>1. Told(y) \in Int /\ Told(p) \in Int /\ Told(p) <= Told(y) /\ n \in Nat
      BY ToldInner DEF Wanted
    <3>2. \A i \in 0 .. (n - 1) : i \in 0 .. (Told(y) - 1)
      BY <3>1
    <3> QED
      BY <2>2, <3>2 DEF Agree
  <2> QED
    BY <2>1, <2>2 DEF Stands
<1> QED
  BY <1>1 DEF Matched

(* A search that is given up: what is below is lost.                       *)
LEMMA StopCombs ==
  ASSUME NEW p \in Nat \ {0}, NEW t, Ground(t, p),
         NEW w, Moving(w), NEW e \in Int,
         NEW T \in SUBSET t.inserted, NEW V \in SUBSET T, NEW B \in SUBSET t.inserted,
         Combing(w, t, p, e, T, V, B),
         StopsAt(w, p),
         NEW u, StoppedFrom(u, w)
  PROVE  Combed(u, t, p, e)
<1>0. /\ src \in Seq(Nat) /\ Len(src) > 0 /\ Hash(p, 4) \in 0 .. (Buckets - 1)
      /\ t.inserted \in SUBSET {x \in Nat : x < p} /\ t.lookup \in [0 .. (Buckets - 1) -> Nat]
      /\ w.at \in Nat /\ w.nodes \in NodeLists /\ w.depth \in Int
      /\ w.at <= TreeEnd(p) \/ w.depth = 0 \/ w.at >= p \/ p - w.at > Farthest
      /\ u.nodes = [w.nodes EXCEPT ![w.lesser] = 0, ![w.greater] = 0] /\ u.matches = w.matches
  BY DEF Ground, Moving, StopsAt, StoppedFrom
<1> USE <1>0
<1> DEFINE A == t.inserted
           M == A \union {p}
           h == Hash(p, 4)
           at == w.at
           open == {w.lesser, w.greater}
           roots == [t.lookup EXCEPT ![h] = at]
           Q == {x \in T \union {p} : ~(Kin(x, p) /\ x <= at)}
<1>1. p \in 0 .. p /\ p > TreeEnd(p) /\ TreeEnd(p) \in Nat /\ at < p
  <2>1. p \in 0 .. p /\ p \in Nat /\ 0 \in {0, 1}
    OBVIOUS
  <2>2. at < p
    BY <2>1, GapOwner, Zenon
  <2> QED
    BY <2>1, <2>2, EndsGrow
<1>2. \A x \in A : x \in 0 .. p /\ x < p /\ x \in Nat
  OBVIOUS
<1>3. roots[h] = at /\ \A b \in 0 .. (Buckets - 1) : b # h => roots[b] = t.lookup[b]
  OBVIOUS
<1>4. /\ Related(w.nodes, M, p, open)
      /\ Hung(w.nodes, T, T \union {p}, p, open, roots)
      /\ Standing(T, A, p)
      /\ IsFiniteSet(V) /\ Cardinality(V) = DepthLimit - w.depth
      /\ \A v \in V : v > at /\ v > TreeEnd(p) /\ Kin(v, p)
      /\ Hung(w.nodes, B, B, p, open, roots)
      /\ \A x \in B : x > TreeEnd(p) /\ Kin(x, p)
      /\ \A x \in T : x > TreeEnd(p) /\ Kin(x, p) /\ x \notin B => Matched(x, w.matches, p, e)
  BY DEF Combing
<1>5. \A z \in Nat, side \in {0, 1} :
        u.nodes[Slot(z, side)] = IF Slot(z, side) \in open THEN 0 ELSE w.nodes[Slot(z, side)]
  <2> TAKE z \in Nat, side \in {0, 1}
  <2>1. Slot(z, side) \in 0 .. (2 * TreeSize - 1)
    BY SlotIn
  <2> QED
    BY <2>1 DEF NodeLists
<1>6. \A x \in A : x <= at /\ x > TreeEnd(p) /\ Kin(x, p) => Lost(x, A, p)
  <2> SUFFICES ASSUME NEW x \in A, x <= at, x > TreeEnd(p), Kin(x, p)
               PROVE  Lost(x, A, p)
    OBVIOUS
  <2>1. w.depth = 0 \/ p - at > Farthest
    BY <1>1, <1>2
  <2>2. CASE p - at > Farthest
    <3>1. PICK k \in Nat : k = at
      OBVIOUS
    <3>2. x \in Nat /\ p \in Nat /\ Farthest \in Nat
      BY <1>2, SourceBytesAssumption
    <3>3. x <= k /\ p - k > Farthest
      BY <2>2, <3>1
    <3>4. p - x > Farthest
      BY <3>2, <3>3
    <3> QED
      BY <3>4 DEF Lost
  <2>3. CASE w.depth = 0
    <3>1. IsFiniteSet(V) /\ Cardinality(V) = DepthLimit /\ V \in SUBSET A
      BY <1>4, <2>3, MatchTreeAssumption
    <3>2. \A v \in V : v > x /\ Kin(v, x)
      BY <1>2, <1>4, <3>1 DEF Kin
    <3> QED
      BY <3>1, <3>2 DEF Lost
  <2> QED
    BY <2>1, <2>2, <2>3
<1>7. \A x \in B : x <= at
  <2>1. \A x \in B : x \in 0 .. p /\ x > TreeEnd(p) /\ Kin(x, p)
    BY <1>2, <1>4
  <2> HIDE DEF roots, open
  <2> QED
    BY <1>3, <1>4, <2>1, TopOf
<1> HIDE DEF roots, open
<1>8. Related(u.nodes, M, p, {})
  <2> SUFFICES ASSUME NEW x \in M, x > TreeEnd(p), NEW side \in {0, 1},
                      u.nodes[Slot(x, side)] > TreeEnd(p)
               PROVE  Kin(u.nodes[Slot(x, side)], x)
    BY DEF Related
  <2>1. Slot(x, side) \notin open /\ u.nodes[Slot(x, side)] = w.nodes[Slot(x, side)]
    <3>1. x \in Nat
      BY <1>2
    <3>2. ~(0 > TreeEnd(p))
      BY <1>1
    <3> QED
      BY <1>5, <3>1, <3>2
  <2> QED
    BY <1>4, <2>1 DEF Related
<1>9. Q \in SUBSET M /\ p \in Q
  BY <1>1
<1>10. Hung(u.nodes, Q, Q, p, {}, [t.lookup EXCEPT ![h] = p])
  <2> SUFFICES ASSUME NEW x \in Q, x > TreeEnd(p), x # [t.lookup EXCEPT ![h] = p][Hash(x, 4)]
               PROVE  \E z \in Q, side \in {0, 1} :
                        /\ z > x /\ Kin(z, x)
                        /\ Slot(z, side) \notin {} /\ u.nodes[Slot(z, side)] = x
    BY DEF Hung
  <2>1. x \in T /\ x \in A
    <3>1. [t.lookup EXCEPT ![h] = p][h] = p
      OBVIOUS
    <3> QED
      BY <3>1
  <2>2. x # roots[Hash(x, 4)]
    <3>1. CASE Kin(x, p)
      BY <1>3, <2>1, <3>1 DEF Kin
    <3>2. CASE ~Kin(x, p)
      <4>1. Hash(x, 4) # h
        BY <3>2 DEF Kin
      <4>2. roots[Hash(x, 4)] = [t.lookup EXCEPT ![h] = p][Hash(x, 4)]
        BY <4>1 DEF roots
      <4> QED
        BY <4>2
    <3> QED
      BY <3>1, <3>2
  <2>3. PICK z \in T \union {p}, side \in {0, 1} :
          z > x /\ Kin(z, x) /\ Slot(z, side) \notin open /\ w.nodes[Slot(z, side)] = x
    BY <1>4, <2>1, <2>2 DEF Hung
  <2>4. z \in Nat /\ x \in Nat
    BY <1>2, <2>1
  <2>5. z \in Q
    BY <2>3, <2>4 DEF Kin
  <2>6. u.nodes[Slot(z, side)] = x
    BY <1>5, <2>3, <2>4
  <2> QED
    BY <2>3, <2>5, <2>6
<1>11. \A x \in A, y \in A : x > TreeEnd(p) /\ Stands(y, x) /\ y <= at /\ Kin(y, p) => Lost(x, A, p)
  <2> SUFFICES ASSUME NEW x \in A, NEW y \in A, x > TreeEnd(p), Stands(y, x), y <= at, Kin(y, p)
               PROVE  Lost(x, A, p)
    OBVIOUS
  <2>1. x \in Nat /\ y \in Nat /\ x <= y /\ Kin(x, p)
    BY <1>2 DEF Stands, Kin
  <2>2. x <= at
    BY <2>1
  <2> QED
    BY <1>6, <2>1, <2>2
<1>12. Standing(Q, M, p)
  <2> SUFFICES ASSUME NEW x \in M, x > TreeEnd(p)
               PROVE  Lost(x, M, p) \/ \E y \in Q : Stands(y, x)
    BY DEF Standing
  <2>1. CASE x = p
    <3>1. Stands(p, p)
      BY DEF Stands, Kin
    <3> QED
      BY <1>9, <2>1, <3>1
  <2>2. CASE x # p
    <3>1. x \in A
      BY <2>2
    <3>2. Lost(x, A, p) => Lost(x, M, p)
      BY DEF Lost
    <3>3. CASE Lost(x, A, p)
      BY <3>2, <3>3
    <3>4. CASE ~Lost(x, A, p)
      <4>1. PICK y \in T : Stands(y, x)
        BY <1>4, <3>1, <3>4 DEF Standing
      <4>2. ~(Kin(y, p) /\ y <= at)
        BY <1>11, <3>1, <3>4, <4>1
      <4> QED
        BY <4>1, <4>2
    <3> QED
      BY <3>3, <3>4
  <2> QED
    BY <2>1, <2>2
<1>13. ASSUME NEW x \in A, x > TreeEnd(p), Kin(x, p), ~Lost(x, A, p)
       PROVE  Matched(x, u.matches, p, e)
  <2>1. PICK y \in T : Stands(y, x)
    BY <1>4, <1>13 DEF Standing
  <2>2. y \in A /\ y > TreeEnd(p) /\ Kin(y, p) /\ ~(y <= at)
    <3>1. y >= x /\ Kin(y, x)
      BY <2>1 DEF Stands
    <3>2. Kin(y, p)
      BY <1>13, <3>1 DEF Kin
    <3> QED
      BY <1>1, <1>2, <1>11, <1>13, <2>1, <3>1, <3>2
  <2>3. Matched(y, w.matches, p, e)
    BY <1>4, <1>7, <2>2
  <2> QED
    BY <1>2, <1>13, <2>1, <2>2, <2>3, StandsMatched
<1> QED
  BY <1>8, <1>9, <1>10, <1>12, <1>13 DEF Combed

(* A position that p replaces: its children are below p, and it stands for *)
(* no other than p does.                                                   *)
LEMMA ReplaceCombs ==
  ASSUME NEW p \in Nat \ {0}, NEW t, Ground(t, p),
         NEW w, Moving(w), NEW e \in Int,
         NEW T \in SUBSET t.inserted, NEW V \in SUBSET T, NEW B \in SUBSET t.inserted,
         Combing(w, t, p, e, T, V, B), w.at > TreeEnd(p), Agree(w.at, p, Told(p)),
         NEW u, ReplacedFrom(u, w, p, e)
  PROVE  Combed(u, t, p, e)
<1>0. /\ src \in Seq(Nat) /\ Len(src) > 0 /\ Hash(p, 4) \in 0 .. (Buckets - 1)
      /\ t.inserted \in SUBSET {x \in Nat : x < p} /\ t.lookup \in [0 .. (Buckets - 1) -> Nat]
      /\ w.at \in Nat /\ w.nodes \in NodeLists /\ w.depth \in Int
      /\ u.nodes = [w.nodes EXCEPT ![w.lesser] = w.nodes[Slot(w.at, 0)],
                                   ![w.greater] = w.nodes[Slot(w.at, 1)]]
      /\ \A n \in Wanted(p, e) : n <= Told(p) => Has(u.matches, n)
  BY DEF Ground, Moving, ReplacedFrom
<1> USE <1>0
<1> DEFINE A == t.inserted
           M == A \union {p}
           h == Hash(p, 4)
           at == w.at
           open == {w.lesser, w.greater}
           roots == [t.lookup EXCEPT ![h] = at]
           Q == (T \union {p}) \ {at}
           P(side) == w.nodes[Slot(at, side)]
<1>1. p \in 0 .. p /\ p > TreeEnd(p) /\ TreeEnd(p) \in Nat /\ at < p
  <2>1. p \in 0 .. p /\ p \in Nat /\ 0 \in {0, 1}
    OBVIOUS
  <2>2. at < p
    BY <2>1, GapOwner, Zenon
  <2> QED
    BY <2>1, <2>2, EndsGrow
<1>2. \A x \in A : x \in 0 .. p /\ x < p /\ x \in Nat
  OBVIOUS
<1>3. roots[h] = at /\ \A b \in 0 .. (Buckets - 1) : b # h => roots[b] = t.lookup[b]
  OBVIOUS
<1>4. /\ w.lesser # w.greater
      /\ Related(w.nodes, M, p, open)
      /\ Hung(w.nodes, T, T \union {p}, p, open, roots)
      /\ Standing(T, A, p)
      /\ at \in A /\ Kin(at, p)
  BY DEF Combing
<1> HIDE DEF roots, Q, open
<1>5. \A side \in {0, 1} : \E y \in V \union {p}, s \in {0, 1} : Owns(y, s, w, p, side)
  <2>1. \A side \in {0, 1} : Owned(V, w, p, side)
    BY SMTT(60), GapOwner
  <2> QED
    BY <2>1 DEF Owned
<1>6. /\ \A side \in {0, 1} : Gap(w, side) \in 0 .. (2 * TreeSize - 1) /\ Gap(w, side) \in open
                              /\ u.nodes[Gap(w, side)] = P(side)
      /\ open = {Gap(w, 0), Gap(w, 1)}
      /\ \A z \in Nat, side \in {0, 1} :
           Slot(z, side) \notin open => u.nodes[Slot(z, side)] = w.nodes[Slot(z, side)]
  <2>1. \A side \in {0, 1} : Gap(w, side) \in 0 .. (2 * TreeSize - 1)
    BY GapOwner, Zenon
  <2>2. Gap(w, 0) = w.lesser /\ Gap(w, 1) = w.greater /\ 0 \in {0, 1} /\ 1 \in {0, 1}
    BY DEF Gap
  <2>3. w.lesser \in 0 .. (2 * TreeSize - 1) /\ w.greater \in 0 .. (2 * TreeSize - 1)
    BY <2>1, <2>2
  <2>4. u.nodes[w.lesser] = P(0) /\ u.nodes[w.greater] = P(1)
    BY <1>4, <2>3 DEF NodeLists
  <2>5. \A side \in {0, 1} : side = 0 \/ side = 1
    OBVIOUS
  <2>6. \A z \in Nat, side \in {0, 1} :
          Slot(z, side) \notin open => u.nodes[Slot(z, side)] = w.nodes[Slot(z, side)]
    <3> TAKE z \in Nat, side \in {0, 1}
    <3>1. Slot(z, side) \in 0 .. (2 * TreeSize - 1)
      BY SlotIn
    <3> QED
      BY <3>1 DEF NodeLists, open
  <2>7. \A side \in {0, 1} : u.nodes[Gap(w, side)] = P(side)
    BY <2>2, <2>4, <2>5
  <2>8. open = {Gap(w, 0), Gap(w, 1)}
    BY <2>2 DEF open
  <2>9. \A side \in {0, 1} : Gap(w, side) \in open
    BY <2>5, <2>8
  <2> HIDE DEF P
  <2> QED
    BY <2>1, <2>6, <2>7, <2>8, <2>9
<1>7. \A side \in {0, 1} : Slot(at, side) \notin open
  <2> SUFFICES ASSUME NEW side \in {0, 1}, NEW s \in {0, 1}, Slot(at, side) = Gap(w, s)
               PROVE  FALSE
    BY <1>6
  <2>1. at \in 0 .. p
    BY <1>1
  <2> QED
    BY <1>5, <2>1 DEF Owns
<1>8. Related(u.nodes, M, p, {})
  <2> SUFFICES ASSUME NEW x \in M, x > TreeEnd(p), NEW side \in {0, 1},
                      u.nodes[Slot(x, side)] > TreeEnd(p)
               PROVE  Kin(u.nodes[Slot(x, side)], x)
    BY DEF Related
  <2>1. x \in 0 .. p /\ x \in Nat
    BY <1>1, <1>2
  <2>2. CASE Slot(x, side) \notin open
    <3>1. u.nodes[Slot(x, side)] = w.nodes[Slot(x, side)]
      BY <1>6, <2>1, <2>2
    <3> QED
      BY <1>4, <2>2, <3>1 DEF Related
  <2>3. CASE Slot(x, side) \in open
    <3>1. PICK s \in {0, 1} : Slot(x, side) = Gap(w, s)
      BY <1>6, <2>3
    <3>2. Kin(x, p)
      BY <1>5, <2>1, <3>1 DEF Owns
    <3>3. u.nodes[Slot(x, side)] = P(s)
      BY <1>6, <3>1
    <3>4. Kin(P(s), at)
      BY <1>4, <1>7, <3>3 DEF Related
    <3> HIDE DEF P
    <3> QED
      BY <1>4, <3>2, <3>3, <3>4 DEF Kin
  <2> QED
    BY <2>2, <2>3
<1>9. Q \in SUBSET M /\ p \in Q
  BY <1>1 DEF Q
<1>10. Hung(u.nodes, Q, Q, p, {}, [t.lookup EXCEPT ![h] = p])
  <2> SUFFICES ASSUME NEW x \in Q, x > TreeEnd(p), x # [t.lookup EXCEPT ![h] = p][Hash(x, 4)]
               PROVE  \E z \in Q, side \in {0, 1} :
                        /\ z > x /\ Kin(z, x)
                        /\ Slot(z, side) \notin {} /\ u.nodes[Slot(z, side)] = x
    BY DEF Hung
  <2>1. x \in T /\ x \in A /\ x # at
    <3>1. [t.lookup EXCEPT ![h] = p][h] = p
      OBVIOUS
    <3> QED
      BY <3>1 DEF Q
  <2>2. x # roots[Hash(x, 4)]
    <3>1. CASE Kin(x, p)
      BY <1>3, <2>1, <3>1 DEF Kin
    <3>2. CASE ~Kin(x, p)
      <4>1. Hash(x, 4) # h
        BY <3>2 DEF Kin
      <4>2. roots[Hash(x, 4)] = [t.lookup EXCEPT ![h] = p][Hash(x, 4)]
        BY <4>1 DEF roots
      <4> QED
        BY <4>2
    <3> QED
      BY <3>1, <3>2
  <2>3. PICK z \in T \union {p}, side \in {0, 1} :
          z > x /\ Kin(z, x) /\ Slot(z, side) \notin open /\ w.nodes[Slot(z, side)] = x
    BY <1>4, <2>1, <2>2 DEF Hung
  <2>4. z \in Nat /\ x \in Nat
    BY <1>2, <2>1
  <2>5. CASE z # at
    <3>1. z \in Q
      BY <2>5 DEF Q
    <3>2. u.nodes[Slot(z, side)] = x
      BY <1>6, <2>3, <2>4
    <3> QED
      BY <2>3, <3>1, <3>2
  <2>6. CASE z = at
    <3>1. PICK y \in V \union {p}, s \in {0, 1} : y > at /\ y \in 0 .. p /\ Kin(y, p) /\ Gap(w, side) = Slot(y, s)
      BY <1>5 DEF Owns
    <3>2. y \in Q
      BY <3>1 DEF Q
    <3>3. y > x /\ Kin(y, x)
      BY <1>4, <2>3, <2>4, <2>6, <3>1 DEF Kin
    <3>4. u.nodes[Slot(y, s)] = x
      BY <1>6, <2>3, <2>6, <3>1
    <3> QED
      BY <3>2, <3>3, <3>4
  <2> QED
    BY <2>5, <2>6
<1>11. ASSUME NEW x \in A, Stands(at, x)
       PROVE  Stands(p, x)
  <2>1. x \in 0 .. p /\ at \in 0 .. p /\ Kin(p, x) /\ p >= x
    BY <1>1, <1>2, <1>4, <1>11 DEF Stands, Kin
  <2>2. Told(p) \in Int /\ Told(at) \in Int /\ Told(p) <= Told(at)
    BY <2>1, ToldInner
  <2>3. \A i \in 0 .. (Told(p) - 1) : i \in 0 .. (Told(at) - 1)
    BY <2>2
  <2>4. Agree(p, x, Told(p))
    <3>1. CASE at = x
      BY <3>1 DEF Agree
    <3>2. CASE Agree(at, x, Told(at))
      BY <2>3, <3>2 DEF Agree
    <3> QED
      BY <1>11, <3>1, <3>2 DEF Stands
  <2> QED
    BY <2>1, <2>4 DEF Stands
<1>12. Standing(Q, M, p)
  <2> SUFFICES ASSUME NEW x \in M, x > TreeEnd(p)
               PROVE  Lost(x, M, p) \/ \E y \in Q : Stands(y, x)
    BY DEF Standing
  <2>1. CASE x = p
    <3>1. Stands(p, p)
      BY DEF Stands, Kin
    <3> QED
      BY <1>9, <2>1, <3>1
  <2>2. CASE x # p
    <3>1. x \in A
      BY <2>2
    <3>2. Lost(x, A, p) => Lost(x, M, p)
      BY DEF Lost
    <3>3. CASE Lost(x, A, p)
      BY <3>2, <3>3
    <3>4. CASE ~Lost(x, A, p)
      <4>1. PICK y \in T : Stands(y, x)
        BY <1>4, <3>1, <3>4 DEF Standing
      <4>2. CASE y = at
        BY <1>9, <1>11, <3>1, <4>1, <4>2
      <4>3. CASE y # at
        BY <4>1, <4>3 DEF Q
      <4> QED
        BY <4>2, <4>3
    <3> QED
      BY <3>3, <3>4
  <2> QED
    BY <2>1, <2>2
<1>13. \A x \in A : Matched(x, u.matches, p, e)
  BY DEF Matched
<1> QED
  BY <1>8, <1>9, <1>10, <1>12, <1>13 DEF Combed

(* A position that is passed: the search goes on below it, on p's side.    *)
LEMMA DescendKeeps ==
  ASSUME src \in Seq(Nat), Len(src) > 0, NEW p \in Nat \ {0}, NEW t,
         t.inserted \in SUBSET {x \in Nat : x < p}, t.lookup \in [0 .. (Buckets - 1) -> Nat],
         Hash(p, 4) \in 0 .. (Buckets - 1),
         NEW w, w.at \in Nat, w.nodes \in NodeLists, w.depth \in Int, NEW e \in Int,
         NEW T \in SUBSET t.inserted, NEW V \in SUBSET T, NEW B \in SUBSET t.inserted,
         Combing(w, t, p, e, T, V, B), w.at > TreeEnd(p),
         NEW S, Ordered(w.nodes, S, t.inserted \union {p}, p, {w.lesser, w.greater}),
         NEW side \in {0, 1}, OnSide(side, w.at, p, Told(p)),
         NEW f \in Nat, f >= p, Byte(w.at + (f - p)) # Byte(p + (f - p)),
         NEW u, u.nodes = [w.nodes EXCEPT ![Gap(w, side)] = w.at],
         u.at = w.nodes[Slot(w.at, 1 - side)], u.depth = w.depth - 1,
         Gap(u, side) = Slot(w.at, 1 - side), Gap(u, 1 - side) = Gap(w, 1 - side),
         \A n : Has(w.matches, n) => Has(u.matches, n),
         \A n \in Wanted(p, e) : n <= f - p => Has(u.matches, n),
         Met(u.matches, u.expected, p, e)
  PROVE  \E T1 \in SUBSET t.inserted : \E V1 \in SUBSET T1 : \E B1 \in SUBSET t.inserted :
           Combing(u, t, p, e, T1, V1, B1)
<1> DEFINE A == t.inserted
           M == A \union {p}
           h == Hash(p, 4)
           at == w.at
           far == 1 - side
           open == {w.lesser, w.greater}
           roots == [t.lookup EXCEPT ![h] = at]
           open1 == {u.lesser, u.greater}
           roots1 == [t.lookup EXCEPT ![h] = u.at]
           c == w.nodes[Slot(at, side)]
           T1 == T \union {at}
           V1 == V \union {at}
           B1 == {x \in B : x # at /\ ~(c > TreeEnd(p) /\ S[x] \subseteq S[c])}
<1>1. p \in 0 .. p /\ p > TreeEnd(p) /\ TreeEnd(p) \in Nat /\ at < p /\ far \in {0, 1} /\ far # side
  <2>1. p \in 0 .. p /\ p \in Nat /\ 0 \in {0, 1}
    OBVIOUS
  <2>2. at < p
    BY <2>1, GapOwner, Zenon
  <2> QED
    BY <2>1, <2>2, EndsGrow
<1>2. \A x \in A : x \in 0 .. p /\ x < p /\ x \in Nat
  OBVIOUS
<1>3. /\ roots[h] = at /\ \A b \in 0 .. (Buckets - 1) : b # h => roots[b] = t.lookup[b]
      /\ roots1[h] = u.at /\ \A b \in 0 .. (Buckets - 1) : b # h => roots1[b] = t.lookup[b]
  OBVIOUS
<1>4. /\ w.lesser # w.greater
      /\ Related(w.nodes, M, p, open)
      /\ Hung(w.nodes, T, T \union {p}, p, open, roots)
      /\ Standing(T, A, p)
      /\ at \in A /\ Kin(at, p)
      /\ IsFiniteSet(V) /\ Cardinality(V) = DepthLimit - w.depth
      /\ \A v \in V : v > at /\ v > TreeEnd(p) /\ Kin(v, p)
      /\ Hung(w.nodes, B, B, p, open, roots)
      /\ \A x \in B : x > TreeEnd(p) /\ Kin(x, p)
      /\ \A x \in T : x > TreeEnd(p) /\ Kin(x, p) /\ x \notin B => Matched(x, w.matches, p, e)
  BY DEF Combing
<1>5. /\ \A s \in {0, 1} : s = side \/ s = far
      /\ open = {Gap(w, side), Gap(w, far)} /\ open1 = {Slot(at, far), Gap(w, far)}
      /\ Gap(w, side) # Gap(w, far)
  BY <1>4 DEF Gap
<1>6. u.at \in Nat /\ c \in Nat
  <2>1. \A s \in {0, 1} : Slot(at, s) \in 0 .. (2 * TreeSize - 1)
    BY SlotIn
  <2> QED
    BY <1>1, <2>1 DEF NodeLists
<1> HIDE DEF roots, roots1, open, open1, far, c
<1>7. \A s \in {0, 1} : Owned(V, w, p, s)
  <2>1. Owned(V, w, p, 0) /\ Owned(V, w, p, 1)
    BY GapOwners, Zenon
  <2> QED
    BY <2>1
<1>8. Gap(w, side) \in 0 .. (2 * TreeSize - 1)
  BY GapOwner, Zenon
<1>9. \A z \in Nat, s \in {0, 1} :
        u.nodes[Slot(z, s)] = IF Slot(z, s) = Gap(w, side) THEN at ELSE w.nodes[Slot(z, s)]
  <2> TAKE z \in Nat, s \in {0, 1}
  <2>1. Slot(z, s) \in 0 .. (2 * TreeSize - 1)
    BY SlotIn
  <2> QED
    BY <2>1 DEF NodeLists
<1>10. \A s, a \in {0, 1} : Slot(at, s) # Gap(w, a) /\ Slot(at, s) \notin open
  <2>1. at \in 0 .. p
    BY <1>1
  <2>2. \A s, a \in {0, 1} : Slot(at, s) # Gap(w, a)
    BY <1>7, <2>1 DEF Owned, Owns
  <2> QED
    BY <1>1, <1>5, <2>2
<1>11. \A z \in M : z > TreeEnd(p) /\ z # at => \A s \in {0, 1} : Slot(z, s) # Slot(at, far)
  <2> SUFFICES ASSUME NEW z \in M, z > TreeEnd(p), NEW s \in {0, 1}, Slot(z, s) = Slot(at, far)
               PROVE  z = at
    OBVIOUS
  <2>1. z \in 0 .. p /\ at \in 0 .. p
    <3>1. z = p \/ z \in A
      OBVIOUS
    <3>2. at \in 0 .. p
      BY <1>1
    <3> QED
      BY <1>1, <1>2, <3>1, <3>2
  <2>2. z \in Nat /\ at \in Nat /\ z <= p /\ at <= p
    BY <2>1
  <2> QED
    BY SMTT(60), <1>1, <2>2, OwnSlots
<1>12. u.at > TreeEnd(p) => u.at \in A /\ u.at < at /\ Kin(u.at, p)
  <2> SUFFICES ASSUME u.at > TreeEnd(p)
               PROVE  u.at \in A /\ u.at < at /\ Kin(u.at, p)
    OBVIOUS
  <2>1. u.at = w.nodes[Slot(at, far)]
    BY DEF far
  <2>2. u.at \in M /\ u.at < at
    BY <1>1, <1>4, <1>10, <2>1 DEF Ordered, Placed, open
  <2>3. Kin(u.at, at)
    BY <1>1, <1>4, <1>10, <2>1 DEF Related
  <2> QED
    BY <1>1, <1>4, <2>2, <2>3 DEF Kin
<1>13. Related(u.nodes, M, p, open1)
  <2> SUFFICES ASSUME NEW x \in M, x > TreeEnd(p), NEW s \in {0, 1}, Slot(x, s) \notin open1,
                      u.nodes[Slot(x, s)] > TreeEnd(p)
               PROVE  Kin(u.nodes[Slot(x, s)], x)
    BY DEF Related
  <2>1. x \in 0 .. p /\ x \in Nat
    BY <1>1, <1>2
  <2>2. CASE Slot(x, s) = Gap(w, side)
    <3>1. Kin(x, p)
      BY <1>7, <2>1, <2>2 DEF Owned, Owns
    <3>2. u.nodes[Slot(x, s)] = at
      BY <1>9, <2>1, <2>2
    <3> QED
      BY <1>4, <3>1, <3>2 DEF Kin
  <2>3. CASE Slot(x, s) # Gap(w, side)
    <3>1. Slot(x, s) \notin open
      BY <1>5, <2>3
    <3>2. u.nodes[Slot(x, s)] = w.nodes[Slot(x, s)]
      BY <1>9, <2>1, <2>3
    <3> QED
      BY <1>4, <3>1, <3>2 DEF Related
  <2> QED
    BY <2>2, <2>3
<1>14. ASSUME NEW x \in A, x > TreeEnd(p), NEW z \in M, NEW s \in {0, 1},
              z > x, Slot(z, s) \notin open, w.nodes[Slot(z, s)] = x, x # u.at
       PROVE  Slot(z, s) \notin open1 /\ u.nodes[Slot(z, s)] = x
  <2>1. z \in Nat
    BY <1>1, <1>2
  <2>2. Slot(z, s) # Slot(at, far)
    BY <1>14 DEF far
  <2> QED
    BY <1>5, <1>9, <1>14, <2>1, <2>2
<1>15. \A x \in A : x = roots[Hash(x, 4)] => x = at \/ x = roots1[Hash(x, 4)]
  <2> SUFFICES ASSUME NEW x \in A, x = roots[Hash(x, 4)], x # at
               PROVE  x = roots1[Hash(x, 4)]
    OBVIOUS
  <2>1. Hash(x, 4) # h
    BY <1>3
  <2> QED
    BY <2>1 DEF roots, roots1
<1>16. \A x \in A : x = u.at /\ x > TreeEnd(p) => x = roots1[Hash(x, 4)]
  BY <1>3, <1>12 DEF Kin
<1>17. T1 \in SUBSET A /\ V1 \in SUBSET T1 /\ B1 \in SUBSET A /\ p \notin A
  BY <1>1, <1>2, <1>4
<1>18. Hung(u.nodes, T1, T1 \union {p}, p, open1, roots1)
  <2> SUFFICES ASSUME NEW x \in T1, x > TreeEnd(p), x # roots1[Hash(x, 4)]
               PROVE  \E z \in T1 \union {p}, s \in {0, 1} :
                        /\ z > x /\ Kin(z, x)
                        /\ Slot(z, s) \notin open1 /\ u.nodes[Slot(z, s)] = x
    BY DEF Hung
  <2>1. x \in A /\ x # u.at
    BY <1>16, <1>17
  <2>2. CASE x = at
    <3>1. PICK y \in V \union {p}, s \in {0, 1} : Owns(y, s, w, p, side)
      BY <1>7 DEF Owned
    <3>2. y \in T1 \union {p} /\ y > at /\ Kin(y, x) /\ y \in Nat
      BY <1>4, <2>2, <3>1 DEF Owns, Kin
    <3>3. Slot(y, s) = Gap(w, side) /\ Slot(y, s) \notin open1
      BY <1>1, <1>5, <1>10, <3>1 DEF Owns
    <3>4. u.nodes[Slot(y, s)] = at
      BY <1>9, <3>2, <3>3
    <3> QED
      BY <2>2, <3>2, <3>3, <3>4
  <2>3. CASE x # at
    <3>1. x \in T /\ x # roots[Hash(x, 4)]
      BY <1>15, <2>1, <2>3
    <3>2. PICK z \in T \union {p}, s \in {0, 1} :
            z > x /\ Kin(z, x) /\ Slot(z, s) \notin open /\ w.nodes[Slot(z, s)] = x
      <4>1. Hung(w.nodes, T, T \union {p}, p, open, roots)
        BY <1>4
      <4> HIDE DEF T1
      <4> QED
        BY <3>1, <4>1 DEF Hung
    <3>3. Slot(z, s) \notin open1 /\ u.nodes[Slot(z, s)] = x
      BY <1>14, <2>1, <3>2
    <3> QED
      BY <3>2, <3>3
  <2> QED
    BY <2>2, <2>3
<1>19. Standing(T1, A, p)
  BY <1>4 DEF Standing
<1>20. IsFiniteSet(V1) /\ Cardinality(V1) = DepthLimit - u.depth
  <2>1. at \notin V
    BY <1>1, <1>4
  <2>2. IsFiniteSet(V1) /\ Cardinality(V1) = Cardinality(V) + 1
    BY <1>4, <2>1, FS_AddElement
  <2> QED
    BY <1>4, <2>2, MatchTreeAssumption
<1>21. \A v \in V1 : v > u.at /\ v > TreeEnd(p) /\ Kin(v, p)
  <2>1. u.at < at /\ at \in Nat
    <3>1. PICK d \in Nat : d = TreeEnd(p)
      BY <1>1
    <3>2. PICK a \in Nat : a = u.at
      BY <1>6
    <3> QED
      BY <1>12, <3>1, <3>2
  <2>2. \A v \in V : v \in Nat
    BY <1>2
  <2>3. ASSUME NEW v \in V
        PROVE  v > u.at
    <3>1. v \in Nat /\ v > at
      BY <1>4, <2>2
    <3>2. PICK a \in Nat : a = u.at
      BY <1>6
    <3>3. PICK b \in Nat : b = at
      BY <2>1
    <3>4. a < b /\ b < v
      BY <2>1, <3>1, <3>2, <3>3, Zenon
    <3>5. v > a
      BY <3>1, <3>4
    <3> QED
      BY <3>2, <3>5
  <2> QED
    BY <1>4, <2>1, <2>3
<1>22. \A s \in {0, 1} : \E x \in V1 \union {p}, a \in {0, 1} : Gap(u, s) = Slot(x, a)
  <2> TAKE s \in {0, 1}
  <2>1. CASE s = side
    <3>1. Gap(u, s) = Slot(at, far)
      BY <2>1 DEF far
    <3> QED
      BY <1>1, <3>1
  <2>2. CASE s = far
    <3>1. Gap(u, s) = Gap(w, far)
      BY <2>2 DEF far
    <3> QED
      BY <1>1, <1>7, <3>1 DEF Owned, Owns
  <2> QED
    BY <1>5, <2>1, <2>2
<1>23. Hung(u.nodes, B1, B1, p, open1, roots1)
  <2> SUFFICES ASSUME NEW x \in B1, x > TreeEnd(p), x # roots1[Hash(x, 4)]
               PROVE  \E z \in B1, s \in {0, 1} :
                        /\ z > x /\ Kin(z, x)
                        /\ Slot(z, s) \notin open1 /\ u.nodes[Slot(z, s)] = x
    BY DEF Hung
  <2>1. x \in A /\ x # u.at /\ x \in B /\ x # at /\ ~(c > TreeEnd(p) /\ S[x] \subseteq S[c])
    BY <1>16, <1>17
  <2>2. x # roots[Hash(x, 4)]
    BY <1>15, <2>1
  <2>3. PICK z \in B, s \in {0, 1} :
          z > x /\ Kin(z, x) /\ Slot(z, s) \notin open /\ w.nodes[Slot(z, s)] = x
    BY <1>4, <2>1, <2>2 DEF Hung
  <2>4. Slot(z, s) \notin open1 /\ u.nodes[Slot(z, s)] = x
    BY <1>14, <2>1, <2>3
  <2>5. z # at
    <3> SUFFICES ASSUME z = at
                 PROVE  FALSE
      OBVIOUS
    <3>1. s = side
      BY <1>5, <2>1, <2>3 DEF far
    <3>2. c = x
      BY <2>3, <3>1 DEF c
    <3> QED
      BY <2>1, <3>2
  <2>6. S[x] \subseteq S[z]
    <3>1. z \in M /\ z > TreeEnd(p)
      BY <1>4
    <3>2. Placed(w.nodes[Slot(z, s)], z, s, S, M, p)
      BY <2>3, <3>1 DEF Ordered, open
    <3> QED
      BY <2>3, <3>2 DEF Placed
  <2>7. z \in B1
    BY <2>1, <2>5, <2>6
  <2> QED
    BY <2>3, <2>4, <2>7
<1>24. \A x \in B1 : x > TreeEnd(p) /\ Kin(x, p)
  BY <1>4
<1>25. ASSUME NEW x \in T1, x > TreeEnd(p), Kin(x, p), x \notin B1
       PROVE  Matched(x, u.matches, p, e)
  <2>1. x \in A /\ x \in 0 .. p /\ at \in 0 .. p
    BY <1>1, <1>2, <1>17
  <2>2. ASSUME x = at \/ x \in Side(at, side)
        PROVE  Matched(x, u.matches, p, e)
    <3> SUFFICES ASSUME NEW n \in Wanted(p, e), n <= Told(p), Agree(x, p, n)
                 PROVE  n <= f - p
      BY DEF Matched
    <3>1. n \in Nat
      BY DEF Wanted
    <3>2. CASE x = at
      <4>1. ASSUME n > f - p
            PROVE  FALSE
        <5>1. f - p \in 0 .. (n - 1)
          BY <3>1, <4>1
        <5> QED
          BY <3>2, <5>1 DEF Agree
      <4> QED
        BY <3>1, <4>1
    <3>3. CASE x \in Side(at, side)
      <4>1. p \in Nat
        OBVIOUS
      <4> QED
        BY <2>1, <3>1, <3>3, <4>1, Prunes
    <3> QED
      BY <2>2, <3>2, <3>3
  <2>3. CASE x # at /\ x \notin B
    <3>1. Matched(x, w.matches, p, e)
      BY <1>4, <1>25, <2>3
    <3> QED
      BY <3>1 DEF Matched
  <2>4. CASE x # at /\ x \in B
    <3>1. c > TreeEnd(p) /\ S[x] \subseteq S[c]
      BY <1>25, <2>4
    <3>2. Placed(c, at, side, S, M, p)
      BY <1>4, <1>10 DEF Ordered, open, c
    <3>3. x \in S[x]
      BY <1>25, <2>1 DEF Ordered
    <3>4. x \in Side(at, side)
      BY <3>1, <3>2, <3>3 DEF Placed
    <3> QED
      BY <2>2, <3>4
  <2> QED
    BY <2>2, <2>3, <2>4
<1>26. u.lesser # u.greater
  <2>1. Gap(u, side) # Gap(u, far)
    BY <1>10, <1>1 DEF far
  <2> QED
    BY <1>1, <2>1 DEF Gap
<1> HIDE DEF B1, T1, V1
<1>27. Combing(u, t, p, e, T1, V1, B1)
  BY <1>12, <1>13, <1>18, <1>19, <1>20, <1>21, <1>22, <1>23, <1>24, <1>25, <1>26
     DEF Combing, open1, roots1
<1> QED
  BY <1>17, <1>27

LEMMA DescendCombs ==
  ASSUME NEW p \in Nat \ {0}, NEW t, Ground(t, p),
         NEW w, Moving(w), NEW e \in Int,
         NEW T \in SUBSET t.inserted, NEW V \in SUBSET T, NEW B \in SUBSET t.inserted,
         Combing(w, t, p, e, T, V, B), w.at > TreeEnd(p),
         NEW S, Ordered(w.nodes, S, t.inserted \union {p}, p, {w.lesser, w.greater}),
         NEW side \in {0, 1}, OnSide(side, w.at, p, Told(p)),
         NEW f \in Nat, f >= p, Byte(w.at + (f - p)) # Byte(p + (f - p)),
         NEW u, DescendedFrom(u, w, side), Reporting(u, w, p, e, f)
  PROVE  \E T1 \in SUBSET t.inserted : \E V1 \in SUBSET T1 : \E B1 \in SUBSET t.inserted :
           Combing(u, t, p, e, T1, V1, B1)
<1>1. src \in Seq(Nat)
  BY DEF Ground
<1>2. Len(src) > 0
  BY DEF Ground
<1>3. t.inserted \in SUBSET {x \in Nat : x < p}
  BY DEF Ground
<1>4. t.lookup \in [0 .. (Buckets - 1) -> Nat]
  BY DEF Ground
<1>5. Hash(p, 4) \in 0 .. (Buckets - 1)
  BY DEF Ground
<1>6. w.at \in Nat
  BY DEF Moving
<1>7. w.nodes \in NodeLists
  BY DEF Moving
<1>8. w.depth \in Int
  BY DEF Moving
<1>9. u.nodes = [w.nodes EXCEPT ![Gap(w, side)] = w.at]
  BY DEF DescendedFrom
<1>10. u.at = w.nodes[Slot(w.at, 1 - side)]
  BY DEF DescendedFrom
<1>11. u.depth = w.depth - 1
  BY DEF DescendedFrom
<1>12. Gap(u, side) = Slot(w.at, 1 - side)
  BY DEF DescendedFrom
<1>13. Gap(u, 1 - side) = Gap(w, 1 - side)
  BY DEF DescendedFrom
<1>14. \A n : Has(w.matches, n) => Has(u.matches, n)
  BY DEF Reporting
<1>15. \A n \in Wanted(p, e) : n <= f - p => Has(u.matches, n)
  BY DEF Reporting
<1>16. Met(u.matches, u.expected, p, e)
  BY DEF Reporting
<1> QED
  BY <1>1, <1>2, <1>3, <1>4, <1>5, <1>6, <1>7, <1>8, <1>9, <1>10, <1>11, <1>12, <1>13, <1>14, <1>15, <1>16, DescendKeeps, ZenonT(60)

-----------------------------------------------------------------------------
(* Matches that are cut, moved or extended.                                *)

(* What agrees from one side agrees from the other.                        *)
LEMMA AgreeSides ==
  ASSUME NEW x, NEW y, NEW n, Agree(x, y, n)
  PROVE  Agree(y, x, n)
BY DEF Agree

(* A match that is cut.                                                    *)
LEMMA RealPrefix ==
  ASSUME NEW p, NEW n \in Int, NEW k \in Int, k <= n, NEW d, Real(p, n, d)
  PROVE  Real(p, k, d)
<1>1. \A i \in 0 .. (k - 1) : i \in 0 .. (n - 1)
  OBVIOUS
<1>2. Agree(p, p - d, k)
  BY <1>1, Zenon DEF Real, Agree
<1> QED
  BY <1>2 DEF Real

(* The tail of a match.                                                    *)
LEMMA RealTail ==
  ASSUME NEW p \in Nat, NEW n \in Int, NEW k \in Nat, NEW d \in Nat, Real(p, n, d)
  PROVE  Real(p + k, n - k, d)
<1>1. d \in 1 .. p /\ d <= Farthest /\ Agree(p, p - d, n)
  BY DEF Real
<1>2. ASSUME NEW i \in 0 .. (n - k - 1)
      PROVE  Byte(p + k + i) = Byte(p + k - d + i)
  <2>1. PICK j \in 0 .. (n - 1) : j = k + i
    OBVIOUS
  <2>2. Byte(p + j) = Byte(p - d + j)
    BY <1>1 DEF Agree
  <2>3. p + k + i = p + j /\ p + k - d + i = p - d + j
    BY <1>1, <2>1
  <2> QED
    BY <2>2, <2>3
<1>3. Agree(p + k, p + k - d, n - k)
  BY <1>2 DEF Agree
<1> QED
  BY <1>1, <1>3 DEF Real

(* What two positions have in common is a match.                           *)
LEMMA RealCommon ==
  ASSUME NEW p \in Nat, NEW q \in Nat, q < p, p - q <= Farthest, NEW e \in Int,
         NEW n \in Int, n <= CommonLength(p, q, e)
  PROVE  Real(p, n, p - q)
<1>1. p \in Int /\ q \in Int /\ p - (p - q) = q /\ p - q \in 1 .. p
  OBVIOUS
<1>2. PICK k : k = CommonLength(p, q, e)
  OBVIOUS
<1>3. Common(p, q, e, k)
  BY <1>1, <1>2, CommonAgrees, Zenon
<1>4. k \in Int /\ Agree(p, q, k)
  BY <1>3 DEF Common, Agree, AtLeast
<1>5. Real(p, k, p - q)
  BY <1>1, <1>4 DEF Real
<1> QED
  BY <1>2, <1>4, <1>5, RealPrefix

(* What a position has in common with the one some distance before it.     *)
LEMMA RealDistance ==
  ASSUME NEW p \in Nat, NEW d \in Nat, ~(d <= 0 \/ d > Farthest \/ d > p), NEW e \in Int,
         NEW n \in Int, n <= CommonLength(p, p - d, e)
  PROVE  Real(p, n, d)
<1>1. Farthest \in Nat
  BY SourceBytesAssumption
<1>2. PICK q \in Nat : q = p - d
  BY <1>1
<1>3. q < p /\ p - q = d /\ p - q <= Farthest /\ n <= CommonLength(p, q, e)
  BY <1>1, <1>2
<1>4. Real(p, n, p - q)
  BY <1>3, RealCommon
<1> QED
  BY <1>3, <1>4

(* Such a match is a true one.                                             *)
LEMMA RealTrue ==
  ASSUME NEW p \in Int, NEW m, m.length \in Int, m.distance \in Nat,
         Real(p, m.length, m.distance), NEW e, p + m.length <= e
  PROVE  TrueMatch(p, m, e)
<1>1. m.distance \in 1 .. p /\ m.distance <= Farthest /\ Agree(p, p - m.distance, m.length)
  BY DEF Real
<1>2. ASSUME NEW i \in 0 .. (m.length - 1)
      PROVE  Byte(p + i) = Byte(p + i - m.distance)
  <2>1. Byte(p + i) = Byte(p - m.distance + i)
    BY <1>1 DEF Agree
  <2>2. p - m.distance + i = p + i - m.distance
    OBVIOUS
  <2> QED
    BY <2>1, <2>2
<1> QED
  BY <1>1, <1>2 DEF TrueMatch

-----------------------------------------------------------------------------
(* What a finder finds.                                                    *)

(* What a search for p has found: matches from p on.                       *)
Finding(p, e) == [expected : {x \in Nat : x >= 3}, matches : Seq(Fits(p, e))]

(* The visit of a position of the three-byte table.                        *)
LEMMA ChainFinds ==
  ASSUME NEW p \in Nat, NEW e \in Int, NEW w \in Finding(p, e), NEW prev \in Nat
  PROVE  VisitChain(w, p, prev, e) \in Finding(p, e)
<1> DEFINE length == CommonLength(p, prev, e)
           m == [length |-> length, distance |-> p - prev]
           r == [w EXCEPT !.matches = Append(@, m), !.expected = length]
<1>1. length \in 0 .. AtLeast(e - p, 0)
  <2>1. p \in Int /\ prev \in Int
    OBVIOUS
  <2> QED
    BY <2>1, CommonFits, Zenon
<1>2. VisitChain(w, p, prev, e) = w \/ VisitChain(w, p, prev, e) = r
  BY DEF VisitChain, Report
<1>3. CASE VisitChain(w, p, prev, e) = w
  BY <1>3
<1>4. CASE VisitChain(w, p, prev, e) # w
  <2>1. prev # 0 /\ prev < p /\ p - prev <= Farthest /\ length >= 3
    BY <1>4 DEF VisitChain
  <2>6. PICK n : n = length
    OBVIOUS
  <2>7. n \in Int /\ n <= CommonLength(p, prev, e)
    BY <1>1, <2>1, <2>6 DEF AtLeast
  <2>8. Real(p, n, p - prev)
    BY <2>1, <2>7, RealCommon
  <2> HIDE DEF length
  <2>2. length \in Nat /\ p + length <= e
    BY <1>1, <2>1 DEF AtLeast
  <2>3. m \in Fits(p, e)
    <3>1. m \in Match /\ m.length = length /\ m.distance = p - prev
      BY <2>1, <2>2 DEF Match
    <3> QED
      BY <2>1, <2>2, <2>6, <2>8, <3>1 DEF Fits
  <2> HIDE DEF m
  <2>4. Append(w.matches, m) \in Seq(Fits(p, e))
    BY <2>3, AppendProperties DEF Finding
  <2>5. r \in Finding(p, e)
    BY <2>1, <2>2, <2>4 DEF Finding
  <2> QED
    BY <1>2, <1>4, <2>5
<1> QED
  BY <1>3, <1>4

(* A search of the tree: the nodes stay nodes.                             *)
Searching(p, e) ==
  Walk(p, [0 .. (2 * TreeSize - 1) -> Nat], {x \in Nat : x >= p},
       {x \in Nat : x >= 3 \/ (e <= p /\ x >= 1)}, Seq(Fits(p, e)))

(* What a visit changes.                                                   *)
LEMMA WalkOn ==
  ASSUME NEW p, NEW N, NEW R, NEW E, NEW Q, NEW w \in Walk(p, N, R, E, Q)
  PROVE  /\ [w EXCEPT !.depth = @ - 1] \in Walk(p, N, R, E, Q)
         /\ \A q \in Q : \A x \in E :
              [w EXCEPT !.matches = q, !.expected = x, !.depth = @ - 1] \in Walk(p, N, R, E, Q)
         /\ \A n \in N : [w EXCEPT !.nodes = n, !.ended = TRUE] \in Walk(p, N, R, E, Q)
         /\ \A n \in N : \A c \in Nat : \A a \in Nat : \A f \in R :
              /\ [w EXCEPT !.nodes = n, !.lesser = c, !.at = a, !.lesserFront = f]
                   \in Walk(p, N, R, E, Q)
              /\ [w EXCEPT !.nodes = n, !.greater = c, !.at = a, !.greaterFront = f]
                   \in Walk(p, N, R, E, Q)
<1>1. [w EXCEPT !.depth = @ - 1] \in Walk(p, N, R, E, Q)
  BY DEF Walk
<1>2. ASSUME NEW q \in Q, NEW x \in E
      PROVE  [w EXCEPT !.matches = q, !.expected = x, !.depth = @ - 1] \in Walk(p, N, R, E, Q)
  <2>1. PICK d \in Int : d = w.depth - 1
    BY DEF Walk
  <2>2. [w EXCEPT !.matches = q, !.expected = x, !.depth = d] \in Walk(p, N, R, E, Q)
    BY DEF Walk
  <2> QED
    BY <2>1, <2>2
<1>3. \A n \in N : [w EXCEPT !.nodes = n, !.ended = TRUE] \in Walk(p, N, R, E, Q)
  BY DEF Walk
<1>4. ASSUME NEW n \in N, NEW c \in Nat, NEW a \in Nat, NEW f \in R
      PROVE  /\ [w EXCEPT !.nodes = n, !.lesser = c, !.at = a, !.lesserFront = f]
                  \in Walk(p, N, R, E, Q)
             /\ [w EXCEPT !.nodes = n, !.greater = c, !.at = a, !.greaterFront = f]
                  \in Walk(p, N, R, E, Q)
  <2>1. [w EXCEPT !.nodes = n, !.lesser = c, !.at = a, !.lesserFront = f]
          \in Walk(p, N, R, E, Q)
    BY DEF Walk
  <2>2. [w EXCEPT !.nodes = n, !.greater = c, !.at = a, !.greaterFront = f]
          \in Walk(p, N, R, E, Q)
    BY DEF Walk
  <2> QED
    BY <2>1, <2>2
<1> QED
  BY <1>1, <1>2, <1>3, <1>4

(* One visit.                                                              *)
LEMMA VisitFinds ==
  ASSUME src \in Seq(Nat), Len(src) > 0, NEW p \in Nat, NEW e \in Int, NEW limit \in Int,
         NEW w \in Searching(p, e), NEW M, \A z \in M : z \in 0 .. p, Walking(w, M, p),
         p + Told(p) <= limit
  PROVE  Visit(w, limit, e) \in Searching(p, e)
<1> DEFINE S == Searching(p, e)
           shared  == SharedFront(w)
           front   == shared + CommonLength(shared, shared - (p - w.at), limit)
           length  == AtMost(front - p, e - p)
           found   == IF length >= w.expected THEN Report(w, p, w.at, length) ELSE w
           visited == [found EXCEPT !.depth = @ - 1]
           stopped == [w EXCEPT !.nodes[w.lesser] = 0, !.nodes[w.greater] = 0, !.ended = TRUE]
           stops   == w.at <= TreeEnd(p) \/ w.depth = 0 \/ w.at >= p \/ p - w.at > Farthest
<1>1. w.p = p /\ w.at \in Nat /\ w.expected \in Nat /\ w.depth \in Int
  BY DEF Searching, Walk
<1>2. shared \in Nat /\ shared >= p
  BY DEF Searching, Walk, SharedFront, AtMost
<1>3. front \in Nat /\ front >= p
  <2> HIDE DEF shared
  <2>1. shared \in Int /\ shared - (p - w.at) \in Int
    BY SMTT(60), <1>1, <1>2
  <2>2. CommonLength(shared, shared - (p - w.at), limit) \in 0 .. AtLeast(limit - shared, 0)
    BY <2>1, CommonFits, Zenon
  <2> QED
    BY <1>2, <2>2
<1>4. length \in Int /\ length <= front - p /\ length <= e - p
  <2> HIDE DEF front
  <2> QED
    BY <1>3 DEF AtMost
<1>5. Visit(w, limit, e) = IF w.ended THEN w ELSE IF stops THEN stopped
                           ELSE IF front - p >= NiceLength \/ front >= limit
                           THEN Replace(visited) ELSE Descend(visited, front)
  BY <1>1 DEF Visit
<1> HIDE DEF shared, front, length
<1>6. stopped \in S
  BY DEF Searching, Walk
<1> DEFINE N == [0 .. (2 * TreeSize - 1) -> Nat]
           R == {x \in Nat : x >= p}
           E == {x \in Nat : x >= 3 \/ (e <= p /\ x >= 1)}
           Q == Seq(Fits(p, e))
<1>11. S = Walk(p, N, R, E, Q)
  BY DEF Searching, Walk
<1>12. front \in R /\ \A x \in Nat : x >= 3 => x \in E
  BY <1>3
<1>9. w \in S
  OBVIOUS
<1>7. ASSUME ~stops, ~w.ended
      PROVE  visited \in S
  <2>1. TreeEnd(p) \in Nat
    BY Nodes
  <2>2. w.at \in 1 .. (p - 1) /\ p - w.at <= Farthest
    BY SMTT(60), <1>1, <1>7, <2>1, SourceBytesAssumption
  <2>5. length \in Int /\ Real(p, length, p - w.at)
    <3>1. front = DiffersAt(w, p, limit)
      BY DEF front, shared, DiffersAt
    <3>2. w.lesserFront \in Nat /\ w.greaterFront \in Nat
      BY DEF Searching, Walk
    <3>3. w.at > TreeEnd(p)
      BY <1>1, <1>7, <2>1
    <3>4. Compared(w.at, p, limit, DiffersAt(w, p, limit))
      BY <1>7, <3>2, <3>3, VisitAgrees
    <3>5. PICK f \in Nat : f = front
      BY <1>3
    <3>6. Agree(w.at, p, f - p)
      BY <3>1, <3>4, <3>5 DEF Compared
    <3>7. Agree(p, w.at, f - p)
      BY <3>6, AgreeSides
    <3>8. p - (p - w.at) = w.at /\ p - w.at \in 1 .. p
      BY SMTT(60), <2>2
    <3>9. Real(p, f - p, p - w.at)
      BY <2>2, <3>7, <3>8 DEF Real
    <3>10. f - p \in Int /\ length \in Int /\ length <= f - p
      BY <1>4, <3>5
    <3> QED
      BY <3>9, <3>10, RealPrefix
  <2>3. CASE ~(length >= w.expected)
    <3>1. visited = [w EXCEPT !.depth = @ - 1]
      BY SMTT(60), <2>3
    <3> HIDE DEF visited, N, R, E, Q, S
    <3>2. w \in Walk(p, N, R, E, Q)
      BY SMTT(60), <1>9, <1>11
    <3>3. [w EXCEPT !.depth = @ - 1] \in Walk(p, N, R, E, Q)
      BY <3>2, WalkOn
    <3> QED
      BY <1>11, <3>1, <3>3
  <2>4. CASE length >= w.expected
    <3> DEFINE m == [length |-> length, distance |-> p - w.at]
    <3>1. w.expected >= 3 \/ (e <= p /\ w.expected >= 1)
      BY DEF Searching, Walk
    <3>2. length >= 3 /\ p + length <= e /\ length \in Nat
      BY SMTT(60), <1>1, <1>4, <2>4, <3>1
    <3>3. m \in Fits(p, e)
      <4>1. m \in Match /\ m.length = length /\ m.distance = p - w.at
        BY <2>2, <3>2 DEF Match
      <4> QED
        BY <2>5, <3>2, <4>1 DEF Fits
    <3>4. found = [w EXCEPT !.matches = Append(@, m), !.expected = length]
      BY <2>4 DEF Report
    <3> HIDE DEF m
    <3>5. Append(w.matches, m) \in Seq(Fits(p, e))
      BY <3>3, AppendProperties DEF Searching, Walk
    <3>6. visited = [w EXCEPT !.matches = Append(@, m), !.expected = length, !.depth = @ - 1]
      BY <3>4
    <3>7. Append(w.matches, m) \in Q /\ length \in E
      BY <1>12, <3>2, <3>5
    <3> HIDE DEF visited, N, R, E, Q, S
    <3>8. PICK q \in Q : q = Append(w.matches, m)
      BY <3>7
    <3>9. visited = [w EXCEPT !.matches = q, !.expected = length, !.depth = @ - 1]
      BY <3>6, <3>8
    <3>10. w \in Walk(p, N, R, E, Q)
      BY <1>9, <1>11
    <3>11. visited \in Walk(p, N, R, E, Q)
      BY <3>7, <3>9, <3>10, WalkOn
    <3> QED
      BY <1>11, <3>11
  <2> QED
    BY <2>3, <2>4
<1> HIDE DEF stops, stopped
<1>8. ASSUME NEW v \in S
      PROVE  Replace(v) \in S /\ Descend(v, front) \in S
  <2> DEFINE child == 2 * NodeIndex(v.at)
  <2>1. v.at \in Nat /\ v.nodes \in [0 .. (2 * TreeSize - 1) -> Nat]
    BY DEF Searching, Walk
  <2>2. NodeIndex(v.at) \in 0 .. (TreeSize - 1) /\ TreeSize \in Nat
    BY <2>1, Nodes
  <2>3. child \in 0 .. (2 * TreeSize - 1) /\ child + 1 \in 0 .. (2 * TreeSize - 1)
    <3> HIDE DEF TreeSize
    <3> QED
      BY SMTT(60), <2>2
  <2> HIDE DEF child
  <2>4. v.nodes[child] \in Nat /\ v.nodes[child + 1] \in Nat /\ child \in Nat
    <3>1. PICK D : D = 0 .. (2 * TreeSize - 1)
      OBVIOUS
    <3>2. child \in D /\ child + 1 \in D /\ v.nodes \in [D -> Nat]
      BY <2>1, <2>3, <3>1
    <3>3. v.nodes[child] \in Nat /\ v.nodes[child + 1] \in Nat
      BY <3>2
    <3> QED
      BY <2>3, <3>3
  <2>5. Replace(v) = [v EXCEPT !.nodes[v.lesser]  = v.nodes[child],
                               !.nodes[v.greater] = v.nodes[child + 1],
                               !.ended = TRUE]
    BY DEF Replace, child
  <2>6. Replace(v) \in S
    <3> DEFINE c == v.nodes[child]
               d == v.nodes[child + 1]
    <3> HIDE DEF N, c, d
    <3>1. \A a : \A x \in Nat : \A f \in N : [f EXCEPT ![a] = x] \in N
      BY DEF N
    <3>2. [[v.nodes EXCEPT ![v.lesser] = c] EXCEPT ![v.greater] = d] \in N
      BY <2>1, <2>4, <3>1 DEF N, c, d
    <3>3. Replace(v) = [v EXCEPT !.nodes = [[@ EXCEPT ![v.lesser] = c] EXCEPT ![v.greater] = d],
                                 !.ended = TRUE]
      BY <2>5 DEF c, d
    <3> QED
      BY <3>2, <3>3 DEF Searching, Walk, N
  <2>8. \A a : [v.nodes EXCEPT ![a] = v.at] \in N
    BY <2>1
  <2>9. \/ Descend(v, front)
              = [v EXCEPT !.nodes = [@ EXCEPT ![v.lesser] = v.at], !.lesser = child + 1,
                          !.at = v.nodes[child + 1], !.lesserFront = front]
         \/ Descend(v, front)
              = [v EXCEPT !.nodes = [@ EXCEPT ![v.greater] = v.at], !.greater = child,
                          !.at = v.nodes[child], !.greaterFront = front]
    BY DEF Descend, child
  <2>10. Descend(v, front) \in S
    <3> HIDE DEF N, R, E, Q, S
    <3>1. v \in Walk(p, N, R, E, Q)
      BY SMTT(60), <1>11
    <3>2. \A n \in N : \A c \in Nat : \A a \in Nat :
            /\ [v EXCEPT !.nodes = n, !.lesser = c, !.at = a, !.lesserFront = front] \in S
            /\ [v EXCEPT !.nodes = n, !.greater = c, !.at = a, !.greaterFront = front] \in S
      BY <1>11, <1>12, <3>1, WalkOn
    <3>3. PICK n \in N, o \in N : /\ n = [v.nodes EXCEPT ![v.lesser] = v.at]
                                  /\ o = [v.nodes EXCEPT ![v.greater] = v.at]
      BY <2>8
    <3>4. \/ Descend(v, front) = [v EXCEPT !.nodes = n, !.lesser = child + 1,
                                 !.at = v.nodes[child + 1], !.lesserFront = front]
          \/ Descend(v, front) = [v EXCEPT !.nodes = o, !.greater = child,
                                 !.at = v.nodes[child], !.greaterFront = front]
      BY <2>9, <3>3
    <3>5. child \in Nat /\ child + 1 \in Nat
      BY <2>4
    <3>6. [v EXCEPT !.nodes = n, !.lesser = child + 1, !.at = v.nodes[child + 1],
                    !.lesserFront = front] \in S
      BY <2>4, <3>2, <3>5, Zenon
    <3>7. [v EXCEPT !.nodes = o, !.greater = child, !.at = v.nodes[child],
                    !.greaterFront = front] \in S
      BY <2>4, <3>2, <3>5, Zenon
    <3> QED
      BY <3>4, <3>6, <3>7
  <2> QED
    BY <2>6, <2>10
<1> HIDE DEF visited, S
<1>10. Visit(w, limit, e) \in S
  BY <1>5, <1>6, <1>7, <1>8, <1>9
<1> QED
  BY <1>10 DEF S

(* A visit ends the search or counts.                                      *)
LEMMA VisitCounts ==
  ASSUME NEW p, NEW N, NEW R, NEW E, NEW Q, NEW w \in Walk(p, N, R, E, Q),
         NEW limit, NEW e, NEW d \in Int, w.ended \/ w.depth = d
  PROVE  Visit(w, limit, e).ended \/ (d # 0 /\ Visit(w, limit, e).depth = d - 1)
<1> DEFINE shared  == SharedFront(w)
           front   == shared + CommonLength(shared, shared - (w.p - w.at), limit)
           length  == AtMost(front - w.p, e - w.p)
           found   == IF length >= w.expected THEN Report(w, w.p, w.at, length) ELSE w
           visited == [found EXCEPT !.depth = @ - 1]
           stop    == w.at <= TreeEnd(w.p) \/ w.depth = 0 \/ w.at >= w.p \/ w.p - w.at > Farthest
           stopped == [w EXCEPT !.nodes[w.lesser] = 0, !.nodes[w.greater] = 0, !.ended = TRUE]
           last    == front - w.p >= NiceLength \/ front >= limit
<1>1. Visit(w, limit, e) = IF w.ended THEN w ELSE IF stop THEN stopped
                           ELSE IF last THEN Replace(visited) ELSE Descend(visited, front)
  BY DEF Visit
<1>2. stopped.ended
  BY DEF Walk
<1> HIDE DEF stopped, last
<1>3. CASE w.ended \/ stop
  BY <1>1, <1>2, <1>3
<1>4. CASE ~w.ended /\ ~stop
  <2>1. w.depth = d /\ d # 0
    BY <1>4
  <2>2. /\ found.depth = d /\ DOMAIN found = {"p", "at", "nodes", "lesser", "greater", "lesserFront",
                "greaterFront", "depth", "expected", "matches", "ended"}
    <3> HIDE DEF length
    <3> QED
      BY <2>1 DEF Report, Walk
  <2> HIDE DEF found, front
  <2>3. visited.depth = d - 1 /\ DOMAIN visited = DOMAIN found
    BY <2>2
  <2> HIDE DEF visited
  <2>4. Replace(visited).ended
    BY <2>2, <2>3 DEF Replace
  <2>5. Descend(visited, front).depth = d - 1
    BY <2>2, <2>3 DEF Descend
  <2> HIDE DEF stop
  <2> QED
    BY <1>1, <1>4, <2>1, <2>4, <2>5
<1> QED
  BY <1>3, <1>4

(* What a visit reports.                                                   *)
LEMMA VisitReports ==
  ASSUME NEW p \in Nat, NEW e \in Int, NEW w \in Searching(p, e), NEW f \in Nat, f >= p,
         NEW g, Upto(g, p, e), Met(w.matches, w.expected, p, g),
         NEW v, VisitedFrom(v, w, AtMost(f - p, e - p))
  PROVE  Reporting(v, w, p, g, f)
<1> DEFINE length == AtMost(f - p, e - p)
<1>5. g \in {e, p}
  BY DEF Upto
<1> USE <1>5
<1>0. v = [(IF length >= w.expected THEN Report(w, w.p, w.at, length) ELSE w) EXCEPT !.depth = @ - 1]
  BY DEF VisitedFrom
<1> USE DEF Reporting
<1>1. /\ w.p = p /\ w.at \in Nat /\ w.expected \in Nat /\ w.matches \in Seq(Fits(p, e))
      /\ DOMAIN w = {"p", "at", "nodes", "lesser", "greater", "lesserFront", "greaterFront",
                     "depth", "expected", "matches", "ended"}
  BY DEF Searching, Walk
<1>2. length \in Int /\ \A n \in Wanted(p, g) : n <= f - p => n <= length
  BY DEF AtMost, Wanted
<1> HIDE DEF length
<1>3. CASE length >= w.expected
  <2> DEFINE m == [length |-> length, distance |-> w.p - w.at]
             r == [w EXCEPT !.matches = Append(@, m), !.expected = length]
  <2>1. v = [r EXCEPT !.depth = @ - 1]
    BY <1>0, <1>3 DEF Report
  <2>2. /\ r.matches = Append(w.matches, m) /\ r.expected = length /\ r.depth = w.depth
        /\ DOMAIN r = DOMAIN w
    BY <1>1
  <2>3. m.length = length
    OBVIOUS
  <2> HIDE DEF r, m
  <2>4. v.matches = Append(w.matches, m) /\ v.expected = length /\ v.depth = w.depth - 1
    BY <1>1, <2>1, <2>2
  <2>5. PICK k \in Nat : k = Len(w.matches) /\ DOMAIN w.matches = 1 .. k
    BY <1>1
  <2>6. /\ DOMAIN v.matches = 1 .. (k + 1) /\ v.matches[k + 1] = m
        /\ \A i \in 1 .. k : v.matches[i] = w.matches[i]
    BY <1>1, <2>4, <2>5
  <2>7. \A n : Has(w.matches, n) => Has(v.matches, n)
    BY <2>5, <2>6 DEF Has
  <2>8. \A n \in Wanted(p, g) : n <= length => Has(v.matches, n)
    <3> SUFFICES ASSUME NEW n \in Wanted(p, g), n <= length
                 PROVE  Has(v.matches, n)
      OBVIOUS
    <3>1. k + 1 \in DOMAIN v.matches /\ v.matches[k + 1].length >= n
      BY <1>2, <2>3, <2>6 DEF Wanted
    <3> QED
      BY <3>1 DEF Has
  <2>9. Met(v.matches, v.expected, p, g)
    BY <1>2, <2>4, <2>8 DEF Met, Wanted
  <2> QED
    BY <1>2, <2>4, <2>7, <2>8, <2>9
<1>4. CASE ~(length >= w.expected)
  <2>1. v = [w EXCEPT !.depth = @ - 1]
    BY <1>0, <1>4
  <2>2. v.matches = w.matches /\ v.expected = w.expected /\ v.depth = w.depth - 1
    BY <1>1, <2>1
  <2>3. ASSUME NEW n \in Wanted(p, g), n <= f - p
        PROVE  n < w.expected
    <3>1. n \in Nat /\ n <= length
      BY <1>2, <2>3 DEF Wanted
    <3>2. PICK x \in Nat : x = w.expected
      BY <1>1
    <3>3. PICK l \in Int : l = length
      BY <1>2
    <3> QED
      BY <1>4, <3>1, <3>2, <3>3
  <2> QED
    BY <2>2, <2>3 DEF Met
<1> QED
  BY <1>3, <1>4

LEMMA VisitCombs ==
  ASSUME src \in Seq(Nat), Len(src) > 0, NEW p \in Nat \ {0}, NEW t,
         t.inserted \in SUBSET {x \in Nat : x < p}, t.lookup \in [0 .. (Buckets - 1) -> Nat],
         Hash(p, 4) \in 0 .. (Buckets - 1), NEW e \in Int, NEW w \in Searching(p, e),
         Walking(w, t.inserted \union {p}, p),
         NEW limit \in Int, p + Told(p) <= limit, limit <= CompressionLimit,
         NEW g, Upto(g, p, e), CombingOrCombed(w, t, p, g)
  PROVE  CombingOrCombed(Visit(w, limit, e), t, p, g)
<1> DEFINE M == t.inserted \union {p}
           shared  == SharedFront(w)
           front   == shared + CommonLength(shared, shared - (w.p - w.at), limit)
           length  == AtMost(front - w.p, e - w.p)
           visited == [(IF length >= w.expected THEN Report(w, w.p, w.at, length) ELSE w)
                         EXCEPT !.depth = @ - 1]
           stop    == w.at <= TreeEnd(w.p) \/ w.depth = 0 \/ w.at >= w.p \/ w.p - w.at > Farthest
           stopped == [w EXCEPT !.nodes[w.lesser] = 0, !.nodes[w.greater] = 0, !.ended = TRUE]
           last    == front - w.p >= NiceLength \/ front >= limit
<1>1. /\ w.p = p /\ w.at \in Nat /\ w.nodes \in NodeLists /\ w.ended \in BOOLEAN
      /\ w.lesserFront \in Nat /\ w.greaterFront \in Nat /\ w.depth \in Int
      /\ TreeEnd(p) \in Nat
      /\ DOMAIN w = {"p", "at", "nodes", "lesser", "greater", "lesserFront", "greaterFront",
                     "depth", "expected", "matches", "ended"}
  <2>1. p \in Nat
    OBVIOUS
  <2> QED
    BY <2>1, Nodes DEF Searching, Walk, NodeLists
<1>2. /\ visited.p = p /\ visited.at = w.at /\ visited.nodes = w.nodes /\ visited.ended = w.ended
      /\ visited.lesser = w.lesser /\ visited.greater = w.greater
      /\ visited.lesserFront = w.lesserFront /\ visited.greaterFront = w.greaterFront
      /\ DOMAIN visited = DOMAIN w
  <2> HIDE DEF length
  <2>1. CASE length >= w.expected
    BY <1>1, <2>1 DEF Report
  <2>2. CASE ~(length >= w.expected)
    BY <1>1, <2>2
  <2> QED
    BY <2>1, <2>2
<1>0. Ground(t, p) /\ Moving(w) /\ g \in Int
  BY <1>1 DEF Ground, Moving, Upto
<1>3. CASE w.ended
  BY <1>3 DEF Visit
<1>4. CASE ~w.ended
  <2>1. PICK T \in SUBSET t.inserted : \E V \in SUBSET T : \E B \in SUBSET t.inserted :
          Combing(w, t, p, g, T, V, B)
    BY <1>4 DEF CombingOrCombed
  <2>2. PICK V \in SUBSET T : \E B \in SUBSET t.inserted : Combing(w, t, p, g, T, V, B)
    BY <2>1
  <2>3. PICK B \in SUBSET t.inserted : Combing(w, t, p, g, T, V, B)
    BY <2>2
  <2>4. CASE stop
    <3>1. Visit(w, limit, e) = stopped
      BY <1>4, <2>4 DEF Visit
    <3>2. stopped.ended /\ StoppedFrom(stopped, w)
      BY <1>1 DEF StoppedFrom
    <3>3. StopsAt(w, p)
      BY <1>1, <2>4 DEF StopsAt
    <3> HIDE DEF stopped
    <3>4. Combed(stopped, t, p, g)
      BY <1>0, <2>3, <3>2, <3>3, StopCombs, Zenon
    <3> QED
      BY <3>1, <3>2, <3>4 DEF CombingOrCombed
  <2>5. CASE ~stop
    <3>1. w.at > TreeEnd(p)
      BY <1>1, <2>5
    <3>2. PICK f : f = DiffersAt(w, p, limit)
      OBVIOUS
    <3>3. front = f
      BY <1>1, <3>2 DEF DiffersAt
    <3>4. /\ w.at \in M /\ w.at < p
          /\ f \in Nat /\ f >= p
          /\ Agree(w.at, p, f - p)
          /\ f - p >= NiceLength \/ f >= limit => Agree(w.at, p, Told(p))
          /\ ~(f - p >= NiceLength \/ f >= limit) =>
                Byte(f - (p - w.at)) = Byte(w.at + (f - p)) /\ Byte(w.at + (f - p)) # Byte(p + (f - p))
      <4>1. \A z \in M : z \in 0 .. p
        OBVIOUS
      <4>2. w.at \in M /\ w.at < p /\ Compared(w.at, p, limit, DiffersAt(w, p, limit))
        BY <1>1, <1>4, <3>1, <4>1, VisitAgrees, Zenon
      <4> QED
        BY <3>2, <4>2 DEF Compared
    <3>5. Reporting(visited, w, p, g, f)
      <4>1. Met(w.matches, w.expected, p, g)
        BY <2>3 DEF Combing
      <4>2. length = AtMost(f - p, e - p)
        BY <1>1, <3>3
      <4>3. VisitedFrom(visited, w, AtMost(f - p, e - p))
        BY <4>2 DEF VisitedFrom
      <4>4. p \in Nat /\ f \in Nat /\ f >= p
        BY <3>4
      <4>5. w \in Searching(p, e) /\ e \in Int
        OBVIOUS
      <4> HIDE DEF length, visited
      <4> QED
        BY <4>1, <4>3, <4>4, <4>5, VisitReports, Zenon
    <3> DEFINE child == 2 * NodeIndex(w.at)
    <3>6. Visit(w, limit, e) = IF last THEN Replace(visited) ELSE Descend(visited, front)
      BY <1>4, <2>5 DEF Visit
    <3>7. child = Slot(w.at, 0) /\ child + 1 = Slot(w.at, 1)
      <4>1. NodeIndex(w.at) \in Nat
        <5>1. 0 \in {0, 1} /\ w.at \in Nat
          BY <1>1
        <5> QED
          BY <5>1, SlotIn, Zenon
      <4> QED
        BY <4>1 DEF Slot
    <3>8. last <=> f - p >= NiceLength \/ f >= limit
      BY <1>1, <3>3
    <3> HIDE DEF visited, child, front, stop, last
    <3>9. CASE last
      <4>1. Agree(w.at, p, Told(p))
        BY <3>4, <3>8, <3>9
      <4> DEFINE u == Replace(visited)
      <4>2. /\ u.ended /\ u.matches = visited.matches
            /\ u.nodes = [w.nodes EXCEPT ![w.lesser] = w.nodes[Slot(w.at, 0)],
                                         ![w.greater] = w.nodes[Slot(w.at, 1)]]
        BY <1>1, <1>2, <3>7 DEF Replace, child
      <4> HIDE DEF u
      <4>3. \A n \in Wanted(p, g) : n <= Told(p) => Has(u.matches, n)
        <5>1. Told(p) \in Int /\ Told(p) <= NiceLength
          BY ToldInner
        <5>2. Told(p) <= f - p
          BY <3>4, <3>8, <3>9, <5>1, MatchTreeAssumption
        <5>3. \A n \in Wanted(p, g) : n <= Told(p) => n <= f - p
          BY <3>4, <5>1, <5>2 DEF Wanted
        <5> QED
          BY <3>5, <4>2, <5>3 DEF Reporting
      <4>4. Combed(u, t, p, g)
        <5>1. ReplacedFrom(u, w, p, g)
          BY <4>2, <4>3 DEF ReplacedFrom
        <5> QED
          BY <1>0, <2>3, <3>1, <4>1, <5>1, ReplaceCombs, Zenon
      <4> QED
        BY <3>6, <3>9, <4>2, <4>4 DEF CombingOrCombed, u
    <3>10. CASE ~last
      <4>1. /\ f - p \in Nat /\ f - p < NiceLength /\ f < limit
            /\ Byte(f - (p - w.at)) = Byte(w.at + (f - p)) /\ Byte(w.at + (f - p)) # Byte(p + (f - p))
        <5>1. ~(f - p >= NiceLength) /\ ~(f >= limit)
          BY <3>8, <3>10
        <5>2. f \in Nat /\ p \in Nat /\ w.at \in Nat /\ limit \in Int /\ f >= p
          BY <3>4
        <5>3. NiceLength \in Nat
          BY MatchTreeAssumption
        <5>4. /\ f - p \in Nat /\ f - p < NiceLength /\ f < limit
              /\ f - (p - w.at) = w.at + (f - p) /\ p + (f - p) = f
          BY <5>1, <5>2, <5>3
        <5>5. Byte(f - (p - w.at)) # Byte(f)
          BY <3>4, <5>1
        <5> QED
          BY <5>4, <5>5
      <4>2. /\ Told(p) \in Int /\ f - p \in 0 .. (Told(p) - 1) /\ w.at \in 0 .. p /\ p \in 0 .. p
            /\ Inner(w.at, Told(p)) /\ Inner(p, Told(p)) /\ w.at \in Nat /\ p \in Nat
        <5>1. w.at \in 0 .. p /\ p \in 0 .. p
          <6>1. PICK a \in Nat : a = w.at
            BY <1>1
          <6>2. a < p
            BY <3>4, <6>1
          <6> QED
            BY <6>1, <6>2
        <5>2. Told(p) \in Int /\ CompressionLimit \in Int /\ Inner(w.at, Told(p)) /\ Inner(p, Told(p))
          BY <5>1, ToldInner
        <5>3. f - p < Told(p)
          BY <3>4, <4>1, <5>2, MatchTreeAssumption DEF Told, AtMost
        <5> QED
          BY <4>1, <5>1, <5>2, <5>3
      <4>3. Byte(w.at + (f - p)) \in Nat /\ Byte(p + (f - p)) \in Nat
        BY <4>2, BytesAre, Zenon
      <4>4. Agree(p, w.at, f - p)
        BY <3>4 DEF Agree
      <4>5. PICK S \in Subtrees : Ordered(w.nodes, S, t.inserted \union {p}, p, {w.lesser, w.greater})
        BY <1>4 DEF Walking
      <4> DEFINE u == Descend(visited, front)
                 Passed1(side) ==
                   /\ u.nodes = [w.nodes EXCEPT ![Gap(w, side)] = w.at]
                   /\ u.at = w.nodes[Slot(w.at, 1 - side)] /\ ~u.ended
                   /\ Gap(u, side) = Slot(w.at, 1 - side) /\ Gap(u, 1 - side) = Gap(w, 1 - side)
                   /\ u.depth = w.depth - 1 /\ u.matches = visited.matches
                   /\ u.expected = visited.expected
      <4>6. \E side \in {0, 1} : OnSide(side, w.at, p, Told(p)) /\ Passed1(side)
        <5>1. CASE Byte(w.at + (f - p)) < Byte(p + (f - p))
          <6>1. OnSide(0, w.at, p, Told(p))
            BY SMTT(60), <3>4, <4>2, <5>1, Decides DEF OnSide
          <6>2. Byte(front - (visited.p - visited.at)) < Byte(front)
            <7>1. p + (f - p) = f
              BY <3>4
            <7> QED
              BY <1>2, <3>3, <4>1, <5>1, <7>1
          <6>3. u = [visited EXCEPT !.nodes[visited.lesser] = visited.at, !.lesser = child + 1,
                                    !.at = visited.nodes[child + 1], !.lesserFront = front]
            BY <1>2, <6>2 DEF Descend, child
          <6>4. /\ u.nodes = [w.nodes EXCEPT ![w.lesser] = w.at] /\ u.at = w.nodes[child + 1]
                /\ u.ended = w.ended /\ u.lesser = child + 1 /\ u.greater = w.greater
                /\ u.depth = visited.depth /\ u.matches = visited.matches /\ u.expected = visited.expected
            BY <1>1, <1>2, <6>3
          <6> HIDE DEF u
          <6>5. Passed1(0)
            BY <1>4, <3>5, <3>7, <6>4 DEF Gap, Reporting
          <6> QED
            BY <6>1, <6>5
        <5>2. CASE Byte(p + (f - p)) < Byte(w.at + (f - p))
          <6>1. OnSide(1, w.at, p, Told(p))
            BY SMTT(60), <4>2, <4>4, <5>2, Decides DEF OnSide
          <6>2. ~(Byte(front - (visited.p - visited.at)) < Byte(front))
            <7>1. p + (f - p) = f
              BY <3>4
            <7> QED
              BY <1>2, <3>3, <4>1, <4>3, <5>2, <7>1
          <6>3. u = [visited EXCEPT !.nodes[visited.greater] = visited.at, !.greater = child,
                                    !.at = visited.nodes[child], !.greaterFront = front]
            BY <1>2, <6>2 DEF Descend, child
          <6>4. /\ u.nodes = [w.nodes EXCEPT ![w.greater] = w.at] /\ u.at = w.nodes[child]
                /\ u.ended = w.ended /\ u.greater = child /\ u.lesser = w.lesser
                /\ u.depth = visited.depth /\ u.matches = visited.matches /\ u.expected = visited.expected
            BY <1>1, <1>2, <6>3
          <6> HIDE DEF u
          <6>5. Passed1(1)
            BY <1>4, <3>5, <3>7, <6>4 DEF Gap, Reporting
          <6> QED
            BY <6>1, <6>5
        <5> QED
          BY <4>1, <4>3, <5>1, <5>2
      <4>7. PICK side \in {0, 1} : OnSide(side, w.at, p, Told(p)) /\ Passed1(side)
        BY <4>6
      <4> HIDE DEF u
      <4>8. Reporting(u, w, p, g, f) /\ DescendedFrom(u, w, side)
        BY <3>5, <4>7 DEF Reporting, DescendedFrom
      <4>9. \E T1 \in SUBSET t.inserted : \E V1 \in SUBSET T1 : \E B1 \in SUBSET t.inserted :
              Combing(u, t, p, g, T1, V1, B1)
        <5>1. OnSide(side, w.at, p, Told(p)) /\ f \in Nat /\ f >= p
          BY <3>4, <4>7
        <5>2. Byte(w.at + (f - p)) # Byte(p + (f - p))
          BY <4>1
        <5> QED
          BY <1>0, <2>3, <3>1, <4>5, <4>8, <5>1, <5>2, DescendCombs, Zenon
      <4>10. CombingOrCombed(u, t, p, g)
        BY <4>7, <4>9 DEF CombingOrCombed
      <4> QED
        BY <3>6, <3>10, <4>10 DEF u
    <3> QED
      BY <3>9, <3>10
  <2> QED
    BY <2>4, <2>5
<1> QED
  BY <1>3, <1>4

(* A search starts with all of the tree below it.                          *)
LEMMA RootCombs ==
  ASSUME NEW p \in Nat \ {0}, NEW t, Ground(t, p), t.nodes \in NodeLists, Sorted(t), Complete(t),
         NEW g, NEW n, NEW q, Met(q, n, p, g)
  PROVE  CombingOrCombed(AtRoot(t, p, n, q), t, p, g)
<1> DEFINE A == t.inserted
           h == Hash(p, 4)
           w == AtRoot(t, p, n, q)
           open == {w.lesser, w.greater}
           roots == [t.lookup EXCEPT ![h] = w.at]
<1>1. /\ src \in Seq(Nat) /\ Len(src) > 0 /\ h \in 0 .. (Buckets - 1)
      /\ A \in SUBSET {x \in Nat : x < p} /\ t.lookup \in [0 .. (Buckets - 1) -> Nat]
  BY DEF Ground
<1>2. /\ ~w.ended /\ w.at = t.lookup[h] /\ w.nodes = t.nodes /\ w.depth = DepthLimit
      /\ w.lesser = Slot(p, 0) /\ w.greater = Slot(p, 1) /\ w.matches = q /\ w.expected = n
  <2>1. 2 * NodeIndex(p) \in Nat
    <3>1. p \in Nat /\ 0 \in {0, 1}
      OBVIOUS
    <3>2. NodeIndex(p) \in Nat
      BY <1>1, <3>1, SlotIn
    <3> QED
      BY <3>2
  <2> QED
    BY <2>1 DEF AtRoot, Slot
<1> HIDE DEF w
<1>3. roots = t.lookup
  BY <1>1, <1>2
<1>4. PICK l \in A \union {0}, T \in SUBSET A :
        /\ \A x \in A : x <= l
        /\ Related(t.nodes, A, l, {})
        /\ Hung(t.nodes, T, T, l, {}, t.lookup)
        /\ Standing(T, A, l)
        /\ \A b \in DOMAIN t.lookup : t.lookup[b] > TreeEnd(l) => Hash(t.lookup[b], 4) = b
  BY DEF Complete
<1>5. PICK m \in A \union {0} : \A b \in DOMAIN t.lookup : t.lookup[b] > TreeEnd(m) => t.lookup[b] \in A
  BY DEF Sorted
<1>6. /\ \A x \in A : x \in 0 .. p /\ x \in Nat /\ x < p
      /\ p \in 0 .. p /\ l \in 0 .. p /\ l \in Nat /\ m \in 0 .. p
  BY <1>1
<1>7. /\ TreeEnd(l) <= TreeEnd(p) /\ TreeEnd(m) <= TreeEnd(p) /\ TreeEnd(p) < p
      /\ TreeEnd(l) \in Nat /\ TreeEnd(m) \in Nat /\ TreeEnd(p) \in Nat
  <2>1. p \in Nat /\ p > 0
    OBVIOUS
  <2>2. \A x \in 0 .. p : TreeEnd(x) <= TreeEnd(p) /\ TreeEnd(x) \in Nat /\ TreeEnd(p) \in Nat
    BY <1>1, <2>1, EndsGrow
  <2> QED
    BY <1>1, <1>6, <2>1, <2>2, EndsGrow
<1>8. \A x \in Nat : x > TreeEnd(p) => x > TreeEnd(l) /\ x > TreeEnd(m)
  BY <1>7
<1>9. \A z \in A, a \in {0, 1} : z > TreeEnd(p) => Slot(z, a) \notin open
  <2> SUFFICES ASSUME NEW z \in A, NEW a \in {0, 1}, z > TreeEnd(p), NEW b \in {0, 1},
                      Slot(z, a) = Slot(p, b)
               PROVE  FALSE
    BY <1>2
  <2>1. z \in Nat /\ p \in Nat /\ z < p /\ z <= p /\ p <= p /\ p > TreeEnd(p)
    BY <1>6, <1>7
  <2>2. z = p
    BY <1>1, <2>1, OwnSlots
  <2> QED
    BY <2>1, <2>2
<1>10. Related(w.nodes, A \union {p}, p, open)
  <2> SUFFICES ASSUME NEW x \in A \union {p}, x > TreeEnd(p), NEW side \in {0, 1},
                      Slot(x, side) \notin open, t.nodes[Slot(x, side)] > TreeEnd(p)
               PROVE  Kin(t.nodes[Slot(x, side)], x)
    BY <1>2 DEF Related
  <2>1. x \in A
    BY <1>2
  <2>2. x > TreeEnd(l)
    BY <1>6, <1>8, <2>1
  <2>3. t.nodes[Slot(x, side)] > TreeEnd(l)
    <3>1. Slot(x, side) \in 0 .. (2 * TreeSize - 1)
      BY <1>1, <1>6, <2>1, SlotIn
    <3>2. t.nodes[Slot(x, side)] \in Nat
      BY <3>1 DEF NodeLists
    <3> QED
      BY <1>8, <3>2
  <2> QED
    BY <1>4, <2>1, <2>2, <2>3 DEF Related
<1>11. w.at > TreeEnd(p) => w.at \in A /\ Kin(w.at, p)
  <2> SUFFICES ASSUME w.at > TreeEnd(p)
               PROVE  w.at \in A /\ Kin(w.at, p)
    OBVIOUS
  <2>1. h \in DOMAIN t.lookup /\ w.at \in Nat
    BY <1>1, <1>2
  <2>2. w.at > TreeEnd(l) /\ w.at > TreeEnd(m)
    BY <1>8, <2>1
  <2> QED
    BY <1>2, <1>4, <1>5, <2>1, <2>2 DEF Kin
<1>12. \A x \in T : x > TreeEnd(p) =>
          \/ x = roots[Hash(x, 4)]
          \/ \E z \in T, side \in {0, 1} : /\ z > x /\ Kin(z, x)
                                           /\ Slot(z, side) \notin open /\ w.nodes[Slot(z, side)] = x
  <2> SUFFICES ASSUME NEW x \in T, x > TreeEnd(p), x # roots[Hash(x, 4)]
               PROVE  \E z \in T, side \in {0, 1} :
                        /\ z > x /\ Kin(z, x)
                        /\ Slot(z, side) \notin open /\ w.nodes[Slot(z, side)] = x
    OBVIOUS
  <2>1. x > TreeEnd(l) /\ x \in Nat
    BY <1>6, <1>8
  <2>2. PICK z \in T, side \in {0, 1} : z > x /\ Kin(z, x) /\ t.nodes[Slot(z, side)] = x
    BY <1>3, <1>4, <2>1 DEF Hung
  <2>3. z > TreeEnd(p)
    BY <1>6, <1>7, <2>1, <2>2
  <2> QED
    BY <1>2, <1>9, <2>2, <2>3
<1>13. Standing(T, A, p)
  <2> SUFFICES ASSUME NEW x \in A, x > TreeEnd(p)
               PROVE  Lost(x, A, p) \/ \E y \in T : Stands(y, x)
    BY DEF Standing
  <2>1. x \in Nat /\ x > TreeEnd(l) /\ x <= x /\ l <= p /\ p \in Nat /\ Kin(x, x) /\ A \subseteq Nat
    BY <1>6, <1>8 DEF Kin
  <2>2. Lost(x, A, l) => Lost(x, A, p)
    BY <1>6, <2>1, LostMore
  <2> QED
    BY <1>4, <2>1, <2>2 DEF Standing
<1> DEFINE B == {x \in T : x > TreeEnd(p) /\ Kin(x, p)}
<1>14. IsFiniteSet({}) /\ Cardinality({}) = DepthLimit - w.depth
  BY <1>2, FS_EmptySet, MatchTreeAssumption
<1>15. \A side \in {0, 1} : Gap(w, side) = Slot(p, side)
  BY <1>2 DEF Gap
<1>16. Hung(w.nodes, B, B, p, open, roots)
  <2> SUFFICES ASSUME NEW x \in B, x # roots[Hash(x, 4)]
               PROVE  \E z \in B, side \in {0, 1} :
                        /\ z > x /\ Kin(z, x)
                        /\ Slot(z, side) \notin open /\ w.nodes[Slot(z, side)] = x
    BY DEF Hung
  <2>1. PICK z \in T, side \in {0, 1} : /\ z > x /\ Kin(z, x)
                                        /\ Slot(z, side) \notin open /\ w.nodes[Slot(z, side)] = x
    BY <1>12
  <2>2. z \in B
    <3>1. z > TreeEnd(p)
      BY <1>6, <1>7, <2>1
    <3> QED
      BY <2>1, <3>1 DEF Kin
  <2> QED
    BY <2>1, <2>2
<1>17. w.lesser # w.greater
  <2>1. PICK i \in Nat : i = NodeIndex(p)
    <3>1. p \in Nat /\ 0 \in {0, 1}
      OBVIOUS
    <3> QED
      BY <1>1, <3>1, SlotIn
  <2> QED
    BY <1>2, <2>1 DEF Slot
<1>18. Combing(w, t, p, g, T, {}, B)
  <2>1. Hung(w.nodes, T, T \union {p}, p, open, roots)
    BY <1>12 DEF Hung
  <2>2. \A side \in {0, 1} : \E x \in {} \union {p}, s \in {0, 1} : Gap(w, side) = Slot(x, s)
    BY <1>15
  <2>3. \A x \in B : x > TreeEnd(p) /\ Kin(x, p)
    OBVIOUS
  <2>4. \A x \in T : x > TreeEnd(p) /\ Kin(x, p) /\ x \notin B => Matched(x, w.matches, p, g)
    OBVIOUS
  <2>5. Met(w.matches, w.expected, p, g)
    BY <1>2
  <2> HIDE DEF B
  <2> QED
    BY <1>10, <1>11, <1>13, <1>14, <1>16, <1>17, <2>1, <2>2, <2>3, <2>4, <2>5, Zenon DEF Combing
<1>19. T \in SUBSET A /\ {} \in SUBSET T /\ B \in SUBSET A
  OBVIOUS
<1> HIDE DEF B
<1>20. \E T1 \in SUBSET A : \E V1 \in SUBSET T1 : \E B1 \in SUBSET A : Combing(w, t, p, g, T1, V1, B1)
  BY <1>18, <1>19, Zenon
<1> QED
  BY <1>2, <1>20 DEF CombingOrCombed, w

(* The tree with a position that has been searched for.                    *)
LEMMA RootCompletes ==
  ASSUME NEW p \in Nat \ {0}, NEW t, Ground(t, p), Complete(t), NEW w, NEW g, Combed(w, t, p, g)
  PROVE  Complete(WithRoot(t, p, w))
<1> DEFINE A == t.inserted
           u == WithRoot(t, p, w)
<1>1. /\ src \in Seq(Nat) /\ Len(src) > 0 /\ Hash(p, 4) \in 0 .. (Buckets - 1)
      /\ A \in SUBSET {x \in Nat : x < p} /\ t.lookup \in [0 .. (Buckets - 1) -> Nat]
  BY DEF Ground
<1>2. /\ u.nodes = w.nodes /\ u.inserted = A \union {p}
      /\ u.lookup = [t.lookup EXCEPT ![Hash(p, 4)] = p]
  BY DEF WithRoot
<1> HIDE DEF u
<1>3. PICK l \in A \union {0} :
        \A b \in DOMAIN t.lookup : t.lookup[b] > TreeEnd(l) => Hash(t.lookup[b], 4) = b
  BY DEF Complete
<1>4. TreeEnd(l) <= TreeEnd(p) /\ TreeEnd(l) \in Nat /\ TreeEnd(p) \in Nat
  <2>1. l \in 0 .. p /\ p \in Nat
    BY <1>1
  <2> QED
    BY <1>1, <2>1, EndsGrow
<1>5. PICK T \in SUBSET (A \union {p}) :
        /\ Related(w.nodes, A \union {p}, p, {})
        /\ Hung(w.nodes, T, T, p, {}, [t.lookup EXCEPT ![Hash(p, 4)] = p])
        /\ Standing(T, A \union {p}, p)
  BY DEF Combed
<1>6. \A x \in A \union {p} : x <= p
  BY <1>1
<1>7. ASSUME NEW b \in DOMAIN u.lookup, u.lookup[b] > TreeEnd(p)
      PROVE  Hash(u.lookup[b], 4) = b
  <2>1. b \in DOMAIN t.lookup
    BY <1>2
  <2>2. CASE b = Hash(p, 4)
    BY <1>2, <2>1, <2>2
  <2>3. CASE b # Hash(p, 4)
    <3>1. u.lookup[b] = t.lookup[b] /\ t.lookup[b] \in Nat
      BY <1>1, <1>2, <2>1, <2>3
    <3>2. t.lookup[b] > TreeEnd(l)
      BY <1>4, <1>7, <3>1
    <3> QED
      BY <1>3, <2>1, <3>1, <3>2
  <2> QED
    BY <2>2, <2>3
<1>8. p \in u.inserted \union {0} /\ T \in SUBSET u.inserted
  BY <1>2
<1>9. /\ \A x \in u.inserted : x <= p
      /\ Related(u.nodes, u.inserted, p, {})
      /\ Hung(u.nodes, T, T, p, {}, u.lookup)
      /\ Standing(T, u.inserted, p)
      /\ \A b \in DOMAIN u.lookup : u.lookup[b] > TreeEnd(p) => Hash(u.lookup[b], 4) = b
  BY <1>2, <1>5, <1>6, <1>7
<1>10. Complete(u)
  BY <1>8, <1>9, Zenon DEF Complete
<1> QED
  BY <1>10 DEF u

(* A tree without positions.                                               *)
LEMMA EmptyCompletes ==
  ASSUME src \in Seq(Nat)
  PROVE  Complete(EmptyTree)
<1> DEFINE t == EmptyTree
<1>1. t.inserted = {} /\ \A b \in DOMAIN t.lookup : t.lookup[b] = 0
  BY DEF EmptyTree
<1>2. TreeEnd(0) \in Nat
  BY LenProperties, SourceBytesAssumption, MatchTreeAssumption DEF TreeEnd, TreeSize, AtMost
<1> HIDE DEF t
<1>3. /\ \A x \in t.inserted : x <= 0
      /\ Related(t.nodes, t.inserted, 0, {})
      /\ Hung(t.nodes, {}, {}, 0, {}, t.lookup)
      /\ Standing({}, t.inserted, 0)
  BY <1>1 DEF Related, Hung, Standing
<1>4. \A b \in DOMAIN t.lookup : t.lookup[b] > TreeEnd(0) => Hash(t.lookup[b], 4) = b
  BY <1>1, <1>2
<1>5. 0 \in t.inserted \union {0} /\ {} \in SUBSET t.inserted
  OBVIOUS
<1>6. Complete(t)
  BY <1>3, <1>4, <1>5, Zenon DEF Complete
<1> QED
  BY <1>6 DEF t

(* The root of the tree for a position is one of the positions of the tree.*)
LEMMA RootFinds ==
  ASSUME src \in Seq(Nat), NEW p \in Nat, p + 4 <= Len(src), NEW k \in Int, NEW t \in Arrays(k),
         NEW e \in Int, NEW x \in Nat, x >= 3 \/ (e <= p /\ x >= 1), NEW q \in Seq(Fits(p, e))
  PROVE  AtRoot(t, p, x, q) \in Searching(p, e)
<1>1. Len(src) \in Nat /\ Len(src) > 0
  BY LenProperties
<1>2. NodeIndex(p) \in Nat
  BY <1>1, Nodes
<1>3. 2 * NodeIndex(p) \in Nat /\ 2 * NodeIndex(p) + 1 \in Nat
  BY SMTT(60), <1>2
<1>4. Hash(p, 4) \in 0 .. (Buckets - 1)
  BY HashIn
<1>5. t.lookup[Hash(p, 4)] \in Nat
  BY <1>4 DEF Arrays
<1>6. t.nodes \in [0 .. (2 * TreeSize - 1) -> Nat]
  BY DEF Arrays
<1>7. p \in {y \in Nat : y >= p} /\ x \in {y \in Nat : y >= 3 \/ (e <= p /\ y >= 1)}
  OBVIOUS
<1>8. DepthLimit \in Int
  BY MatchTreeAssumption
<1> QED
  BY <1>3, <1>5, <1>6, <1>7, <1>8 DEF AtRoot, Searching, Walk

(* A whole search, for a position behind all of the tree: it ends, leaves  *)
(* the positions in order, loses none and, of matches up to g, misses none.*)
Searched(t, p, e, g) ==
  {w \in Searching(p, e) : /\ w.ended /\ Walking(w, t.inserted \union {p}, p)
                            /\ Combed(w, t, p, g)}

LEMMA SearchFinds ==
  ASSUME src \in Seq(Nat), NEW p \in Nat \ {0}, p + 4 <= Len(src),
         NEW k \in Int, k <= p, NEW t \in Trees(k),
         NEW e \in Int, NEW x \in Nat, x >= 3 \/ (e <= p /\ x >= 1), NEW q \in Seq(Fits(p, e)),
         NEW limit \in Int, p + Told(p) <= limit, limit <= CompressionLimit,
         NEW g, Upto(g, p, e), Met(q, x, p, g)
  PROVE  Search(t, p, limit, e, x, q) \in Searched(t, p, e, g)
<1> DEFINE S == Searching(p, e)
           M == t.inserted \union {p}
           w == AtRoot(t, p, x, q)
           m == DepthLimit + 1
           X == [i \in 0 .. m |->
                   {v \in S : /\ Walking(v, M, p) /\ CombingOrCombed(v, t, p, g)
                              /\ v.ended \/ (i <= DepthLimit /\ v.depth = DepthLimit - i)}]
<1>1. Len(src) > 0 /\ DepthLimit \in Nat /\ m \in Nat
  BY LenProperties, MatchTreeAssumption
<1>2. t \in Arrays(k) /\ Sorted(t) /\ Complete(t)
  BY DEF Trees
<1>3. t.inserted \in SUBSET {y \in Nat : y < p}
  BY <1>2 DEF Arrays
<1>4. \A z \in M : z \in 0 .. p
  BY SMTT(60), <1>3
<1>10. /\ Hash(p, 4) \in 0 .. (Buckets - 1)
       /\ t.lookup \in [0 .. (Buckets - 1) -> Nat] /\ t.nodes \in NodeLists
  BY <1>2, HashIn DEF Arrays, NodeLists
<1> HIDE DEF M
<1>5. w \in X[0]
  <2>1. w \in S
    BY <1>2, RootFinds
  <2>2. w.depth = DepthLimit /\ 0 \in 0 .. m /\ DepthLimit - 0 = DepthLimit /\ 0 <= DepthLimit
    BY <1>1 DEF AtRoot
  <2>3. Walking(w, M, p)
    <3>1. t.lookup[Hash(p, 4)] \in Nat /\ Hash(p, 4) \in DOMAIN t.lookup
      BY <1>10
    <3> QED
      BY <1>1, <1>2, <1>3, <1>10, <3>1, RootWalks, Zenon DEF M
  <2>4. CombingOrCombed(w, t, p, g)
    <3>1. Ground(t, p)
      BY <1>1, <1>3, <1>10 DEF Ground
    <3> QED
      BY <1>2, <1>10, <3>1, RootCombs, Zenon
  <2> HIDE DEF S, w
  <2> QED
    BY <2>1, <2>2, <2>3, <2>4
<1>6. ASSUME NEW i \in 1 .. m, NEW v \in X[i - 1]
      PROVE  Visit(v, limit, e) \in X[i]
  <2> DEFINE u == Visit(v, limit, e)
  <2>1. i - 1 \in 0 .. m /\ i \in 0 .. m
    BY <1>1
  <2>2. /\ v \in S /\ Walking(v, M, p) /\ CombingOrCombed(v, t, p, g)
        /\ v.ended \/ (i - 1 <= DepthLimit /\ v.depth = DepthLimit - (i - 1))
    BY <2>1
  <2>3. u \in S
    BY <1>1, <1>4, <2>2, VisitFinds
  <2>10. CombingOrCombed(u, t, p, g)
    <3>1. v \in Searching(p, e)
      BY <2>2
    <3>2. Walking(v, t.inserted \union {p}, p)
      BY <2>2 DEF M
    <3>3. CombingOrCombed(v, t, p, g)
      BY <2>2
    <3>4. t.lookup \in [0 .. (Buckets - 1) -> Nat]
      BY <1>10
    <3>5. Hash(p, 4) \in 0 .. (Buckets - 1)
      BY <1>10
    <3>6. Len(src) > 0
      BY <1>1
    <3> HIDE DEF S, X
    <3> QED
      BY <1>3, <3>1, <3>2, <3>3, <3>4, <3>5, <3>6, VisitCombs, ZenonT(60)
  <2> DEFINE R == {y \in Nat : y >= p}
             E == {y \in Nat : y >= 3 \/ (e <= p /\ y >= 1)}
             Q == Seq(Fits(p, e))
  <2>4. v \in Walk(p, NodeLists, R, E, Q) /\ R \in SUBSET Nat
    BY <2>2 DEF Searching, NodeLists
  <2> HIDE DEF S, R, E, Q, X, u
  <2>5. Walking(u, M, p)
    BY <1>1, <1>4, <2>2, <2>4, VisitWalks DEF u
  <2>6. PICK d \in Int : d = DepthLimit - (i - 1)
    BY <1>1
  <2>7. u.ended \/ (d # 0 /\ u.depth = d - 1)
    <3>1. v.ended \/ v.depth = d
      BY <2>2, <2>6
    <3> QED
      BY ZenonT(60), <2>4, <2>6, <3>1, VisitCounts DEF u
  <2>8. u.ended \/ (i <= DepthLimit /\ u.depth = DepthLimit - i)
    <3>1. d # 0 => i <= DepthLimit
      BY <1>1, <2>6
    <3>2. d - 1 = DepthLimit - i
      BY <1>1, <2>6
    <3> QED
      BY <2>7, <3>1, <3>2
  <2>9. u \in X[i]
    BY <2>1, <2>3, <2>5, <2>8, <2>10 DEF X
  <2> QED
    BY <2>9 DEF u
<1>7. X[m] \subseteq Searched(t, p, e, g)
  <2>1. m \in 0 .. m /\ ~(m <= DepthLimit)
    BY <1>1
  <2> QED
    BY <2>1 DEF Searched, M, CombingOrCombed
<1> HIDE DEF X, w, m, S
<1>8. w = AtRoot(t, p, x, q) /\ m = DepthLimit + 1
  BY DEF w, m
<1>9. Search(t, p, limit, e, x, q) \in X[m]
  BY <1>1, <1>5, <1>6, <1>8, SearchKeeps
<1> QED
  BY <1>7, <1>9

(* A position that is put in after a search.                               *)
LEMMA RootKeeps ==
  ASSUME src \in Seq(Nat), NEW p \in Nat \ {0}, p + 4 <= Len(src), NEW k \in Int, k <= p,
         NEW t \in Trees(k), NEW e \in Int, NEW g, NEW w \in Searched(t, p, e, g)
  PROVE  WithRoot(t, p, w) \in Trees(p + 1)
<1> DEFINE C == [0 .. (Buckets - 1) -> [1 .. Entries -> Nat]]
           L == [0 .. (Buckets - 1) -> Nat]
           h == Hash(p, 3)
           c == SubSeq(<<p>> \o t.chain3[h], 1, Entries)
<1>1. h \in 0 .. (Buckets - 1) /\ Hash(p, 4) \in 0 .. (Buckets - 1)
  <2>1. p + 3 <= Len(src) /\ 3 \in Nat /\ 4 \in Nat
    BY LenProperties
  <2> QED
    BY <2>1, HashIn
<1>2. t.chain3 \in C /\ t.lookup \in L /\ t.inserted \in SUBSET {x \in Nat : x < k} /\ Sorted(t)
      /\ Complete(t)
  BY DEF Trees, Arrays
<1> HIDE DEF h
<1>3. t.chain3[h] \in [1 .. Entries -> Nat]
  BY <1>1, <1>2
<1>4. t.chain3[h] \in Seq(Nat) /\ Len(t.chain3[h]) = Entries /\ Entries \in Nat \ {0}
  <2>1. PICK b \in [1 .. Entries -> Nat] : b = t.chain3[h]
    BY <1>3
  <2>2. Entries \in Nat \ {0}
    BY MatchTreeAssumption
  <2> HIDE DEF C, L, c
  <2>3. b \in Seq(Nat) /\ Len(b) = Entries
    BY SMTT(60), <2>2, SeqDef
  <2> QED
    BY <2>1, <2>2, <2>3
<1>5. <<p>> \o t.chain3[h] \in Seq(Nat) /\ Len(<<p>> \o t.chain3[h]) = Entries + 1
  <2>1. <<p>> \in Seq(Nat) /\ Len(<<p>>) = 1
    OBVIOUS
  <2> QED
    BY SMTT(60), <1>4, <2>1, ConcatProperties
<1>6. c \in [1 .. Entries -> Nat]
  <2>1. PICK s \in Seq(Nat) : s = <<p>> \o t.chain3[h]
    BY <1>5
  <2>2. Len(s) = Entries + 1
    BY <1>5, <2>1
  <2>3. 1 \in 1 .. (Len(s) + 1) /\ Entries \in (1 - 1) .. Len(s)
    BY <1>4, <2>2
  <2>4. SubSeq(s, 1, Entries) \in Seq(Nat) /\ Len(SubSeq(s, 1, Entries)) = Entries - 1 + 1
    BY SMTT(60), <2>3, SubSeqProperties
  <2>5. c = SubSeq(s, 1, Entries)
    BY <2>1
  <2> HIDE DEF c
  <2>6. c \in Seq(Nat) /\ Len(c) = Entries
    BY <1>4, <2>4, <2>5
  <2> QED
    BY SMTT(60), <2>6, SeqDef
<1>7. Pushed(t.chain3, p) = [t.chain3 EXCEPT ![h] = c]
  BY DEF Pushed, h
<1> HIDE DEF c
<1>8. Pushed(t.chain3, p) \in C
  BY <1>1, <1>2, <1>6, <1>7
<1>9. [t.lookup EXCEPT ![Hash(p, 4)] = p] \in L
  BY <1>1, <1>2
<1>10. t.inserted \union {p} \in SUBSET {x \in Nat : x < p + 1}
  BY SMTT(60), <1>2
<1>11. w.nodes \in [0 .. (2 * TreeSize - 1) -> Nat]
  BY DEF Searched, Searching, Walk
<1>12. WithRoot(t, p, w) \in Arrays(p + 1)
  BY <1>8, <1>9, <1>10, <1>11 DEF WithRoot, Arrays
<1>13. Sorted(WithRoot(t, p, w))
  <2>1. t.inserted \in SUBSET {x \in Nat : x < p}
    BY SMTT(60), <1>2
  <2>2. Len(src) > 0
    BY LenProperties
  <2>3. w.ended /\ Walking(w, t.inserted \union {p}, p)
    BY DEF Searched
  <2> HIDE DEF C, c
  <2> QED
    BY <1>2, <2>1, <2>2, <2>3, RootSorts
<1>14. Complete(WithRoot(t, p, w))
  <2>1. Ground(t, p)
    <3>1. Len(src) > 0 /\ t.inserted \in SUBSET {x \in Nat : x < p}
      BY SMTT(60), <1>2, LenProperties
    <3> QED
      BY <1>1, <1>2, <3>1 DEF Ground
  <2>2. Combed(w, t, p, g)
    BY DEF Searched
  <2> QED
    BY <1>2, <2>1, <2>2, RootCompletes, Zenon
<1> QED
  BY <1>12, <1>13, <1>14 DEF Trees

LEMMA NothingWanted ==
  ASSUME NEW p \in Int
  PROVE  \A n \in Wanted(p, p) : FALSE
BY DEF Wanted

(* findLZMatchesAndUpdate: matches from p on, and a tree with p.           *)
LEMMA FindFinds ==
  ASSUME src \in Seq(Nat), NEW p \in Nat \ {0}, p + 4 <= Len(src), NEW k \in Int, k <= p,
         NEW t \in Trees(k), NEW e \in Int, NEW minimum \in Int
  PROVE  /\ Find(t, p, e, minimum).tree \in Trees(p + 1)
         /\ Find(t, p, e, minimum).matches \in Seq(Fits(p, e))
<1> DEFINE S == Finding(p, e)
           b == t.chain3[Hash(p, 3)]
           n == [expected |-> AtLeast(minimum, 3), matches |-> <<>>]
           m == Len(b)
           c == VisitAll(n, p, b, e)
           w == Search(t, p, CompressionLimit, e, c.expected, c.matches)
<1>1. n \in S
  BY DEF Finding, AtLeast
<1>2. b \in [1 .. Entries -> Nat]
  <2>1. p + 3 <= Len(src) /\ 3 \in Nat
    BY LenProperties
  <2>2. Hash(p, 3) \in 0 .. (Buckets - 1)
    BY <2>1, HashIn
  <2> QED
    BY <2>2 DEF Trees, Arrays
<1> HIDE DEF b
<1>3. b \in Seq(Nat) /\ m \in Nat
  BY SMTT(60), <1>2, MatchTreeAssumption
<1>4. ASSUME NEW x \in S, NEW i \in 1 .. m
      PROVE  VisitChain(x, p, b[i], e) \in S
  <2>1. b[i] \in Nat
    BY SMTT(60), <1>3
  <2> QED
    BY <2>1, ChainFinds
<1> HIDE DEF S, n, m
<1>5. m = Len(b)
  BY DEF m
<1>6. c \in S
  BY <1>1, <1>3, <1>4, <1>5, VisitAllKeeps
<1> HIDE DEF c
<1>7. c.expected \in Nat /\ c.expected >= 3 /\ c.matches \in Seq(Fits(p, e))
  BY <1>6 DEF S, Finding
<1>8. CompressionLimit \in Int /\ p + Told(p) <= CompressionLimit
  BY ToldInner
<1>9. w \in Searched(t, p, e, p)
  <2>1. Met(c.matches, c.expected, p, p) /\ Upto(p, p, e)
    <3>1. p \in Int
      OBVIOUS
    <3> QED
      BY <3>1, NothingWanted DEF Met, Upto
  <2> QED
    BY SMTT(60), <1>7, <1>8, <2>1, SearchFinds
<1>10. Find(t, p, e, minimum) = [tree |-> WithRoot(t, p, w), matches |-> w.matches]
  BY DEF Find, c, n, b
<1> HIDE DEF w
<1>11. WithRoot(t, p, w) \in Trees(p + 1)
  BY <1>9, RootKeeps
<1>12. w.matches \in Seq(Fits(p, e))
  BY <1>9 DEF Searched, Searching, Walk
<1> QED
  BY <1>10, <1>11, <1>12

(* A visit of the three-byte table meets what it expects.                  *)
LEMMA ChainMeets ==
  ASSUME NEW p \in Nat, NEW e \in Int, NEW w \in Finding(p, e), Met(w.matches, w.expected, p, e),
         NEW prev \in Nat, NEW v, v = VisitChain(w, p, prev, e)
  PROVE  Met(v.matches, v.expected, p, e)
<1> DEFINE length == CommonLength(p, prev, e)
           m == [length |-> length, distance |-> p - prev]
           r == [w EXCEPT !.matches = Append(@, m), !.expected = length]
<1>1. v = w \/ v = r
  BY DEF VisitChain, Report
<1>2. CASE v = w
  BY <1>2
<1>3. CASE v = r
  <2>1. length \in Nat
    <3>1. p \in Int /\ prev \in Int
      OBVIOUS
    <3>2. length \in 0 .. AtLeast(e - p, 0)
      BY <3>1, CommonFits, Zenon
    <3> QED
      BY <3>2
  <2>2. w.matches \in Seq(Fits(p, e)) /\ DOMAIN w = {"expected", "matches"}
    BY DEF Finding
  <2>3. m.length = length
    OBVIOUS
  <2> HIDE DEF length, m
  <2>4. v.matches = Append(w.matches, m) /\ v.expected = length
    BY <1>3, <2>2
  <2>5. PICK k \in Nat : k = Len(w.matches) /\ DOMAIN w.matches = 1 .. k
    BY <2>2
  <2>6. DOMAIN v.matches = 1 .. (k + 1) /\ v.matches[k + 1] = m
    BY <2>2, <2>4, <2>5
  <2>7. ASSUME NEW n \in Wanted(p, e), n < length
        PROVE  Has(v.matches, n)
    <3>1. n \in Nat /\ k + 1 \in 1 .. (k + 1)
      BY DEF Wanted
    <3> QED
      BY <2>1, <2>3, <2>6, <2>7, <3>1 DEF Has
  <2> QED
    BY <2>4, <2>7 DEF Met
<1> QED
  BY <1>1, <1>2, <1>3

(* findLZMatchesAndUpdate: for a position of the tree that is not lost, it *)
(* gives a match of as many bytes as it has in common with p.              *)
LEMMA FindMisses ==
  ASSUME src \in Seq(Nat), NEW p \in Nat \ {0}, p + 4 <= Len(src), NEW k \in Int, k <= p,
         NEW t \in Trees(k), NEW e \in Int
  PROVE  \A x \in t.inserted : x > TreeEnd(p) /\ Kin(x, p) =>
           Lost(x, t.inserted, p) \/ Matched(x, Find(t, p, e, 3).matches, p, e)
<1> DEFINE S == {w \in Finding(p, e) : Met(w.matches, w.expected, p, e)}
           b == t.chain3[Hash(p, 3)]
           n == [expected |-> 3, matches |-> <<>>]
           m == Len(b)
           c == VisitAll(n, p, b, e)
           w == Search(t, p, CompressionLimit, e, c.expected, c.matches)
<1>1. n \in S
  <2>1. n \in Finding(p, e)
    BY DEF Finding
  <2>2. Met(<<>>, 3, p, e)
    BY DEF Met, Wanted
  <2> QED
    BY <2>1, <2>2
<1>2. b \in [1 .. Entries -> Nat]
  <2>1. p + 3 <= Len(src) /\ 3 \in Nat
    BY LenProperties
  <2>2. Hash(p, 3) \in 0 .. (Buckets - 1)
    BY <2>1, HashIn
  <2> QED
    BY <2>2 DEF Trees, Arrays
<1> HIDE DEF b
<1>3. b \in Seq(Nat) /\ m \in Nat
  BY SMTT(60), <1>2, MatchTreeAssumption
<1>4. ASSUME NEW x \in S, NEW i \in 1 .. m
      PROVE  VisitChain(x, p, b[i], e) \in S
  <2>1. b[i] \in Nat
    BY SMTT(60), <1>3
  <2>2. PICK v : v = VisitChain(x, p, b[i], e)
    OBVIOUS
  <2>3. v \in Finding(p, e)
    BY <2>1, <2>2, ChainFinds
  <2>4. x \in Finding(p, e) /\ Met(x.matches, x.expected, p, e) /\ p \in Nat
    OBVIOUS
  <2>5. Met(v.matches, v.expected, p, e)
    BY <2>1, <2>2, <2>4, ChainMeets, Zenon
  <2> QED
    BY <2>2, <2>3, <2>5
<1> HIDE DEF S, n, m
<1>5. m = Len(b)
  BY DEF m
<1>6. c \in S
  BY <1>1, <1>3, <1>4, <1>5, VisitAllKeeps
<1> HIDE DEF c
<1>7. /\ c.expected \in Nat /\ c.expected >= 3 /\ c.matches \in Seq(Fits(p, e))
      /\ Met(c.matches, c.expected, p, e)
  BY <1>6 DEF S, Finding
<1>8. CompressionLimit \in Int /\ p + Told(p) <= CompressionLimit
  BY ToldInner
<1>9. w \in Searched(t, p, e, e)
  <2>1. Upto(e, p, e)
    BY DEF Upto
  <2> QED
    BY SMTT(60), <1>7, <1>8, <2>1, SearchFinds
<1>10. Find(t, p, e, 3).matches = w.matches
  <2>1. AtLeast(3, 3) = 3
    BY DEF AtLeast
  <2> QED
    BY <2>1 DEF Find, c, n, b
<1> HIDE DEF w
<1> QED
  BY <1>9, <1>10 DEF Searched, Combed

(* The latest position of a tree.                                          *)
LEMMA LatestIs ==
  ASSUME inserted \in SUBSET Nat, inserted # {}, NEW l \in inserted \union {0}, \A x \in inserted : x <= l
  PROVE  Latest = l
<1>1. l \in inserted
  <2>1. PICK x \in inserted : x \in Nat /\ x <= l
    OBVIOUS
  <2>2. l = 0 => x = l
    BY <2>1
  <2> QED
    BY <2>2
<1>2. Latest = CHOOSE x \in inserted : \A q \in inserted : q <= x
  BY DEF Latest
<1>3. Latest \in inserted /\ \A q \in inserted : q <= Latest
  BY <1>1, <1>2
<1> QED
  BY <1>1, <1>3

(* A search that may visit all of a tree loses no position in reach.       *)
LEMMA NoneLost ==
  ASSUME NEW A \in SUBSET Nat, NEW p \in Nat, \A x \in A : x < p, src \in Seq(Nat), Len(src) > 0,
         NEW q \in A, q > TreeEnd(p), Kin(q, p), p - q <= Farthest,
         Cardinality({x \in A : x > TreeEnd(p) /\ Kin(x, p)}) <= DepthLimit
  PROVE  ~Lost(q, A, p)
<1> DEFINE visible == {x \in A : x > TreeEnd(p) /\ Kin(x, p)}
<1>1. IsFiniteSet(visible)
  <2>1. visible \in SUBSET (0 .. p)
    <3>1. \A x \in visible : x \in Nat /\ x < p
      OBVIOUS
    <3> HIDE DEF visible
    <3> QED
      BY <3>1
  <2>2. IsFiniteSet(0 .. p)
    BY FS_Interval
  <2> QED
    BY <2>1, <2>2, FS_Subset
<1>2. Farthest \in Int /\ DepthLimit \in Nat /\ TreeEnd(p) \in Nat
  BY SourceBytesAssumption, MatchTreeAssumption, Nodes
<1>3. ~(p - q > Farthest)
  BY <1>2
<1>4. ASSUME NEW D \in SUBSET A, IsFiniteSet(D), Cardinality(D) = DepthLimit,
             \A z \in D : z > q /\ Kin(z, q)
      PROVE  FALSE
  <2>1. q \notin D
    BY <1>4
  <2>2. Cardinality(D \union {q}) = DepthLimit + 1
    BY <1>4, <2>1, FS_AddElement
  <2>3. D \union {q} \in SUBSET visible
    <3>1. ASSUME NEW z \in D
          PROVE  z \in visible
      <4>1. z \in A /\ z > TreeEnd(p)
        BY <1>2, <1>4
      <4>2. Kin(z, p)
        BY <1>4 DEF Kin
      <4> QED
        BY <4>1, <4>2
    <3> QED
      BY <3>1
  <2>4. Cardinality(D \union {q}) <= Cardinality(visible)
    BY <1>1, <2>3, FS_Subset
  <2>5. Cardinality(visible) \in Nat
    BY <1>1, FS_CardinalityType
  <2> HIDE DEF visible
  <2>6. Cardinality(visible) <= DepthLimit
    BY DEF visible
  <2> QED
    BY <1>2, <2>2, <2>4, <2>5, <2>6
<1> QED
  BY <1>3, <1>4 DEF Lost

(* updatePosition, for one position and for several.                       *)
LEMMA UpdateKeeps ==
  ASSUME src \in Seq(Nat), NEW p \in Nat \ {0}, p + 4 <= Len(src), NEW k \in Int, k <= p,
         NEW t \in Trees(k)
  PROVE  Update(t, p) \in Trees(p + 1)
<1> DEFINE limit == AtMost(CompressionLimit, p + NiceLength)
           w == Search(t, p, limit, p, p + 1, <<>>)
<1>1. limit \in Int /\ p + Told(p) <= limit /\ limit <= CompressionLimit
  BY SMTT(60), LenProperties, SourceBytesAssumption, MatchTreeAssumption DEF CompressionLimit, AtMost, Told
<1>2. p \in Int /\ p + 1 \in Nat /\ (p + 1 >= 3 \/ (p <= p /\ p + 1 >= 1))
      /\ <<>> \in Seq(Fits(p, p))
  OBVIOUS
<1> HIDE DEF limit
<1>3. w \in Searched(t, p, p, p)
  <2>1. Met(<<>>, p + 1, p, p) /\ Upto(p, p, p)
    <3>1. p \in Int
      OBVIOUS
    <3> QED
      BY <3>1, NothingWanted DEF Met, Upto
  <2> QED
    BY <1>1, <1>2, <2>1, SearchFinds
<1>4. Update(t, p) = WithRoot(t, p, w)
  BY DEF Update, limit
<1> HIDE DEF w
<1> QED
  BY <1>2, <1>3, <1>4, RootKeeps

(* Positions that are put into the tree, one after the other.              *)
LEMMA UpdatesKeep ==
  ASSUME src \in Seq(Nat), NEW j \in Int, NEW from \in Nat \ {0}, j <= from,
         NEW to \in Int, to <= CompressionLimit,
         NEW k \in Int, j <= k, to <= k, NEW t \in Trees(j)
  PROVE  UpdateAll(t, from, to) \in Trees(k)
<1> DEFINE m == AtLeast(to - from, 0)
           X == [i \in 0 .. m |-> IF i = 0 THEN Trees(j) ELSE Trees(from + i)]
<1>1. m \in Nat /\ (m > 0 => from + m = to)
  BY DEF AtLeast
<1>2. ASSUME NEW i \in 1 .. m, NEW x \in X[i - 1]
      PROVE  Update(x, from + i - 1) \in X[i]
  <2>1. /\ from + i - 1 \in Nat \ {0} /\ from + i - 1 < to /\ i - 1 \in 0 .. m /\ i \in 0 .. m /\ i # 0
        /\ from + i - 1 + 1 = from + i
    BY DEF AtLeast
  <2>2. from + i - 1 + 4 <= Len(src)
    BY <2>1, LenProperties, SourceBytesAssumption DEF CompressionLimit
  <2>3. PICK l \in Int : l <= from + i - 1 /\ x \in Trees(l)
    <3>1. CASE i - 1 = 0
      <4>1. X[i - 1] = Trees(j) /\ j <= from + i - 1
        BY <2>1, <3>1
      <4> QED
        BY <4>1
    <3>2. CASE i - 1 # 0
      <4>1. X[i - 1] = Trees(from + (i - 1)) /\ from + (i - 1) <= from + i - 1 /\ from + (i - 1) \in Int
        BY <2>1, <3>2
      <4> QED
        BY <4>1
    <3> QED
      BY <3>1, <3>2
  <2>4. Update(x, from + i - 1) \in Trees(from + i - 1 + 1)
    BY <2>1, <2>2, <2>3, UpdateKeeps
  <2>5. X[i] = Trees(from + i)
    BY <2>1
  <2> QED
    BY <2>1, <2>4, <2>5
<1>3. X[0] = Trees(j) /\ X[m] \subseteq Trees(k)
  <2>1. 0 \in 0 .. m /\ m \in 0 .. m
    BY <1>1
  <2>2. CASE m = 0
    BY <2>1, <2>2, TreesMore
  <2>3. CASE m # 0
    <3>1. X[m] = Trees(from + m) /\ from + m \in Int /\ from + m <= k
      BY <1>1, <2>1, <2>3
    <3> QED
      BY <2>1, <3>1, TreesMore
  <2> QED
    BY <2>2, <2>3
<1> HIDE DEF m, X
<1>4. m = AtLeast(to - from, 0) /\ t \in X[0]
  BY <1>3 DEF m
<1>5. UpdateAll(t, from, to) \in X[m]
  BY <1>1, <1>2, <1>4, UpdateAllKeeps
<1> QED
  BY <1>3, <1>5

-----------------------------------------------------------------------------
(* The order of a tree outside a step.                                     *)

(* The order of a tree is one of the source.                               *)
LEMMA OrderStays ==
  ASSUME src' = src
  PROVE  \A k : Trees(k)' = Trees(k)
<1>1. /\ TreeSize' = TreeSize /\ CompressionLimit' = CompressionLimit
      /\ \A x : Byte(x)' = Byte(x)
  BY DEF TreeSize, CompressionLimit, Byte
<1>2. \A x, y, n : Agree(x, y, n)' = Agree(x, y, n)
  BY <1>1 DEF Agree
<1>3. \A x, y, n : NotAfter(x, y, n)' = NotAfter(x, y, n)
  BY <1>1, <1>2 DEF NotAfter
<1>4. \A side, y, x, n : OnSide(side, y, x, n)' = OnSide(side, y, x, n)
  BY <1>3 DEF OnSide
<1>5. \A x : Told(x)' = Told(x)
  BY <1>1 DEF Told
<1>6. \A x, side : Side(x, side)' = Side(x, side)
  BY <1>4, <1>5 DEF Side
<1>7. \A x : /\ TreeEnd(x)' = TreeEnd(x) /\ NodeIndex(x)' = NodeIndex(x)
             /\ \A side : Slot(x, side)' = Slot(x, side)
  BY <1>1 DEF TreeEnd, NodeIndex, Slot
<1>8. \A c, x, side, S, M, l : Placed(c, x, side, S, M, l)' = Placed(c, x, side, S, M, l)
  BY ZenonT(60), <1>6, <1>7 DEF Placed
<1>9. \A nds, S, M, l, open : Ordered(nds, S, M, l, open)' = Ordered(nds, S, M, l, open)
  <2> TAKE nds, S, M, l, open
  <2>1. TreeEnd(l)' = TreeEnd(l)
    BY <1>7
  <2>2. \A x, side : /\ Slot(x, side)' = Slot(x, side)
                     /\ Placed(nds[Slot(x, side)], x, side, S, M, l)'
                          = Placed(nds[Slot(x, side)], x, side, S, M, l)
    BY <1>7, <1>8
  <2> QED
    BY <2>1, <2>2 DEF Ordered
<1>10. \A t : Sorted(t)' = Sorted(t)
  BY <1>7, <1>9, Zenon DEF Sorted, Subtrees
<1>11. \A k : Arrays(k)' = Arrays(k)
  BY <1>1 DEF Arrays
<1>12. \A x, n : Hash(x, n)' = Hash(x, n)
  BY <1>1 DEF Hash
<1>13. \A x, y : Kin(x, y)' = Kin(x, y) /\ Stands(x, y)' = Stands(x, y)
  BY <1>2, <1>5, <1>12 DEF Kin, Stands
<1>14. \A x, A, l : Lost(x, A, l)' = Lost(x, A, l)
  BY <1>13 DEF Lost
<1>15. \A nds, M, l, open : Related(nds, M, l, open)' = Related(nds, M, l, open)
  BY <1>7, <1>13 DEF Related
<1>16. \A nds, X, Z, l, open, roots : Hung(nds, X, Z, l, open, roots)' = Hung(nds, X, Z, l, open, roots)
  BY <1>7, <1>12, <1>13 DEF Hung
<1>17. \A T, A, l : Standing(T, A, l)' = Standing(T, A, l)
  BY <1>7, <1>13, <1>14 DEF Standing
<1>18. \A t : Complete(t)' = Complete(t)
  BY <1>7, <1>12, <1>15, <1>16, <1>17 DEF Complete
<1> QED
  BY <1>10, <1>11, <1>18 DEF Trees

=============================================================================
