--------------------------- MODULE NaturalLemmas ----------------------------
(***************************************************************************)
(* Facts about natural numbers that the proofs of the other modules use:   *)
(* quotients and products, induction, and counting.                        *)
(***************************************************************************)
EXTENDS Integers, FiniteSets, FiniteSetTheorems, WellFoundedInduction, TLAPS

(* Division and remainder of naturals. *)
LEMMA DivMod ==
  ASSUME NEW x \in Nat, NEW r \in Nat \ {0}
  PROVE  /\ x \div r \in Nat
         /\ x % r \in 0 .. (r - 1)
         /\ x = r * (x \div r) + (x % r)
OBVIOUS

(* A quotient is below every bound its dividend respects.                  *)
LEMMA DivLess ==
  ASSUME NEW x \in Nat, NEW r \in Nat \ {0}, NEW m \in Nat, x < r * m
  PROVE  x \div r < m
<1> DEFINE q == x \div r
           a == x % r
<1>1. q \in Nat /\ a \in 0 .. (r - 1) /\ x = r * q + a
  BY DivMod
<1> HIDE DEF q, a
<1>2. SUFFICES ASSUME q >= m PROVE FALSE
  BY <1>1 DEF q
<1>3. PICK k \in Nat : q = m + k
  <2>1. q - m \in Nat /\ q = m + (q - m)
    BY <1>1, <1>2
  <2> QED
    BY <2>1
<1>4. r * q = r * m + r * k /\ r * k \in Nat /\ r * m \in Nat
  BY <1>3
<1> QED
  BY <1>1, <1>4

(* A number below the divisor is its own remainder.                        *)
LEMMA ModSmall ==
  ASSUME NEW r \in Nat \ {0}, NEW x \in 0 .. (r - 1)
  PROVE  x % r = x
OBVIOUS

(* Remainders of integers, and a difference that is undone by a sum.       *)
LEMMA ModRange ==
  ASSUME NEW x \in Int, NEW r \in Nat \ {0}
  PROVE  x % r \in 0 .. (r - 1)
OBVIOUS

(* A difference below r is undone by the sum below r. *)
LEMMA ModBack ==
  ASSUME NEW r \in Nat \ {0}, NEW v \in 0 .. (r - 1), NEW x \in 0 .. (r - 1)
  PROVE  (((v - x) % r) + x) % r = v
OBVIOUS

(* Products keep the order of their factors. *)
LEMMA TimesMonotone ==
  ASSUME NEW a \in Nat, NEW b \in Nat, NEW s \in Nat, a <= b
  PROVE  a * s \in Nat /\ b * s \in Nat /\ a * s <= b * s
<1>1. PICK k \in Nat : b = a + k
  <2>1. b - a \in Nat /\ b = a + (b - a)
    OBVIOUS
  <2> QED
    BY <2>1
<1>2. b * s = a * s + k * s /\ k * s \in Nat /\ a * s \in Nat
  BY <1>1
<1> QED
  BY <1>2

(* A number has one quotient and one remainder.                            *)
LEMMA OneQuotient ==
  ASSUME NEW r \in Nat \ {0}, NEW q \in Nat, NEW p \in Nat,
         NEW a \in 0 .. (r - 1), NEW b \in 0 .. (r - 1), r * q + a = r * p + b
  PROVE  q = p /\ a = b
<1>1. ASSUME NEW x \in Nat, NEW y \in Nat, NEW c \in 0 .. (r - 1), NEW d \in 0 .. (r - 1),
             r * x + c = r * y + d, x < y
      PROVE  FALSE
  <2>1. PICK k \in Nat : y = x + 1 + k
    <3>1. y - x - 1 \in Nat /\ y = x + 1 + (y - x - 1)
      BY <1>1
    <3> QED
      BY <3>1
  <2>2. r * y = r * x + r + r * k /\ r * k \in Nat /\ r * x \in Nat
    BY <2>1
  <2> QED
    BY <2>2, <1>1
<1>2. ~(q < p) /\ ~(p < q)
  BY <1>1
<1>3. q = p
  BY <1>2
<1> QED
  BY <1>3

(* A remainder does not change when multiples of the divisor are added.    *)
LEMMA ModMultiple ==
  ASSUME NEW r \in Nat \ {0}, NEW y \in Nat, NEW m \in Nat
  PROVE  (y + m * r) % r = y % r /\ (m * r) \div r = m
<1> DEFINE q == y \div r
           a == y % r
           x == y + m * r
           p == x \div r
           b == x % r
<1>1. q \in Nat /\ a \in 0 .. (r - 1) /\ y = r * q + a
  BY DivMod
<1>2. x \in Nat /\ m * r \in Nat
  OBVIOUS
<1> HIDE DEF x
<1>3. p \in Nat /\ b \in 0 .. (r - 1) /\ x = r * p + b
  BY <1>2, DivMod
<1> HIDE DEF q, a, p, b
<1>4. r * (q + m) = r * q + m * r /\ q + m \in Nat /\ r * q \in Nat
  BY <1>1
<1>5. r * (q + m) + a = r * p + b
  BY <1>1, <1>2, <1>3, <1>4 DEF x
<1>6. a = b
  BY <1>1, <1>3, <1>4, <1>5, OneQuotient
<1>7. (m * r) \div r = m
  <2> DEFINE z == m * r
             e == z \div r
             f == z % r
  <2>1. e \in Nat /\ f \in 0 .. (r - 1) /\ z = r * e + f
    <3> HIDE DEF z
    <3>1. z \in Nat
      BY <1>2 DEF z
    <3> QED
      BY <3>1, DivMod
  <2> HIDE DEF e, f
  <2>2. r * m + 0 = r * e + f /\ 0 \in 0 .. (r - 1)
    BY <2>1
  <2>3. m = e
    BY <2>1, <2>2, OneQuotient
  <2> QED
    BY <2>3 DEF e
<1> QED
  BY <1>6, <1>7 DEF a, b, x

(* A remainder does not change when the divisor is taken off.              *)
LEMMA ModShift ==
  ASSUME NEW r \in Nat \ {0}, NEW x \in Nat, x >= r
  PROVE  x % r = (x - r) % r
<1>1. x - r \in Nat /\ (x - r) + 1 * r = x
  OBVIOUS
<1>2. ((x - r) + 1 * r) % r = (x - r) % r
  BY <1>1, ModMultiple
<1> QED
  BY <1>1, <1>2

-----------------------------------------------------------------------------
(* A set of naturals that is not empty has a least element.                *)
LEMMA LeastNatural ==
  ASSUME NEW T \in SUBSET Nat, T # {}
  PROVE  \E m \in T : \A k \in T : m <= k
<1> DEFINE R == OpToRel(<, Nat)
<1>1. IsWellFoundedOn(R, Nat)
  BY NatLessThanWellFounded
<1>2. \A x, y \in Nat : <<y, x>> \in R <=> y < x
  BY DEF OpToRel
<1> HIDE DEF R
<1>3. \E m \in T : \A k \in T : ~ (<<k, m>> \in R)
  BY <1>1, WFMin
<1>4. PICK m \in T : \A k \in T : ~ (<<k, m>> \in R)
  BY <1>3
<1>5. ASSUME NEW k \in T
      PROVE  m <= k
  <2>1. ~ (k < m)
    BY <1>2, <1>4
  <2> QED
    BY <2>1
<1> QED
  BY <1>5

(* Induction, stated of a set.                                             *)
LEMMA NaturalsAll ==
  ASSUME NEW T \in SUBSET Nat, 0 \in T, \A n \in T : n + 1 \in T
  PROVE  T = Nat
<1> SUFFICES ASSUME T # Nat
             PROVE  FALSE
  OBVIOUS
<1>1. PICK m \in Nat \ T : \A k \in Nat \ T : m <= k
  <2>1. Nat \ T # {} /\ Nat \ T \in SUBSET Nat
    OBVIOUS
  <2> QED
    BY <2>1, LeastNatural
<1>2. m - 1 \in T
  BY <1>1
<1> QED
  BY <1>1, <1>2

(* Induction up to n.                                                      *)
LEMMA UpTo ==
  ASSUME NEW n \in Nat, NEW T, 0 \in T, \A i \in 0 .. (n - 1) : i \in T => i + 1 \in T
  PROVE  \A i \in 0 .. n : i \in T
<1> DEFINE G == {i \in Nat : i <= n => i \in T}
<1>1. 0 \in G
  OBVIOUS
<1>2. ASSUME NEW i \in G
      PROVE  i + 1 \in G
  OBVIOUS
<1>3. G \in SUBSET Nat
  OBVIOUS
<1> HIDE DEF G
<1>4. G = Nat
  BY <1>1, <1>2, <1>3, NaturalsAll
<1> QED
  BY <1>4 DEF G

(* The functions that F makes of x0, step by step.                         *)
Recursive(X, x0, n, F) ==
  {f \in [0 .. n -> X] : f[0] = x0 /\ \A i \in 1 .. n : f[i] = F[i][f[i - 1]]}

(* A recursion over 0 .. n has a solution.                                 *)
LEMMA Recursion ==
  ASSUME NEW X, NEW x0 \in X, NEW n \in Nat, NEW F \in [1 .. n -> [X -> X]]
  PROVE  Recursive(X, x0, n, F) # {}
<1> DEFINE Solves(f, m) ==
             /\ f \in [0 .. m -> X]
             /\ \A i \in 0 .. m : f[i] = IF i = 0 THEN x0 ELSE F[i][f[i - 1]]
           T == {m \in 0 .. n : \E f : Solves(f, m)}
<1>1. 0 \in T
  <2> DEFINE f == [i \in 0 .. 0 |-> x0]
  <2>1. Solves(f, 0)
    OBVIOUS
  <2> HIDE DEF Solves, f
  <2>2. \E x : Solves(x, 0)
    BY <2>1
  <2> QED
    BY <2>2
<1>2. ASSUME NEW m \in 0 .. (n - 1), m \in T
      PROVE  m + 1 \in T
  <2>1. PICK f : Solves(f, m)
    BY <1>2
  <2> DEFINE g == [i \in 0 .. (m + 1) |-> IF i = m + 1 THEN F[m + 1][f[m]] ELSE f[i]]
  <2>2. F[m + 1][f[m]] \in X
    <3>1. m + 1 \in 1 .. n /\ f[m] \in X
      BY <2>1
    <3> QED
      BY <3>1
  <2>3. g \in [0 .. (m + 1) -> X]
    BY <2>1, <2>2
  <2>4. ASSUME NEW i \in 0 .. (m + 1)
        PROVE  g[i] = IF i = 0 THEN x0 ELSE F[i][g[i - 1]]
    <3>1. CASE i = m + 1
      <4>1. i # 0 /\ i - 1 = m /\ m # m + 1 /\ m \in 0 .. (m + 1)
        BY <3>1
      <4>2. g[m] = f[m]
        BY <4>1
      <4> QED
        BY <3>1, <4>1, <4>2
    <3>2. CASE i # m + 1
      <4>1. i \in 0 .. m /\ g[i] = f[i]
        BY <3>2
      <4>2. i # 0 => i - 1 \in 0 .. (m + 1) /\ i - 1 # m + 1
        BY <4>1
      <4>3. i # 0 => g[i - 1] = f[i - 1]
        BY <4>2
      <4> QED
        BY <2>1, <4>1, <4>3
    <3> QED
      BY <3>1, <3>2
  <2> HIDE DEF g
  <2>5. Solves(g, m + 1)
    BY <2>3, <2>4
  <2> HIDE DEF Solves
  <2> QED
    BY <2>5
<1> HIDE DEF T, Solves
<1>3. n \in T
  <2>1. \A m \in 0 .. (n - 1) : m \in T => m + 1 \in T
    BY <1>2
  <2>2. \A m \in 0 .. n : m \in T
    BY <1>1, <2>1, UpTo
  <2> QED
    BY <2>2
<1>4. PICK f : Solves(f, n)
  BY <1>3 DEF T
<1>5. f \in [0 .. n -> X] /\ f[0] = x0 /\ \A i \in 1 .. n : f[i] = F[i][f[i - 1]]
  BY <1>4 DEF Solves
<1> QED
  BY <1>5 DEF Recursive

(* What a recursion begins with and every step keeps, it ends with.        *)
LEMMA Stays ==
  ASSUME NEW n \in Nat, NEW X, NEW g, g[0] \in X,
         \A i \in 1 .. n : g[i - 1] \in X => g[i] \in X
  PROVE  g[n] \in X
<1> DEFINE T == {i \in 0 .. n : g[i] \in X}
<1>1. 0 \in T
  OBVIOUS
<1>2. ASSUME NEW i \in 0 .. (n - 1), i \in T
      PROVE  i + 1 \in T
  <2>1. i + 1 \in 1 .. n /\ (i + 1) - 1 = i
    OBVIOUS
  <2> QED
    BY <1>2, <2>1
<1> HIDE DEF T
<1>3. \A i \in 0 .. (n - 1) : i \in T => i + 1 \in T
  BY <1>2
<1>4. n \in T
  BY <1>1, <1>3, UpTo
<1> QED
  BY <1>4 DEF T

(* Counting the members of T up to m + n in two parts.                     *)
LEMMA CountParts ==
  ASSUME NEW T \in SUBSET Nat, NEW m \in Nat, NEW n \in Nat
  PROVE  /\ Cardinality({i \in 1 .. (m + n) : i \in T})
              = Cardinality({i \in 1 .. m : i \in T})
                  + Cardinality({i \in 1 .. n : m + i \in T})
         /\ Cardinality({i \in 1 .. m : i \in T}) \in Nat
         /\ Cardinality({i \in 1 .. n : m + i \in T}) \in Nat
<1> DEFINE A(k) == {i \in 1 .. k : i \in T}
           B(k) == {i \in 1 .. k : m + i \in T}
           Good == {k \in Nat : Cardinality(A(m + k)) = Cardinality(A(m)) + Cardinality(B(k))}
<1>1. \A k \in Nat : /\ IsFiniteSet(A(k)) /\ IsFiniteSet(B(k))
                     /\ Cardinality(A(k)) \in Nat /\ Cardinality(B(k)) \in Nat
  <2> TAKE k \in Nat
  <2>1. IsFiniteSet(1 .. k)
    BY FS_Interval
  <2>2. A(k) \in SUBSET (1 .. k) /\ B(k) \in SUBSET (1 .. k)
    OBVIOUS
  <2>3. IsFiniteSet(A(k)) /\ IsFiniteSet(B(k))
    BY <2>1, <2>2, FS_Subset
  <2> QED
    BY <2>3, FS_CardinalityType
<1>2. 0 \in Good
  <2>1. A(m + 0) = A(m) /\ B(0) = {}
    OBVIOUS
  <2>2. Cardinality(B(0)) = 0
    BY <2>1, FS_EmptySet
  <2> HIDE DEF A, B
  <2> QED
    BY <2>1, <2>2, <1>1
<1>3. ASSUME NEW k \in Good
      PROVE  k + 1 \in Good
  <2>1. CASE m + (k + 1) \in T
    <3>1. A(m + (k + 1)) = A(m + k) \cup {m + (k + 1)} /\ m + (k + 1) \notin A(m + k)
      BY <2>1
    <3>2. B(k + 1) = B(k) \cup {k + 1} /\ k + 1 \notin B(k)
      BY <2>1
    <3> HIDE DEF A, B
    <3>3. IsFiniteSet(A(m + k)) /\ IsFiniteSet(B(k))
      <4>1. k \in Nat /\ m + k \in Nat
        OBVIOUS
      <4> QED
        BY <4>1, <1>1
    <3>4. /\ Cardinality(A(m + (k + 1))) = Cardinality(A(m + k)) + 1
          /\ Cardinality(B(k + 1)) = Cardinality(B(k)) + 1
      BY <3>1, <3>2, <3>3, FS_AddElement
    <3> QED
      BY <3>4, <1>1
  <2>2. CASE m + (k + 1) \notin T
    <3>1. A(m + (k + 1)) = A(m + k) /\ B(k + 1) = B(k)
      BY <2>2
    <3> QED
      BY <3>1, <1>1
  <2> QED
    BY <2>1, <2>2
<1>4. n \in Good
  <2>1. Good \in SUBSET Nat
    OBVIOUS
  <2> HIDE DEF Good
  <2>2. Good = Nat
    BY <2>1, <1>2, <1>3, NaturalsAll
  <2> QED
    BY <2>2
<1> QED
  BY <1>1, <1>4

=============================================================================
