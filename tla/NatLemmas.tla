----------------------------- MODULE NatLemmas -----------------------------
(***************************************************************************)
(* Facts about sets of naturals that the proofs about the components cite. *)
(***************************************************************************)
EXTENDS Integers, FiniteSetsExt, WellFoundedInduction, FiniteSetTheorems, TLAPS

\* Every set of naturals that is not empty has a least element: what the
\* proofs use in place of induction.
LEMMA LeastNatural ==
  ASSUME NEW S, S \subseteq Nat, S # {}
  PROVE  \E x \in S : \A y \in S : x <= y
<1> DEFINE R == {ss \in Nat \X Nat : ss[1] < ss[2]}
<1>1. IsWellFoundedOn(R, Nat)
  BY NatLessThanWellFounded DEF OpToRel
<1>2. \A x, y \in Nat : <<y, x>> \in R <=> y < x
  OBVIOUS
<1> HIDE DEF R
<1>3. PICK x \in S : \A y \in S : <<y, x>> \notin R
  BY <1>1, WFMin
<1>4. ASSUME NEW y \in S PROVE x <= y
  <2>1. x \in Nat /\ y \in Nat
    OBVIOUS
  <2>2. ~(y < x)
    BY <1>2, <1>3, <2>1
  <2> QED
    BY <2>1, <2>2
<1> QED
  BY <1>4

\* The minimum of a set of naturals, and of the positions in an interval
LEMMA MinOf ==
  ASSUME NEW S, S \subseteq Nat, S # {}
  PROVE  Min(S) \in S /\ \A y \in S : Min(S) <= y
BY LeastNatural DEF Min

\* Of two naturals
LEMMA MinMaxOfPair ==
  ASSUME NEW a \in Nat, NEW b \in Nat
  PROVE  /\ Min({a, b}) = IF a <= b THEN a ELSE b
         /\ Max({a, b}) = IF a <= b THEN b ELSE a
<1>1. \E x \in {a, b} : \A y \in {a, b} : x <= y
  OBVIOUS
<1>2. \E x \in {a, b} : \A y \in {a, b} : x >= y
  OBVIOUS
<1> QED
  BY <1>1, <1>2 DEF Min, Max

-----------------------------------------------------------------------------
\* A power of two counts the subsets of a set.
LEMMA PowerOfTwo ==
  ASSUME NEW k \in Nat
  PROVE  2^k \in Nat /\ 2^k > 0
<1>1. IsFiniteSet(1 .. k) /\ Cardinality(1 .. k) = k
  BY FS_Interval
<1>2. IsFiniteSet(SUBSET (1 .. k)) /\ Cardinality(SUBSET (1 .. k)) = 2^k
  BY <1>1, FS_SUBSET
<1>3. SUBSET (1 .. k) # {}
  OBVIOUS
<1>4. Cardinality(SUBSET (1 .. k)) \in Nat
  BY <1>2, FS_CardinalityType
<1>5. Cardinality(SUBSET (1 .. k)) # 0
  BY <1>2, <1>3, FS_EmptySet
<1> QED
  BY <1>2, <1>4, <1>5

\* 2^0, and the double of a power
LEMMA PowerStep ==
  /\ 2^0 = 1
  /\ \A k \in Nat : 2^(k + 1) = 2 * 2^k
<1>1. 2^0 = 1
  <2>1. IsFiniteSet({}) /\ Cardinality({}) = 0
    BY FS_EmptySet
  <2>2. Cardinality(SUBSET {}) = 2^0
    BY <2>1, FS_SUBSET
  <2>3. SUBSET {} = {{}}
    OBVIOUS
  <2>4. Cardinality({{}}) = 1
    BY FS_Singleton
  <2> QED
    BY <2>2, <2>3, <2>4
<1>2. ASSUME NEW k \in Nat
      PROVE  2^(k + 1) = 2 * 2^k
  <2> DEFINE S == SUBSET (1 .. k)
             T == {x \cup {k + 1} : x \in S}
             f == [x \in S |-> x \cup {k + 1}]
  <2>1. /\ IsFiniteSet(1 .. k) /\ Cardinality(1 .. k) = k
        /\ IsFiniteSet(1 .. k + 1) /\ Cardinality(1 .. k + 1) = k + 1
    <3>1. IsFiniteSet(1 .. k) /\ Cardinality(1 .. k) = k
      BY FS_Interval
    <3>2. k + 1 \in Nat /\ 1 \in Int /\ k + 1 \in Int
      OBVIOUS
    <3>3. IsFiniteSet(1 .. k + 1) /\ Cardinality(1 .. k + 1) = IF 1 > k + 1 THEN 0 ELSE (k + 1) - 1 + 1
      BY <3>2, FS_Interval
    <3> QED
      BY <3>1, <3>3
  <2>2. IsFiniteSet(S) /\ Cardinality(S) = 2^k
    BY <2>1, FS_SUBSET
  <2>3. IsFiniteSet(SUBSET (1 .. k + 1)) /\ Cardinality(SUBSET (1 .. k + 1)) = 2^(k + 1)
    BY <2>1, FS_SUBSET
  <2>4. f \in Bijection(S, T)
    <3>1. \A x \in S : k + 1 \notin x
      OBVIOUS
    <3>2. f \in Injection(S, T)
      <4>1. \A x \in S, y \in S : x \cup {k + 1} = y \cup {k + 1} => x = y
        BY <3>1
      <4>2. f \in [S -> T]
        OBVIOUS
      <4>3. \A x \in S : f[x] = x \cup {k + 1}
        OBVIOUS
      <4> QED
        BY <4>1, <4>2, <4>3 DEF Injection, IsInjective
    <3>3. f \in Surjection(S, T)
      BY DEF Surjection
    <3> QED
      BY <3>2, <3>3 DEF Bijection
  <2>5. IsFiniteSet(T) /\ Cardinality(T) = 2^k
    <3>1. ExistsBijection(S, T)
      BY <2>4 DEF ExistsBijection
    <3> QED
      BY <2>2, <3>1, FS_Bijection
  <2>6. SUBSET (1 .. k + 1) = S \cup T
    <3>1. ASSUME NEW x \in SUBSET (1 .. k + 1)
          PROVE  x \in S \cup T
      <4>1. CASE k + 1 \in x
        <5>1. x \ {k + 1} \in S
          OBVIOUS
        <5>2. x = (x \ {k + 1}) \cup {k + 1}
          BY <4>1
        <5> QED
          BY <5>1, <5>2
      <4>2. CASE k + 1 \notin x
        BY <4>2
      <4> QED
        BY <4>1, <4>2
    <3>2. S \subseteq SUBSET (1 .. k + 1)
      OBVIOUS
    <3>3. T \subseteq SUBSET (1 .. k + 1)
      <4>1. \A x \in S : x \cup {k + 1} \subseteq 1 .. k + 1
        OBVIOUS
      <4> QED
        BY <4>1
    <3> QED
      BY <3>1, <3>2, <3>3
  <2>7. S \cap T = {}
    OBVIOUS
  <2>8. Cardinality(S \cap T) = 0
    BY <2>7, FS_EmptySet
  <2>9. Cardinality(S \cup T) = Cardinality(S) + Cardinality(T) - Cardinality(S \cap T)
    BY <2>2, <2>5, FS_Union
  <2>10. 2^k \in Nat
    BY PowerOfTwo
  <2> HIDE DEF S, T, f
  <2>11. Cardinality(SUBSET (1 .. k + 1)) = Cardinality(S \cup T)
    BY <2>6
  <2> QED
    BY <2>2, <2>3, <2>5, <2>8, <2>9, <2>10, <2>11
<1> QED
  BY <1>1, <1>2

\* The product of two powers
LEMMA PowerSum ==
  ASSUME NEW a \in Nat, NEW b \in Nat
  PROVE  2^(a + b) = 2^a * 2^b
<1> DEFINE S == {k \in Nat : 2^(a + k) # 2^a * 2^k}
<1>1. SUFFICES ASSUME S # {} PROVE FALSE
  OBVIOUS
<1>2. PICK k \in S : \A y \in S : k <= y
  BY <1>1, LeastNatural
<1>3. 2^a \in Nat
  BY PowerOfTwo
<1>4. k # 0
  <2>1. a + 0 = a /\ 2^a * 1 = 2^a
    BY <1>3
  <2>2. 0 \notin S
    BY <2>1, PowerStep
  <2> QED
    BY <1>2, <2>2
<1>5. PICK m \in Nat : k = m + 1
  BY <1>4
<1>6. 2^(a + m) = 2^a * 2^m
  <2>1. m \notin S
    BY <1>2, <1>5
  <2> QED
    BY <2>1
<1>7. 2^(a + k) = 2 * (2^a * 2^m)
  <2>1. a + k = (a + m) + 1 /\ a + m \in Nat
    BY <1>5
  <2>2. 2^((a + m) + 1) = 2 * 2^(a + m)
    BY <2>1, PowerStep
  <2> QED
    BY <2>1, <2>2, <1>6
<1>8. 2^k = 2 * 2^m /\ 2^m \in Nat
  BY <1>5, PowerStep, PowerOfTwo
<1>9. \A x \in Nat, y \in Nat : 2 * (x * y) = x * (2 * y)
  OBVIOUS
<1> QED
  BY <1>2, <1>3, <1>7, <1>8, <1>9

\* Larger exponents give larger powers.
LEMMA PowerOrder ==
  ASSUME NEW a \in Nat, NEW b \in Nat, a < b
  PROVE  2^(a + 1) <= 2^b
<1>1. PICK d \in Nat : b = (a + 1) + d
  <2>1. b - (a + 1) \in Nat /\ b = (a + 1) + (b - (a + 1))
    OBVIOUS
  <2> QED
    BY <2>1
<1>2. a + 1 \in Nat
  OBVIOUS
<1>3. 2^b = 2^(a + 1) * 2^d
  BY <1>1, <1>2, PowerSum
<1>4. 2^(a + 1) \in Nat /\ 2^d \in Nat /\ 2^d > 0
  BY <1>2, PowerOfTwo
<1>5. \A x \in Nat, y \in Nat : y > 0 => x <= x * y
  BY Z3
<1> QED
  BY <1>3, <1>4, <1>5

-----------------------------------------------------------------------------
\* Places in a row of blocks of b: block q, and r within it
LEMMA BlockOrder ==
  ASSUME NEW b \in Nat, NEW p \in Nat, NEW q \in Nat, p < q
  PROVE  b * p \in Nat /\ b * q \in Nat /\ b * p + b <= b * q
<1>1. \A x, y \in Nat : x * y \in Nat
  OBVIOUS
<1>2. PICK d \in Nat : q = p + 1 + d
  <2>1. q - p - 1 \in Nat /\ q = p + 1 + (q - p - 1)
    OBVIOUS
  <2> QED
    BY <2>1
<1>3. b * q = b * p + b + b * d
  BY <1>2
<1> QED
  BY <1>1, <1>3

\* A number is its place in its block behind the blocks before it.
LEMMA BlockOf ==
  ASSUME NEW b \in Nat, b > 0, NEW i \in Nat
  PROVE  /\ i \div b \in Nat /\ i % b \in 0 .. b - 1
         /\ b * (i \div b) \in Nat /\ i = b * (i \div b) + (i % b)
<1>1. \A x, y \in Nat : y > 0 => x \div y \in Int /\ x % y \in 0 .. y - 1
  BY Z3
<1>2. \A x, y \in Nat : y > 0 => x = y * (x \div y) + (x % y)
  BY Z3
<1>3. \A x, y \in Nat : y > 0 => x \div y >= 0
  BY Z3
<1>4. \A x, y \in Nat : x * y \in Nat
  OBVIOUS
<1>5. i \div b \in Nat
  BY <1>1, <1>3
<1> QED
  BY <1>1, <1>2, <1>4, <1>5

\* A place in a block has that block and that place.
LEMMA PlaceInBlock ==
  ASSUME NEW b \in Nat, b > 0, NEW q \in Nat, NEW r \in 0 .. b - 1
  PROVE  b * q + r \in Nat /\ (b * q + r) \div b = q /\ (b * q + r) % b = r
<1> DEFINE i == b * q + r
<1>1. i \in Nat /\ b * q \in Nat
  OBVIOUS
<1>2. /\ i \div b \in Nat /\ i % b \in 0 .. b - 1
      /\ b * (i \div b) \in Nat /\ i = b * (i \div b) + (i % b)
  BY <1>1, BlockOf
<1>3. ~(i \div b < q)
  <2> SUFFICES ASSUME i \div b < q PROVE FALSE
    OBVIOUS
  <2>1. b * (i \div b) + b <= b * q
    BY <1>2, BlockOrder
  <2> QED
    BY <1>1, <1>2, <2>1
<1>4. ~(q < i \div b)
  <2> SUFFICES ASSUME q < i \div b PROVE FALSE
    OBVIOUS
  <2>1. b * q + b <= b * (i \div b)
    BY <1>2, BlockOrder
  <2> QED
    BY <1>1, <1>2, <2>1
<1>5. i \div b = q
  BY <1>2, <1>3, <1>4
<1> QED
  BY <1>1, <1>2, <1>5

\* The places before a block are those of the blocks before it.
LEMMA BeforeBlock ==
  ASSUME NEW b \in Nat, b > 0, NEW i \in Nat, NEW q \in Nat
  PROVE  b * q \in Nat /\ (i \div b < q <=> i < b * q)
<1>1. /\ i \div b \in Nat /\ i % b \in 0 .. b - 1
      /\ b * (i \div b) \in Nat /\ i = b * (i \div b) + (i % b)
  BY BlockOf
<1>2. b * q \in Nat
  OBVIOUS
<1>3. ASSUME i \div b < q PROVE i < b * q
  <2>1. b * (i \div b) + b <= b * q
    BY <1>1, <1>3, BlockOrder
  <2> QED
    BY <1>1, <1>2, <2>1
<1>4. ASSUME ~(i \div b < q) PROVE ~(i < b * q)
  <2>1. q < i \div b => b * q + b <= b * (i \div b)
    BY <1>1, BlockOrder
  <2>2. b * q <= b * (i \div b)
    <3>1. q = i \div b \/ q < i \div b
      BY <1>1, <1>4
    <3> QED
      BY <1>1, <1>2, <2>1, <3>1
  <2> QED
    BY <1>1, <1>2, <2>2
<1> QED
  BY <1>2, <1>3, <1>4

-----------------------------------------------------------------------------
\* What each step of a definition by steps makes of the value before
Steps(a, b, X) == [a .. b -> [X -> X]]

\* A function that is defined from its last argument down has a value
\* everywhere.
LEMMA FunctionDown ==
  ASSUME NEW m \in Nat, NEW X, NEW first \in X, NEW step \in Steps(0, m, X)
  PROVE  \E f \in [0 .. m -> X] :
           \A l \in 0 .. m : f[l] = IF l = m THEN first ELSE step[l][f[l + 1]]
<1> DEFINE Upto(k, f) == /\ f \in [m - k .. m -> X]
                         /\ \A l \in m - k .. m :
                              f[l] = IF l = m THEN first ELSE step[l][f[l + 1]]
           Has(k) == \E f : Upto(k, f)
           S == {k \in Nat : k <= m /\ ~Has(k)}
<1>0. step \in [0 .. m -> [X -> X]]
  BY DEF Steps
<1>1. S = {}
  <2>1. SUFFICES ASSUME S # {} PROVE FALSE
    OBVIOUS
  <2>2. PICK k \in S : \A y \in S : k <= y
    BY <2>1, LeastNatural
  <2>3. k # 0
    <3>1. Upto(0, [l \in m - 0 .. m |-> first])
      OBVIOUS
    <3> QED
      BY <3>1, <2>2
  <2>4. Has(k - 1)
    <3>1. k - 1 \in Nat /\ ~(k <= k - 1) /\ k - 1 <= m
      BY <2>2, <2>3
    <3>2. k - 1 \notin S
      BY <2>2, <3>1
    <3> HIDE DEF Has
    <3> QED
      BY <3>1, <3>2
  <2>5. PICK f : Upto(k - 1, f)
    BY <2>4
  <2> DEFINE g == [l \in m - k .. m |-> IF l = m - k THEN step[l][f[l + 1]] ELSE f[l]]
  <2>6. k \in Nat /\ k <= m /\ m - k \in Nat /\ m - (k - 1) = (m - k) + 1 /\ m - k < m
    BY <2>2, <2>3
  <2>7. \A l \in (m - k) + 1 .. m : f[l] \in X
    BY <2>5, <2>6
  <2>8. g \in [m - k .. m -> X]
    <3>1. ASSUME NEW l \in m - k .. m
          PROVE  (IF l = m - k THEN step[l][f[l + 1]] ELSE f[l]) \in X
      <4>1. CASE l = m - k
        <5>1. l + 1 \in (m - k) + 1 .. m /\ l \in 0 .. m
          BY <4>1, <2>6
        <5> QED
          BY <1>0, <4>1, <5>1, <2>7
      <4>2. CASE l # m - k
        <5>1. l \in (m - k) + 1 .. m
          BY <4>2, <2>6
        <5> QED
          BY <4>2, <5>1, <2>7
      <4> QED
        BY <4>1, <4>2
    <3> QED
      BY <3>1
  <2>9. ASSUME NEW l \in m - k .. m
        PROVE  g[l] = IF l = m THEN first ELSE step[l][g[l + 1]]
    <3>1. CASE l = m - k
      <4>1. l # m /\ l + 1 \in m - k .. m /\ l + 1 # m - k
        BY <3>1, <2>6
      <4> QED
        BY <3>1, <4>1
    <3>2. CASE l # m - k
      <4>1. l \in (m - k) + 1 .. m
        BY <3>2, <2>6
      <4>2. f[l] = IF l = m THEN first ELSE step[l][f[l + 1]]
        BY <4>1, <2>5, <2>6
      <4>3. l # m => l + 1 \in m - k .. m /\ l + 1 # m - k
        BY <4>1, <2>6
      <4> QED
        BY <3>2, <4>2, <4>3
    <3> QED
      BY <3>1, <3>2
  <2>10. Upto(k, g)
    BY <2>8, <2>9
  <2> HIDE DEF g, Upto
  <2> QED
    BY <2>10, <2>2
<1>2. PICK f : Upto(m, f)
  <2> HIDE DEF Has
  <2>1. Has(m)
    BY <1>1
  <2> QED
    BY <2>1 DEF Has
<1>3. m - m = 0
  OBVIOUS
<1>4. f \in [0 .. m -> X]
  BY <1>2, <1>3
<1>5. \A l \in 0 .. m : f[l] = IF l = m THEN first ELSE step[l][f[l + 1]]
  BY <1>2, <1>3
<1> QED
  BY <1>4, <1>5

\* f starts with first, and each step makes the next value.
FollowsUp(f, a, b, first, step) ==
  \A l \in a .. b : f[l] = IF l = a THEN first ELSE step[l][f[l - 1]]

\* The same from the first argument up
LEMMA FunctionUp ==
  ASSUME NEW a \in Nat, NEW b \in Nat, a <= b, NEW X, NEW first \in X,
         NEW step \in Steps(a, b, X)
  PROVE  \E f \in [a .. b -> X] : FollowsUp(f, a, b, first, step)
<1> DEFINE m == b - a
           back == [k \in 0 .. m |-> step[b - k]]
<1>1. m \in Nat
  OBVIOUS
<1>2. back \in Steps(0, m, X)
  <2>1. \A k \in 0 .. m : b - k \in a .. b
    OBVIOUS
  <2> QED
    BY <2>1 DEF Steps
<1>3. PICK g \in [0 .. m -> X] :
        \A k \in 0 .. m : g[k] = IF k = m THEN first ELSE back[k][g[k + 1]]
  <2> HIDE DEF m, back
  <2> QED
    BY <1>1, <1>2, FunctionDown
<1> DEFINE f == [l \in a .. b |-> g[b - l]]
<1>4. f \in [a .. b -> X]
  <2>1. \A l \in a .. b : b - l \in 0 .. m
    OBVIOUS
  <2> HIDE DEF m
  <2> QED
    BY <1>3, <2>1
<1>5. ASSUME NEW l \in a .. b
      PROVE  f[l] = IF l = a THEN first ELSE step[l][f[l - 1]]
  <2>1. b - l \in 0 .. m /\ b - (b - l) = l
    OBVIOUS
  <2>2. g[b - l] = IF b - l = m THEN first ELSE back[b - l][g[(b - l) + 1]]
    <3> HIDE DEF m, back
    <3> QED
      BY <1>3, <2>1
  <2>3. CASE l = a
    BY <2>2, <2>3
  <2>4. CASE l # a
    <3>1. b - l # m /\ l - 1 \in a .. b /\ (b - l) + 1 = b - (l - 1)
      BY <2>4
    <3>2. back[b - l] = step[l]
      BY <2>1
    <3>3. f[l] = step[l][g[b - (l - 1)]]
      <4> HIDE DEF m, back
      <4> QED
        BY <2>2, <3>1, <3>2
    <3> QED
      BY <2>4, <3>1, <3>3
  <2> QED
    BY <2>3, <2>4
<1> HIDE DEF f
<1>6. FollowsUp(f, a, b, first, step)
  BY <1>5 DEF FollowsUp
<1> QED
  BY <1>4, <1>6

\* What holds of a number and is passed on to the next holds of those above.
LEMMA ReachedUp ==
  ASSUME NEW a \in Nat, NEW b \in Nat, NEW S, a \in S,
         \A v \in a .. b - 1 : v \in S => v + 1 \in S
  PROVE  a .. b \subseteq S
<1> DEFINE R == {v \in a .. b : v \notin S}
<1>1. SUFFICES ASSUME R # {} PROVE FALSE
  OBVIOUS
<1>2. PICK v \in R : \A y \in R : v <= y
  <2>1. R \subseteq Nat
    OBVIOUS
  <2> QED
    BY <1>1, <2>1, LeastNatural
<1>3. v # a /\ v \notin S
  OBVIOUS
<1>4. v - 1 \in a .. b - 1 /\ v - 1 \in a .. b /\ ~(v <= v - 1) /\ (v - 1) + 1 = v
  BY <1>3
<1>5. v - 1 \in S
  BY <1>2, <1>4
<1> QED
  BY <1>3, <1>4, <1>5

\* The greatest element of a bounded set of naturals
LEMMA MaxOf ==
  ASSUME NEW m \in Nat, NEW S, S \subseteq 0 .. m, S # {}
  PROVE  Max(S) \in S /\ \A y \in S : y <= Max(S)
<1> DEFINE B == {k \in Nat : \A y \in S : y <= k}
<1>1. m \in B
  OBVIOUS
<1>2. PICK k \in B : \A y \in B : k <= y
  BY <1>1, LeastNatural
<1>3. k \in S
  <2>1. SUFFICES ASSUME k \notin S PROVE FALSE
    OBVIOUS
  <2>2. PICK y \in S : TRUE
    OBVIOUS
  <2>3. \A x \in S : x \in Nat /\ x < k
    BY <2>1
  <2>4. k - 1 \in Nat /\ ~(k <= k - 1)
    BY <2>2, <2>3
  <2>5. k - 1 \in B
    BY <2>3, <2>4
  <2> QED
    BY <1>2, <2>4, <2>5
<1>4. \E x \in S : \A y \in S : x >= y
  <2>1. \A y \in S : k >= y
    OBVIOUS
  <2> QED
    BY <1>3, <2>1
<1>5. Max(S) = CHOOSE x \in S : \A y \in S : x >= y
  BY DEF Max
<1>6. Max(S) \in S /\ \A y \in S : Max(S) >= y
  BY <1>4, <1>5
<1> QED
  BY <1>6

-----------------------------------------------------------------------------
\* The number of members of S below v
Rank(S, v) == Cardinality({u \in S : u < v})

\* Counted sets
LEMMA RankType ==
  ASSUME NEW S, IsFiniteSet(S), NEW v
  PROVE  /\ IsFiniteSet({u \in S : u < v})
         /\ Rank(S, v) \in Nat
         /\ Rank(S, v) <= Cardinality(S) /\ Cardinality(S) \in Nat
<1>1. {u \in S : u < v} \in SUBSET S
  OBVIOUS
<1> QED
  BY <1>1, FS_Subset, FS_CardinalityType DEF Rank

\* Members in ascending order have ascending ranks.
LEMMA RankOrder ==
  ASSUME NEW S, S \subseteq Nat, IsFiniteSet(S), NEW v \in S, NEW w \in Nat, v < w
  PROVE  Rank(S, v) < Rank(S, w)
<1> DEFINE A == {u \in S : u < v}
           B == {u \in S : u < w}
<1>1. IsFiniteSet(A) /\ IsFiniteSet(B)
  BY RankType
<1>2. A \cup {v} \in SUBSET B /\ v \notin A
  <2>1. v \in Nat /\ v \in B /\ ~(v < v)
    OBVIOUS
  <2>2. ASSUME NEW u \in A PROVE u \in B
    <3>1. u \in Nat /\ v \in Nat /\ u < v /\ u \in S
      OBVIOUS
    <3> QED
      BY <3>1
  <2> QED
    BY <2>1, <2>2
<1>3. Cardinality(A \cup {v}) = Cardinality(A) + 1
  BY <1>1, <1>2, FS_AddElement
<1>4. Cardinality(A \cup {v}) <= Cardinality(B)
  BY <1>1, <1>2, FS_Subset
<1>5. Cardinality(A) \in Nat /\ Cardinality(B) \in Nat
  BY <1>1, FS_CardinalityType
<1> HIDE DEF A, B
<1>6. Cardinality(A) < Cardinality(B)
  BY <1>3, <1>4, <1>5
<1> QED
  BY <1>6 DEF Rank, A, B

\* A larger number has no smaller rank.
LEMMA RankGrows ==
  ASSUME NEW S, S \subseteq Nat, IsFiniteSet(S), NEW v \in Nat, NEW w \in Nat, v <= w
  PROVE  Rank(S, v) <= Rank(S, w)
<1>1. {u \in S : u < v} \in SUBSET {u \in S : u < w}
  <2>1. ASSUME NEW u \in S, u < v PROVE u < w
    <3>1. u \in Nat
      OBVIOUS
    <3> QED
      BY <2>1, <3>1
  <2> QED
    BY <2>1
<1>2. IsFiniteSet({u \in S : u < w})
  BY RankType
<1> QED
  BY <1>1, <1>2, FS_Subset DEF Rank

\* The rank of a member is less than the number of members.
LEMMA RankBelow ==
  ASSUME NEW S, S \subseteq Nat, IsFiniteSet(S), NEW v \in S
  PROVE  Rank(S, v) < Cardinality(S)
<1> DEFINE A == {u \in S : u < v}
<1>1. IsFiniteSet(A)
  BY RankType
<1>2. A \cup {v} \in SUBSET S /\ v \notin A
  OBVIOUS
<1>3. Cardinality(A \cup {v}) = Cardinality(A) + 1
  BY <1>1, <1>2, FS_AddElement
<1>4. Cardinality(A \cup {v}) <= Cardinality(S)
  BY <1>2, FS_Subset
<1>5. Cardinality(A) \in Nat /\ Cardinality(S) \in Nat
  BY <1>1, FS_CardinalityType
<1> HIDE DEF A
<1>6. Cardinality(A) < Cardinality(S)
  BY <1>3, <1>4, <1>5
<1> QED
  BY <1>6 DEF Rank, A

\* Members of equal ranks are equal.
LEMMA RankInjective ==
  ASSUME NEW S, S \subseteq Nat, IsFiniteSet(S), NEW v \in S, NEW w \in S,
         Rank(S, v) = Rank(S, w)
  PROVE  v = w
<1>1. v \in Nat /\ w \in Nat
  OBVIOUS
<1>2. v < w => Rank(S, v) < Rank(S, w)
  BY <1>1, RankOrder
<1>3. w < v => Rank(S, w) < Rank(S, v)
  BY <1>1, RankOrder
<1>4. Rank(S, v) \in Nat
  BY RankType
<1> QED
  BY <1>1, <1>2, <1>3, <1>4

\* Every number below that of the members is the rank of one.
LEMMA RankOnto ==
  ASSUME NEW S, S \subseteq Nat, IsFiniteSet(S), NEW k \in 0 .. Cardinality(S) - 1
  PROVE  \E v \in S : Rank(S, v) = k
<1> DEFINE T == 0 .. Cardinality(S) - 1
           f == [v \in S |-> Rank(S, v)]
<1>1. Cardinality(S) \in Nat
  BY FS_CardinalityType
<1>2. IsFiniteSet(T) /\ Cardinality(T) = Cardinality(S)
  <2>1. 0 \in Int /\ Cardinality(S) - 1 \in Int
    BY <1>1
  <2>2. IsFiniteSet(T) /\ Cardinality(T) = IF 0 > Cardinality(S) - 1 THEN 0
                                           ELSE (Cardinality(S) - 1) - 0 + 1
    BY <2>1, FS_Interval
  <2> QED
    BY <1>1, <2>2
<1>3. f \in Injection(S, T)
  <2>1. ASSUME NEW v \in S PROVE Rank(S, v) \in T
    <3>1. Rank(S, v) \in Nat
      BY RankType
    <3>2. Rank(S, v) < Cardinality(S)
      BY RankBelow
    <3> QED
      BY <1>1, <3>1, <3>2
  <2>2. f \in [S -> T]
    BY <2>1
  <2>3. \A v \in S, w \in S : f[v] = f[w] => v = w
    BY RankInjective
  <2> HIDE DEF f, T
  <2> QED
    BY <2>2, <2>3 DEF Injection, IsInjective
<1>4. f \in Surjection(S, T)
  BY <1>2, <1>3, FS_Injection
<1>5. \E v \in S : f[v] = k
  BY <1>4 DEF Surjection
<1> QED
  BY <1>5

\* The rank among the members of two disjoint sets
LEMMA RankOfUnion ==
  ASSUME NEW S, IsFiniteSet(S), NEW T, IsFiniteSet(T), S \cap T = {}, NEW v
  PROVE  Rank(S \cup T, v) = Rank(S, v) + Rank(T, v)
<1> DEFINE A == {u \in S : u < v}
           B == {u \in T : u < v}
<1>1. IsFiniteSet(A) /\ IsFiniteSet(B)
  BY RankType
<1>2. A \cap B = {}
  OBVIOUS
<1>3. {u \in S \cup T : u < v} = A \cup B
  OBVIOUS
<1> HIDE DEF A, B
<1>4. Cardinality(A \cup B) = Cardinality(A) + Cardinality(B) - Cardinality(A \cap B)
  BY <1>1, FS_Union
<1>5. Cardinality(A \cap B) = 0
  BY <1>2, FS_EmptySet
<1>6. Cardinality(A) \in Nat /\ Cardinality(B) \in Nat
  BY <1>1, FS_CardinalityType
<1>7. Cardinality(A \cup B) = Cardinality(A) + Cardinality(B)
  BY <1>4, <1>5, <1>6
<1> QED
  BY <1>3, <1>7 DEF Rank, A, B

\* What is below a bound and what is not
LEMMA RankFrom ==
  ASSUME NEW S, S \subseteq Nat, IsFiniteSet(S), NEW b \in Nat, NEW v \in Nat, b <= v
  PROVE  Rank(S, v) = Rank(S, b) + Rank({u \in S : b <= u}, v)
<1> DEFINE A == {u \in S : u < b}
           B == {u \in S : b <= u}
<1>1. IsFiniteSet(A) /\ IsFiniteSet(B)
  <2>1. A \in SUBSET S /\ B \in SUBSET S
    OBVIOUS
  <2> QED
    BY <2>1, FS_Subset
<1>2. A \cap B = {} /\ S = A \cup B
  <2>1. \A u \in S : (u < b) <=> ~(b <= u)
    OBVIOUS
  <2> QED
    BY <2>1
<1>3. {u \in A : u < v} = {u \in S : u < b}
  <2>1. \A u \in S : u < b => u < v
    OBVIOUS
  <2> QED
    BY <2>1
<1>4. Rank(A \cup B, v) = Rank(A, v) + Rank(B, v)
  <2> HIDE DEF A, B
  <2> QED
    BY <1>1, <1>2, RankOfUnion
<1>5. Rank(A, v) = Rank(S, b)
  BY <1>3 DEF Rank
<1> QED
  BY <1>2, <1>4, <1>5

\* When nothing is missing below v, its rank is its number.
LEMMA RankOfFull ==
  ASSUME NEW S, S \subseteq Nat, NEW v \in Nat, 0 .. v - 1 \subseteq S
  PROVE  Rank(S, v) = v
<1>1. {u \in S : u < v} = 0 .. v - 1
  <2>1. ASSUME NEW u \in S, u < v PROVE u \in 0 .. v - 1
    <3>1. u \in Nat
      OBVIOUS
    <3> QED
      BY <2>1, <3>1
  <2>2. \A u \in 0 .. v - 1 : u \in S /\ u < v
    OBVIOUS
  <2> QED
    BY <2>1, <2>2
<1>2. 0 \in Int /\ v - 1 \in Int
  OBVIOUS
<1>3. Cardinality(0 .. v - 1) = IF 0 > v - 1 THEN 0 ELSE (v - 1) - 0 + 1
  BY <1>2, FS_Interval
<1>4. (IF 0 > v - 1 THEN 0 ELSE (v - 1) - 0 + 1) = v
  OBVIOUS
<1> QED
  BY <1>1, <1>3, <1>4 DEF Rank

\* The next number is above one member more, if there is one.
LEMMA RankNext ==
  ASSUME NEW S, S \subseteq Nat, IsFiniteSet(S), NEW v \in Nat
  PROVE  Rank(S, v + 1) = IF v \in S THEN Rank(S, v) + 1 ELSE Rank(S, v)
<1> DEFINE A == {u \in S : u < v}
<1>1. IsFiniteSet(A) /\ v \notin A
  BY RankType
<1>0. \A u \in S : u < v + 1 <=> u < v \/ u = v
  OBVIOUS
<1>2. v \in S => {u \in S : u < v + 1} = A \cup {v}
  BY <1>0
<1>3. v \notin S => {u \in S : u < v + 1} = A
  BY <1>0
<1>4. Cardinality(A \cup {v}) = Cardinality(A) + 1
  BY <1>1, FS_AddElement
<1> QED
  BY <1>2, <1>3, <1>4 DEF Rank

\* Counting through a map that keeps members apart
LEMMA RankOfImage ==
  ASSUME NEW S, IsFiniteSet(S), NEW T, NEW f \in [S -> T],
         \A x \in S, y \in S : f[x] = f[y] => x = y,
         \A y \in T : \E x \in S : f[x] = y
  PROVE  IsFiniteSet(T) /\ Cardinality(T) = Cardinality(S)
<1>1. f \in Injection(S, T)
  BY DEF Injection, IsInjective
<1>2. f \in Surjection(S, T)
  BY DEF Surjection
<1>3. ExistsBijection(S, T)
  BY <1>1, <1>2 DEF ExistsBijection, Bijection
<1> QED
  BY <1>3, FS_Bijection

\* The numbers in S from a on, up to but without b
Within(S, a, b) == {k \in S : a <= k /\ k < b}

\* They are those that the rank grows by.
LEMMA RankWithin ==
  ASSUME NEW S, S \subseteq Nat, IsFiniteSet(S), NEW a \in Nat, NEW b \in Nat, a <= b
  PROVE  /\ Cardinality(Within(S, a, b)) \in Nat
         /\ Rank(S, b) = Rank(S, a) + Cardinality(Within(S, a, b))
<1> DEFINE R == {u \in S : a <= u}
<1>1. Rank(S, b) = Rank(S, a) + Rank(R, b)
  BY RankFrom
<1>2. Within(S, a, b) = {u \in R : u < b}
  BY DEF Within
<1>3. R \in SUBSET S
  OBVIOUS
<1> HIDE DEF R
<1>4. Rank(R, b) \in Nat
  BY <1>3, FS_Subset, RankType
<1> QED
  BY <1>1, <1>2, <1>4 DEF Rank

-----------------------------------------------------------------------------
(***************************************************************************)
(* The iterators over the runs of 1-bits of a bitmap (RunIter): what they  *)
(* are, for bitmaps of every length and runs cut anywhere.                 *)
(***************************************************************************)

\* The iterators over a bitmap of some length
Iterators(len) ==
  [len : {len}, bits : SUBSET (0 .. len - 1), cuts : SUBSET Int, pos : Nat, length : Nat]

\* An iterator stands on a run of its bitmap, or at the end of it.
Stands(it) ==
  /\ it.pos + it.length <= it.len
  /\ it.pos .. it.pos + it.length - 1 \subseteq it.bits
  /\ it.length = 0 => it.pos = it.len

\* The bits from a position on
From(S, p) == {i \in S : i >= p}

\* The iterator moved to the first run that is left from a position on
OnRunFrom(n, it, p) ==
  LET ones  == {i \in it.bits : i >= p}
      first == Min(ones)
      ends  == {i \in first + 1 .. it.len : i \notin it.bits \/ i \in it.cuts}
  IN  n = IF ones = {} THEN [it EXCEPT !.pos = it.len, !.length = 0]
          ELSE [it EXCEPT !.pos = first, !.length = Min(ends) - first]

\* Moved to the first run that is left from a position on, whole or in part, or
\* to the end where there is none, an iterator passes over no bit from the
\* position on.
LEMMA ForwardToStands ==
  ASSUME NEW len \in Nat, NEW it \in Iterators(len), NEW p \in Nat, NEW n,
         OnRunFrom(n, it, p)
  PROVE  /\ n \in Iterators(len) /\ n.bits = it.bits /\ n.cuts = it.cuts
         /\ Stands(n) /\ From(it.bits, n.pos) = From(it.bits, p)
         /\ n.length > 0 => n.pos >= p
<1> DEFINE ones == {i \in it.bits : i >= p}
<1>1. it.len = len /\ it.bits \subseteq 0 .. len - 1 /\ it.cuts \subseteq Int
  BY DEF Iterators
<1>2. CASE ones = {}
  <2>1. n = [it EXCEPT !.pos = it.len, !.length = 0]
    BY <1>2 DEF OnRunFrom
  <2>2. \A i \in it.bits : ~(i >= p) /\ ~(i >= len)
    BY <1>1, <1>2
  <2>3. n = [len |-> len, bits |-> it.bits, cuts |-> it.cuts, pos |-> len, length |-> 0]
    BY <1>1, <2>1 DEF Iterators
  <2> QED
    BY <1>1, <2>2, <2>3 DEF Iterators, Stands, From
<1>3. CASE ones # {}
  <2>1. PICK first \in ones : first = Min(ones) /\ \A i \in ones : first <= i
    BY <1>1, <1>3, MinOf
  <2>2. first \in Nat /\ first < len /\ first >= p /\ first \in it.bits
    BY <1>1
  <2> DEFINE ends == {i \in first + 1 .. it.len : i \notin it.bits \/ i \in it.cuts}
  <2>3. len \in ends /\ ends \subseteq Nat
    BY <1>1, <2>2
  <2>4. PICK last \in ends : last = Min(ends) /\ \A i \in ends : last <= i
    BY <2>3, MinOf
  <2>5. last \in first + 1 .. len
    BY <1>1
  <2>6. \A i \in it.bits : i >= first <=> i >= p
    BY <1>1, <2>1, <2>2
  <2>7. ASSUME NEW i \in Nat, first <= i, i < last PROVE i \in it.bits
    <3>1. i \notin ends
      <4>1. \A j \in ends : ~(j <= i)
        BY <1>1, <2>2, <2>3, <2>4, <2>5, <2>7
      <4> QED
        BY <4>1
    <3>2. i = first \/ i \in first + 1 .. it.len
      BY <1>1, <2>2, <2>5, <2>7
    <3> QED
      BY <2>2, <3>1, <3>2
  <2>8. n = [it EXCEPT !.pos = first, !.length = last - first]
    BY <1>3, <2>1, <2>4 DEF OnRunFrom
  <2>9. n = [len |-> len, bits |-> it.bits, cuts |-> it.cuts,
           pos |-> first, length |-> last - first]
    BY <1>1, <2>8 DEF Iterators
  <2> HIDE DEF ones, ends
  <2> QED
    BY <1>1, <2>2, <2>5, <2>6, <2>7, <2>9 DEF Iterators, Stands, From
<1> QED
  BY <1>2, <1>3
=============================================================================
